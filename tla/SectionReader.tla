---------------------------- MODULE SectionReader ----------------------------
(***************************************************************************)
(* SectionReader (src/src/section_reader.cpp): reads a section through a    *)
(* buffer of its own over a stream that all sections of a file share.       *)
(* The constructor reads the size field with the same read() that later     *)
(* reads the payload; read() copies what the buffer holds and refills it    *)
(* until the caller has its bytes, never asking the stream for more than    *)
(* the section still has; seek() drops the buffer and moves the stream.     *)
(*                                                                          *)
(* The stream is external.  It is a get position over a file that may be    *)
(* cut short anywhere (a trace whose recording died, a copy that was        *)
(* interrupted).  A read that meets the end delivers what there is.  The    *)
(* reader clears the stream's state after every seekg and every short read, *)
(* so the state never matters to it; but a seekg past the end moves the     *)
(* position of a file stream and does not move that of an in-memory one,    *)
(* which is what SeekPastEnd tells apart.                                   *)
(*                                                                          *)
(* One iteration of read()'s loop is one step.                              *)
(***************************************************************************)
EXTENDS Integers, Sequences, ByteStream

CONSTANTS File,          \* files: [bytes, base, declared], the section at base
          HdrSize,       \* sizeof(uint64_t) in the code
          BufSize,       \* 16 KiB in the code
          MaxRead,       \* bound: bytes asked for by one read
          SeekPastEnd    \* does seekg move a position past the end?

ASSUME FileAssumption ==
    \A f \in File : /\ f.bytes \in Seq(Nat)
                    /\ f.base \in Nat
                    /\ f.declared \in Nat
                    /\ f.base <= Len(f.bytes)
ASSUME SizeAssumption == HdrSize \in Nat \ {0} /\ BufSize \in Nat \ {0}
ASSUME BoundAssumption == MaxRead \in Nat
ASSUME SeekAssumption == SeekPastEnd \in BOOLEAN

VARIABLES file,                          \* the file being read
          get,                           \* the stream's get position
          phase,                         \* "new", "opening", "open", "dead"
          declared_size,
          start_stream_pos,
          bytes_lefts,
          stream_buffer,
          bytes_read_in_buffer,
          bytes_left_in_stream_buffer,
          call                           \* the call being served

section == <<declared_size, start_stream_pos>>
buffer == <<stream_buffer, bytes_read_in_buffer, bytes_left_in_stream_buffer>>
vars == <<file, get, phase, section, bytes_lefts, buffer, call>>

\* A call: what it does or how it ended, the stream_pos() it began at, the
\* bytes still owed to the caller and the bytes already delivered.
NoCall == [status |-> "idle", from |-> 0, owed |-> 0, out |-> <<>>]
Ended(status) == [NoCall EXCEPT !.status = status]

Least(m, n) == IF m <= n THEN m ELSE n

Init ==
    /\ file \in File
    /\ get = file.base
    /\ phase = "new"
    /\ declared_size = 0
    /\ start_stream_pos = 0
    /\ bytes_lefts = 0
    /\ stream_buffer = [i \in 1..BufSize |-> 0]
    /\ bytes_read_in_buffer = 0
    /\ bytes_left_in_stream_buffer = 0
    /\ call = NoCall

StreamPos == declared_size - bytes_lefts

\* The constructor starts by reading the size field as a section of its own.
Construct ==
    /\ phase = "new"
    /\ phase' = "opening"
    /\ bytes_lefts' = HdrSize
    /\ call' = [status |-> "reading", from |-> 0, owed |-> HdrSize, out |-> <<>>]
    /\ UNCHANGED <<file, get, section, buffer>>

Serving == phase = "open" /\ call.status # "reading"

\* read() refuses a size the section does not have, before touching anything.
ReadPastSection(size) ==
    /\ Serving
    /\ size > bytes_lefts
    /\ call' = Ended("end_of_section")
    /\ UNCHANGED <<file, get, phase, section, bytes_lefts, buffer>>

ReadStart(size) ==
    /\ Serving
    /\ size <= bytes_lefts
    /\ call' = [status |-> IF size = 0 THEN "done" ELSE "reading",
                from |-> StreamPos, owed |-> size, out |-> <<>>]
    /\ UNCHANGED <<file, get, phase, section, bytes_lefts, buffer>>

\* What a pass of the loop copies out of the buffer.
PassSize == Least(call.owed, bytes_left_in_stream_buffer)
\* Mutant: copies from the beginning of the buffer.
PassBytesFromStart == SubSeq(stream_buffer, 1, PassSize)

PassBytes == SubSeq(stream_buffer, bytes_read_in_buffer + 1,
                    bytes_read_in_buffer + PassSize)

\* Mutant: fills the whole buffer, whatever the section has left.
RequestBuffer == BufSize

\* The bytes the next fill_stream_buffer() gets: as many as the buffer takes
\* and the section still has, fewer when the file ends first.
Request == Least(bytes_lefts - PassSize, BufSize)
Available == IF get < Len(file.bytes) THEN Len(file.bytes) - get ELSE 0
\* Mutant: a short read counts as nothing read.
FillWhole == IF Available < Request THEN 0 ELSE Request

FillSize == Least(Request, Available)

\* The pass that completes the call.
LastPass ==
    /\ call.status = "reading"
    /\ call.owed = PassSize
    /\ call' = IF phase = "opening" THEN NoCall
               ELSE [call EXCEPT !.status = "done", !.owed = 0, !.out = @ \o PassBytes]
    /\ bytes_read_in_buffer' = bytes_read_in_buffer + PassSize
    /\ bytes_left_in_stream_buffer' = bytes_left_in_stream_buffer - PassSize
    /\ IF phase = "opening"
       THEN /\ phase' = "open"
            /\ declared_size' = file.declared
            /\ start_stream_pos' = get
            /\ bytes_lefts' = file.declared
       ELSE /\ bytes_lefts' = bytes_lefts - PassSize
            /\ UNCHANGED <<phase, section>>
    /\ UNCHANGED <<file, get, stream_buffer>>

\* Mutant: a refill does not rewind to the beginning of the buffer.
PassAndFillNoRewind ==
    /\ call.status = "reading"
    /\ call.owed > PassSize
    /\ stream_buffer' = Overwrite(stream_buffer, 0,
                                  SubSeq(file.bytes, get + 1, get + FillSize))
    /\ get' = get + FillSize
    /\ bytes_read_in_buffer' = bytes_read_in_buffer + PassSize
    /\ bytes_left_in_stream_buffer' = FillSize
    /\ bytes_lefts' = bytes_lefts - PassSize
    /\ call' = [call EXCEPT !.owed = @ - PassSize, !.out = @ \o PassBytes]
    /\ UNCHANGED <<file, section, phase>>

\* Mutant: the loop does not look whether the refill got anything.
PassAndFillUnchecked ==
    /\ call.status = "reading"
    /\ call.owed > PassSize
    /\ stream_buffer' = Overwrite(stream_buffer, 0,
                                  SubSeq(file.bytes, get + 1, get + FillSize))
    /\ get' = get + FillSize
    /\ bytes_read_in_buffer' = 0
    /\ bytes_left_in_stream_buffer' = FillSize
    /\ bytes_lefts' = bytes_lefts - PassSize
    /\ call' = [call EXCEPT !.owed = @ - PassSize, !.out = @ \o PassBytes]
    /\ UNCHANGED <<file, section, phase>>

\* A pass that leaves bytes owed and refills the buffer; it throws when the
\* stream has nothing more.  A constructor that throws leaves no object.
PassAndFill ==
    /\ call.status = "reading"
    /\ call.owed > PassSize
    /\ stream_buffer' = Overwrite(stream_buffer, 0,
                                  SubSeq(file.bytes, get + 1, get + FillSize))
    /\ get' = get + FillSize
    /\ bytes_read_in_buffer' = 0
    /\ bytes_left_in_stream_buffer' = FillSize
    /\ bytes_lefts' = bytes_lefts - PassSize
    /\ call' = [call EXCEPT !.status = IF FillSize = 0 THEN "end_of_stream" ELSE @,
                            !.owed = @ - PassSize,
                            !.out = @ \o PassBytes]
    /\ phase' = IF FillSize = 0 /\ phase = "opening" THEN "dead" ELSE phase
    /\ UNCHANGED <<file, section>>

\* seekg(p) followed by clear().
Seekg(p) == IF SeekPastEnd \/ p <= Len(file.bytes) THEN p ELSE get

\* seek(): std::logic_error outside the section.
SeekOutside(position) ==
    /\ Serving
    /\ position > declared_size
    /\ call' = Ended("logic_error")
    /\ UNCHANGED <<file, get, phase, section, bytes_lefts, buffer>>

\* Mutant: the buffer survives the seek.
SeekKeepsBuffer(position) ==
    /\ Serving
    /\ position <= declared_size
    /\ get' = Seekg(start_stream_pos + position)
    /\ bytes_lefts' = declared_size - position
    /\ call' = Ended("done")
    /\ UNCHANGED <<file, phase, section, buffer>>

SeekInside(position) ==
    /\ Serving
    /\ position <= declared_size
    /\ get' = Seekg(start_stream_pos + position)
    /\ bytes_read_in_buffer' = 0
    /\ bytes_left_in_stream_buffer' = 0
    /\ bytes_lefts' = declared_size - position
    /\ call' = Ended("done")
    /\ UNCHANGED <<file, phase, section, stream_buffer>>

\* seek_to_end() moves the shared stream behind the section for the next
\* section's reader; it keeps the buffer, so a second call on a buffer that
\* was not empty throws std::logic_error.
SeekToEnd ==
    /\ Serving
    /\ IF bytes_left_in_stream_buffer > bytes_lefts
       THEN /\ call' = Ended("logic_error")
            /\ UNCHANGED <<get, bytes_lefts>>
       ELSE /\ call' = Ended("at_end")
            /\ get' = Seekg(start_stream_pos + declared_size)
            /\ bytes_lefts' = 0
    /\ UNCHANGED <<file, phase, section, buffer>>

Pass == LastPass \/ PassAndFill

Next ==
    \/ Construct
    \/ \E size \in 0..MaxRead : ReadPastSection(size) \/ ReadStart(size)
    \/ Pass
    \/ \E position \in 0..(declared_size + 1) :
          SeekOutside(position) \/ SeekInside(position)
    \/ SeekToEnd

\* The loop of a call that was started runs on: it is plain sequential code.
Spec == Init /\ [][Next]_vars /\ WF_vars(Pass)

-----------------------------------------------------------------------------
\* Where the bytes being read lie: the size field first, then the payload.
Origin == IF phase = "open" THEN start_stream_pos ELSE file.base
Position == IF phase # "open" THEN HdrSize - bytes_lefts ELSE StreamPos

TypeOK ==
    /\ file \in File
    /\ get \in Nat
    /\ phase \in {"new", "opening", "open", "dead"}
    /\ declared_size \in Nat /\ start_stream_pos \in Nat /\ bytes_lefts \in Nat
    /\ stream_buffer \in Seq(Nat) /\ Len(stream_buffer) = BufSize
    /\ bytes_read_in_buffer \in 0..BufSize
    /\ bytes_left_in_stream_buffer \in 0..(BufSize - bytes_read_in_buffer)
    /\ call.status \in {"idle", "reading", "done", "end_of_section",
                        "end_of_stream", "logic_error", "at_end"}
    /\ call.from \in Nat /\ call.owed \in Nat /\ call.out \in Seq(Nat)

\* While bytes of the section remain to be read, the unread part of the buffer
\* is the part of the file at the current position, and the stream stands
\* right behind it (or past the end of a file that was cut short, after a
\* seek): no interleaving of reads, refills and seeks shifts one against the
\* other.
BufferWindow ==
    phase \in {"opening", "open"} /\ bytes_lefts >= bytes_left_in_stream_buffer =>
        /\ get = Origin + Position + bytes_left_in_stream_buffer
        /\ \A i \in 1..bytes_left_in_stream_buffer :
              stream_buffer[bytes_read_in_buffer + i]
                  = file.bytes[Origin + Position + i]

\* Reading a section never moves the shared stream beyond it: what follows is
\* left for the next section's reader, and start_stream_pos is right behind
\* the size field whatever the size of the buffer.
StaysInSection ==
    /\ phase = "opening" => get <= file.base + HdrSize
    /\ phase = "open" => /\ start_stream_pos = file.base + HdrSize
                         /\ declared_size = file.declared
                         /\ get <= start_stream_pos + declared_size
                         /\ call.status = "at_end" =>
                                get = start_stream_pos + declared_size

\* The bytes delivered by a read are those of the file at the position the
\* call began at, also across refills and after a seek.  This is what
\* trace_reader.h:44 says of seek: "Set the object as if context_id was just
\* read, and file was now at stream_position".
ReadsWhereSeeked ==
    phase = "open" =>
        \A i \in 1..Len(call.out) :
            /\ start_stream_pos + call.from + i <= Len(file.bytes)
            /\ call.out[i] = file.bytes[start_stream_pos + call.from + i]

\* In addition, the position has moved by exactly the bytes delivered, and a
\* call that reports success has delivered all it was asked for.
ReadDelivers ==
    /\ ReadsWhereSeeked
    /\ phase = "open" /\ call.status \in {"reading", "done", "end_of_stream"}
       /\ call.out # <<>> =>
           /\ StreamPos = call.from + Len(call.out)
           /\ call.status = "done" => call.owed = 0

\* UnexpectedEndOfStream is thrown exactly where a file that was cut short
\* ends: every byte before the cut was delivered, and no section that is
\* whole is ever reported as truncated.
TruncationExact ==
    call.status = "end_of_stream" =>
        /\ call.owed > 0
        /\ Len(file.bytes) < Origin + Position + call.owed
        /\ call.out # <<>> => Len(file.bytes) = Origin + Position

\* A read returns or throws; a truncated stream cannot make it spin.
CallReturns == call.status = "reading" ~> call.status # "reading"

=============================================================================
