------------------------ MODULE SectionReader_proofs ------------------------
(***************************************************************************)
(* Proofs about SectionReader over a file stream, for every file and cut,   *)
(* every size of the buffer and of the size field, and all sequences of     *)
(* reads and seeks.  Over an in-memory stream the invariants are false: a   *)
(* seek past the end of a cut file does not move it.                        *)
(***************************************************************************)
EXTENDS SectionReader, SequenceTheorems, TLAPS

\* Type, length and elements of a part of a sequence.
LEMMA SubSeqType ==
  ASSUME NEW T, NEW f \in Seq(T), NEW m \in Nat \ {0}, NEW n \in 0..Len(f)
  PROVE  /\ SubSeq(f, m, n) \in Seq(T)
         /\ Len(SubSeq(f, m, n)) = IF m <= n THEN n - (m - 1) ELSE 0
         /\ \A i \in 1..Len(SubSeq(f, m, n)) : SubSeq(f, m, n)[i] = f[(m - 1) + i]
<1>1. /\ Len(f) \in Nat /\ m \in Int /\ n \in Int
      /\ \A i \in m..n : f[i] \in T
  <2>1. Len(f) \in Nat
    BY LenProperties
  <2>2. m..n \subseteq 1..Len(f)
    BY <2>1
  <2> QED
    BY <2>1, <2>2, ElementOfSeq
<1>2. /\ SubSeq(f, m, n) \in Seq(T)
      /\ Len(SubSeq(f, m, n)) = IF m <= n THEN n - m + 1 ELSE 0
      /\ \A i \in 1..(n - m + 1) : SubSeq(f, m, n)[i] = f[m + i - 1]
  BY <1>1, SubSeqProperties
<1>3. /\ n - m + 1 = n - (m - 1)
      /\ \A i \in Int : m + i - 1 = (m - 1) + i
  BY <1>1
<1> QED
  BY <1>1, <1>2, <1>3

\* Overwriting the front of a sequence.
LEMMA FrontOverwritten ==
  ASSUME NEW T, NEW f \in Seq(T), NEW s \in Seq(T), Len(s) <= Len(f)
  PROVE  /\ Overwrite(f, 0, s) \in Seq(T) /\ Len(Overwrite(f, 0, s)) = Len(f)
         /\ \A i \in 1..Len(s) : Overwrite(f, 0, s)[i] = s[i]
<1>1. PICK m \in Nat, n \in Nat : m = Len(s) /\ n = Len(f) /\ m <= n
  BY LenProperties
<1>2. PICK right : right = SubSeq(f, m + 1, n)
  OBVIOUS
<1>3. right \in Seq(T) /\ Len(right) = n - m
  <2>1. m + 1 \in Nat \ {0} /\ n \in 0..Len(f)
    BY <1>1
  <2>2. right \in Seq(T) /\ Len(right) = IF m + 1 <= n THEN n - ((m + 1) - 1) ELSE 0
    BY <1>2, <2>1, SubSeqType
  <2> QED
    BY <1>1, <2>2
<1>4. SubSeq(f, 1, 0) = <<>>
  BY SubSeqEmpty
<1>5. <<>> \o s = s
  BY ConcatEmptySeq
<1>6. Overwrite(f, 0, s) = s \o right
  BY <1>1, <1>2, <1>4, <1>5 DEF Overwrite
<1>7. /\ s \o right \in Seq(T) /\ Len(s \o right) = Len(s) + Len(right)
      /\ \A i \in 1..(Len(s) + Len(right)) :
            (s \o right)[i] = IF i <= Len(s) THEN s[i] ELSE right[i - Len(s)]
  BY <1>3, ConcatProperties
<1>8. \A i \in 1..m : (s \o right)[i] = s[i]
  BY <1>1, <1>3, <1>7
<1>9. PICK r : r = s \o right
  OBVIOUS
<1>10. r \in Seq(T) /\ Len(r) = n /\ \A i \in 1..m : r[i] = s[i]
  BY <1>1, <1>3, <1>7, <1>8, <1>9
<1>11. r = Overwrite(f, 0, s)
  BY <1>6, <1>9
<1> QED
  BY <1>1, <1>10, <1>11

Statuses == {"idle", "reading", "done", "end_of_section",
             "end_of_stream", "logic_error", "at_end"}
Calls == [status : Statuses, from : Nat, owed : Nat, out : Seq(Nat)]

\* Where the reader is in the life of its section.
Placed ==
    /\ phase = "new" => /\ get = file.base
                        /\ bytes_left_in_stream_buffer = 0
                        /\ call = NoCall
    /\ phase = "opening" => /\ call.status = "reading" /\ call.from = 0
                            /\ call.owed = bytes_lefts
                            /\ bytes_lefts \in 1..HdrSize
                            /\ bytes_left_in_stream_buffer <= bytes_lefts
    /\ phase = "open" => /\ bytes_lefts <= declared_size
                         /\ \/ bytes_left_in_stream_buffer <= bytes_lefts
                            \/ bytes_lefts = 0
                         /\ call.status = "reading" => call.owed \in 1..bytes_lefts
    /\ phase = "dead" => call.status = "end_of_stream"

\* What the buffer holds for the section is in the file.
Buffered ==
    phase \in {"opening", "open"} /\ bytes_left_in_stream_buffer \in 1..bytes_lefts =>
        get <= Len(file.bytes)

\* The bytes of out are those of the file from the 0-based position on.
Copied(out, position) ==
    /\ Len(out) > 0 => position + Len(out) <= Len(file.bytes)
    /\ \A i \in 1..Len(out) : out[i] = file.bytes[position + i]

\* What a call has delivered so far, and how far it has come.
Served ==
    /\ Copied(call.out, Origin + call.from)
    /\ call.status = "reading" => Position = call.from + Len(call.out)
    /\ call.status \in {"done", "end_of_stream"} /\ Len(call.out) > 0 =>
           Position = call.from + Len(call.out)
    /\ call.status = "done" => call.owed = 0

\* A read is refused only where the file was cut.
RefusedAtCut ==
    call.status = "end_of_stream" =>
        /\ call.owed > 0
        /\ Len(file.bytes) < Origin + Position + call.owed
        /\ Len(call.out) > 0 => Len(file.bytes) = Origin + Position

IInv ==
    /\ TypeOK /\ call \in Calls
    /\ Placed
    /\ StaysInSection
    /\ BufferWindow
    /\ Buffered
    /\ Served
    /\ RefusedAtCut

-----------------------------------------------------------------------------
\* The types the steps below take apart.
Numbers ==
    /\ file.bytes \in Seq(Nat) /\ Len(file.bytes) \in Nat
    /\ file.base \in Nat /\ file.declared \in Nat
    /\ HdrSize \in Nat \ {0} /\ BufSize \in Nat \ {0}
    /\ get \in Nat /\ declared_size \in Nat /\ start_stream_pos \in Nat
    /\ bytes_left_in_stream_buffer \in Nat /\ bytes_read_in_buffer \in Nat
    /\ bytes_read_in_buffer + bytes_left_in_stream_buffer <= BufSize
    /\ Origin \in Nat /\ Position \in Int /\ bytes_lefts \in Nat

\* They follow from the invariant.
LEMMA Typed == IInv => Numbers
<1> SUFFICES ASSUME TypeOK PROVE Numbers
  BY DEF IInv
<1>1. file.bytes \in Seq(Nat) /\ file.base \in Nat /\ file.declared \in Nat
  BY FileAssumption DEF TypeOK
<1>2. Len(file.bytes) \in Nat
  BY <1>1, LenProperties
<1>3. HdrSize \in Nat \ {0} /\ BufSize \in Nat \ {0}
  BY SizeAssumption
<1> QED
  BY <1>1, <1>2, <1>3 DEF Numbers, TypeOK, Origin, Position, StreamPos

\* A call that has delivered nothing.
LEMMA EndedCall ==
  ASSUME NEW s \in Statuses
  PROVE  /\ Ended(s) \in Calls
         /\ Ended(s).status = s /\ Ended(s).from = 0 /\ Ended(s).owed = 0
         /\ Ended(s).out = <<>> /\ Len(Ended(s).out) = 0
BY EmptySeq DEF Ended, NoCall, Calls, Statuses

\* The call of a reader that was just made.
LEMMA IdleCall ==
  /\ NoCall \in Calls
  /\ NoCall.status = "idle" /\ NoCall.from = 0 /\ NoCall.owed = 0
  /\ NoCall.out = <<>> /\ Len(NoCall.out) = 0
BY EmptySeq DEF NoCall, Calls, Statuses

\* What one pass of the loop copies out of the buffer is what the file has at
\* the current position.
LEMMA PassCopies ==
  ASSUME IInv, call.status = "reading"
  PROVE  /\ phase \in {"opening", "open"}
         /\ PassSize \in Nat
         /\ PassSize <= bytes_left_in_stream_buffer
         /\ PassSize <= call.owed
         /\ call.owed # PassSize => PassSize = bytes_left_in_stream_buffer
         /\ bytes_left_in_stream_buffer <= bytes_lefts
         /\ call.owed \in 1..bytes_lefts
         /\ get = Origin + Position + bytes_left_in_stream_buffer
         /\ PassBytes \in Seq(Nat) /\ Len(PassBytes) = PassSize
         /\ Copied(PassBytes, Origin + Position)
<1>0. Numbers
  BY Typed
<1>1. /\ phase \in {"opening", "open"}
      /\ bytes_left_in_stream_buffer <= bytes_lefts
      /\ call.owed \in 1..bytes_lefts
  <2>1. phase # "new" /\ phase # "dead"
    BY IdleCall DEF IInv, Placed
  <2>2. phase \in {"opening", "open"}
    BY <2>1 DEF IInv, TypeOK
  <2>3. CASE phase = "opening"
    BY <2>3 DEF IInv, Placed
  <2>4. CASE phase = "open"
    BY <2>4, <1>0 DEF Numbers, IInv, Placed
  <2> QED
    BY <2>2, <2>3, <2>4
<1>2. call.owed \in Nat /\ bytes_lefts \in Nat
  BY <1>1, <1>0 DEF Numbers
<1>3. /\ PassSize \in Nat /\ PassSize <= bytes_left_in_stream_buffer
      /\ PassSize <= call.owed
      /\ call.owed # PassSize => PassSize = bytes_left_in_stream_buffer
  BY <1>2, <1>0 DEF Numbers, IInv, PassSize, Least
<1>4. /\ get = Origin + Position + bytes_left_in_stream_buffer
      /\ \A i \in 1..bytes_left_in_stream_buffer :
            stream_buffer[bytes_read_in_buffer + i] = file.bytes[Origin + Position + i]
  BY <1>1 DEF IInv, BufferWindow
<1>5. PICK r \in Nat : r = bytes_read_in_buffer
  BY <1>0 DEF Numbers
<1>6. PICK p \in Nat : p = PassSize
  BY <1>3
<1>7. /\ r + p <= BufSize /\ BufSize \in Nat
      /\ stream_buffer \in Seq(Nat) /\ Len(stream_buffer) = BufSize
  BY <1>3, <1>5, <1>6, <1>0 DEF Numbers, IInv, TypeOK
<1>8. PICK b \in Seq(Nat) : b = stream_buffer /\ Len(b) = BufSize
  BY <1>7
<1>9. r + 1 \in Nat \ {0} /\ r + p \in 0..Len(b) /\ (r + 1) - 1 = r
  BY <1>7, <1>8
<1>10. /\ SubSeq(b, r + 1, r + p) \in Seq(Nat)
       /\ Len(SubSeq(b, r + 1, r + p)) =
             IF r + 1 <= r + p THEN (r + p) - ((r + 1) - 1) ELSE 0
       /\ \A i \in 1..Len(SubSeq(b, r + 1, r + p)) :
             SubSeq(b, r + 1, r + p)[i] = b[((r + 1) - 1) + i]
  BY <1>9, SubSeqType
<1>11. PassBytes = SubSeq(b, r + 1, r + p)
  BY <1>5, <1>6, <1>8 DEF PassBytes
<1>12. /\ PassBytes \in Seq(Nat) /\ Len(PassBytes) = p
       /\ \A i \in 1..p : PassBytes[i] = b[r + i]
  BY <1>9, <1>10, <1>11
<1>13. \A i \in 1..p : PassBytes[i] = file.bytes[Origin + Position + i]
  <2>1. \A i \in 1..p : i \in 1..bytes_left_in_stream_buffer
    BY <1>3, <1>6, <1>0 DEF Numbers
  <2> QED
    BY <1>4, <1>5, <1>8, <1>12, <2>1
<1>14. p > 0 => Origin + Position + p <= Len(file.bytes)
  <2>1. p > 0 => get <= Len(file.bytes)
    BY <1>1, <1>3, <1>6, <1>0 DEF Numbers, IInv, Buffered
  <2> QED
    BY <1>3, <1>4, <1>6, <2>1, <1>0 DEF Numbers
<1>15. Copied(PassBytes, Origin + Position)
  BY <1>12, <1>13, <1>14 DEF Copied
<1> QED
  BY <1>1, <1>3, <1>4, <1>6, <1>12, <1>15

\* With it the call has delivered what the file has where the call began.
LEMMA PassDelivers ==
  ASSUME IInv, call.status = "reading"
  PROVE  /\ call.out \o PassBytes \in Seq(Nat)
         /\ Len(call.out \o PassBytes) = Len(call.out) + PassSize
         /\ Copied(call.out \o PassBytes, Origin + call.from)
<1>0. Numbers
  BY Typed
<1>1. call.out \in Seq(Nat) /\ call.from \in Nat
  BY DEF IInv, Calls
<1>2. PICK o \in Seq(Nat) : o = call.out
  BY <1>1
<1>3. PICK t \in Seq(Nat) : t = PassBytes
  BY PassCopies
<1>4. Len(o) \in Nat /\ Len(t) \in Nat /\ Len(t) = PassSize
  BY <1>3, PassCopies, LenProperties
<1>5. /\ o \o t \in Seq(Nat) /\ Len(o \o t) = Len(o) + Len(t)
      /\ \A i \in 1..(Len(o) + Len(t)) :
            (o \o t)[i] = IF i <= Len(o) THEN o[i] ELSE t[i - Len(o)]
  BY ConcatProperties
<1>6. PICK a \in Nat : a = Origin + call.from
  BY <1>1, <1>0 DEF Numbers
<1>7. Origin + Position = a + Len(o)
  <2>1. Position = call.from + Len(o)
    BY <1>2 DEF IInv, Served
  <2>2. PICK base \in Nat, from \in Nat : base = Origin /\ from = call.from
    BY <1>1, <1>0 DEF Numbers
  <2> QED
    BY <1>4, <1>6, <2>1, <2>2
<1>8. /\ Len(o) > 0 => a + Len(o) <= Len(file.bytes)
      /\ \A i \in 1..Len(o) : o[i] = file.bytes[a + i]
  BY <1>2, <1>6 DEF IInv, Served, Copied
<1>9. /\ Len(t) > 0 => a + Len(o) + Len(t) <= Len(file.bytes)
      /\ \A i \in 1..Len(t) : t[i] = file.bytes[a + Len(o) + i]
  BY <1>3, <1>7, PassCopies DEF Copied
<1>10. ASSUME NEW i \in 1..Len(o \o t)
       PROVE  (o \o t)[i] = file.bytes[a + i]
  <2>1. CASE i <= Len(o)
    BY <1>4, <1>5, <1>8, <2>1
  <2>2. CASE i > Len(o)
    <3>1. i - Len(o) \in 1..Len(t) /\ a + Len(o) + (i - Len(o)) = a + i
      BY <1>4, <1>5, <1>6, <2>2
    <3>2. (o \o t)[i] = t[i - Len(o)]
      BY <1>4, <1>5, <2>2
    <3> QED
      BY <1>9, <3>1, <3>2
  <2> QED
    BY <1>4, <1>5, <2>1, <2>2
<1>11. Len(o \o t) > 0 => a + Len(o \o t) <= Len(file.bytes)
  <2>1. CASE Len(t) > 0
    BY <1>4, <1>5, <1>9, <2>1
  <2>2. CASE Len(t) = 0
    BY <1>4, <1>5, <1>8, <2>2
  <2> QED
    BY <1>4, <2>1, <2>2
<1>12. Copied(o \o t, a)
  BY <1>10, <1>11 DEF Copied
<1> QED
  BY <1>2, <1>3, <1>4, <1>5, <1>6, <1>12

\* A refill gets what the file has at the get position, within the section.
LEMMA Refill ==
  ASSUME IInv, call.status = "reading", call.owed > PassSize,
         NEW filled,
         filled = Overwrite(stream_buffer, 0,
                            SubSeq(file.bytes, get + 1, get + FillSize))
  PROVE  /\ PassSize = bytes_left_in_stream_buffer
         /\ FillSize \in 0..BufSize
         /\ FillSize <= bytes_lefts - PassSize
         /\ FillSize > 0 => get + FillSize <= Len(file.bytes)
         /\ FillSize = 0 => Len(file.bytes) <= get
         /\ filled \in Seq(Nat) /\ Len(filled) = BufSize
         /\ \A i \in 1..FillSize : filled[i] = file.bytes[get + i]
<1>0. Numbers
  BY Typed
<1>1. /\ PassSize \in Nat /\ PassSize = bytes_left_in_stream_buffer
      /\ call.owed \in 1..bytes_lefts /\ bytes_lefts \in Nat
  BY PassCopies, <1>0 DEF Numbers
<1>2. Request \in 1..BufSize /\ Request <= bytes_lefts - PassSize
  BY <1>1, SizeAssumption DEF Request, Least
<1>3. Available \in Nat /\ (Available > 0 => get + Available <= Len(file.bytes))
      /\ (Available = 0 => Len(file.bytes) <= get)
  <2>1. PICK g \in Nat, l \in Nat : g = get /\ l = Len(file.bytes)
    BY <1>0 DEF Numbers
  <2>2. Available = IF g < l THEN l - g ELSE 0
    BY <2>1 DEF Available
  <2> QED
    BY <2>1, <2>2
<1>4. /\ FillSize \in 0..BufSize /\ FillSize <= bytes_lefts - PassSize
      /\ FillSize <= Available
      /\ FillSize = 0 => Available = 0
  BY <1>1, <1>2, <1>3, SizeAssumption DEF FillSize, Least
<1>5. PICK n \in 0..BufSize : n = FillSize
  BY <1>4
<1>6. PICK g \in Nat : g = get
  BY DEF IInv, TypeOK
<1>7. n \in Nat /\ (n > 0 => g + n <= Len(file.bytes))
      /\ (n = 0 => Len(file.bytes) <= g)
  BY <1>3, <1>4, <1>5, <1>6, <1>0 DEF Numbers
<1>8. PICK fresh : fresh = SubSeq(file.bytes, g + 1, g + n)
  OBVIOUS
<1>9. /\ fresh \in Seq(Nat) /\ Len(fresh) = n
      /\ \A i \in 1..n : fresh[i] = file.bytes[g + i]
  <2>1. CASE n = 0
    <3>1. fresh = <<>>
      BY <1>7, <1>8, <2>1, SubSeqEmpty
    <3> QED
      BY <2>1, <3>1, EmptySeq
  <2>2. CASE n > 0
    <3>1. PICK f \in Seq(Nat) : f = file.bytes
      BY <1>0 DEF Numbers
    <3>2. g + 1 \in Nat \ {0} /\ g + n \in 0..Len(f) /\ (g + 1) - 1 = g
          /\ (g + n) - g = n /\ g + 1 <= g + n
      BY <1>7, <2>2, <3>1, <1>0 DEF Numbers
    <3>3. /\ SubSeq(f, g + 1, g + n) \in Seq(Nat)
          /\ Len(SubSeq(f, g + 1, g + n)) =
                IF g + 1 <= g + n THEN (g + n) - ((g + 1) - 1) ELSE 0
          /\ \A i \in 1..Len(SubSeq(f, g + 1, g + n)) :
                SubSeq(f, g + 1, g + n)[i] = f[((g + 1) - 1) + i]
      BY <3>2, SubSeqType
    <3> QED
      BY <1>8, <3>1, <3>2, <3>3
  <2> QED
    BY <1>7, <2>1, <2>2
<1>10. PICK b \in Seq(Nat) : b = stream_buffer /\ Len(b) = BufSize
  BY DEF IInv, TypeOK
<1>11. filled = Overwrite(b, 0, fresh)
  BY <1>5, <1>6, <1>8, <1>10
<1>12. Len(fresh) <= Len(b)
  BY <1>9, <1>10, SizeAssumption
<1>13. /\ Overwrite(b, 0, fresh) \in Seq(Nat)
       /\ Len(Overwrite(b, 0, fresh)) = Len(b)
       /\ \A i \in 1..Len(fresh) : Overwrite(b, 0, fresh)[i] = fresh[i]
  BY <1>9, <1>10, <1>12, FrontOverwritten
<1>14. filled \in Seq(Nat) /\ Len(filled) = BufSize
  BY <1>10, <1>11, <1>13
<1>15. \A i \in 1..n : filled[i] = fresh[i]
  BY <1>9, <1>11, <1>13
<1> QED
  BY <1>1, <1>4, <1>5, <1>6, <1>7, <1>9, <1>14, <1>15

-----------------------------------------------------------------------------
\* A reader that is not constructed yet satisfies it.
LEMMA InitInv == Init => IInv
<1> SUFFICES ASSUME Init PROVE IInv
  OBVIOUS
<1>1. NoCall \in Calls /\ call = NoCall
  BY IdleCall DEF Init
<1>2. stream_buffer \in Seq(Nat) /\ Len(stream_buffer) = BufSize
  BY SizeAssumption DEF Init
<1>3. TypeOK
  BY <1>1, <1>2, FileAssumption, SizeAssumption DEF Init, TypeOK, Calls, Statuses
<1>4. Placed /\ StaysInSection /\ BufferWindow /\ Buffered
  BY DEF Init, Placed, StaysInSection, BufferWindow, Buffered
<1>5. Served /\ RefusedAtCut
  BY <1>1, IdleCall DEF Served, RefusedAtCut, Copied
<1> QED
  BY <1>1, <1>3, <1>4, <1>5 DEF IInv

\* The constructor asks for the size field.
LEMMA ConstructInv == IInv /\ Construct => IInv'
<1> SUFFICES ASSUME IInv, Construct PROVE IInv'
  OBVIOUS
<1>1. call'.status = "reading" /\ call'.from = 0 /\ call'.owed = HdrSize
      /\ call'.out = <<>> /\ Len(call'.out) = 0 /\ call' \in Calls
  BY SizeAssumption, EmptySeq DEF Construct, Calls, Statuses
<1>2. TypeOK'
  BY <1>1, SizeAssumption
     DEF IInv, TypeOK, Construct, section, buffer, Calls, Statuses
<1>3. get = file.base /\ bytes_left_in_stream_buffer = 0
  BY DEF IInv, Placed, Construct
<1>4. Placed' /\ StaysInSection' /\ Buffered'
  BY <1>1, <1>3, Typed DEF Numbers, IInv, Construct, Placed, StaysInSection, Buffered,
                           section, buffer
<1>5. Origin' = file.base /\ Position' = 0
  BY Typed DEF Numbers, IInv, Construct, Origin, Position
<1>6. BufferWindow'
  BY <1>3, <1>5, Typed DEF Numbers, IInv, Construct, BufferWindow, section, buffer
<1>7. Served' /\ RefusedAtCut'
  BY <1>1, <1>5, SizeAssumption DEF Served, RefusedAtCut, Copied, Construct
<1> QED
  BY <1>1, <1>2, <1>4, <1>6, <1>7 DEF IInv

\* A step that only begins or refuses a call.
LEMMA CallInv ==
  ASSUME IInv, Serving,
         UNCHANGED <<file, get, phase, section, bytes_lefts, buffer>>,
         call' \in Calls,
         Len(call'.out) = 0,
         call'.status \notin {"at_end", "end_of_stream"},
         call'.status = "reading" => /\ call'.from = StreamPos
                                     /\ call'.owed \in 1..bytes_lefts,
         call'.status = "done" => call'.owed = 0
  PROVE  IInv'
<1>1. TypeOK'
  BY DEF IInv, TypeOK, section, buffer, Calls, Statuses
<1>2. phase = "open" /\ phase' = "open"
  BY DEF Serving
<1>3. Placed' /\ StaysInSection'
  BY <1>2, Zenon DEF IInv, Placed, StaysInSection, section, buffer
<1>4. Origin' = Origin /\ Position' = Position /\ Position = StreamPos
  BY <1>2 DEF Origin, Position, StreamPos, section
<1>5. BufferWindow' /\ Buffered'
  BY <1>2, <1>4 DEF IInv, BufferWindow, Buffered, section, buffer
<1>6. Served' /\ RefusedAtCut'
  <2>1. Position' \in Int
    BY <1>4, Typed DEF Numbers, IInv
  <2> QED
    BY <1>4, <2>1, Typed DEF Numbers, IInv, Served, RefusedAtCut, Copied, Calls
<1> QED
  BY <1>1, <1>3, <1>5, <1>6 DEF IInv

\* A read of more than the section has is refused.
LEMMA ReadPastSectionInv ==
  ASSUME NEW size \in 0..MaxRead, IInv, ReadPastSection(size)
  PROVE  IInv'
<1>1. "end_of_section" \in Statuses
  BY DEF Statuses
<1> QED
  BY <1>1, CallInv, EndedCall DEF ReadPastSection

\* A read begins where the reader stands.
LEMMA ReadStartInv ==
  ASSUME NEW size \in 0..MaxRead, IInv, ReadStart(size)
  PROVE  IInv'
<1>1. size \in Nat /\ size <= bytes_lefts /\ bytes_lefts \in Nat
  BY BoundAssumption, Typed DEF Numbers, ReadStart, IInv
<1>2. StreamPos \in Nat
  BY Typed DEF Numbers, IInv, TypeOK, ReadStart, Serving, Placed, StreamPos
<1>3. /\ call' \in Calls /\ Len(call'.out) = 0
      /\ call'.status = IF size = 0 THEN "done" ELSE "reading"
      /\ call'.from = StreamPos /\ call'.owed = size
  BY <1>1, <1>2, EmptySeq DEF ReadStart, Calls, Statuses
<1> QED
  BY <1>1, <1>3, CallInv DEF ReadStart

\* A seek outside the section is refused.
LEMMA SeekOutsideInv ==
  ASSUME NEW position \in Nat, IInv, SeekOutside(position)
  PROVE  IInv'
<1>1. "logic_error" \in Statuses
  BY DEF Statuses
<1> QED
  BY <1>1, CallInv, EndedCall DEF SeekOutside

\* A seek drops the buffer and moves the stream to where the position is.
LEMMA SeekInsideInv ==
  ASSUME SeekPastEnd, NEW position \in Nat, IInv, SeekInside(position)
  PROVE  IInv'
<1>1. /\ call' \in Calls /\ call'.status = "done" /\ call'.from = 0
      /\ call'.owed = 0 /\ Len(call'.out) = 0
  BY EndedCall DEF SeekInside, Statuses
<1>2. phase = "open" /\ phase' = "open" /\ position <= declared_size
  BY DEF SeekInside, Serving
<1>3. get' = start_stream_pos + position /\ bytes_lefts' = declared_size - position
      /\ bytes_left_in_stream_buffer' = 0
  BY DEF SeekInside, Seekg
<1>4. TypeOK'
  BY <1>1, <1>2, <1>3, SizeAssumption
     DEF IInv, TypeOK, SeekInside, section, Calls, Statuses
<1>5. Placed' /\ StaysInSection' /\ Buffered'
  BY <1>1, <1>2, <1>3
     DEF IInv, TypeOK, SeekInside, section, Placed, StaysInSection, Buffered
<1>6. Origin' = start_stream_pos /\ Position' = position
  BY <1>2, <1>3 DEF IInv, TypeOK, SeekInside, section, Origin, Position, StreamPos
<1>7. BufferWindow'
  <2>1. get' = Origin' + Position' + bytes_left_in_stream_buffer'
    BY <1>3, <1>6, Typed DEF Numbers
  <2>2. 1..bytes_left_in_stream_buffer' = {}
    BY <1>3
  <2> QED
    BY <2>1, <2>2 DEF BufferWindow
<1>8. Served' /\ RefusedAtCut'
  BY <1>1 DEF Served, RefusedAtCut, Copied
<1> QED
  BY <1>1, <1>4, <1>5, <1>7, <1>8 DEF IInv

\* seek_to_end() keeps the buffer, which only matters when bytes are left.
LEMMA SeekToEndInv ==
  ASSUME SeekPastEnd, IInv, SeekToEnd
  PROVE  IInv'
<1>1. CASE bytes_left_in_stream_buffer > bytes_lefts
  <2>1. "logic_error" \in Statuses
    BY DEF Statuses
  <2> QED
    BY <1>1, <2>1, CallInv, EndedCall DEF SeekToEnd
<1>2. CASE ~(bytes_left_in_stream_buffer > bytes_lefts)
  <2>1. /\ call' \in Calls /\ call'.status = "at_end" /\ call'.from = 0
        /\ call'.owed = 0 /\ Len(call'.out) = 0
    BY <1>2, EndedCall DEF SeekToEnd, Statuses
  <2>2. phase = "open" /\ phase' = "open" /\ bytes_lefts' = 0
        /\ get' = start_stream_pos + declared_size
    BY <1>2 DEF SeekToEnd, Serving, Seekg
  <2>3. TypeOK'
    BY <2>1, <2>2 DEF IInv, TypeOK, SeekToEnd, section, buffer, Calls, Statuses
  <2>4. Placed' /\ StaysInSection' /\ Buffered'
    BY <2>1, <2>2
       DEF IInv, TypeOK, SeekToEnd, section, buffer, Placed, StaysInSection, Buffered
  <2>5. Origin' = start_stream_pos /\ Position' = declared_size
    BY <2>2 DEF IInv, TypeOK, SeekToEnd, section, Origin, Position, StreamPos
  <2>6. BufferWindow'
    <3> SUFFICES ASSUME bytes_lefts' >= bytes_left_in_stream_buffer'
                 PROVE  /\ get' = Origin' + Position' + bytes_left_in_stream_buffer'
                        /\ 1..bytes_left_in_stream_buffer' = {}
      BY DEF BufferWindow
    <3>1. bytes_left_in_stream_buffer' \in Nat
      BY <2>3 DEF TypeOK
    <3>2. bytes_left_in_stream_buffer' = 0
      BY <2>2, <3>1
    <3> QED
      BY <2>2, <2>5, <3>2, Typed DEF Numbers
  <2>7. Served' /\ RefusedAtCut'
    BY <2>1 DEF Served, RefusedAtCut, Copied
  <2> QED
    BY <2>1, <2>3, <2>4, <2>6, <2>7 DEF IInv
<1> QED
  BY <1>1, <1>2

\* The pass that ends a read, or the constructor's read of the size.
LEMMA LastPassInv == IInv /\ LastPass => IInv'
<1> SUFFICES ASSUME IInv, LastPass PROVE IInv'
  OBVIOUS
<1>0. Numbers
  BY Typed
<1>1. call.status = "reading" /\ call.owed = PassSize
  BY DEF LastPass
<1>2. PICK p \in Nat : p = PassSize
  BY <1>1, PassCopies
<1>3. /\ p <= bytes_left_in_stream_buffer
      /\ bytes_left_in_stream_buffer <= bytes_lefts
      /\ p \in 1..bytes_lefts
      /\ get = Origin + Position + bytes_left_in_stream_buffer
      /\ bytes_read_in_buffer' = bytes_read_in_buffer + p
      /\ bytes_left_in_stream_buffer' = bytes_left_in_stream_buffer - p
      /\ UNCHANGED <<file, get, stream_buffer>>
  BY <1>1, <1>2, PassCopies DEF LastPass
<1>4. CASE phase = "opening"
  <2>1. /\ phase' = "open" /\ declared_size' = file.declared
        /\ start_stream_pos' = get /\ bytes_lefts' = file.declared
        /\ call' = NoCall
    BY <1>4 DEF LastPass
  <2>2. /\ get = file.base + HdrSize /\ bytes_left_in_stream_buffer' = 0
    <3>1. p = bytes_lefts
      BY <1>1, <1>2, <1>4 DEF IInv, Placed
    <3>2. Origin = file.base /\ Position = HdrSize - p
      BY <1>4, <3>1 DEF Origin, Position
    <3>3. PICK h \in Nat, base \in Nat, b \in Nat :
             h = HdrSize /\ base = file.base /\ b = bytes_left_in_stream_buffer
      BY <1>0 DEF Numbers
    <3>4. p <= b /\ b <= p /\ get = base + (h - p) + b
          /\ bytes_left_in_stream_buffer' = b - p
      BY <1>3, <3>1, <3>2, <3>3
    <3>5. b - p = 0 /\ base + (h - p) + b = base + h
      BY <3>4
    <3> QED
      BY <3>3, <3>4, <3>5
  <2>3. TypeOK'
    BY <1>3, <2>1, <2>2, <1>0, IdleCall DEF Numbers, IInv, TypeOK, Calls, Statuses
  <2>4. Placed' /\ StaysInSection' /\ Buffered'
    BY <1>3, <2>1, <2>2, <1>0, IdleCall
       DEF Numbers, IInv, Placed, StaysInSection, Buffered
  <2>5. Origin' = get /\ Position' = 0
    BY <2>1, <1>0 DEF Numbers, IInv, Origin, Position, StreamPos
  <2>6. BufferWindow'
    <3>1. get' = Origin' + Position' + bytes_left_in_stream_buffer'
      BY <1>0, <1>3, <2>2, <2>5 DEF Numbers
    <3>2. 1..bytes_left_in_stream_buffer' = {}
      BY <2>2
    <3> QED
      BY <3>1, <3>2 DEF BufferWindow
  <2>7. Served' /\ RefusedAtCut'
    BY <2>1, IdleCall DEF Served, RefusedAtCut, Copied
  <2> QED
    BY <2>1, <2>3, <2>4, <2>6, <2>7, IdleCall DEF IInv
<1>5. CASE phase # "opening"
  <2>1. /\ phase = "open" /\ phase' = "open" /\ UNCHANGED section
        /\ bytes_lefts' = bytes_lefts - p
        /\ call' = [call EXCEPT !.status = "done", !.owed = 0, !.out = @ \o PassBytes]
    BY <1>1, <1>2, <1>5, PassCopies DEF LastPass
  <2>2. /\ call' \in Calls /\ call'.status = "done" /\ call'.owed = 0
        /\ call'.from = call.from /\ call'.out = call.out \o PassBytes
    BY <1>1, <2>1, PassDelivers DEF IInv, Calls, Statuses
  <2>3. TypeOK'
    <3>1. /\ bytes_read_in_buffer' \in 0..BufSize
          /\ bytes_left_in_stream_buffer' \in 0..(BufSize - bytes_read_in_buffer')
          /\ bytes_lefts' \in Nat
      <4>1. PICK n \in Nat, r \in Nat, b \in Nat, l \in Nat :
               /\ n = BufSize /\ r = bytes_read_in_buffer
               /\ b = bytes_left_in_stream_buffer /\ l = bytes_lefts
        BY <1>0 DEF Numbers
      <4>2. p <= b /\ r + b <= n /\ p <= l
        BY <1>0, <1>3, <4>1 DEF Numbers
      <4>3. r + p \in 0..n /\ b - p \in 0..(n - (r + p)) /\ l - p \in Nat
        BY <4>2
      <4> QED
        BY <1>3, <2>1, <4>1, <4>3
    <3>2. /\ call'.status \in Statuses
          /\ call'.from \in Nat /\ call'.owed \in Nat /\ call'.out \in Seq(Nat)
      BY <2>2 DEF Calls
    <3> QED
      BY <1>3, <2>1, <3>1, <3>2 DEF IInv, TypeOK, section, Statuses
  <2>4. Placed' /\ StaysInSection' /\ Buffered'
    <3>1. /\ bytes_lefts <= declared_size /\ declared_size' = declared_size
          /\ bytes_left_in_stream_buffer \in 1..bytes_lefts => get <= Len(file.bytes)
      BY <2>1 DEF IInv, Placed, Buffered, section
    <3>2. /\ bytes_lefts' <= declared_size'
          /\ bytes_left_in_stream_buffer' <= bytes_lefts'
          /\ bytes_left_in_stream_buffer' \in 1..bytes_lefts' => get <= Len(file.bytes)
      <4>1. PICK b \in Nat, l \in Nat, d \in Nat :
               /\ b = bytes_left_in_stream_buffer /\ l = bytes_lefts
               /\ d = declared_size
        BY <1>0 DEF Numbers
      <4>2. p <= b /\ b <= l /\ l <= d
        BY <1>3, <3>1, <4>1
      <4>3. l - p <= d /\ b - p <= l - p /\ (b - p > 0 => b \in 1..l)
        BY <1>2, <4>1, <4>2
      <4>4. b - p \in Nat
        BY <1>2, <4>1, <4>2
      <4> QED
        BY <1>3, <2>1, <3>1, <4>1, <4>3, <4>4
    <3>3. StaysInSection'
      BY <1>3, <2>1, <2>2 DEF IInv, StaysInSection, section
    <3> QED
      BY <1>3, <2>1, <2>2, <3>2, <3>3 DEF Placed, Buffered
  <2>5. Origin' = Origin /\ Position' = Position + p
    BY <1>3, <2>1, <1>0 DEF Numbers, IInv, TypeOK, section, Origin, Position, StreamPos
  <2>6. BufferWindow'
    <3>1. get' = Origin' + Position' + bytes_left_in_stream_buffer'
      BY <1>3, <2>5, <1>0 DEF Numbers
    <3>2. ASSUME NEW i \in 1..bytes_left_in_stream_buffer'
          PROVE  stream_buffer'[bytes_read_in_buffer' + i]
                     = file'.bytes[Origin' + Position' + i]
      <4>1. p + i \in 1..bytes_left_in_stream_buffer
        BY <1>3, <1>0 DEF Numbers
      <4>2. stream_buffer[bytes_read_in_buffer + (p + i)]
                = file.bytes[Origin + Position + (p + i)]
        BY <1>3, <2>1, <4>1 DEF IInv, BufferWindow
      <4>3. /\ bytes_read_in_buffer' + i = bytes_read_in_buffer + (p + i)
            /\ Origin' + Position' + i = Origin + Position + (p + i)
        BY <1>3, <2>5, <4>1, <1>0 DEF Numbers
      <4> QED
        BY <1>3, <4>2, <4>3
    <3> QED
      BY <3>1, <3>2 DEF BufferWindow
  <2>7. /\ Len(call'.out) > 0 =>
               Origin' + call'.from + Len(call'.out) <= Len(file'.bytes)
        /\ \A i \in 1..Len(call'.out) :
               call'.out[i] = file'.bytes[Origin' + call'.from + i]
    BY <1>1, <1>3, <2>2, <2>5, PassDelivers DEF Copied
  <2>8. Served' /\ RefusedAtCut'
    <3>1. Len(call'.out) = Len(call.out) + p
      BY <1>1, <1>2, <2>2, PassDelivers
    <3>2. Position = call.from + Len(call.out)
      BY <1>1 DEF IInv, Served
    <3>3. Len(call.out) \in Nat /\ call.from \in Nat
      BY LenProperties DEF IInv, Calls
    <3>4. Position' = call'.from + Len(call'.out)
      BY <1>3, <2>2, <2>5, <3>1, <3>2, <3>3
    <3> QED
      BY <2>2, <2>7, <3>4 DEF Served, RefusedAtCut, Copied
  <2> QED
    BY <2>2, <2>3, <2>4, <2>6, <2>8 DEF IInv
<1> QED
  BY <1>4, <1>5

\* A pass with a refill, also one that meets the end of the file.
LEMMA PassAndFillInv == IInv /\ PassAndFill => IInv'
<1> SUFFICES ASSUME IInv, PassAndFill PROVE IInv'
  OBVIOUS
<1>0. Numbers
  BY Typed
<1>1. call.status = "reading" /\ call.owed > PassSize
  BY DEF PassAndFill
<1>2. PICK p \in Nat, n \in Nat : p = PassSize /\ n = FillSize
  BY <1>1, PassCopies, Refill
<1>3. /\ p = bytes_left_in_stream_buffer
      /\ bytes_left_in_stream_buffer <= bytes_lefts
      /\ call.owed \in 1..bytes_lefts /\ p < call.owed
      /\ n <= bytes_lefts - p /\ n <= BufSize
      /\ get = Origin + Position + p
      /\ n > 0 => get + n <= Len(file.bytes)
      /\ n = 0 => Len(file.bytes) <= get
  BY <1>1, <1>2, PassCopies, Refill, <1>0 DEF Numbers
<1>4. /\ stream_buffer' \in Seq(Nat) /\ Len(stream_buffer') = BufSize
      /\ \A i \in 1..n : stream_buffer'[i] = file.bytes[get + i]
  BY <1>1, <1>2, Refill DEF PassAndFill
<1>5. /\ phase \in {"opening", "open"}
      /\ phase' = IF n = 0 /\ phase = "opening" THEN "dead" ELSE phase
      /\ get' = get + n
      /\ bytes_read_in_buffer' = 0 /\ bytes_left_in_stream_buffer' = n
      /\ bytes_lefts' = bytes_lefts - p
      /\ UNCHANGED <<file, section>>
  BY <1>1, <1>2, PassCopies DEF PassAndFill
<1>6. /\ call' \in Calls
      /\ call'.status = IF n = 0 THEN "end_of_stream" ELSE "reading"
      /\ call'.from = call.from /\ call'.owed = call.owed - p
      /\ call'.out = call.out \o PassBytes
  <2>1. call' = [call EXCEPT !.status = IF n = 0 THEN "end_of_stream" ELSE @,
                             !.owed = @ - p, !.out = @ \o PassBytes]
    BY <1>2 DEF PassAndFill
  <2>2. call \in Calls /\ call.owed - p \in Nat
    BY <1>0, <1>3 DEF IInv, Numbers
  <2>3. call.out \o PassBytes \in Seq(Nat)
    BY <1>1, PassDelivers
  <2> QED
    BY <1>1, <2>1, <2>2, <2>3 DEF Calls, Statuses
<1>7. TypeOK'
  <2>1. /\ get' \in Nat /\ bytes_lefts' \in Nat
        /\ bytes_read_in_buffer' \in 0..BufSize
        /\ bytes_left_in_stream_buffer' \in 0..(BufSize - bytes_read_in_buffer')
    BY <1>0, <1>3, <1>5 DEF Numbers
  <2>2. /\ call'.status \in Statuses
        /\ call'.from \in Nat /\ call'.owed \in Nat /\ call'.out \in Seq(Nat)
    BY <1>6 DEF Calls
  <2> QED
    BY <1>4, <1>5, <2>1, <2>2 DEF IInv, TypeOK, section, Statuses
<1>8. Origin' = Origin /\ Position' = Position + p
  BY <1>3, <1>5, <1>0 DEF Numbers, IInv, TypeOK, section, Origin, Position, StreamPos
<1>9. Placed' /\ Buffered'
  <2>1. PICK l \in Nat, w \in Nat : l = bytes_lefts /\ w = call.owed
    <3>1. bytes_lefts \in Nat
      BY <1>0 DEF Numbers
    <3>2. call.owed \in Nat
      BY DEF IInv, Calls
    <3> QED
      BY <3>1, <3>2
  <2>2. /\ w - p \in 1..(l - p) /\ l - p <= l /\ n <= l - p
    BY <1>2, <1>3, <2>1
  <2>3. /\ bytes_lefts' = l - p /\ bytes_left_in_stream_buffer' = n
        /\ call'.owed = w - p
    BY <1>5, <1>6, <2>1
  <2>4. Buffered'
    BY <1>3, <1>5, <2>3 DEF Buffered
  <2>5. CASE phase = "opening"
    <3>1. call.from = 0 /\ w = l /\ l \in 1..HdrSize
      BY <2>1, <2>5 DEF IInv, Placed
    <3>2. l - p \in 1..HdrSize /\ w - p = l - p
      BY <1>0, <2>2, <3>1 DEF Numbers
    <3> QED
      BY <1>5, <1>6, <2>2, <2>3, <2>4, <2>5, <3>1, <3>2 DEF Placed
  <2>6. CASE phase = "open"
    <3>1. l <= declared_size /\ declared_size' = declared_size
      BY <1>5, <2>1, <2>6 DEF IInv, Placed, section
    <3>2. l - p <= declared_size
      BY <1>0, <2>2, <3>1 DEF Numbers
    <3> QED
      BY <1>5, <1>6, <2>2, <2>3, <2>4, <2>6, <3>1, <3>2 DEF Placed
  <2> QED
    BY <1>5, <2>5, <2>6
<1>10. StaysInSection'
  <2>1. CASE phase = "opening"
    BY <1>3, <1>5, <2>1, <1>0 DEF Numbers, IInv, StaysInSection, Origin, Position, Placed
  <2>2. CASE phase = "open"
    BY <1>3, <1>5, <1>6, <2>2, <1>0
       DEF Numbers, IInv, TypeOK, StaysInSection, Origin, Position, StreamPos, Placed, section
  <2> QED
    BY <1>5, <2>1, <2>2
<1>11. BufferWindow'
  <2>1. get' = Origin' + Position' + bytes_left_in_stream_buffer'
    BY <1>3, <1>5, <1>8, <1>0 DEF Numbers
  <2>2. ASSUME NEW i \in 1..bytes_left_in_stream_buffer'
        PROVE  stream_buffer'[bytes_read_in_buffer' + i]
                   = file'.bytes[Origin' + Position' + i]
    BY <1>3, <1>4, <1>5, <1>8, <1>0 DEF Numbers
  <2> QED
    BY <2>1, <2>2 DEF BufferWindow
<1>12. /\ Len(call'.out) = Len(call.out) + p
       /\ Len(call.out) \in Nat /\ call.from \in Nat
       /\ Position' = call'.from + Len(call'.out)
  <2>1. Len(call'.out) = Len(call.out) + p
    BY <1>1, <1>2, <1>6, PassDelivers
  <2>2. Position = call.from + Len(call.out)
    BY <1>1 DEF IInv, Served
  <2>3. Len(call.out) \in Nat /\ call.from \in Nat
    BY LenProperties DEF IInv, Calls
  <2> QED
    BY <1>6, <1>8, <2>1, <2>2, <2>3
<1>13. Served'
  <2>1. /\ Len(call'.out) > 0 => Origin' + call'.from + Len(call'.out) <= Len(file'.bytes)
        /\ \A i \in 1..Len(call'.out) : call'.out[i] = file'.bytes[Origin' + call'.from + i]
    BY <1>1, <1>5, <1>6, <1>8, PassDelivers DEF Copied
  <2> QED
    BY <1>6, <1>12, <2>1 DEF Served, Copied
<1>14. RefusedAtCut'
  <2>1. CASE n > 0
    BY <1>6, <2>1 DEF RefusedAtCut
  <2>2. CASE n = 0
    <3>1. Len(file.bytes) <= Origin' + Position' /\ call'.owed > 0
          /\ call'.owed \in Nat
      BY <1>3, <1>6, <1>8, <2>2, <1>0 DEF Numbers
    <3>2. Len(call'.out) > 0 => Origin' + Position' <= Len(file'.bytes)
      <4>1. Len(call'.out) > 0 => Origin' + call'.from + Len(call'.out) <= Len(file'.bytes)
        BY <1>13 DEF Served, Copied
      <4> QED
        <5>1. PICK o \in Nat, q \in Int, l \in Nat, from \in Nat :
                 /\ o = Origin' /\ q = Position' /\ l = Len(call'.out)
                 /\ from = call'.from
          <6>1. Origin' \in Nat /\ Position \in Int
            BY <1>0, <1>8 DEF Numbers
          <6>2. Position + p \in Int
            BY <1>2, <6>1
          <6>3. call'.out \in Seq(Nat) /\ call'.from \in Nat
            BY <1>6 DEF Calls
          <6> QED
            BY <1>8, <6>1, <6>2, <6>3, LenProperties
        <5>2. q = from + l
          BY <1>12, <5>1
        <5>3. l > 0 => o + from + l <= Len(file'.bytes)
          BY <4>1, <5>1
        <5>4. o + from + l = o + q
          BY <5>1, <5>2
        <5> QED
          BY <5>1, <5>3, <5>4
    <3> QED
      BY <1>5, <1>8, <3>1, <3>2, <1>0 DEF Numbers, IInv, RefusedAtCut
  <2> QED
    BY <2>1, <2>2
<1> QED
  BY <1>6, <1>7, <1>9, <1>10, <1>11, <1>13, <1>14 DEF IInv

-----------------------------------------------------------------------------
\* Over a file stream the conjuncts of IInv hold in every state.
THEOREM Invariance ==
  ASSUME SeekPastEnd
  PROVE  Spec => []IInv
<1>1. IInv /\ [Next]_vars => IInv'
  <2> SUFFICES ASSUME IInv, [Next]_vars PROVE IInv'
    OBVIOUS
  <2>1. CASE Construct
    BY <2>1, ConstructInv
  <2>2. CASE \E size \in 0..MaxRead : ReadPastSection(size) \/ ReadStart(size)
    BY <2>2, ReadPastSectionInv, ReadStartInv
  <2>3. CASE Pass
    BY <2>3, LastPassInv, PassAndFillInv DEF Pass
  <2>4. CASE \E position \in 0..(declared_size + 1) :
                SeekOutside(position) \/ SeekInside(position)
    BY <2>4, SeekOutsideInv, SeekInsideInv DEF IInv, TypeOK
  <2>5. CASE SeekToEnd
    BY <2>5, SeekToEndInv
  <2>6. CASE UNCHANGED vars
    BY <2>6 DEF vars, section, buffer, IInv, TypeOK, Placed, StaysInSection,
                BufferWindow, Buffered, Served, Copied, RefusedAtCut,
                Origin, Position, StreamPos
  <2> QED
    BY <2>1, <2>2, <2>3, <2>4, <2>5, <2>6 DEF Next
<1> QED
  BY InitInv, <1>1, PTL DEF Spec

\* Every variable keeps its type: a refill and a copy stay inside the buffer.
THEOREM TypeCorrect ==
  ASSUME SeekPastEnd
  PROVE  Spec => []TypeOK
<1>1. IInv => TypeOK
  BY DEF IInv
<1> QED
  BY Invariance, <1>1, PTL

\* The buffer and the position of the shared stream never shift against the
\* position in the section, whatever reads, refills and seeks came before.
THEOREM BufferFollowsPosition ==
  ASSUME SeekPastEnd
  PROVE  Spec => []BufferWindow
<1>1. IInv => BufferWindow
  BY DEF IInv
<1> QED
  BY Invariance, <1>1, PTL

\* A section's reader leaves the bytes behind the section to the next reader.
THEOREM NextSectionUntouched ==
  ASSUME SeekPastEnd
  PROVE  Spec => []StaysInSection
<1>1. IInv => StaysInSection
  BY DEF IInv
<1> QED
  BY Invariance, <1>1, PTL

\* A call delivers the bytes of the file at the position it began at.
THEOREM ReadsCorrect ==
  ASSUME SeekPastEnd
  PROVE  Spec => []ReadDelivers
<1>1. IInv => ReadDelivers
  <2> SUFFICES ASSUME IInv PROVE ReadDelivers
    OBVIOUS
  <2>1. PICK out \in Seq(Nat) : out = call.out
    BY DEF IInv, Calls
  <2>2. Len(out) \in Nat /\ (out # <<>> => Len(out) > 0)
    BY EmptySeq, LenProperties
  <2>3. ASSUME phase = "open" PROVE ReadsWhereSeeked
    <3>1. Origin = start_stream_pos
      BY <2>3 DEF Origin
    <3>2. PICK a \in Nat, n \in Nat : /\ a = start_stream_pos + call.from
                                      /\ n = Len(file.bytes)
      <4>1. start_stream_pos \in Nat /\ Len(file.bytes) \in Nat
        BY Typed DEF Numbers
      <4>2. call.from \in Nat
        BY DEF IInv, Calls
      <4> QED
        BY <4>1, <4>2
    <3>3. /\ Len(out) > 0 => a + Len(out) <= n
          /\ \A i \in 1..Len(out) : out[i] = file.bytes[a + i]
      BY <2>1, <3>1, <3>2 DEF IInv, Served, Copied
    <3>4. \A i \in 1..Len(out) : a + i <= n
      BY <2>2, <3>2, <3>3
    <3> QED
      BY <2>1, <3>2, <3>3, <3>4 DEF ReadsWhereSeeked
  <2>4. ASSUME phase = "open", call.out # <<>>,
               call.status \in {"reading", "done", "end_of_stream"}
        PROVE  StreamPos = call.from + Len(call.out)
    <3>1. Position = StreamPos
      BY <2>4 DEF Position
    <3> QED
      BY <2>1, <2>2, <2>4, <3>1 DEF IInv, Served
  <2>5. call.status = "done" => call.owed = 0
    BY DEF IInv, Served
  <2>6. ReadsWhereSeeked
    BY <2>3 DEF ReadsWhereSeeked
  <2> QED
    BY <2>4, <2>5, <2>6 DEF ReadDelivers
<1> QED
  BY Invariance, <1>1, PTL

\* The end of the stream is reported exactly where a cut file ends.
THEOREM TruncationReported ==
  ASSUME SeekPastEnd
  PROVE  Spec => []TruncationExact
<1>1. IInv => TruncationExact
  <2> SUFFICES ASSUME IInv PROVE TruncationExact
    OBVIOUS
  <2>1. PICK out \in Seq(Nat) : out = call.out
    BY DEF IInv, Calls
  <2>2. out # <<>> => Len(out) > 0
    BY EmptySeq
  <2> QED
    BY <2>1, <2>2 DEF IInv, RefusedAtCut, TruncationExact
<1> QED
  BY Invariance, <1>1, PTL

=============================================================================
