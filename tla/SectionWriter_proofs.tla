------------------------ MODULE SectionWriter_proofs ------------------------
(***************************************************************************)
(* Proofs about SectionWriter for every buffer size, every size of the size *)
(* field and every set of chunks.  The invariants the runs check are not    *)
(* inductive one by one: that a patch lands inside the payload depends on   *)
(* the counters agreeing with the put position, and that the counters agree *)
(* depends on every earlier patch having returned to the end of the file.   *)
(* IInv puts them together with what a stream must keep while a section is  *)
(* being written (Held).  The second half shows that the writer implements  *)
(* Section: Shows ties the contents to the file and the buffer byte by      *)
(* byte, Pays to a file that holds all of them.                             *)
(***************************************************************************)
EXTENDS SectionWriter, SequenceTheorems, TLAPS

(***************************************************************************)
(* Streams: what overwriting a sequence changes and what it leaves, and     *)
(* what a write that may fail does to a stream                              *)
(***************************************************************************)

\* Type, length and elements of three sequences written one after the other.
LEMMA ConcatThree ==
  ASSUME NEW T, NEW a \in Seq(T), NEW b \in Seq(T), NEW c \in Seq(T)
  PROVE  /\ a \o b \o c \in Seq(T)
         /\ Len(a \o b \o c) = Len(a) + Len(b) + Len(c)
         /\ \A i \in 1..(Len(a) + Len(b) + Len(c)) :
               (a \o b \o c)[i] = IF i <= Len(a) THEN a[i]
                                  ELSE IF i <= Len(a) + Len(b) THEN b[i - Len(a)]
                                  ELSE c[i - (Len(a) + Len(b))]
<1>1. Len(a) \in Nat /\ Len(b) \in Nat /\ Len(c) \in Nat
  BY LenProperties
<1>2. PICK ab \in Seq(T) : ab = a \o b
  BY ConcatProperties
<1>3. /\ Len(ab) = Len(a) + Len(b)
      /\ \A i \in 1..(Len(a) + Len(b)) :
            ab[i] = IF i <= Len(a) THEN a[i] ELSE b[i - Len(a)]
  BY <1>2, ConcatProperties
<1>4. /\ ab \o c \in Seq(T)
      /\ Len(ab \o c) = Len(ab) + Len(c)
      /\ \A i \in 1..(Len(ab) + Len(c)) :
            (ab \o c)[i] = IF i <= Len(ab) THEN ab[i] ELSE c[i - Len(ab)]
  BY ConcatProperties
<1> QED
  BY <1>1, <1>2, <1>3, <1>4

\* Type, length and elements of a part of a sequence.
LEMMA SubSeqType ==
  ASSUME NEW T, NEW f \in Seq(T), NEW m \in Nat \ {0}, NEW n \in 0..Len(f)
  PROVE  /\ SubSeq(f, m, n) \in Seq(T)
         /\ Len(SubSeq(f, m, n)) = IF m <= n THEN n - (m - 1) ELSE 0
         /\ \A i \in 1..Len(SubSeq(f, m, n)) : SubSeq(f, m, n)[i] = f[(m - 1) + i]
<1>1. /\ Len(f) \in Nat /\ m \in Int /\ n \in Int
      /\ \A i \in m..n : f[i] \in T
  <2>1. Len(f) \in Nat
    BY LenProperties
  <2>2. m..n \subseteq 1..Len(f)
    BY <2>1
  <2> QED
    BY <2>1, <2>2, ElementOfSeq
<1>2. /\ SubSeq(f, m, n) \in Seq(T)
      /\ Len(SubSeq(f, m, n)) = IF m <= n THEN n - m + 1 ELSE 0
      /\ \A i \in 1..(n - m + 1) : SubSeq(f, m, n)[i] = f[m + i - 1]
  BY <1>1, SubSeqProperties
<1>3. /\ n - m + 1 = n - (m - 1)
      /\ \A i \in Int : m + i - 1 = (m - 1) + i
  BY <1>1
<1> QED
  BY <1>1, <1>2, <1>3

\* A prefix of a sequence is one.
LEMMA PrefixType ==
  ASSUME NEW T, NEW f \in Seq(T), NEW k \in 0..(Len(f) - 1)
  PROVE  SubSeq(f, 1, k) \in Seq(T)
<1>1. Len(f) \in Nat
  BY LenProperties
<1>2. k \in 0..Len(f) /\ 1 \in Nat \ {0}
  BY <1>1
<1> QED
  BY <1>2, SubSeqType

\* Overwriting keeps the type of a sequence and, inside it, its length; the
\* elements of the result, one by one.
LEMMA OverwriteProperties ==
  ASSUME NEW T, NEW f \in Seq(T), NEW s \in Seq(T), NEW at \in 0..Len(f)
  PROVE  /\ Overwrite(f, at, s) \in Seq(T)
         /\ Len(Overwrite(f, at, s)) =
                IF at + Len(s) <= Len(f) THEN Len(f) ELSE at + Len(s)
         /\ \A i \in 1..Len(Overwrite(f, at, s)) :
               Overwrite(f, at, s)[i] =
                   IF at < i /\ i <= at + Len(s) THEN s[i - at] ELSE f[i]
<1>1. Len(f) \in Nat /\ Len(s) \in Nat /\ at \in Nat
  BY LenProperties
<1> DEFINE m == at + Len(s) + 1
<1>2. m \in Nat \ {0} /\ m - 1 = at + Len(s)
  BY <1>1
<1>3. PICK left \in Seq(T) : left = SubSeq(f, 1, at)
  <2>1. 1 \in Nat \ {0}
    OBVIOUS
  <2>2. SubSeq(f, 1, at) \in Seq(T)
    BY <2>1, SubSeqType
  <2> QED
    BY <2>2
<1>4. /\ Len(left) = at
      /\ \A i \in 1..at : left[i] = f[i]
  <2>1. /\ Len(left) = IF 1 <= at THEN at - (1 - 1) ELSE 0
        /\ \A i \in 1..Len(left) : left[i] = f[(1 - 1) + i]
    BY <1>1, <1>3, SubSeqType
  <2> QED
    BY <1>1, <2>1
<1> HIDE DEF m
<1>5. PICK right \in Seq(T) : right = SubSeq(f, m, Len(f))
  <2>1. Len(f) \in 0..Len(f)
    BY <1>1
  <2>2. SubSeq(f, m, Len(f)) \in Seq(T)
    BY <1>2, <2>1, SubSeqType
  <2> QED
    BY <2>2
<1>6. /\ Len(right) = IF m <= Len(f) THEN Len(f) - (m - 1) ELSE 0
      /\ \A i \in 1..Len(right) : right[i] = f[(m - 1) + i]
  BY <1>1, <1>2, <1>5, SubSeqType
<1>7. Overwrite(f, at, s) = left \o s \o right
  BY <1>3, <1>5 DEF Overwrite, m
<1>8. Overwrite(f, at, s) \in Seq(T)
  BY <1>7, ConcatThree
<1>9. Len(Overwrite(f, at, s)) = at + Len(s) + Len(right)
  <2>1. Len(left \o s \o right) = Len(left) + Len(s) + Len(right)
    BY ConcatThree
  <2> QED
    BY <1>4, <1>7, <2>1
<1>10. Len(Overwrite(f, at, s)) =
          IF at + Len(s) <= Len(f) THEN Len(f) ELSE at + Len(s)
  <2>1. CASE m <= Len(f)
    BY <1>1, <1>2, <1>6, <1>9, <2>1
  <2>2. CASE ~(m <= Len(f))
    <3>1. Len(right) = 0 /\ at + Len(s) >= Len(f)
      BY <1>1, <1>2, <1>6, <2>2
    <3> QED
      BY <1>1, <1>9, <3>1
  <2> QED
    BY <2>1, <2>2
<1>11. ASSUME NEW i \in 1..Len(Overwrite(f, at, s))
       PROVE  Overwrite(f, at, s)[i] =
                  IF at < i /\ i <= at + Len(s) THEN s[i - at] ELSE f[i]
  <2>1. i \in 1..(Len(left) + Len(s) + Len(right))
    BY <1>4, <1>9
  <2>2. Overwrite(f, at, s)[i] =
            IF i <= at THEN left[i]
            ELSE IF i <= at + Len(s) THEN s[i - at]
            ELSE right[i - (at + Len(s))]
    <3>1. (left \o s \o right)[i] =
              IF i <= Len(left) THEN left[i]
              ELSE IF i <= Len(left) + Len(s) THEN s[i - Len(left)]
              ELSE right[i - (Len(left) + Len(s))]
      BY <2>1, ConcatThree
    <3> QED
      BY <1>4, <1>7, <3>1
  <2>3. CASE i <= at
    BY <1>1, <1>4, <2>1, <2>2, <2>3
  <2>4. CASE at < i /\ i <= at + Len(s)
    BY <1>1, <2>1, <2>2, <2>4
  <2>5. CASE at + Len(s) < i
    <3>1. i - (at + Len(s)) \in 1..Len(right)
      BY <1>1, <1>4, <1>6, <2>1, <2>5
    <3>2. right[i - (at + Len(s))] = f[at + Len(s) + (i - (at + Len(s)))]
      BY <1>2, <1>6, <3>1
    <3>3. at + Len(s) + (i - (at + Len(s))) = i
      BY <1>1, <2>1
    <3> QED
      BY <1>1, <2>1, <2>2, <2>5, <3>2, <3>3
  <2> QED
    BY <1>1, <2>1, <2>3, <2>4, <2>5
<1> QED
  BY <1>8, <1>10, <1>11

\* A part of the sequence that ends before the overwritten place is left alone.
LEMMA OverwriteKeeps ==
  ASSUME NEW T, NEW f \in Seq(T), NEW s \in Seq(T), NEW at \in 0..Len(f),
         NEW m \in Nat \ {0}, NEW n \in 0..at
  PROVE  SubSeq(Overwrite(f, at, s), m, n) = SubSeq(f, m, n)
<1>1. Len(f) \in Nat /\ Len(s) \in Nat /\ at \in Nat /\ n \in 0..Len(f)
  BY LenProperties
<1>2. PICK g \in Seq(T) : g = Overwrite(f, at, s)
  BY OverwriteProperties
<1>3. n \in 0..Len(g) /\ Len(f) <= Len(g)
  <2>1. Len(g) = IF at + Len(s) <= Len(f) THEN Len(f) ELSE at + Len(s)
    BY <1>2, OverwriteProperties
  <2> QED
    BY <1>1, <2>1
<1>4. \A i \in 1..n : g[i] = f[i]
  <2>1. \A i \in 1..Len(g) :
           g[i] = IF at < i /\ i <= at + Len(s) THEN s[i - at] ELSE f[i]
    BY <1>2, OverwriteProperties
  <2>2. \A i \in 1..n : i \in 1..Len(g) /\ ~(at < i)
    BY <1>1, <1>3
  <2> QED
    BY <2>1, <2>2
<1> DEFINE a == SubSeq(g, m, n)
           b == SubSeq(f, m, n)
<1>5. /\ a \in Seq(T)
      /\ Len(a) = IF m <= n THEN n - (m - 1) ELSE 0
      /\ \A i \in 1..Len(a) : a[i] = g[(m - 1) + i]
  BY <1>3, SubSeqType
<1>6. /\ b \in Seq(T)
      /\ Len(b) = IF m <= n THEN n - (m - 1) ELSE 0
      /\ \A i \in 1..Len(b) : b[i] = f[(m - 1) + i]
  BY <1>1, SubSeqType
<1> HIDE DEF a, b
<1>7. \A i \in 1..Len(a) : a[i] = b[i]
  <2> SUFFICES ASSUME NEW i \in 1..Len(a) PROVE a[i] = b[i]
    OBVIOUS
  <2>1. (m - 1) + i \in 1..n
    BY <1>1, <1>5
  <2>2. i \in 1..Len(b)
    BY <1>5, <1>6
  <2> QED
    BY <1>4, <1>5, <1>6, <2>1, <2>2
<1>8. a = b
  BY <1>5, <1>6, <1>7, SeqEqual
<1> QED
  BY <1>2, <1>8 DEF a, b

\* The overwritten place holds what was written.
LEMMA OverwriteShows ==
  ASSUME NEW T, NEW f \in Seq(T), NEW s \in Seq(T), NEW at \in 0..Len(f)
  PROVE  SubSeq(Overwrite(f, at, s), at + 1, at + Len(s)) = s
<1>1. Len(f) \in Nat /\ Len(s) \in Nat /\ at \in Nat
  BY LenProperties
<1>2. PICK g \in Seq(T) : g = Overwrite(f, at, s)
  BY OverwriteProperties
<1>3. at + Len(s) \in 0..Len(g)
  <2>1. Len(g) = IF at + Len(s) <= Len(f) THEN Len(f) ELSE at + Len(s)
    BY <1>2, OverwriteProperties
  <2> QED
    BY <1>1, <2>1
<1>4. \A i \in 1..Len(s) : g[at + i] = s[i]
  <2>1. \A i \in 1..Len(g) :
           g[i] = IF at < i /\ i <= at + Len(s) THEN s[i - at] ELSE f[i]
    BY <1>2, OverwriteProperties
  <2>2. \A i \in 1..Len(s) : at + i \in 1..Len(g) /\ (at + i) - at = i
    BY <1>1, <1>3
  <2> QED
    BY <1>1, <2>1, <2>2
<1> DEFINE m == at + 1
           n == at + Len(s)
           a == SubSeq(g, m, n)
<1>5. m \in Nat \ {0} /\ n \in 0..Len(g) /\ m - 1 = at
  BY <1>1, <1>3
<1> HIDE DEF m, n
<1>6. /\ a \in Seq(T)
      /\ Len(a) = IF m <= n THEN n - (m - 1) ELSE 0
      /\ \A i \in 1..Len(a) : a[i] = g[(m - 1) + i]
  BY <1>5, SubSeqType
<1> HIDE DEF a
<1>7. Len(a) = Len(s)
  BY <1>1, <1>6 DEF m, n
<1>8. a = s
  BY <1>4, <1>5, <1>6, <1>7, SeqEqual
<1> QED
  BY <1>2, <1>8 DEF a, m, n

-----------------------------------------------------------------------------

\* The streams over cells of T whose put position is in the file.
StreamOf(T) ==
    {st \in [file : Seq(T), put : Nat, ok : BOOLEAN] : st.put <= Len(st.file)}

\* What being such a stream says.
LEMMA StreamFacts ==
  ASSUME NEW T, NEW st \in StreamOf(T)
  PROVE  /\ st \in [file : Seq(T), put : Nat, ok : BOOLEAN]
         /\ st.file \in Seq(T) /\ Len(st.file) \in Nat
         /\ st.put \in Nat /\ st.put <= Len(st.file) /\ st.put \in 0..Len(st.file)
         /\ st.ok \in BOOLEAN
<1>1. /\ st \in [file : Seq(T), put : Nat, ok : BOOLEAN]
      /\ st.put <= Len(st.file)
  BY DEF StreamOf
<1>2. Len(st.file) \in Nat
  BY <1>1, LenProperties
<1> QED
  BY <1>1, <1>2

\* A successful write: the stream stays well-formed and has lost nothing.
LEMMA WrittenProperties ==
  ASSUME NEW T, NEW st \in StreamOf(T), NEW s \in Seq(T)
  PROVE  /\ Written(st, s) \in StreamOf(T)
         /\ Written(st, s).file = Overwrite(st.file, st.put, s)
         /\ Written(st, s).put = st.put + Len(s)
         /\ Len(Written(st, s).file) = IF st.put + Len(s) <= Len(st.file)
                                       THEN Len(st.file) ELSE st.put + Len(s)
<1>1. /\ Len(s) \in Nat /\ Len(st.file) \in Nat
      /\ st.file \in Seq(T) /\ st.put \in 0..Len(st.file)
      /\ st \in [file : Seq(T), put : Nat, ok : BOOLEAN]
  BY LenProperties, StreamFacts
<1>2. PICK g \in Seq(T) : g = Overwrite(st.file, st.put, s)
  BY <1>1, OverwriteProperties
<1>3. Len(g) = IF st.put + Len(s) <= Len(st.file)
               THEN Len(st.file) ELSE st.put + Len(s)
  BY <1>1, <1>2, OverwriteProperties
<1>4. Written(st, s) = [st EXCEPT !.file = g, !.put = st.put + Len(s)]
  BY <1>2 DEF Written
<1>5. st.put + Len(s) \in Nat
  BY <1>1
<1>6. Written(st, s) \in [file : Seq(T), put : Nat, ok : BOOLEAN]
  BY <1>1, <1>4, <1>5, Zenon
<1>7. Written(st, s).file = g /\ Written(st, s).put = st.put + Len(s)
  BY <1>1, <1>4
<1>8. st.put + Len(s) <= Len(g)
  BY <1>1, <1>3
<1>9. Written(st, s) \in StreamOf(T)
  BY <1>6, <1>7, <1>8 DEF StreamOf
<1> QED
  BY <1>2, <1>3, <1>7, <1>9

\* ... and nothing in front of the put position has changed.
LEMMA WrittenKeeps ==
  ASSUME NEW T, NEW st \in StreamOf(T), NEW s \in Seq(T),
         NEW m \in Nat \ {0}, NEW n \in 0..st.put
  PROVE  SubSeq(Written(st, s).file, m, n) = SubSeq(st.file, m, n)
<1>1. PICK f \in Seq(T) : f = st.file
  BY StreamFacts
<1>2. PICK at \in 0..Len(f) : at = st.put
  BY <1>1, StreamFacts
<1>3. n \in 0..at
  BY <1>2
<1>4. SubSeq(Overwrite(f, at, s), m, n) = SubSeq(f, m, n)
  BY <1>3, OverwriteKeeps
<1>5. Written(st, s).file = Overwrite(f, at, s)
  BY <1>1, <1>2, WrittenProperties
<1> QED
  BY <1>1, <1>4, <1>5

\* A write that fails is a successful write of a shorter sequence to a stream
\* that is bad afterwards.
LEMMA WritesCases ==
  ASSUME NEW T, NEW st \in StreamOf(T), NEW s \in Seq(T), NEW r \in Writes(st, s)
  PROVE  \/ ~st.ok /\ r = st
         \/ st.ok /\ r = Written(st, s)
         \/ /\ st.ok /\ r.ok = FALSE
            /\ \E p \in Seq(T) : /\ r.file = Written(st, p).file
                                 /\ r.put = Written(st, p).put
            /\ r \in StreamOf(T)
<1>1. CASE ~st.ok
  BY <1>1 DEF Writes
<1>2. CASE st.ok /\ r = Written(st, s)
  BY <1>2
<1>3. CASE st.ok /\ \E k \in 0..(Len(s) - 1) :
                       r = [Written(st, SubSeq(s, 1, k)) EXCEPT !.ok = FALSE]
  <2>1. PICK p \in Seq(T) : r = [Written(st, p) EXCEPT !.ok = FALSE]
    BY <1>3, PrefixType
  <2>2. PICK w \in StreamOf(T) : w = Written(st, p)
    BY WrittenProperties
  <2>3. r = [w EXCEPT !.ok = FALSE] /\ w \in [file : Seq(T), put : Nat, ok : BOOLEAN]
    BY <2>1, <2>2, StreamFacts
  <2>4. r \in [file : Seq(T), put : Nat, ok : BOOLEAN]
    BY <2>3, Zenon
  <2>5. r.file = w.file /\ r.put = w.put /\ r.ok = FALSE
    BY <2>3
  <2>6. w.put <= Len(w.file)
    BY StreamFacts
  <2>7. r \in StreamOf(T)
    BY <2>4, <2>5, <2>6 DEF StreamOf
  <2> QED
    BY <1>3, <2>2, <2>5, <2>7
<1> QED
  BY <1>1, <1>2, <1>3 DEF Writes

\* What a write leaves, whether it succeeds or fails half-way: a well-formed
\* stream that has lost nothing; if the stream is good, all of s is there.
LEMMA WritesProperties ==
  ASSUME NEW T, NEW st \in StreamOf(T), NEW s \in Seq(T), NEW r \in Writes(st, s)
  PROVE  /\ r \in StreamOf(T)
         /\ Len(st.file) <= Len(r.file)
         /\ r.ok => st.ok /\ r = Written(st, s)
<1>1. Len(s) \in Nat /\ Len(st.file) \in Nat /\ st.put \in Nat
  BY LenProperties, StreamFacts
<1>2. CASE ~st.ok /\ r = st
  BY <1>1, <1>2
<1>3. CASE st.ok /\ r = Written(st, s)
  BY <1>1, <1>3, WrittenProperties
<1>4. CASE /\ st.ok /\ r.ok = FALSE
           /\ \E p \in Seq(T) : /\ r.file = Written(st, p).file
                                /\ r.put = Written(st, p).put
           /\ r \in StreamOf(T)
  <2>1. PICK p \in Seq(T) : r.file = Written(st, p).file
    BY <1>4
  <2>2. Len(p) \in Nat
    BY LenProperties
  <2>3. Len(r.file) = IF st.put + Len(p) <= Len(st.file)
                      THEN Len(st.file) ELSE st.put + Len(p)
    BY <2>1, WrittenProperties
  <2>4. Len(st.file) <= Len(r.file)
    BY <1>1, <2>2, <2>3
  <2> QED
    BY <1>4, <2>4
<1>5. \/ ~st.ok /\ r = st
      \/ st.ok /\ r = Written(st, s)
      \/ /\ st.ok /\ r.ok = FALSE
         /\ \E p \in Seq(T) : /\ r.file = Written(st, p).file
                              /\ r.put = Written(st, p).put
         /\ r \in StreamOf(T)
  BY WritesCases, Zenon
<1> QED
  BY <1>2, <1>3, <1>4, <1>5, Zenon

\* A write that may fail changes nothing in front of the put position, and
\* nothing at all when the stream is bad.
LEMMA WritesKeeps ==
  ASSUME NEW T, NEW st \in StreamOf(T), NEW s \in Seq(T), NEW r \in Writes(st, s),
         NEW m \in Nat \ {0}, NEW n \in Nat, st.ok => n <= st.put
  PROVE  SubSeq(r.file, m, n) = SubSeq(st.file, m, n)
<1>1. \/ ~st.ok /\ r = st
      \/ st.ok /\ \E p \in Seq(T) : r.file = Written(st, p).file
  <2>1. \/ ~st.ok /\ r = st
        \/ st.ok /\ r = Written(st, s)
        \/ /\ st.ok /\ r.ok = FALSE
           /\ \E p \in Seq(T) : /\ r.file = Written(st, p).file
                                /\ r.put = Written(st, p).put
           /\ r \in StreamOf(T)
    BY WritesCases, Zenon
  <2> QED
    BY <2>1, Zenon
<1>2. CASE st.ok
  <2>1. n \in 0..st.put
    BY <1>2, StreamFacts
  <2>2. PICK p \in Seq(T) : r.file = Written(st, p).file
    BY <1>1, <1>2, Zenon
  <2>3. SubSeq(Written(st, p).file, m, n) = SubSeq(st.file, m, n)
    BY <2>1, WrittenKeeps
  <2> QED
    BY <2>2, <2>3
<1> QED
  BY <1>1, <1>2, Zenon

\* A seek touches no byte; it succeeds or spoils the stream.
LEMMA SeekProperties ==
  ASSUME NEW T, NEW st \in StreamOf(T), NEW delta \in Int,
         st.ok => st.put + delta <= Len(st.file)
  PROVE  /\ Seek(st, delta) \in StreamOf(T)
         /\ Seek(st, delta).file = st.file
         /\ Seek(st, delta).ok => st.ok /\ Seek(st, delta).put = st.put + delta
<1>1. /\ st \in [file : Seq(T), put : Nat, ok : BOOLEAN]
      /\ st.put \in Nat /\ st.put <= Len(st.file)
  BY StreamFacts
<1>2. CASE ~st.ok
  BY <1>2 DEF Seek
<1>3. CASE st.ok /\ st.put + delta < 0
  <2>1. Seek(st, delta) = [st EXCEPT !.ok = FALSE]
    BY <1>3 DEF Seek
  <2>2. Seek(st, delta) \in [file : Seq(T), put : Nat, ok : BOOLEAN]
    BY <1>1, <2>1, Zenon
  <2>3. /\ Seek(st, delta).file = st.file
        /\ Seek(st, delta).put = st.put
        /\ Seek(st, delta).ok = FALSE
    BY <1>1, <2>1
  <2> QED
    BY <1>1, <2>2, <2>3 DEF StreamOf
<1>4. CASE st.ok /\ ~(st.put + delta < 0)
  <2>1. Seek(st, delta) = [st EXCEPT !.put = st.put + delta]
    BY <1>4 DEF Seek
  <2>2. st.put + delta \in Nat
    BY <1>1, <1>4
  <2>3. Seek(st, delta) \in [file : Seq(T), put : Nat, ok : BOOLEAN]
    BY <1>1, <2>1, <2>2, Zenon
  <2>4. /\ Seek(st, delta).file = st.file
        /\ Seek(st, delta).put = st.put + delta
        /\ Seek(st, delta).ok = st.ok
    BY <1>1, <2>1
  <2> QED
    BY <1>1, <1>4, <2>3, <2>4 DEF StreamOf
<1> QED
  BY <1>2, <1>3, <1>4

(***************************************************************************)
(* The inductive invariant                                                 *)
(***************************************************************************)

\* A stream st that still shows, in front of the payload, what it showed when
\* the section was begun and a size of 0, and that, if it is good, is
\* positioned behind the size field.
Held(st) ==
    /\ st \in StreamOf(Cell)
    /\ Start <= Len(st.file)
    /\ st.ok => Start <= st.put
    /\ SubSeq(st.file, 1, Base) = before
    /\ SubSeq(st.file, Base + 1, Start) = SizeBytes(0)

\* The inductive invariant.
IInv ==
    /\ TypeOK
    /\ Positioned
    /\ EarlierBytesIntact
    /\ SealedFrame
    /\ stream \in StreamOf(Cell)
    /\ Base <= Len(stream.file)
    /\ pc = "none" => stream.ok /\ stream.put = Len(stream.file)
    /\ pc \in {"open", "flushed"} => Held(stream)
    /\ pc \in {"flushed", "sized", "sealed"} => bytes_not_flushed = 0
    /\ pc = "sized" /\ stream.ok => stream.put = Start

-----------------------------------------------------------------------------

\* A size field is a sequence of HdrSize cells.
LEMMA SizeBytesType ==
  ASSUME NEW n \in Nat
  PROVE  SizeBytes(n) \in Seq(Cell) /\ Len(SizeBytes(n)) = HdrSize
<1>1. HdrSize \in Nat
  BY HdrAssumption
<1>2. SizeBytes(n) \in [1..HdrSize -> Cell]
  BY DEF SizeBytes, Cell
<1>3. SizeBytes(n) \in Seq(Cell)
  BY <1>1, <1>2, SeqDef
<1>4. /\ Len(SizeBytes(n)) \in Nat
      /\ 1..Len(SizeBytes(n)) = 1..HdrSize
  BY <1>2, <1>3, LenProperties
<1> QED
  BY <1>1, <1>3, <1>4

\* The buffer a section begins with has the length of the vector.
LEMMA EmptyBufferType == EmptyBuffer \in Seq(Byte) /\ Len(EmptyBuffer) = BufSize
<1>1. BufSize \in Nat
  BY BufAssumption
<1>2. EmptyBuffer \in [1..BufSize -> Byte]
  BY ByteAssumption DEF EmptyBuffer
<1>3. EmptyBuffer \in Seq(Byte)
  BY <1>1, <1>2, SeqDef
<1>4. /\ Len(EmptyBuffer) \in Nat
      /\ 1..Len(EmptyBuffer) = 1..BufSize
  BY <1>2, <1>3, LenProperties
<1> QED
  BY <1>1, <1>3, <1>4

\* Payload bytes are cells of the file.
LEMMA BytesAreCells ==
  ASSUME NEW s \in Seq(Byte)
  PROVE  s \in Seq(Cell)
<1>1. Byte \subseteq Cell
  BY DEF Cell
<1> QED
  BY <1>1, SeqMonotonic

\* The pending bytes are as many as bytes_not_flushed says.
LEMMA PendingType ==
  ASSUME TypeOK
  PROVE  Pending \in Seq(Cell) /\ Len(Pending) = bytes_not_flushed
<1>1. /\ stream_buffer \in Seq(Byte) /\ 1 \in Nat \ {0}
      /\ bytes_not_flushed \in 0..Len(stream_buffer) /\ bytes_not_flushed \in Nat
  BY BufAssumption DEF TypeOK
<1>2. PICK b \in Seq(Byte) : b = Pending
  BY <1>1, SubSeqType DEF Pending
<1>3. Len(b) = IF 1 <= bytes_not_flushed THEN bytes_not_flushed - (1 - 1) ELSE 0
  BY <1>1, <1>2, SubSeqType DEF Pending
<1> QED
  BY <1>1, <1>2, <1>3, BytesAreCells

\* A chunk is a sequence of bytes, and of cells.
LEMMA ChunkType ==
  ASSUME NEW chunk \in Chunk
  PROVE  chunk \in Seq(Byte) /\ chunk \in Seq(Cell) /\ Len(chunk) \in Nat
<1>1. chunk \in Seq(Byte)
  BY ChunkAssumption
<1> QED
  BY <1>1, BytesAreCells, LenProperties

\* Base and Start are positions of a file.
LEMMA Offsets ==
  ASSUME TypeOK
  PROVE  Base \in Nat /\ Start \in Nat /\ Start = Base + HdrSize /\ HdrSize \in Nat
<1>1. before \in Seq(Cell)
  BY DEF TypeOK
<1>2. Base \in Nat
  BY <1>1, LenProperties DEF Base
<1> QED
  BY <1>2, HdrAssumption DEF Start

\* A write behind the size field, failing or not, keeps what is in front of it.
LEMMA WriteHolds ==
  ASSUME TypeOK, NEW st, Held(st), NEW s \in Seq(Cell), NEW r \in Writes(st, s)
  PROVE  /\ Held(r)
         /\ r.ok => /\ st.ok
                    /\ r.put = st.put + Len(s)
                    /\ Len(r.file) = IF st.put + Len(s) <= Len(st.file)
                                     THEN Len(st.file) ELSE st.put + Len(s)
<1>1. /\ st \in StreamOf(Cell) /\ Start <= Len(st.file)
      /\ st.ok => Start <= st.put
      /\ SubSeq(st.file, 1, Base) = before
      /\ SubSeq(st.file, Base + 1, Start) = SizeBytes(0)
  BY DEF Held
<1>2. /\ Len(st.file) \in Nat /\ st.put \in Nat /\ Len(s) \in Nat
  BY <1>1, StreamFacts, LenProperties
<1>3. Base \in Nat /\ Start \in Nat /\ Base <= Start
  BY Offsets
<1>4. /\ r \in StreamOf(Cell)
      /\ Len(st.file) <= Len(r.file)
      /\ r.ok => st.ok /\ r = Written(st, s)
  BY <1>1, WritesProperties
<1>5. Len(r.file) \in Nat /\ r.put \in Nat
  BY <1>4, StreamFacts
<1>6. r.ok => /\ st.ok
              /\ r.put = st.put + Len(s)
              /\ Len(r.file) = IF st.put + Len(s) <= Len(st.file)
                               THEN Len(st.file) ELSE st.put + Len(s)
  <2>1. /\ Written(st, s).put = st.put + Len(s)
        /\ Len(Written(st, s).file) = IF st.put + Len(s) <= Len(st.file)
                                      THEN Len(st.file) ELSE st.put + Len(s)
    BY <1>1, WrittenProperties
  <2> QED
    BY <1>4, <2>1
<1>7. SubSeq(r.file, 1, Base) = before
  <2>1. PICK m \in Nat \ {0} : m = 1
    OBVIOUS
  <2>2. st.ok => Base <= st.put
    BY <1>1, <1>2, <1>3
  <2>3. st \in StreamOf(Cell) /\ Base \in Nat
    BY <1>1, <1>3
  <2>4. SubSeq(r.file, m, Base) = SubSeq(st.file, m, Base)
    BY <2>2, <2>3, WritesKeeps
  <2> QED
    BY <1>1, <2>1, <2>4
<1>8. SubSeq(r.file, Base + 1, Start) = SizeBytes(0)
  <2>1. PICK m \in Nat \ {0} : m = Base + 1
    BY <1>3
  <2>2. /\ st \in StreamOf(Cell) /\ Start \in Nat
        /\ st.ok => Start <= st.put
    BY <1>1, <1>3
  <2>3. SubSeq(r.file, m, Start) = SubSeq(st.file, m, Start)
    BY <2>2, WritesKeeps
  <2> QED
    BY <1>1, <2>1, <2>3
<1>9. Start <= Len(r.file) /\ (r.ok => Start <= r.put)
  BY <1>1, <1>2, <1>3, <1>4, <1>5, <1>6
<1> QED
  BY <1>4, <1>6, <1>7, <1>8, <1>9 DEF Held

\* A seek behind the size field and inside the file keeps everything.
LEMMA SeekHolds ==
  ASSUME NEW st, Held(st), NEW delta \in Int,
         st.ok => Start <= st.put + delta /\ st.put + delta <= Len(st.file)
  PROVE  /\ Held(Seek(st, delta))
         /\ Seek(st, delta).file = st.file
         /\ Seek(st, delta).ok => st.ok /\ Seek(st, delta).put = st.put + delta
<1>1. st \in StreamOf(Cell)
  BY DEF Held
<1>2. /\ Seek(st, delta) \in StreamOf(Cell)
      /\ Seek(st, delta).file = st.file
      /\ Seek(st, delta).ok => st.ok /\ Seek(st, delta).put = st.put + delta
  BY <1>1, SeekProperties
<1> QED
  BY <1>2 DEF Held

-----------------------------------------------------------------------------

\* The initial state satisfies the invariant: nothing is written.
LEMMA InitInv == Init => IInv
<1> SUFFICES ASSUME Init PROVE IInv
  OBVIOUS
<1>1. /\ <<>> \in Seq(Cell) /\ Len(<<>>) = 0 /\ SubSeq(<<>>, 1, 0) = <<>>
  BY EmptySeq, SubSeqEmpty
<1>2. stream.file = <<>> /\ stream.put = 0 /\ stream.ok = TRUE
  BY DEF Init
<1>3. stream \in [file : Seq(Cell), put : Nat, ok : BOOLEAN]
  BY <1>1 DEF Init
<1>4. TypeOK
  BY <1>1, <1>3, EmptyBufferType, BufAssumption DEF Init, TypeOK
<1>5. Positioned /\ SealedFrame
  BY DEF Init, Positioned, SealedFrame
<1>6. EarlierBytesIntact /\ Base <= Len(stream.file)
  BY <1>1, <1>2 DEF Init, EarlierBytesIntact, Base
<1>7. stream \in StreamOf(Cell)
  BY <1>1, <1>2, <1>3 DEF StreamOf
<1> QED
  BY <1>1, <1>2, <1>4, <1>5, <1>6, <1>7 DEF Init, IInv

\* What is left to show of a step that leaves the section being written.
LEMMA StillWriting ==
  ASSUME TypeOK, TypeOK', before' = before, pc' \in {"open", "flushed"},
         Held(stream'), Positioned', pc' = "flushed" => bytes_not_flushed' = 0
  PROVE  IInv'
<1>1. Base' = Base /\ Start' = Start
  BY DEF Base, Start
<1>2. stream' \in StreamOf(Cell) /\ Start <= Len(stream'.file)
  BY DEF Held
<1>3. Base <= Len(stream'.file)
  BY <1>2, Offsets, StreamFacts
<1>4. EarlierBytesIntact' /\ Held(stream)'
  BY <1>1 DEF Held, EarlierBytesIntact
<1>5. SealedFrame'
  BY DEF SealedFrame
<1> QED
  BY <1>1, <1>2, <1>3, <1>4, <1>5 DEF IInv

\* A new section begins at the end of the file.
LEMMA ConstructInv == IInv /\ Construct => IInv'
<1> SUFFICES ASSUME IInv, Construct PROVE IInv'
  OBVIOUS
<1> DEFINE size == SizeBytes(0)
<1>1. /\ TypeOK /\ stream \in StreamOf(Cell)
      /\ stream.file \in Seq(Cell) /\ Len(stream.file) \in Nat /\ stream.put \in Nat
  BY StreamFacts DEF IInv
<1>2. stream.ok => stream.put = Len(stream.file)
  BY DEF IInv, Construct, Positioned
<1>3. size \in Seq(Cell) /\ Len(size) = HdrSize /\ HdrSize \in Nat
  BY SizeBytesType, HdrAssumption
<1>4. stream' \in Writes(stream, size)
  BY DEF Construct
<1> HIDE DEF size
<1>5. /\ stream' \in StreamOf(Cell)
      /\ Len(stream.file) <= Len(stream'.file)
      /\ stream'.ok => stream.ok /\ stream' = Written(stream, size)
  BY <1>1, <1>3, <1>4, WritesProperties
<1>6. Base' = Len(stream.file) /\ Start' = Len(stream.file) + HdrSize
  BY DEF Construct, Base, Start
<1>7. TypeOK'
  <2>1. stream' \in [file : Seq(Cell), put : Nat, ok : BOOLEAN]
    BY <1>5, StreamFacts
  <2>2. 0 \in 0..BufSize
    BY BufAssumption
  <2> QED
    BY <1>1, <2>1, <2>2, EmptyBufferType DEF Construct, TypeOK
<1>8. SubSeq(stream'.file, 1, Base') = before'
  <2>1. PICK m \in Nat \ {0} : m = 1
    OBVIOUS
  <2>2. PICK n \in Nat : n = Len(stream.file)
    BY <1>1
  <2>3. PICK r \in Writes(stream, size) : r = stream'
    BY <1>4
  <2>4. stream \in StreamOf(Cell) /\ size \in Seq(Cell) /\ (stream.ok => n <= stream.put)
    BY <1>1, <1>2, <1>3, <2>2
  <2>5. SubSeq(r.file, m, n) = SubSeq(stream.file, m, n)
    BY <2>4, WritesKeeps
  <2>6. SubSeq(stream.file, 1, Len(stream.file)) = stream.file
    BY <1>1, SubSeqFull
  <2> QED
    BY <1>6, <2>1, <2>2, <2>3, <2>5, <2>6 DEF Construct
<1>9. EarlierBytesIntact' /\ Base' <= Len(stream'.file)
  BY <1>5, <1>6, <1>8 DEF EarlierBytesIntact
<1>10. SealedFrame'
  BY DEF Construct, SealedFrame
<1>11. CASE stream'.ok
  <2>1. /\ stream.ok /\ stream' = Written(stream, size)
        /\ stream.put = Len(stream.file)
    BY <1>2, <1>5, <1>11
  <2>2. PICK w : w = Written(stream, size)
    OBVIOUS
  <2>3. /\ w.file = Overwrite(stream.file, stream.put, size)
        /\ w.put = stream.put + Len(size)
        /\ Len(w.file) = IF stream.put + Len(size) <= Len(stream.file)
                         THEN Len(stream.file) ELSE stream.put + Len(size)
    BY <1>1, <1>3, <2>2, WrittenProperties
  <2>4. /\ stream'.file = Overwrite(stream.file, Len(stream.file), size)
        /\ stream'.put = Len(stream.file) + HdrSize
        /\ Len(stream'.file) = Len(stream.file) + HdrSize
    BY <1>1, <1>3, <2>1, <2>2, <2>3
  <2>5. PICK at \in 0..Len(stream.file) : at = Len(stream.file)
    BY <1>1
  <2>6. SubSeq(Overwrite(stream.file, at, size), at + 1, at + Len(size)) = size
    BY <1>1, <1>3, OverwriteShows
  <2>7. SubSeq(stream'.file, Base' + 1, Start') = SizeBytes(0)
    BY <1>3, <1>6, <2>4, <2>5, <2>6 DEF size
  <2>8. Held(stream)'
    <3>1. Start' <= Len(stream'.file) /\ Start' <= stream'.put
      BY <1>1, <1>3, <1>6, <2>4
    <3> QED
      BY <1>5, <1>8, <2>7, <3>1, Zenon DEF Held
  <2>9. Positioned'
    BY <1>1, <1>3, <1>6, <2>4 DEF Construct, Positioned
  <2> QED
    BY <1>5, <1>7, <1>9, <1>10, <1>11, <2>8, <2>9 DEF Construct, IInv
<1>12. CASE ~stream'.ok
  <2>1. Positioned'
    BY <1>12 DEF Construct, Positioned
  <2> QED
    BY <1>5, <1>7, <1>9, <1>10, <1>12, <2>1 DEF Construct, IInv
<1> QED
  BY <1>11, <1>12

-----------------------------------------------------------------------------

\* What the invariant says of an open section, for the steps below.
LEMMA OpenFacts ==
  ASSUME IInv, pc = "open"
  PROVE  /\ TypeOK /\ Held(stream) /\ before \in Seq(Cell)
         /\ stream_buffer \in Seq(Byte) /\ Len(stream_buffer) = BufSize
         /\ Base \in Nat /\ Start \in Nat /\ BufSize \in Nat
         /\ bytes_written \in Nat /\ total_bytes_flushed \in Nat
         /\ bytes_not_flushed \in Nat /\ bytes_not_flushed <= BufSize
         /\ bytes_written = total_bytes_flushed + bytes_not_flushed
         /\ stream.ok => /\ Len(stream.file) = Start + total_bytes_flushed
                         /\ stream.put = Start + total_bytes_flushed
         /\ Pending \in Seq(Cell) /\ Len(Pending) = bytes_not_flushed
<1>1. TypeOK /\ Held(stream)
  BY DEF IInv
<1> QED
  BY <1>1, Offsets, PendingType, BufAssumption DEF IInv, TypeOK, Positioned

\* Flushing the pending bytes of an open section.
LEMMA FlushHolds ==
  ASSUME IInv, pc = "open", NEW flushed \in Writes(stream, Pending)
  PROVE  /\ Held(flushed)
         /\ flushed.ok => /\ stream.ok
                          /\ flushed.put = Start + bytes_written
                          /\ Len(flushed.file) = Start + bytes_written
<1>1. /\ TypeOK /\ Held(stream) /\ Pending \in Seq(Cell)
      /\ Len(Pending) = bytes_not_flushed
  BY OpenFacts
<1>2. /\ Start \in Nat /\ total_bytes_flushed \in Nat /\ bytes_not_flushed \in Nat
      /\ bytes_written = total_bytes_flushed + bytes_not_flushed
      /\ stream.ok => /\ Len(stream.file) = Start + total_bytes_flushed
                      /\ stream.put = Start + total_bytes_flushed
  BY OpenFacts
<1>3. /\ Held(flushed)
      /\ flushed.ok =>
            /\ stream.ok
            /\ flushed.put = stream.put + bytes_not_flushed
            /\ Len(flushed.file) = IF stream.put + bytes_not_flushed <= Len(stream.file)
                                   THEN Len(stream.file)
                                   ELSE stream.put + bytes_not_flushed
  BY <1>1, WriteHolds
<1> QED
  BY <1>2, <1>3

\* What is left to show of a step of an open section that leaves it open.
LEMMA StillOpen ==
  ASSUME IInv, pc = "open", pc' = "open", before' = before,
         Held(stream'),
         stream'.ok => /\ Len(stream'.file) = Start + total_bytes_flushed'
                       /\ stream'.put = Len(stream'.file),
         total_bytes_flushed' \in Nat,
         bytes_not_flushed' \in Nat, bytes_not_flushed' <= BufSize,
         bytes_written' = total_bytes_flushed' + bytes_not_flushed',
         stream_buffer' \in Seq(Byte), Len(stream_buffer') = BufSize
  PROVE  IInv'
<1>1. Base' = Base /\ Start' = Start
  BY DEF Base, Start
<1>2. stream' \in [file : Seq(Cell), put : Nat, ok : BOOLEAN]
  BY StreamFacts DEF Held
<1>3. before \in Seq(Cell) /\ BufSize \in Nat
  BY OpenFacts
<1>4. bytes_written' \in Nat
  <2>1. ASSUME NEW a \in Nat, NEW b \in Nat PROVE a + b \in Nat
    OBVIOUS
  <2> QED
    BY <2>1
<1>5. bytes_not_flushed' \in 0..BufSize
  BY <1>3
<1>6. TypeOK'
  BY <1>2, <1>3, <1>4, <1>5 DEF TypeOK
<1>7. Positioned'
  BY <1>1 DEF Positioned
<1> QED
  BY <1>6, <1>7, OpenFacts, StillWriting

\* write_buffer(), wherever the chunk goes.
LEMMA WriteBufferInv ==
  ASSUME IInv, NEW chunk \in Chunk, WriteBuffer(chunk)
  PROVE  IInv'
<1>1. /\ pc = "open" /\ pc' = "open" /\ before' = before
      /\ bytes_written' = bytes_written + Len(chunk)
  BY DEF WriteBuffer
<1>2. /\ TypeOK /\ Held(stream) /\ before \in Seq(Cell)
      /\ stream_buffer \in Seq(Byte) /\ Len(stream_buffer) = BufSize
      /\ Start \in Nat /\ BufSize \in Nat
      /\ bytes_written \in Nat /\ total_bytes_flushed \in Nat
      /\ bytes_not_flushed \in Nat /\ bytes_not_flushed <= BufSize
      /\ bytes_written = total_bytes_flushed + bytes_not_flushed
      /\ stream.ok => /\ Len(stream.file) = Start + total_bytes_flushed
                      /\ stream.put = Start + total_bytes_flushed
  BY <1>1, OpenFacts
<1>3. chunk \in Seq(Byte) /\ chunk \in Seq(Cell) /\ Len(chunk) \in Nat
  BY ChunkType
<1>4. Base' = Base /\ Start' = Start
  BY <1>1 DEF Base, Start
<1>5. SUFFICES /\ Held(stream')
               /\ stream'.ok => /\ Len(stream'.file) = Start + total_bytes_flushed'
                                /\ stream'.put = Len(stream'.file)
               /\ total_bytes_flushed' \in Nat
               /\ bytes_not_flushed' \in Nat /\ bytes_not_flushed' <= BufSize
               /\ bytes_written' = total_bytes_flushed' + bytes_not_flushed'
               /\ stream_buffer' \in Seq(Byte) /\ Len(stream_buffer') = BufSize
  BY <1>1, StillOpen
<1>6. CASE WriteBuffered(chunk)
  <2>1. /\ bytes_not_flushed + Len(chunk) <= BufSize
        /\ stream_buffer' = Overwrite(stream_buffer, bytes_not_flushed, chunk)
        /\ bytes_not_flushed' = bytes_not_flushed + Len(chunk)
        /\ stream' = stream /\ total_bytes_flushed' = total_bytes_flushed
    BY <1>2, <1>3, <1>6 DEF WriteBuffered, LeftInStreamBuffer
  <2>2. bytes_not_flushed \in 0..Len(stream_buffer)
    BY <1>2
  <2>3. stream_buffer' \in Seq(Byte) /\ Len(stream_buffer') = BufSize
    BY <1>2, <1>3, <2>1, <2>2, OverwriteProperties
  <2> QED
    BY <1>1, <1>2, <1>3, <2>1, <2>3
<1>7. CASE WriteFlushed(chunk)
  <2>1. /\ Len(chunk) <= BufSize
        /\ stream' \in Writes(stream, Pending)
        /\ stream_buffer' = Overwrite(stream_buffer, 0, chunk)
        /\ bytes_not_flushed' = Len(chunk)
        /\ total_bytes_flushed' = total_bytes_flushed + bytes_not_flushed
    BY <1>2, <1>3, <1>7 DEF WriteFlushed, LeftInStreamBuffer
  <2>2. PICK at \in 0..Len(stream_buffer) : at = 0
    BY <1>2
  <2>3. /\ Overwrite(stream_buffer, at, chunk) \in Seq(Byte)
        /\ Len(Overwrite(stream_buffer, at, chunk)) =
              IF at + Len(chunk) <= Len(stream_buffer)
              THEN Len(stream_buffer) ELSE at + Len(chunk)
    <3>1. stream_buffer \in Seq(Byte) /\ chunk \in Seq(Byte)
      BY <1>2, <1>3
    <3> QED
      BY <3>1, OverwriteProperties
  <2>4. stream_buffer' \in Seq(Byte) /\ Len(stream_buffer') = BufSize
    BY <1>2, <1>3, <2>1, <2>2, <2>3
  <2>5. /\ Held(stream')
        /\ stream'.ok => /\ stream'.put = Start + bytes_written
                         /\ Len(stream'.file) = Start + bytes_written
    BY <1>1, <2>1, FlushHolds
  <2> QED
    BY <1>1, <1>2, <1>3, <2>1, <2>4, <2>5
<1>8. CASE WriteDirect(chunk)
  <2>1. /\ bytes_not_flushed' = 0 /\ stream_buffer' = stream_buffer
        /\ total_bytes_flushed' = total_bytes_flushed + bytes_not_flushed + Len(chunk)
    BY <1>8 DEF WriteDirect
  <2>2. PICK flushed \in Writes(stream, Pending) : stream' \in Writes(flushed, chunk)
    BY <1>8 DEF WriteDirect
  <2>3. /\ Held(flushed)
        /\ flushed.ok => /\ flushed.put = Start + bytes_written
                         /\ Len(flushed.file) = Start + bytes_written
    BY <1>1, FlushHolds
  <2>4. /\ Held(stream')
        /\ stream'.ok =>
              /\ flushed.ok
              /\ stream'.put = flushed.put + Len(chunk)
              /\ Len(stream'.file) = IF flushed.put + Len(chunk) <= Len(flushed.file)
                                     THEN Len(flushed.file)
                                     ELSE flushed.put + Len(chunk)
    BY <1>2, <1>3, <2>2, <2>3, WriteHolds
  <2>5. ASSUME stream'.ok
        PROVE  /\ stream'.put = Start + bytes_written + Len(chunk)
               /\ Len(stream'.file) = Start + bytes_written + Len(chunk)
    BY <1>2, <1>3, <2>3, <2>4, <2>5
  <2> QED
    BY <1>1, <1>2, <1>3, <2>1, <2>4, <2>5
<1> QED
  BY <1>6, <1>7, <1>8 DEF WriteBuffer

\* write_buffer_back_at(): the put position leaves the end of the file and
\* comes back to it, and the patch stays inside the payload.
LEMMA WriteBufferBackAtInv ==
  ASSUME IInv, NEW chunk \in Chunk, NEW pos \in 0..bytes_written,
         WriteBufferBackAt(pos, chunk)
  PROVE  IInv'
<1>1. /\ pc = "open" /\ pc' = "open" /\ before' = before
      /\ bytes_written' = bytes_written /\ pos + Len(chunk) <= bytes_written
  BY DEF WriteBufferBackAt
<1>2. /\ TypeOK /\ Held(stream) /\ before \in Seq(Cell)
      /\ stream_buffer \in Seq(Byte) /\ Len(stream_buffer) = BufSize
      /\ Start \in Nat /\ BufSize \in Nat
      /\ bytes_written \in Nat /\ total_bytes_flushed \in Nat
      /\ bytes_not_flushed \in Nat /\ bytes_not_flushed <= BufSize
      /\ bytes_written = total_bytes_flushed + bytes_not_flushed
      /\ stream.ok => /\ Len(stream.file) = Start + total_bytes_flushed
                      /\ stream.put = Start + total_bytes_flushed
  BY <1>1, OpenFacts
<1>3. /\ chunk \in Seq(Byte) /\ chunk \in Seq(Cell) /\ Len(chunk) \in Nat
      /\ pos \in Nat
  BY <1>2, ChunkType
<1>4. Base' = Base /\ Start' = Start
  BY <1>1 DEF Base, Start
<1>5. SUFFICES /\ Held(stream')
               /\ stream'.ok => /\ Len(stream'.file) = Start + total_bytes_flushed'
                                /\ stream'.put = Len(stream'.file)
               /\ total_bytes_flushed' \in Nat
               /\ bytes_not_flushed' \in Nat /\ bytes_not_flushed' <= BufSize
               /\ bytes_written' = total_bytes_flushed' + bytes_not_flushed'
               /\ stream_buffer' \in Seq(Byte) /\ Len(stream_buffer') = BufSize
  BY <1>1, StillOpen
<1>6. CASE PatchFile(pos, chunk)
  <2>1. /\ total_bytes_flushed' = total_bytes_flushed + bytes_not_flushed
        /\ bytes_not_flushed' = 0 /\ stream_buffer' = stream_buffer
    BY <1>6 DEF PatchFile
  <2> DEFINE back == -(bytes_written - pos)
             forth == bytes_written - pos - Len(chunk)
  <2>2. /\ back \in Int /\ forth \in Int
        /\ Start + bytes_written + back = Start + pos
        /\ Start + pos + Len(chunk) + forth = Start + bytes_written
    <3>1. bytes_written - pos \in Int
      BY <1>2, <1>3
    <3> QED
      BY <1>2, <1>3, <3>1
  <2>3. PICK flushed \in Writes(stream, Pending) :
           \E patched \in Writes(Seek(flushed, back), chunk) :
              stream' = Seek(patched, forth)
    BY <1>6 DEF PatchFile
  <2> HIDE DEF back, forth
  <2>4. PICK patched \in Writes(Seek(flushed, back), chunk) :
           stream' = Seek(patched, forth)
    BY <2>3
  <2>5. /\ Held(flushed)
        /\ flushed.ok => /\ flushed.put = Start + bytes_written
                         /\ Len(flushed.file) = Start + bytes_written
    BY <1>1, FlushHolds
  <2>6. flushed.ok => /\ Start <= flushed.put + back
                      /\ flushed.put + back <= Len(flushed.file)
                      /\ flushed.put + back = Start + pos
    <3>1. Start <= Start + pos /\ Start + pos <= Start + bytes_written
      BY <1>1, <1>2, <1>3
    <3> QED
      BY <2>2, <2>5, <3>1
  <2>7. PICK sought : sought = Seek(flushed, back)
    OBVIOUS
  <2>8. /\ Held(sought)
        /\ sought.file = flushed.file
        /\ sought.ok => flushed.ok /\ sought.put = flushed.put + back
    BY <2>2, <2>5, <2>6, <2>7, SeekHolds
  <2>9. /\ Held(patched)
        /\ patched.ok =>
              /\ sought.ok
              /\ patched.put = sought.put + Len(chunk)
              /\ Len(patched.file) = IF sought.put + Len(chunk) <= Len(sought.file)
                                     THEN Len(sought.file)
                                     ELSE sought.put + Len(chunk)
    BY <1>2, <1>3, <2>4, <2>7, <2>8, WriteHolds
  <2>10. ASSUME patched.ok
         PROVE  /\ patched.put = Start + pos + Len(chunk)
                /\ Len(patched.file) = Start + bytes_written
    <3>1. /\ sought.ok /\ sought.put = Start + pos
          /\ Len(sought.file) = Start + bytes_written
      BY <2>5, <2>6, <2>8, <2>9, <2>10
    <3>2. Start + pos + Len(chunk) <= Start + bytes_written
      BY <1>1, <1>2, <1>3
    <3> QED
      BY <2>9, <2>10, <3>1, <3>2
  <2>11. patched.ok => /\ Start <= patched.put + forth
                       /\ patched.put + forth <= Len(patched.file)
                       /\ patched.put + forth = Start + bytes_written
    BY <1>2, <2>2, <2>10
  <2>12. /\ Held(stream')
         /\ stream'.file = patched.file
         /\ stream'.ok => patched.ok /\ stream'.put = patched.put + forth
    BY <2>2, <2>4, <2>9, <2>11, SeekHolds
  <2>13. stream'.ok => /\ stream'.put = Start + bytes_written
                       /\ Len(stream'.file) = Start + bytes_written
    BY <2>10, <2>11, <2>12
  <2> QED
    BY <1>1, <1>2, <2>1, <2>12, <2>13
<1>7. CASE PatchBuffer(pos, chunk)
  <2> DEFINE at == pos - total_bytes_flushed
  <2>1. /\ at \in 0..Len(stream_buffer)
        /\ at + Len(chunk) <= Len(stream_buffer)
    BY <1>1, <1>2, <1>3, <1>7 DEF PatchBuffer
  <2>2. /\ stream_buffer' = Overwrite(stream_buffer, at, chunk)
        /\ stream' = stream /\ total_bytes_flushed' = total_bytes_flushed
        /\ bytes_not_flushed' = bytes_not_flushed
    BY <1>7 DEF PatchBuffer
  <2> HIDE DEF at
  <2>3. /\ Overwrite(stream_buffer, at, chunk) \in Seq(Byte)
        /\ Len(Overwrite(stream_buffer, at, chunk)) =
              IF at + Len(chunk) <= Len(stream_buffer)
              THEN Len(stream_buffer) ELSE at + Len(chunk)
    BY <1>2, <1>3, <2>1, OverwriteProperties
  <2> QED
    BY <1>1, <1>2, <2>1, <2>2, <2>3
<1> QED
  BY <1>6, <1>7 DEF WriteBufferBackAt

\* finalize(): the pending bytes reach the file.
LEMMA FinalizeFlushInv == IInv /\ FinalizeFlush => IInv'
<1> SUFFICES ASSUME IInv, FinalizeFlush PROVE IInv'
  OBVIOUS
<1>1. /\ pc = "open" /\ pc' = "flushed" /\ before' = before
      /\ bytes_written' = bytes_written /\ stream_buffer' = stream_buffer
      /\ total_bytes_flushed' = total_bytes_flushed + bytes_not_flushed
      /\ bytes_not_flushed' = 0
  BY DEF FinalizeFlush
<1>2. Base' = Base /\ Start' = Start
  BY <1>1 DEF Base, Start
<1>3. /\ TypeOK /\ before \in Seq(Cell)
      /\ stream_buffer \in Seq(Byte) /\ Len(stream_buffer) = BufSize
      /\ Start \in Nat /\ BufSize \in Nat
      /\ bytes_written \in Nat /\ total_bytes_flushed \in Nat
      /\ bytes_not_flushed \in Nat
      /\ bytes_written = total_bytes_flushed + bytes_not_flushed
  BY <1>1, OpenFacts
<1>4. /\ Held(stream')
      /\ stream'.ok => /\ stream'.put = Start + bytes_written
                       /\ Len(stream'.file) = Start + bytes_written
  BY <1>1, FlushHolds DEF FinalizeFlush
<1>5. TypeOK'
  <2>1. stream' \in [file : Seq(Cell), put : Nat, ok : BOOLEAN]
    BY <1>4, StreamFacts DEF Held
  <2>2. /\ bytes_written' \in Nat /\ total_bytes_flushed' \in Nat
        /\ bytes_not_flushed' \in 0..BufSize
    BY <1>1, <1>3
  <2> QED
    BY <1>1, <1>3, <2>1, <2>2 DEF TypeOK
<1>6. Positioned'
  BY <1>1, <1>2, <1>3, <1>4 DEF Positioned
<1> QED
  BY <1>1, <1>3, <1>4, <1>5, <1>6, StillWriting

\* finalize(): the size field, and nothing else, is written over.
LEMMA FinalizeSizeInv == IInv /\ FinalizeSize => IInv'
<1> SUFFICES ASSUME IInv, FinalizeSize PROVE IInv'
  OBVIOUS
<1>1. /\ pc = "flushed" /\ pc' = "sized" /\ before' = before
      /\ bytes_written' = bytes_written /\ stream_buffer' = stream_buffer
      /\ total_bytes_flushed' = total_bytes_flushed
      /\ bytes_not_flushed' = bytes_not_flushed
  BY DEF FinalizeSize, counters
<1>2. Base' = Base /\ Start' = Start
  BY <1>1 DEF Base, Start
<1>3. /\ TypeOK /\ Held(stream) /\ stream \in StreamOf(Cell)
      /\ Base \in Nat /\ Start \in Nat /\ HdrSize \in Nat /\ Start = Base + HdrSize
      /\ bytes_written \in Nat /\ total_bytes_flushed \in Nat
      /\ bytes_not_flushed = 0 /\ bytes_written = total_bytes_flushed
      /\ stream.ok => /\ Len(stream.file) = Start + bytes_written
                      /\ stream.put = Start + bytes_written
      /\ EarlierBytesIntact /\ Base <= Len(stream.file)
  BY <1>1, Offsets DEF IInv, TypeOK, Positioned
<1> DEFINE back == -bytes_written - HdrSize
           size == SizeBytes(bytes_written)
<1>4. /\ back \in Int
      /\ Start + bytes_written + back = Base
  BY <1>3
<1>5. size \in Seq(Cell) /\ Len(size) = HdrSize
  BY <1>3, SizeBytesType
<1>6. PICK st : st = Seek(stream, back)
  OBVIOUS
<1>7. stream' \in Writes(st, size)
  BY <1>6 DEF FinalizeSize
<1> HIDE DEF back, size
<1>8. /\ st \in StreamOf(Cell)
      /\ st.file = stream.file
      /\ st.ok => stream.ok /\ st.put = Base
  <2>1. stream.ok => /\ stream.put + back = Base
                     /\ stream.put + back <= Len(stream.file)
    BY <1>3, <1>4
  <2> QED
    BY <1>3, <1>4, <1>6, <2>1, SeekProperties
<1>9. /\ stream' \in StreamOf(Cell)
      /\ Len(st.file) <= Len(stream'.file)
      /\ stream'.ok => st.ok /\ stream' = Written(st, size)
  BY <1>5, <1>7, <1>8, WritesProperties
<1>10. TypeOK'
  <2>1. stream' \in [file : Seq(Cell), put : Nat, ok : BOOLEAN]
    BY <1>9, StreamFacts
  <2> QED
    BY <1>1, <1>3, <2>1 DEF TypeOK
<1>11. EarlierBytesIntact'
  <2>1. PICK m \in Nat \ {0} : m = 1
    OBVIOUS
  <2>2. st.ok => Base <= st.put
    BY <1>3, <1>8
  <2>3. SubSeq(stream'.file, m, Base) = SubSeq(st.file, m, Base)
    BY <1>3, <1>5, <1>7, <1>8, <2>2, WritesKeeps
  <2> QED
    BY <1>1, <1>2, <1>3, <1>8, <2>1, <2>3 DEF EarlierBytesIntact
<1>12. Base' <= Len(stream'.file)
  <2>1. Len(stream'.file) \in Nat /\ Len(stream.file) \in Nat
    BY <1>3, <1>9, StreamFacts
  <2> QED
    BY <1>2, <1>3, <1>8, <1>9, <2>1
<1>13. ASSUME stream'.ok
       PROVE  /\ SubSeq(stream'.file, Base + 1, Start) = size
              /\ Len(stream'.file) = Start + bytes_written
              /\ stream'.put = Start
  <2>1. /\ st.ok /\ stream' = Written(st, size) /\ st.put = Base
        /\ Len(st.file) = Start + bytes_written
        /\ st.file \in Seq(Cell)
    BY <1>3, <1>8, <1>9, <1>13, StreamFacts
  <2>2. PICK w : w = Written(st, size)
    OBVIOUS
  <2>3. /\ w.file = Overwrite(st.file, st.put, size)
        /\ w.put = st.put + Len(size)
        /\ Len(w.file) = IF st.put + Len(size) <= Len(st.file)
                         THEN Len(st.file) ELSE st.put + Len(size)
    BY <1>5, <1>8, <2>2, WrittenProperties
  <2>4. Base + HdrSize <= Start + bytes_written
    BY <1>3
  <2>5. Base \in 0..Len(st.file)
    BY <1>3, <2>1
  <2>6. SubSeq(Overwrite(st.file, Base, size), Base + 1, Base + Len(size)) = size
    BY <1>5, <2>1, <2>5, OverwriteShows
  <2> QED
    BY <1>3, <1>5, <2>1, <2>2, <2>3, <2>4, <2>6
<1>14. Positioned' /\ SealedFrame'
  BY <1>1, <1>2, <1>3, <1>13 DEF Positioned, SealedFrame, size
<1> QED
  BY <1>1, <1>2, <1>3, <1>9, <1>10, <1>11, <1>12, <1>13, <1>14 DEF IInv

\* finalize(): back to the end of the file, where the next section begins.
LEMMA FinalizeReturnInv == IInv /\ FinalizeReturn => IInv'
<1> SUFFICES ASSUME IInv, FinalizeReturn PROVE IInv'
  OBVIOUS
<1>1. /\ pc = "sized" /\ before' = before
      /\ stream' = Seek(stream, bytes_written)
      /\ pc' = IF stream'.ok THEN "sealed" ELSE "failed"
      /\ bytes_written' = bytes_written /\ stream_buffer' = stream_buffer
      /\ total_bytes_flushed' = total_bytes_flushed
      /\ bytes_not_flushed' = bytes_not_flushed
  BY DEF FinalizeReturn, counters
<1>2. Base' = Base /\ Start' = Start
  BY <1>1 DEF Base, Start
<1>3. /\ TypeOK /\ stream \in StreamOf(Cell) /\ Start \in Nat
      /\ bytes_written \in Int /\ bytes_written \in Nat
      /\ bytes_not_flushed = 0 /\ bytes_written = total_bytes_flushed
      /\ stream.ok => stream.put = Start /\ Len(stream.file) = Start + bytes_written
      /\ EarlierBytesIntact /\ Base <= Len(stream.file) /\ SealedFrame
  BY <1>1, Offsets DEF IInv, TypeOK, Positioned, SealedFrame
<1>4. /\ stream' \in StreamOf(Cell)
      /\ stream'.file = stream.file
      /\ stream'.ok => stream.ok /\ stream'.put = Start + bytes_written
  <2>1. stream.ok => stream.put + bytes_written <= Len(stream.file)
    BY <1>3
  <2>2. /\ stream' \in StreamOf(Cell)
        /\ stream'.file = stream.file
        /\ stream'.ok => stream.ok /\ stream'.put = stream.put + bytes_written
    BY <1>1, <1>3, <2>1, SeekProperties
  <2> QED
    BY <1>3, <2>2
<1>5. TypeOK'
  <2>1. stream' \in [file : Seq(Cell), put : Nat, ok : BOOLEAN]
    BY <1>4, StreamFacts
  <2> QED
    BY <1>1, <1>3, <2>1 DEF TypeOK
<1>6. EarlierBytesIntact' /\ Base' <= Len(stream'.file)
  BY <1>1, <1>2, <1>3, <1>4 DEF EarlierBytesIntact
<1>7. SealedFrame'
  BY <1>1, <1>2, <1>3, <1>4 DEF SealedFrame
<1>8. Positioned'
  BY <1>1, <1>2, <1>3, <1>4 DEF Positioned
<1> QED
  BY <1>1, <1>2, <1>3, <1>4, <1>5, <1>6, <1>7, <1>8 DEF IInv

-----------------------------------------------------------------------------

\* IInv is an invariant of the specification.
THEOREM Invariance == Spec => []IInv
<1>1. IInv /\ [Next]_vars => IInv'
  <2> SUFFICES ASSUME IInv, [Next]_vars PROVE IInv'
    OBVIOUS
  <2>1. CASE Construct
    BY <2>1, ConstructInv
  <2>2. CASE \E chunk \in Chunk : WriteBuffer(chunk)
    BY <2>2, WriteBufferInv
  <2>3. CASE \E pos \in 0..bytes_written, chunk \in Chunk :
                WriteBufferBackAt(pos, chunk)
    BY <2>3, WriteBufferBackAtInv
  <2>4. CASE FinalizeFlush
    BY <2>4, FinalizeFlushInv
  <2>5. CASE FinalizeSize
    BY <2>5, FinalizeSizeInv
  <2>6. CASE FinalizeReturn
    BY <2>6, FinalizeReturnInv
  <2>7. CASE UNCHANGED vars
    BY <2>7 DEF vars, counters, IInv, TypeOK, Positioned, EarlierBytesIntact,
                SealedFrame, Held, Base, Start
  <2> QED
    BY <2>1, <2>2, <2>3, <2>4, <2>5, <2>6, <2>7 DEF Next
<1> QED
  BY InitInv, <1>1, PTL DEF Spec

\* Every variable keeps its type; in particular no memcpy into stream_buffer_
\* goes past its end, whatever is written and patched.
THEOREM TypeCorrect == Spec => []TypeOK
<1>1. IInv => TypeOK
  BY DEF IInv
<1> QED
  BY Invariance, <1>1, PTL

\* The byte counters agree with each other and with the put position.
THEOREM CountersCorrect == Spec => []Positioned
<1>1. IInv => Positioned
  BY DEF IInv
<1> QED
  BY Invariance, <1>1, PTL

\* No seek, patch or failing write of a section reaches an earlier one.
THEOREM EarlierSectionsIntact == Spec => []EarlierBytesIntact
<1>1. IInv => EarlierBytesIntact
  BY DEF IInv
<1> QED
  BY Invariance, <1>1, PTL

\* A crash before finalize() writes the size leaves a section of size 0.
THEOREM UnsizedBeforeFinalize == Spec => []UnsizedUntilFinalize
<1>1. IInv => UnsizedUntilFinalize
  BY DEF IInv, Held, UnsizedUntilFinalize
<1> QED
  BY Invariance, <1>1, PTL

\* No section of which a write failed is ever sealed, and a size field that is
\* written tells the truth about the bytes behind it.
THEOREM SizeFieldTruthful == Spec => []SealedFrame
<1>1. IInv => SealedFrame
  BY DEF IInv
<1> QED
  BY Invariance, <1>1, PTL

-----------------------------------------------------------------------------
(* The writer implements Section.                                           *)

\* The bytes d are the n in the file behind start and the first k of buf.
Shows(file, start, n, buf, k, d) ==
    /\ d \in Seq(Cell) /\ Len(d) = n + k
    /\ \A i \in 1..(n + k) : d[i] = IF i <= n THEN file[start + i] ELSE buf[i - n]

\* What the file and the buffer hold together, byte by byte.
LEMMA PartsShow ==
  ASSUME NEW file \in Seq(Cell), NEW start \in Nat, NEW n \in Nat, start + n <= Len(file),
         NEW buf \in Seq(Byte), NEW k \in 0..Len(buf)
  PROVE  Shows(file, start, n, buf, k,
               SubSeq(file, start + 1, start + n) \o SubSeq(buf, 1, k))
<1>1. Len(file) \in Nat /\ Len(buf) \in Nat /\ k \in Nat /\ buf \in Seq(Cell)
  BY LenProperties, BytesAreCells
<1>2. PICK m \in Nat \ {0}, to \in 0..Len(file) : m = start + 1 /\ to = start + n
  BY <1>1
<1>3. PICK a \in Seq(Cell) : a = SubSeq(file, m, to)
  BY SubSeqType
<1>4. /\ Len(a) = IF m <= to THEN to - (m - 1) ELSE 0
      /\ \A i \in 1..Len(a) : a[i] = file[(m - 1) + i]
  BY <1>3, SubSeqType
<1>5. Len(a) = n /\ \A i \in 1..n : a[i] = file[start + i]
  <2>1. Len(a) = n /\ m - 1 = start
    BY <1>2, <1>4
  <2> QED
    BY <1>4, <2>1
<1>6. PICK one \in Nat \ {0} : one = 1
  OBVIOUS
<1>7. PICK b \in Seq(Cell) : b = SubSeq(buf, one, k)
  BY <1>1, SubSeqType
<1>8. /\ Len(b) = IF one <= k THEN k - (one - 1) ELSE 0
      /\ \A i \in 1..Len(b) : b[i] = buf[(one - 1) + i]
  BY <1>1, <1>7, SubSeqType
<1>9. Len(b) = k /\ \A i \in 1..k : b[i] = buf[i]
  <2>1. Len(b) = k
    BY <1>1, <1>6, <1>8
  <2>2. \A i \in 1..k : (one - 1) + i = i
    BY <1>6
  <2> QED
    BY <1>8, <2>1, <2>2
<1>10. PICK ab \in Seq(Cell) : ab = a \o b
  BY ConcatProperties
<1>11. /\ Len(ab) = n + k
       /\ \A i \in 1..(n + k) : ab[i] = IF i <= n THEN a[i] ELSE b[i - n]
  <2>1. /\ Len(ab) = Len(a) + Len(b)
        /\ \A i \in 1..(Len(a) + Len(b)) :
               ab[i] = IF i <= Len(a) THEN a[i] ELSE b[i - Len(a)]
    BY <1>10, ConcatProperties
  <2>2. Len(a) = n /\ Len(b) = k
    BY <1>5, <1>9
  <2> QED
    BY <2>1, <2>2
<1>12. ASSUME NEW i \in 1..(n + k)
       PROVE  ab[i] = IF i <= n THEN file[start + i] ELSE buf[i - n]
  <2>1. CASE i <= n
    BY <1>5, <1>11, <2>1
  <2>2. CASE ~(i <= n)
    <3>1. i - n \in 1..k
      BY <1>1, <2>2
    <3> QED
      BY <1>9, <1>11, <2>2, <3>1
  <2> QED
    BY <2>1, <2>2
<1>13. Shows(file, start, n, buf, k, ab)
  BY <1>11, <1>12 DEF Shows
<1> QED
  BY <1>2, <1>3, <1>6, <1>7, <1>10, <1>13

\* The file ends with the bytes d, from start on.
Pays(file, start, d) ==
    /\ Len(file) = start + Len(d)
    /\ \A i \in 1..Len(d) : file[start + i] = d[i]

\* What a write that succeeds leaves, byte by byte.
LEMMA WriteShows ==
  ASSUME NEW st \in StreamOf(Cell), NEW s \in Seq(Cell), NEW r \in Writes(st, s), r.ok
  PROVE  /\ st.ok /\ r.put = st.put + Len(s) /\ r.file \in Seq(Cell)
         /\ Len(r.file) = IF st.put + Len(s) <= Len(st.file)
                          THEN Len(st.file) ELSE st.put + Len(s)
         /\ \A i \in 1..Len(r.file) :
                r.file[i] = IF st.put < i /\ i <= st.put + Len(s)
                            THEN s[i - st.put] ELSE st.file[i]
<1>1. st.ok /\ r = Written(st, s) /\ r \in StreamOf(Cell)
  BY WritesProperties
<1>2. /\ r.file = Overwrite(st.file, st.put, s)
      /\ r.put = st.put + Len(s)
      /\ Len(r.file) = IF st.put + Len(s) <= Len(st.file)
                       THEN Len(st.file) ELSE st.put + Len(s)
  BY <1>1, WrittenProperties
<1>3. st.file \in Seq(Cell) /\ st.put \in 0..Len(st.file)
  BY StreamFacts
<1>4. PICK f : f = st.file
  OBVIOUS
<1>5. PICK at : at = st.put
  OBVIOUS
<1>6. f \in Seq(Cell) /\ at \in 0..Len(f)
  BY <1>3, <1>4, <1>5
<1>7. \A i \in 1..Len(Overwrite(f, at, s)) :
         Overwrite(f, at, s)[i] = IF at < i /\ i <= at + Len(s) THEN s[i - at] ELSE f[i]
  BY <1>6, OverwriteProperties
<1>8. r.file \in Seq(Cell)
  BY <1>1, StreamFacts
<1> QED
  BY <1>1, <1>2, <1>4, <1>5, <1>7, <1>8

\* Flushing what is pending brings all of the contents into the file.
LEMMA FlushPays ==
  ASSUME NEW st \in StreamOf(Cell), NEW start \in Nat, NEW n \in Nat,
         NEW buf \in Seq(Byte), NEW k \in 0..Len(buf), NEW p \in Seq(Cell),
         p = SubSeq(buf, 1, k), NEW d, Shows(st.file, start, n, buf, k, d),
         st.ok => Len(st.file) = start + n /\ st.put = start + n,
         NEW r \in Writes(st, p), r.ok
  PROVE  Pays(r.file, start, d)
<1>1. /\ d \in Seq(Cell) /\ Len(d) = n + k
      /\ \A i \in 1..(n + k) : d[i] = IF i <= n THEN st.file[start + i] ELSE buf[i - n]
  BY DEF Shows
<1>2. /\ st.ok
      /\ Len(r.file) = IF st.put + Len(p) <= Len(st.file)
                       THEN Len(st.file) ELSE st.put + Len(p)
      /\ \A i \in 1..Len(r.file) :
             r.file[i] = IF st.put < i /\ i <= st.put + Len(p)
                         THEN p[i - st.put] ELSE st.file[i]
  BY WriteShows
<1>3. Len(st.file) = start + n /\ st.put = start + n
  BY <1>2
<1>4. Len(buf) \in Nat /\ k \in Nat
  BY LenProperties
<1>5. Len(p) = k /\ \A i \in 1..k : p[i] = buf[i]
  <2>1. PICK one \in Nat \ {0} : one = 1
    OBVIOUS
  <2>2. PICK b \in Seq(Byte) : b = SubSeq(buf, one, k)
    BY SubSeqType
  <2>3. /\ Len(b) = IF one <= k THEN k - (one - 1) ELSE 0
        /\ \A i \in 1..Len(b) : b[i] = buf[(one - 1) + i]
    BY <2>2, SubSeqType
  <2>4. Len(b) = k
    BY <1>4, <2>1, <2>3
  <2>5. \A i \in 1..k : (one - 1) + i = i
    BY <1>4, <2>1
  <2>6. b = p
    BY <2>1, <2>2
  <2> QED
    BY <2>3, <2>4, <2>5, <2>6
<1>6. Len(r.file) = start + Len(d)
  BY <1>1, <1>2, <1>3, <1>4, <1>5
<1>7. ASSUME NEW i \in 1..Len(d) PROVE r.file[start + i] = d[i]
  <2>1. PICK j : j = start + i
    OBVIOUS
  <2>2. j \in 1..Len(r.file) /\ i \in 1..(n + k)
    BY <1>1, <1>4, <1>6, <2>1
  <2>3. r.file[j] = IF start + n < j /\ j <= start + n + k
                    THEN p[j - (start + n)] ELSE st.file[j]
    BY <1>2, <1>3, <1>5, <2>2
  <2>4. CASE i <= n
    <3>1. ~(start + n < j)
      BY <1>4, <2>1, <2>2, <2>4
    <3> QED
      BY <1>1, <2>1, <2>2, <2>3, <2>4, <3>1
  <2>5. CASE ~(i <= n)
    <3>1. PICK q : q = i - n
      OBVIOUS
    <3>2. /\ start + n < j /\ j <= start + n + k
          /\ j - (start + n) = q /\ q \in 1..k
      BY <1>4, <2>1, <2>2, <2>5, <3>1
    <3>3. d[i] = buf[q]
      BY <1>1, <2>2, <2>5, <3>1
    <3> QED
      BY <1>5, <2>1, <2>3, <3>2, <3>3
  <2> QED
    BY <2>4, <2>5
<1> QED
  BY <1>6, <1>7 DEF Pays

\* A write at the end of the payload appends to it.
LEMMA AddPays ==
  ASSUME NEW st \in StreamOf(Cell), NEW start \in Nat, NEW d \in Seq(Cell),
         Pays(st.file, start, d), NEW chunk \in Seq(Cell),
         st.put = start + Len(d), NEW r \in Writes(st, chunk), r.ok,
         NEW e \in Seq(Cell), e = d \o chunk
  PROVE  Pays(r.file, start, e)
<1>1. Len(d) \in Nat /\ Len(chunk) \in Nat
  BY LenProperties
<1>2. /\ Len(st.file) = start + Len(d)
      /\ \A i \in 1..Len(d) : st.file[start + i] = d[i]
  BY DEF Pays
<1>3. /\ Len(r.file) = IF st.put + Len(chunk) <= Len(st.file)
                       THEN Len(st.file) ELSE st.put + Len(chunk)
      /\ \A i \in 1..Len(r.file) :
             r.file[i] = IF st.put < i /\ i <= st.put + Len(chunk)
                         THEN chunk[i - st.put] ELSE st.file[i]
  BY WriteShows
<1>4. /\ Len(e) = Len(d) + Len(chunk)
      /\ \A i \in 1..(Len(d) + Len(chunk)) :
             e[i] = IF i <= Len(d) THEN d[i] ELSE chunk[i - Len(d)]
  BY ConcatProperties
<1>5. Len(r.file) = start + Len(e)
  <2>1. Len(r.file) = IF start + Len(d) + Len(chunk) <= start + Len(d)
                      THEN start + Len(d) ELSE start + Len(d) + Len(chunk)
    BY <1>2, <1>3
  <2>2. Len(r.file) = start + Len(d) + Len(chunk)
    BY <1>1, <2>1
  <2> QED
    BY <1>1, <1>4, <2>2
<1>6. ASSUME NEW i \in 1..Len(e) PROVE r.file[start + i] = e[i]
  <2>1. PICK j : j = start + i
    OBVIOUS
  <2>2. j \in 1..Len(r.file) /\ i \in 1..(Len(d) + Len(chunk))
    BY <1>1, <1>4, <1>5, <2>1
  <2>3. r.file[j] = IF start + Len(d) < j /\ j <= start + Len(d) + Len(chunk)
                    THEN chunk[j - (start + Len(d))] ELSE st.file[j]
    BY <1>3, <2>2
  <2>4. CASE i <= Len(d)
    <3>1. ~(start + Len(d) < j)
      BY <1>1, <2>1, <2>2, <2>4
    <3>2. i \in 1..Len(d)
      BY <1>1, <2>2, <2>4
    <3> QED
      BY <1>2, <1>4, <2>1, <2>2, <2>3, <2>4, <3>1, <3>2
  <2>5. CASE ~(i <= Len(d))
    <3>1. PICK q : q = i - Len(d)
      OBVIOUS
    <3>2. /\ start + Len(d) < j /\ j <= start + Len(d) + Len(chunk)
          /\ j - (start + Len(d)) = q
      BY <1>1, <2>1, <2>2, <2>5, <3>1
    <3>3. e[i] = chunk[q]
      BY <1>4, <2>2, <2>5, <3>1
    <3> QED
      BY <2>1, <2>3, <3>2, <3>3
  <2> QED
    BY <2>4, <2>5
<1> QED
  BY <1>5, <1>6 DEF Pays

\* A write inside the payload patches it.
LEMMA PatchPays ==
  ASSUME NEW st \in StreamOf(Cell), NEW start \in Nat, NEW d \in Seq(Cell),
         Pays(st.file, start, d), NEW chunk \in Seq(Cell), NEW pos \in 0..Len(d),
         pos + Len(chunk) <= Len(d), st.put = start + pos,
         NEW r \in Writes(st, chunk), r.ok,
         NEW e \in Seq(Cell), e = Overwrite(d, pos, chunk)
  PROVE  Pays(r.file, start, e)
<1>1. Len(d) \in Nat /\ Len(chunk) \in Nat /\ pos \in Nat
  BY LenProperties
<1>2. /\ Len(st.file) = start + Len(d)
      /\ \A i \in 1..Len(d) : st.file[start + i] = d[i]
  BY DEF Pays
<1>3. /\ Len(r.file) = IF st.put + Len(chunk) <= Len(st.file)
                       THEN Len(st.file) ELSE st.put + Len(chunk)
      /\ \A i \in 1..Len(r.file) :
             r.file[i] = IF st.put < i /\ i <= st.put + Len(chunk)
                         THEN chunk[i - st.put] ELSE st.file[i]
  BY WriteShows, ZenonT(20)
<1>4. /\ Len(e) = IF pos + Len(chunk) <= Len(d) THEN Len(d) ELSE pos + Len(chunk)
      /\ \A i \in 1..Len(e) :
             e[i] = IF pos < i /\ i <= pos + Len(chunk) THEN chunk[i - pos] ELSE d[i]
  BY OverwriteProperties
<1>5. Len(e) = Len(d) /\ Len(r.file) = start + Len(e)
  BY <1>1, <1>2, <1>3, <1>4
<1>6. ASSUME NEW i \in 1..Len(e) PROVE r.file[start + i] = e[i]
  <2>1. PICK j : j = start + i
    OBVIOUS
  <2>2. j \in 1..Len(r.file)
    BY <1>1, <1>5, <2>1
  <2>3. r.file[j] = IF start + pos < j /\ j <= start + pos + Len(chunk)
                    THEN chunk[j - (start + pos)] ELSE st.file[j]
    BY <1>3, <2>2
  <2>4. /\ (start + pos < j /\ j <= start + pos + Len(chunk))
               <=> (pos < i /\ i <= pos + Len(chunk))
        /\ j - (start + pos) = i - pos
    BY <1>1, <1>5, <2>1
  <2> QED
    BY <1>2, <1>4, <1>5, <2>1, <2>3, <2>4
<1> QED
  BY <1>5, <1>6 DEF Pays

\* A write in front of the payload leaves it alone.
LEMMA SizePays ==
  ASSUME NEW st \in StreamOf(Cell), NEW start \in Nat, NEW d \in Seq(Cell),
         Pays(st.file, start, d), NEW s \in Seq(Cell),
         st.put + Len(s) <= start, NEW r \in Writes(st, s), r.ok
  PROVE  Pays(r.file, start, d)
<1>1. Len(d) \in Nat /\ Len(s) \in Nat /\ st.put \in Nat
  BY LenProperties, StreamFacts
<1>2. /\ Len(st.file) = start + Len(d)
      /\ \A i \in 1..Len(d) : st.file[start + i] = d[i]
  BY DEF Pays
<1>3. /\ Len(r.file) = IF st.put + Len(s) <= Len(st.file)
                       THEN Len(st.file) ELSE st.put + Len(s)
      /\ \A i \in 1..Len(r.file) :
             r.file[i] = IF st.put < i /\ i <= st.put + Len(s)
                         THEN s[i - st.put] ELSE st.file[i]
  BY WriteShows
<1>4. Len(r.file) = start + Len(d)
  BY <1>1, <1>2, <1>3
<1>5. ASSUME NEW i \in 1..Len(d) PROVE r.file[start + i] = d[i]
  <2>1. PICK j : j = start + i
    OBVIOUS
  <2>2. j \in 1..Len(r.file) /\ ~(j <= st.put + Len(s))
    BY <1>1, <1>4, <2>1
  <2>3. r.file[j] = st.file[j]
    BY <1>3, <2>2
  <2> QED
    BY <1>2, <2>1, <2>3
<1> QED
  BY <1>4, <1>5 DEF Pays

\* A file that ends with d, and a buffer that begins with chunk.
LEMMA PaysShow ==
  ASSUME NEW file, NEW start \in Nat, NEW d \in Seq(Cell), Pays(file, start, d),
         NEW buf, NEW k \in Nat, NEW chunk \in Seq(Cell), Len(chunk) = k,
         \A i \in 1..k : buf[i] = chunk[i],
         NEW e \in Seq(Cell), e = d \o chunk
  PROVE  Shows(file, start, Len(d), buf, k, e)
<1>1. Len(d) \in Nat
  BY LenProperties
<1>2. \A i \in 1..Len(d) : file[start + i] = d[i]
  BY DEF Pays
<1>3. /\ Len(e) = Len(d) + k
      /\ \A i \in 1..(Len(d) + k) : e[i] = IF i <= Len(d) THEN d[i] ELSE chunk[i - Len(d)]
  BY ConcatProperties
<1>4. ASSUME NEW i \in 1..(Len(d) + k)
      PROVE  e[i] = IF i <= Len(d) THEN file[start + i] ELSE buf[i - Len(d)]
  <2>1. CASE i <= Len(d)
    BY <1>1, <1>2, <1>3, <2>1
  <2>2. CASE ~(i <= Len(d))
    <3>1. PICK q : q = i - Len(d)
      OBVIOUS
    <3>2. q \in 1..k
      BY <1>1, <2>2, <3>1
    <3> QED
      BY <1>3, <2>2, <3>1, <3>2
  <2> QED
    BY <2>1, <2>2
<1> QED
  BY <1>3, <1>4 DEF Shows

\* A file that ends with d, and nothing pending.
LEMMA PaysShowAlone ==
  ASSUME NEW file, NEW start \in Nat, NEW d \in Seq(Cell), Pays(file, start, d), NEW buf
  PROVE  Shows(file, start, Len(d), buf, 0, d)
<1>1. Len(d) \in Nat
  BY LenProperties
<1> QED
  BY <1>1 DEF Pays, Shows

\* The file and the buffer say what the contents are.
LEMMA ShownOnce ==
  ASSUME NEW file, NEW start, NEW n, NEW buf, NEW k, NEW d, NEW e,
         Shows(file, start, n, buf, k, d), Shows(file, start, n, buf, k, e)
  PROVE  d = e
<1>1. d \in Seq(Cell) /\ e \in Seq(Cell) /\ Len(d) = n + k /\ Len(e) = n + k
  BY DEF Shows
<1>2. \A i \in 1..Len(d) : d[i] = e[i]
  BY <1>1 DEF Shows
<1> QED
  BY <1>1, <1>2, SeqEqual

\* A chunk behind the pending bytes.
LEMMA BufferAdds ==
  ASSUME NEW file, NEW start, NEW n \in Nat, NEW buf \in Seq(Byte), NEW k \in 0..Len(buf),
         NEW d, Shows(file, start, n, buf, k, d),
         NEW chunk \in Seq(Byte), k + Len(chunk) <= Len(buf),
         NEW e \in Seq(Cell), e = d \o chunk
  PROVE  Shows(file, start, n, Overwrite(buf, k, chunk), k + Len(chunk), e)
<1>1. /\ d \in Seq(Cell) /\ Len(d) = n + k
      /\ \A i \in 1..(n + k) : d[i] = IF i <= n THEN file[start + i] ELSE buf[i - n]
  BY DEF Shows
<1>2. /\ Len(buf) \in Nat /\ Len(chunk) \in Nat /\ k \in Nat /\ chunk \in Seq(Cell)
  BY LenProperties, BytesAreCells
<1>3. PICK b \in Seq(Byte) : b = Overwrite(buf, k, chunk)
  BY OverwriteProperties
<1>4. /\ Len(b) = IF k + Len(chunk) <= Len(buf) THEN Len(buf) ELSE k + Len(chunk)
      /\ \A i \in 1..Len(b) :
             b[i] = IF k < i /\ i <= k + Len(chunk) THEN chunk[i - k] ELSE buf[i]
  BY <1>3, OverwriteProperties
<1>5. Len(b) = Len(buf)
  BY <1>4
<1>6. /\ Len(e) = Len(d) + Len(chunk)
      /\ \A i \in 1..(Len(d) + Len(chunk)) :
             e[i] = IF i <= Len(d) THEN d[i] ELSE chunk[i - Len(d)]
  BY <1>1, <1>2, ConcatProperties
<1>7. Len(e) = n + (k + Len(chunk))
  BY <1>1, <1>2, <1>6
<1>8. ASSUME NEW i \in 1..(n + (k + Len(chunk)))
      PROVE  e[i] = IF i <= n THEN file[start + i] ELSE b[i - n]
  <2>1. e[i] = IF i <= n + k THEN d[i] ELSE chunk[i - (n + k)]
    BY <1>1, <1>2, <1>6
  <2>2. CASE i <= n
    BY <1>1, <1>2, <2>1, <2>2
  <2>3. CASE ~(i <= n)
    <3>1. PICK q : q = i - n
      OBVIOUS
    <3>2. /\ q \in 1..Len(b) /\ q \in Nat
          /\ i <= n + k <=> ~(k < q /\ q <= k + Len(chunk))
          /\ i - (n + k) = q - k
      BY <1>2, <1>5, <2>3, <3>1
    <3>3. b[q] = IF k < q /\ q <= k + Len(chunk) THEN chunk[q - k] ELSE buf[q]
      BY <1>4, <3>2
    <3>4. i <= n + k => d[i] = buf[q]
      BY <1>1, <1>2, <2>3, <3>1
    <3> QED
      BY <2>1, <2>3, <3>1, <3>2, <3>3, <3>4
  <2> QED
    BY <2>2, <2>3
<1> QED
  BY <1>3, <1>7, <1>8 DEF Shows

\* A patch of the pending bytes.
LEMMA BufferPatches ==
  ASSUME NEW file, NEW start, NEW n \in Nat, NEW buf \in Seq(Byte), NEW k \in 0..Len(buf),
         NEW d, Shows(file, start, n, buf, k, d),
         NEW chunk \in Seq(Byte), NEW pos \in Nat, n <= pos, pos + Len(chunk) <= n + k,
         NEW e \in Seq(Cell), e = Overwrite(d, pos, chunk)
  PROVE  Shows(file, start, n, Overwrite(buf, pos - n, chunk), k, e)
<1>1. /\ d \in Seq(Cell) /\ Len(d) = n + k
      /\ \A i \in 1..(n + k) : d[i] = IF i <= n THEN file[start + i] ELSE buf[i - n]
  BY DEF Shows
<1>2. /\ Len(buf) \in Nat /\ Len(chunk) \in Nat /\ k \in Nat /\ chunk \in Seq(Cell)
  BY LenProperties, BytesAreCells
<1>3. PICK at \in 0..Len(buf) : at = pos - n
  BY <1>2
<1>4. PICK b \in Seq(Byte) : b = Overwrite(buf, at, chunk)
  BY OverwriteProperties
<1>5. /\ Len(b) = IF at + Len(chunk) <= Len(buf) THEN Len(buf) ELSE at + Len(chunk)
      /\ \A i \in 1..Len(b) :
             b[i] = IF at < i /\ i <= at + Len(chunk) THEN chunk[i - at] ELSE buf[i]
  BY <1>4, OverwriteProperties
<1>6. Len(b) = Len(buf)
  BY <1>2, <1>3, <1>5
<1>7. pos \in 0..Len(d) /\ d \in Seq(Cell) /\ chunk \in Seq(Cell)
  BY <1>1, <1>2
<1>8. /\ Len(e) = IF pos + Len(chunk) <= Len(d) THEN Len(d) ELSE pos + Len(chunk)
      /\ \A i \in 1..Len(e) :
             e[i] = IF pos < i /\ i <= pos + Len(chunk) THEN chunk[i - pos] ELSE d[i]
  BY <1>7, OverwriteProperties
<1>9. Len(e) = n + k
  BY <1>1, <1>2, <1>8
<1>10. ASSUME NEW i \in 1..(n + k)
       PROVE  e[i] = IF i <= n THEN file[start + i] ELSE b[i - n]
  <2>1. e[i] = IF pos < i /\ i <= pos + Len(chunk) THEN chunk[i - pos] ELSE d[i]
    BY <1>8, <1>9
  <2>2. CASE i <= n
    <3>1. ~(pos < i)
      BY <1>2, <2>2
    <3> QED
      BY <1>1, <2>1, <2>2, <3>1
  <2>3. CASE ~(i <= n)
    <3>1. PICK q : q = i - n
      OBVIOUS
    <3>2. /\ q \in 1..Len(b)
          /\ (pos < i /\ i <= pos + Len(chunk)) <=> (at < q /\ q <= at + Len(chunk))
          /\ i - pos = q - at
      BY <1>2, <1>3, <1>6, <2>3, <3>1
    <3>3. b[q] = IF at < q /\ q <= at + Len(chunk) THEN chunk[q - at] ELSE buf[q]
      BY <1>5, <3>2
    <3>4. d[i] = buf[q]
      BY <1>1, <2>3, <3>1
    <3> QED
      BY <2>1, <2>3, <3>1, <3>2, <3>3, <3>4
  <2> QED
    BY <2>2, <2>3
<1> QED
  BY <1>3, <1>4, <1>9, <1>10 DEF Shows

-----------------------------------------------------------------------------

\* The status of a section whose writer is at p, with a stream that is ok or not.
StatusOf(p, ok) ==
    CASE p = "none" -> "none"
      [] p = "sealed" -> "sealed"
      [] p = "failed" \/ (p \in {"open", "flushed", "sized"} /\ ~ok) -> "failed"
      [] p \in {"open", "flushed", "sized"} /\ ok -> "open"

\* The cases of the status exclude each other: a stream fails no earlier than
\* the first section is begun, and while none is sealed.
LEMMA StatusCases ==
  ASSUME NEW ok \in BOOLEAN,
         NEW p \in {"none", "open", "flushed", "sized", "sealed", "failed"},
         p \in {"none", "sealed"} => ok
  PROVE  /\ p = "none" => StatusOf(p, ok) = "none"
         /\ p # "none" /\ (p = "failed" \/ ~ok) => StatusOf(p, ok) = "failed"
         /\ p = "sealed" /\ ok => StatusOf(p, ok) = "sealed"
         /\ p \in {"open", "flushed", "sized"} /\ ok => StatusOf(p, ok) = "open"
BY DEF StatusOf

\* What callers see of the writer before a step.
LEMMA SeenBefore ==
  ASSUME IInv
  PROVE  /\ AbstractStatus = StatusOf(pc, stream.ok) /\ stream.ok \in BOOLEAN
         /\ pc \in {"none", "open", "flushed", "sized", "sealed", "failed"}
         /\ pc \in {"none", "sealed"} => stream.ok
         /\ AbstractStatus \in {"open", "sealed"} => AbstractData = Contents
         /\ AbstractStatus \notin {"open", "sealed"} => AbstractData = <<>>
<1>1. AbstractStatus = StatusOf(pc, stream.ok)
  BY DEF AbstractStatus, StatusOf, Writing
<1>2. /\ stream.ok \in BOOLEAN /\ (pc \in {"none", "sealed"} => stream.ok)
      /\ pc \in {"none", "open", "flushed", "sized", "sealed", "failed"}
  BY DEF IInv, TypeOK, SealedFrame
<1>3. /\ AbstractStatus \in {"open", "sealed"} => AbstractData = Contents
      /\ AbstractStatus \notin {"open", "sealed"} => AbstractData = <<>>
  BY DEF AbstractData
<1> QED
  BY <1>1, <1>2, <1>3

\* What callers see of the writer after a step.
LEMMA SeenAfter ==
  ASSUME IInv'
  PROVE  /\ AbstractStatus' = StatusOf(pc', stream'.ok) /\ stream'.ok \in BOOLEAN
         /\ pc' \in {"none", "open", "flushed", "sized", "sealed", "failed"}
         /\ pc' \in {"none", "sealed"} => stream'.ok
         /\ AbstractStatus' \in {"open", "sealed"} => AbstractData' = Contents'
         /\ AbstractStatus' \notin {"open", "sealed"} => AbstractData' = <<>>
<1>1. AbstractStatus' = StatusOf(pc', stream'.ok)
  BY DEF AbstractStatus, StatusOf, Writing
<1>2. /\ stream'.ok \in BOOLEAN /\ (pc' \in {"none", "sealed"} => stream'.ok)
      /\ pc' \in {"none", "open", "flushed", "sized", "sealed", "failed"}
  BY DEF IInv, TypeOK, SealedFrame
<1>3. /\ AbstractStatus' \in {"open", "sealed"} => AbstractData' = Contents'
      /\ AbstractStatus' \notin {"open", "sealed"} => AbstractData' = <<>>
  BY DEF AbstractData
<1> QED
  BY <1>1, <1>2, <1>3

\* The contents, while the stream is good.
LEMMA ContentsShow ==
  ASSUME IInv, pc \in {"open", "flushed", "sized", "sealed"}, stream.ok
  PROVE  Shows(stream.file, Start, total_bytes_flushed,
               stream_buffer, bytes_not_flushed, Contents)
<1>1. /\ TypeOK /\ Start \in Nat /\ stream.file \in Seq(Cell)
      /\ total_bytes_flushed \in Nat /\ bytes_not_flushed \in Nat
      /\ stream_buffer \in Seq(Byte) /\ bytes_not_flushed \in 0..Len(stream_buffer)
  BY Offsets DEF IInv, TypeOK
<1>2. /\ bytes_written = total_bytes_flushed + bytes_not_flushed
      /\ pc # "sized" => Len(stream.file) = Start + total_bytes_flushed
      /\ pc = "sized" => /\ Len(stream.file) = Start + bytes_written
                         /\ bytes_not_flushed = 0
  BY DEF IInv, Positioned, SealedFrame
<1>3. Start + total_bytes_flushed <= Len(stream.file)
  BY <1>1, <1>2
<1>4. PICK file : file = stream.file
  OBVIOUS
<1>5. file \in Seq(Cell) /\ Start + total_bytes_flushed <= Len(file)
  BY <1>1, <1>3, <1>4
<1>6. Shows(file, Start, total_bytes_flushed, stream_buffer, bytes_not_flushed,
            SubSeq(file, Start + 1, Start + total_bytes_flushed)
              \o SubSeq(stream_buffer, 1, bytes_not_flushed))
  BY <1>1, <1>5, PartsShow
<1> QED
  BY <1>4, <1>6 DEF Contents, Pending

\* Whatever the file and the buffer show after a step is the new contents.
LEMMA ContentsAre ==
  ASSUME IInv', pc' \in {"open", "flushed", "sized", "sealed"}, stream'.ok,
         NEW e, Shows(stream'.file, Start', total_bytes_flushed',
                      stream_buffer', bytes_not_flushed', e)
  PROVE  Contents' = e
<1>1. /\ TypeOK' /\ stream'.file \in Seq(Cell) /\ before' \in Seq(Cell)
      /\ total_bytes_flushed' \in Nat /\ bytes_not_flushed' \in Nat
      /\ stream_buffer' \in Seq(Byte) /\ bytes_not_flushed' \in 0..Len(stream_buffer')
  BY DEF IInv, TypeOK
<1>2. Start' \in Nat
  <2>1. Len(before') \in Nat
    BY <1>1, LenProperties
  <2> QED
    BY <2>1, HdrAssumption DEF Start, Base
<1>3. /\ bytes_written' = total_bytes_flushed' + bytes_not_flushed'
      /\ pc' # "sized" => Len(stream'.file) = Start' + total_bytes_flushed'
      /\ pc' = "sized" => /\ Len(stream'.file) = Start' + bytes_written'
                          /\ bytes_not_flushed' = 0
  BY DEF IInv, Positioned, SealedFrame
<1>4. Start' + total_bytes_flushed' <= Len(stream'.file)
  BY <1>1, <1>2, <1>3
<1>5. PICK file \in Seq(Cell) : file = stream'.file
  BY <1>1
<1>6. PICK start \in Nat : start = Start'
  BY <1>2
<1>7. PICK n \in Nat : n = total_bytes_flushed'
  BY <1>1
<1>8. PICK buf \in Seq(Byte) : buf = stream_buffer'
  BY <1>1
<1>9. PICK k \in 0..Len(buf) : k = bytes_not_flushed'
  BY <1>1, <1>8
<1>10. start + n <= Len(file)
  BY <1>4, <1>5, <1>6, <1>7
<1>11. PICK c : c = SubSeq(file, start + 1, start + n) \o SubSeq(buf, 1, k)
  OBVIOUS
<1>12. Shows(file, start, n, buf, k, c)
  BY <1>10, <1>11, PartsShow
<1>13. Shows(file, start, n, buf, k, e)
  BY <1>5, <1>6, <1>7, <1>8, <1>9
<1>14. c = e
  BY <1>12, <1>13, ShownOnce
<1>15. Contents' = c
  BY <1>5, <1>6, <1>7, <1>8, <1>9, <1>11 DEF Contents, Pending
<1> QED
  BY <1>14, <1>15

\* A step that leaves the section failed fails it, or finds it failed.
LEMMA FailSeen ==
  ASSUME IInv, IInv', AbstractStatus' = "failed"
  PROVE  [S!Next]_S!vars
<1>1. AbstractData' = <<>>
  BY SeenAfter
<1>2. CASE AbstractStatus = "failed"
  <2>1. AbstractData = <<>>
    BY <1>2, SeenBefore
  <2> QED
    BY <1>1, <1>2, <2>1 DEF S!vars
<1>3. CASE AbstractStatus # "failed"
  BY <1>1, <1>3 DEF S!Fail, S!Next
<1> QED
  BY <1>2, <1>3

\* A step of an open section, while the stream is good.
LEMMA OpenSeen ==
  ASSUME IInv, pc = "open", stream.ok
  PROVE  /\ AbstractStatus = "open" /\ AbstractData = Contents
         /\ Contents \in Seq(Cell) /\ Len(Contents) = bytes_written
         /\ Shows(stream.file, Start, total_bytes_flushed,
                  stream_buffer, bytes_not_flushed, Contents)
<1>1. AbstractStatus = "open" /\ AbstractData = Contents
  BY SeenBefore, StatusCases
<1>2. Shows(stream.file, Start, total_bytes_flushed,
            stream_buffer, bytes_not_flushed, Contents)
  BY ContentsShow
<1>3. Contents \in Seq(Cell) /\ Len(Contents) = total_bytes_flushed + bytes_not_flushed
  BY <1>2 DEF Shows
<1> QED
  BY <1>1, <1>2, <1>3, OpenFacts

\* Flushing an open section brings its contents into the file.
LEMMA FlushShows ==
  ASSUME IInv, pc = "open", NEW flushed \in Writes(stream, Pending), flushed.ok
  PROVE  /\ stream.ok /\ Pays(flushed.file, Start, Contents)
         /\ flushed \in StreamOf(Cell) /\ flushed.put = Start + bytes_written
<1>1. /\ Held(flushed) /\ stream.ok /\ flushed.put = Start + bytes_written
  BY FlushHolds
<1>2. /\ stream \in StreamOf(Cell) /\ Start \in Nat /\ total_bytes_flushed \in Nat
      /\ stream_buffer \in Seq(Byte) /\ bytes_not_flushed \in 0..Len(stream_buffer)
      /\ Pending \in Seq(Cell) /\ Pending = SubSeq(stream_buffer, 1, bytes_not_flushed)
      /\ stream.ok => /\ Len(stream.file) = Start + total_bytes_flushed
                      /\ stream.put = Start + total_bytes_flushed
  BY OpenFacts DEF Held, Pending
<1>3. Shows(stream.file, Start, total_bytes_flushed,
            stream_buffer, bytes_not_flushed, Contents)
  BY <1>1, OpenSeen
<1>4. PICK p \in Seq(Cell) : p = Pending
  BY <1>2
<1>5. p = SubSeq(stream_buffer, 1, bytes_not_flushed) /\ flushed \in Writes(stream, p)
  BY <1>2, <1>4
<1>6. PICK d : d = Contents
  OBVIOUS
<1>7. Shows(stream.file, Start, total_bytes_flushed, stream_buffer, bytes_not_flushed, d)
  BY <1>3, <1>6
<1>8. Pays(flushed.file, Start, d)
  BY <1>2, <1>5, <1>7, FlushPays
<1> QED
  BY <1>1, <1>6, <1>8 DEF Held

\* What is left to show of a step that leaves the section open.
LEMMA OpenAfter ==
  ASSUME IInv', pc' \in {"open", "flushed", "sized"}, stream'.ok, Start' = Start,
         NEW e, Shows(stream'.file, Start, total_bytes_flushed',
                      stream_buffer', bytes_not_flushed', e)
  PROVE  AbstractStatus' = "open" /\ AbstractData' = e
<1>1. AbstractStatus' = "open"
  <2>1. /\ AbstractStatus' = StatusOf(pc', stream'.ok) /\ stream'.ok \in BOOLEAN
        /\ pc' \in {"none", "open", "flushed", "sized", "sealed", "failed"}
        /\ pc' \in {"none", "sealed"} => stream'.ok
    BY SeenAfter
  <2>2. StatusOf(pc', stream'.ok) = "open"
    BY <2>1, StatusCases
  <2> QED
    BY <2>1, <2>2
<1>2. Contents' = e
  BY ContentsAre
<1> QED
  BY <1>1, <1>2, SeenAfter

-----------------------------------------------------------------------------

\* The constructor begins the section, empty.
LEMMA ConstructSeen ==
  ASSUME IInv, IInv', Construct
  PROVE  [S!Next]_S!vars
<1>1. /\ pc \in {"none", "sealed"} /\ stream' \in Writes(stream, SizeBytes(0))
      /\ total_bytes_flushed' = 0 /\ bytes_not_flushed' = 0
      /\ pc' = IF stream'.ok THEN "open" ELSE "failed"
  BY DEF Construct
<1>2. CASE ~stream'.ok
  <2>1. AbstractStatus' = "failed"
    BY <1>1, <1>2, SeenAfter, StatusCases
  <2> QED
    BY <2>1, FailSeen
<1>3. CASE stream'.ok
  <2>1. stream.ok
    <3>1. stream \in StreamOf(Cell) /\ SizeBytes(0) \in Seq(Cell)
      BY SizeBytesType DEF IInv
    <3>2. PICK size \in Seq(Cell) : size = SizeBytes(0)
      BY <3>1
    <3>3. stream' \in Writes(stream, size)
      BY <1>1, <3>2
    <3> QED
      BY <1>3, <3>1, <3>3, WritesProperties
  <2>2. AbstractStatus \in {"none", "sealed"}
    BY <1>1, <2>1, SeenBefore, StatusCases
  <2>3. AbstractStatus' = "open"
    BY <1>1, <1>3, SeenAfter, StatusCases
  <2>4. PICK e \in Seq(Cell) : e = <<>>
    BY EmptySeq
  <2>5. Shows(stream'.file, Start', total_bytes_flushed',
              stream_buffer', bytes_not_flushed', e)
    <3>1. Len(e) = 0 /\ 0 + 0 = 0
      BY <2>4, EmptySeq
    <3> QED
      BY <1>1, <3>1 DEF Shows
  <2>6. AbstractData' = <<>>
    <3>1. Contents' = e
      BY <1>1, <1>3, <2>5, ContentsAre
    <3> QED
      BY <2>3, <2>4, <3>1, SeenAfter
  <2> QED
    BY <2>2, <2>3, <2>6 DEF S!Begin, S!Next
<1> QED
  BY <1>2, <1>3

\* A stream that is bad after a step of an open section.
LEMMA BadSeen ==
  ASSUME IInv, IInv', pc' # "none", ~stream'.ok
  PROVE  [S!Next]_S!vars
<1>1. AbstractStatus' = "failed"
  BY SeenAfter, StatusCases
<1> QED
  BY <1>1, FailSeen

\* write_buffer() appends the chunk, wherever it goes.
LEMMA WriteBufferSeen ==
  ASSUME IInv, IInv', NEW chunk \in Chunk, WriteBuffer(chunk)
  PROVE  [S!Next]_S!vars
<1>1. /\ pc = "open" /\ pc' = "open" /\ before' = before
      /\ WriteBuffered(chunk) \/ WriteFlushed(chunk) \/ WriteDirect(chunk)
  BY DEF WriteBuffer
<1>2. Start' = Start
  BY <1>1 DEF Base, Start
<1>3. chunk \in Seq(Byte) /\ chunk \in Seq(Cell) /\ Len(chunk) \in Nat
  BY ChunkType
<1>4. /\ stream \in StreamOf(Cell) /\ Start \in Nat /\ BufSize \in Nat
      /\ stream_buffer \in Seq(Byte) /\ Len(stream_buffer) = BufSize
      /\ bytes_not_flushed \in 0..Len(stream_buffer) /\ bytes_not_flushed \in Nat
      /\ total_bytes_flushed \in Nat /\ bytes_written \in Nat
      /\ bytes_written = total_bytes_flushed + bytes_not_flushed
      /\ Pending \in Seq(Cell)
  BY <1>1, OpenFacts DEF Held
<1>5. CASE ~stream'.ok
  BY <1>1, <1>5, BadSeen
<1>6. CASE stream'.ok
  <2>1. stream.ok
    <3>1. CASE WriteBuffered(chunk)
      BY <1>6, <3>1 DEF WriteBuffered
    <3>2. CASE WriteFlushed(chunk)
      BY <1>1, <1>6, <3>2, FlushShows DEF WriteFlushed
    <3>3. CASE WriteDirect(chunk)
      <4>1. PICK flushed \in Writes(stream, Pending) : stream' \in Writes(flushed, chunk)
        BY <3>3 DEF WriteDirect
      <4>2. flushed \in StreamOf(Cell)
        BY <1>4, <4>1, WritesProperties
      <4>3. flushed.ok
        BY <1>3, <1>6, <4>1, <4>2, WritesProperties
      <4> QED
        BY <1>1, <4>1, <4>3, FlushShows
    <3> QED
      BY <1>1, <3>1, <3>2, <3>3
  <2>2. /\ AbstractStatus = "open" /\ AbstractData = Contents
        /\ Contents \in Seq(Cell) /\ Len(Contents) = bytes_written
        /\ Shows(stream.file, Start, total_bytes_flushed,
                 stream_buffer, bytes_not_flushed, Contents)
    BY <1>1, <2>1, OpenSeen
  <2>3. PICK d \in Seq(Cell) : d = Contents
    BY <2>2
  <2>4. PICK e \in Seq(Cell) : e = d \o chunk
    BY <1>3, ConcatProperties
  <2>5. Shows(stream'.file, Start, total_bytes_flushed',
              stream_buffer', bytes_not_flushed', e)
    <3>1. CASE WriteBuffered(chunk)
      <4>1. /\ stream_buffer' = Overwrite(stream_buffer, bytes_not_flushed, chunk)
            /\ bytes_not_flushed' = bytes_not_flushed + Len(chunk)
            /\ stream' = stream /\ total_bytes_flushed' = total_bytes_flushed
            /\ bytes_not_flushed + Len(chunk) <= Len(stream_buffer)
        BY <1>3, <1>4, <3>1 DEF WriteBuffered, LeftInStreamBuffer
      <4>2. Shows(stream.file, Start, total_bytes_flushed,
                  stream_buffer, bytes_not_flushed, d)
        BY <2>2, <2>3
      <4>3. Shows(stream.file, Start, total_bytes_flushed,
                  Overwrite(stream_buffer, bytes_not_flushed, chunk),
                  bytes_not_flushed + Len(chunk), e)
        BY <1>3, <1>4, <2>4, <4>1, <4>2, BufferAdds
      <4> QED
        BY <4>1, <4>3
    <3>2. CASE WriteFlushed(chunk)
      <4>1. /\ Len(chunk) <= BufSize /\ stream' \in Writes(stream, Pending)
            /\ stream_buffer' = Overwrite(stream_buffer, 0, chunk)
            /\ bytes_not_flushed' = Len(chunk)
            /\ total_bytes_flushed' = total_bytes_flushed + bytes_not_flushed
        BY <1>3, <1>4, <3>2 DEF WriteFlushed, LeftInStreamBuffer
      <4>2. Pays(stream'.file, Start, d)
        BY <1>1, <1>6, <2>3, <4>1, FlushShows
      <4>3. \A i \in 1..Len(chunk) : stream_buffer'[i] = chunk[i]
        <5>1. PICK at \in 0..Len(stream_buffer) : at = 0
          BY <1>4
        <5>2. PICK b \in Seq(Byte) : b = Overwrite(stream_buffer, at, chunk)
          BY <1>3, <1>4, OverwriteProperties
        <5>3. /\ Len(b) = IF at + Len(chunk) <= Len(stream_buffer)
                          THEN Len(stream_buffer) ELSE at + Len(chunk)
              /\ \A i \in 1..Len(b) : b[i] = IF at < i /\ i <= at + Len(chunk)
                                             THEN chunk[i - at] ELSE stream_buffer[i]
          BY <1>3, <1>4, <5>2, OverwriteProperties
        <5>4. Len(b) = BufSize
          BY <1>3, <1>4, <4>1, <5>1, <5>3
        <5>5. ASSUME NEW i \in 1..Len(chunk) PROVE b[i] = chunk[i]
          <6>1. i \in 1..Len(b) /\ at < i /\ i <= at + Len(chunk) /\ i - at = i
            BY <1>3, <1>4, <4>1, <5>1, <5>4
          <6> QED
            BY <5>3, <6>1
        <5> QED
          BY <4>1, <5>1, <5>2, <5>5
      <4>4. Shows(stream'.file, Start, Len(d), stream_buffer', Len(chunk), e)
        BY <1>3, <1>4, <2>4, <4>2, <4>3, PaysShow
      <4> QED
        BY <1>4, <2>2, <2>3, <4>1, <4>4
    <3>3. CASE WriteDirect(chunk)
      <4>1. /\ bytes_not_flushed' = 0
            /\ total_bytes_flushed' = total_bytes_flushed + bytes_not_flushed + Len(chunk)
        BY <3>3 DEF WriteDirect
      <4>2. PICK flushed \in Writes(stream, Pending) : stream' \in Writes(flushed, chunk)
        BY <3>3 DEF WriteDirect
      <4>3. flushed \in StreamOf(Cell)
        BY <1>4, <4>2, WritesProperties
      <4>4. flushed.ok
        BY <1>3, <1>6, <4>2, <4>3, WritesProperties
      <4>5. Pays(flushed.file, Start, d) /\ flushed.put = Start + Len(d)
        BY <1>1, <2>2, <2>3, <4>2, <4>4, FlushShows
      <4>6. Pays(stream'.file, Start, e)
        BY <1>3, <1>4, <1>6, <2>4, <4>2, <4>3, <4>5, AddPays
      <4>7. Shows(stream'.file, Start, Len(e), stream_buffer', 0, e)
        BY <1>4, <4>6, PaysShowAlone
      <4>8. Len(e) = Len(d) + Len(chunk)
        BY <1>3, <2>4, ConcatProperties
      <4> QED
        BY <1>4, <2>2, <2>3, <4>1, <4>7, <4>8
    <3> QED
      BY <1>1, <3>1, <3>2, <3>3
  <2>6. AbstractStatus' = "open" /\ AbstractData' = e
    BY <1>1, <1>2, <1>6, <2>5, OpenAfter
  <2>7. S!Add(chunk)
    BY <2>2, <2>3, <2>4, <2>6 DEF S!Add
  <2> QED
    BY <2>7 DEF S!Next
<1> QED
  BY <1>5, <1>6

\* write_buffer_back_at() patches the contents, in the file or in the buffer.
LEMMA WriteBufferBackAtSeen ==
  ASSUME IInv, IInv', NEW chunk \in Chunk, NEW pos \in 0..bytes_written,
         WriteBufferBackAt(pos, chunk)
  PROVE  [S!Next]_S!vars
<1>1. /\ pc = "open" /\ pc' = "open" /\ before' = before
      /\ pos + Len(chunk) <= bytes_written
      /\ PatchFile(pos, chunk) \/ PatchBuffer(pos, chunk)
  BY DEF WriteBufferBackAt
<1>2. Start' = Start
  BY <1>1 DEF Base, Start
<1>3. chunk \in Seq(Byte) /\ chunk \in Seq(Cell) /\ Len(chunk) \in Nat
  BY ChunkType
<1>4. /\ stream \in StreamOf(Cell) /\ Start \in Nat /\ BufSize \in Nat
      /\ stream_buffer \in Seq(Byte) /\ Len(stream_buffer) = BufSize
      /\ bytes_not_flushed \in 0..Len(stream_buffer) /\ bytes_not_flushed \in Nat
      /\ total_bytes_flushed \in Nat /\ bytes_written \in Nat /\ pos \in Nat
      /\ bytes_written = total_bytes_flushed + bytes_not_flushed
      /\ Pending \in Seq(Cell)
  BY <1>1, OpenFacts DEF Held
<1>5. CASE ~stream'.ok
  BY <1>1, <1>5, BadSeen
<1>6. CASE stream'.ok
  <2> SUFFICES S!Patch(pos, chunk) /\ pos \in 0..Len(AbstractData)
    BY DEF S!Next
  <2>1. CASE PatchFile(pos, chunk)
    <3>1. /\ total_bytes_flushed' = total_bytes_flushed + bytes_not_flushed
          /\ bytes_not_flushed' = 0 /\ stream_buffer' = stream_buffer
      BY <2>1 DEF PatchFile
    <3> DEFINE back == -(bytes_written - pos)
               forth == bytes_written - pos - Len(chunk)
    <3>2. /\ back \in Int /\ forth \in Int
          /\ Start + bytes_written + back = Start + pos
          /\ Start + pos <= Start + bytes_written
          /\ Start + pos + Len(chunk) <= Start + bytes_written
          /\ Start + pos + Len(chunk) + forth = Start + bytes_written
      <4>1. bytes_written - pos \in Int
        BY <1>3, <1>4
      <4> QED
        BY <1>1, <1>3, <1>4, <4>1
    <3>3. PICK flushed \in Writes(stream, Pending) :
             \E patched \in Writes(Seek(flushed, back), chunk) :
                stream' = Seek(patched, forth)
      BY <2>1 DEF PatchFile
    <3> HIDE DEF back, forth
    <3>4. PICK patched \in Writes(Seek(flushed, back), chunk) :
             stream' = Seek(patched, forth)
      BY <3>3
    <3>5. PICK sought : sought = Seek(flushed, back)
      OBVIOUS
    <3>6. /\ flushed \in StreamOf(Cell)
          /\ flushed.ok => /\ flushed.put = Start + bytes_written
                           /\ Len(flushed.file) = Start + bytes_written
      BY <1>1, FlushHolds DEF Held
    <3>7. flushed.ok => flushed.put + back <= Len(flushed.file)
      BY <3>2, <3>6
    <3>8. /\ sought \in StreamOf(Cell) /\ sought.file = flushed.file
          /\ sought.ok => flushed.ok /\ sought.put = flushed.put + back
      BY <3>2, <3>5, <3>6, <3>7, SeekProperties
    <3>9. patched \in Writes(sought, chunk)
      BY <3>4, <3>5
    <3>10. /\ patched \in StreamOf(Cell)
           /\ patched.ok => /\ sought.ok /\ patched.put = sought.put + Len(chunk)
                            /\ Len(sought.file) <= Len(patched.file)
      <4>1. /\ patched \in StreamOf(Cell) /\ Len(sought.file) <= Len(patched.file)
            /\ patched.ok => sought.ok
        BY <1>3, <3>8, <3>9, WritesProperties
      <4>2. patched.ok => patched.put = sought.put + Len(chunk)
        BY <1>3, <3>8, <3>9, WriteShows
      <4> QED
        BY <4>1, <4>2
    <3>11. patched.ok => patched.put + forth <= Len(patched.file)
      <4>1. Len(patched.file) \in Nat /\ Len(sought.file) \in Nat
        BY <3>8, <3>10, StreamFacts
      <4> QED
        BY <3>2, <3>6, <3>8, <3>10, <4>1
    <3>12. stream'.file = patched.file /\ patched.ok
      BY <1>6, <3>2, <3>4, <3>10, <3>11, SeekProperties
    <3>13. flushed.ok /\ sought.ok /\ sought.put = Start + pos
      BY <3>2, <3>6, <3>8, <3>10, <3>12
    <3>14. stream.ok /\ Pays(flushed.file, Start, Contents)
      BY <1>1, <3>3, <3>13, FlushShows
    <3>15. /\ AbstractStatus = "open" /\ AbstractData = Contents
           /\ Contents \in Seq(Cell) /\ Len(Contents) = bytes_written
      BY <1>1, <3>14, OpenSeen
    <3>16. PICK d \in Seq(Cell) : d = Contents
      BY <3>15
    <3>17. /\ Pays(sought.file, Start, d) /\ pos \in 0..Len(d)
           /\ pos + Len(chunk) <= Len(d) /\ Len(d) = bytes_written
      BY <1>1, <1>4, <3>8, <3>14, <3>15, <3>16
    <3>18. PICK e \in Seq(Cell) : e = Overwrite(d, pos, chunk)
      BY <1>3, <3>17, OverwriteProperties
    <3>19. Pays(patched.file, Start, e)
      BY <1>3, <1>4, <3>8, <3>9, <3>12, <3>13, <3>17, <3>18, PatchPays
    <3>20. Shows(stream'.file, Start, Len(e), stream_buffer', 0, e)
      BY <1>4, <3>12, <3>19, PaysShowAlone
    <3>21. Len(e) = bytes_written
      <4>1. Len(e) = IF pos + Len(chunk) <= Len(d) THEN Len(d) ELSE pos + Len(chunk)
        BY <1>3, <3>17, <3>18, OverwriteProperties
      <4> QED
        BY <3>17, <4>1
    <3>22. Shows(stream'.file, Start, total_bytes_flushed',
                 stream_buffer', bytes_not_flushed', e)
      BY <1>4, <3>1, <3>20, <3>21
    <3>23. AbstractStatus' = "open" /\ AbstractData' = e
      BY <1>1, <1>2, <1>6, <3>22, OpenAfter
    <3> QED
      BY <3>15, <3>16, <3>17, <3>18, <3>23 DEF S!Patch, S!Overwrite, Overwrite
  <2>2. CASE PatchBuffer(pos, chunk)
    <3>1. /\ total_bytes_flushed <= pos /\ stream' = stream
          /\ stream_buffer' = Overwrite(stream_buffer, pos - total_bytes_flushed, chunk)
          /\ total_bytes_flushed' = total_bytes_flushed
          /\ bytes_not_flushed' = bytes_not_flushed
      BY <1>4, <2>2 DEF PatchBuffer
    <3>2. /\ AbstractStatus = "open" /\ AbstractData = Contents
          /\ Contents \in Seq(Cell) /\ Len(Contents) = bytes_written
          /\ Shows(stream.file, Start, total_bytes_flushed,
                   stream_buffer, bytes_not_flushed, Contents)
      BY <1>1, <1>6, <3>1, OpenSeen
    <3>3. PICK d \in Seq(Cell) : d = Contents
      BY <3>2
    <3>4. pos \in 0..Len(d) /\ pos + Len(chunk) <= Len(d)
      BY <1>1, <1>4, <3>2, <3>3
    <3>5. PICK e \in Seq(Cell) : e = Overwrite(d, pos, chunk)
      BY <1>3, <3>4, OverwriteProperties
    <3>6. Shows(stream.file, Start, total_bytes_flushed,
                stream_buffer, bytes_not_flushed, d)
      BY <3>2, <3>3
    <3>7. pos + Len(chunk) <= total_bytes_flushed + bytes_not_flushed
      BY <1>1, <1>4
    <3>8. Shows(stream.file, Start, total_bytes_flushed,
                Overwrite(stream_buffer, pos - total_bytes_flushed, chunk),
                bytes_not_flushed, e)
      BY <1>3, <1>4, <3>1, <3>5, <3>6, <3>7, BufferPatches
    <3>9. Shows(stream'.file, Start, total_bytes_flushed',
                stream_buffer', bytes_not_flushed', e)
      BY <3>1, <3>8
    <3>10. AbstractStatus' = "open" /\ AbstractData' = e
      BY <1>1, <1>2, <1>6, <3>9, OpenAfter
    <3> QED
      BY <3>2, <3>3, <3>4, <3>5, <3>10 DEF S!Patch, S!Overwrite, Overwrite
  <2> QED
    BY <1>1, <2>1, <2>2
<1> QED
  BY <1>5, <1>6

\* finalize(), flushing: callers see nothing of it.
LEMMA FinalizeFlushSeen ==
  ASSUME IInv, IInv', FinalizeFlush
  PROVE  [S!Next]_S!vars
<1>1. /\ pc = "open" /\ pc' = "flushed" /\ before' = before
      /\ stream' \in Writes(stream, Pending)
      /\ total_bytes_flushed' = total_bytes_flushed + bytes_not_flushed
      /\ bytes_not_flushed' = 0
  BY DEF FinalizeFlush
<1>2. Start' = Start
  BY <1>1 DEF Base, Start
<1>3. CASE ~stream'.ok
  BY <1>1, <1>3, BadSeen
<1>4. CASE stream'.ok
  <2>1. stream.ok /\ Pays(stream'.file, Start, Contents)
    BY <1>1, <1>4, FlushShows
  <2>2. /\ AbstractStatus = "open" /\ AbstractData = Contents
        /\ Contents \in Seq(Cell) /\ Len(Contents) = bytes_written
    BY <1>1, <2>1, OpenSeen
  <2>3. Start \in Nat /\ bytes_written = total_bytes_flushed + bytes_not_flushed
    BY <1>1, OpenFacts
  <2>4. PICK d \in Seq(Cell) : d = Contents
    BY <2>2
  <2>5. Shows(stream'.file, Start, Len(d), stream_buffer', 0, d)
    BY <2>1, <2>3, <2>4, PaysShowAlone
  <2>6. Shows(stream'.file, Start, total_bytes_flushed',
              stream_buffer', bytes_not_flushed', d)
    BY <1>1, <2>2, <2>3, <2>4, <2>5
  <2>7. AbstractStatus' = "open" /\ AbstractData' = d
    BY <1>1, <1>2, <1>4, <2>6, OpenAfter
  <2> QED
    BY <2>2, <2>4, <2>7 DEF S!vars
<1> QED
  BY <1>3, <1>4

\* What callers see while finalize() is on its way.
LEMMA FinalizingSeen ==
  ASSUME IInv, pc \in {"flushed", "sized"}, stream.ok
  PROVE  /\ AbstractStatus = "open" /\ AbstractData = Contents
         /\ Contents \in Seq(Cell) /\ Len(Contents) = bytes_written
         /\ Pays(stream.file, Start, Contents) /\ Start \in Nat
         /\ bytes_not_flushed = 0 /\ bytes_written = total_bytes_flushed
<1>1. AbstractStatus = "open" /\ AbstractData = Contents
  BY SeenBefore, StatusCases
<1>2. Shows(stream.file, Start, total_bytes_flushed,
            stream_buffer, bytes_not_flushed, Contents)
  BY ContentsShow
<1>3. /\ bytes_not_flushed = 0 /\ bytes_written = total_bytes_flushed
      /\ total_bytes_flushed \in Nat /\ Start \in Nat
      /\ Len(stream.file) = Start + bytes_written
  BY Offsets DEF IInv, TypeOK, Positioned, SealedFrame
<1>4. Contents \in Seq(Cell) /\ Len(Contents) = bytes_written
  BY <1>2, <1>3 DEF Shows
<1>5. Pays(stream.file, Start, Contents)
  <2>1. total_bytes_flushed + bytes_not_flushed = bytes_written
    BY <1>3
  <2>2. \A i \in 1..bytes_written :
           Contents[i] = IF i <= total_bytes_flushed
                         THEN stream.file[Start + i]
                         ELSE stream_buffer[i - total_bytes_flushed]
    BY <1>2, <2>1 DEF Shows
  <2> QED
    BY <1>3, <1>4, <2>2 DEF Pays
<1> QED
  BY <1>1, <1>3, <1>4, <1>5

\* finalize(), writing the size: no byte of the contents is written over.
LEMMA FinalizeSizeSeen ==
  ASSUME IInv, IInv', FinalizeSize
  PROVE  [S!Next]_S!vars
<1>1. /\ pc = "flushed" /\ pc' = "sized" /\ before' = before
      /\ bytes_written' = bytes_written /\ stream_buffer' = stream_buffer
      /\ total_bytes_flushed' = total_bytes_flushed
      /\ bytes_not_flushed' = bytes_not_flushed
  BY DEF FinalizeSize, counters
<1>2. Start' = Start
  BY <1>1 DEF Base, Start
<1>3. CASE ~stream'.ok
  BY <1>1, <1>3, BadSeen
<1>4. CASE stream'.ok
  <2> DEFINE back == -bytes_written - HdrSize
  <2>1. PICK size \in Seq(Cell) : size = SizeBytes(bytes_written)
    BY SizeBytesType DEF IInv, TypeOK
  <2>2. /\ Len(size) = HdrSize /\ stream \in StreamOf(Cell)
        /\ Base \in Nat /\ HdrSize \in Nat /\ Start = Base + HdrSize
        /\ bytes_written \in Nat
        /\ stream.ok => /\ Len(stream.file) = Start + bytes_written
                        /\ stream.put = Start + bytes_written
    BY <1>1, <2>1, Offsets, SizeBytesType DEF IInv, TypeOK, Positioned
  <2>3. PICK st : st = Seek(stream, back)
    OBVIOUS
  <2>4. stream' \in Writes(st, size)
    BY <2>1, <2>3 DEF FinalizeSize
  <2>5. back \in Int /\ Start + bytes_written + back = Base
    BY <2>2
  <2> HIDE DEF back
  <2>6. /\ st \in StreamOf(Cell) /\ st.file = stream.file
        /\ st.ok => stream.ok /\ st.put = Base
    <3>1. stream.ok => /\ stream.put + back = Base
                       /\ stream.put + back <= Len(stream.file)
      BY <2>2, <2>5
    <3> QED
      BY <2>2, <2>3, <2>5, <3>1, SeekProperties
  <2>7. st.ok
    BY <1>4, <2>4, <2>6, WritesProperties
  <2>8. /\ AbstractStatus = "open" /\ AbstractData = Contents
        /\ Contents \in Seq(Cell) /\ Len(Contents) = bytes_written
        /\ Pays(stream.file, Start, Contents) /\ Start \in Nat
        /\ bytes_not_flushed = 0 /\ bytes_written = total_bytes_flushed
    BY <1>1, <2>6, <2>7, FinalizingSeen
  <2>9. PICK d \in Seq(Cell) : d = Contents
    BY <2>8
  <2>10. Pays(st.file, Start, d) /\ st.put + Len(size) <= Start
    BY <2>2, <2>6, <2>7, <2>8, <2>9
  <2>11. Pays(stream'.file, Start, d)
    BY <1>4, <2>4, <2>6, <2>8, <2>10, SizePays
  <2>12. Shows(stream'.file, Start, Len(d), stream_buffer', 0, d)
    BY <2>8, <2>11, PaysShowAlone
  <2>13. Shows(stream'.file, Start, total_bytes_flushed',
               stream_buffer', bytes_not_flushed', d)
    BY <1>1, <2>8, <2>9, <2>12
  <2>14. AbstractStatus' = "open" /\ AbstractData' = d
    BY <1>1, <1>2, <1>4, <2>13, OpenAfter
  <2> QED
    BY <2>8, <2>9, <2>14 DEF S!vars
<1> QED
  BY <1>3, <1>4

\* finalize() returns: the section is sealed, with all of its contents.
LEMMA FinalizeReturnSeen ==
  ASSUME IInv, IInv', FinalizeReturn
  PROVE  [S!Next]_S!vars
<1>1. /\ pc = "sized" /\ before' = before
      /\ stream' = Seek(stream, bytes_written)
      /\ pc' = IF stream'.ok THEN "sealed" ELSE "failed"
      /\ bytes_written' = bytes_written /\ stream_buffer' = stream_buffer
      /\ total_bytes_flushed' = total_bytes_flushed
      /\ bytes_not_flushed' = bytes_not_flushed
  BY DEF FinalizeReturn, counters
<1>2. Start' = Start
  BY <1>1 DEF Base, Start
<1>3. CASE ~stream'.ok
  BY <1>1, <1>3, BadSeen
<1>4. CASE stream'.ok
  <2>1. /\ stream \in StreamOf(Cell) /\ Start \in Nat
        /\ bytes_written \in Int /\ bytes_written \in Nat
        /\ stream.ok => stream.put = Start /\ Len(stream.file) = Start + bytes_written
    BY <1>1, Offsets DEF IInv, TypeOK, SealedFrame
  <2>2. stream.ok => stream.put + bytes_written <= Len(stream.file)
    BY <2>1
  <2>3. stream'.file = stream.file /\ stream.ok
    BY <1>1, <1>4, <2>1, <2>2, SeekProperties
  <2>4. /\ AbstractStatus = "open" /\ AbstractData = Contents
        /\ Contents \in Seq(Cell) /\ Len(Contents) = bytes_written
        /\ Pays(stream.file, Start, Contents)
        /\ bytes_not_flushed = 0 /\ bytes_written = total_bytes_flushed
    BY <1>1, <2>3, FinalizingSeen
  <2>5. PICK d \in Seq(Cell) : d = Contents
    BY <2>4
  <2>6. Shows(stream'.file, Start, Len(d), stream_buffer', 0, d)
    BY <2>1, <2>3, <2>4, <2>5, PaysShowAlone
  <2>7. Shows(stream'.file, Start', total_bytes_flushed',
              stream_buffer', bytes_not_flushed', d)
    BY <1>1, <1>2, <2>4, <2>5, <2>6
  <2>8. Contents' = d
    BY <1>1, <1>4, <2>7, ContentsAre
  <2>9. AbstractStatus' = "sealed" /\ AbstractData' = d
    BY <1>1, <1>4, <2>8, SeenAfter, StatusCases
  <2> QED
    BY <2>4, <2>5, <2>9 DEF S!Seal, S!Next
<1> QED
  BY <1>3, <1>4

\* Every run of the writer is a run of the abstract section, whatever is
\* buffered, flushed, written past the buffer or patched, and wherever the
\* device fails: what callers append and patch is what is sealed.
THEOREM ImplementationCorrect == Spec => ImplementsSection
<1>1. Init => S!Init
  <2> SUFFICES ASSUME Init PROVE AbstractData = <<>> /\ AbstractStatus = "none"
    BY DEF S!Init
  <2>1. IInv /\ pc = "none"
    BY InitInv DEF Init
  <2> QED
    BY <2>1, SeenBefore, StatusCases
<1>2. IInv /\ IInv' /\ [Next]_vars => [S!Next]_S!vars
  <2> SUFFICES ASSUME IInv, IInv', [Next]_vars PROVE [S!Next]_S!vars
    OBVIOUS
  <2>1. CASE Construct
    BY <2>1, ConstructSeen
  <2>2. CASE \E chunk \in Chunk : WriteBuffer(chunk)
    BY <2>2, WriteBufferSeen
  <2>3. CASE \E pos \in 0..bytes_written, chunk \in Chunk :
                WriteBufferBackAt(pos, chunk)
    BY <2>3, WriteBufferBackAtSeen
  <2>4. CASE FinalizeFlush
    BY <2>4, FinalizeFlushSeen
  <2>5. CASE FinalizeSize
    BY <2>5, FinalizeSizeSeen
  <2>6. CASE FinalizeReturn
    BY <2>6, FinalizeReturnSeen
  <2>7. CASE UNCHANGED vars
    <3>1. AbstractStatus' = AbstractStatus
      BY <2>7 DEF vars, counters, AbstractStatus, Writing
    <3>2. Contents' = Contents
      BY <2>7 DEF vars, counters, Contents, Pending, Start, Base
    <3> QED
      BY <3>1, <3>2 DEF AbstractData, S!vars
  <2> QED
    BY <2>1, <2>2, <2>3, <2>4, <2>5, <2>6, <2>7 DEF Next
<1> QED
  BY Invariance, <1>1, <1>2, PTL DEF Spec, S!Spec, ImplementsSection

=============================================================================
