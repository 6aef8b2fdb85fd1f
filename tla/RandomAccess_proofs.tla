------------------------ MODULE RandomAccess_proofs ------------------------
(***************************************************************************)
(* Proofs about a cache file and about random access with one, for every    *)
(* trace, machine, page size and width of counts, all calls, any cache      *)
(* points and any requests.                                                 *)
(*                                                                          *)
(* The first part is about CacheFile: what the reader returns of a cache    *)
(* point is a dump of the whole machine at the point's context, a complete  *)
(* point is never refused, pages lie where the index says and in a region   *)
(* of the machine, and what was written stays.  The second is about         *)
(* RandomAccess: wherever the replayer comes from a cache point, every      *)
(* register and page has the content that reading the trace from its        *)
(* beginning gives.                                                         *)
(***************************************************************************)
EXTENDS RandomAccess, Functions, FunctionTheorems, FiniteSetTheorems, SequenceTheorems,
        WellFoundedInduction, TLAPS

(***************************************************************************)
(* The cache file                                                          *)
(***************************************************************************)

Fields == {"count", "register", "page"} \X Nat \X Nat
Entries == [trace_stream_offset : Nat, cpu_cache_stream_offset : Nat,
            page_offsets : Seq([page_address : Nat, cache_stream_offset : Nat])]

\* In the fields s, a cache point of context c lies behind offset o: its count,
\* n registers, and something else, if anything.
PointIn(s, o, c, n) ==
    /\ o \in Nat /\ n \in Nat /\ o + 1 + n <= Len(s)
    /\ s[o + 1][1] = "count"
    /\ \A i \in (o + 2)..(o + 1 + n) :
          s[i][1] = "register" /\ s[i][2] \in Register /\ s[i][3] = c
    /\ o + 1 + n < Len(s) => s[o + 2 + n][1] # "register"

\* The count of a finished point is that of its registers, in 16 bits; the point
\* being written counts nothing yet.
ClosedPoint(s, o, c) ==
    \E n \in 0..Len(s) : PointIn(s, o, c, n) /\ s[o + 1] = RegisterCount(n % CountMod)
PagesLie(s, c, pages) ==
    \A i \in DOMAIN pages :
        /\ pages[i].cache_stream_offset + 1 \in 1..Len(s)
        /\ s[pages[i].cache_stream_offset + 1] = PageContent(pages[i].page_address, c)

Typed ==
    /\ points \in Seq(Fields)
    /\ DOMAIN index \subseteq ContextId /\ index \in [DOMAIN index -> Entries]
    /\ current \in DOMAIN index \union {NoPoint}
    /\ current_reg_count \in Nat
    /\ finalized \in BOOLEAN

Offset(context_id) == index[context_id].cpu_cache_stream_offset

\* The open point is the last one, and ends the section until it has a page.
OpenLast ==
    IsCachePointStarted =>
        /\ PointIn(points, Offset(current), current, current_reg_count)
        /\ points[Offset(current) + 1] = RegisterCount(0)
        /\ index[current].page_offsets = <<>> =>
              Len(points) = Offset(current) + 1 + current_reg_count
        /\ \A c \in DOMAIN index \ {current} : Offset(c) < Offset(current)

\* The index is written when nothing can change it any more.
IndexLast ==
    /\ finalized => ~IsCachePointStarted
    /\ written_index \in {<<>>, index}
    /\ ~finalized => written_index = <<>>

IInv ==
    /\ Typed
    /\ IndexLast
    /\ OpenLast
    /\ \A c \in DOMAIN index \ {current} : ClosedPoint(points, Offset(c), c)
    /\ \A c \in DOMAIN index : PagesLie(points, c, index[c].page_offsets)

-----------------------------------------------------------------------------
(* Points and pages in a section that grows and whose counts are patched. *)

\* A field appended, and a field patched.
LEMMA AppendedField ==
    ASSUME NEW s \in Seq(Fields), NEW f \in Fields
    PROVE  /\ Append(s, f) \in Seq(Fields) /\ Len(Append(s, f)) = Len(s) + 1
           /\ \A i \in 1..Len(s) : Append(s, f)[i] = s[i]
           /\ Append(s, f)[Len(s) + 1] = f
OBVIOUS

Patched(s, p, f) == [s EXCEPT ![p] = f]
LEMMA PatchedField ==
    ASSUME NEW s \in Seq(Fields), NEW p \in 1..Len(s), NEW f \in Fields
    PROVE  /\ Patched(s, p, f) \in Seq(Fields) /\ Len(Patched(s, p, f)) = Len(s)
           /\ Patched(s, p, f)[p] = f
           /\ \A i \in 1..Len(s) \ {p} : Patched(s, p, f)[i] = s[i]
BY DEF Patched

\* What is behind the registers of a point stays no register.
LEMMA PointAppended ==
    ASSUME NEW s \in Seq(Fields), NEW f \in Fields, NEW o, NEW c, NEW n, PointIn(s, o, c, n),
           f[1] # "register" \/ o + 1 + n < Len(s)
    PROVE  PointIn(Append(s, f), o, c, n) /\ Append(s, f)[o + 1] = s[o + 1]
<1>1. PICK t : t = Append(s, f)
  OBVIOUS
<1>2. /\ Len(t) = Len(s) + 1 /\ t[Len(s) + 1] = f
      /\ \A i \in 1..Len(s) : t[i] = s[i]
  BY <1>1, AppendedField
<1>3. /\ o \in Nat /\ n \in Nat /\ o + 1 + n <= Len(s) /\ s[o + 1][1] = "count"
      /\ \A i \in (o + 2)..(o + 1 + n) :
            s[i][1] = "register" /\ s[i][2] \in Register /\ s[i][3] = c
      /\ o + 1 + n < Len(s) => s[o + 2 + n][1] # "register"
  BY DEF PointIn
<1>4. t[o + 1] = s[o + 1]
  <2>1. o + 1 \in 1..Len(s)
    BY <1>3
  <2> QED
    BY <1>2, <2>1
<1>5. \A i \in (o + 2)..(o + 1 + n) : i \in 1..Len(s)
  BY <1>3
<1>6. t[o + 2 + n][1] # "register"
  <2>1. CASE o + 1 + n < Len(s)
    <3>1. o + 2 + n \in 1..Len(s)
      BY <1>3, <2>1
    <3> QED
      BY <1>2, <1>3, <2>1, <3>1
  <2>2. CASE ~(o + 1 + n < Len(s))
    <3>1. o + 2 + n = Len(s) + 1
      BY <1>3, <2>2
    <3> QED
      BY <1>2, <2>2, <3>1
  <2> QED
    BY <2>1, <2>2
<1>7. PointIn(t, o, c, n)
  <2>1. o + 1 + n <= Len(t)
    BY <1>2, <1>3
  <2> QED
    BY <1>2, <1>3, <1>4, <1>5, <1>6, <2>1 DEF PointIn
<1> QED
  BY <1>1, <1>4, <1>7

\* A register of the last point.
LEMMA PointExtended ==
    ASSUME NEW s \in Seq(Fields), NEW o, NEW c, NEW n, PointIn(s, o, c, n),
           Len(s) = o + 1 + n, NEW id \in Register, RegisterContent(id, c) \in Fields
    PROVE  LET t == Append(s, RegisterContent(id, c))
           IN  PointIn(t, o, c, n + 1) /\ t[o + 1] = s[o + 1] /\ Len(t) = o + 1 + (n + 1)
<1>1. PICK f : f = RegisterContent(id, c)
  OBVIOUS
<1>2. PICK t : t = Append(s, f)
  OBVIOUS
<1>3. f[1] = "register" /\ f[2] \in Register /\ f[3] = c /\ f \in Fields
  BY <1>1 DEF RegisterContent
<1>4. /\ Len(t) = Len(s) + 1 /\ t[Len(s) + 1] = f
      /\ \A i \in 1..Len(s) : t[i] = s[i]
  BY <1>2, <1>3, AppendedField
<1>5. /\ o \in Nat /\ n \in Nat /\ s[o + 1][1] = "count"
      /\ \A i \in (o + 2)..(o + 1 + n) :
            s[i][1] = "register" /\ s[i][2] \in Register /\ s[i][3] = c
  BY DEF PointIn
<1>6. t[o + 1] = s[o + 1]
  <2>1. o + 1 \in 1..Len(s)
    BY <1>5
  <2> QED
    BY <1>4, <2>1
<1>7. ASSUME NEW i \in (o + 2)..(o + 1 + (n + 1))
      PROVE  t[i][1] = "register" /\ t[i][2] \in Register /\ t[i][3] = c
  <2>1. CASE i = Len(s) + 1
    BY <1>3, <1>4, <2>1
  <2>2. CASE i # Len(s) + 1
    <3>1. i \in (o + 2)..(o + 1 + n) /\ i \in 1..Len(s)
      BY <1>5, <2>2
    <3> QED
      BY <1>4, <1>5, <3>1
  <2> QED
    BY <2>1, <2>2
<1>8. Len(t) = o + 1 + (n + 1) /\ n + 1 \in Nat
  BY <1>4, <1>5
<1>9. PointIn(t, o, c, n + 1)
  BY <1>5, <1>6, <1>7, <1>8 DEF PointIn
<1> QED
  BY <1>1, <1>2, <1>6, <1>8, <1>9

\* A count put in the place of a count.
IsCount(f) == f[1] = "count"
LEMMA PointPatched ==
    ASSUME NEW s \in Seq(Fields), NEW p \in 1..Len(s), IsCount(s[p]),
           NEW f \in Fields, IsCount(f), NEW o, NEW c, NEW n, PointIn(s, o, c, n)
    PROVE  /\ PointIn(Patched(s, p, f), o, c, n)
           /\ Patched(s, p, f)[o + 1] = IF p = o + 1 THEN f ELSE s[o + 1]
<1>1. PICK t : t = Patched(s, p, f)
  OBVIOUS
<1>2. /\ t \in Seq(Fields) /\ Len(t) = Len(s)
      /\ t[p] = f /\ \A i \in 1..Len(s) \ {p} : t[i] = s[i]
  <2>1. /\ Patched(s, p, f) \in Seq(Fields) /\ Len(Patched(s, p, f)) = Len(s)
        /\ Patched(s, p, f)[p] = f
        /\ \A i \in 1..Len(s) \ {p} : Patched(s, p, f)[i] = s[i]
    BY PatchedField
  <2> QED
    BY <1>1, <2>1
<1>3. /\ o \in Nat /\ n \in Nat /\ o + 1 + n <= Len(s) /\ s[o + 1][1] = "count"
      /\ \A i \in (o + 2)..(o + 1 + n) :
            s[i][1] = "register" /\ s[i][2] \in Register /\ s[i][3] = c
      /\ o + 1 + n < Len(s) => s[o + 2 + n][1] # "register"
  BY DEF PointIn
<1>4. /\ \A i \in (o + 2)..(o + 1 + n) : i \in 1..Len(s)
      /\ o + 1 \in 1..Len(s)
      /\ o + 1 + n < Len(s) => o + 2 + n \in 1..Len(s)
  BY <1>3
<1>5. \A i \in 1..Len(s) : t[i][1] = s[i][1] /\ (s[i][1] # "count" => t[i] = s[i])
  BY <1>2 DEF IsCount
<1>6. \A i \in (o + 2)..(o + 1 + n) :
          t[i][1] = "register" /\ t[i][2] \in Register /\ t[i][3] = c
  BY <1>3, <1>4, <1>5
<1>7. t[o + 1][1] = "count" /\ (o + 1 + n < Len(t) => t[o + 2 + n][1] # "register")
  BY <1>2, <1>3, <1>4, <1>5
<1>8. PointIn(t, o, c, n)
  BY <1>2, <1>3, <1>6, <1>7 DEF PointIn
<1>9. t[o + 1] = IF p = o + 1 THEN f ELSE s[o + 1]
  BY <1>2, <1>4
<1> QED
  BY <1>1, <1>8, <1>9

\* A finished point stays one, when what is appended is no register, or the count
\* of another point lies behind it.
LEMMA ClosedAppended ==
    ASSUME NEW s \in Seq(Fields), NEW f \in Fields, NEW o, NEW c, ClosedPoint(s, o, c),
           f[1] # "register" \/ \E q \in Nat : o < q /\ q + 1 <= Len(s) /\ s[q + 1][1] = "count"
    PROVE  ClosedPoint(Append(s, f), o, c)
<1>1. PICK n \in 0..Len(s) : PointIn(s, o, c, n) /\ s[o + 1] = RegisterCount(n % CountMod)
  BY DEF ClosedPoint
<1>2. f[1] # "register" \/ o + 1 + n < Len(s)
  <2>1. ASSUME NEW q \in Nat, o < q, q + 1 <= Len(s), s[q + 1][1] = "count",
               o + 1 + n >= Len(s)
        PROVE  FALSE
    <3>1. /\ o \in Nat /\ n \in Nat
          /\ \A i \in (o + 2)..(o + 1 + n) : s[i][1] = "register"
      BY <1>1 DEF PointIn
    <3>2. q + 1 \in (o + 2)..(o + 1 + n)
      BY <2>1, <3>1
    <3>3. s[q + 1][1] = "register"
      BY <3>1, <3>2
    <3> QED
      BY <2>1, <3>3
  <2>2. o \in Nat /\ n \in Nat /\ Len(s) \in Nat
    BY <1>1 DEF PointIn
  <2> QED
    BY <2>1, <2>2
<1>3. PICK t : t = Append(s, f)
  OBVIOUS
<1>4. PointIn(t, o, c, n) /\ t[o + 1] = s[o + 1]
  BY <1>1, <1>2, <1>3, PointAppended
<1>5. n \in 0..Len(t)
  <2>1. Len(t) = Len(s) + 1
    BY <1>3, AppendedField
  <2> QED
    BY <2>1
<1>6. ClosedPoint(t, o, c)
  BY <1>1, <1>4, <1>5 DEF ClosedPoint
<1> QED
  BY <1>3, <1>6

LEMMA ClosedPatched ==
    ASSUME NEW s \in Seq(Fields), NEW p \in 1..Len(s), IsCount(s[p]),
           NEW f \in Fields, IsCount(f), NEW o, NEW c, ClosedPoint(s, o, c), p # o + 1
    PROVE  ClosedPoint(Patched(s, p, f), o, c)
<1>1. PICK n \in 0..Len(s) : PointIn(s, o, c, n) /\ s[o + 1] = RegisterCount(n % CountMod)
  BY DEF ClosedPoint
<1>2. PICK t : t = Patched(s, p, f)
  OBVIOUS
<1>3. PointIn(t, o, c, n) /\ t[o + 1] = s[o + 1]
  BY <1>1, <1>2, PointPatched
<1>4. Len(t) = Len(s)
  BY <1>2, PatchedField
<1>5. ClosedPoint(t, o, c)
  BY <1>1, <1>3, <1>4 DEF ClosedPoint
<1> QED
  BY <1>2, <1>5

\* Finishing a point.
LEMMA PointClosed ==
    ASSUME NEW s \in Seq(Fields), NEW o, NEW c, NEW n, PointIn(s, o, c, n),
           RegisterCount(n % CountMod) \in Fields
    PROVE  /\ ClosedPoint(Patched(s, o + 1, RegisterCount(n % CountMod)), o, c)
           /\ o + 1 \in 1..Len(s) /\ IsCount(s[o + 1])
<1>1. PICK f, p : f = RegisterCount(n % CountMod) /\ p = o + 1
  OBVIOUS
<1>2. /\ o \in Nat /\ n \in Nat /\ o + 1 + n <= Len(s) /\ s[o + 1][1] = "count"
  BY DEF PointIn
<1>3. p \in 1..Len(s) /\ IsCount(s[p]) /\ n \in 0..Len(s)
  BY <1>1, <1>2 DEF IsCount
<1>4. f \in Fields /\ IsCount(f)
  BY <1>1 DEF RegisterCount, IsCount
<1>5. PICK t : t = Patched(s, p, f)
  OBVIOUS
<1>6. PointIn(t, o, c, n) /\ t[o + 1] = f
  BY <1>1, <1>3, <1>4, <1>5, PointPatched
<1>7. Len(t) = Len(s)
  BY <1>3, <1>4, <1>5, PatchedField
<1>8. ClosedPoint(t, o, c)
  BY <1>1, <1>3, <1>6, <1>7 DEF ClosedPoint
<1> QED
  BY <1>1, <1>3, <1>5, <1>8

\* Pages stay where they are.
LEMMA PagesKept ==
    ASSUME NEW s \in Seq(Fields), NEW t \in Seq(Fields), Len(s) <= Len(t),
           \A i \in 1..Len(s) : s[i][1] # "count" => t[i] = s[i],
           NEW c, NEW pages, PagesLie(s, c, pages)
    PROVE  PagesLie(t, c, pages)
<1>1. ASSUME NEW i \in DOMAIN pages
      PROVE  /\ pages[i].cache_stream_offset + 1 \in 1..Len(t)
             /\ t[pages[i].cache_stream_offset + 1] = PageContent(pages[i].page_address, c)
  <2>1. PICK o : o = pages[i].cache_stream_offset + 1
    OBVIOUS
  <2>2. o \in 1..Len(s) /\ s[o] = PageContent(pages[i].page_address, c)
    BY <2>1 DEF PagesLie
  <2>3. s[o][1] # "count"
    BY <2>2 DEF PageContent
  <2>4. t[o] = s[o] /\ o \in 1..Len(t)
    BY <2>2, <2>3
  <2> QED
    BY <2>1, <2>2, <2>4
<1> QED
  BY <1>1 DEF PagesLie

-----------------------------------------------------------------------------
(* The calls. *)

\* Counts of 16 bits; no register is NoPoint, and no context is.
LEMMA Widths ==
    /\ CountMod \in Nat \ {0} /\ Cardinality(Register) \in Nat
    /\ \A n \in Nat : n % CountMod \in Nat /\ n % CountMod <= n
    /\ \A n \in Nat : n < CountMod => n % CountMod = n
    /\ NoPoint \notin ContextId
<1>1. Cardinality(Register) \in Nat
  BY MachineAssumption, FS_CardinalityType
<1>2. CountMod \in Nat \ {0}
  BY <1>1, MachineAssumption, WidthAssumption
<1>3. \A n \in Nat : n % CountMod \in Nat /\ n % CountMod <= n
  BY <1>2
<1>4. \A n \in Nat : n < CountMod => n % CountMod = n
  BY <1>2
<1>5. NoPoint \notin ContextId
  BY InputAssumption DEF NoPoint
<1> QED
  BY <1>1, <1>2, <1>3, <1>4, <1>5

LEMMA FieldsTyped ==
    /\ \A n \in Nat : RegisterCount(n) \in Fields /\ IsCount(RegisterCount(n))
    /\ \A id \in Register, c \in ContextId : RegisterContent(id, c) \in Fields
    /\ \A address \in Nat, c \in ContextId : PageContent(address, c) \in Fields
<1>1. Register \subseteq Nat /\ ContextId \subseteq Nat
  BY MachineAssumption, InputAssumption
<1> QED
  BY <1>1 DEF RegisterCount, RegisterContent, PageContent, Fields, IsCount

\* The entry of a context.
LEMMA EntryTyped ==
    ASSUME Typed, NEW c \in DOMAIN index
    PROVE  /\ index[c] \in Entries /\ Offset(c) \in Nat /\ c \in ContextId
           /\ index[c].page_offsets \in Seq([page_address : Nat, cache_stream_offset : Nat])
BY DEF Typed, Offset, Entries

LEMMA InitHolds == Init => IInv
<1> SUFFICES ASSUME Init PROVE IInv
  OBVIOUS
<1>1. /\ points = <<>> /\ index = <<>> /\ current = NoPoint /\ current_reg_count = 0
      /\ finalized = FALSE /\ written_index = <<>>
  BY DEF Init
<1>2. DOMAIN index = {} /\ index \in [DOMAIN index -> Entries]
  BY <1>1
<1>3. points \in Seq(Fields)
  BY <1>1
<1>4. Typed /\ IndexLast /\ OpenLast
  BY <1>1, <1>2, <1>3 DEF Typed, IndexLast, OpenLast, IsCachePointStarted
<1> QED
  BY <1>2, <1>4 DEF IInv

LEMMA StutterHolds ==
    ASSUME IInv, UNCHANGED <<points, index, current, current_reg_count, finalized>>,
           IndexLast'
    PROVE  IInv'
BY DEF IInv, Typed, OpenLast, IsCachePointStarted, Offset

\* The index without a new point, and with one.
LEMMA IndexExtended ==
    ASSUME Typed, NEW c \in ContextId, c \notin DOMAIN index, NEW entry \in Entries
    PROVE  /\ DOMAIN Extended(index, c, entry) = DOMAIN index \union {c}
           /\ Extended(index, c, entry)[c] = entry
           /\ \A d \in DOMAIN index : Extended(index, c, entry)[d] = index[d]
           /\ Extended(index, c, entry) \in [DOMAIN index \union {c} -> Entries]
<1>1. \A d \in DOMAIN index : index[d] \in Entries
  BY DEF Typed
<1> QED
  BY <1>1 DEF Extended

LEMMA StartHolds ==
    ASSUME IInv, NEW c \in ContextId, NEW pos \in TracePos, StartCachePoint(c, pos)
    PROVE  IInv'
<1>1. Typed /\ IndexLast
  BY DEF IInv
<1>2. PICK f, entry, o : /\ f = RegisterCount(0) /\ o = Len(points)
                         /\ entry = [trace_stream_offset |-> pos,
                                     cpu_cache_stream_offset |-> o, page_offsets |-> <<>>]
  OBVIOUS
<1>3. /\ ~finalized /\ ~IsCachePointStarted /\ c \notin DOMAIN index
      /\ index' = Extended(index, c, entry) /\ points' = Append(points, f)
      /\ current' = c /\ current_reg_count' = 0
      /\ finalized' = finalized /\ written_index' = written_index
  BY <1>2 DEF StartCachePoint, CanWrite
<1>4. points \in Seq(Fields) /\ f \in Fields /\ f[1] = "count" /\ o \in Nat
  BY <1>1, <1>2, FieldsTyped DEF Typed, IsCount
<1>5. entry \in Entries
  BY <1>2, <1>4, InputAssumption DEF Entries
<1>6. /\ DOMAIN index' = DOMAIN index \union {c} /\ index'[c] = entry
      /\ \A d \in DOMAIN index : index'[d] = index[d]
      /\ index' \in [DOMAIN index \union {c} -> Entries]
  BY <1>1, <1>3, <1>5, IndexExtended
<1>7. /\ points' \in Seq(Fields) /\ Len(points') = o + 1 /\ points'[o + 1] = f
      /\ \A i \in 1..Len(points) : points'[i] = points[i]
  BY <1>2, <1>3, <1>4, AppendedField
<1>8. Typed'
  <2>1. DOMAIN index \union {c} \subseteq ContextId
    BY <1>1 DEF Typed
  <2>2. finalized' \in BOOLEAN /\ current_reg_count' \in Nat
    BY <1>1, <1>3 DEF Typed
  <2> QED
    BY <1>3, <1>6, <1>7, <2>1, <2>2 DEF Typed
<1>9. IndexLast'
  BY <1>1, <1>3 DEF IndexLast
<1>10. \A d \in DOMAIN index : ClosedPoint(points, Offset(d), d) /\ Offset(d) \in Nat
  <2>1. current \notin DOMAIN index
    BY <1>1, <1>3, Widths DEF Typed, IsCachePointStarted
  <2> QED
    BY <1>1, <2>1, EntryTyped DEF IInv
<1>11. ASSUME NEW d \in DOMAIN index
       PROVE  /\ ClosedPoint(points', Offset(d), d) /\ Offset(d) < o
              /\ Offset(d)' = Offset(d)
  <2>1. ClosedPoint(Append(points, f), Offset(d), d)
    BY <1>4, <1>10, ClosedAppended
  <2>2. Offset(d) + 1 <= Len(points)
    <3>1. PICK n \in Nat : PointIn(points, Offset(d), d, n)
      BY <1>10 DEF ClosedPoint
    <3> QED
      BY <3>1, <1>10 DEF PointIn
  <2> QED
    BY <1>2, <1>3, <1>6, <1>10, <2>1, <2>2 DEF Offset
<1>12. Offset(c)' = o /\ index'[c].page_offsets = <<>>
  BY <1>2, <1>6 DEF Offset
<1>13. PointIn(points', o, c, 0)
  BY <1>4, <1>7 DEF PointIn
<1>14. OpenLast'
  BY <1>2, <1>3, <1>4, <1>6, <1>7, <1>11, <1>12, <1>13 DEF OpenLast, Offset
<1>15. \A d \in DOMAIN index' \ {current'} : ClosedPoint(points', Offset(d)', d)
  BY <1>3, <1>6, <1>11
<1>16. ASSUME NEW d \in DOMAIN index'
       PROVE  PagesLie(points', d, index'[d].page_offsets)
  <2>1. CASE d = c
    BY <1>12, <2>1 DEF PagesLie
  <2>2. CASE d # c
    <3>1. PagesLie(points, d, index[d].page_offsets) /\ index'[d] = index[d]
      BY <1>6, <2>2 DEF IInv
    <3>2. Len(points) <= Len(points')
      BY <1>2, <1>4, <1>7
    <3>3. PagesLie(points', d, index[d].page_offsets)
      BY <1>4, <1>7, <3>1, <3>2, PagesKept
    <3> QED
      BY <3>1, <3>3
  <2> QED
    BY <2>1, <2>2
<1> QED
  BY <1>8, <1>9, <1>14, <1>15, <1>16 DEF IInv, PagesLie

\* The open point, as the calls that add to it find it.
LEMMA OpenPoint ==
    ASSUME IInv, IsCachePointStarted
    PROVE  /\ current \in DOMAIN index /\ current \in ContextId
           /\ Offset(current) \in Nat /\ current_reg_count \in Nat
           /\ PointIn(points, Offset(current), current, current_reg_count)
           /\ points[Offset(current) + 1] = RegisterCount(0)
           /\ \A c \in DOMAIN index \ {current} :
                 /\ ClosedPoint(points, Offset(c), c)
                 /\ Offset(c) \in Nat /\ Offset(c) < Offset(current)
<1>1. current \in DOMAIN index
  BY DEF IInv, Typed, IsCachePointStarted
<1> QED
  BY <1>1, EntryTyped DEF IInv, OpenLast, Typed

LEMMA RegisterHolds ==
    ASSUME IInv, NEW id, WriteRegister(id)
    PROVE  IInv'
<1>1. Typed /\ IndexLast
  BY DEF IInv
<1>2. PICK f, o : f = RegisterContent(id, current) /\ o = Offset(current)
  OBVIOUS
<1>3. /\ ~finalized /\ IsCachePointStarted /\ id \in Register
      /\ index[current].page_offsets = <<>>
      /\ points' = Append(points, f) /\ current_reg_count' = current_reg_count + 1
      /\ UNCHANGED <<index, current, finalized, written_index>>
  BY <1>2 DEF WriteRegister, CanWrite
<1>4. points \in Seq(Fields) /\ f \in Fields
  BY <1>1, <1>2, <1>3, OpenPoint, FieldsTyped DEF Typed
<1>5. /\ PointIn(points, o, current, current_reg_count) /\ points[o + 1] = RegisterCount(0)
      /\ o \in Nat /\ current_reg_count \in Nat /\ current \in ContextId
  BY <1>2, <1>3, OpenPoint
<1>6. Len(points) = o + 1 + current_reg_count
  BY <1>2, <1>3 DEF IInv, OpenLast
<1>7. /\ PointIn(points', o, current, current_reg_count + 1)
      /\ points'[o + 1] = points[o + 1]
      /\ Len(points') = o + 1 + (current_reg_count + 1)
  BY <1>2, <1>3, <1>4, <1>5, <1>6, PointExtended
<1>8. /\ points' \in Seq(Fields) /\ Len(points) <= Len(points')
      /\ \A i \in 1..Len(points) : points'[i] = points[i]
  BY <1>3, <1>4, AppendedField
<1>9. Typed'
  BY <1>1, <1>3, <1>5, <1>8 DEF Typed
<1>10. IndexLast'
  BY <1>1, <1>3 DEF IndexLast, IsCachePointStarted
<1>11. \A c \in DOMAIN index : Offset(c)' = Offset(c)
  BY <1>3 DEF Offset
<1>12. OpenLast'
  <2>1. \A c \in DOMAIN index \ {current} : Offset(c) < Offset(current)
    BY <1>3, OpenPoint
  <2>2. current \in DOMAIN index
    BY <1>3, OpenPoint
  <2> QED
    BY <1>2, <1>3, <1>5, <1>7, <1>11, <2>1, <2>2 DEF OpenLast
<1>13. ASSUME NEW c \in DOMAIN index \ {current}
       PROVE  ClosedPoint(points', Offset(c), c)
  <2>1. ClosedPoint(points, Offset(c), c) /\ Offset(c) < o
    BY <1>2, <1>3, OpenPoint
  <2>2. o + 1 <= Len(points) /\ points[o + 1][1] = "count"
    BY <1>5 DEF PointIn
  <2> QED
    BY <1>3, <1>4, <1>5, <2>1, <2>2, ClosedAppended
<1>14. ASSUME NEW c \in DOMAIN index
       PROVE  PagesLie(points', c, index[c].page_offsets)
  <2>1. PagesLie(points, c, index[c].page_offsets)
    BY DEF IInv
  <2> QED
    BY <1>4, <1>8, <2>1, PagesKept
<1>15. \A c \in DOMAIN index' \ {current'} : ClosedPoint(points', Offset(c)', c)
  BY <1>3, <1>11, <1>13
<1>16. \A c \in DOMAIN index' : PagesLie(points', c, index'[c].page_offsets)
  BY <1>3, <1>14
<1> QED
  BY <1>9, <1>10, <1>12, <1>15, <1>16 DEF IInv, PagesLie

\* The index with one page more in the entry of the open point.
WithPage(f, c, page) == [f EXCEPT ![c].page_offsets = Append(@, page)]
LEMMA PageIndexed ==
    ASSUME Typed, NEW c \in DOMAIN index,
           NEW page \in [page_address : Nat, cache_stream_offset : Nat],
           NEW next, next = WithPage(index, c, page)
    PROVE  /\ DOMAIN next = DOMAIN index /\ next \in [DOMAIN index -> Entries]
           /\ next[c].page_offsets = Append(index[c].page_offsets, page)
           /\ \A d \in DOMAIN index :
                 /\ next[d].cpu_cache_stream_offset = index[d].cpu_cache_stream_offset
                 /\ next[d].trace_stream_offset = index[d].trace_stream_offset
           /\ \A d \in DOMAIN index \ {c} : next[d] = index[d]
<1>1. /\ index \in [DOMAIN index -> Entries] /\ index[c] \in Entries
      /\ index[c].page_offsets \in Seq([page_address : Nat, cache_stream_offset : Nat])
  BY EntryTyped DEF Typed
<1>2. PICK entry : entry = [index[c] EXCEPT !.page_offsets = Append(@, page)]
  OBVIOUS
<1>3. /\ entry.page_offsets = Append(index[c].page_offsets, page)
      /\ entry.cpu_cache_stream_offset = index[c].cpu_cache_stream_offset
      /\ entry.trace_stream_offset = index[c].trace_stream_offset
      /\ entry \in Entries
  <2>1. PICK t, o, pages, more : /\ t = index[c].trace_stream_offset
                                 /\ o = index[c].cpu_cache_stream_offset
                                 /\ pages = index[c].page_offsets
                                 /\ more = Append(pages, page)
    OBVIOUS
  <2>2. /\ index[c] = [trace_stream_offset |-> t, cpu_cache_stream_offset |-> o,
                       page_offsets |-> pages]
        /\ t \in Nat /\ o \in Nat
    BY <1>1, <2>1 DEF Entries
  <2>3. more \in Seq([page_address : Nat, cache_stream_offset : Nat])
    BY <1>1, <2>1
  <2>4. entry = [trace_stream_offset |-> t, cpu_cache_stream_offset |-> o,
                 page_offsets |-> more]
    BY <1>2, <2>1, <2>2
  <2> QED
    BY <2>1, <2>2, <2>3, <2>4 DEF Entries
<1>4. next = [index EXCEPT ![c] = entry]
  BY <1>2 DEF WithPage
<1> QED
  BY <1>1, <1>3, <1>4

LEMMA PageHolds ==
    ASSUME IInv, NEW address \in Address, WriteMemoryPage(address)
    PROVE  IInv'
<1>1. Typed /\ IndexLast
  BY DEF IInv
<1>2. PICK f, o, page, c : /\ f = PageContent(address, current) /\ o = Len(points)
                           /\ page = [page_address |-> address, cache_stream_offset |-> o]
                           /\ c = current
  OBVIOUS
<1>3. /\ ~finalized /\ IsCachePointStarted
      /\ index' = WithPage(index, c, page)
      /\ points' = Append(points, f)
      /\ UNCHANGED <<current, current_reg_count, finalized, written_index>>
  BY <1>2 DEF WriteMemoryPage, CanWrite, WithPage
<1>4. address \in Nat /\ points \in Seq(Fields) /\ c \in DOMAIN index /\ c \in ContextId
  BY <1>1, <1>2, <1>3, OpenPoint, WidthAssumption DEF Typed
<1>5. f \in Fields /\ f[1] = "page" /\ o \in Nat
  BY <1>2, <1>4, FieldsTyped DEF PageContent
<1>6. page \in [page_address : Nat, cache_stream_offset : Nat]
  BY <1>2, <1>4, <1>5
<1>7. /\ DOMAIN index' = DOMAIN index /\ index' \in [DOMAIN index -> Entries]
      /\ index'[c].page_offsets = Append(index[c].page_offsets, page)
      /\ \A d \in DOMAIN index : Offset(d)' = Offset(d)
      /\ \A d \in DOMAIN index \ {c} : index'[d] = index[d]
  BY <1>1, <1>3, <1>4, <1>6, PageIndexed DEF Offset
<1>8. /\ points' \in Seq(Fields) /\ Len(points') = o + 1 /\ points'[o + 1] = f
      /\ \A i \in 1..Len(points) : points'[i] = points[i]
      /\ Len(points) <= Len(points')
  BY <1>2, <1>3, <1>4, <1>5, AppendedField
<1>9. Typed'
  BY <1>1, <1>3, <1>7, <1>8 DEF Typed
<1>10. IndexLast'
  BY <1>1, <1>3 DEF IndexLast, IsCachePointStarted
<1>11. /\ PointIn(points, Offset(c), c, current_reg_count)
       /\ points[Offset(c) + 1] = RegisterCount(0)
       /\ \A d \in DOMAIN index \ {c} :
             ClosedPoint(points, Offset(d), d) /\ Offset(d) < Offset(c)
  BY <1>2, <1>3, OpenPoint
<1>12. /\ PointIn(points', Offset(c), c, current_reg_count)
       /\ points'[Offset(c) + 1] = RegisterCount(0)
  BY <1>3, <1>4, <1>5, <1>11, PointAppended
<1>13. index'[c].page_offsets # <<>>
  <2>1. PICK pages \in Seq([page_address : Nat, cache_stream_offset : Nat]) :
            index'[c].page_offsets = Append(pages, page)
    BY <1>1, <1>4, <1>7, EntryTyped
  <2>2. Len(Append(pages, page)) = Len(pages) + 1 /\ Len(pages) \in Nat
    BY <1>6
  <2> QED
    BY <2>1, <2>2
<1>14. OpenLast'
  <2>1. \A d \in DOMAIN index' \ {c} : Offset(d)' < Offset(c)'
    BY <1>4, <1>7, <1>11
  <2>2. /\ PointIn(points', Offset(c)', c, current_reg_count')
        /\ points'[Offset(c)' + 1] = RegisterCount(0)
    BY <1>3, <1>4, <1>7, <1>12
  <2>3. current' = c
    BY <1>2, <1>3
  <2> QED
    BY <1>13, <2>1, <2>2, <2>3 DEF OpenLast
<1>15. \A d \in DOMAIN index' \ {current'} : ClosedPoint(points', Offset(d)', d)
  <2>1. ASSUME NEW d \in DOMAIN index \ {c}
        PROVE  ClosedPoint(points', Offset(d), d)
    BY <1>3, <1>4, <1>5, <1>11, <2>1, ClosedAppended
  <2> QED
    BY <1>2, <1>3, <1>7, <2>1
<1>16. ASSUME NEW d \in DOMAIN index'
       PROVE  PagesLie(points', d, index'[d].page_offsets)
  <2>1. PagesLie(points', d, index[d].page_offsets)
    <3>1. PagesLie(points, d, index[d].page_offsets)
      BY <1>7 DEF IInv
    <3> QED
      BY <1>4, <1>8, <3>1, PagesKept
  <2>2. CASE d # c
    BY <1>7, <2>1, <2>2
  <2>3. CASE d = c
    <3>1. PICK pages : pages = index[c].page_offsets
      OBVIOUS
    <3>2. /\ pages \in Seq([page_address : Nat, cache_stream_offset : Nat])
          /\ index'[c].page_offsets = Append(pages, page)
      BY <1>1, <1>4, <1>7, <3>1, EntryTyped
    <3>3. /\ DOMAIN Append(pages, page) = 1..(Len(pages) + 1)
          /\ Append(pages, page)[Len(pages) + 1] = page
          /\ \A i \in 1..Len(pages) : Append(pages, page)[i] = pages[i]
          /\ DOMAIN pages = 1..Len(pages) /\ Len(pages) \in Nat
      BY <1>6, <3>2
    <3>4. page.cache_stream_offset + 1 \in 1..Len(points')
      BY <1>2, <1>5, <1>8
    <3>5. points'[page.cache_stream_offset + 1] = PageContent(page.page_address, c)
      BY <1>2, <1>8
    <3>6. ASSUME NEW i \in 1..(Len(pages) + 1)
          PROVE  LET q == Append(pages, page)[i]
                 IN  /\ q.cache_stream_offset + 1 \in 1..Len(points')
                     /\ points'[q.cache_stream_offset + 1] = PageContent(q.page_address, c)
      <4>1. CASE i = Len(pages) + 1
        BY <3>3, <3>4, <3>5, <4>1
      <4>2. CASE i # Len(pages) + 1
        <5>1. i \in DOMAIN pages /\ Append(pages, page)[i] = pages[i]
          BY <3>3, <4>2
        <5> QED
          BY <2>1, <2>3, <3>1, <5>1 DEF PagesLie
      <4> QED
        BY <4>1, <4>2
    <3>7. PagesLie(points', c, Append(pages, page))
      BY <3>3, <3>6 DEF PagesLie
    <3> QED
      BY <2>3, <3>2, <3>7
  <2> QED
    BY <2>2, <2>3
<1> QED
  BY <1>9, <1>10, <1>14, <1>15, <1>16 DEF IInv, PagesLie

\* FinishCachePoint, and FinalizePoints of an open point.
LEMMA FinishHolds ==
    ASSUME IInv, IsCachePointStarted, ~finalized, points' = CountPatched,
           current' = NoPoint, finalized' \in BOOLEAN,
           UNCHANGED <<index, current_reg_count, written_index>>
    PROVE  IInv'
<1>1. Typed /\ IndexLast
  BY DEF IInv
<1>2. PICK f, o, c, n : /\ f = RegisterCount(current_reg_count % CountMod)
                        /\ o = Offset(current) /\ c = current /\ n = current_reg_count
  OBVIOUS
<1>3. /\ c \in DOMAIN index /\ o \in Nat /\ n \in Nat /\ PointIn(points, o, c, n)
      /\ \A d \in DOMAIN index \ {c} :
            ClosedPoint(points, Offset(d), d) /\ Offset(d) \in Nat /\ Offset(d) < o
  BY <1>2, OpenPoint
<1>4. points \in Seq(Fields) /\ f \in Fields /\ IsCount(f)
  BY <1>1, <1>2, <1>3, Widths, FieldsTyped DEF Typed
<1>5. points' = Patched(points, o + 1, f)
  BY <1>2 DEF CountPatched, Patched, Offset
<1>6. ClosedPoint(points', o, c) /\ o + 1 \in 1..Len(points) /\ IsCount(points[o + 1])
  BY <1>2, <1>3, <1>4, <1>5, PointClosed
<1>7. /\ points' \in Seq(Fields) /\ Len(points') = Len(points)
      /\ \A i \in 1..Len(points) \ {o + 1} : points'[i] = points[i]
  <2>1. PICK p : p = o + 1
    OBVIOUS
  <2>2. /\ Patched(points, p, f) \in Seq(Fields) /\ Len(Patched(points, p, f)) = Len(points)
        /\ \A i \in 1..Len(points) \ {p} : Patched(points, p, f)[i] = points[i]
    BY <1>4, <1>6, <2>1, PatchedField
  <2> QED
    BY <1>5, <2>1, <2>2
<1>8. Typed'
  BY <1>1, <1>7 DEF Typed
<1>9. IndexLast' /\ OpenLast'
  BY <1>1 DEF IndexLast, OpenLast, IsCachePointStarted
<1>10. \A d \in DOMAIN index : Offset(d)' = Offset(d)
  BY DEF Offset
<1>11. ASSUME NEW d \in DOMAIN index
       PROVE  ClosedPoint(points', Offset(d), d)
  <2>1. CASE d = c
    BY <1>2, <1>6, <2>1
  <2>2. CASE d # c
    <3>1. ClosedPoint(points, Offset(d), d) /\ o + 1 # Offset(d) + 1
      BY <1>3, <2>2
    <3> QED
      BY <1>4, <1>5, <1>6, <3>1, ClosedPatched
  <2> QED
    BY <2>1, <2>2
<1>12. ASSUME NEW d \in DOMAIN index
       PROVE  PagesLie(points', d, index[d].page_offsets)
  <2>1. PagesLie(points, d, index[d].page_offsets)
    BY DEF IInv
  <2>2. \A i \in 1..Len(points) : points[i][1] # "count" => points'[i] = points[i]
    BY <1>6, <1>7 DEF IsCount
  <2>3. Len(points) <= Len(points')
    BY <1>4, <1>7
  <2> QED
    BY <1>4, <1>7, <2>1, <2>2, <2>3, PagesKept
<1>13. \A d \in DOMAIN index' \ {current'} : ClosedPoint(points', Offset(d)', d)
  BY <1>10, <1>11
<1>14. \A d \in DOMAIN index' : PagesLie(points', d, index'[d].page_offsets)
  BY <1>12
<1> QED
  BY <1>8, <1>9, <1>13, <1>14 DEF IInv, PagesLie

LEMMA StepHolds ==
    ASSUME IInv, Next
    PROVE  IInv'
<1>1. CASE FinishCachePoint
  <2>1. finalized' \in BOOLEAN
    BY <1>1 DEF FinishCachePoint, IInv, Typed
  <2> QED
    BY <1>1, <2>1, FinishHolds DEF FinishCachePoint
<1>2. CASE FinalizePoints
  <2>1. CASE IsCachePointStarted
    BY <1>2, <2>1, FinishHolds DEF FinalizePoints
  <2>2. CASE ~IsCachePointStarted
    <3>1. /\ UNCHANGED <<points, index, current, current_reg_count, written_index>>
          /\ finalized' = TRUE
      BY <1>2, <2>2 DEF FinalizePoints, IsCachePointStarted
    <3>2. IndexLast'
      BY <2>2, <3>1 DEF IInv, IndexLast, IsCachePointStarted
    <3>3. Typed' /\ OpenLast'
      BY <3>1 DEF IInv, Typed, OpenLast, IsCachePointStarted, Offset
    <3> QED
      BY <3>1, <3>2, <3>3 DEF IInv, Offset
  <2> QED
    BY <2>1, <2>2
<1>3. CASE WriteIndex
  <2>1. IndexLast'
    BY <1>3 DEF WriteIndex, IInv, IndexLast, IsCachePointStarted
  <2> QED
    BY <1>3, <2>1, StutterHolds DEF WriteIndex
<1> QED
  BY <1>1, <1>2, <1>3, StartHolds, RegisterHolds, PageHolds DEF Next

LEMMA UnchangedHolds ==
    ASSUME IInv, UNCHANGED vars
    PROVE  IInv'
<1>1. IndexLast'
  BY DEF IInv, IndexLast, IsCachePointStarted, vars
<1> QED
  BY <1>1, StutterHolds DEF vars

\* Where every point, its registers, its count and its pages lie, in any section
\* that the recorder writes in any order of calls.
THEOREM Invariance == Spec => []IInv
<1>1. Init => IInv
  BY InitHolds
<1>2. IInv /\ [Next]_vars => IInv'
  BY StepHolds, UnchangedHolds
<1> QED
  BY <1>1, <1>2, PTL DEF Spec

\* Every field and every entry is of its kind; the index is written as it is.
THEOREM TypeCorrect == Spec => []TypeOK
<1>1. IInv => TypeOK
  BY DEF IInv, Typed, IndexLast, TypeOK, Fields
<1> QED
  BY <1>1, Invariance, PTL

-----------------------------------------------------------------------------
(* What the reader finds. *)

\* A point whose index was written is finished.
LEMMA IndexedPoint ==
    ASSUME IInv, NEW c \in DOMAIN written_index
    PROVE  /\ written_index = index /\ c \in DOMAIN index /\ points \in Seq(Fields)
           /\ ClosedPoint(points, Offset(c), c) /\ Offset(c) \in Nat
           /\ PagesLie(points, c, index[c].page_offsets)
<1>1. written_index = index
  BY DEF IInv, IndexLast
<1>2. finalized /\ ~IsCachePointStarted
  BY DEF IInv, IndexLast
<1>3. c \in DOMAIN index \ {current}
  BY <1>1, <1>2, Widths DEF IInv, Typed, IsCachePointStarted
<1> QED
  BY <1>1, <1>3, EntryTyped DEF IInv, Typed

\* The fields a reader takes for the registers of a point, as many as its count
\* says, are registers of that point.
RegistersAt(s, o, k) == SubSeq(s, o + 1 + 1, o + 1 + k)
LEMMA RegistersOf ==
    ASSUME NEW s \in Seq(Fields), NEW o, NEW c, NEW n, PointIn(s, o, c, n),
           NEW k \in Nat, k <= n, NEW t, t = RegistersAt(s, o, k)
    PROVE  /\ DOMAIN t = 1..k
           /\ \A i \in 1..k : /\ t[i] = s[o + 1 + i]
                              /\ t[i][1] = "register" /\ t[i][2] \in Register /\ t[i][3] = c
<1>1. /\ o \in Nat /\ n \in Nat /\ o + 1 + n <= Len(s)
      /\ \A i \in (o + 2)..(o + 1 + n) :
            s[i][1] = "register" /\ s[i][2] \in Register /\ s[i][3] = c
  BY DEF PointIn
<1>2. PICK a, b : a = o + 1 + 1 /\ b = o + 1 + k
  OBVIOUS
<1>3. a \in Int /\ b \in Int /\ b - a + 1 = k /\ \A i \in a..b : s[i] \in Fields
  BY <1>1, <1>2
<1>4. /\ SubSeq(s, a, b) \in Seq(Fields)
      /\ Len(SubSeq(s, a, b)) = IF a <= b THEN b - a + 1 ELSE 0
      /\ \A i \in 1..(b - a + 1) : SubSeq(s, a, b)[i] = s[a + i - 1]
  BY <1>3, SubSeqProperties
<1>5. Len(t) = k /\ t \in Seq(Fields)
  BY <1>2, <1>3, <1>4 DEF RegistersAt
<1>6. ASSUME NEW i \in 1..k
      PROVE  t[i] = s[o + 1 + i]
  <2>1. a + i - 1 = o + 1 + i
    BY <1>1, <1>2
  <2> QED
    BY <1>2, <1>3, <1>4, <2>1 DEF RegistersAt
<1>7. \A i \in 1..k : o + 1 + i \in (o + 2)..(o + 1 + n)
  BY <1>1
<1>8. ASSUME NEW i \in 1..k
      PROVE  t[i][1] = "register" /\ t[i][2] \in Register /\ t[i][3] = c
  BY <1>1, <1>6, <1>7
<1>9. DOMAIN t = 1..k
  BY <1>5
<1> QED
  BY <1>6, <1>8, <1>9

\* A list of k registers, k of the machine, has each of them exactly if it has none
\* twice.
IdsOf(t) == {t[i][2] : i \in DOMAIN t}
LEMMA Comprehensive ==
    ASSUME NEW t, NEW k \in Nat, DOMAIN t = 1..k, Cardinality(Register) = k,
           \A i \in 1..k : t[i][2] \in Register
    PROVE  IdsOf(t) = Register <=> \A i, j \in DOMAIN t : ~(i # j /\ t[i][2] = t[j][2])
<1>1. PICK f : f = [i \in 1..k |-> t[i][2]]
  OBVIOUS
<1>2. PICK ids : ids = IdsOf(t)
  OBVIOUS
<1>3. f \in Surjection(1..k, ids)
  BY <1>1, <1>2 DEF Surjection, IdsOf
<1>4. IsFiniteSet(1..k) /\ Cardinality(1..k) = k
  <2>1. 1 \in Int /\ k \in Int
    OBVIOUS
  <2>2. /\ IsFiniteSet(1..k)
        /\ Cardinality(1..k) = IF 1 > k THEN 0 ELSE k - 1 + 1
    BY <2>1, FS_Interval
  <2> QED
    BY <2>2
<1>5. Cardinality(ids) = Cardinality(1..k) <=> f \in Injection(1..k, ids)
  BY <1>3, <1>4, FS_Surjection
<1>6. ids \in SUBSET Register
  BY <1>2 DEF IdsOf
<1>7. Cardinality(Register) = Cardinality(ids) <=> Register = ids
  BY <1>6, MachineAssumption, FS_Subset
<1>8. f \in Injection(1..k, ids) <=> \A i, j \in 1..k : ~(i # j /\ t[i][2] = t[j][2])
  <2>1. f \in [1..k -> ids] /\ \A i \in 1..k : f[i] = t[i][2]
    BY <1>1, <1>2 DEF IdsOf
  <2>2. DOMAIN f = 1..k
    BY <1>1
  <2> QED
    BY <2>1, <2>2 DEF Injection, IsInjective
<1> QED
  BY <1>2, <1>4, <1>5, <1>7, <1>8

\* read_cache_point of a point that lies behind offset o, as its count says.
PointRefused(s, o, count, t) ==
    \/ count # Cardinality(Register)
    \/ o + 1 + count > Len(s)
    \/ \E i \in DOMAIN t : t[i][1] # "register"
    \/ \E i, j \in DOMAIN t : i # j /\ t[i][2] = t[j][2]
    \/ ~(IdsOf(t) \subseteq Register)
DumpOf(t) ==
    [id \in IdsOf(t) |-> (CHOOSE r \in {t[i] : i \in DOMAIN t} : r[2] = id)[3]]
LEMMA ReadAs ==
    ASSUME NEW c, NEW o, o = written_index[c].cpu_cache_stream_offset,
           NEW count, count = points[o + 1][2],
           NEW t, t = RegistersAt(points, o, count)
    PROVE  ReadCachePoint(c) =
             IF PointRefused(points, o, count, t) THEN Malformed
             ELSE [status |-> "ok", dump |-> DumpOf(t)]
BY DEF ReadCachePoint, PointRefused, IdsOf, DumpOf, RegistersAt

\* Whatever the reader returns of a point is its registers, all of them.
LEMMA PointReads ==
    ASSUME IInv, NEW c \in DOMAIN written_index
    PROVE  /\ ReadCachePoint(c).status = "ok" =>
                  ReadCachePoint(c).dump = [id \in Register |-> c]
           /\ EachOnce(c) => ReadCachePoint(c).status = "ok"
<1>1. PICK o : o = Offset(c)
  OBVIOUS
<1>2. /\ written_index = index /\ points \in Seq(Fields) /\ o \in Nat
      /\ ClosedPoint(points, o, c)
  BY <1>1, IndexedPoint
<1>3. PICK n \in 0..Len(points) :
          PointIn(points, o, c, n) /\ points[o + 1] = RegisterCount(n % CountMod)
  BY <1>2 DEF ClosedPoint
<1>4. PICK k : k = n % CountMod
  OBVIOUS
<1>5. n \in Nat /\ k \in Nat /\ k <= n /\ (n < CountMod => k = n)
  BY <1>3, <1>4, Widths
<1>6. PICK t : t = RegistersAt(points, o, k)
  OBVIOUS
<1>7. /\ DOMAIN t = 1..k
      /\ \A i \in 1..k : /\ t[i] = points[o + 1 + i]
                         /\ t[i][1] = "register" /\ t[i][2] \in Register /\ t[i][3] = c
  BY <1>2, <1>3, <1>5, <1>6, RegistersOf
<1>8. o = written_index[c].cpu_cache_stream_offset /\ k = points[o + 1][2]
  BY <1>1, <1>2, <1>3, <1>4 DEF Offset, RegisterCount
<1>10. ReadCachePoint(c) =
         IF PointRefused(points, o, k, t) THEN Malformed
         ELSE [status |-> "ok", dump |-> DumpOf(t)]
  BY <1>6, <1>8, ReadAs
<1>11. ASSUME ReadCachePoint(c).status = "ok"
       PROVE  ReadCachePoint(c).dump = [id \in Register |-> c]
  <2>1. ~PointRefused(points, o, k, t)
    BY <1>10, <1>11 DEF Malformed
  <2>2. /\ Cardinality(Register) = k
        /\ \A i, j \in DOMAIN t : ~(i # j /\ t[i][2] = t[j][2])
    BY <2>1 DEF PointRefused
  <2>3. \A i \in 1..k : t[i][2] \in Register
    BY <1>7
  <2>4. IdsOf(t) = Register
    BY <1>5, <1>7, <2>2, <2>3, Comprehensive
  <2>5. ASSUME NEW id \in IdsOf(t)
        PROVE  (CHOOSE r \in {t[i] : i \in DOMAIN t} : r[2] = id)[3] = c
    <3>1. PICK found : found = {t[i] : i \in DOMAIN t}
      OBVIOUS
    <3>2. \E r \in found : r[2] = id
      BY <3>1 DEF IdsOf
    <3>3. \A r \in found : r[3] = c
      BY <1>7, <3>1
    <3>4. (CHOOSE r \in found : r[2] = id) \in found
      BY <3>2
    <3> QED
      BY <3>1, <3>3, <3>4
  <2>6. ReadCachePoint(c).dump = DumpOf(t)
    BY <1>10, <2>1
  <2>7. DumpOf(t) = [id \in IdsOf(t) |-> c]
    BY <2>5 DEF DumpOf
  <2> QED
    BY <2>4, <2>6, <2>7
<1>12. ASSUME EachOnce(c)
       PROVE  ReadCachePoint(c).status = "ok"
  <2>1. index[c].cpu_cache_stream_offset + 1 = o + 1
    BY <1>1 DEF Offset
  <2>2. Written(c) = (o + 2)..(o + 1 + n)
    <3>1. /\ o + 1 + n <= Len(points)
          /\ \A i \in (o + 2)..(o + 1 + n) : points[i][1] = "register"
          /\ o + 1 + n < Len(points) => points[o + 2 + n][1] # "register"
      BY <1>3 DEF PointIn
    <3>2. PICK w : w = Written(c)
      OBVIOUS
    <3>3. w = {i \in (o + 2)..Len(points) :
                  /\ points[i][1] = "register"
                  /\ \A j \in (o + 2)..i : points[j][1] = "register"}
      <4>1. (o + 1) + 1 = o + 2
        BY <1>2
      <4> QED
        BY <2>1, <3>2, <4>1 DEF Written
    <3>4. ASSUME NEW i \in w
          PROVE  i \in (o + 2)..(o + 1 + n)
      <4>1. i \in (o + 2)..Len(points) /\ \A j \in (o + 2)..i : points[j][1] = "register"
        BY <3>3
      <4>2. ASSUME i > o + 1 + n
            PROVE  FALSE
        <5>1. o + 2 + n \in (o + 2)..i /\ o + 1 + n < Len(points)
          BY <1>2, <1>5, <4>1, <4>2
        <5> QED
          BY <3>1, <4>1, <5>1
      <4> QED
        BY <1>2, <1>5, <4>1, <4>2
    <3>5. ASSUME NEW i \in (o + 2)..(o + 1 + n)
          PROVE  i \in w
      <4>1. \A j \in (o + 2)..i : j \in (o + 2)..(o + 1 + n)
        BY <1>2, <1>5
      <4>2. i \in (o + 2)..Len(points)
        BY <1>2, <1>5, <3>1
      <4> QED
        BY <3>1, <3>3, <4>1, <4>2
    <3> QED
      BY <3>2, <3>4, <3>5
  <2>3. Cardinality((o + 2)..(o + 1 + n)) = n
    <3>1. PICK a, b : a = o + 2 /\ b = o + 1 + n
      OBVIOUS
    <3>2. a \in Int /\ b \in Int /\ (IF a > b THEN 0 ELSE b - a + 1) = n
      BY <1>2, <1>5, <3>1
    <3>3. Cardinality(a..b) = IF a > b THEN 0 ELSE b - a + 1
      BY <3>2, FS_Interval
    <3> QED
      BY <3>1, <3>2, <3>3
  <2>4. Cardinality(Register) = n /\ {points[i][2] : i \in (o + 2)..(o + 1 + n)} = Register
    BY <1>12, <2>2, <2>3 DEF EachOnce
  <2>5. k = n
    BY <1>5, <2>4, MachineAssumption
  <2>6. IdsOf(t) = Register
    <3>1. ASSUME NEW id \in Register
          PROVE  \E i \in 1..k : t[i][2] = id
      <4>1. PICK j \in (o + 2)..(o + 1 + n) : points[j][2] = id
        BY <2>4
      <4>2. PICK i : i = j - (o + 1)
        OBVIOUS
      <4>3. i \in 1..k /\ o + 1 + i = j
        BY <1>2, <1>5, <2>5, <4>2
      <4> QED
        BY <1>7, <4>1, <4>3
    <3>2. \A i \in 1..k : t[i][2] \in Register
      BY <1>7
    <3> QED
      BY <1>7, <3>1, <3>2 DEF IdsOf
  <2>7. \A i, j \in DOMAIN t : ~(i # j /\ t[i][2] = t[j][2])
    <3>1. \A i \in 1..k : t[i][2] \in Register
      BY <1>7
    <3> QED
      BY <1>5, <1>7, <2>4, <2>5, <2>6, <3>1, Comprehensive
  <2>8. o + 1 + k <= Len(points) /\ o + 1 + k \in Nat /\ Len(points) \in Nat
    BY <1>2, <1>3, <1>5, <2>5 DEF PointIn
  <2>9. ~PointRefused(points, o, k, t)
    BY <1>7, <2>4, <2>5, <2>6, <2>7, <2>8 DEF PointRefused
  <2> QED
    BY <1>10, <2>9
<1> QED
  BY <1>11, <1>12

\* cache-format.md:25: "the register list must be comprehensive".  Whatever was
\* recorded, a dump the reader returns has every register of the machine, with the
\* content of the context asked for: also when a count of 16 bits wrapped.
THEOREM DumpsWhole == Spec => []DumpsComprehensive
<1>1. IInv => DumpsComprehensive
  BY PointReads DEF DumpsComprehensive
<1> QED
  BY <1>1, Invariance, PTL

\* A point in which every register was written once is never refused, whatever lies
\* around it, and also when it was open as the section was closed.
THEOREM CompleteAccepted == Spec => []CompletePointsRead
<1>1. IInv => CompletePointsRead
  BY PointReads DEF CompletePointsRead
<1> QED
  BY <1>1, Invariance, PTL

\* The offset the index gives for a page is where that page of that context lies.
THEOREM PagesFound == Spec => []PagesWhereIndexed
<1>1. ASSUME IInv PROVE PagesWhereIndexed
  <2>1. ASSUME NEW c \in DOMAIN written_index
        PROVE  /\ PagesLie(points, c, written_index[c].page_offsets)
               /\ DOMAIN points = 1..Len(points)
    BY <1>1, IndexedPoint
  <2> QED
    BY <2>1 DEF PagesWhereIndexed, PagesLie
<1> QED
  BY <1>1, Invariance, PTL

-----------------------------------------------------------------------------
(* What was written stays, and lies in the machine. *)

\* What no step disturbs: a field other than the count of the open point, an entry
\* other than its own.
Stays ==
    /\ \A i \in DOMAIN points :
          points'[i] # points[i] =>
              IsCachePointStarted /\ i = index[current].cpu_cache_stream_offset + 1
    /\ \A c \in DOMAIN index \ {current} : index'[c] = index[c]

LEMMA AppendStays ==
    ASSUME points \in Seq(Fields), NEW f \in Fields, points' = Append(points, f)
    PROVE  \A i \in DOMAIN points : points'[i] = points[i]
<1>1. \A i \in 1..Len(points) : points'[i] = points[i]
  BY AppendedField
<1> QED
  BY <1>1

LEMMA PatchStays ==
    ASSUME IInv, IsCachePointStarted, points' = CountPatched, index' = index
    PROVE  Stays
<1>1. PICK p, f : p = Offset(current) + 1 /\ f = RegisterCount(current_reg_count % CountMod)
  OBVIOUS
<1>2. /\ points \in Seq(Fields) /\ Offset(current) \in Nat /\ f \in Fields
      /\ PointIn(points, Offset(current), current, current_reg_count)
  BY <1>1, OpenPoint, Widths, FieldsTyped DEF IInv, Typed
<1>3. p \in 1..Len(points)
  <2>1. current_reg_count \in Nat
    BY OpenPoint
  <2> QED
    BY <1>1, <1>2, <2>1 DEF PointIn
<1>4. points' = Patched(points, p, f)
  BY <1>1 DEF CountPatched, Patched, Offset
<1>5. \A i \in 1..Len(points) \ {p} : Patched(points, p, f)[i] = points[i]
  <2>1. points \in Seq(Fields) /\ f \in Fields
    BY <1>2
  <2> QED
    BY <1>3, <2>1, PatchedField
<1>6. DOMAIN points = 1..Len(points)
  BY <1>2
<1> QED
  BY <1>1, <1>4, <1>5, <1>6 DEF Stays, Offset

LEMMA StepStays ==
    ASSUME IInv, Next
    PROVE  Stays
<1>1. Typed /\ points \in Seq(Fields)
  BY DEF IInv, Typed
<1>2. ASSUME NEW c \in ContextId, NEW pos \in TracePos, StartCachePoint(c, pos)
      PROVE  Stays
  <2>1. PICK entry : entry = [trace_stream_offset |-> pos,
                              cpu_cache_stream_offset |-> Len(points), page_offsets |-> <<>>]
    OBVIOUS
  <2>2. /\ c \notin DOMAIN index /\ index' = Extended(index, c, entry)
        /\ points' = Append(points, RegisterCount(0))
    BY <1>2, <2>1 DEF StartCachePoint
  <2>3. entry \in Entries
    BY <1>1, <2>1, InputAssumption DEF Entries
  <2>4. \A d \in DOMAIN index : index'[d] = index[d]
    BY <1>1, <2>2, <2>3, IndexExtended
  <2>5. \A i \in DOMAIN points : points'[i] = points[i]
    BY <1>1, <2>2, AppendStays, FieldsTyped
  <2> QED
    BY <2>4, <2>5 DEF Stays
<1>3. ASSUME NEW id, WriteRegister(id)
      PROVE  Stays
  <2>1. /\ points' = Append(points, RegisterContent(id, current)) /\ index' = index
        /\ id \in Register /\ IsCachePointStarted
    BY <1>3 DEF WriteRegister
  <2>2. RegisterContent(id, current) \in Fields
    BY <2>1, OpenPoint, FieldsTyped
  <2>3. \A i \in DOMAIN points : points'[i] = points[i]
    BY <1>1, <2>1, <2>2, AppendStays
  <2> QED
    BY <2>1, <2>3 DEF Stays
<1>4. ASSUME NEW address \in Address, WriteMemoryPage(address)
      PROVE  Stays
  <2>1. PICK page, c : /\ page = [page_address |-> address,
                                  cache_stream_offset |-> Len(points)]
                       /\ c = current
    OBVIOUS
  <2>2. /\ points' = Append(points, PageContent(address, current))
        /\ index' = WithPage(index, c, page) /\ IsCachePointStarted
    BY <1>4, <2>1 DEF WriteMemoryPage, WithPage
  <2>3. address \in Nat /\ c \in DOMAIN index /\ c \in ContextId /\ Len(points) \in Nat
    BY <1>1, <2>1, <2>2, OpenPoint, WidthAssumption
  <2>4. page \in [page_address : Nat, cache_stream_offset : Nat]
    BY <2>1, <2>3
  <2>5. \A d \in DOMAIN index \ {c} : index'[d] = index[d]
    BY <1>1, <2>2, <2>3, <2>4, PageIndexed
  <2>6. \A i \in DOMAIN points : points'[i] = points[i]
    BY <1>1, <2>1, <2>2, <2>3, AppendStays, FieldsTyped
  <2> QED
    BY <2>1, <2>5, <2>6 DEF Stays
<1>5. CASE FinishCachePoint
  BY <1>5, PatchStays DEF FinishCachePoint
<1>6. CASE FinalizePoints
  <2>1. CASE IsCachePointStarted
    BY <1>6, <2>1, PatchStays DEF FinalizePoints
  <2>2. CASE ~IsCachePointStarted
    BY <1>6, <2>2 DEF FinalizePoints, Stays
  <2> QED
    BY <2>1, <2>2
<1>7. CASE WriteIndex
  BY <1>7 DEF WriteIndex, Stays
<1> QED
  BY <1>2, <1>3, <1>4, <1>5, <1>6, <1>7 DEF Next

\* No call changes a field but the count of the open point, nor the index entry of
\* another point.
THEOREM WrittenStays == Spec => FinishedPointsStay
<1>1. IInv /\ Next => Stays
  BY StepStays
<1>2. IInv /\ [Next]_vars =>
        [/\ \A i \in DOMAIN points :
               points'[i] # points[i] =>
                   IsCachePointStarted /\ i = index[current].cpu_cache_stream_offset + 1
         /\ \A context_id \in DOMAIN index \ {current} :
               index'[context_id] = index[context_id]]_vars
  BY <1>1 DEF Stays
<1> QED
  BY <1>2, Invariance, PTL DEF Spec, FinishedPointsStay

\* A page that lies in a region of the machine to its last byte.
InMachine(address) ==
    \E region \in Region :
        \A byte \in address..(address + PageSize - 1) :
            byte \in region.start..(region.start + region.size - 1)
PagesInMachine ==
    \A c \in DOMAIN index : \A i \in DOMAIN index[c].page_offsets :
        InMachine(index[c].page_offsets[i].page_address)

\* A page that the test of the code accepts, unless its end wraps; that of a region
\* may.
LEMMA TestSuffices ==
    ASSUME NEW address \in Nat, address + PageSize < AddressMod,
           NEW region \in Region, InRegion(address, region)
    PROVE  InMachine(address)
<1>1. region.start \in Nat /\ region.size \in Nat /\ PageSize \in Nat /\ AddressMod \in Nat
  BY MachineAssumption, WidthAssumption
<1>2. PICK last, bound : last = address + PageSize /\ bound = region.start + region.size
  OBVIOUS
<1>3. last \in Nat /\ bound \in Nat /\ last < AddressMod
  BY <1>1, <1>2
<1>4. last % AddressMod = last /\ bound % AddressMod <= bound /\ bound % AddressMod \in Nat
  BY <1>1, <1>3
<1>5. address >= region.start /\ last % AddressMod <= bound % AddressMod
  BY <1>2 DEF InRegion
<1>6. last <= bound
  BY <1>3, <1>4, <1>5
<1>7. \A byte \in address..(address + PageSize - 1) :
          byte \in region.start..(region.start + region.size - 1)
  BY <1>1, <1>2, <1>5, <1>6
<1> QED
  BY <1>7 DEF InMachine

LEMMA StepInMachine ==
    ASSUME \A address \in Address : address + PageSize < AddressMod,
           IInv, PagesInMachine, Next
    PROVE  PagesInMachine'
<1>1. Typed /\ points \in Seq(Fields)
  BY DEF IInv, Typed
<1>2. ASSUME NEW c \in ContextId, NEW pos \in TracePos, StartCachePoint(c, pos)
      PROVE  PagesInMachine'
  <2>1. PICK entry : entry = [trace_stream_offset |-> pos,
                              cpu_cache_stream_offset |-> Len(points), page_offsets |-> <<>>]
    OBVIOUS
  <2>2. c \notin DOMAIN index /\ index' = Extended(index, c, entry)
    BY <1>2, <2>1 DEF StartCachePoint
  <2>3. entry \in Entries
    BY <1>1, <2>1, InputAssumption DEF Entries
  <2>4. /\ DOMAIN index' = DOMAIN index \union {c} /\ index'[c] = entry
        /\ \A d \in DOMAIN index : index'[d] = index[d]
    BY <1>1, <2>2, <2>3, IndexExtended
  <2>5. DOMAIN entry.page_offsets = {}
    BY <2>1
  <2> QED
    BY <2>4, <2>5 DEF PagesInMachine, InMachine
<1>3. ASSUME NEW address \in Address, WriteMemoryPage(address)
      PROVE  PagesInMachine'
  <2>1. PICK page, c : /\ page = [page_address |-> address,
                                  cache_stream_offset |-> Len(points)]
                       /\ c = current
    OBVIOUS
  <2>2. /\ index' = WithPage(index, c, page) /\ IsCachePointStarted
        /\ \E region \in Region : InRegion(address, region)
    BY <1>3, <2>1 DEF WriteMemoryPage, WithPage
  <2>3. address \in Nat /\ c \in DOMAIN index /\ Len(points) \in Nat
    BY <1>1, <2>1, <2>2, OpenPoint, WidthAssumption
  <2>4. page \in [page_address : Nat, cache_stream_offset : Nat]
    BY <2>1, <2>3
  <2>5. PICK pages : pages = index[c].page_offsets
    OBVIOUS
  <2>6. /\ DOMAIN index' = DOMAIN index
        /\ index'[c].page_offsets = Append(pages, page)
        /\ \A d \in DOMAIN index \ {c} : index'[d] = index[d]
    BY <1>1, <2>2, <2>3, <2>4, <2>5, PageIndexed
  <2>7. pages \in Seq([page_address : Nat, cache_stream_offset : Nat])
    BY <1>1, <2>3, <2>5, EntryTyped
  <2>8. InMachine(page.page_address)
    <3>1. InMachine(address)
      BY <2>2, <2>3, TestSuffices
    <3> QED
      BY <2>1, <3>1
  <2>9. \A i \in DOMAIN pages : InMachine(pages[i].page_address)
    BY <2>3, <2>5 DEF PagesInMachine
  <2>10. ASSUME NEW i \in DOMAIN Append(pages, page)
         PROVE  InMachine(Append(pages, page)[i].page_address)
    <3>1. CASE i = Len(pages) + 1
      BY <2>4, <2>7, <2>8, <3>1
    <3>2. CASE i # Len(pages) + 1
      <4>1. i \in DOMAIN pages /\ Append(pages, page)[i] = pages[i]
        BY <2>4, <2>7, <3>2
      <4> QED
        BY <2>9, <4>1
    <3> QED
      BY <3>1, <3>2
  <2>11. ASSUME NEW d \in DOMAIN index'
         PROVE  \A i \in DOMAIN index'[d].page_offsets :
                    InMachine(index'[d].page_offsets[i].page_address)
    <3>1. CASE d = c
      BY <2>6, <2>10, <3>1
    <3>2. CASE d # c
      BY <2>6, <3>2 DEF PagesInMachine
    <3> QED
      BY <3>1, <3>2
  <2> QED
    BY <2>11 DEF PagesInMachine, InMachine
<1>4. CASE UNCHANGED index
  BY <1>4 DEF PagesInMachine, InMachine
<1> QED
  BY <1>2, <1>3, <1>4
  DEF Next, WriteRegister, FinishCachePoint, FinalizePoints, WriteIndex

\* The pages of the index lie in a region of the machine to their last byte, whatever
\* pages are given, as long as none ends at the end of the addresses or behind it:
\* there the sum that is compared wraps.
THEOREM PagesHeld ==
    ASSUME \A address \in Address : address + PageSize < AddressMod
    PROVE  Spec => []PagesInRegions
<1>1. Init => PagesInMachine
  BY DEF Init, PagesInMachine
<1>2. IInv /\ PagesInMachine /\ [Next]_vars => PagesInMachine'
  BY StepInMachine DEF vars, PagesInMachine, InMachine
<1>3. PagesInMachine => PagesInRegions
  BY DEF PagesInMachine, InMachine, PagesInRegions
<1> QED
  BY <1>1, <1>2, <1>3, Invariance, PTL DEF Spec

(***************************************************************************)
(* Random access                                                           *)
(***************************************************************************)

\* The n registers behind offset o of the fields s are those of ids, each once.
EachIn(s, o, n, ids) ==
    /\ \A i \in (o + 2)..(o + 1 + n) : s[i][2] \in ids
    /\ \A id \in ids : \E i \in (o + 2)..(o + 1 + n) : s[i][2] = id
    /\ \A i \in (o + 2)..(o + 1 + n) : \A j \in (o + 2)..(o + 1 + n) :
          i # j => s[i][2] # s[j][2]

\* A finished point has every register of the machine, and counts them.
Whole(s, o) ==
    /\ o + 1 + Cardinality(Register) <= Len(s)
    /\ s[o + 1] = RegisterCount(Cardinality(Register))
    /\ EachIn(s, o, Cardinality(Register), Register)

HasPage(pages, address) == \E i \in DOMAIN pages : pages[i].page_address = address

Recorded ==
    /\ trace \in Seq(SUBSET Location) /\ Len(trace) <= MaxEvents
    /\ dirty \subseteq Page /\ to_write \subseteq Register

\* A point lies at the end of the trace while it is open, and keeps that place.
PointsPlaced ==
    /\ \A c \in DOMAIN index :
          /\ c \in 1..Len(trace) /\ index[c].trace_stream_offset = c
          /\ Len(index[c].page_offsets) <= Len(points)
    /\ IsCachePointStarted => current = Len(trace)

RegistersSaved ==
    /\ \A c \in DOMAIN index \ {current} : Whole(points, Offset(c))
    /\ IsCachePointStarted =>
          EachIn(points, Offset(current), current_reg_count, Register \ to_write)

\* A page that an event wrote is in a cache point from there on, or is dirty; up to
\* a finished point, it is in one.
PagesSaved ==
    /\ \A n \in 1..Len(trace) : \A p \in trace[n] \intersect Page :
          p \in dirty \/ \E d \in DOMAIN index : n <= d /\ HasPage(index[d].page_offsets, p)
    /\ \A c \in DOMAIN index \ {current} : \A n \in 1..c : \A p \in trace[n] \intersect Page :
          \E d \in DOMAIN index : n <= d /\ d <= c /\ HasPage(index[d].page_offsets, p)

\* On its way to the target the replayer read the events behind `base', and passed
\* no cache point.
CameFrom(base) ==
    /\ base < target /\ base <= current_event_id
    /\ called_back = (base + 1)..current_event_id
    /\ \A n \in (base + 1)..(target - 1) : n \notin DOMAIN index

Replaying ==
    /\ target \in Nat /\ current_event_id \in Nat
    /\ current_event_id <= target /\ target <= Len(trace)
    /\ target # 0 => /\ finalized /\ written_index = index
                     /\ \E base \in Nat : CameFrom(base)

AInv ==
    /\ IInv
    /\ Recorded
    /\ PointsPlaced
    /\ RegistersSaved
    /\ PagesSaved
    /\ Replaying
    /\ ReplayExact

-----------------------------------------------------------------------------
(* The content of a location at a context. *)

\* A set of numbers up to m has a largest one.
LEMMA LargestExists ==
    ASSUME NEW m \in Nat, NEW S \in SUBSET (0..m), S # {}
    PROVE  Max(S) \in S /\ \A y \in S : y <= Max(S)
<1>1. PICK T : T = {k \in Nat : m - k \in S}
  OBVIOUS
<1>2. PICK x \in S : TRUE
  OBVIOUS
<1>3. m - x \in Nat /\ m - (m - x) = x
  BY <1>2
<1>4. T \subseteq Nat /\ T # {}
  BY <1>1, <1>2, <1>3
<1>5. PICK rel : rel = OpToRel(<, Nat)
  OBVIOUS
<1>6. PICK k \in T : \A y \in T : ~(<<y, k>> \in rel)
  BY <1>4, <1>5, NatLessThanWellFounded, WFMin
<1>7. \A y \in T : ~(y < k)
  BY <1>4, <1>5, <1>6 DEF OpToRel
<1>8. ASSUME NEW y \in S
      PROVE  y <= m - k
  <2>1. m - y \in Nat /\ m - (m - y) = y /\ y \in Nat
    OBVIOUS
  <2>2. m - y \in T
    BY <1>1, <2>1
  <2> QED
    BY <1>4, <1>6, <1>7, <2>1, <2>2
<1>9. m - k \in S
  BY <1>1, <1>6
<1>10. \E z \in S : \A y \in S : z >= y
  BY <1>8, <1>9
<1> QED
  BY <1>10 DEF Max

\* What Version looks at.
WritesTo(location, t, n) == {i \in 1..n : location \in t[i]}
LastOf(writes) == IF writes = {} THEN 0 ELSE Max(writes)

LEMMA VersionIs ==
    \A location, n : Version(location, n) = LastOf(WritesTo(location, trace, n))
BY DEF Version, WritesTo, LastOf

\* Nothing was written at contexts m + 1 to n.
LEMMA VersionSkips ==
    ASSUME NEW location, NEW n \in Nat, NEW m \in 0..n,
           \A i \in (m + 1)..n : location \notin trace[i]
    PROVE  Version(location, n) = Version(location, m)
<1>1. WritesTo(location, trace, n) = WritesTo(location, trace, m)
  BY DEF WritesTo
<1> QED
  BY <1>1, VersionIs

LEMMA VersionNone ==
    ASSUME NEW location, NEW n \in Nat, \A i \in 1..n : location \notin trace[i]
    PROVE  Version(location, n) = 0
<1>1. WritesTo(location, trace, n) = {}
  BY DEF WritesTo
<1> QED
  BY <1>1, VersionIs DEF LastOf

\* The last event counts.
LEMMA VersionNext ==
    ASSUME NEW location, NEW n \in Nat
    PROVE  Version(location, n + 1)
             = IF location \in trace[n + 1] THEN n + 1 ELSE Version(location, n)
<1>1. CASE location \notin trace[n + 1]
  <2>1. \A i \in (n + 1)..(n + 1) : location \notin trace[i]
    BY <1>1
  <2>2. n + 1 \in Nat /\ n \in 0..(n + 1)
    OBVIOUS
  <2> QED
    BY <1>1, <2>1, <2>2, VersionSkips
<1>2. CASE location \in trace[n + 1]
  <2>1. PICK w : w = WritesTo(location, trace, n + 1)
    OBVIOUS
  <2>2. n + 1 \in w /\ \A i \in w : i \in Nat /\ i <= n + 1
    BY <1>2, <2>1 DEF WritesTo
  <2>3. \A x \in w : (\A y \in w : x >= y) => x = n + 1
    BY <2>2
  <2>4. \E x \in w : \A y \in w : x >= y
    BY <2>2
  <2>5. Max(w) = n + 1
    BY <2>3, <2>4 DEF Max
  <2> QED
    BY <1>2, <2>1, <2>2, <2>5, VersionIs DEF LastOf
<1> QED
  BY <1>1, <1>2

-----------------------------------------------------------------------------
(* The state a replayer takes from a cache point. *)

\* As many registers as the machine has.
LEMMA CountOfEach ==
    ASSUME NEW s, NEW o \in Nat, NEW n \in Nat, EachIn(s, o, n, Register)
    PROVE  n = Cardinality(Register)
<1>1. PICK a, b : a = o + 2 /\ b = o + 1 + n
  OBVIOUS
<1>2. PICK f : f = [i \in a..b |-> s[i][2]]
  OBVIOUS
<1>3. IsFiniteSet(a..b) /\ Cardinality(a..b) = n
  <2>1. a \in Int /\ b \in Int /\ (IF a > b THEN 0 ELSE b - a + 1) = n
    BY <1>1
  <2>2. IsFiniteSet(a..b) /\ Cardinality(a..b) = IF a > b THEN 0 ELSE b - a + 1
    BY <2>1, FS_Interval
  <2> QED
    BY <2>1, <2>2
<1>4. /\ \A i \in a..b : s[i][2] \in Register
      /\ \A id \in Register : \E i \in a..b : s[i][2] = id
      /\ \A i \in a..b : \A j \in a..b : i # j => s[i][2] # s[j][2]
  BY <1>1 DEF EachIn
<1>5. DOMAIN f = a..b /\ \A i \in a..b : f[i] = s[i][2]
  BY <1>2
<1>6. f \in [a..b -> Register]
  BY <1>2, <1>4
<1>7. f \in Surjection(a..b, Register)
  BY <1>4, <1>5, <1>6 DEF Surjection
<1>8. f \in Injection(a..b, Register)
  BY <1>4, <1>5, <1>6 DEF Injection, IsInjective
<1>9. Cardinality(Register) = Cardinality(a..b)
  BY <1>3, <1>7, <1>8, FS_Surjection
<1> QED
  BY <1>3, <1>9

\* The reader returns the registers of a whole point.
LEMMA WholeReads ==
    ASSUME IInv, NEW c \in DOMAIN written_index, Whole(points, Offset(c))
    PROVE  ReadCachePoint(c).dump = [id \in Register |-> c]
<1>1. PICK o, k : o = Offset(c) /\ k = Cardinality(Register)
  OBVIOUS
<1>2. /\ written_index = index /\ points \in Seq(Fields) /\ o \in Nat
      /\ ClosedPoint(points, o, c)
  BY <1>1, IndexedPoint
<1>3. PICK n \in 0..Len(points) :
          PointIn(points, o, c, n) /\ points[o + 1] = RegisterCount(n % CountMod)
  BY <1>2 DEF ClosedPoint
<1>4. /\ o + 1 + k <= Len(points) /\ points[o + 1] = RegisterCount(k)
      /\ EachIn(points, o, k, Register)
  BY <1>1 DEF Whole
<1>5. k = n % CountMod
  BY <1>3, <1>4 DEF RegisterCount
<1>6. n \in Nat /\ k \in Nat /\ k <= n /\ k = Cardinality(Register)
  BY <1>1, <1>3, <1>5, Widths
<1>7. PICK t : t = RegistersAt(points, o, k)
  OBVIOUS
<1>8. /\ DOMAIN t = 1..k
      /\ \A i \in 1..k : /\ t[i] = points[o + 1 + i]
                         /\ t[i][1] = "register" /\ t[i][2] \in Register /\ t[i][3] = c
  <2>1. PointIn(points, o, c, n) /\ k \in Nat /\ k <= n /\ points \in Seq(Fields)
    BY <1>2, <1>3, <1>6
  <2> QED
    BY <1>7, <2>1, RegistersOf
<1>9. o = written_index[c].cpu_cache_stream_offset /\ k = points[o + 1][2]
  BY <1>1, <1>2, <1>4 DEF Offset, RegisterCount
<1>10. ReadCachePoint(c) = IF PointRefused(points, o, k, t) THEN Malformed
                           ELSE [status |-> "ok", dump |-> DumpOf(t)]
  BY <1>7, <1>9, ReadAs
<1>11. ASSUME NEW i \in DOMAIN t, NEW j \in DOMAIN t, i # j
       PROVE  t[i][2] # t[j][2]
  <2>1. /\ o + 1 + i \in (o + 2)..(o + 1 + k) /\ o + 1 + j \in (o + 2)..(o + 1 + k)
        /\ o + 1 + i # o + 1 + j
    BY <1>2, <1>6, <1>8, <1>11
  <2>2. points[o + 1 + i][2] # points[o + 1 + j][2]
    BY <1>4, <2>1 DEF EachIn
  <2> QED
    BY <1>8, <2>2
<1>12. IdsOf(t) \subseteq Register /\ \A i \in DOMAIN t : t[i][1] = "register"
  BY <1>8 DEF IdsOf
<1>13. ~(o + 1 + k > Len(points))
  BY <1>2, <1>4, <1>6
<1>14. ~PointRefused(points, o, k, t)
  BY <1>6, <1>11, <1>12, <1>13 DEF PointRefused
<1>15. ReadCachePoint(c).status = "ok"
  BY <1>10, <1>14
<1> QED
  BY <1>15, PointReads

\* The latest page up to a point has the content at that point.
LEMMA PageContentAt ==
    ASSUME AInv, finalized, written_index = index, NEW base \in DOMAIN index,
           NEW address \in Page
    PROVE  Version(address, base)
             = IF PageOffsets(address, base) = {} THEN 0
               ELSE Version(address, LatestPage(address, base)[3])
<1>1. /\ Typed /\ points \in Seq(Fields) /\ DOMAIN written_index = DOMAIN index
      /\ current \notin DOMAIN index
  BY Widths DEF AInv, IInv, Typed, IndexLast, IsCachePointStarted
<1>2. PICK all : all = PageOffsets(address, base)
  OBVIOUS
<1>3. \A d \in DOMAIN index : /\ d \in 1..Len(trace) /\ d \in Nat
                              /\ Len(index[d].page_offsets) <= Len(points)
                              /\ index[d].page_offsets
                                   \in Seq([page_address : Nat, cache_stream_offset : Nat])
                              /\ PagesLie(points, d, index[d].page_offsets)
  BY <1>1, EntryTyped DEF AInv, PointsPlaced, IInv
<1>4. \A o \in all : /\ o[1] \in DOMAIN index /\ o[1] \in 1..base
                     /\ o[2] \in DOMAIN index[o[1]].page_offsets
                     /\ index[o[1]].page_offsets[o[2]].page_address = address
  BY <1>2 DEF PageOffsets
<1>5. ASSUME NEW d \in DOMAIN index, d <= base, HasPage(index[d].page_offsets, address)
      PROVE  \E o \in all : o[1] = d
  <2>1. PICK i \in DOMAIN index[d].page_offsets :
            index[d].page_offsets[i].page_address = address
    BY <1>5 DEF HasPage
  <2>2. i \in 1..Len(points) /\ d \in 1..base
    <3>1. PICK pages : pages = index[d].page_offsets
      OBVIOUS
    <3>2. /\ pages \in Seq([page_address : Nat, cache_stream_offset : Nat])
          /\ Len(pages) <= Len(points) /\ i \in DOMAIN pages
      BY <1>3, <2>1, <3>1
    <3>3. i \in 1..Len(pages) /\ Len(pages) \in Nat /\ Len(points) \in Nat
      BY <1>1, <3>2
    <3>4. d \in Nat /\ d >= 1 /\ base \in Nat
      BY <1>3
    <3> QED
      BY <1>5, <3>2, <3>3, <3>4
  <2>3. PICK o : o = <<d, i>>
    OBVIOUS
  <2>4. o \in (DOMAIN written_index \intersect 1..base) \X (1..Len(points))
    BY <1>1, <2>2, <2>3
  <2>5. o[1] = d /\ o[2] = i
    BY <2>3
  <2>6. o \in all
    BY <1>2, <2>1, <2>4, <2>5 DEF PageOffsets
  <2> QED
    BY <2>5, <2>6
<1>6. ASSUME NEW n \in 1..base, address \in trace[n]
      PROVE  \E o \in all : n <= o[1]
  <2>1. PICK d \in DOMAIN index : n <= d /\ d <= base /\ HasPage(index[d].page_offsets, address)
    BY <1>1, <1>6 DEF AInv, PagesSaved
  <2> QED
    BY <1>5, <2>1
<1>7. base \in Nat
  BY <1>3
<1>8. CASE all = {}
  <2>1. Version(address, base) = 0
    BY <1>6, <1>7, <1>8, VersionNone
  <2> QED
    BY <1>2, <1>8, <2>1
<1>9. CASE all # {}
  <2>1. PICK S : S = {o[1] : o \in all}
    OBVIOUS
  <2>2. S \in SUBSET (0..base) /\ S # {}
    BY <1>4, <1>9, <2>1
  <2>3. Max(S) \in S /\ \A d \in S : d <= Max(S)
    BY <1>7, <2>2, LargestExists
  <2>4. \E o \in all : \A other \in all : other[1] <= o[1]
    BY <2>1, <2>3
  <2>5. PICK latest : latest = CHOOSE o \in all : \A other \in all : other[1] <= o[1]
    OBVIOUS
  <2>6. latest \in all /\ \A other \in all : other[1] <= latest[1]
    BY <2>4, <2>5
  <2>7. LatestPage(address, base)
          = points[index[latest[1]].page_offsets[latest[2]].cache_stream_offset + 1]
    BY <1>2, <2>5 DEF LatestPage
  <2>8. LatestPage(address, base) = PageContent(address, latest[1])
    <3>1. /\ latest[1] \in DOMAIN index /\ latest[2] \in DOMAIN index[latest[1]].page_offsets
          /\ index[latest[1]].page_offsets[latest[2]].page_address = address
      BY <1>4, <2>6
    <3>2. PagesLie(points, latest[1], index[latest[1]].page_offsets)
      BY <1>3, <3>1
    <3> QED
      BY <2>7, <3>1, <3>2 DEF PagesLie
  <2>9. LatestPage(address, base)[3] = latest[1]
    BY <2>8 DEF PageContent
  <2>10. latest[1] \in 0..base
    BY <1>4, <2>6
  <2>11. ASSUME NEW n \in (latest[1] + 1)..base
         PROVE  address \notin trace[n]
    <3>1. n \in 1..base /\ latest[1] < n /\ latest[1] \in Nat
      BY <1>7, <2>10
    <3>2. ASSUME address \in trace[n]
          PROVE  FALSE
      <4>1. PICK o \in all : n <= o[1]
        BY <1>6, <3>1, <3>2
      <4>2. o[1] <= latest[1] /\ o[1] \in 1..base
        BY <1>4, <2>6
      <4> QED
        BY <1>7, <3>1, <4>1, <4>2
    <3> QED
      BY <3>2
  <2>12. Version(address, base) = Version(address, latest[1])
    BY <1>7, <2>10, <2>11, VersionSkips
  <2> QED
    BY <1>2, <1>9, <2>9, <2>12
<1> QED
  BY <1>8, <1>9

\* So has every location.
LEMMA StateFrom ==
    ASSUME AInv, finalized, written_index = index, NEW base \in DOMAIN index
    PROVE  \A location \in Location : StateAt(base)[location] = Version(location, base)
<1>1. Whole(points, Offset(base))
  <2>1. current \notin DOMAIN index
    BY Widths DEF AInv, IInv, Typed, IndexLast, IsCachePointStarted
  <2> QED
    BY <2>1 DEF AInv, RegistersSaved
<1>2. PICK dump : dump = ReadCachePoint(base).dump
  OBVIOUS
<1>3. dump = [id \in Register |-> base]
  BY <1>1, <1>2, WholeReads DEF AInv
<1>4. StateAt(base) =
        [location \in Location |->
            IF location \in Register THEN Version(location, dump[location])
            ELSE IF PageOffsets(location, base) = {} THEN 0
            ELSE Version(location, LatestPage(location, base)[3])]
  BY <1>2 DEF StateAt
<1>5. ASSUME NEW location \in Location
      PROVE  StateAt(base)[location] = Version(location, base)
  <2>1. CASE location \in Register
    BY <1>3, <1>4, <2>1
  <2>2. CASE location \notin Register
    <3>1. location \in Page
      BY <2>2 DEF Location
    <3>2. StateAt(base)[location] = IF PageOffsets(location, base) = {} THEN 0
                                    ELSE Version(location, LatestPage(location, base)[3])
      BY <1>4, <2>2
    <3> QED
      BY <3>1, <3>2, PageContentAt
  <2> QED
    BY <2>1, <2>2
<1> QED
  BY <1>5

-----------------------------------------------------------------------------
(* The recorder's steps. *)

LEMMA InitAccessHolds == InitAccess => AInv
<1> SUFFICES ASSUME InitAccess PROVE AInv
  OBVIOUS
<1>1. /\ Init /\ trace = <<>> /\ dirty = {} /\ to_write = {} /\ target = 0
      /\ current_event_id = 0 /\ position = 0 /\ called_back = {}
      /\ state = [location \in Location |-> 0]
  BY DEF InitAccess
<1>2. IInv
  BY <1>1, InitHolds
<1>3. DOMAIN index = {} /\ ~IsCachePointStarted
  BY <1>1 DEF Init, IsCachePointStarted
<1>4. trace \in Seq(SUBSET Location) /\ Len(trace) = 0
  BY <1>1
<1>5. Recorded /\ PointsPlaced /\ RegistersSaved /\ PagesSaved
  BY <1>1, <1>3, <1>4, LocationAssumption
  DEF Recorded, PointsPlaced, RegistersSaved, PagesSaved
<1>6. Replaying
  BY <1>1, <1>4 DEF Replaying
<1>7. \A location \in Location : Version(location, 0) = 0
  BY VersionNone
<1>8. ReplayExact
  BY <1>1, <1>7 DEF ReplayExact
<1> QED
  BY <1>2, <1>5, <1>6, <1>8 DEF AInv

\* The replayer does not move while the recorder works: it has no request yet.
LEMMA ReplayerWaits ==
    ASSUME AInv, ~finalized \/ written_index # index, UNCHANGED <<trace, replayVars>>
    PROVE  Replaying' /\ ReplayExact'
<1>1. target = 0
  BY DEF AInv, Replaying
<1>2. /\ target' = target /\ current_event_id' = current_event_id /\ position' = position
      /\ state' = state /\ called_back' = called_back /\ trace' = trace
  BY DEF replayVars
<1>3. Replaying'
  BY <1>1, <1>2 DEF AInv, Replaying
<1>4. ReplayExact'
  BY <1>2 DEF AInv, ReplayExact, Version
<1> QED
  BY <1>3, <1>4

\* A list of registers, and a point, whose fields stay.
LEMMA EachKept ==
    ASSUME NEW s, NEW t, NEW o \in Nat, NEW n \in Nat, NEW ids, EachIn(s, o, n, ids),
           \A i \in (o + 2)..(o + 1 + n) : t[i] = s[i]
    PROVE  EachIn(t, o, n, ids)
BY DEF EachIn

LEMMA WholeKept ==
    ASSUME NEW s \in Seq(Fields), NEW t \in Seq(Fields), Len(s) <= Len(t),
           NEW o \in Nat, Whole(s, o),
           \A i \in (o + 1)..(o + 1 + Cardinality(Register)) : t[i] = s[i]
    PROVE  Whole(t, o)
<1>1. PICK k : k = Cardinality(Register)
  OBVIOUS
<1>2. k \in Nat
  BY <1>1, Widths
<1>3. o + 1 + k <= Len(s) /\ s[o + 1] = RegisterCount(k) /\ EachIn(s, o, k, Register)
  BY <1>1 DEF Whole
<1>4. \A i \in (o + 2)..(o + 1 + k) : t[i] = s[i]
  BY <1>1, <1>2
<1>5. EachIn(t, o, k, Register)
  BY <1>2, <1>3, <1>4, EachKept
<1>6. t[o + 1] = s[o + 1] /\ o + 1 + k <= Len(t)
  BY <1>1, <1>2, <1>3
<1> QED
  BY <1>1, <1>3, <1>5, <1>6 DEF Whole

LEMMA WholeAppended ==
    ASSUME NEW s \in Seq(Fields), NEW f \in Fields, NEW o \in Nat, Whole(s, o)
    PROVE  Whole(Append(s, f), o)
<1>1. PICK t : t = Append(s, f)
  OBVIOUS
<1>2. /\ t \in Seq(Fields) /\ Len(s) <= Len(t)
      /\ \A i \in 1..Len(s) : t[i] = s[i]
  <2>1. /\ Append(s, f) \in Seq(Fields) /\ Len(Append(s, f)) = Len(s) + 1
        /\ \A i \in 1..Len(s) : Append(s, f)[i] = s[i]
    BY AppendedField
  <2> QED
    BY <1>1, <2>1
<1>3. PICK k : k = Cardinality(Register)
  OBVIOUS
<1>4. k \in Nat /\ o + 1 + k <= Len(s)
  BY <1>3, Widths DEF Whole
<1>5. \A i \in (o + 1)..(o + 1 + k) : t[i] = s[i]
  BY <1>2, <1>4
<1> QED
  BY <1>1, <1>2, <1>3, <1>5, WholeKept

LEMMA EachAppended ==
    ASSUME NEW s \in Seq(Fields), NEW f \in Fields, NEW o \in Nat, NEW n \in Nat,
           o + 1 + n <= Len(s), NEW ids, EachIn(s, o, n, ids)
    PROVE  EachIn(Append(s, f), o, n, ids)
<1>1. PICK t : t = Append(s, f)
  OBVIOUS
<1>2. \A i \in 1..Len(s) : t[i] = s[i]
  BY <1>1, AppendedField
<1>3. \A i \in (o + 2)..(o + 1 + n) : t[i] = s[i]
  BY <1>2
<1> QED
  BY <1>1, <1>3, EachKept

LEMMA EventRecorded ==
    ASSUME AInv, NEW touched \in Touch, RecordEvent(touched)
    PROVE  AInv'
<1>1. /\ ~finalized /\ ~IsCachePointStarted /\ Len(trace) < MaxEvents
      /\ trace' = Append(trace, touched)
      /\ dirty' = dirty \union (touched \intersect Page)
      /\ UNCHANGED <<vars, to_write, replayVars>>
  BY DEF RecordEvent
<1>2. /\ UNCHANGED <<points, index, current, current_reg_count, finalized, written_index>>
      /\ to_write' = to_write /\ target' = target /\ current_event_id' = current_event_id
      /\ position' = position /\ state' = state /\ called_back' = called_back
  BY <1>1 DEF vars, replayVars
<1>3. trace \in Seq(SUBSET Location) /\ touched \in SUBSET Location /\ MaxEvents \in Nat
  BY LocationAssumption DEF AInv, Recorded
<1>4. /\ trace' \in Seq(SUBSET Location) /\ Len(trace') = Len(trace) + 1
      /\ \A n \in 1..Len(trace) : trace'[n] = trace[n]
      /\ trace'[Len(trace) + 1] = touched /\ Len(trace) \in Nat
  BY <1>1, <1>3
<1>5. IInv'
  BY <1>1, UnchangedHolds DEF AInv
<1>6. Recorded'
  BY <1>1, <1>2, <1>3, <1>4 DEF AInv, Recorded
<1>7. PointsPlaced'
  BY <1>1, <1>2, <1>4 DEF AInv, PointsPlaced, IsCachePointStarted
<1>8. RegistersSaved'
  BY <1>1, <1>2 DEF AInv, RegistersSaved, IsCachePointStarted, Offset
<1>9. PagesSaved'
  <2>1. ASSUME NEW n \in 1..Len(trace'), NEW p \in trace'[n] \intersect Page
        PROVE  \/ p \in dirty'
               \/ \E d \in DOMAIN index : n <= d /\ HasPage(index[d].page_offsets, p)
    <3>1. CASE n = Len(trace) + 1
      BY <1>1, <1>4, <2>1, <3>1
    <3>2. CASE n # Len(trace) + 1
      <4>1. n \in 1..Len(trace) /\ p \in trace[n] \intersect Page
        BY <1>4, <2>1, <3>2
      <4> QED
        BY <1>1, <4>1 DEF AInv, PagesSaved
    <3> QED
      BY <3>1, <3>2
  <2>2. ASSUME NEW c \in DOMAIN index \ {current}, NEW n \in 1..c,
               NEW p \in trace'[n] \intersect Page
        PROVE  \E d \in DOMAIN index : n <= d /\ d <= c /\ HasPage(index[d].page_offsets, p)
    <3>1. c \in 1..Len(trace)
      BY DEF AInv, PointsPlaced
    <3>2. p \in trace[n] \intersect Page
      BY <1>4, <2>2, <3>1
    <3> QED
      BY <3>2 DEF AInv, PagesSaved
  <2> QED
    BY <1>2, <2>1, <2>2 DEF PagesSaved
<1>10. Replaying'
  <2>1. target = 0 /\ current_event_id = 0
    BY <1>1 DEF AInv, Replaying
  <2> QED
    BY <1>2, <1>4, <2>1 DEF Replaying
<1>11. ReplayExact'
  <2>1. current_event_id \in Nat /\ current_event_id <= Len(trace)
    BY <1>4 DEF AInv, Replaying
  <2>2. \A n \in 1..current_event_id : trace'[n] = trace[n]
    BY <1>4, <2>1
  <2>3. ASSUME NEW location \in Location
        PROVE  Version(location, current_event_id)' = Version(location, current_event_id)
    <3>1. PICK m : m = current_event_id
      OBVIOUS
    <3>2. WritesTo(location, trace', m) = WritesTo(location, trace, m)
      BY <2>2, <3>1 DEF WritesTo
    <3>3. Version(location, current_event_id)'
            = LastOf(WritesTo(location, trace', current_event_id'))
      BY DEF Version, LastOf, WritesTo
    <3> QED
      BY <1>2, <3>1, <3>2, <3>3, VersionIs
  <2> QED
    BY <1>2, <2>3 DEF AInv, ReplayExact
<1> QED
  BY <1>5, <1>6, <1>7, <1>8, <1>9, <1>10, <1>11 DEF AInv

LEMMA PointRecorded ==
    ASSUME AInv, RecordPoint
    PROVE  AInv'
<1>1. PICK c : c = Len(trace)
  OBVIOUS
<1>2. /\ c > 0 /\ StartCachePoint(c, c) /\ to_write' = Register
      /\ UNCHANGED <<trace, dirty, replayVars>>
  BY <1>1 DEF RecordPoint
<1>3. /\ trace \in Seq(SUBSET Location) /\ c \in 1..MaxEvents /\ c \in ContextId
      /\ c \in TracePos
  BY <1>1, <1>2, LocationAssumption DEF AInv, Recorded
<1>4. IInv'
  BY <1>2, <1>3, StartHolds DEF AInv
<1>5. /\ Typed /\ points \in Seq(Fields) /\ IInv
  BY DEF AInv, IInv, Typed
<1>6. PICK entry, f : /\ entry = [trace_stream_offset |-> c,
                                  cpu_cache_stream_offset |-> Len(points),
                                  page_offsets |-> <<>>]
                      /\ f = RegisterCount(0)
  OBVIOUS
<1>7. /\ ~finalized /\ ~IsCachePointStarted /\ c \notin DOMAIN index
      /\ index' = Extended(index, c, entry) /\ points' = Append(points, f)
      /\ current' = c /\ current_reg_count' = 0
  BY <1>2, <1>6 DEF StartCachePoint, CanWrite
<1>8. entry \in Entries /\ f \in Fields /\ Len(points) \in Nat
  BY <1>3, <1>5, <1>6, InputAssumption, FieldsTyped DEF Entries
<1>9. /\ DOMAIN index' = DOMAIN index \union {c} /\ index'[c] = entry
      /\ \A d \in DOMAIN index : index'[d] = index[d]
  BY <1>3, <1>5, <1>7, <1>8, IndexExtended
<1>10. Len(points') = Len(points) + 1
  BY <1>5, <1>7, <1>8
<1>11. current \notin DOMAIN index
  BY <1>5, <1>7, Widths DEF Typed, IsCachePointStarted
<1>12. Recorded'
  BY <1>2 DEF AInv, Recorded
<1>13. PointsPlaced'
  <2>1. \A d \in DOMAIN index : /\ d \in 1..Len(trace) /\ index[d].trace_stream_offset = d
                                /\ Len(index[d].page_offsets) <= Len(points)
                                /\ Len(index[d].page_offsets) \in Nat
    BY <1>5, EntryTyped DEF AInv, PointsPlaced
  <2>2. entry.trace_stream_offset = c /\ Len(entry.page_offsets) = 0
    BY <1>6
  <2>3. c \in 1..Len(trace)
    BY <1>1, <1>3
  <2> QED
    BY <1>1, <1>2, <1>7, <1>8, <1>9, <1>10, <2>1, <2>2, <2>3 DEF PointsPlaced
<1>14. RegistersSaved'
  <2>1. ASSUME NEW d \in DOMAIN index
        PROVE  Whole(points', Offset(d)')
    <3>1. Whole(points, Offset(d)) /\ Offset(d) \in Nat /\ Offset(d)' = Offset(d)
      BY <1>5, <1>9, <1>11, EntryTyped DEF AInv, RegistersSaved, Offset
    <3>2. Whole(Append(points, f), Offset(d))
      BY <1>5, <1>8, <3>1, WholeAppended
    <3> QED
      BY <1>7, <3>1, <3>2
  <2>2. EachIn(points', Offset(c)', 0, Register \ Register)
    <3>1. Offset(c)' \in Nat
      BY <1>6, <1>8, <1>9 DEF Offset
    <3>2. \A o \in Nat : EachIn(points', o, 0, Register \ Register)
      BY DEF EachIn
    <3> QED
      BY <3>1, <3>2
  <2>3. DOMAIN index' \ {current'} = DOMAIN index
    BY <1>7, <1>9
  <2> QED
    BY <1>2, <1>7, <2>1, <2>2, <2>3 DEF RegistersSaved
<1>15. PagesSaved'
  <2>1. ASSUME NEW n \in 1..Len(trace), NEW p \in trace[n] \intersect Page
        PROVE  \/ p \in dirty
               \/ \E d \in DOMAIN index' : n <= d /\ HasPage(index'[d].page_offsets, p)
    BY <1>9 DEF AInv, PagesSaved
  <2>2. ASSUME NEW b \in DOMAIN index' \ {current'}, NEW n \in 1..b,
               NEW p \in trace[n] \intersect Page
        PROVE  \E d \in DOMAIN index' : n <= d /\ d <= b /\ HasPage(index'[d].page_offsets, p)
    <3>1. b \in DOMAIN index \ {current}
      BY <1>7, <1>9, <1>11
    <3> QED
      BY <1>9, <3>1 DEF AInv, PagesSaved
  <2> QED
    BY <1>2, <2>1, <2>2 DEF PagesSaved
<1>16. Replaying' /\ ReplayExact'
  BY <1>2, <1>7, ReplayerWaits
<1> QED
  BY <1>4, <1>12, <1>13, <1>14, <1>15, <1>16 DEF AInv

LEMMA RegisterRecorded ==
    ASSUME AInv, NEW id \in Register, RecordRegister(id)
    PROVE  AInv'
<1>1. /\ id \in to_write /\ WriteRegister(id) /\ to_write' = to_write \ {id}
      /\ UNCHANGED <<trace, dirty, replayVars>>
  BY DEF RecordRegister
<1>2. IInv'
  BY <1>1, RegisterHolds DEF AInv
<1>3. IInv /\ Typed /\ points \in Seq(Fields)
  BY DEF AInv, IInv, Typed
<1>4. PICK f, o, n : /\ f = RegisterContent(id, current) /\ o = Offset(current)
                     /\ n = current_reg_count
  OBVIOUS
<1>5. /\ ~finalized /\ IsCachePointStarted /\ index[current].page_offsets = <<>>
      /\ points' = Append(points, f) /\ current_reg_count' = n + 1
      /\ UNCHANGED <<index, current, finalized, written_index>>
  BY <1>1, <1>4 DEF WriteRegister, CanWrite
<1>6. /\ f \in Fields /\ o \in Nat /\ n \in Nat /\ Len(points) = o + 1 + n
      /\ EachIn(points, o, n, Register \ to_write) /\ to_write \subseteq Register
  <2>1. f \in Fields
    BY <1>3, <1>4, <1>5, OpenPoint, FieldsTyped
  <2>2. o \in Nat /\ n \in Nat
    BY <1>3, <1>4, <1>5, OpenPoint
  <2>3. Len(points) = o + 1 + n
    BY <1>3, <1>4, <1>5 DEF IInv, OpenLast
  <2> QED
    BY <1>4, <1>5, <2>1, <2>2, <2>3 DEF AInv, RegistersSaved, Recorded
<1>7. /\ Len(points') = Len(points) + 1 /\ points'[Len(points) + 1] = f
      /\ \A i \in 1..Len(points) : points'[i] = points[i]
  BY <1>3, <1>5, <1>6, AppendedField
<1>8. Recorded'
  BY <1>1 DEF AInv, Recorded
<1>9. PointsPlaced'
  <2>1. \A d \in DOMAIN index : /\ d \in 1..Len(trace) /\ index[d].trace_stream_offset = d
                                /\ Len(index[d].page_offsets) <= Len(points)
                                /\ Len(index[d].page_offsets) \in Nat
    BY <1>3, EntryTyped DEF AInv, PointsPlaced
  <2>2. Len(points) \in Nat /\ current = Len(trace)
    BY <1>3, <1>5 DEF AInv, PointsPlaced
  <2> QED
    BY <1>1, <1>5, <1>7, <2>1, <2>2 DEF PointsPlaced
<1>10. EachIn(points', o, n + 1, Register \ (to_write \ {id}))
  <2>1. PICK k : k = Len(points) + 1
    OBVIOUS
  <2>2. k = o + 1 + (n + 1) /\ k \in Nat /\ points'[k][2] = id
    BY <1>4, <1>6, <1>7, <2>1 DEF RegisterContent
  <2>3. \A i \in (o + 2)..k : i # k => i \in (o + 2)..(o + 1 + n)
    BY <1>6, <2>2
  <2>4. \A i \in (o + 2)..(o + 1 + n) : points'[i] = points[i] /\ i \in (o + 2)..k
    BY <1>6, <1>7, <2>2
  <2>5. k \in (o + 2)..k
    BY <1>6, <2>2
  <2>6. \A i \in (o + 2)..(o + 1 + n) :
            points'[i][2] \in Register \ to_write /\ points'[i][2] # id
    BY <1>1, <1>6, <2>4 DEF EachIn
  <2>7. \A i \in (o + 2)..k : points'[i][2] \in Register \ (to_write \ {id})
    BY <2>2, <2>3, <2>6
  <2>8. \A x \in Register \ (to_write \ {id}) : \E i \in (o + 2)..k : points'[i][2] = x
    <3>1. ASSUME NEW x \in Register \ to_write
          PROVE  \E i \in (o + 2)..k : points'[i][2] = x
      BY <1>6, <2>4 DEF EachIn
    <3> QED
      BY <2>2, <2>5, <3>1
  <2>9. ASSUME NEW i \in (o + 2)..k, NEW j \in (o + 2)..k, i # j
        PROVE  points'[i][2] # points'[j][2]
    <3>1. CASE i = k
      BY <2>2, <2>3, <2>6, <2>9, <3>1
    <3>2. CASE j = k
      BY <2>2, <2>3, <2>6, <2>9, <3>2
    <3>3. CASE i # k /\ j # k
      <4>1. /\ i \in (o + 2)..(o + 1 + n) /\ j \in (o + 2)..(o + 1 + n)
        BY <2>3, <2>9, <3>3
      <4> QED
        BY <1>6, <2>4, <2>9, <4>1 DEF EachIn
    <3> QED
      BY <3>1, <3>2, <3>3
  <2> QED
    BY <2>2, <2>7, <2>8, <2>9 DEF EachIn
<1>11. RegistersSaved'
  <2>1. ASSUME NEW d \in DOMAIN index \ {current}
        PROVE  Whole(points', Offset(d))
    <3>1. Whole(points, Offset(d)) /\ Offset(d) \in Nat
      BY <1>3, EntryTyped DEF AInv, RegistersSaved
    <3> QED
      BY <1>3, <1>5, <1>6, <3>1, WholeAppended
  <2>2. \A d \in DOMAIN index : Offset(d)' = Offset(d)
    BY <1>5 DEF Offset
  <2>3. Offset(current)' = o
    BY <1>4, <1>5 DEF Offset
  <2> QED
    BY <1>1, <1>4, <1>5, <1>10, <2>1, <2>2, <2>3 DEF RegistersSaved
<1>12. PagesSaved'
  BY <1>1, <1>5 DEF AInv, PagesSaved
<1>13. Replaying' /\ ReplayExact'
  BY <1>1, <1>5, ReplayerWaits
<1> QED
  BY <1>2, <1>8, <1>9, <1>11, <1>12, <1>13 DEF AInv

LEMMA PageRecorded ==
    ASSUME AInv, NEW address \in Page, RecordPage(address)
    PROVE  AInv'
<1>1. /\ WriteMemoryPage(address) /\ dirty' = dirty \ {address}
      /\ UNCHANGED <<trace, to_write, replayVars>>
  BY DEF RecordPage
<1>2. address \in Address
  BY DEF Page
<1>3. IInv'
  BY <1>1, <1>2, PageHolds DEF AInv
<1>4. IInv /\ Typed /\ points \in Seq(Fields) /\ Len(points) \in Nat
  BY DEF AInv, IInv, Typed
<1>5. PICK f, page, c : /\ f = PageContent(address, current) /\ c = current
                        /\ page = [page_address |-> address,
                                   cache_stream_offset |-> Len(points)]
  OBVIOUS
<1>6. /\ ~finalized /\ IsCachePointStarted
      /\ index' = WithPage(index, c, page) /\ points' = Append(points, f)
      /\ UNCHANGED <<current, current_reg_count, finalized, written_index>>
  BY <1>1, <1>5 DEF WriteMemoryPage, CanWrite, WithPage
<1>7. /\ c \in DOMAIN index /\ c \in ContextId /\ address \in Nat
      /\ Offset(current) \in Nat /\ current_reg_count \in Nat
      /\ PointIn(points, Offset(current), current, current_reg_count)
  BY <1>2, <1>4, <1>5, <1>6, OpenPoint, WidthAssumption
<1>8. f \in Fields /\ page \in [page_address : Nat, cache_stream_offset : Nat]
  BY <1>4, <1>5, <1>7, FieldsTyped
<1>9. PICK pages : pages = index[c].page_offsets
  OBVIOUS
<1>10. /\ DOMAIN index' = DOMAIN index
       /\ index'[c].page_offsets = Append(pages, page)
       /\ \A d \in DOMAIN index :
             /\ Offset(d)' = Offset(d)
             /\ index'[d].trace_stream_offset = index[d].trace_stream_offset
       /\ \A d \in DOMAIN index \ {c} : index'[d] = index[d]
  BY <1>4, <1>6, <1>7, <1>8, <1>9, PageIndexed DEF Offset
<1>11. pages \in Seq([page_address : Nat, cache_stream_offset : Nat])
  BY <1>4, <1>7, <1>9, EntryTyped
<1>12. Len(points') = Len(points) + 1
  BY <1>4, <1>6, <1>8, AppendedField
<1>13. /\ HasPage(Append(pages, page), address)
       /\ \A p : HasPage(pages, p) => HasPage(Append(pages, page), p)
  <2>1. /\ DOMAIN Append(pages, page) = 1..(Len(pages) + 1)
        /\ Append(pages, page)[Len(pages) + 1] = page
        /\ \A i \in 1..Len(pages) : Append(pages, page)[i] = pages[i]
        /\ DOMAIN pages = 1..Len(pages) /\ Len(pages) \in Nat
    BY <1>8, <1>11
  <2>2. page.page_address = address
    BY <1>5
  <2>3. Len(pages) + 1 \in 1..(Len(pages) + 1) /\ 1..Len(pages) \subseteq 1..(Len(pages) + 1)
    BY <2>1
  <2>4. HasPage(Append(pages, page), address)
    BY <2>1, <2>2, <2>3 DEF HasPage
  <2>5. ASSUME NEW p, HasPage(pages, p)
        PROVE  HasPage(Append(pages, page), p)
    BY <2>1, <2>3, <2>5 DEF HasPage
  <2> QED
    BY <2>4, <2>5
<1>14. \A d \in DOMAIN index : \A p :
           HasPage(index[d].page_offsets, p) => HasPage(index'[d].page_offsets, p)
  BY <1>9, <1>10, <1>13
<1>15. Recorded'
  BY <1>1 DEF AInv, Recorded
<1>16. PointsPlaced'
  <2>1. \A d \in DOMAIN index : /\ d \in 1..Len(trace) /\ index[d].trace_stream_offset = d
                                /\ Len(index[d].page_offsets) <= Len(points)
                                /\ Len(index[d].page_offsets) \in Nat
    BY <1>4, EntryTyped DEF AInv, PointsPlaced
  <2>2. Len(Append(pages, page)) = Len(pages) + 1
    BY <1>8, <1>11
  <2>3. \A d \in DOMAIN index : Len(index'[d].page_offsets) <= Len(points')
    BY <1>4, <1>7, <1>9, <1>10, <1>12, <2>1, <2>2
  <2>4. current = Len(trace)
    BY <1>6 DEF AInv, PointsPlaced
  <2> QED
    BY <1>1, <1>6, <1>10, <2>1, <2>3, <2>4 DEF PointsPlaced
<1>17. RegistersSaved'
  <2>1. ASSUME NEW d \in DOMAIN index \ {current}
        PROVE  Whole(points', Offset(d))
    <3>1. Whole(points, Offset(d)) /\ Offset(d) \in Nat
      BY <1>4, EntryTyped DEF AInv, RegistersSaved
    <3> QED
      BY <1>4, <1>6, <1>8, <3>1, WholeAppended
  <2>2. EachIn(points', Offset(current), current_reg_count, Register \ to_write)
    <3>1. Offset(current) + 1 + current_reg_count <= Len(points)
      BY <1>7 DEF PointIn
    <3>2. EachIn(points, Offset(current), current_reg_count, Register \ to_write)
      BY <1>6 DEF AInv, RegistersSaved
    <3> QED
      BY <1>4, <1>6, <1>7, <1>8, <3>1, <3>2, EachAppended
  <2>3. Offset(current)' = Offset(current)
    BY <1>5, <1>6, <1>7, <1>10 DEF Offset
  <2> QED
    BY <1>1, <1>6, <1>10, <2>1, <2>2, <2>3 DEF RegistersSaved
<1>18. PagesSaved'
  <2>1. ASSUME NEW n \in 1..Len(trace), NEW p \in trace[n] \intersect Page
        PROVE  \/ p \in dirty \ {address}
               \/ \E d \in DOMAIN index : n <= d /\ HasPage(index'[d].page_offsets, p)
    <3>1. CASE p = address
      <4>1. c = Len(trace) /\ n <= c
        BY <1>5, <1>6 DEF AInv, PointsPlaced, Recorded
      <4> QED
        BY <1>7, <1>10, <1>13, <3>1, <4>1
    <3>2. CASE p # address
      BY <1>14, <3>2 DEF AInv, PagesSaved
    <3> QED
      BY <3>1, <3>2
  <2>2. ASSUME NEW b \in DOMAIN index \ {current}, NEW n \in 1..b,
               NEW p \in trace[n] \intersect Page
        PROVE  \E d \in DOMAIN index : n <= d /\ d <= b /\ HasPage(index'[d].page_offsets, p)
    BY <1>14 DEF AInv, PagesSaved
  <2> QED
    BY <1>1, <1>6, <1>10, <2>1, <2>2 DEF PagesSaved
<1>19. Replaying' /\ ReplayExact'
  BY <1>1, <1>6, ReplayerWaits
<1> QED
  BY <1>3, <1>15, <1>16, <1>17, <1>18, <1>19 DEF AInv

LEMMA PointDoneRecorded ==
    ASSUME AInv, RecordPointDone
    PROVE  AInv'
<1>1. /\ to_write = {} /\ dirty = {} /\ FinishCachePoint
      /\ UNCHANGED <<trace, dirty, to_write, replayVars>>
  BY DEF RecordPointDone, recorderVars
<1>2. IInv'
  <2>1. finalized' \in BOOLEAN
    BY <1>1 DEF FinishCachePoint, AInv, IInv, Typed
  <2> QED
    BY <1>1, <2>1, FinishHolds DEF FinishCachePoint, AInv
<1>3. IInv /\ Typed /\ points \in Seq(Fields) /\ Len(points) \in Nat
  BY DEF AInv, IInv, Typed
<1>4. /\ ~finalized /\ IsCachePointStarted /\ points' = CountPatched /\ current' = NoPoint
      /\ UNCHANGED <<index, current_reg_count, finalized, written_index>>
  BY <1>1 DEF FinishCachePoint
<1>5. PICK o, n, c, f : /\ o = Offset(current) /\ n = current_reg_count /\ c = current
                        /\ f = RegisterCount(n % CountMod)
  OBVIOUS
<1>6. /\ c \in DOMAIN index /\ o \in Nat /\ n \in Nat /\ PointIn(points, o, c, n)
      /\ \A d \in DOMAIN index \ {c} :
            ClosedPoint(points, Offset(d), d) /\ Offset(d) \in Nat /\ Offset(d) < o
  BY <1>3, <1>4, <1>5, OpenPoint
<1>7. EachIn(points, o, n, Register)
  <2>1. Register \ to_write = Register
    BY <1>1
  <2> QED
    BY <1>4, <1>5, <2>1 DEF AInv, RegistersSaved
<1>8. n = Cardinality(Register) /\ f = RegisterCount(Cardinality(Register))
  <2>1. n = Cardinality(Register)
    BY <1>6, <1>7, CountOfEach
  <2>2. n % CountMod = n
    BY <1>6, <2>1, Widths, MachineAssumption
  <2> QED
    BY <1>5, <2>1, <2>2
<1>9. f \in Fields
  BY <1>8, Widths, FieldsTyped
<1>10. PICK q : q = o + 1
  OBVIOUS
<1>11. /\ q \in 1..Len(points) /\ points[q][1] = "count" /\ o + 1 + n <= Len(points)
  BY <1>3, <1>6, <1>10 DEF PointIn
<1>12. points' = Patched(points, q, f)
  BY <1>4, <1>5, <1>10 DEF CountPatched, Patched, Offset
<1>13. /\ points' \in Seq(Fields) /\ Len(points') = Len(points) /\ points'[q] = f
       /\ \A i \in 1..Len(points) \ {q} : points'[i] = points[i]
  <2>1. /\ Patched(points, q, f) \in Seq(Fields)
        /\ Len(Patched(points, q, f)) = Len(points)
        /\ Patched(points, q, f)[q] = f
        /\ \A i \in 1..Len(points) \ {q} : Patched(points, q, f)[i] = points[i]
    BY <1>3, <1>9, <1>11, PatchedField
  <2> QED
    BY <1>12, <2>1
<1>14. Whole(points', o)
  <2>1. \A i \in (o + 2)..(o + 1 + n) : points'[i] = points[i]
    BY <1>6, <1>10, <1>11, <1>13
  <2>2. EachIn(points', o, n, Register)
    BY <1>6, <1>7, <2>1, EachKept
  <2>3. o + 1 + n <= Len(points') /\ points'[o + 1] = RegisterCount(n)
    BY <1>8, <1>10, <1>11, <1>13
  <2> QED
    BY <1>8, <2>2, <2>3 DEF Whole
<1>15. ASSUME NEW d \in DOMAIN index \ {c}
       PROVE  Whole(points', Offset(d))
  <2>1. PICK b, k : b = Offset(d) /\ k = Cardinality(Register)
    OBVIOUS
  <2>2. /\ ClosedPoint(points, b, d) /\ b \in Nat /\ b < o /\ Whole(points, b)
    BY <1>5, <1>6, <2>1 DEF AInv, RegistersSaved
  <2>3. PICK m \in 0..Len(points) :
            PointIn(points, b, d, m) /\ points[b + 1] = RegisterCount(m % CountMod)
    BY <2>2 DEF ClosedPoint
  <2>4. points[b + 1] = RegisterCount(k) /\ b + 1 + k <= Len(points)
    BY <2>1, <2>2 DEF Whole
  <2>5. k = m % CountMod /\ k \in Nat /\ k <= m
    BY <2>1, <2>3, <2>4, Widths DEF RegisterCount
  <2>6. \A i \in (b + 2)..(b + 1 + k) : points[i][1] = "register"
    BY <2>2, <2>3, <2>5 DEF PointIn
  <2>7. \A i \in (b + 1)..(b + 1 + k) : i # q
    BY <1>6, <1>10, <1>11, <2>2, <2>5, <2>6
  <2>8. \A i \in (b + 1)..(b + 1 + k) : points'[i] = points[i]
    BY <1>3, <1>13, <2>2, <2>4, <2>5, <2>7
  <2> QED
    BY <1>3, <1>13, <2>1, <2>2, <2>8, WholeKept
<1>16. Recorded'
  BY <1>1 DEF AInv, Recorded
<1>17. PointsPlaced'
  BY <1>1, <1>4, <1>13 DEF AInv, PointsPlaced, IsCachePointStarted
<1>18. RegistersSaved'
  <2>1. \A d \in DOMAIN index : Whole(points', Offset(d))
    BY <1>5, <1>14, <1>15
  <2>2. \A d \in DOMAIN index : Offset(d)' = Offset(d)
    BY <1>4 DEF Offset
  <2> QED
    BY <1>4, <2>1, <2>2 DEF RegistersSaved, IsCachePointStarted
<1>19. PagesSaved'
  <2>1. c = Len(trace) /\ Len(trace) \in Nat
    BY <1>4, <1>5 DEF AInv, PointsPlaced, Recorded
  <2>2. ASSUME NEW b \in DOMAIN index, NEW k \in 1..b, NEW p \in trace[k] \intersect Page
        PROVE  \E d \in DOMAIN index :
                   k <= d /\ d <= b /\ HasPage(index[d].page_offsets, p)
    <3>1. CASE b = c
      <4>1. k \in 1..Len(trace)
        BY <2>1, <3>1
      <4>2. PICK d \in DOMAIN index : k <= d /\ HasPage(index[d].page_offsets, p)
        BY <1>1, <2>2, <4>1 DEF AInv, PagesSaved
      <4>3. d <= c
        BY <2>1 DEF AInv, PointsPlaced
      <4> QED
        BY <3>1, <4>2, <4>3
    <3>2. CASE b # c
      BY <1>5, <2>2, <3>2 DEF AInv, PagesSaved
    <3> QED
      BY <3>1, <3>2
  <2> QED
    BY <1>1, <1>4, <2>2 DEF AInv, PagesSaved
<1>20. Replaying' /\ ReplayExact'
  BY <1>1, <1>4, ReplayerWaits
<1> QED
  BY <1>2, <1>16, <1>17, <1>18, <1>19, <1>20 DEF AInv

LEMMA EndRecorded ==
    ASSUME AInv, RecordEnd
    PROVE  AInv'
<1>1. UNCHANGED <<trace, dirty, to_write, replayVars>>
  BY DEF RecordEnd, recorderVars
<1>2. /\ UNCHANGED <<points, index, current, current_reg_count>>
      /\ ~finalized \/ written_index # index
  <2>1. CASE ~IsCachePointStarted /\ FinalizePoints
    BY <2>1 DEF FinalizePoints, IsCachePointStarted
  <2>2. CASE WriteIndex
    BY <2>2 DEF WriteIndex
  <2> QED
    BY <2>1, <2>2 DEF RecordEnd
<1>3. IInv'
  <2>1. Next
    BY DEF RecordEnd, Next
  <2> QED
    BY <2>1, StepHolds DEF AInv
<1>4. Recorded' /\ PointsPlaced' /\ RegistersSaved' /\ PagesSaved'
  BY <1>1, <1>2
  DEF AInv, Recorded, PointsPlaced, RegistersSaved, PagesSaved, IsCachePointStarted, Offset
<1>5. Replaying' /\ ReplayExact'
  BY <1>1, <1>2, ReplayerWaits
<1> QED
  BY <1>3, <1>4, <1>5 DEF AInv

-----------------------------------------------------------------------------
(* The replayer's steps. *)

\* They leave the recorder and its cache alone.
LEMMA RecordStays ==
    ASSUME AInv, UNCHANGED <<vars, recorderVars>>
    PROVE  IInv' /\ Recorded' /\ PointsPlaced' /\ RegistersSaved' /\ PagesSaved'
<1>1. /\ UNCHANGED <<points, index, current, current_reg_count, finalized, written_index>>
      /\ UNCHANGED <<trace, dirty, to_write>>
  BY DEF vars, recorderVars
<1>2. IInv'
  BY UnchangedHolds DEF AInv
<1> QED
  BY <1>1, <1>2
  DEF AInv, Recorded, PointsPlaced, RegistersSaved, PagesSaved, IsCachePointStarted, Offset

LEMMA Requested ==
    ASSUME AInv, NEW context_id \in 1..Len(trace), Request(context_id)
    PROVE  AInv'
<1>1. /\ finalized /\ written_index = index /\ target' = context_id /\ called_back' = {}
      /\ UNCHANGED <<vars, recorderVars>>
  BY DEF Request
<1>2. /\ UNCHANGED <<points, index, current, current_reg_count, finalized, written_index>>
      /\ trace' = trace
  BY <1>1 DEF vars, recorderVars
<1>3. /\ \A d \in DOMAIN index : d \in 1..Len(trace) /\ index[d].trace_stream_offset = d
      /\ Len(trace) \in Nat /\ context_id \in Nat /\ context_id <= Len(trace)
  BY DEF AInv, PointsPlaced, Recorded
<1>4. PICK before : before = {d \in DOMAIN index : d < context_id}
  OBVIOUS
<1>5. PICK base : base = FindClosest(context_id)
  OBVIOUS
<1>6. base = IF before = {} THEN None ELSE Max(before)
  BY <1>1, <1>4, <1>5 DEF FindClosest
<1>7. ASSUME NEW reached \in Nat, reached < context_id,
             \A n \in (reached + 1)..(context_id - 1) : n \notin DOMAIN index,
             current_event_id' = reached, position' = reached,
             \A location \in Location : state'[location] = Version(location, reached)
      PROVE  Replaying' /\ ReplayExact'
  <2>1. CameFrom(reached)'
    <3>1. (reached + 1)..reached = {}
      OBVIOUS
    <3> QED
      BY <1>1, <1>2, <1>3, <1>7, <3>1 DEF CameFrom
  <2>2. Replaying'
    BY <1>1, <1>2, <1>3, <1>7, <2>1 DEF Replaying
  <2>3. \A location \in Location :
            Version(location, current_event_id)' = Version(location, reached)
    BY <1>2, <1>7 DEF Version
  <2>4. ReplayExact'
    BY <1>7, <2>3 DEF ReplayExact
  <2> QED
    BY <2>2, <2>4
<1>8. CASE before = {}
  <2>1. base = None
    BY <1>6, <1>8
  <2>2. /\ current_event_id' = 0 /\ position' = 0
        /\ state' = [location \in Location |-> 0]
    BY <1>5, <2>1 DEF Request, Seek
  <2>3. \A n \in (0 + 1)..(context_id - 1) : n \notin DOMAIN index
    BY <1>3, <1>4, <1>8
  <2>4. \A location \in Location : Version(location, 0) = 0
    BY VersionNone
  <2>5. 0 \in Nat /\ 0 < context_id
    OBVIOUS
  <2>6. Replaying' /\ ReplayExact'
    BY <1>7, <2>2, <2>3, <2>4, <2>5
  <2> QED
    BY <1>1, <2>6, RecordStays DEF AInv
<1>9. CASE before # {}
  <2>1. before \in SUBSET (0..context_id)
    BY <1>3, <1>4
  <2>2. base = Max(before)
    BY <1>6, <1>9
  <2>3. base \in before /\ \A d \in before : d <= base
    BY <1>3, <1>9, <2>1, <2>2, LargestExists
  <2>4. base \in DOMAIN index /\ base \in Nat /\ base < context_id /\ base # None
    BY <1>3, <1>4, <2>3 DEF None, NoPoint
  <2>5. /\ current_event_id' = base /\ position' = index[base].trace_stream_offset
        /\ state' = StateAt(base)
    BY <1>1, <1>5, <2>4 DEF Request, Seek
  <2>6. position' = base
    BY <1>3, <2>4, <2>5
  <2>7. \A location \in Location : state'[location] = Version(location, base)
    BY <1>1, <2>4, <2>5, StateFrom
  <2>8. ASSUME NEW n \in (base + 1)..(context_id - 1)
        PROVE  n \notin DOMAIN index
    <3>1. n < context_id /\ ~(n <= base)
      BY <1>3, <2>4
    <3> QED
      BY <1>4, <2>3, <3>1
  <2>9. Replaying' /\ ReplayExact'
    BY <1>7, <2>4, <2>5, <2>6, <2>7, <2>8
  <2> QED
    BY <1>1, <2>9, RecordStays DEF AInv
<1> QED
  BY <1>8, <1>9

LEMMA EventReplayed ==
    ASSUME AInv, ReplayEvent
    PROVE  AInv'
<1>1. /\ current_event_id # target /\ current_event_id < Len(trace)
      /\ state' = [location \in Location |->
                      IF location \in trace[position + 1] THEN position + 1
                      ELSE state[location]]
      /\ called_back' = called_back \union {position + 1}
      /\ current_event_id' = current_event_id + 1 /\ position' = position + 1
      /\ UNCHANGED <<vars, recorderVars>> /\ target' = target
  BY DEF ReplayEvent
<1>2. /\ UNCHANGED <<points, index, current, current_reg_count, finalized, written_index>>
      /\ trace' = trace
  BY <1>1 DEF vars, recorderVars
<1>3. /\ current_event_id \in Nat /\ target \in Nat /\ current_event_id < target
      /\ target <= Len(trace) /\ position = current_event_id
      /\ \A location \in Location : state[location] = Version(location, current_event_id)
  BY <1>1 DEF AInv, Replaying, ReplayExact
<1>4. target # 0
  BY <1>3
<1>5. PICK base \in Nat : CameFrom(base)
  BY <1>4 DEF AInv, Replaying
<1>6. CameFrom(base)'
  <2>1. called_back = (base + 1)..current_event_id /\ base <= current_event_id
    BY <1>5 DEF CameFrom
  <2>2. called_back' = (base + 1)..(current_event_id + 1)
    BY <1>1, <1>3, <2>1
  <2>3. base <= current_event_id + 1
    BY <1>3, <2>1
  <2> QED
    BY <1>1, <1>2, <1>5, <2>2, <2>3 DEF CameFrom
<1>7. Replaying'
  <2>1. finalized /\ written_index = index
    BY <1>4 DEF AInv, Replaying
  <2> QED
    BY <1>1, <1>2, <1>3, <1>6, <2>1 DEF Replaying
<1>8. ReplayExact'
  <2>1. PICK m : m = current_event_id
    OBVIOUS
  <2>2. ASSUME NEW location \in Location
        PROVE  state'[location] = Version(location, m + 1)
    <3>1. m \in Nat
      BY <1>3, <2>1
    <3>2. Version(location, m + 1)
            = IF location \in trace[m + 1] THEN m + 1 ELSE Version(location, m)
      BY <3>1, VersionNext
    <3> QED
      BY <1>1, <1>3, <2>1, <3>2
  <2>3. \A location : Version(location, current_event_id)' = Version(location, m + 1)
    BY <1>1, <1>2, <2>1 DEF Version
  <2> QED
    BY <1>1, <1>3, <2>2, <2>3 DEF ReplayExact
<1> QED
  BY <1>1, <1>7, <1>8, RecordStays DEF AInv

LEMMA AccessHolds ==
    ASSUME AInv, NextAccess
    PROVE  AInv'
BY EventRecorded, PointRecorded, RegisterRecorded, PageRecorded, PointDoneRecorded,
   EndRecorded, Requested, EventReplayed DEF NextAccess

LEMMA AccessStutters ==
    ASSUME AInv, UNCHANGED allVars
    PROVE  AInv'
<1>1. /\ UNCHANGED <<vars, recorderVars>>
      /\ UNCHANGED <<target, current_event_id, position, state, called_back, trace>>
      /\ UNCHANGED <<index, finalized, written_index>>
  BY DEF allVars, recorderVars, replayVars, vars
<1>2. Replaying'
  BY <1>1 DEF AInv, Replaying, CameFrom
<1>3. ReplayExact'
  BY <1>1 DEF AInv, ReplayExact, Version
<1> QED
  BY <1>1, <1>2, <1>3, RecordStays DEF AInv

-----------------------------------------------------------------------------
\* What a cache holds of a trace, and where a replayer is on its way: the invariant
\* the two theorems below follow from.
THEOREM AccessInvariance == SpecAccess => []AInv
<1>1. InitAccess => AInv
  BY InitAccessHolds
<1>2. AInv /\ [NextAccess]_allVars => AInv'
  BY AccessHolds, AccessStutters
<1> QED
  BY <1>1, <1>2, PTL DEF SpecAccess

\* From whatever cache points there are, in whatever order contexts are asked for, a
\* replayer has at each context the registers and pages that reading the trace from
\* its beginning gives, and the reader counts the event it stands at.
THEOREM ReplayedExactly == SpecAccess => []ReplayExact
<1>1. AInv => ReplayExact
  BY DEF AInv
<1> QED
  BY <1>1, AccessInvariance, PTL

\* The event that leads to the target is called back, and the cache point replay
\* starts from is the closest before the target.
THEOREM ClosestTaken == SpecAccess => []ReplaysFromClosest
<1>1. ASSUME AInv, target # 0
      PROVE  /\ current_event_id = target => target \in called_back
             /\ \A n \in called_back :
                   n # Min(called_back) => n - 1 \notin DOMAIN written_index
  <2>1. /\ target \in Nat /\ current_event_id \in Nat /\ current_event_id <= target
        /\ written_index = index
    BY <1>1 DEF AInv, Replaying
  <2>2. PICK base \in Nat : CameFrom(base)
    BY <1>1 DEF AInv, Replaying
  <2>3. /\ base < target /\ base <= current_event_id
        /\ called_back = (base + 1)..current_event_id
        /\ \A n \in (base + 1)..(target - 1) : n \notin DOMAIN index
    BY <2>2 DEF CameFrom
  <2>4. current_event_id = target => target \in called_back
    BY <2>1, <2>3
  <2>5. ASSUME NEW n \in called_back, n # Min(called_back)
        PROVE  n - 1 \notin DOMAIN written_index
    <3>1. base + 1 \in called_back /\ \A x \in called_back : base + 1 <= x /\ x \in Nat
      BY <2>1, <2>3
    <3>2. \A x \in called_back : (\A y \in called_back : x <= y) => x = base + 1
      BY <3>1
    <3>3. Min(called_back) = base + 1
      BY <3>1, <3>2 DEF Min
    <3>4. n - 1 \in (base + 1)..(target - 1)
      BY <2>1, <2>3, <2>5, <3>1, <3>3
    <3> QED
      BY <2>1, <2>3, <3>4
  <2> QED
    BY <2>4, <2>5
<1>2. AInv => ReplaysFromClosest
  BY <1>1 DEF ReplaysFromClosest
<1> QED
  BY <1>2, AccessInvariance, PTL

=============================================================================
