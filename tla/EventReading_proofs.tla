------------------------ MODULE EventReading_proofs ------------------------
(***************************************************************************)
(* Proof that reading an events section gives back what was recorded: of a  *)
(* trace whose recorder was never refused half-way, TraceReader decodes     *)
(* every field as what it is, delivers the effects of an event in order,    *)
(* stands where the recorder stood, and together with the writer            *)
(* implements EventLog.  For every width of counts and bytes, every         *)
(* machine, any number of events and of continuation blocks.                *)
(*                                                                          *)
(* What the writer has made of an event is described by a path: the states  *)
(* the reader will go through between the callbacks.                        *)
(***************************************************************************)
EXTENDS EventTrace_proofs, SequenceTheorems

Effects == {"instruction", "other", "memory", "register", "operation"} \X Nat \X Nat

\* A place in an event: how many fields of the section lie before it, the index
\* of the diff of its block, the writes of the block and the effects of the
\* event that lie before it.
Places == [at : Nat, block : Nat, mem : Nat, reg : Nat, seen : Seq(Effects)]

\* The block that is being written, whose counts are not in its diff yet.
OpenBlocks == [block : Nat, mem : Nat, reg : Nat]
NoneOpen == [block |-> 0, mem |-> 0, reg |-> 0]

MemOf(s, c, i) == IF i = c.block THEN c.mem ELSE Announced(s[i][2])
RegOf(s, c, i) == IF i = c.block THEN c.reg ELSE Announced(s[i][3])
More(s, i) == Full \in {s[i][2], s[i][3]}

\* The fields t stand in s behind the first at.
Stored(s, at, t) ==
    /\ at + Len(t) <= Len(s)
    /\ \A i \in 1..Len(t) : s[at + i] = t[i]

\* The fields t are a complete write with the effect x.
MemoryWritten(t, x) ==
    \E address, size \in Nat :
        /\ AddressFits(address) /\ SizeFits(size)
        /\ t = MemoryFields(address, size)
        /\ x = MemoryEffect(address, size)
RegisterWritten(t, x) ==
    \/ \E id \in Register : t = RegisterFields(id) /\ x = RegisterEffect(id)
    \/ \E id \in Operation : t = <<Id(id)>> /\ x = OperationEffect(id)

Passed(s, a, b, t, x) ==
    /\ Stored(s, a.at, t)
    /\ b.at = a.at + Len(t) /\ b.block = a.block
    /\ b.seen = a.seen \o x

MemoryBetween(s, c, a, b) ==
    \E t, x :
        /\ MemoryWritten(t, x) /\ Passed(s, a, b, t, x)
        /\ a.mem < MemOf(s, c, a.block)
        /\ b.mem = a.mem + 1 /\ b.reg = a.reg
RegisterBetween(s, c, a, b) ==
    \E t, x :
        /\ RegisterWritten(t, x) /\ Passed(s, a, b, t, x)
        /\ a.mem = MemOf(s, c, a.block)
        /\ a.reg < RegOf(s, c, a.block)
        /\ b.mem = a.mem /\ b.reg = a.reg + 1
IsPlainDiff(f) == f[1] = "diff" /\ f # NotInstruction
DiffBetween(s, c, a, b) ==
    /\ a.block # c.block
    /\ a.mem = MemOf(s, c, a.block) /\ a.reg = RegOf(s, c, a.block)
    /\ More(s, a.block)
    /\ a.at + 1 <= Len(s) /\ IsPlainDiff(s[a.at + 1])
    /\ b.at = a.at + 1 /\ b.block = a.at + 1
    /\ b.mem = 0 /\ b.reg = 0 /\ b.seen = a.seen
Between(s, c, a, b) ==
    MemoryBetween(s, c, a, b) \/ RegisterBetween(s, c, a, b) \/ DiffBetween(s, c, a, b)

\* The head of an event behind from, and the place behind it.
BehindHead(s, from, a) ==
    /\ a.block = a.at /\ a.mem = 0 /\ a.reg = 0
    /\ a.at <= Len(s)
    /\ \/ /\ a.at = from + 1 /\ IsPlainDiff(s[from + 1])
          /\ a.seen = <<Instruction>>
       \/ \E length \in Nat :
             /\ Stored(s, from, <<NotInstruction, OtherType, Text(length)>>)
             /\ a.at = from + 4 /\ IsPlainDiff(s[from + 4])
             /\ a.seen = <<Other(length)>>

\* A place between from and to, where a part of the effects was seen.
Within(from, to, effects, a) ==
    /\ a.block \in (from + 1)..a.at /\ a.at <= to
    /\ Len(a.seen) <= Len(effects) /\ SubSeq(effects, 1, Len(a.seen)) = a.seen

\* The places the reader goes through from the head of an event on.
Path(s, c, from, to, effects, p) ==
    /\ p \in Seq(Places) /\ Len(p) > 0
    /\ to <= Len(s)
    /\ BehindHead(s, from, p[1])
    /\ \A k \in 1..Len(p) : Within(from, to, effects, p[k])
    /\ \A k \in 1..(Len(p) - 1) : Between(s, c, p[k], p[k + 1])

\* The place behind all the writes of the block, and all the effects.
Complete(s, c, to, effects, a) ==
    /\ a.at = to /\ a.seen = effects
    /\ a.mem = MemOf(s, c, a.block) /\ a.reg = RegOf(s, c, a.block)

\* A finished event, and one that is being written.
Recorded(s, from, to, effects) ==
    \E p : /\ Path(s, NoneOpen, from, to, effects, p)
           /\ Complete(s, NoneOpen, to, effects, p[Len(p)])
           /\ ~More(s, p[Len(p)].block)
Recording(s, c, from, effects) ==
    \E p : /\ Path(s, c, from, Len(s), effects, p)
           /\ Complete(s, c, Len(s), effects, p[Len(p)])
           /\ p[Len(p)].block = c.block

-----------------------------------------------------------------------------
(* Paths stay paths.                                                        *)

\* s2 has the fields of s, and more, but for its first and for diffs.
Agrees(s, s2) ==
    /\ s \in Seq(Fields) /\ s2 \in Seq(Fields) /\ Len(s) <= Len(s2)
    /\ \A i \in 2..Len(s) : s2[i] = s[i] \/ (IsPlainDiff(s[i]) /\ IsPlainDiff(s2[i]))

\* A block that was closed stays as it is; the open one gets more writes, and
\* memory writes only while there is no register write.
CountsAgree(s, c, s2, c2, i) ==
    /\ MemOf(s, c, i) <= MemOf(s2, c2, i) /\ RegOf(s, c, i) <= RegOf(s2, c2, i)
    /\ MemOf(s, c, i) = MemOf(s2, c2, i) \/ RegOf(s, c, i) = 0
    /\ i # c.block => /\ i # c2.block /\ More(s2, i) = More(s, i)
                      /\ MemOf(s, c, i) = MemOf(s2, c2, i)
                      /\ RegOf(s, c, i) = RegOf(s2, c2, i)

\* The counts of a block are numbers, whether patched or still in the object.
LEMMA CountsTyped ==
    ASSUME NEW s \in Seq(Fields), NEW c \in OpenBlocks, NEW i \in 1..Len(s)
    PROVE  MemOf(s, c, i) \in Int /\ RegOf(s, c, i) \in Int
<1>1. s[i] \in Fields
  BY ElementOfSeq
<1>2. s[i][2] \in Nat /\ s[i][3] \in Nat
  BY <1>1 DEF Fields
<1>3. c.mem \in Nat /\ c.reg \in Nat
  BY DEF OpenBlocks
<1> QED
  BY <1>2, <1>3, WidthAssumption DEF MemOf, RegOf, Announced

\* Complete writes are fields, none of them a diff.
LEMMA WrittenPlain ==
    ASSUME NEW t, NEW x, MemoryWritten(t, x) \/ RegisterWritten(t, x)
    PROVE  /\ t \in Seq(Fields) /\ Len(t) > 0
           /\ \A i \in 1..Len(t) : t[i][1] # "diff"
           /\ x \in Seq(Effects)
<1> DEFINE Plain == {f \in Fields : f[1] # "diff"}
<1>1. \A kind \in {"type", "string", "address", "size", "wide size", "bytes",
                   "id", "wide id", "content"}, k \in Nat :
          <<kind, k, 0>> \in Plain
  BY DEF Fields
<1>2. Escape \in Nat
  BY WidthAssumption
<1>3. ASSUME t \in Seq(Plain)
      PROVE  t \in Seq(Fields) /\ \A i \in 1..Len(t) : t[i][1] # "diff"
  BY <1>3
<1>4. ASSUME MemoryWritten(t, x)
      PROVE  t \in Seq(Plain) /\ Len(t) > 0 /\ x \in Seq(Effects)
  <2>1. PICK address \in Nat, size \in Nat :
           /\ AddressFits(address) /\ SizeFits(size)
           /\ t = MemoryFields(address, size) /\ x = MemoryEffect(address, size)
    BY <1>4 DEF MemoryWritten
  <2>2. /\ Address(address) \in Plain /\ Size(size) \in Plain /\ Size(Escape) \in Plain
        /\ WideSize(size) \in Plain /\ Bytes(size) \in Plain
    BY <1>1, <1>2 DEF Address, Size, WideSize, Bytes
  <2> HIDE DEF Plain
  <2>5. <<"memory", address, size>> \in Effects
    BY DEF Effects
  <2>6. x \in Seq(Effects)
    BY <2>1, <2>5 DEF MemoryEffect
  <2>7. t \in Seq(Plain) /\ Len(t) > 0
    <3>1. CASE size < Escape
      <4>1. t = <<Address(address), Size(size), Bytes(size)>>
        BY <1>2, <2>1, <3>1 DEF MemoryFields
      <4> QED
        BY <2>2, <4>1
    <3>2. CASE ~(size < Escape)
      <4>1. t = <<Address(address), Size(Escape), WideSize(size), Bytes(size)>>
        BY <1>2, <2>1, <3>2 DEF MemoryFields
      <4> QED
        BY <2>2, <4>1
    <3> QED
      BY <3>1, <3>2
  <2> QED
    BY <2>6, <2>7
<1>5. ASSUME RegisterWritten(t, x)
      PROVE  t \in Seq(Plain) /\ Len(t) > 0 /\ x \in Seq(Effects)
  <2>1. \A id \in Nat : /\ Id(id) \in Plain /\ WideId(id) \in Plain
                        /\ Content(id) \in Plain
                        /\ <<"register", id, 0>> \in Effects
                        /\ <<"operation", id, 0>> \in Effects
    BY <1>1 DEF Id, WideId, Content, Effects
  <2>2. Register \subseteq Nat /\ Operation \subseteq Nat
    BY IdAssumption, WidthAssumption
  <2> HIDE DEF Plain
  <2>3. ASSUME NEW id \in Register, t = RegisterFields(id), x = RegisterEffect(id)
        PROVE  t \in Seq(Plain) /\ Len(t) > 0 /\ x \in Seq(Effects)
    <3>1. /\ Id(id) \in Plain /\ WideId(id) \in Plain /\ Content(id) \in Plain
          /\ Id(Escape) \in Plain /\ <<"register", id, 0>> \in Effects
      BY <1>2, <2>1, <2>2
    <3>2. x = << <<"register", id, 0>> >>
      BY <2>3 DEF RegisterEffect
    <3>3. CASE id < Escape
      <4>1. t = <<Id(id), Content(id)>>
        BY <2>3, <3>3 DEF RegisterFields
      <4> QED
        BY <3>1, <3>2, <4>1
    <3>4. CASE ~(id < Escape)
      <4>1. t = <<Id(Escape), WideId(id), Content(id)>>
        BY <2>3, <3>4 DEF RegisterFields
      <4> QED
        BY <3>1, <3>2, <4>1
    <3> QED
      BY <3>3, <3>4
  <2>4. ASSUME NEW id \in Operation, t = <<Id(id)>>, x = OperationEffect(id)
        PROVE  t \in Seq(Plain) /\ Len(t) > 0 /\ x \in Seq(Effects)
    <3>1. Id(id) \in Plain /\ <<"operation", id, 0>> \in Effects
      BY <2>1, <2>2
    <3>2. x = << <<"operation", id, 0>> >>
      BY <2>4 DEF OperationEffect
    <3> QED
      BY <2>4, <3>1, <3>2
  <2> QED
    BY <1>5, <2>3, <2>4 DEF RegisterWritten
<1> QED
  BY <1>3, <1>4, <1>5

\* No field of a complete write is lost when a diff is patched.
LEMMA StoredKept ==
    ASSUME NEW s, NEW s2, Agrees(s, s2), NEW at \in Nat \ {0}, NEW t, NEW x,
           MemoryWritten(t, x) \/ RegisterWritten(t, x),
           Stored(s, at, t)
    PROVE  Stored(s2, at, t)
<1>1. /\ t \in Seq(Fields) /\ Len(t) \in Nat
      /\ \A i \in 1..Len(t) : t[i][1] # "diff"
  BY WrittenPlain
<1>2. s \in Seq(Fields) /\ s2 \in Seq(Fields) /\ Len(s) <= Len(s2)
  BY DEF Agrees
<1>3. at + Len(t) <= Len(s2)
  BY <1>1, <1>2 DEF Stored
<1>4. ASSUME NEW i \in 1..Len(t)
      PROVE  s2[at + i] = t[i]
  <2>1. at + i \in 2..Len(s) /\ s[at + i] = t[i]
    BY <1>1, <1>2 DEF Stored
  <2> QED
    BY <1>1, <2>1 DEF Agrees, IsPlainDiff
<1> QED
  BY <1>3, <1>4 DEF Stored

\* What the reader does between two places, it does in the changed section too.
LEMMA BetweenKept ==
    ASSUME NEW s, NEW s2, Agrees(s, s2), NEW c \in OpenBlocks, NEW c2 \in OpenBlocks,
           NEW a \in Places, NEW b \in Places,
           a.at > 0, a.at <= Len(s), a.block \in 1..a.at,
           CountsAgree(s, c, s2, c2, a.block), Between(s, c, a, b)
    PROVE  Between(s2, c2, a, b)
<1>1. /\ a.at \in Nat \ {0} /\ a.mem \in Nat /\ a.reg \in Nat /\ a.block \in Nat
      /\ s \in Seq(Fields) /\ s2 \in Seq(Fields) /\ Len(s) <= Len(s2)
      /\ Len(s) \in Nat /\ Len(s2) \in Nat
  BY LenProperties DEF Places, Agrees
<1>2. PICK m \in Int, r \in Int, m2 \in Int, r2 \in Int :
         /\ m = MemOf(s, c, a.block) /\ r = RegOf(s, c, a.block)
         /\ m2 = MemOf(s2, c2, a.block) /\ r2 = RegOf(s2, c2, a.block)
  <2>1. a.block \in 1..Len(s) /\ a.block \in 1..Len(s2)
    BY <1>1
  <2> QED
    BY <1>1, <2>1, CountsTyped
<1>3. /\ m <= m2 /\ r <= r2 /\ (m = m2 \/ r = 0)
      /\ a.block # c.block => /\ a.block # c2.block /\ More(s2, a.block) = More(s, a.block)
                              /\ m = m2 /\ r = r2
  BY <1>2 DEF CountsAgree
<1>4. CASE MemoryBetween(s, c, a, b)
  <2>1. PICK t, x : /\ MemoryWritten(t, x) /\ Passed(s, a, b, t, x)
                    /\ a.mem < m /\ b.mem = a.mem + 1 /\ b.reg = a.reg
    BY <1>2, <1>4 DEF MemoryBetween
  <2>2. Passed(s2, a, b, t, x)
    BY <1>1, <2>1, StoredKept DEF Passed
  <2>3. a.mem < m2
    BY <1>1, <1>3, <2>1
  <2>4. MemoryBetween(s2, c2, a, b)
    BY <1>2, <2>1, <2>2, <2>3 DEF MemoryBetween
  <2> QED
    BY <2>4 DEF Between
<1>5. CASE RegisterBetween(s, c, a, b)
  <2>1. PICK t, x : /\ RegisterWritten(t, x) /\ Passed(s, a, b, t, x)
                    /\ a.mem = m /\ a.reg < r /\ b.mem = a.mem /\ b.reg = a.reg + 1
    BY <1>2, <1>5 DEF RegisterBetween
  <2>2. Passed(s2, a, b, t, x)
    BY <1>1, <2>1, StoredKept DEF Passed
  <2>3. a.mem = m2 /\ a.reg < r2
    BY <1>1, <1>3, <2>1
  <2>4. RegisterBetween(s2, c2, a, b)
    BY <1>2, <2>1, <2>2, <2>3 DEF RegisterBetween
  <2> QED
    BY <2>4 DEF Between
<1>6. CASE DiffBetween(s, c, a, b)
  <2>1. /\ a.block # c.block /\ a.mem = m /\ a.reg = r /\ More(s, a.block)
        /\ a.at + 1 <= Len(s) /\ IsPlainDiff(s[a.at + 1])
        /\ b.at = a.at + 1 /\ b.block = a.at + 1
        /\ b.mem = 0 /\ b.reg = 0 /\ b.seen = a.seen
    BY <1>2, <1>6 DEF DiffBetween
  <2>2. a.at + 1 \in 2..Len(s) /\ a.at + 1 <= Len(s2)
    BY <1>1, <2>1
  <2>3. IsPlainDiff(s2[a.at + 1])
    BY <2>1, <2>2 DEF Agrees
  <2>4. DiffBetween(s2, c2, a, b)
    BY <1>2, <1>3, <2>1, <2>2, <2>3 DEF DiffBetween
  <2> QED
    BY <2>4 DEF Between
<1> QED
  BY <1>4, <1>5, <1>6 DEF Between

\* The head of an event stays a head, when its diff is patched.
LEMMA HeadKept ==
    ASSUME NEW s, NEW s2, Agrees(s, s2), NEW from \in Nat \ {0}, NEW a \in Places,
           BehindHead(s, from, a)
    PROVE  BehindHead(s2, from, a)
<1>1. /\ s \in Seq(Fields) /\ s2 \in Seq(Fields) /\ Len(s) <= Len(s2)
      /\ Len(s) \in Nat /\ Len(s2) \in Nat /\ a.at \in Nat
  BY LenProperties DEF Places, Agrees
<1>2. a.block = a.at /\ a.mem = 0 /\ a.reg = 0 /\ a.at <= Len(s) /\ a.at <= Len(s2)
  BY <1>1 DEF BehindHead
<1>3. CASE a.at = from + 1 /\ IsPlainDiff(s[from + 1]) /\ a.seen = <<Instruction>>
  <2>1. from + 1 \in 2..Len(s)
    BY <1>1, <1>2, <1>3
  <2>2. IsPlainDiff(s2[from + 1])
    BY <1>3, <2>1 DEF Agrees
  <2> QED
    BY <1>2, <1>3, <2>2 DEF BehindHead
<1>4. ASSUME NEW length \in Nat,
             Stored(s, from, <<NotInstruction, OtherType, Text(length)>>),
             a.at = from + 4, IsPlainDiff(s[from + 4]), a.seen = <<Other(length)>>
      PROVE  BehindHead(s2, from, a)
  <2> DEFINE t == <<NotInstruction, OtherType, Text(length)>>
  <2>1. from + 4 \in 2..Len(s)
    BY <1>1, <1>2, <1>4
  <2>2. IsPlainDiff(s2[from + 4])
    BY <1>4, <2>1 DEF Agrees
  <2>3. /\ Len(t) = 3
        /\ \A i \in 1..3 : ~IsPlainDiff(t[i])
    BY DEF IsPlainDiff, NotInstruction, OtherType, Text, Diff
  <2> HIDE DEF t
  <2>4. ASSUME NEW i \in 1..3 PROVE s2[from + i] = t[i]
    <3>1. from + i \in 2..Len(s) /\ s[from + i] = t[i]
      BY <1>1, <1>4, <2>1, <2>3 DEF Stored, t
    <3> QED
      BY <2>3, <3>1 DEF Agrees
  <2>5. Stored(s2, from, t)
    BY <1>1, <2>1, <2>3, <2>4 DEF Stored
  <2> QED
    BY <1>2, <1>4, <2>2, <2>5 DEF BehindHead, t
<1> QED
  BY <1>3, <1>4 DEF BehindHead

\* A path of a section is a path of what it becomes: nothing but diffs changed,
\* and the effects may have become more.
LEMMA PathKept ==
    ASSUME NEW s, NEW s2, Agrees(s, s2), NEW c \in OpenBlocks, NEW c2 \in OpenBlocks,
           NEW from \in Nat \ {0}, NEW to \in Nat, NEW to2 \in Nat,
           to <= to2, to2 <= Len(s2),
           NEW e \in Seq(Effects), NEW x \in Seq(Effects), NEW p,
           \A i \in (from + 1)..to : CountsAgree(s, c, s2, c2, i),
           Path(s, c, from, to, e, p)
    PROVE  Path(s2, c2, from, to2, e \o x, p)
<1>1. /\ p \in Seq(Places) /\ Len(p) \in Nat /\ Len(p) > 0 /\ to <= Len(s)
      /\ Len(s) \in Nat
  BY LenProperties DEF Path, Agrees
<1>2. BehindHead(s2, from, p[1])
  BY <1>1, HeadKept DEF Path
<1>3. ASSUME NEW k \in 1..Len(p)
      PROVE  /\ p[k] \in Places /\ p[k].at \in Nat \ {0} /\ p[k].at <= Len(s)
             /\ p[k].block \in (from + 1)..to /\ p[k].block \in 1..p[k].at
             /\ Within(from, to2, e \o x, p[k])
  <2>1. p[k] \in Places
    BY <1>1, ElementOfSeq
  <2>2. PICK at \in Nat, blk \in Nat, sn \in Seq(Effects) :
           at = p[k].at /\ blk = p[k].block /\ sn = p[k].seen
    BY <2>1 DEF Places
  <2>3. /\ blk \in (from + 1)..at /\ at <= to
        /\ Len(sn) <= Len(e) /\ SubSeq(e, 1, Len(sn)) = sn
    BY <2>2 DEF Path, Within
  <2>4. /\ Len(sn) <= Len(e \o x) /\ SubSeq(e \o x, 1, Len(sn)) = sn
    <3>1. /\ Len(e \o x) = Len(e) + Len(x) /\ Len(e) \in Nat /\ Len(x) \in Nat
          /\ Len(sn) \in Nat /\ e \o x \in Seq(Effects)
      BY LenProperties, ConcatProperties
    <3>2. CASE Len(sn) = 0
      <4>1. sn = <<>>
        BY <3>2, EmptySeq
      <4>2. SubSeq(e \o x, 1, 0) = <<>>
        BY SubSeqEmpty
      <4> QED
        BY <3>1, <3>2, <4>1, <4>2
    <3>3. CASE Len(sn) > 0
      <4>1. Len(sn) \in 1..Len(e) /\ 1 \in 1..Len(e)
        BY <2>3, <3>1, <3>3
      <4>2. SubSeq(e \o x, 1, Len(sn)) = SubSeq(e, 1, Len(sn))
        BY <4>1, SubSeqOfConcat1
      <4> QED
        BY <2>3, <3>1, <4>2
    <3> QED
      BY <3>1, <3>2, <3>3
  <2>5. /\ at \in Nat \ {0} /\ at <= Len(s) /\ blk \in (from + 1)..to /\ blk \in 1..at
        /\ at <= to2
    BY <1>1, <2>3
  <2> QED
    BY <2>1, <2>2, <2>3, <2>4, <2>5 DEF Within
<1>4. ASSUME NEW k \in 1..(Len(p) - 1)
      PROVE  Between(s2, c2, p[k], p[k + 1])
  <2>1. k \in 1..Len(p) /\ k + 1 \in 1..Len(p)
    BY <1>1
  <2>2. PICK a \in Places, b \in Places : a = p[k] /\ b = p[k + 1]
    BY <1>3, <2>1
  <2>3. /\ a.at > 0 /\ a.at <= Len(s) /\ a.block \in (from + 1)..to
        /\ a.block \in 1..a.at
    BY <1>3, <2>1, <2>2
  <2>4. CountsAgree(s, c, s2, c2, a.block)
    BY <2>3
  <2>5. Between(s, c, a, b)
    BY <2>2 DEF Path
  <2>6. Between(s2, c2, a, b)
    BY <2>3, <2>4, <2>5, BetweenKept
  <2> QED
    BY <2>2, <2>6
<1> QED
  BY <1>1, <1>2, <1>3, <1>4 DEF Path

\* A path goes on by what the reader may do at its end.
LEMMA PathExtends ==
    ASSUME NEW s, NEW c, NEW from, NEW to, NEW e, NEW p, Path(s, c, from, to, e, p),
           NEW b \in Places, Within(from, to, e, b), Between(s, c, p[Len(p)], b)
    PROVE  Path(s, c, from, to, e, Append(p, b))
<1>1. p \in Seq(Places) /\ Len(p) \in Nat /\ Len(p) > 0
  BY LenProperties DEF Path
<1>2. PICK q : q = Append(p, b)
  OBVIOUS
<1>3. /\ q \in Seq(Places) /\ Len(q) = Len(p) + 1 /\ q[Len(p) + 1] = b
      /\ \A k \in 1..Len(p) : q[k] = p[k]
  BY <1>1, <1>2, AppendProperties
<1>4. BehindHead(s, from, q[1]) /\ to <= Len(s)
  BY <1>1, <1>3 DEF Path
<1>5. ASSUME NEW k \in 1..Len(q) PROVE Within(from, to, e, q[k])
  <2>1. CASE k = Len(p) + 1
    BY <1>3, <2>1
  <2>2. CASE k # Len(p) + 1
    <3>1. k \in 1..Len(p)
      BY <1>1, <1>3, <2>2
    <3> QED
      BY <1>3, <3>1 DEF Path
  <2> QED
    BY <2>1, <2>2
<1>6. ASSUME NEW k \in 1..(Len(q) - 1) PROVE Between(s, c, q[k], q[k + 1])
  <2>1. CASE k = Len(p)
    <3>1. q[k] = p[Len(p)] /\ q[k + 1] = b
      BY <1>1, <1>3, <2>1
    <3> QED
      BY <3>1
  <2>2. CASE k # Len(p)
    <3>1. k \in 1..(Len(p) - 1) /\ k \in 1..Len(p) /\ k + 1 \in 1..Len(p)
      BY <1>1, <1>3, <2>2
    <3>2. q[k] = p[k] /\ q[k + 1] = p[k + 1]
      BY <1>3, <3>1
    <3>3. Between(s, c, p[k], p[k + 1])
      BY <3>1 DEF Path
    <3> QED
      BY <3>2, <3>3
  <2> QED
    BY <2>1, <2>2
<1>7. Path(s, c, from, to, e, q)
  BY <1>1, <1>3, <1>4, <1>5, <1>6 DEF Path
<1> QED
  BY <1>2, <1>7

\* The end of an event that is being written, as numbers and a sequence.
LEMMA EndTyped ==
    ASSUME NEW s \in Seq(Fields), NEW c \in OpenBlocks, NEW from \in Nat \ {0},
           NEW e \in Seq(Effects), NEW p, Path(s, c, from, Len(s), e, p),
           Complete(s, c, Len(s), e, p[Len(p)]), p[Len(p)].block = c.block
    PROVE  /\ p[Len(p)] \in Places
           /\ p[Len(p)] = [at |-> Len(s), block |-> c.block, mem |-> c.mem,
                           reg |-> c.reg, seen |-> e]
           /\ c.block \in (from + 1)..Len(s) /\ c.block > 1
<1>1. p \in Seq(Places) /\ Len(p) \in Nat /\ Len(p) > 0 /\ Len(p) \in 1..Len(p)
  BY LenProperties DEF Path
<1>2. PICK a : a = p[Len(p)]
  OBVIOUS
<1>3. a \in Places
  BY <1>1, <1>2, ElementOfSeq
<1>4. a.at = Len(s) /\ a.seen = e /\ a.mem = c.mem /\ a.reg = c.reg /\ a.block = c.block
  BY <1>2 DEF Complete, MemOf, RegOf
<1>5. a = [at |-> a.at, block |-> a.block, mem |-> a.mem, reg |-> a.reg, seen |-> a.seen]
  BY <1>3 DEF Places
<1>6. Within(from, Len(s), e, a)
  BY <1>1, <1>2 DEF Path
<1>7. c.block \in (from + 1)..Len(s)
  BY <1>4, <1>6 DEF Within
<1> QED
  BY <1>2, <1>3, <1>4, <1>5, <1>7

\* What was recorded stays recorded, as long as its diffs stay.
LEMMA RecordedKept ==
    ASSUME NEW s, NEW s2, Agrees(s, s2), NEW from \in Nat \ {0}, NEW to \in Nat,
           to <= Len(s), NEW e \in Seq(Effects),
           \A i \in 2..to : s2[i] = s[i], Recorded(s, from, to, e)
    PROVE  Recorded(s2, from, to, e)
<1>1. PICK p : /\ Path(s, NoneOpen, from, to, e, p)
               /\ Complete(s, NoneOpen, to, e, p[Len(p)])
               /\ ~More(s, p[Len(p)].block)
  BY DEF Recorded
<1>2. NoneOpen \in OpenBlocks /\ NoneOpen.block = 0
  BY DEF NoneOpen, OpenBlocks
<1>3. /\ s \in Seq(Fields) /\ s2 \in Seq(Fields) /\ Len(s) \in Nat /\ Len(s2) \in Nat
      /\ to <= Len(s2)
  BY LenProperties DEF Agrees
<1>4. ASSUME NEW i \in (from + 1)..to
      PROVE  /\ CountsAgree(s, NoneOpen, s2, NoneOpen, i)
             /\ MemOf(s2, NoneOpen, i) = MemOf(s, NoneOpen, i)
             /\ RegOf(s2, NoneOpen, i) = RegOf(s, NoneOpen, i)
             /\ More(s2, i) = More(s, i)
  <2>1. s2[i] = s[i] /\ i # 0 /\ i \in 1..Len(s)
    BY <1>3
  <2>2. /\ MemOf(s2, NoneOpen, i) = MemOf(s, NoneOpen, i)
        /\ RegOf(s2, NoneOpen, i) = RegOf(s, NoneOpen, i)
        /\ More(s2, i) = More(s, i)
    BY <2>1 DEF MemOf, RegOf, More
  <2>3. MemOf(s, NoneOpen, i) \in Int /\ RegOf(s, NoneOpen, i) \in Int
    BY <1>2, <1>3, <2>1, CountsTyped
  <2>4. i # NoneOpen.block
    BY <1>2, <2>1
  <2>5. CountsAgree(s, NoneOpen, s2, NoneOpen, i)
    BY <2>2, <2>3, <2>4 DEF CountsAgree
  <2> QED
    BY <2>2, <2>5
<1>5. PICK x : x = <<>>
  OBVIOUS
<1>6. x \in Seq(Effects) /\ e \o x = e
  BY <1>5, ConcatEmptySeq, EmptySeq
<1>7. Path(s2, NoneOpen, from, to, e \o x, p)
  <2>1. to <= to /\ to <= Len(s2)
    BY <1>3
  <2>2. \A i \in (from + 1)..to : CountsAgree(s, NoneOpen, s2, NoneOpen, i)
    BY <1>4
  <2> QED
    BY <1>1, <1>2, <1>6, <2>1, <2>2, PathKept
<1>8. Path(s2, NoneOpen, from, to, e, p)
  BY <1>6, <1>7
<1>9. p[Len(p)].block \in (from + 1)..to
  <2>1. p \in Seq(Places) /\ Len(p) > 0
    BY <1>1 DEF Path
  <2>2. Len(p) \in 1..Len(p)
    BY <2>1, LenProperties
  <2>3. PICK a : a = p[Len(p)]
    OBVIOUS
  <2>4. a \in Places /\ Within(from, to, e, a)
    BY <1>1, <2>1, <2>2, <2>3, ElementOfSeq DEF Path
  <2>5. a.block \in (from + 1)..a.at /\ a.at <= to /\ a.at \in Nat
    BY <2>4 DEF Within, Places
  <2>6. a.block \in (from + 1)..to
    BY <2>5
  <2> QED
    BY <2>3, <2>6
<1>10. Complete(s2, NoneOpen, to, e, p[Len(p)]) /\ ~More(s2, p[Len(p)].block)
  BY <1>1, <1>4, <1>9 DEF Complete
<1> QED
  BY <1>8, <1>10 DEF Recorded

\* Behind the head of an event, nothing of its block is written.
LEMMA HeadRecording ==
    ASSUME NEW s \in Seq(Fields), NEW from \in Nat, from < Len(s), NEW x \in Effects,
           NEW a, a = [at |-> Len(s), block |-> Len(s), mem |-> 0, reg |-> 0,
                       seen |-> <<x>>],
           BehindHead(s, from, a)
    PROVE  Recording(s, [block |-> Len(s), mem |-> 0, reg |-> 0], from, <<x>>)
<1>1. PICK c, e, p : /\ c = [block |-> Len(s), mem |-> 0, reg |-> 0]
                     /\ e = <<x>> /\ p = <<a>>
  OBVIOUS
<1>2. Len(s) \in Nat
  BY LenProperties
<1>3. e \in Seq(Effects) /\ Len(e) = 1 /\ SubSeq(e, 1, 1) = e
  <2>1. e \in Seq(Effects) /\ Len(e) = 1
    BY <1>1
  <2> QED
    BY <2>1, SubSeqFull
<1>4. a \in Places
  BY <1>1, <1>2, <1>3 DEF Places
<1>5. p \in Seq(Places) /\ Len(p) = 1 /\ p[1] = a
  BY <1>1, <1>4
<1>6. Within(from, Len(s), e, a)
  BY <1>1, <1>2, <1>3 DEF Within
<1>7. Path(s, c, from, Len(s), e, p)
  BY <1>2, <1>5, <1>6 DEF Path
<1>8. Complete(s, c, Len(s), e, p[Len(p)]) /\ p[Len(p)].block = c.block
  BY <1>1, <1>5 DEF Complete, MemOf, RegOf
<1>9. Recording(s, c, from, e)
  BY <1>7, <1>8 DEF Recording
<1> QED
  BY <1>1, <1>9

\* A write that was counted, and whose fields were appended, is recorded.
LEMMA WriteRecorded ==
    ASSUME NEW s \in Seq(Fields), NEW c \in OpenBlocks, NEW c2 \in OpenBlocks,
           NEW from \in Nat \ {0}, NEW e \in Seq(Effects), NEW t, NEW x,
           Recording(s, c, from, e), c2.block = c.block,
           \/ /\ MemoryWritten(t, x) /\ c.reg = 0
              /\ c2.mem = c.mem + 1 /\ c2.reg = 0
           \/ /\ RegisterWritten(t, x)
              /\ c2.mem = c.mem /\ c2.reg = c.reg + 1
    PROVE  Recording(s \o t, c2, from, e \o x)
<1>1. PICK p : /\ Path(s, c, from, Len(s), e, p)
               /\ Complete(s, c, Len(s), e, p[Len(p)])
               /\ p[Len(p)].block = c.block
  BY DEF Recording
<1>2. t \in Seq(Fields) /\ Len(t) > 0 /\ x \in Seq(Effects)
  BY WrittenPlain
<1>3. PICK s2, e2 : s2 = s \o t /\ e2 = e \o x
  OBVIOUS
<1>4. /\ s2 \in Seq(Fields) /\ Len(s2) = Len(s) + Len(t)
      /\ Len(s) \in Nat /\ Len(s2) \in Nat /\ Len(t) \in Nat
      /\ \A i \in 1..Len(s) : s2[i] = s[i]
      /\ \A i \in 1..Len(t) : s2[Len(s) + i] = t[i]
  <2>1. Len(s) \in Nat /\ Len(t) \in Nat
    BY <1>2, LenProperties
  <2>2. /\ s2 \in Seq(Fields) /\ Len(s2) = Len(s) + Len(t)
        /\ \A i \in 1..Len(s) + Len(t) : s2[i] = IF i <= Len(s) THEN s[i] ELSE t[i - Len(s)]
    BY <1>2, <1>3, ConcatProperties
  <2>3. ASSUME NEW i \in 1..Len(t) PROVE s2[Len(s) + i] = t[i]
    <3>1. Len(s) + i \in 1..Len(s) + Len(t) /\ ~(Len(s) + i <= Len(s)) /\ (Len(s) + i) - Len(s) = i
      BY <2>1
    <3> QED
      BY <2>2, <3>1
  <2> QED
    BY <2>1, <2>2, <2>3
<1>5. Agrees(s, s2)
  <2>1. Len(s) <= Len(s2) /\ \A i \in 2..Len(s) : s2[i] = s[i]
    BY <1>4
  <2>2. s \in Seq(Fields) /\ s2 \in Seq(Fields)
    BY <1>4
  <2> QED
    BY <2>1, <2>2, Zenon DEF Agrees
<1>6. PICK a : a = p[Len(p)]
  OBVIOUS
<1>7. /\ a \in Places
      /\ a = [at |-> Len(s), block |-> c.block, mem |-> c.mem, reg |-> c.reg, seen |-> e]
      /\ c.block \in (from + 1)..Len(s)
  BY <1>1, <1>6, EndTyped
<1>8. /\ c.mem \in Nat /\ c.reg \in Nat /\ c.block \in Nat
      /\ c2.mem \in Nat /\ c2.reg \in Nat
  BY DEF OpenBlocks
<1>9. ASSUME NEW i \in (from + 1)..Len(s)
      PROVE  CountsAgree(s, c, s2, c2, i)
  <2>1. i \in 1..Len(s) /\ s2[i] = s[i]
    BY <1>4
  <2>2. CASE i = c.block
    <3>1. /\ MemOf(s, c, i) = c.mem /\ RegOf(s, c, i) = c.reg
          /\ MemOf(s2, c2, i) = c2.mem /\ RegOf(s2, c2, i) = c2.reg
      BY <2>2 DEF MemOf, RegOf
    <3> QED
      BY <1>8, <2>2, <3>1 DEF CountsAgree
  <2>3. CASE i # c.block
    <3>1. /\ MemOf(s, c, i) = MemOf(s2, c2, i) /\ RegOf(s, c, i) = RegOf(s2, c2, i)
          /\ More(s2, i) = More(s, i) /\ i # c2.block
      BY <2>1, <2>3 DEF MemOf, RegOf, More
    <3>2. MemOf(s, c, i) \in Int /\ RegOf(s, c, i) \in Int
      BY <2>1, CountsTyped
    <3> QED
      BY <3>1, <3>2 DEF CountsAgree
  <2> QED
    BY <2>2, <2>3
<1>10. Path(s2, c2, from, Len(s2), e2, p)
  <2>1. Len(s) <= Len(s2) /\ Len(s2) <= Len(s2)
    BY <1>4
  <2>2. \A i \in (from + 1)..Len(s) : CountsAgree(s, c, s2, c2, i)
    BY <1>9
  <2>3. Path(s2, c2, from, Len(s2), e \o x, p)
    BY <1>1, <1>2, <1>4, <1>5, <2>1, <2>2, PathKept
  <2> QED
    BY <1>3, <2>3
<1>11. PICK b : b = [at |-> Len(s2), block |-> c.block, mem |-> c2.mem,
                     reg |-> c2.reg, seen |-> e2]
  OBVIOUS
<1>12. e2 \in Seq(Effects)
  BY <1>2, <1>3, ConcatProperties
<1>13. b \in Places
  BY <1>4, <1>8, <1>11, <1>12 DEF Places
<1>14. Within(from, Len(s2), e2, b)
  <2>1. SubSeq(e2, 1, Len(e2)) = e2 /\ Len(e2) \in Nat
    BY <1>12, SubSeqFull, LenProperties
  <2>2. c.block \in (from + 1)..Len(s2)
    BY <1>4, <1>7
  <2> QED
    BY <1>4, <1>11, <2>1, <2>2 DEF Within
<1>15. Passed(s2, a, b, t, x)
  <2>1. Stored(s2, a.at, t)
    BY <1>4, <1>7 DEF Stored
  <2> QED
    BY <1>3, <1>4, <1>7, <1>11, <2>1 DEF Passed
<1>16. MemOf(s2, c2, a.block) = c2.mem /\ RegOf(s2, c2, a.block) = c2.reg
  BY <1>7 DEF MemOf, RegOf
<1>17. Between(s2, c2, a, b)
  <2>1. CASE /\ MemoryWritten(t, x) /\ c.reg = 0
             /\ c2.mem = c.mem + 1 /\ c2.reg = 0
    <3>1. a.mem < c2.mem /\ b.mem = a.mem + 1 /\ b.reg = a.reg
      BY <1>7, <1>8, <1>11, <2>1
    <3>2. MemoryBetween(s2, c2, a, b)
      BY <1>15, <1>16, <2>1, <3>1 DEF MemoryBetween
    <3> QED
      BY <3>2 DEF Between
  <2>2. CASE /\ RegisterWritten(t, x)
             /\ c2.mem = c.mem /\ c2.reg = c.reg + 1
    <3>1. a.mem = c2.mem /\ a.reg < c2.reg /\ b.mem = a.mem /\ b.reg = a.reg + 1
      BY <1>7, <1>8, <1>11, <2>2
    <3>2. RegisterBetween(s2, c2, a, b)
      BY <1>15, <1>16, <2>2, <3>1 DEF RegisterBetween
    <3> QED
      BY <3>2 DEF Between
  <2> QED
    BY <2>1, <2>2
<1>18. PICK q : q = Append(p, b)
  OBVIOUS
<1>19. Path(s2, c2, from, Len(s2), e2, q)
  BY <1>6, <1>10, <1>13, <1>14, <1>17, <1>18, PathExtends
<1>20. q[Len(q)] = b
  <2>1. p \in Seq(Places)
    BY <1>1 DEF Path
  <2> QED
    BY <1>13, <1>18, <2>1, AppendProperties
<1>21. Complete(s2, c2, Len(s2), e2, b) /\ b.block = c2.block
  BY <1>11 DEF Complete, MemOf, RegOf
<1>22. Recording(s2, c2, from, e2)
  BY <1>19, <1>20, <1>21 DEF Recording
<1> QED
  BY <1>3, <1>22

\* s2 has f where s has a diff, the other fields of s, and perhaps more.
Patched(s, b, f, s2) ==
    /\ s2 \in Seq(Fields) /\ Len(s) <= Len(s2)
    /\ s2[b] = f
    /\ \A i \in 1..Len(s) : i # b => s2[i] = s[i]

\* Patching a diff changes the section in a way that its paths do not notice.
LEMMA PatchAgrees ==
    ASSUME NEW s \in Seq(Fields), NEW b \in 2..Len(s), IsPlainDiff(s[b]),
           NEW f, IsPlainDiff(f), NEW s2, Patched(s, b, f, s2)
    PROVE  Agrees(s, s2)
<1>1. /\ s2 \in Seq(Fields) /\ Len(s) <= Len(s2) /\ s2[b] = f
      /\ \A i \in 1..Len(s) : i # b => s2[i] = s[i]
  BY DEF Patched
<1>2. ASSUME NEW i \in 2..Len(s)
      PROVE  s2[i] = s[i] \/ (IsPlainDiff(s[i]) /\ IsPlainDiff(s2[i]))
  <2>1. i \in 1..Len(s)
    BY LenProperties
  <2> QED
    BY <1>1, <2>1
<1> QED
  BY <1>1, <1>2 DEF Agrees

\* A path that ends behind the block b, at the place at.
EndsBehind(s, c, from, to, e, at, b) ==
    \E p : /\ Path(s, c, from, to, e, p)
           /\ p[Len(p)] = [at |-> at, block |-> b, mem |-> MemOf(s, c, b),
                           reg |-> RegOf(s, c, b), seen |-> e]
           /\ p[Len(p)] \in Places /\ b \in (from + 1)..at

\* When the diff of the open block is patched with the counts of the object, the
\* path is that of a closed block.
LEMMA BlockClosed ==
    ASSUME NEW s \in Seq(Fields), NEW c \in OpenBlocks, NEW from \in Nat \ {0},
           NEW e \in Seq(Effects), Recording(s, c, from, e),
           c.block \in 2..Len(s), IsPlainDiff(s[c.block]),
           NEW f, IsPlainDiff(f), NEW s2, Patched(s, c.block, f, s2),
           Announced(f[2]) = c.mem, Announced(f[3]) = c.reg,
           NEW c2 \in OpenBlocks, c2.block \notin 1..Len(s),
           NEW to \in Nat, Len(s) <= to, to <= Len(s2)
    PROVE  EndsBehind(s2, c2, from, to, e, Len(s), c.block)
<1>1. PICK p : /\ Path(s, c, from, Len(s), e, p)
               /\ Complete(s, c, Len(s), e, p[Len(p)])
               /\ p[Len(p)].block = c.block
  BY DEF Recording
<1>2. PICK a : a = p[Len(p)]
  OBVIOUS
<1>3. /\ a \in Places
      /\ a = [at |-> Len(s), block |-> c.block, mem |-> c.mem, reg |-> c.reg, seen |-> e]
      /\ c.block \in (from + 1)..Len(s)
  BY <1>1, <1>2, EndTyped
<1>4. /\ Len(s) \in Nat /\ Len(s2) \in Nat /\ s2 \in Seq(Fields) /\ Len(s) <= Len(s2)
      /\ s2[c.block] = f /\ \A i \in 1..Len(s) : i # c.block => s2[i] = s[i]
  BY LenProperties DEF Patched
<1>5. c.mem \in Nat /\ c.reg \in Nat
  BY DEF OpenBlocks
<1>6. c.block # c2.block
  BY <1>3
<1>7. MemOf(s2, c2, c.block) = c.mem /\ RegOf(s2, c2, c.block) = c.reg
  BY <1>4, <1>6 DEF MemOf, RegOf
<1>8. ASSUME NEW i \in (from + 1)..Len(s)
      PROVE  CountsAgree(s, c, s2, c2, i)
  <2>1. i \in 1..Len(s) /\ i \in 2..Len(s) /\ i # c2.block
    BY <1>4
  <2>2. CASE i = c.block
    <3>1. MemOf(s, c, i) = c.mem /\ RegOf(s, c, i) = c.reg
      BY <2>2 DEF MemOf, RegOf
    <3> QED
      BY <1>5, <1>7, <2>2, <3>1 DEF CountsAgree
  <2>3. CASE i # c.block
    <3>1. s2[i] = s[i]
      BY <1>4, <2>1, <2>3
    <3>2. /\ MemOf(s, c, i) = MemOf(s2, c2, i) /\ RegOf(s, c, i) = RegOf(s2, c2, i)
          /\ More(s2, i) = More(s, i)
      BY <2>1, <2>3, <3>1 DEF MemOf, RegOf, More
    <3>3. MemOf(s, c, i) \in Int /\ RegOf(s, c, i) \in Int
      BY <2>1, CountsTyped
    <3> QED
      BY <2>1, <3>2, <3>3 DEF CountsAgree
  <2> QED
    BY <2>2, <2>3
<1>9. PICK x : x = <<>>
  OBVIOUS
<1>10. x \in Seq(Effects) /\ e \o x = e
  BY <1>9, ConcatEmptySeq, EmptySeq
<1>11. Path(s2, c2, from, to, e \o x, p)
  <2>1. \A i \in (from + 1)..Len(s) : CountsAgree(s, c, s2, c2, i)
    BY <1>8
  <2>2. Agrees(s, s2)
    BY PatchAgrees
  <2> QED
    BY <1>1, <1>4, <1>10, <2>1, <2>2, PathKept
<1>12. Path(s2, c2, from, to, e, p)
  BY <1>10, <1>11
<1>13. /\ p[Len(p)] = [at |-> Len(s), block |-> c.block, mem |-> MemOf(s2, c2, c.block),
                       reg |-> RegOf(s2, c2, c.block), seen |-> e]
       /\ p[Len(p)] \in Places
  BY <1>2, <1>3, <1>7
<1> QED
  BY <1>3, <1>12, <1>13, Zenon DEF EndsBehind

\* continue_on_next_event: the block is closed with a count of 0xf, and the event
\* goes on behind a diff that counts nothing.
LEMMA BlockContinued ==
    ASSUME NEW s \in Seq(Fields), NEW c \in OpenBlocks, NEW from \in Nat \ {0},
           NEW e \in Seq(Effects), Recording(s, c, from, e),
           c.block \in 2..Len(s), IsPlainDiff(s[c.block]),
           NEW m \in 0..Full, NEW r \in 0..Full, ~(m = Full /\ r = Full),
           Full \in {m, r}, Announced(m) = c.mem, Announced(r) = c.reg
    PROVE  /\ Recording(Append([s EXCEPT ![c.block] = Diff(m, r)], Diff(0, 0)),
                        [block |-> Len(s) + 1, mem |-> 0, reg |-> 0], from, e)
           /\ Patched(s, c.block, Diff(m, r),
                      Append([s EXCEPT ![c.block] = Diff(m, r)], Diff(0, 0)))
<1>1. PICK f, b, g, s1, s2 :
         /\ f = Diff(m, r) /\ g = Diff(0, 0) /\ b = c.block
         /\ s1 = [s EXCEPT ![b] = f] /\ s2 = Append(s1, g)
  OBVIOUS
<1>2. f \in Fields /\ IsPlainDiff(f) /\ f[2] = m /\ f[3] = r
  <2>1. f \in Fields /\ f # NotInstruction
    BY <1>1, DiffIsField
  <2> QED
    BY <1>1, <2>1 DEF IsPlainDiff, Diff
<1>3. g \in Fields /\ IsPlainDiff(g)
  <2>1. Diff(0, 0) \in Fields /\ Diff(0, 0) # NotInstruction
    BY EmptyDiff
  <2>2. Diff(0, 0)[1] = "diff"
    BY DEF Diff
  <2> QED
    BY <1>1, <2>1, <2>2 DEF IsPlainDiff
<1>4. b \in 2..Len(s) /\ IsPlainDiff(s[b])
  BY <1>1
<1>5. Patched(s, b, f, s2) /\ Len(s2) = Len(s) + 1 /\ s2[Len(s) + 1] = g
  <2>1. Len(s) \in Nat /\ b \in 1..Len(s)
    BY <1>4, LenProperties
  <2>2. /\ s1 \in Seq(Fields) /\ Len(s1) = Len(s)
        /\ \A i \in 1..Len(s) : s1[i] = IF i = b THEN f ELSE s[i]
    BY <1>1, <1>2, <2>1, ExceptSeq
  <2>3. /\ s2 \in Seq(Fields) /\ Len(s2) = Len(s) + 1 /\ s2[Len(s) + 1] = g
        /\ \A i \in 1..Len(s) : s2[i] = s1[i]
    BY <1>1, <1>3, <2>2, AppendProperties
  <2>4. \A i \in 1..Len(s) : s2[i] = IF i = b THEN f ELSE s[i]
    BY <2>2, <2>3, Zenon
  <2>5. s2[b] = f /\ \A i \in 1..Len(s) : i # b => s2[i] = s[i]
    BY <2>1, <2>4
  <2>6. Len(s) <= Len(s2)
    BY <2>1, <2>3
  <2>7. Patched(s, b, f, s2)
    BY <2>3, <2>5, <2>6 DEF Patched
  <2> QED
    BY <2>3, <2>7
<1>6. Len(s) \in Nat /\ s2 \in Seq(Fields) /\ s2[b] = f
  BY <1>5, LenProperties DEF Patched
<1>7. PICK c2, d : /\ c2 = [block |-> d, mem |-> 0, reg |-> 0]
                   /\ d = Len(s) + 1
  OBVIOUS
<1>8. d \in Nat /\ c2 \in OpenBlocks /\ c2.block \notin 1..Len(s) /\ d = Len(s2)
  BY <1>5, <1>6, <1>7 DEF OpenBlocks
<1>9. EndsBehind(s2, c2, from, d, e, Len(s), c.block)
  <2>1. Patched(s, c.block, f, s2)
    BY <1>1, <1>5
  <2>2. Announced(f[2]) = c.mem /\ Announced(f[3]) = c.reg
    BY <1>2
  <2>3. Len(s) <= d /\ d <= Len(s2)
    BY <1>6, <1>7, <1>8
  <2> QED
    BY <1>2, <1>8, <2>1, <2>2, <2>3, BlockClosed
<1>10. PICK p : /\ Path(s2, c2, from, d, e, p)
                /\ p[Len(p)] = [at |-> Len(s), block |-> c.block,
                                mem |-> MemOf(s2, c2, c.block),
                                reg |-> RegOf(s2, c2, c.block), seen |-> e]
                /\ p[Len(p)] \in Places /\ c.block \in (from + 1)..Len(s)
  BY <1>9, Zenon DEF EndsBehind
<1>11. PICK a, z : /\ a = p[Len(p)]
                   /\ z = [at |-> d, block |-> d, mem |-> 0, reg |-> 0, seen |-> e]
  OBVIOUS
<1>12. z \in Places
  BY <1>8, <1>11 DEF Places
<1>13. DiffBetween(s2, c2, a, z)
  <2>1. a.block # c2.block
    BY <1>6, <1>7, <1>8, <1>10, <1>11
  <2>2. a.mem = MemOf(s2, c2, a.block) /\ a.reg = RegOf(s2, c2, a.block)
    BY <1>10, <1>11
  <2>3. More(s2, a.block)
    BY <1>1, <1>2, <1>6, <1>10, <1>11 DEF More
  <2>4. a.at + 1 = d /\ d <= Len(s2) /\ IsPlainDiff(s2[d])
    BY <1>3, <1>5, <1>6, <1>7, <1>8, <1>10, <1>11
  <2> QED
    BY <1>10, <1>11, <2>1, <2>2, <2>3, <2>4 DEF DiffBetween
<1>14. Within(from, d, e, z)
  <2>1. SubSeq(e, 1, Len(e)) = e /\ Len(e) \in Nat
    BY SubSeqFull, LenProperties
  <2>3. d \in (from + 1)..d /\ d <= d
    BY <1>6, <1>7, <1>10
  <2> QED
    BY <1>11, <2>1, <2>3 DEF Within
<1>15. PICK w : w = Append(p, z)
  OBVIOUS
<1>16. Path(s2, c2, from, d, e, w)
  <2>1. Between(s2, c2, p[Len(p)], z)
    BY <1>11, <1>13 DEF Between
  <2> QED
    BY <1>10, <1>12, <1>14, <1>15, <2>1, PathExtends
<1>17. w[Len(w)] = z
  <2>1. p \in Seq(Places)
    BY <1>10 DEF Path
  <2> QED
    BY <1>12, <1>15, <2>1, AppendProperties
<1>18. Complete(s2, c2, d, e, z) /\ z.block = c2.block
  BY <1>7, <1>11 DEF Complete, MemOf, RegOf
<1>19. Recording(s2, c2, from, e)
  BY <1>8, <1>16, <1>17, <1>18 DEF Recording
<1> QED
  BY <1>1, <1>5, <1>7, <1>19

\* finish_event: the block is closed with counts less than 0xf.
LEMMA EventRecorded ==
    ASSUME NEW s \in Seq(Fields), NEW c \in OpenBlocks, NEW from \in Nat \ {0},
           NEW e \in Seq(Effects), Recording(s, c, from, e),
           c.block \in 2..Len(s), IsPlainDiff(s[c.block]),
           c.mem \in 0..(Full - 1), c.reg \in 0..(Full - 1)
    PROVE  /\ Recorded([s EXCEPT ![c.block] = Diff(c.mem, c.reg)], from, Len(s), e)
           /\ Patched(s, c.block, Diff(c.mem, c.reg), [s EXCEPT ![c.block] = Diff(c.mem, c.reg)])
<1>1. PICK f, b, m, r, s2 :
         /\ f = Diff(m, r) /\ b = c.block /\ m = c.mem /\ r = c.reg
         /\ s2 = [s EXCEPT ![b] = f]
  OBVIOUS
<1>2. m \in 0..(Full - 1) /\ r \in 0..(Full - 1) /\ m # Full /\ r # Full
  BY <1>1, WidthAssumption
<1>3. f \in Fields /\ IsPlainDiff(f) /\ f[2] = m /\ f[3] = r
  <2>1. f \in Fields /\ f # NotInstruction
    <3>1. m \in 0..Full /\ r \in 0..Full
      BY <1>2, WidthAssumption
    <3> QED
      BY <1>1, <1>2, <3>1, DiffIsField
  <2> QED
    BY <1>1, <2>1 DEF IsPlainDiff, Diff
<1>4. b \in 2..Len(s) /\ IsPlainDiff(s[b])
  BY <1>1
<1>5. Patched(s, b, f, s2) /\ Len(s2) = Len(s)
  <2>1. Len(s) \in Nat /\ b \in 1..Len(s)
    BY <1>4, LenProperties
  <2>2. /\ s2 \in Seq(Fields) /\ Len(s2) = Len(s)
        /\ \A i \in 1..Len(s) : s2[i] = IF i = b THEN f ELSE s[i]
    BY <1>1, <1>3, <2>1, ExceptSeq
  <2>3. Patched(s, b, f, s2)
    BY <2>1, <2>2 DEF Patched
  <2> QED
    BY <2>2, <2>3
<1>6. Len(s) \in Nat
  BY LenProperties
<1>7. s2[b] = f
  BY <1>5 DEF Patched
<1>8. /\ NoneOpen \in OpenBlocks /\ NoneOpen.block \notin 1..Len(s)
  BY DEF NoneOpen, OpenBlocks
<1>9. EndsBehind(s2, NoneOpen, from, Len(s), e, Len(s), c.block)
  <2>1. Patched(s, c.block, f, s2)
    BY <1>1, <1>5
  <2>2. Announced(f[2]) = c.mem /\ Announced(f[3]) = c.reg
    BY <1>1, <1>2, <1>3 DEF Announced
  <2>3. Len(s) <= Len(s) /\ Len(s) <= Len(s2)
    BY <1>5, <1>6
  <2> QED
    BY <1>3, <1>6, <1>8, <2>1, <2>2, <2>3, BlockClosed
<1>10. PICK p : /\ Path(s2, NoneOpen, from, Len(s), e, p)
                /\ p[Len(p)] = [at |-> Len(s), block |-> c.block,
                                mem |-> MemOf(s2, NoneOpen, c.block),
                                reg |-> RegOf(s2, NoneOpen, c.block), seen |-> e]
                /\ p[Len(p)] \in Places /\ c.block \in (from + 1)..Len(s)
  BY <1>9, Zenon DEF EndsBehind
<1>11. Complete(s2, NoneOpen, Len(s), e, p[Len(p)])
  BY <1>10 DEF Complete
<1>12. ~More(s2, p[Len(p)].block)
  BY <1>1, <1>2, <1>3, <1>7, <1>10 DEF More
<1>13. Recorded(s2, from, Len(s), e)
  BY <1>10, <1>11, <1>12 DEF Recorded
<1> QED
  BY <1>1, <1>5, <1>13

-----------------------------------------------------------------------------
(* What the writer and its history keep, refused calls or not.              *)

PlainFields == {f \in Fields : f[1] # "diff"}
BoundedFields == {f \in Fields : f[1] = "diff" => f[2] <= Full /\ f[3] <= Full}

\* The counts of a diff are of 4 bits, those of the object less than 0xf, and
\* the history has as many positions as there are gaps between events.
Bookkept ==
    /\ events \in Seq(BoundedFields) /\ Len(events) > 0
    /\ event_count \in 0..MaxEvents /\ (IsEventStarted => event_count < MaxEvents)
    /\ current_diff_mem_count \in 0..(Full - 1)
    /\ current_diff_reg_count \in 0..(Full - 1)
    /\ log \in Seq(Seq(Effects)) /\ Len(log) = event_count
    /\ current \in Seq(Effects)
    /\ starts \in Seq(Nat \ {0}) /\ Len(starts) = Len(log) + 1 /\ starts[1] = 1
    /\ finalized \in BOOLEAN /\ spoilt \in BOOLEAN
    /\ finalized => events[1] = Count(event_count)

\* What the calls append, complete or not, has no diff in it.
LEMMA CallFields ==
    ASSUME NEW address \in Nat, NEW size \in Nat, NEW id \in Nat
    PROVE  /\ MemoryFields(address, size) \in Seq(PlainFields)
           /\ RegisterFields(id) \in Seq(PlainFields)
           /\ (IF id <= Escape THEN <<Id(id)>> ELSE <<>>) \in Seq(PlainFields)
           /\ MemoryEffect(address, size) \in Seq(Effects)
           /\ RegisterEffect(id) \in Seq(Effects)
           /\ OperationEffect(id) \in Seq(Effects)
<1>1. \A kind \in {"type", "string", "address", "size", "wide size", "bytes",
                   "id", "wide id", "content"}, k \in Nat :
          <<kind, k, 0>> \in PlainFields
  BY DEF Fields, PlainFields
<1>2. Escape \in Nat
  BY WidthAssumption
<1>3. /\ Address(address) \in PlainFields /\ Size(size) \in PlainFields
      /\ Size(Escape) \in PlainFields /\ WideSize(size) \in PlainFields
      /\ Bytes(size) \in PlainFields /\ Id(id) \in PlainFields
      /\ Id(Escape) \in PlainFields /\ WideId(id) \in PlainFields
      /\ Content(id) \in PlainFields
  BY <1>1, <1>2 DEF Address, Size, WideSize, Bytes, Id, WideId, Content
<1>4. MemoryFields(address, size) \in Seq(PlainFields)
  BY <1>2, <1>3 DEF MemoryFields, AddressFits, SizeFits
<1>5. RegisterFields(id) \in Seq(PlainFields)
  BY <1>3 DEF RegisterFields
<1>6. (IF id <= Escape THEN <<Id(id)>> ELSE <<>>) \in Seq(PlainFields)
  BY <1>3
<1>7. /\ <<"memory", address, size>> \in Effects /\ <<"register", id, 0>> \in Effects
      /\ <<"operation", id, 0>> \in Effects
  BY DEF Effects
<1>8. MemoryEffect(address, size) \in Seq(Effects)
  BY <1>7 DEF MemoryEffect
<1>9. RegisterEffect(id) \in Seq(Effects) /\ OperationEffect(id) \in Seq(Effects)
  BY <1>7 DEF RegisterEffect, OperationEffect
<1> QED
  BY <1>4, <1>5, <1>6, <1>8, <1>9

\* Fields with nothing to bound, and diffs within the bound.
LEMMA Bounds ==
    /\ PlainFields \subseteq BoundedFields /\ BoundedFields \subseteq Fields
    /\ \A mem, reg \in 0..Full : Diff(mem, reg) \in BoundedFields
    /\ \A n \in Nat : Count(n) \in BoundedFields
    /\ \A length \in Nat :
          /\ <<NotInstruction, OtherType, Text(length)>> \in Seq(BoundedFields)
          /\ <<NotInstruction, OtherType>> \in Seq(BoundedFields)
    /\ <<>> \in Seq(BoundedFields)
<1>1. PlainFields \subseteq BoundedFields /\ BoundedFields \subseteq Fields
  BY DEF PlainFields, BoundedFields
<1>2. ASSUME NEW mem \in 0..Full, NEW reg \in 0..Full
      PROVE  Diff(mem, reg) \in BoundedFields
  <2>1. mem \in Nat /\ reg \in Nat /\ mem <= Full /\ reg <= Full
    BY WidthAssumption
  <2>2. <<"diff", mem, reg>> \in Fields
    BY <2>1 DEF Fields
  <2> QED
    BY <2>1, <2>2 DEF Diff, BoundedFields
<1>3. ASSUME NEW n \in Nat PROVE Count(n) \in BoundedFields
  BY DEF Count, BoundedFields, Fields
<1>4. ASSUME NEW length \in Nat
      PROVE  /\ NotInstruction \in BoundedFields /\ OtherType \in BoundedFields
             /\ Text(length) \in BoundedFields
  <2>1. OtherType \in BoundedFields /\ Text(length) \in BoundedFields
    BY WidthAssumption DEF OtherType, Text, BoundedFields, Fields
  <2>2. Full \in 0..Full
    BY WidthAssumption
  <2> QED
    BY <1>2, <2>1, <2>2 DEF NotInstruction
<1>5. <<>> \in Seq(BoundedFields)
  OBVIOUS
<1> QED
  BY <1>1, <1>2, <1>3, <1>4, <1>5

\* A writer that was just constructed.
LEMMA BookkeptInit == Init => Bookkept
<1> SUFFICES ASSUME Init PROVE Bookkept
  OBVIOUS
<1>1. /\ events = <<Count(0)>> /\ event_count = 0
      /\ diff_element_count_stream_pos = NoBlock
      /\ current_diff_mem_count = 0 /\ current_diff_reg_count = 0
      /\ finalized = FALSE /\ log = <<>> /\ current = <<>> /\ starts = <<1>>
      /\ spoilt = FALSE
  BY DEF Init, InitWriter
<1>2. Count(0) \in BoundedFields
  BY Bounds
<1>3. events \in Seq(BoundedFields) /\ Len(events) > 0
  BY <1>1, <1>2
<1>4. log \in Seq(Seq(Effects)) /\ Len(log) = 0 /\ current \in Seq(Effects)
  BY <1>1
<1>5. starts \in Seq(Nat \ {0}) /\ Len(starts) = 1 /\ starts[1] = 1
  BY <1>1
<1>6. /\ event_count \in 0..MaxEvents /\ ~IsEventStarted
      /\ current_diff_mem_count \in 0..(Full - 1)
      /\ current_diff_reg_count \in 0..(Full - 1)
  BY <1>1, WidthAssumption, BoundAssumption DEF IsEventStarted
<1>7. Len(log) = event_count /\ Len(starts) = Len(log) + 1
  BY <1>1, <1>4, <1>5
<1>8. finalized \in BOOLEAN /\ spoilt \in BOOLEAN /\ ~finalized
  BY <1>1
<1> QED
  BY <1>3, <1>4, <1>5, <1>6, <1>7, <1>8 DEF Bookkept

\* A call that changes the section, but neither its history nor its counters.
LEMMA BookkeptSection ==
    ASSUME Bookkept, ~finalized, events' \in Seq(BoundedFields), Len(events') > 0,
           IsEventStarted' => event_count < MaxEvents,
           current_diff_mem_count' \in 0..(Full - 1),
           current_diff_reg_count' \in 0..(Full - 1),
           current' \in Seq(Effects), spoilt' \in BOOLEAN,
           UNCHANGED <<event_count, finalized, log, starts>>
    PROVE  Bookkept'
BY DEF Bookkept

\* start_event_instruction and start_event_other.
LEMMA OpenBlockBooks ==
    ASSUME Bookkept, CanStart, NEW head \in Seq(BoundedFields), OpenBlock(head),
           current' \in Seq(Effects),
           UNCHANGED <<event_count, finalized, log, starts, spoilt>>
    PROVE  Bookkept'
<1>1. PICK g : g = Diff(0, 0)
  OBVIOUS
<1>2. g \in BoundedFields
  <2>1. 0 \in 0..Full
    BY WidthAssumption
  <2> QED
    BY <1>1, <2>1, Bounds
<1>3. events \in Seq(BoundedFields) /\ spoilt' \in BOOLEAN /\ event_count < MaxEvents /\ ~finalized
  BY DEF Bookkept, CanStart
<1>4. events' = events \o head \o <<g>>
  BY <1>1 DEF OpenBlock
<1>5. events' \in Seq(BoundedFields) /\ Len(events') > 0
  BY <1>2, <1>3, <1>4
<1>6. current_diff_mem_count' \in 0..(Full - 1) /\ current_diff_reg_count' \in 0..(Full - 1)
  BY WidthAssumption DEF OpenBlock
<1> QED
  BY <1>3, <1>5, <1>6, BookkeptSection

\* What OneMoreMemory and OneMoreRegister make of the section.
LEMMA CountedBooks ==
    ASSUME Bookkept, IInv, IsEventStarted
    PROVE  \A counted \in {OneMoreMemory, OneMoreRegister} :
              /\ counted.fields \in Seq(BoundedFields) /\ Len(counted.fields) > 0
              /\ counted.mem \in 0..(Full - 1) /\ counted.reg \in 0..(Full - 1)
<1>1. PICK m, r : m = current_diff_mem_count /\ r = current_diff_reg_count
  OBVIOUS
<1>2. /\ m \in 0..(Full - 1) /\ r \in 0..(Full - 1) /\ m \in 0..Full /\ r \in 0..Full
      /\ 0 \in 0..Full /\ 0 \in 0..(Full - 1) /\ 1 \in 0..(Full - 1) /\ Full \in 0..Full
      /\ events \in Seq(BoundedFields) /\ Len(events) > 0
  BY <1>1, WidthAssumption DEF Bookkept
<1>3. ASSUME NEW m1 \in 0..Full, NEW r1 \in 0..Full
      PROVE  /\ Append(WithDiff(m1, r1), Diff(0, 0)) \in Seq(BoundedFields)
             /\ Len(Append(WithDiff(m1, r1), Diff(0, 0))) > 0
  <2>1. PICK f, g, b : /\ f = Diff(m1, r1) /\ g = Diff(0, 0)
                       /\ b = diff_element_count_stream_pos + 1
    OBVIOUS
  <2>2. f \in BoundedFields /\ g \in BoundedFields
    BY <1>2, <2>1, Bounds
  <2>3. b \in 1..Len(events)
    <3>1. BlockOpen(events, diff_element_count_stream_pos,
                    current_diff_mem_count, current_diff_reg_count)
      BY DEF IInv
    <3> QED
      BY <1>2, <2>1, <3>1 DEF BlockOpen
  <2>4. [events EXCEPT ![b] = f] \in Seq(BoundedFields)
    BY <1>2, <2>2, <2>3, ExceptSeq
  <2>5. WithDiff(m1, r1) = [events EXCEPT ![b] = f]
    BY <2>1 DEF WithDiff
  <2> QED
    BY <2>1, <2>2, <2>4, <2>5
<1>4. /\ OneMoreMemory.fields \in Seq(BoundedFields) /\ Len(OneMoreMemory.fields) > 0
      /\ OneMoreMemory.mem \in 0..(Full - 1) /\ OneMoreMemory.reg \in 0..(Full - 1)
  <2>1. CASE m + 1 = Full
    <3>1. OneMoreMemory = Continued(Full, r, 1, 0)
      BY <1>1, <2>1 DEF OneMoreMemory
    <3>2. /\ OneMoreMemory.fields = Append(WithDiff(Full, r), Diff(0, 0))
          /\ OneMoreMemory.mem = 1 /\ OneMoreMemory.reg = 0
      BY <3>1 DEF Continued
    <3> QED
      BY <1>2, <1>3, <3>2
  <2>2. CASE m + 1 # Full
    <3>1. /\ OneMoreMemory.fields = events
          /\ OneMoreMemory.mem = m + 1 /\ OneMoreMemory.reg = r
      BY <1>1, <2>2 DEF OneMoreMemory
    <3>2. m + 1 \in 0..(Full - 1)
      BY <1>2, <2>2, WidthAssumption
    <3> QED
      BY <1>2, <3>1, <3>2
  <2> QED
    BY <2>1, <2>2
<1>5. /\ OneMoreRegister.fields \in Seq(BoundedFields) /\ Len(OneMoreRegister.fields) > 0
      /\ OneMoreRegister.mem \in 0..(Full - 1) /\ OneMoreRegister.reg \in 0..(Full - 1)
  <2>1. CASE r + 1 = Full
    <3>1. OneMoreRegister = Continued(m, Full, 0, 1)
      BY <1>1, <2>1 DEF OneMoreRegister
    <3>2. /\ OneMoreRegister.fields = Append(WithDiff(m, Full), Diff(0, 0))
          /\ OneMoreRegister.mem = 0 /\ OneMoreRegister.reg = 1
      BY <3>1 DEF Continued
    <3> QED
      BY <1>2, <1>3, <3>2
  <2>2. CASE r + 1 # Full
    <3>1. /\ OneMoreRegister.fields = events
          /\ OneMoreRegister.mem = m /\ OneMoreRegister.reg = r + 1
      BY <1>1, <2>2 DEF OneMoreRegister
    <3>2. r + 1 \in 0..(Full - 1)
      BY <1>2, <2>2, WidthAssumption
    <3> QED
      BY <1>2, <3>1, <3>2
  <2> QED
    BY <2>1, <2>2
<1> QED
  BY <1>4, <1>5

\* The calls that write memory and registers, complete or refused half-way.
LEMMA WriteFieldsBooks ==
    ASSUME Bookkept, IInv, CanAdd, NEW counted \in {OneMoreMemory, OneMoreRegister},
           NEW fields \in Seq(PlainFields), NEW complete \in BOOLEAN,
           NEW effect \in Seq(Effects), WriteFields(counted, fields, complete, effect)
    PROVE  Bookkept'
<1>1. PICK s, m, r : s = counted.fields /\ m = counted.mem /\ r = counted.reg
  OBVIOUS
<1>2. s \in Seq(BoundedFields) /\ Len(s) > 0 /\ m \in 0..(Full - 1) /\ r \in 0..(Full - 1)
  BY <1>1, CountedBooks DEF CanAdd
<1>3. fields \in Seq(BoundedFields)
  BY Bounds, SeqMonotonic
<1>4. s \o fields \in Seq(BoundedFields) /\ Len(s \o fields) > 0
  BY <1>2, <1>3
<1>5. /\ events' = s \o fields /\ current_diff_mem_count' = m /\ current_diff_reg_count' = r
      /\ current' = IF complete THEN current \o effect ELSE current
      /\ spoilt' = (spoilt \/ ~complete)
      /\ UNCHANGED <<event_count, finalized, log, starts>>
  BY <1>1 DEF WriteFields
<1>6. current' \in Seq(Effects)
  BY <1>5 DEF Bookkept
<1>7. spoilt' \in BOOLEAN
  BY <1>5
<1>8. ~finalized /\ (IsEventStarted' => event_count < MaxEvents)
  BY DEF CanAdd, Bookkept
<1> QED
  BY <1>2, <1>4, <1>5, <1>6, <1>7, <1>8, BookkeptSection

\* Every call of the writer keeps its books.
LEMMA BookkeptWriter ==
    ASSUME Bookkept, IInv, NextWriter
    PROVE  Bookkept'
<1>1. CASE StartEventInstruction
  <2>1. <<>> \in Seq(BoundedFields)
    BY Bounds
  <2>2. <<Instruction>> \in Seq(Effects)
    BY DEF Instruction, Effects
  <2> QED
    BY <1>1, <2>1, <2>2, OpenBlockBooks DEF StartEventInstruction
<1>2. ASSUME NEW length \in Description, StartEventOther(length)
      PROVE  Bookkept'
  <2>1. length \in Nat
    BY InputAssumption
  <2>2. <<NotInstruction, OtherType, Text(length)>> \in Seq(BoundedFields)
    BY <2>1, Bounds
  <2>3. <<Other(length)>> \in Seq(Effects)
    BY <2>1 DEF Other, Effects
  <2> QED
    BY <1>2, <2>2, <2>3, OpenBlockBooks DEF StartEventOther
<1>3. ASSUME NEW length \in Description, StartEventOtherTooLong(length)
      PROVE  Bookkept'
  <2>1. PICK head : head = <<NotInstruction, OtherType>>
    OBVIOUS
  <2>2. head \in Seq(BoundedFields)
    BY <2>1, Bounds
  <2>3. /\ events' = events \o head
        /\ spoilt' = TRUE /\ ~finalized /\ ~IsEventStarted
        /\ UNCHANGED <<event_count, diff_element_count_stream_pos, current_diff_mem_count,
                       current_diff_reg_count, finalized, log, current, starts>>
    BY <1>3, <2>1 DEF StartEventOtherTooLong, CanStart, block
  <2>4. events' \in Seq(BoundedFields) /\ Len(events') > 0
    BY <2>2, <2>3 DEF Bookkept
  <2>5. ~IsEventStarted'
    BY <2>3 DEF IsEventStarted
  <2> QED
    BY <2>3, <2>4, <2>5, BookkeptSection DEF Bookkept
<1>4. ASSUME NEW write \in MemoryWrite, WriteMemory(write[1], write[2])
      PROVE  Bookkept'
  <2>1. PICK address, size : address = write[1] /\ size = write[2]
    OBVIOUS
  <2>2. address \in Nat /\ size \in Nat
    BY <2>1, InputAssumption
  <2>3. /\ MemoryFields(address, size) \in Seq(PlainFields)
        /\ MemoryEffect(address, size) \in Seq(Effects)
    BY <2>2, CallFields
  <2>4. (AddressFits(address) /\ SizeFits(size)) \in BOOLEAN
    OBVIOUS
  <2>5. /\ CanAdd
        /\ WriteFields(OneMoreMemory, MemoryFields(address, size),
                       AddressFits(address) /\ SizeFits(size), MemoryEffect(address, size))
    BY <1>4, <2>1 DEF WriteMemory
  <2> QED
    BY <2>3, <2>4, <2>5, WriteFieldsBooks
<1>5. ASSUME NEW id \in Register, WriteRegister(id)
      PROVE  Bookkept'
  <2>1. RegisterFields(id) \in Seq(PlainFields) /\ RegisterEffect(id) \in Seq(Effects)
    BY IdAssumption, CallFields
  <2>2. CanAdd /\ WriteFields(OneMoreRegister, RegisterFields(id), TRUE, RegisterEffect(id))
    BY <1>5 DEF WriteRegister
  <2> QED
    BY <2>1, <2>2, WriteFieldsBooks
<1>6. ASSUME NEW id \in ActionId, WriteRegisterAction(id)
      PROVE  Bookkept'
  <2>1. PICK fields, complete : /\ fields = (IF id <= Escape THEN <<Id(id)>> ELSE <<>>)
                                /\ complete = (id <= Escape)
    OBVIOUS
  <2>2. /\ fields \in Seq(PlainFields) /\ OperationEffect(id) \in Seq(Effects)
        /\ complete \in BOOLEAN
    BY <2>1, InputAssumption, CallFields
  <2>3. CanAdd /\ WriteFields(OneMoreRegister, fields, complete, OperationEffect(id))
    BY <1>6, <2>1 DEF WriteRegisterAction
  <2> QED
    BY <2>2, <2>3, WriteFieldsBooks
<1>7. CASE FinishEvent
  <2>1. PICK f, b : /\ f = Diff(current_diff_mem_count, current_diff_reg_count)
                    /\ b = diff_element_count_stream_pos + 1
    OBVIOUS
  <2>2. f \in BoundedFields
    <3>1. current_diff_mem_count \in 0..Full /\ current_diff_reg_count \in 0..Full
      BY WidthAssumption DEF Bookkept
    <3> QED
      BY <2>1, <3>1, Bounds
  <2>3. b \in 1..Len(events)
    <3>1. BlockOpen(events, diff_element_count_stream_pos,
                    current_diff_mem_count, current_diff_reg_count)
      BY <1>7 DEF IInv, FinishEvent
    <3> QED
      BY <2>1, <3>1 DEF BlockOpen, Bookkept
  <2>4. /\ events' = [events EXCEPT ![b] = f] /\ event_count' = event_count + 1
        /\ diff_element_count_stream_pos' = NoBlock
        /\ log' = Append(log, current) /\ current' = <<>>
        /\ starts' = Append(starts, Len(events))
        /\ ~finalized /\ IsEventStarted
        /\ UNCHANGED <<current_diff_mem_count, current_diff_reg_count, finalized, spoilt>>
    BY <1>7, <2>1 DEF FinishEvent, WithDiff
  <2>5. events' \in Seq(BoundedFields) /\ Len(events') = Len(events)
    BY <2>2, <2>3, <2>4, ExceptSeq DEF Bookkept
  <2>6. /\ log' \in Seq(Seq(Effects)) /\ Len(log') = Len(log) + 1
        /\ current' \in Seq(Effects)
    BY <2>4 DEF Bookkept
  <2>7. /\ starts' \in Seq(Nat \ {0}) /\ Len(starts') = Len(starts) + 1
        /\ starts'[1] = 1
    <3>1. Len(events) \in Nat \ {0} /\ Len(starts) \in Nat \ {0}
      BY LenProperties DEF Bookkept
    <3> QED
      BY <2>4, <3>1, AppendProperties DEF Bookkept
  <2>8. event_count' \in 0..MaxEvents /\ ~IsEventStarted'
    BY <2>4, BoundAssumption DEF Bookkept, IsEventStarted
  <2>9. Len(starts') = Len(log') + 1 /\ Len(log') = event_count'
    BY <2>4, <2>6, <2>7, LenProperties DEF Bookkept
  <2> QED
    BY <2>4, <2>5, <2>6, <2>7, <2>8, <2>9 DEF Bookkept
<1>8. CASE DoFinalize
  <2>1. /\ events' = [events EXCEPT ![1] = Count(event_count)]
        /\ finalized' = TRUE
        /\ UNCHANGED <<event_count, diff_element_count_stream_pos, current_diff_mem_count,
                       current_diff_reg_count, log, current, starts, spoilt>>
    BY <1>8 DEF DoFinalize, block, history
  <2>2. Count(event_count) \in BoundedFields
    BY Bounds DEF Bookkept
  <2>3. 1 \in 1..Len(events)
    BY LenProperties DEF Bookkept
  <2>4. /\ events' \in Seq(BoundedFields) /\ Len(events') = Len(events)
        /\ events'[1] = Count(event_count)
    BY <2>1, <2>2, <2>3, ExceptSeq DEF Bookkept
  <2>5. IsEventStarted' = IsEventStarted
    BY <2>1 DEF IsEventStarted
  <2>6. Count(event_count)' = Count(event_count)
    BY <2>1 DEF Count
  <2> QED
    BY <2>1, <2>4, <2>5, <2>6 DEF Bookkept
<1> QED
  BY <1>1, <1>2, <1>3, <1>4, <1>5, <1>6, <1>7, <1>8 DEF NextWriter

-----------------------------------------------------------------------------
(* What the section says: every finished event can be read back, and the    *)
(* open one as soon as its block is closed.                                 *)

Open == [block |-> OpenDiff, mem |-> current_diff_mem_count, reg |-> current_diff_reg_count]
StartsWithin(n) == \A i \in 1..Len(starts) : starts[i] <= n
LogRecorded == \A i \in 1..Len(log) : Recorded(events, starts[i], starts[i + 1], log[i])

Written ==
    ~spoilt =>
        /\ LogRecorded
        /\ IsEventStarted =>
              /\ StartsWithin(diff_element_count_stream_pos)
              /\ Recording(events, Open, starts[Len(starts)], current)
        /\ ~IsEventStarted =>
              /\ StartsWithin(Len(events))
              /\ starts[Len(starts)] = Len(events)

\* The section grew into s2, and up to n it is the same but for its count.
Grown(n, s2) == Agrees(events, s2) /\ \A i \in 2..n : s2[i] = events[i]

\* What was recorded behind the positions of the finished events stays.
LEMMA LogKept ==
    ASSUME Bookkept, LogRecorded, NEW n \in Nat, n <= Len(events), StartsWithin(n),
           NEW s2, Grown(n, s2)
    PROVE  \A i \in 1..Len(log) : Recorded(s2, starts[i], starts[i + 1], log[i])
<1> SUFFICES ASSUME NEW i \in 1..Len(log)
             PROVE  Recorded(s2, starts[i], starts[i + 1], log[i])
  OBVIOUS
<1>1. /\ starts \in Seq(Nat \ {0}) /\ Len(starts) = Len(log) + 1
      /\ log \in Seq(Seq(Effects)) /\ Len(log) \in Nat
  BY LenProperties DEF Bookkept
<1>2. PICK from, to, e : from = starts[i] /\ to = starts[i + 1] /\ e = log[i]
  OBVIOUS
<1>3. i \in 1..Len(starts) /\ i + 1 \in 1..Len(starts)
  BY <1>1
<1>4. from \in Nat \ {0} /\ to \in Nat /\ to <= n /\ e \in Seq(Effects)
  BY <1>1, <1>2, <1>3, ElementOfSeq DEF StartsWithin
<1>5. Agrees(events, s2) /\ \A j \in 2..to : s2[j] = events[j]
  BY <1>4 DEF Grown
<1>6. Recorded(events, from, to, e)
  BY <1>2 DEF LogRecorded
<1>7. to <= Len(events)
  <2>1. Len(events) \in Nat
    BY LenProperties DEF Bookkept
  <2> QED
    BY <1>4, <2>1
<1>8. Recorded(s2, from, to, e)
  BY <1>4, <1>5, <1>6, <1>7, RecordedKept
<1> QED
  BY <1>2, <1>8

\* Patching the event count does not change what is being recorded.
LEMMA RecordingKept ==
    ASSUME NEW s, NEW s2, Agrees(s, s2), Len(s2) = Len(s),
           \A i \in 2..Len(s) : s2[i] = s[i],
           NEW c \in OpenBlocks, NEW from \in Nat \ {0}, NEW e \in Seq(Effects),
           Recording(s, c, from, e)
    PROVE  Recording(s2, c, from, e)
<1>1. PICK p : /\ Path(s, c, from, Len(s), e, p)
               /\ Complete(s, c, Len(s), e, p[Len(p)])
               /\ p[Len(p)].block = c.block
  BY DEF Recording
<1>2. s \in Seq(Fields) /\ s2 \in Seq(Fields) /\ Len(s) \in Nat
  BY LenProperties DEF Agrees
<1>3. ASSUME NEW i \in (from + 1)..Len(s)
      PROVE  CountsAgree(s, c, s2, c, i)
  <2>1. s2[i] = s[i] /\ i \in 1..Len(s)
    BY <1>2
  <2>2. MemOf(s, c, i) \in Int /\ RegOf(s, c, i) \in Int
    BY <1>2, <2>1, CountsTyped
  <2>3. /\ MemOf(s, c, i) = MemOf(s2, c, i) /\ RegOf(s, c, i) = RegOf(s2, c, i)
        /\ More(s2, i) = More(s, i)
    BY <2>1 DEF MemOf, RegOf, More
  <2> QED
    BY <2>2, <2>3 DEF CountsAgree
<1>4. PICK x : x = <<>>
  OBVIOUS
<1>5. x \in Seq(Effects) /\ e \o x = e
  BY <1>4, ConcatEmptySeq, EmptySeq
<1>6. Path(s2, c, from, Len(s), e \o x, p)
  <2>1. \A i \in (from + 1)..Len(s) : CountsAgree(s, c, s2, c, i)
    BY <1>3
  <2>2. Len(s) <= Len(s) /\ Len(s) <= Len(s2)
    BY <1>2
  <2> QED
    BY <1>1, <1>2, <1>5, <2>1, <2>2, PathKept
<1>7. Complete(s2, c, Len(s2), e, p[Len(p)])
  BY <1>1 DEF Complete, MemOf, RegOf
<1> QED
  BY <1>1, <1>5, <1>6, <1>7 DEF Recording

\* The open block as the lemmas about Recording want it.
LEMMA OpenTyped ==
    ASSUME Bookkept, IInv, IsEventStarted
    PROVE  /\ Open \in OpenBlocks /\ Open.block = diff_element_count_stream_pos + 1
           /\ Open.block \in 2..Len(events) /\ IsPlainDiff(events[Open.block])
           /\ Open.mem = current_diff_mem_count /\ Open.reg = current_diff_reg_count
           /\ Open.mem \in 0..(Full - 1) /\ Open.reg \in 0..(Full - 1)
           /\ events \in Seq(Fields) /\ Len(events) \in Nat
           /\ diff_element_count_stream_pos \in Nat
           /\ starts[Len(starts)] \in Nat \ {0} /\ current \in Seq(Effects)
           /\ Len(starts) \in 1..Len(starts)
<1>1. PICK pos, m, r : /\ pos = diff_element_count_stream_pos
                       /\ m = current_diff_mem_count /\ r = current_diff_reg_count
  OBVIOUS
<1>2. BlockOpen(events, pos, m, r)
  BY <1>1 DEF IInv
<1>3. /\ pos \in Nat \ {0} /\ pos + 1 <= Len(events) /\ events[pos + 1] = Diff(0, 0)
      /\ m \in 0..(Full - 1) /\ r \in 0..(Full - 1) /\ m \in Nat /\ r \in Nat
  BY <1>2, WidthAssumption DEF BlockOpen
<1>4. events \in Seq(Fields) /\ Len(events) \in Nat
  BY LenProperties DEF IInv, HeadsAnnounced
<1>5. Open = [block |-> pos + 1, mem |-> m, reg |-> r]
  BY <1>1 DEF Open, OpenDiff
<1>6. Open \in OpenBlocks
  BY <1>3, <1>5 DEF OpenBlocks
<1>7. IsPlainDiff(Diff(0, 0))
  <2>1. Diff(0, 0)[1] = "diff"
    BY DEF Diff
  <2> QED
    BY <2>1, EmptyDiff DEF IsPlainDiff
<1>8. Len(starts) \in 1..Len(starts) /\ starts[Len(starts)] \in Nat \ {0}
  <2>1. starts \in Seq(Nat \ {0}) /\ Len(starts) = Len(log) + 1 /\ Len(log) \in Nat
    BY LenProperties DEF Bookkept
  <2>2. Len(starts) \in 1..Len(starts)
    BY <2>1
  <2> QED
    BY <2>1, <2>2, ElementOfSeq
<1>9. current \in Seq(Effects)
  BY DEF Bookkept
<1>10. pos + 1 \in 2..Len(events)
  BY <1>3, <1>4
<1> QED
  BY <1>1, <1>3, <1>4, <1>5, <1>6, <1>7, <1>8, <1>9, <1>10

\* The section after a write was counted, and before its fields are appended.
CountedAs(counted, c, from) ==
    /\ c \in OpenBlocks /\ c.block = counted.pos + 1
    /\ Recording(counted.fields, c, from, current)
    /\ Grown(diff_element_count_stream_pos, counted.fields)
    /\ counted.pos \in Nat /\ diff_element_count_stream_pos <= counted.pos

\* OneMoreMemory and OneMoreRegister count the write in the block it goes to: the
\* open one, or the next one, when the count would have been 0xf.
LEMMA CountedRecording ==
    ASSUME Bookkept, IInv, IsEventStarted, NEW from \in Nat \ {0},
           Recording(events, Open, from, current)
    PROVE  /\ current_diff_reg_count = 0 =>
                 \E c : /\ CountedAs(OneMoreMemory, c, from)
                        /\ c.reg = 0 /\ OneMoreMemory.reg = 0
                        /\ OneMoreMemory.mem = c.mem + 1
           /\ \E c : /\ CountedAs(OneMoreRegister, c, from)
                     /\ OneMoreRegister.mem = c.mem
                     /\ OneMoreRegister.reg = c.reg + 1
<1>1. PICK pos, m, r, s : /\ pos = diff_element_count_stream_pos /\ s = events
                          /\ m = current_diff_mem_count /\ r = current_diff_reg_count
  OBVIOUS
<1>2. /\ Open \in OpenBlocks /\ Open.block = pos + 1 /\ Open.block \in 2..Len(s)
      /\ IsPlainDiff(s[Open.block])
      /\ Open.mem = m /\ Open.reg = r /\ m \in 0..(Full - 1) /\ r \in 0..(Full - 1)
      /\ s \in Seq(Fields) /\ Len(s) \in Nat /\ pos \in Nat /\ current \in Seq(Effects)
  BY <1>1, OpenTyped
<1>3. /\ m \in 0..Full /\ r \in 0..Full /\ Full \in 0..Full /\ m # Full /\ r # Full
      /\ Announced(m) = m /\ Announced(r) = r /\ Announced(Full) = Full - 1
  BY <1>2, WidthAssumption DEF Announced
<1>4. Grown(pos, s)
  BY <1>1, <1>2 DEF Grown, Agrees
<1>5. ASSUME NEW m1 \in 0..Full, NEW r1 \in 0..Full, ~(m1 = Full /\ r1 = Full),
             Full \in {m1, r1}, Announced(m1) = m, Announced(r1) = r,
             NEW m2, NEW r2
      PROVE  \E c : /\ CountedAs(Continued(m1, r1, m2, r2), c, from)
                    /\ c.mem = 0 /\ c.reg = 0
  <2>1. PICK f, s1, s2, c :
           /\ f = Diff(m1, r1) /\ s1 = [s EXCEPT ![Open.block] = f]
           /\ s2 = Append(s1, Diff(0, 0))
           /\ c = [block |-> Len(s) + 1, mem |-> 0, reg |-> 0]
    OBVIOUS
  <2>2. Recording(s, Open, from, current)
    BY <1>1
  <2>3. Recording(s2, c, from, current) /\ Patched(s, Open.block, f, s2)
    BY <1>2, <1>5, <2>1, <2>2, BlockContinued
  <2>4. IsPlainDiff(f)
    <3>1. f \in Fields /\ f # NotInstruction
      BY <1>5, <2>1, DiffIsField
    <3> QED
      BY <2>1, <3>1 DEF IsPlainDiff, Diff
  <2>5. Agrees(s, s2)
    BY <1>2, <2>3, <2>4, PatchAgrees
  <2>6. Grown(pos, s2)
    <3>1. \A i \in 1..Len(s) : i # Open.block => s2[i] = s[i]
      BY <2>3 DEF Patched
    <3>2. \A i \in 2..pos : i \in 1..Len(s) /\ i # Open.block
      BY <1>2
    <3> QED
      BY <1>1, <2>5, <3>1, <3>2 DEF Grown
  <2>7. /\ Continued(m1, r1, m2, r2).fields = s2
        /\ Continued(m1, r1, m2, r2).pos = Len(s)
    BY <1>1, <1>2, <2>1 DEF Continued, WithDiff
  <2>8. c \in OpenBlocks /\ c.block = Len(s) + 1 /\ pos <= Len(s) /\ c.mem = 0 /\ c.reg = 0
    BY <1>2, <2>1 DEF OpenBlocks
  <2>9. CountedAs(Continued(m1, r1, m2, r2), c, from)
    BY <1>1, <1>2, <2>3, <2>6, <2>7, <2>8 DEF CountedAs
  <2> QED
    BY <2>8, <2>9
<1>6. ASSUME current_diff_reg_count = 0
      PROVE  \E c : /\ CountedAs(OneMoreMemory, c, from)
                    /\ c.reg = 0 /\ OneMoreMemory.reg = 0
                    /\ OneMoreMemory.mem = c.mem + 1
  <2>1. CASE m + 1 = Full
    <3>1. OneMoreMemory = Continued(Full, r, 1, 0)
      BY <1>1, <2>1 DEF OneMoreMemory
    <3>2. Full - 1 = m
      BY <1>2, <2>1, WidthAssumption
    <3>3. PICK c : CountedAs(Continued(Full, r, 1, 0), c, from) /\ c.mem = 0 /\ c.reg = 0
      BY <1>3, <1>5, <3>2
    <3>4. OneMoreMemory.mem = 1 /\ OneMoreMemory.reg = 0
      BY <3>1 DEF Continued
    <3> QED
      BY <3>1, <3>3, <3>4
  <2>2. CASE m + 1 # Full
    <3>1. OneMoreMemory = [fields |-> s, pos |-> pos, mem |-> m + 1, reg |-> r]
      BY <1>1, <2>2 DEF OneMoreMemory
    <3>2. CountedAs(OneMoreMemory, Open, from)
      BY <1>1, <1>2, <1>4, <3>1 DEF CountedAs
    <3> QED
      BY <1>1, <1>2, <1>6, <3>1, <3>2
  <2> QED
    BY <2>1, <2>2
<1>7. \E c : /\ CountedAs(OneMoreRegister, c, from)
             /\ OneMoreRegister.mem = c.mem
             /\ OneMoreRegister.reg = c.reg + 1
  <2>1. CASE r + 1 = Full
    <3>1. OneMoreRegister = Continued(m, Full, 0, 1)
      BY <1>1, <2>1 DEF OneMoreRegister
    <3>2. Full - 1 = r
      BY <1>2, <2>1, WidthAssumption
    <3>3. PICK c : CountedAs(Continued(m, Full, 0, 1), c, from) /\ c.mem = 0 /\ c.reg = 0
      BY <1>3, <1>5, <3>2
    <3>4. OneMoreRegister.mem = 0 /\ OneMoreRegister.reg = 1
      BY <3>1 DEF Continued
    <3> QED
      BY <3>1, <3>3, <3>4
  <2>2. CASE r + 1 # Full
    <3>1. OneMoreRegister = [fields |-> s, pos |-> pos, mem |-> m, reg |-> r + 1]
      BY <1>1, <2>2 DEF OneMoreRegister
    <3>2. CountedAs(OneMoreRegister, Open, from)
      BY <1>1, <1>2, <1>4, <3>1 DEF CountedAs
    <3> QED
      BY <1>2, <3>1, <3>2
  <2> QED
    BY <2>1, <2>2
<1> QED
  BY <1>6, <1>7

\* A section without events.
LEMMA WrittenInit == Init => Written
<1> SUFFICES ASSUME Init PROVE Written
  OBVIOUS
<1>1. /\ events = <<Count(0)>> /\ diff_element_count_stream_pos = NoBlock
      /\ log = <<>> /\ starts = <<1>>
  BY DEF Init, InitWriter
<1>2. Len(events) = 1 /\ Len(log) = 0 /\ Len(starts) = 1 /\ starts[1] = 1
  BY <1>1
<1>3. ~IsEventStarted
  BY <1>1 DEF IsEventStarted
<1>4. LogRecorded
  BY <1>2 DEF LogRecorded
<1>5. StartsWithin(Len(events)) /\ starts[Len(starts)] = Len(events)
  BY <1>2 DEF StartsWithin
<1> QED
  BY <1>3, <1>4, <1>5 DEF Written

\* An event is begun behind the finished ones.
LEMMA EventBegun ==
    ASSUME Bookkept, IInv, Written, ~spoilt, ~IsEventStarted,
           NEW head \in Seq(Fields), OpenBlock(head), NEW x \in Effects, current' = <<x>>,
           UNCHANGED <<log, starts, spoilt>>,
           \A s2, a : /\ s2 = events \o head \o <<Diff(0, 0)>>
                      /\ a = [at |-> Len(s2), block |-> Len(s2), mem |-> 0, reg |-> 0,
                              seen |-> <<x>>]
                      => BehindHead(s2, Len(events), a)
    PROVE  Written'
<1>1. /\ LogRecorded /\ StartsWithin(Len(events)) /\ starts[Len(starts)] = Len(events)
  BY DEF Written
<1>2. PICK s, n, g : s = events /\ n = Len(s) /\ g = Diff(0, 0)
  OBVIOUS
<1>3. s \in Seq(Fields) /\ n \in Nat /\ g \in Fields /\ Len(head) \in Nat
  BY <1>2, EmptyDiff, LenProperties DEF IInv, HeadsAnnounced
<1>4. PICK s2, pos : s2 = s \o head \o <<g>> /\ pos = n + Len(head)
  OBVIOUS
<1>5. /\ s2 \in Seq(Fields) /\ Len(s2) = pos + 1 /\ pos \in Nat /\ n <= pos
      /\ \A i \in 1..n : s2[i] = s[i]
  <2>1. PICK h : h = s \o head
    OBVIOUS
  <2>2. /\ h \in Seq(Fields) /\ Len(h) = pos /\ \A i \in 1..n : h[i] = s[i]
    BY <1>2, <1>3, <1>4, <2>1
  <2>3. s2 = Append(h, g)
    BY <1>3, <1>4, <2>1, <2>2, AppendIsConcat
  <2>4. /\ s2 \in Seq(Fields) /\ Len(s2) = Len(h) + 1
        /\ \A i \in 1..Len(h) : s2[i] = h[i]
    BY <1>3, <2>2, <2>3, AppendProperties
  <2>5. \A i \in 1..n : i \in 1..Len(h)
    BY <1>3, <1>4, <2>2
  <2> QED
    BY <1>3, <1>4, <2>2, <2>4, <2>5
<1>6. Grown(n, s2) /\ n <= Len(events)
  <2>1. \A i \in 2..n : i \in 1..n
    BY <1>3
  <2>2. n <= Len(s2) /\ \A i \in 2..n : s2[i] = s[i]
    BY <1>3, <1>5, <2>1
  <2> QED
    BY <1>2, <1>3, <1>5, <2>2 DEF Grown, Agrees
<1>7. \A i \in 1..Len(log) : Recorded(s2, starts[i], starts[i + 1], log[i])
  BY <1>1, <1>2, <1>3, <1>6, LogKept
<1>8. /\ events' = s2 /\ diff_element_count_stream_pos' = pos
      /\ current_diff_mem_count' = 0 /\ current_diff_reg_count' = 0
  BY <1>2, <1>4 DEF OpenBlock
<1>9. LogRecorded'
  BY <1>7, <1>8 DEF LogRecorded
<1>10. Recording(s2, [block |-> Len(s2), mem |-> 0, reg |-> 0], n, <<x>>)
  <2>1. PICK a : a = [at |-> Len(s2), block |-> Len(s2), mem |-> 0, reg |-> 0,
                      seen |-> <<x>>]
    OBVIOUS
  <2>2. BehindHead(s2, n, a)
    BY <1>2, <1>4, <2>1
  <2>3. n < Len(s2)
    BY <1>3, <1>5
  <2> QED
    BY <1>3, <1>5, <2>1, <2>2, <2>3, HeadRecording
<1>11. Open' = [block |-> Len(s2), mem |-> 0, reg |-> 0]
  BY <1>5, <1>8 DEF Open, OpenDiff
<1>12. Recording(events, Open, starts[Len(starts)], current)'
  BY <1>1, <1>2, <1>8, <1>10, <1>11
<1>13. StartsWithin(diff_element_count_stream_pos)'
  <2>1. ASSUME NEW i \in 1..Len(starts) PROVE starts[i] <= pos
    <3>1. starts[i] \in Nat /\ starts[i] <= n
      BY <1>1, <1>2, ElementOfSeq DEF StartsWithin, Bookkept
    <3> QED
      BY <1>3, <1>5, <3>1
  <2> QED
    BY <1>8, <2>1 DEF StartsWithin
<1>14. IsEventStarted'
  BY <1>5, <1>8 DEF IsEventStarted, NoBlock
<1> QED
  BY <1>9, <1>12, <1>13, <1>14 DEF Written

\* The head of an event, instruction or other, is what BehindHead says.
LEMMA HeadsBegun ==
    ASSUME NEW s \in Seq(Fields), Len(s) > 0, NEW s2, NEW a
    PROVE  /\ /\ s2 = s \o <<>> \o <<Diff(0, 0)>>
              /\ a = [at |-> Len(s2), block |-> Len(s2), mem |-> 0, reg |-> 0,
                      seen |-> <<Instruction>>]
              => BehindHead(s2, Len(s), a)
           /\ \A length \in Nat :
              /\ s2 = s \o <<NotInstruction, OtherType, Text(length)>> \o <<Diff(0, 0)>>
              /\ a = [at |-> Len(s2), block |-> Len(s2), mem |-> 0, reg |-> 0,
                      seen |-> <<Other(length)>>]
              => BehindHead(s2, Len(s), a)
<1>1. PICK g, n : g = Diff(0, 0) /\ n = Len(s)
  OBVIOUS
<1>2. g \in Fields /\ IsPlainDiff(g) /\ n \in Nat
  <2>1. Diff(0, 0)[1] = "diff"
    BY DEF Diff
  <2> QED
    BY <1>1, <2>1, EmptyDiff, LenProperties DEF IsPlainDiff
<1>3. ASSUME s2 = s \o <<>> \o <<g>>,
             a = [at |-> Len(s2), block |-> Len(s2), mem |-> 0, reg |-> 0,
                  seen |-> <<Instruction>>]
      PROVE  BehindHead(s2, n, a)
  <2>1. s2 = Append(s, g)
    <3>1. s \o <<>> = s
      BY ConcatEmptySeq
    <3> QED
      BY <1>2, <1>3, <3>1, AppendIsConcat
  <2>2. Len(s2) = n + 1 /\ s2[n + 1] = g
    BY <1>1, <1>2, <2>1, AppendProperties
  <2> QED
    BY <1>2, <1>3, <2>2 DEF BehindHead
<1>4. ASSUME NEW length \in Nat,
             s2 = s \o <<NotInstruction, OtherType, Text(length)>> \o <<g>>,
             a = [at |-> Len(s2), block |-> Len(s2), mem |-> 0, reg |-> 0,
                  seen |-> <<Other(length)>>]
      PROVE  BehindHead(s2, n, a)
  <2>1. PICK head, h : /\ head = <<NotInstruction, OtherType, Text(length)>>
                       /\ h = s \o head
    OBVIOUS
  <2>2. head \in Seq(Fields) /\ Len(head) = 3
    BY <2>1, OtherHead DEF HeadsAnnounced
  <2>3. /\ h \in Seq(Fields) /\ Len(h) = n + 3
        /\ \A i \in 1..3 : h[n + i] = head[i]
    <3>1. /\ h \in Seq(Fields) /\ Len(h) = Len(s) + Len(head)
          /\ \A i \in 1..Len(s) + Len(head) :
                h[i] = IF i <= Len(s) THEN s[i] ELSE head[i - Len(s)]
      BY <2>1, <2>2, ConcatProperties
    <3>2. \A i \in 1..3 : n + i \in 1..(n + 3) /\ ~(n + i <= n) /\ (n + i) - n = i
      BY <1>2
    <3> QED
      BY <1>1, <2>2, <3>1, <3>2
  <2>4. s2 = Append(h, g)
    BY <1>2, <1>4, <2>1, <2>3, AppendIsConcat
  <2>5. /\ Len(s2) = n + 4 /\ s2[n + 4] = g
        /\ \A i \in 1..(n + 3) : s2[i] = h[i]
    <3>1. Len(s2) = Len(h) + 1 /\ s2[Len(h) + 1] = g /\ \A i \in 1..Len(h) : s2[i] = h[i]
      BY <1>2, <2>3, <2>4, AppendProperties
    <3>2. Len(h) + 1 = n + 4
      BY <1>2, <2>3
    <3> QED
      BY <2>3, <3>1, <3>2
  <2>6. \A i \in 1..3 : s2[n + i] = head[i]
    <3>1. \A i \in 1..3 : n + i \in 1..(n + 3)
      BY <1>2
    <3> QED
      BY <2>3, <2>5, <3>1
  <2>7. Stored(s2, n, head)
    BY <1>2, <2>2, <2>5, <2>6 DEF Stored
  <2>8. /\ a.block = a.at /\ a.mem = 0 /\ a.reg = 0 /\ a.at = n + 4 /\ a.at <= Len(s2)
        /\ a.seen = <<Other(length)>> /\ IsPlainDiff(s2[n + 4])
    BY <1>2, <1>4, <2>5
  <2> QED
    BY <2>1, <2>7, <2>8 DEF BehindHead
<1> QED
  BY <1>1, <1>3, <1>4

\* A complete write is recorded as an effect of the open event.
LEMMA EventGrown ==
    ASSUME Bookkept, IInv, Written, ~spoilt, IsEventStarted,
           NEW t, NEW x, NEW counted, NEW c, CountedAs(counted, c, starts[Len(starts)]),
           \/ /\ MemoryWritten(t, x) /\ c.reg = 0
              /\ counted.mem = c.mem + 1 /\ counted.reg = 0
           \/ /\ RegisterWritten(t, x)
              /\ counted.mem = c.mem /\ counted.reg = c.reg + 1,
           WriteFields(counted, t, TRUE, x)
    PROVE  Written'
<1>1. /\ LogRecorded /\ StartsWithin(diff_element_count_stream_pos)
      /\ Recording(events, Open, starts[Len(starts)], current)
  BY DEF Written
<1>2. PICK n, from, s, pos, m, r :
         /\ n = diff_element_count_stream_pos /\ from = starts[Len(starts)]
         /\ s = counted.fields /\ pos = counted.pos /\ m = counted.mem /\ r = counted.reg
  OBVIOUS
<1>3. /\ from \in Nat \ {0} /\ current \in Seq(Effects) /\ n \in Nat
      /\ n < Len(events) /\ Len(events) \in Nat
  BY <1>2, OpenTyped
<1>4. /\ c \in OpenBlocks /\ c.block = pos + 1 /\ Recording(s, c, from, current)
      /\ Grown(n, s) /\ pos \in Nat /\ n <= pos
  BY <1>2 DEF CountedAs
<1>5. s \in Seq(Fields) /\ Len(s) \in Nat /\ Len(events) <= Len(s)
  BY <1>4, LenProperties DEF Grown, Agrees
<1>6. t \in Seq(Fields) /\ x \in Seq(Effects) /\ Len(t) \in Nat
  BY WrittenPlain, LenProperties
<1>7. PICK s2, c2 : /\ s2 = s \o t
                    /\ c2 = [block |-> pos + 1, mem |-> m, reg |-> r]
  OBVIOUS
<1>8. c2 \in OpenBlocks /\ c2.block = c.block /\ c2.mem = m /\ c2.reg = r
  <2>1. c.mem \in Nat /\ c.reg \in Nat
    BY <1>4 DEF OpenBlocks
  <2>2. m \in Nat /\ r \in Nat
    BY <1>2, <2>1
  <2> QED
    BY <1>4, <1>7, <2>2 DEF OpenBlocks
<1>9. Recording(s2, c2, from, current \o x)
  <2>1. \/ /\ MemoryWritten(t, x) /\ c.reg = 0
           /\ c2.mem = c.mem + 1 /\ c2.reg = 0
        \/ /\ RegisterWritten(t, x)
           /\ c2.mem = c.mem /\ c2.reg = c.reg + 1
    BY <1>2, <1>8
  <2>2. Recording(s \o t, c2, from, current \o x)
    BY <1>3, <1>4, <1>5, <1>8, <2>1, WriteRecorded
  <2> QED
    BY <1>7, <2>2
<1>10. /\ s2 \in Seq(Fields) /\ Len(s2) = Len(s) + Len(t)
       /\ \A i \in 1..Len(s) : s2[i] = s[i]
  <2>1. /\ s2 \in Seq(Fields) /\ Len(s2) = Len(s) + Len(t)
        /\ \A i \in 1..Len(s) + Len(t) : s2[i] = IF i <= Len(s) THEN s[i] ELSE t[i - Len(s)]
    BY <1>5, <1>6, <1>7, ConcatProperties
  <2>2. \A i \in 1..Len(s) : i \in 1..Len(s) + Len(t) /\ i <= Len(s)
    BY <1>5, <1>6
  <2> QED
    BY <2>1, <2>2
<1>11. Grown(n, s2)
  <2>1. events \in Seq(Fields) /\ Len(events) <= Len(s2)
    BY <1>3, <1>4, <1>5, <1>6, <1>10 DEF Grown, Agrees
  <2>2. ASSUME NEW i \in 2..Len(events)
        PROVE  /\ s2[i] = s[i]
               /\ s[i] = events[i] \/ (IsPlainDiff(events[i]) /\ IsPlainDiff(s[i]))
    <3>1. i \in 1..Len(s)
      BY <1>3, <1>5
    <3> QED
      BY <1>4, <1>10, <3>1 DEF Grown, Agrees
  <2>3. Agrees(events, s2)
    BY <1>10, <2>1, <2>2 DEF Agrees
  <2>4. \A i \in 2..n : i \in 2..Len(events) /\ s[i] = events[i]
    BY <1>3, <1>4 DEF Grown
  <2> QED
    BY <2>2, <2>3, <2>4 DEF Grown
<1>12. /\ events' = s2 /\ diff_element_count_stream_pos' = pos
       /\ current_diff_mem_count' = m /\ current_diff_reg_count' = r
       /\ current' = current \o x
       /\ UNCHANGED <<log, starts, spoilt>>
  <2>1. spoilt = FALSE
    BY DEF Bookkept
  <2>2. spoilt' = (spoilt \/ ~TRUE)
    BY Zenon DEF WriteFields
  <2>3. spoilt' = spoilt
    BY <2>1, <2>2
  <2> QED
    BY <1>2, <1>7, <2>3 DEF WriteFields
<1>13. LogRecorded'
  <2>1. n <= Len(events) /\ StartsWithin(n)
    BY <1>1, <1>2, <1>3
  <2>2. \A i \in 1..Len(log) : Recorded(s2, starts[i], starts[i + 1], log[i])
    BY <1>1, <1>3, <1>11, <2>1, LogKept
  <2> QED
    BY <1>12, <2>2 DEF LogRecorded
<1>14. Open' = c2
  BY <1>7, <1>12 DEF Open, OpenDiff
<1>15. Recording(events, Open, starts[Len(starts)], current)'
  BY <1>2, <1>9, <1>12, <1>14
<1>16. StartsWithin(diff_element_count_stream_pos)'
  <2>1. ASSUME NEW i \in 1..Len(starts) PROVE starts[i] <= pos
    <3>1. starts[i] \in Nat /\ starts[i] <= n
      BY <1>1, <1>2, ElementOfSeq DEF StartsWithin, Bookkept
    <3> QED
      BY <1>3, <1>4, <3>1
  <2> QED
    BY <1>12, <2>1 DEF StartsWithin
<1>17. IsEventStarted'
  BY <1>4, <1>12 DEF IsEventStarted, NoBlock
<1> QED
  BY <1>13, <1>15, <1>16, <1>17 DEF Written

\* The open event is finished, and becomes the last of the log.
LEMMA EventFinished ==
    ASSUME Bookkept, IInv, Written, ~spoilt, FinishEvent
    PROVE  Written'
<1>1. IsEventStarted
  BY DEF FinishEvent
<1>2. /\ LogRecorded /\ StartsWithin(diff_element_count_stream_pos)
      /\ Recording(events, Open, starts[Len(starts)], current)
  BY <1>1 DEF Written
<1>3. PICK n, from, s, l, c : /\ n = diff_element_count_stream_pos
                              /\ from = starts[Len(starts)] /\ s = events
                              /\ l = Len(log) /\ c = Open
  OBVIOUS
<1>4. /\ c \in OpenBlocks /\ c.block = n + 1 /\ c.block \in 2..Len(s) /\ IsPlainDiff(s[c.block])
      /\ c.mem = current_diff_mem_count /\ c.reg = current_diff_reg_count
      /\ c.mem \in 0..(Full - 1) /\ c.reg \in 0..(Full - 1)
      /\ s \in Seq(Fields) /\ Len(s) \in Nat /\ n \in Nat
      /\ from \in Nat \ {0} /\ current \in Seq(Effects)
  BY <1>1, <1>3, OpenTyped
<1>5. PICK f, s2 : f = Diff(c.mem, c.reg) /\ s2 = [s EXCEPT ![c.block] = f]
  OBVIOUS
<1>6. Recorded(s2, from, Len(s), current) /\ Patched(s, c.block, f, s2)
  BY <1>2, <1>3, <1>4, <1>5, EventRecorded
<1>7. Len(s2) = Len(s)
  <2>1. f \in Fields
    <3>1. c.mem \in 0..Full /\ c.reg \in 0..Full /\ ~(c.mem = Full /\ c.reg = Full)
      BY <1>4, WidthAssumption
    <3> QED
      BY <1>5, <3>1, DiffIsField
  <2>2. c.block \in 1..Len(s)
    BY <1>4
  <2> QED
    BY <1>4, <1>5, <2>1, <2>2, ExceptSeq
<1>8. Grown(n, s2)
  <2>1. IsPlainDiff(f)
    <3>1. c.mem \in 0..Full /\ c.reg \in 0..Full /\ ~(c.mem = Full /\ c.reg = Full)
      BY <1>4, WidthAssumption
    <3>2. f # NotInstruction
      BY <1>5, <3>1, DiffIsField
    <3> QED
      BY <1>5, <3>2 DEF IsPlainDiff, Diff
  <2>2. Agrees(s, s2)
    BY <1>4, <1>6, <2>1, PatchAgrees
  <2>3. \A i \in 1..Len(s) : i # c.block => s2[i] = s[i]
    BY <1>6 DEF Patched
  <2>4. \A i \in 2..n : i \in 1..Len(s) /\ i # c.block
    BY <1>4
  <2> QED
    BY <1>3, <2>2, <2>3, <2>4 DEF Grown
<1>9. /\ events' = s2 /\ diff_element_count_stream_pos' = NoBlock
      /\ log' = Append(log, current) /\ starts' = Append(starts, Len(s))
      /\ UNCHANGED spoilt
  BY <1>3, <1>4, <1>5 DEF FinishEvent, WithDiff, Open, OpenDiff
<1>10. /\ log \in Seq(Seq(Effects)) /\ starts \in Seq(Nat \ {0}) /\ Len(starts) = l + 1
       /\ l \in Nat /\ Len(s) \in Nat \ {0}
  BY <1>3, <1>4, LenProperties DEF Bookkept
<1>11. /\ Len(log') = l + 1 /\ log'[l + 1] = current
       /\ \A i \in 1..l : log'[i] = log[i]
  BY <1>3, <1>4, <1>9, <1>10, AppendProperties
<1>12. /\ Len(starts') = l + 2 /\ starts'[l + 2] = Len(s)
       /\ \A i \in 1..(l + 1) : starts'[i] = starts[i]
  <2>1. /\ Len(starts') = Len(starts) + 1 /\ starts'[Len(starts) + 1] = Len(s)
        /\ \A i \in 1..Len(starts) : starts'[i] = starts[i]
    BY <1>9, <1>10, AppendProperties
  <2>2. Len(starts) + 1 = l + 2
    BY <1>10
  <2> QED
    BY <1>10, <2>1, <2>2
<1>13. LogRecorded'
  <2>1. n <= Len(events) /\ StartsWithin(n)
    BY <1>2, <1>3, <1>4
  <2>2. \A i \in 1..Len(log) : Recorded(s2, starts[i], starts[i + 1], log[i])
    BY <1>2, <1>4, <1>8, <2>1, LogKept
  <2>3. ASSUME NEW i \in 1..(l + 1)
        PROVE  Recorded(s2, starts'[i], starts'[i + 1], log'[i])
    <3>1. CASE i = l + 1
      <4>1. /\ starts'[i] = from /\ starts'[i + 1] = Len(s) /\ log'[i] = current
        BY <1>3, <1>10, <1>11, <1>12, <3>1
      <4> QED
        BY <1>6, <4>1
    <3>2. CASE i # l + 1
      <4>1. i \in 1..l /\ i \in 1..(l + 1) /\ i + 1 \in 1..(l + 1)
        BY <1>10, <3>2
      <4>2. starts'[i] = starts[i] /\ starts'[i + 1] = starts[i + 1] /\ log'[i] = log[i]
        BY <1>11, <1>12, <4>1
      <4> QED
        BY <1>3, <2>2, <4>1, <4>2
    <3> QED
      BY <3>1, <3>2
  <2> QED
    BY <1>9, <1>11, <2>3 DEF LogRecorded
<1>14. StartsWithin(Len(events))' /\ (starts[Len(starts)] = Len(events))'
  <2>1. ASSUME NEW i \in 1..(l + 2) PROVE starts'[i] <= Len(s)
    <3>1. CASE i = l + 2
      BY <1>4, <1>12, <3>1
    <3>2. CASE i # l + 2
      <4>1. i \in 1..(l + 1)
        BY <1>10, <3>2
      <4>2. starts[i] \in Nat /\ starts[i] <= n
        BY <1>2, <1>3, <1>10, <4>1, ElementOfSeq DEF StartsWithin
      <4> QED
        BY <1>4, <1>12, <4>1, <4>2
    <3> QED
      BY <3>1, <3>2
  <2> QED
    BY <1>7, <1>9, <1>12, <2>1 DEF StartsWithin
<1>15. ~IsEventStarted'
  BY <1>9 DEF IsEventStarted
<1> QED
  BY <1>13, <1>14, <1>15 DEF Written

\* do_finalize patches the first field only.
LEMMA SectionFinalized ==
    ASSUME Bookkept, IInv, Written, ~spoilt, DoFinalize
    PROVE  Written'
<1>1. PICK s, f, n : s = events /\ f = Count(event_count) /\ n = Len(s)
  OBVIOUS
<1>2. s \in Seq(Fields) /\ n \in Nat /\ n > 0 /\ f \in Fields
  BY <1>1, LenProperties DEF Bookkept, IInv, HeadsAnnounced, Count, Fields
<1>3. PICK s2 : s2 = [s EXCEPT ![1] = f]
  OBVIOUS
<1>4. /\ s2 \in Seq(Fields) /\ Len(s2) = n
      /\ \A i \in 2..n : s2[i] = s[i]
  <2>1. 1 \in 1..Len(s)
    BY <1>1, <1>2
  <2>2. /\ s2 \in Seq(Fields) /\ Len(s2) = n
        /\ \A i \in 1..n : s2[i] = IF i = 1 THEN f ELSE s[i]
    BY <1>1, <1>2, <1>3, <2>1, ExceptSeq
  <2>3. \A i \in 2..n : i \in 1..n /\ i # 1
    BY <1>2
  <2> QED
    BY <2>2, <2>3
<1>5. Agrees(s, s2)
  BY <1>1, <1>2, <1>4 DEF Agrees
<1>6. /\ events' = s2
      /\ UNCHANGED <<diff_element_count_stream_pos, current_diff_mem_count,
                     current_diff_reg_count, log, current, starts, spoilt>>
  BY <1>1, <1>3 DEF DoFinalize, block, history
<1>7. PICK m : m = IF IsEventStarted THEN diff_element_count_stream_pos ELSE Len(events)
  OBVIOUS
<1>8. m \in Nat /\ m <= n /\ StartsWithin(m)
  <2>1. CASE IsEventStarted
    <3>1. /\ diff_element_count_stream_pos \in Nat
          /\ diff_element_count_stream_pos + 1 \in 2..Len(events)
      BY <2>1, OpenTyped
    <3> QED
      BY <1>1, <1>2, <1>7, <2>1, <3>1 DEF Written
  <2>2. CASE ~IsEventStarted
    BY <1>1, <1>2, <1>7, <2>2 DEF Written
  <2> QED
    BY <2>1, <2>2
<1>9. LogRecorded'
  <2>1. Grown(m, s2)
    <3>1. \A i \in 2..m : i \in 2..n
      BY <1>2, <1>8
    <3> QED
      BY <1>1, <1>4, <1>5, <3>1 DEF Grown
  <2>2. LogRecorded
    BY DEF Written
  <2>3. \A i \in 1..Len(log) : Recorded(s2, starts[i], starts[i + 1], log[i])
    BY <1>1, <1>8, <2>1, <2>2, LogKept
  <2> QED
    BY <1>6, <2>3 DEF LogRecorded
<1>10. IsEventStarted' = IsEventStarted /\ StartsWithin(m)' /\ Len(events') = Len(events)
  <2>1. \A i \in 1..Len(starts) : starts[i] <= m
    BY <1>8 DEF StartsWithin
  <2> QED
    BY <1>1, <1>4, <1>6, <2>1 DEF IsEventStarted, StartsWithin
<1>11. CASE IsEventStarted
  <2>1. PICK from, c : from = starts[Len(starts)] /\ c = Open
    OBVIOUS
  <2>2. c \in OpenBlocks /\ from \in Nat \ {0} /\ current \in Seq(Effects)
    BY <1>11, <2>1, OpenTyped
  <2>3. Recording(s, c, from, current)
    BY <1>1, <1>11, <2>1 DEF Written
  <2>4. Recording(s2, c, from, current)
    BY <1>1, <1>4, <1>5, <2>2, <2>3, RecordingKept
  <2>5. Open' = c
    BY <1>6, <2>1 DEF Open, OpenDiff
  <2>6. Recording(events, Open, starts[Len(starts)], current)'
    BY <1>6, <2>1, <2>4, <2>5
  <2>7. StartsWithin(diff_element_count_stream_pos)'
    BY <1>6, <1>7, <1>8, <1>11 DEF StartsWithin
  <2> QED
    BY <1>9, <1>10, <1>11, <2>6, <2>7 DEF Written
<1>12. CASE ~IsEventStarted
  <2>1. StartsWithin(Len(events)) /\ starts[Len(starts)] = Len(events)
    BY <1>12 DEF Written
  <2>2. StartsWithin(Len(events))' /\ (starts[Len(starts)] = Len(events))'
    BY <1>1, <1>4, <1>6, <2>1 DEF StartsWithin
  <2> QED
    BY <1>9, <1>10, <1>12, <2>2 DEF Written
<1> QED
  BY <1>11, <1>12

\* Every call of the writer leaves a section that says what was recorded.
LEMMA WrittenStep ==
    ASSUME Bookkept, IInv, Written, NextWriter
    PROVE  Written'
<1> SUFFICES ASSUME ~spoilt' PROVE Written'
  BY DEF Written
<1>1. ~spoilt
  BY DEF NextWriter, StartEventInstruction, StartEventOther, StartEventOtherTooLong,
         WriteMemory, WriteRegister, WriteRegisterAction, WriteFields, FinishEvent,
         DoFinalize, history
<1>2. events \in Seq(Fields) /\ Len(events) > 0
  BY DEF IInv, HeadsAnnounced
<1>3. ASSUME IsEventStarted
      PROVE  /\ starts[Len(starts)] \in Nat \ {0}
             /\ Recording(events, Open, starts[Len(starts)], current)
  BY <1>1, <1>3, OpenTyped DEF Written
<1>4. CASE StartEventInstruction
  <2>1. <<>> \in Seq(Fields) /\ Instruction \in Effects
    BY DEF Instruction, Effects
  <2>2. \A s2, a : /\ s2 = events \o <<>> \o <<Diff(0, 0)>>
                   /\ a = [at |-> Len(s2), block |-> Len(s2), mem |-> 0, reg |-> 0,
                           seen |-> <<Instruction>>]
                   => BehindHead(s2, Len(events), a)
    BY <1>2, HeadsBegun
  <2> QED
    BY <1>1, <1>4, <2>1, <2>2, EventBegun DEF StartEventInstruction, CanStart
<1>5. ASSUME NEW length \in Description, StartEventOther(length)
      PROVE  Written'
  <2>1. PICK head, x : head = <<NotInstruction, OtherType, Text(length)>> /\ x = Other(length)
    OBVIOUS
  <2>2. length \in Nat
    BY InputAssumption
  <2>3. head \in Seq(Fields)
    BY <2>1, <2>2, OtherHead DEF HeadsAnnounced
  <2>4. x \in Effects
    BY <2>1, <2>2 DEF Other, Effects
  <2>5. \A s2, a : /\ s2 = events \o head \o <<Diff(0, 0)>>
                   /\ a = [at |-> Len(s2), block |-> Len(s2), mem |-> 0, reg |-> 0,
                           seen |-> <<x>>]
                   => BehindHead(s2, Len(events), a)
    BY <1>2, <2>1, <2>2, HeadsBegun
  <2> QED
    BY <1>1, <1>5, <2>1, <2>3, <2>4, <2>5, EventBegun DEF StartEventOther, CanStart
<1>6. ASSUME NEW write \in MemoryWrite, WriteMemory(write[1], write[2])
      PROVE  Written'
  <2>1. PICK address, size : address = write[1] /\ size = write[2]
    OBVIOUS
  <2>2. PICK t, x, complete : /\ t = MemoryFields(address, size)
                              /\ x = MemoryEffect(address, size)
                              /\ complete = (AddressFits(address) /\ SizeFits(size))
    OBVIOUS
  <2>3. /\ IsEventStarted /\ current_diff_reg_count = 0
        /\ WriteFields(OneMoreMemory, t, complete, x)
    BY <1>6, <2>1, <2>2 DEF WriteMemory, CanAdd
  <2>4. AddressFits(address) /\ SizeFits(size) /\ WriteFields(OneMoreMemory, t, TRUE, x)
    BY <2>2, <2>3 DEF WriteFields
  <2>5. MemoryWritten(t, x)
    BY <2>1, <2>2, <2>4, InputAssumption DEF MemoryWritten
  <2>6. PICK c : /\ CountedAs(OneMoreMemory, c, starts[Len(starts)])
                 /\ c.reg = 0 /\ OneMoreMemory.reg = 0
                 /\ OneMoreMemory.mem = c.mem + 1
    BY <1>3, <2>3, CountedRecording
  <2>7. PICK counted : counted = OneMoreMemory
    OBVIOUS
  <2> QED
    BY <1>1, <2>3, <2>4, <2>5, <2>6, <2>7, EventGrown
<1>7. ASSUME IsEventStarted, NEW t, NEW x, RegisterWritten(t, x),
             WriteFields(OneMoreRegister, t, TRUE, x)
      PROVE  Written'
  <2>1. PICK c : /\ CountedAs(OneMoreRegister, c, starts[Len(starts)])
                 /\ OneMoreRegister.mem = c.mem
                 /\ OneMoreRegister.reg = c.reg + 1
    BY <1>3, <1>7, CountedRecording
  <2>2. PICK counted : counted = OneMoreRegister
    OBVIOUS
  <2> QED
    BY <1>1, <1>7, <2>1, <2>2, EventGrown
<1>8. ASSUME NEW id \in Register, WriteRegister(id)
      PROVE  Written'
  <2>1. RegisterWritten(RegisterFields(id), RegisterEffect(id))
    BY DEF RegisterWritten
  <2>2. IsEventStarted /\ WriteFields(OneMoreRegister, RegisterFields(id), TRUE, RegisterEffect(id))
    BY <1>8 DEF WriteRegister, CanAdd
  <2> QED
    BY <1>7, <2>1, <2>2
<1>9. ASSUME NEW id \in ActionId, WriteRegisterAction(id)
      PROVE  Written'
  <2>1. id <= Escape
    BY <1>9 DEF WriteRegisterAction, WriteFields
  <2>2. id \in Nat /\ id % (Escape + 1) \in Operation /\ Escape \in Nat
    BY <1>9, InputAssumption, WidthAssumption DEF WriteRegisterAction
  <2>3. id % (Escape + 1) = id
    BY <2>1, <2>2
  <2>4. id \in Operation
    BY <2>2, <2>3
  <2>5. RegisterWritten(<<Id(id)>>, OperationEffect(id))
    BY <2>4 DEF RegisterWritten
  <2>6. IsEventStarted /\ WriteFields(OneMoreRegister, <<Id(id)>>, TRUE, OperationEffect(id))
    BY <1>9, <2>1 DEF WriteRegisterAction, CanAdd
  <2> QED
    BY <1>7, <2>5, <2>6
<1>10. CASE FinishEvent
  BY <1>1, <1>10, EventFinished
<1>11. CASE DoFinalize
  BY <1>1, <1>11, SectionFinalized
<1>12. ASSUME NEW length \in Description, StartEventOtherTooLong(length)
       PROVE  FALSE
  BY <1>12 DEF StartEventOtherTooLong
<1> QED
  BY <1>4, <1>5, <1>6, <1>8, <1>9, <1>10, <1>11, <1>12 DEF NextWriter

-----------------------------------------------------------------------------
(* The reader's own state, of any trace.                                    *)

Todo == [mem : 0..(Full - 1), reg : 0..(Full - 1), more : BOOLEAN]

ReaderTyped ==
    /\ mode \in {"closed", "between", "inside", "misread", "thrown"}
    /\ position \in Nat
    /\ current_event_id \in 0..Len(log)
    /\ todo \in Todo
    /\ mode = "closed" => current_event_id = 0 /\ seen = <<>>
    /\ mode # "closed" => finalized
    /\ mode = "inside" => current_event_id < Len(log)

\* Nothing is written any more once the section is finalized.
LEMMA WritesBeforeFinal == NextWriter => ~finalized
BY DEF NextWriter, StartEventInstruction, StartEventOther, StartEventOtherTooLong,
       WriteMemory, WriteRegister, WriteRegisterAction, FinishEvent, DoFinalize,
       CanStart, CanAdd

\* What Ahead says of one, two, three and four kinds of fields.
LEMMA AheadIs ==
    ASSUME NEW a, NEW b, NEW c, NEW d
    PROVE  /\ Ahead(<<a>>) <=> /\ position + 1 <= Len(events)
                               /\ events[position + 1][1] = a
           /\ Ahead(<<a, b>>) <=> /\ position + 2 <= Len(events)
                                  /\ events[position + 1][1] = a
                                  /\ events[position + 2][1] = b
           /\ Ahead(<<a, b, c>>) <=> /\ position + 3 <= Len(events)
                                     /\ events[position + 1][1] = a
                                     /\ events[position + 2][1] = b
                                     /\ events[position + 3][1] = c
           /\ Ahead(<<a, b, c, d>>) <=> /\ position + 4 <= Len(events)
                                        /\ events[position + 1][1] = a
                                        /\ events[position + 2][1] = b
                                        /\ events[position + 3][1] = c
                                        /\ events[position + 4][1] = d
<1>1. /\ \A i : i \in 1..1 <=> i = 1
      /\ \A i : i \in 1..2 <=> i = 1 \/ i = 2
      /\ \A i : i \in 1..3 <=> i = 1 \/ i = 2 \/ i = 3
      /\ \A i : i \in 1..4 <=> i = 1 \/ i = 2 \/ i = 3 \/ i = 4
  OBVIOUS
<1>2. PICK k : k = <<a>>
  OBVIOUS
<1>3. Len(k) = 1 /\ k[1] = a
  BY <1>2
<1>4. Ahead(k) <=> position + 1 <= Len(events) /\ events[position + 1][1] = a
  BY <1>1, <1>3 DEF Ahead
<1>5. PICK l : l = <<a, b>>
  OBVIOUS
<1>6. Len(l) = 2 /\ l[1] = a /\ l[2] = b
  BY <1>5
<1>7. Ahead(l) <=> /\ position + 2 <= Len(events)
                   /\ events[position + 1][1] = a /\ events[position + 2][1] = b
  BY <1>1, <1>6 DEF Ahead
<1>8. PICK m : m = <<a, b, c>>
  OBVIOUS
<1>9. Len(m) = 3 /\ m[1] = a /\ m[2] = b /\ m[3] = c
  BY <1>8
<1>10. Ahead(m) <=> /\ position + 3 <= Len(events)
                    /\ events[position + 1][1] = a /\ events[position + 2][1] = b
                    /\ events[position + 3][1] = c
  BY <1>1, <1>9 DEF Ahead
<1>11. PICK n : n = <<a, b, c, d>>
  OBVIOUS
<1>12. Len(n) = 4 /\ n[1] = a /\ n[2] = b /\ n[3] = c /\ n[4] = d
  BY <1>11
<1>13. Ahead(n) <=> /\ position + 4 <= Len(events)
                    /\ events[position + 1][1] = a /\ events[position + 2][1] = b
                    /\ events[position + 3][1] = c /\ events[position + 4][1] = d
  BY <1>1, <1>12 DEF Ahead
<1> QED
  BY <1>2, <1>4, <1>5, <1>7, <1>8, <1>10, <1>11, <1>13

\* The counts of a diff that is read are of 4 bits, whatever was read before.
LEMMA LoadTyped ==
    ASSUME Bookkept, NEW i \in 1..Len(events), events[i][1] = "diff", Load(i)
    PROVE  /\ todo' \in Todo
           /\ todo'.mem = MemOf(events, NoneOpen, i)
           /\ todo'.reg = RegOf(events, NoneOpen, i)
           /\ todo'.more = More(events, i)
<1>1. PICK f : f = events[i]
  OBVIOUS
<1>2. f \in BoundedFields
  BY <1>1, ElementOfSeq DEF Bookkept
<1>3. f[2] \in Nat /\ f[3] \in Nat /\ f[2] <= Full /\ f[3] <= Full
  BY <1>1, <1>2 DEF BoundedFields, Fields
<1>4. Announced(f[2]) \in 0..(Full - 1) /\ Announced(f[3]) \in 0..(Full - 1)
  BY <1>3, WidthAssumption DEF Announced
<1>5. todo' = [mem |-> Announced(f[2]), reg |-> Announced(f[3]), more |-> Full \in {f[2], f[3]}]
  BY <1>1 DEF Load
<1>6. i # NoneOpen.block
  BY DEF NoneOpen
<1> QED
  BY <1>1, <1>4, <1>5, <1>6 DEF Todo, MemOf, RegOf, More

\* A reader that was not opened yet.
LEMMA ReaderTypedInit == Init => ReaderTyped
<1> SUFFICES ASSUME Init PROVE ReaderTyped
  OBVIOUS
<1>1. /\ mode = "closed" /\ position = 0 /\ current_event_id = 0 /\ todo = NoTodo
      /\ seen = <<>> /\ log = <<>>
  BY DEF Init, InitWriter
<1>2. todo \in Todo
  BY <1>1, WidthAssumption DEF NoTodo, Todo
<1>3. current_event_id \in 0..Len(log)
  BY <1>1
<1> QED
  BY <1>1, <1>2, <1>3 DEF ReaderTyped

\* A step that leaves the writer alone, and ends anywhere but closed.
LEMMA ReaderTypedMove ==
    ASSUME Bookkept, finalized, UNCHANGED writerVars,
           mode' \in {"between", "inside", "misread", "thrown"}, position' \in Nat,
           todo' \in Todo, current_event_id' \in 0..Len(log),
           mode' = "inside" => current_event_id' < Len(log)
    PROVE  ReaderTyped'
BY DEF ReaderTyped, writerVars, history

\* Reading a head; there is one only before the end of the log.
LEMMA HeadTyped ==
    ASSUME Bookkept, ReaderTyped, ReadHead
    PROVE  ReaderTyped' /\ current_event_id < Len(log)
<1>1. /\ mode = "between" /\ finalized /\ position \in Nat /\ todo \in Todo
      /\ current_event_id \in 0..Len(log) /\ UNCHANGED writerVars
  BY DEF ReaderTyped, ReadHead
<1>2. current_event_id < Len(log)
  <2>1. events[1] = Count(event_count) /\ Len(log) = event_count
    BY <1>1 DEF Bookkept
  <2> QED
    BY <2>1 DEF ReadHead, ReadEventCount, Count
<1>3. Len(events) \in Nat
  BY LenProperties DEF Bookkept
<1>4. CASE ReadInstruction
  <2>1. position + 1 <= Len(events) /\ events[position + 1][1] = "diff"
    BY <1>4, AheadIs DEF ReadInstruction
  <2>2. position + 1 \in 1..Len(events)
    BY <1>1, <1>3, <2>1
  <2>3. todo' \in Todo
    BY <1>4, <2>1, <2>2, LoadTyped DEF ReadInstruction
  <2>4. mode' = "inside" /\ position' \in Nat /\ current_event_id' = current_event_id
    BY <1>1, <1>4 DEF ReadInstruction
  <2> QED
    BY <1>1, <1>2, <2>3, <2>4, ReaderTypedMove
<1>5. CASE ReadOther
  <2>1. Ahead(<<"diff", "type", "string", "diff">>)
    BY <1>5 DEF ReadOther
  <2>2. position + 4 <= Len(events) /\ events[position + 4][1] = "diff"
    <3>1. PICK kinds : kinds = <<"diff", "type", "string", "diff">>
      OBVIOUS
    <3>2. Len(kinds) = 4 /\ kinds[4] = "diff" /\ 4 \in 1..4
      BY <3>1
    <3>3. Ahead(kinds)
      BY <2>1, <3>1
    <3> QED
      BY <3>2, <3>3 DEF Ahead
  <2>3. position + 4 \in 1..Len(events)
    BY <1>1, <1>3, <2>2
  <2>4. Load(position + 4)
    BY <1>5 DEF ReadOther
  <2>5. todo' \in Todo
    BY <2>2, <2>3, <2>4, LoadTyped
  <2>6. mode' = "inside" /\ position' \in Nat /\ current_event_id' = current_event_id
    BY <1>1, <1>5 DEF ReadOther
  <2> QED
    BY <1>1, <1>2, <2>5, <2>6, ReaderTypedMove
<1>6. CASE Misread
  <2>1. /\ mode' = "misread" /\ position' \in Nat /\ todo' \in Todo
        /\ current_event_id' = current_event_id
    BY <1>1, <1>6 DEF Misread
  <2> QED
    BY <1>1, <1>2, <2>1, ReaderTypedMove
<1> QED
  BY <1>2, <1>4, <1>5, <1>6 DEF ReadHead

\* Reading a write, a continuation, or the end of an event.
LEMMA InsideTyped ==
    ASSUME Bookkept, ReaderTyped, InsideStep
    PROVE  ReaderTyped'
<1>1. /\ mode = "inside" /\ finalized /\ position \in Nat /\ todo \in Todo
      /\ current_event_id \in 0..Len(log) /\ current_event_id < Len(log)
      /\ UNCHANGED writerVars /\ Len(events) \in Nat /\ Len(log) \in Nat
  BY LenProperties DEF ReaderTyped, InsideStep, ReadMemory, ReadRegister, ReadContinuation,
         ReadDone, BlockRead, Bookkept
<1>2. PICK m, r, more : /\ todo = [mem |-> m, reg |-> r, more |-> more]
                        /\ m \in 0..(Full - 1) /\ r \in 0..(Full - 1) /\ more \in BOOLEAN
                        /\ todo.mem = m /\ todo.reg = r
  BY <1>1 DEF Todo
<1>3. CASE Misread
  <2>1. /\ mode' = "misread" /\ position' \in Nat /\ todo' \in Todo
        /\ current_event_id' = current_event_id
    BY <1>1, <1>3 DEF Misread
  <2> QED
    BY <1>1, <2>1, ReaderTypedMove
<1>4. ASSUME position' \in Nat, todo' \in Todo, UNCHANGED <<mode, current_event_id>>
      PROVE  ReaderTyped'
  BY <1>1, <1>4, ReaderTypedMove
<1>5. ASSUME NEW size, NEW fields \in Nat, MemoryAhead(size, fields), m > 0
      PROVE  ReaderTyped'
  <2>1. todo' = [mem |-> m - 1, reg |-> r, more |-> more]
    BY <1>2, <1>5 DEF MemoryAhead
  <2>2. m - 1 \in 0..(Full - 1)
    BY <1>2, <1>5, WidthAssumption
  <2>3. todo' \in Todo
    BY <1>2, <2>1, <2>2 DEF Todo
  <2>4. position' \in Nat /\ UNCHANGED <<mode, current_event_id>>
    BY <1>1, <1>5 DEF MemoryAhead
  <2> QED
    BY <1>4, <2>3, <2>4
<1>6. ASSUME NEW id, NEW fields \in Nat, RegisterAhead(id, fields), r > 0
      PROVE  ReaderTyped'
  <2>1. CASE Misread
    BY <1>3, <2>1
  <2>2. CASE ~Misread
    <3>1. todo' = [todo EXCEPT !.reg = @ - 1]
      BY <1>6, <2>2 DEF RegisterAhead
    <3>2. todo' = [mem |-> m, reg |-> r - 1, more |-> more]
      BY <1>2, <3>1
    <3>3. r - 1 \in 0..(Full - 1)
      BY <1>2, <1>6, WidthAssumption
    <3>4. todo' \in Todo
      BY <1>2, <3>2, <3>3 DEF Todo
    <3>5. position' \in Nat /\ UNCHANGED <<mode, current_event_id>>
      BY <1>1, <1>6, <2>2 DEF RegisterAhead
    <3> QED
      BY <1>4, <3>4, <3>5
  <2> QED
    BY <2>1, <2>2
<1>7. CASE ReadMemory
  <2>1. m > 0
    BY <1>2, <1>7 DEF ReadMemory
  <2>2. MemoryAhead(Value(2), 3) \/ MemoryAhead(Value(3), 4) \/ Misread
    BY <1>7 DEF ReadMemory
  <2> QED
    BY <1>3, <1>5, <2>1, <2>2
<1>8. CASE ReadRegister
  <2>1. r > 0
    BY <1>2, <1>8 DEF ReadRegister
  <2>2. RegisterAhead(Value(1), 1) \/ RegisterAhead(Value(2), 2) \/ Misread
    BY <1>8 DEF ReadRegister
  <2> QED
    BY <1>3, <1>6, <2>1, <2>2
<1>9. CASE ReadContinuation
  <2>1. CASE Misread
    BY <1>3, <2>1
  <2>2. CASE ~Misread
    <3>1. /\ Ahead(<<"diff">>) /\ Load(position + 1) /\ position' = position + 1
          /\ UNCHANGED <<mode, current_event_id>>
      BY <1>9, <2>2 DEF ReadContinuation
    <3>2. position + 1 <= Len(events) /\ events[position + 1][1] = "diff"
      BY <3>1, AheadIs
    <3>3. position + 1 \in 1..Len(events)
      BY <1>1, <3>2
    <3>4. todo' \in Todo
      BY <3>1, <3>2, <3>3, LoadTyped
    <3> QED
      BY <1>1, <1>4, <3>1, <3>4
  <2> QED
    BY <2>1, <2>2
<1>10. CASE ReadDone
  <2>1. /\ mode' = "between" /\ current_event_id' = current_event_id + 1
        /\ position' = position /\ todo' = todo
    BY <1>10 DEF ReadDone
  <2>2. current_event_id' \in 0..Len(log)
    BY <1>1, <2>1
  <2> QED
    BY <1>1, <2>1, <2>2, ReaderTypedMove
<1> QED
  BY <1>7, <1>8, <1>9, <1>10 DEF InsideStep

\* Seeking; there is a position for every event, and one behind the last.
LEMMA SeekTyped ==
    ASSUME Bookkept, ReaderTyped, NEW event_id \in 0..Len(log), Seek(event_id)
    PROVE  ReaderTyped' /\ starts[event_id + 1] \in Nat \ {0}
<1>1. starts \in Seq(Nat \ {0}) /\ Len(starts) = Len(log) + 1 /\ Len(log) \in Nat
  BY LenProperties DEF Bookkept
<1>2. event_id + 1 \in 1..Len(starts)
  BY <1>1
<1>3. starts[event_id + 1] \in Nat \ {0}
  BY <1>1, <1>2, ElementOfSeq
<1>4. /\ finalized /\ UNCHANGED writerVars /\ mode' = "between"
      /\ current_event_id' = event_id /\ position' = starts[event_id + 1] /\ todo' = NoTodo
  BY DEF Seek, ReaderTyped
<1>5. todo' \in Todo
  BY <1>4, WidthAssumption DEF NoTodo, Todo
<1> QED
  BY <1>3, <1>4, <1>5, ReaderTypedMove

\* Every step of the program keeps the reader's state typed.
LEMMA ReaderTypedStep ==
    ASSUME Bookkept, Bookkept', ReaderTyped, [Next]_vars
    PROVE  ReaderTyped'
<1>1. CASE NextWriter /\ UNCHANGED readerVars
  <2>1. mode = "closed"
    BY <1>1, WritesBeforeFinal DEF ReaderTyped
  <2>2. UNCHANGED <<mode, position, current_event_id, todo, seen>>
    BY <1>1 DEF readerVars
  <2>3. Len(log') \in Nat
    BY LenProperties DEF Bookkept
  <2>4. current_event_id' \in 0..Len(log')
    BY <2>1, <2>2, <2>3 DEF ReaderTyped
  <2> QED
    BY <2>1, <2>2, <2>4 DEF ReaderTyped
<1>2. CASE OpenTrace
  BY <1>2, ReaderTypedMove DEF OpenTrace, ReaderTyped
<1>3. CASE ReadHead
  BY <1>3, HeadTyped
<1>4. CASE InsideStep
  BY <1>4, InsideTyped
<1>5. ASSUME NEW event_id \in 0..Len(log), Seek(event_id)
      PROVE  ReaderTyped'
  BY <1>5, SeekTyped
<1>6. CASE Throw
  BY <1>6, ReaderTypedMove DEF Throw, ReaderTyped
<1>7. CASE UNCHANGED vars
  BY <1>7 DEF ReaderTyped, vars, readerVars, writerVars, history
<1> QED
  BY <1>1, <1>2, <1>3, <1>4, <1>5, <1>6, <1>7 DEF Next

-----------------------------------------------------------------------------
(* Reading what was recorded.                                               *)

\* A path through the event i of the log.
WholeEvent(p, i) ==
    /\ Path(events, NoneOpen, starts[i], starts[i + 1], log[i], p)
    /\ Complete(events, NoneOpen, starts[i + 1], log[i], p[Len(p)])
    /\ ~More(events, p[Len(p)].block)

\* The reader stands at the place a, and knows what is left of its block.
StandsAt(a) ==
    /\ position = a.at /\ seen = a.seen
    /\ todo.mem = MemOf(events, NoneOpen, a.block) - a.mem
    /\ todo.reg = RegOf(events, NoneOpen, a.block) - a.reg
    /\ todo.more = More(events, a.block)

Reading ==
    ~spoilt =>
        /\ mode # "misread"
        /\ mode = "between" => position = starts[current_event_id + 1]
        /\ mode = "inside" =>
              \E p : /\ WholeEvent(p, current_event_id + 1)
                     /\ \E k \in 1..Len(p) : StandsAt(p[k])

\* A place of a path has a block with counts.
LEMMA PlaceTyped ==
    ASSUME Bookkept, NEW i \in 1..Len(log), NEW p, WholeEvent(p, i), NEW k \in 1..Len(p)
    PROVE  /\ p[k] \in Places /\ p[k].block \in 1..Len(events)
           /\ MemOf(events, NoneOpen, p[k].block) \in Int
           /\ RegOf(events, NoneOpen, p[k].block) \in Int
           /\ Within(starts[i], starts[i + 1], log[i], p[k])
<1>1. Path(events, NoneOpen, starts[i], starts[i + 1], log[i], p)
  BY DEF WholeEvent
<1>2. p[k] \in Places /\ Within(starts[i], starts[i + 1], log[i], p[k])
  BY <1>1, ElementOfSeq DEF Path
<1>3. PICK a, from, to : a = p[k] /\ from = starts[i] /\ to = starts[i + 1]
  OBVIOUS
<1>4. from \in Nat \ {0} /\ to \in Nat /\ to <= Len(events)
  <2>1. /\ starts \in Seq(Nat \ {0}) /\ i \in 1..Len(starts) /\ i + 1 \in 1..Len(starts)
    BY LenProperties DEF Bookkept
  <2>2. from \in Nat \ {0} /\ to \in Nat
    BY <1>3, <2>1, ElementOfSeq
  <2> QED
    BY <1>1, <1>3, <2>2 DEF Path
<1>5. a.block \in Nat /\ a.at \in Nat /\ a.block \in (from + 1)..a.at /\ a.at <= to
  BY <1>2, <1>3 DEF Within, Places
<1>6. events \in Seq(Fields) /\ Len(events) \in Nat
  BY Bounds, SeqMonotonic, LenProperties DEF Bookkept
<1>7. a.block \in 1..Len(events)
  BY <1>4, <1>5, <1>6
<1>8. NoneOpen \in OpenBlocks
  BY DEF NoneOpen, OpenBlocks
<1>9. MemOf(events, NoneOpen, a.block) \in Int /\ RegOf(events, NoneOpen, a.block) \in Int
  BY <1>6, <1>7, <1>8, CountsTyped
<1> QED
  BY <1>2, <1>3, <1>7, <1>9

\* While something is left of the event, the path goes on.
LEMMA PathGoesOn ==
    ASSUME Bookkept, ReaderTyped, NEW i \in 1..Len(log), NEW p, WholeEvent(p, i),
           NEW k \in 1..Len(p), StandsAt(p[k]),
           todo.mem > 0 \/ todo.reg > 0 \/ todo.more
    PROVE  k + 1 \in 1..Len(p) /\ Between(events, NoneOpen, p[k], p[k + 1])
<1>1. /\ Path(events, NoneOpen, starts[i], starts[i + 1], log[i], p)
      /\ Complete(events, NoneOpen, starts[i + 1], log[i], p[Len(p)])
      /\ ~More(events, p[Len(p)].block)
  BY DEF WholeEvent
<1>2. Len(p) \in Nat /\ \A j \in 1..(Len(p) - 1) : Between(events, NoneOpen, p[j], p[j + 1])
  BY <1>1, LenProperties DEF Path
<1>3. k # Len(p)
  <2> SUFFICES ASSUME k = Len(p) PROVE FALSE
    OBVIOUS
  <2>1. PICK a : a = p[k]
    OBVIOUS
  <2>2. /\ a.mem = MemOf(events, NoneOpen, a.block) /\ a.reg = RegOf(events, NoneOpen, a.block)
        /\ ~More(events, a.block)
    BY <1>1, <2>1 DEF Complete
  <2>3. MemOf(events, NoneOpen, a.block) \in Int /\ RegOf(events, NoneOpen, a.block) \in Int
    BY <2>1, PlaceTyped
  <2>4. todo.mem = 0 /\ todo.reg = 0 /\ ~todo.more
    BY <2>1, <2>2, <2>3 DEF StandsAt
  <2> QED
    BY <2>4
<1>4. k \in 1..(Len(p) - 1) /\ k + 1 \in 1..Len(p)
  BY <1>2, <1>3
<1> QED
  BY <1>2, <1>4

\* One step from a place to the next, whatever the step reads.
StepsTo(b) ==
    /\ StandsAt(b)' /\ mode' = "inside" /\ UNCHANGED current_event_id

\* process_memory_write reads exactly the fields of the write, in either form.
LEMMA MemoryRead ==
    ASSUME Bookkept, ReaderTyped, NEW a \in Places, NEW b \in Places,
           MemOf(events, NoneOpen, a.block) \in Int, RegOf(events, NoneOpen, a.block) \in Int,
           StandsAt(a), MemoryBetween(events, NoneOpen, a, b), ReadMemory
    PROVE  StepsTo(b)
<1>1. PICK t, x : /\ MemoryWritten(t, x) /\ Passed(events, a, b, t, x)
                  /\ b.mem = a.mem + 1 /\ b.reg = a.reg
  BY DEF MemoryBetween
<1>2. PICK address \in Nat, size \in Nat :
         /\ AddressFits(address) /\ SizeFits(size)
         /\ t = MemoryFields(address, size) /\ x = MemoryEffect(address, size)
  BY <1>1 DEF MemoryWritten
<1>3. /\ Stored(events, position, t) /\ position \in Nat
      /\ b.at = position + Len(t) /\ b.block = a.block /\ b.seen = seen \o x
  BY <1>1 DEF Passed, StandsAt, Places
<1>4. PICK m, r, more : todo = [mem |-> m, reg |-> r, more |-> more] /\ m \in Int /\ r \in Int
  BY DEF ReaderTyped, Todo
<1>5. /\ m = MemOf(events, NoneOpen, a.block) - a.mem
      /\ r = RegOf(events, NoneOpen, a.block) - a.reg /\ more = More(events, a.block)
      /\ a.mem \in Nat /\ a.reg \in Nat
  BY <1>4 DEF StandsAt, Places
<1>6. UNCHANGED events /\ mode = "inside"
  BY DEF ReadMemory, writerVars
<1>7. ASSUME MemoryAhead(size, Len(t)), \A s : MemoryEffect(Value(1), s) = MemoryEffect(address, s)
      PROVE  StepsTo(b)
  <2>1. /\ position' = b.at /\ seen' = b.seen /\ mode' = "inside"
        /\ current_event_id' = current_event_id
    BY <1>2, <1>3, <1>6, <1>7 DEF MemoryAhead
  <2>2. todo' = [mem |-> m - 1, reg |-> r, more |-> more]
    BY <1>4, <1>7 DEF MemoryAhead
  <2>3. /\ m - 1 = MemOf(events, NoneOpen, b.block) - b.mem
        /\ r = RegOf(events, NoneOpen, b.block) - b.reg /\ more = More(events, b.block)
    BY <1>1, <1>3, <1>4, <1>5
  <2>4. /\ todo'.mem = MemOf(events', NoneOpen, b.block) - b.mem
        /\ todo'.reg = RegOf(events', NoneOpen, b.block) - b.reg
        /\ todo'.more = More(events', b.block)
    BY <1>6, <2>2, <2>3
  <2> QED
    BY <2>1, <2>4 DEF StepsTo, StandsAt
<1>8. CASE size < Escape
  <2>1. t = <<Address(address), Size(size), Bytes(size)>>
    BY <1>2, <1>8, WidthAssumption DEF MemoryFields
  <2>2. Len(t) = 3 /\ t[1] = Address(address) /\ t[2] = Size(size) /\ t[3] = Bytes(size)
    BY <2>1
  <2>3. /\ position + 3 <= Len(events) /\ position + 2 <= Len(events)
        /\ events[position + 1] = Address(address)
        /\ events[position + 2] = Size(size) /\ events[position + 3] = Bytes(size)
    <3>1. Len(events) \in Nat
      BY LenProperties DEF Bookkept
    <3> QED
      BY <1>3, <2>2, <3>1 DEF Stored
  <2>4. /\ Ahead(<<"address", "size">>) /\ Ahead(<<"address", "size", "bytes">>)
        /\ Value(1) = address /\ Value(2) = size
    <3>1. /\ events[position + 1][1] = "address" /\ events[position + 2][1] = "size"
          /\ events[position + 3][1] = "bytes" /\ Value(1) = address /\ Value(2) = size
      BY <2>3 DEF Value, Address, Size, Bytes
    <3> QED
      BY <2>3, <3>1, AheadIs
  <2>5. Value(2) # Escape
    BY <1>8, <2>4, WidthAssumption
  <2>6. MemoryAhead(size, 3)
    BY <2>4, <2>5 DEF ReadMemory
  <2> QED
    BY <1>7, <2>2, <2>4, <2>6
<1>9. CASE ~(size < Escape)
  <2>1. t = <<Address(address), Size(Escape), WideSize(size), Bytes(size)>>
    BY <1>2, <1>9, WidthAssumption DEF MemoryFields
  <2>2. /\ Len(t) = 4 /\ t[1] = Address(address) /\ t[2] = Size(Escape)
        /\ t[3] = WideSize(size) /\ t[4] = Bytes(size)
    BY <2>1
  <2>3. /\ position + 4 <= Len(events)
        /\ events[position + 1] = Address(address)
        /\ events[position + 2] = Size(Escape) /\ events[position + 3] = WideSize(size)
        /\ events[position + 4] = Bytes(size)
    BY <1>3, <2>2 DEF Stored
  <2>4. /\ Ahead(<<"address", "size", "wide size", "bytes">>)
        /\ Value(1) = address /\ Value(2) = Escape /\ Value(3) = size
    <3>1. /\ events[position + 1][1] = "address" /\ events[position + 2][1] = "size"
          /\ events[position + 3][1] = "wide size" /\ events[position + 4][1] = "bytes"
          /\ Value(1) = address /\ Value(2) = Escape /\ Value(3) = size
      <4>1. /\ Address(address)[1] = "address" /\ Address(address)[2] = address
            /\ Size(Escape)[1] = "size" /\ Size(Escape)[2] = Escape
            /\ WideSize(size)[1] = "wide size" /\ WideSize(size)[2] = size
            /\ Bytes(size)[1] = "bytes"
        BY DEF Address, Size, WideSize, Bytes
      <4> QED
        BY <2>3, <4>1 DEF Value
    <3> QED
      BY <2>3, <3>1, AheadIs
  <2>5. MemoryAhead(size, 4)
    BY <2>4 DEF ReadMemory
  <2> QED
    BY <1>7, <2>2, <2>4, <2>5
<1> QED
  BY <1>8, <1>9

\* process_register_write reads exactly the fields of the register or operation.
LEMMA RegisterRead ==
    ASSUME Bookkept, ReaderTyped, NEW a \in Places, NEW b \in Places,
           MemOf(events, NoneOpen, a.block) \in Int, RegOf(events, NoneOpen, a.block) \in Int,
           StandsAt(a), RegisterBetween(events, NoneOpen, a, b), ReadRegister
    PROVE  StepsTo(b)
<1>1. PICK t, x : /\ RegisterWritten(t, x) /\ Passed(events, a, b, t, x)
                  /\ b.mem = a.mem /\ b.reg = a.reg + 1
  BY DEF RegisterBetween
<1>2. /\ Stored(events, position, t) /\ position \in Nat
      /\ b.at = position + Len(t) /\ b.block = a.block /\ b.seen = seen \o x
  BY <1>1 DEF Passed, StandsAt, Places
<1>3. PICK m, r, more : todo = [mem |-> m, reg |-> r, more |-> more] /\ m \in Int /\ r \in Int
  BY DEF ReaderTyped, Todo
<1>4. /\ m = MemOf(events, NoneOpen, a.block) - a.mem
      /\ r = RegOf(events, NoneOpen, a.block) - a.reg /\ more = More(events, a.block)
      /\ a.mem \in Nat /\ a.reg \in Nat
  BY <1>3 DEF StandsAt, Places
<1>5. UNCHANGED events /\ mode = "inside"
  BY DEF ReadRegister, writerVars
<1>6. ASSUME position' = b.at, seen' = b.seen, todo' = [todo EXCEPT !.reg = @ - 1],
             UNCHANGED <<mode, current_event_id>>
      PROVE  StepsTo(b)
  <2>1. todo' = [mem |-> m, reg |-> r - 1, more |-> more]
    BY <1>3, <1>6
  <2>2. /\ m = MemOf(events, NoneOpen, b.block) - b.mem
        /\ r - 1 = RegOf(events, NoneOpen, b.block) - b.reg /\ more = More(events, b.block)
    BY <1>1, <1>2, <1>3, <1>4
  <2>3. /\ todo'.mem = MemOf(events', NoneOpen, b.block) - b.mem
        /\ todo'.reg = RegOf(events', NoneOpen, b.block) - b.reg
        /\ todo'.more = More(events', b.block)
    BY <1>5, <2>1, <2>2
  <2> QED
    BY <1>5, <1>6, <2>3 DEF StepsTo, StandsAt
<1>7. Len(events) \in Nat
  BY LenProperties DEF Bookkept
<1>8. ASSUME NEW id \in Register, t = RegisterFields(id), x = RegisterEffect(id)
      PROVE  StepsTo(b)
  <2>1. id \in Nat /\ id \notin Operation
    BY IdAssumption
  <2>2. ASSUME NEW fields \in Nat, RegisterAhead(id, fields), Len(t) = fields + 1,
               events[position + fields + 1] = Content(id)
        PROVE  StepsTo(b)
    <3>1. /\ position' = position + fields + 1
          /\ seen' = seen \o RegisterEffect(id)
          /\ todo' = [todo EXCEPT !.reg = @ - 1]
          /\ UNCHANGED <<mode, current_event_id>>
      BY <2>1, <2>2 DEF RegisterAhead
    <3>2. position' = b.at
      BY <1>2, <2>2, <3>1
    <3> QED
      BY <1>2, <1>6, <1>8, <3>1, <3>2
  <2>3. CASE id < Escape
    <3>1. t = <<Id(id), Content(id)>>
      BY <1>8, <2>3 DEF RegisterFields
    <3>2. Len(t) = 2 /\ t[1] = Id(id) /\ t[2] = Content(id)
      BY <3>1
    <3>3. /\ position + 1 <= Len(events)
          /\ events[position + 1] = Id(id) /\ events[position + 2] = Content(id)
      BY <1>2, <1>7, <3>2 DEF Stored
    <3>4. Ahead(<<"id">>) /\ Value(1) = id
      <4>1. events[position + 1][1] = "id" /\ Value(1) = id
        BY <3>3 DEF Value, Id
      <4> QED
        BY <3>3, <4>1, AheadIs
    <3>5. id # Escape
      BY <2>1, <2>3, WidthAssumption
    <3>6. RegisterAhead(id, 1)
      BY <3>4, <3>5 DEF ReadRegister
    <3>7. events[position + 1 + 1] = Content(id)
      BY <1>2, <3>3
    <3> QED
      BY <2>2, <3>2, <3>6, <3>7
  <2>4. CASE ~(id < Escape)
    <3>1. t = <<Id(Escape), WideId(id), Content(id)>>
      BY <1>8, <2>4 DEF RegisterFields
    <3>2. Len(t) = 3 /\ t[1] = Id(Escape) /\ t[2] = WideId(id) /\ t[3] = Content(id)
      BY <3>1
    <3>3. /\ position + 2 <= Len(events)
          /\ events[position + 1] = Id(Escape) /\ events[position + 2] = WideId(id)
          /\ events[position + 3] = Content(id)
      BY <1>2, <1>7, <3>2 DEF Stored
    <3>4. Ahead(<<"id", "wide id">>) /\ Value(1) = Escape /\ Value(2) = id
      <4>1. /\ events[position + 1][1] = "id" /\ events[position + 2][1] = "wide id"
            /\ Value(1) = Escape /\ Value(2) = id
        <5>1. /\ Id(Escape)[1] = "id" /\ Id(Escape)[2] = Escape
              /\ WideId(id)[1] = "wide id" /\ WideId(id)[2] = id
          BY DEF Id, WideId
        <5> QED
          BY <3>3, <5>1 DEF Value
      <4> QED
        BY <3>3, <4>1, AheadIs
    <3>5. RegisterAhead(id, 2)
      BY <3>4 DEF ReadRegister
    <3>6. events[position + 2 + 1] = Content(id)
      BY <1>2, <3>3
    <3> QED
      BY <2>2, <3>2, <3>5, <3>6
  <2> QED
    BY <2>3, <2>4
<1>9. ASSUME NEW id \in Operation, t = <<Id(id)>>, x = OperationEffect(id)
      PROVE  StepsTo(b)
  <2>1. id \in Nat /\ id # Escape
    BY IdAssumption, WidthAssumption
  <2>2. Len(t) = 1 /\ t[1] = Id(id)
    BY <1>9
  <2>3. position + 1 <= Len(events) /\ events[position + 1] = Id(id)
    BY <1>2, <2>2 DEF Stored
  <2>4. Ahead(<<"id">>) /\ Value(1) = id
    <3>1. events[position + 1][1] = "id" /\ Value(1) = id
      BY <2>3 DEF Value, Id
    <3> QED
      BY <2>3, <3>1, AheadIs
  <2>5. RegisterAhead(id, 1)
    BY <2>1, <2>4 DEF ReadRegister
  <2>6. /\ position' = position + 1 /\ seen' = seen \o OperationEffect(id)
        /\ todo' = [todo EXCEPT !.reg = @ - 1]
        /\ UNCHANGED <<mode, current_event_id>>
    BY <1>9, <2>5 DEF RegisterAhead
  <2> QED
    BY <1>2, <1>6, <1>9, <2>2, <2>6
<1> QED
  BY <1>1, <1>8, <1>9 DEF RegisterWritten

\* The diff of the next block of the event is read as what it is.
LEMMA ContinuationRead ==
    ASSUME Bookkept, ReaderTyped, NEW a \in Places, NEW b \in Places,
           StandsAt(a), DiffBetween(events, NoneOpen, a, b), ReadContinuation
    PROVE  StepsTo(b)
<1>1. /\ position + 1 <= Len(events) /\ IsPlainDiff(events[position + 1])
      /\ b.at = position + 1 /\ b.block = position + 1
      /\ b.mem = 0 /\ b.reg = 0 /\ b.seen = seen /\ position \in Nat
  BY DEF DiffBetween, StandsAt, ReaderTyped
<1>2. /\ Ahead(<<"diff">>) /\ events[position + 1] # NotInstruction
      /\ events[position + 1][1] = "diff"
  BY <1>1, AheadIs DEF IsPlainDiff
<1>3. /\ Load(position + 1) /\ position' = position + 1 /\ mode = "inside"
      /\ UNCHANGED <<mode, current_event_id, seen, events>>
  BY <1>2 DEF ReadContinuation, BlockRead, writerVars
<1>4. position + 1 \in 1..Len(events)
  BY <1>1, LenProperties DEF Bookkept
<1>5. /\ todo' \in Todo
      /\ todo'.mem = MemOf(events, NoneOpen, position + 1)
      /\ todo'.reg = RegOf(events, NoneOpen, position + 1)
      /\ todo'.more = More(events, position + 1)
  BY <1>2, <1>3, <1>4, LoadTyped
<1>6. todo'.mem = todo'.mem - 0 /\ todo'.reg = todo'.reg - 0
  BY <1>5 DEF Todo
<1> QED
  BY <1>1, <1>3, <1>5, <1>6 DEF StepsTo, StandsAt

\* From the position between two events, the head of the next one is read.
LEMMA HeadRead ==
    ASSUME Bookkept, ReaderTyped, ReadHead, NEW i \in 1..Len(log), NEW p, WholeEvent(p, i),
           position = starts[i]
    PROVE  StandsAt(p[1])' /\ mode' = "inside" /\ UNCHANGED current_event_id
<1>1. PICK a, from : a = p[1] /\ from = position
  OBVIOUS
<1>2. BehindHead(events, from, a) /\ a \in Places
  <2>1. Len(p) \in Nat /\ Len(p) > 0 /\ BehindHead(events, starts[i], p[1])
    BY LenProperties DEF WholeEvent, Path
  <2> QED
    BY <1>1, <2>1, PlaceTyped
<1>3. /\ a.block = a.at /\ a.mem = 0 /\ a.reg = 0 /\ a.at <= Len(events)
      /\ from \in Nat /\ Len(events) \in Nat /\ UNCHANGED events
  BY <1>1, <1>2, LenProperties DEF BehindHead, ReaderTyped, Bookkept, ReadHead, writerVars
<1>4. ASSUME IsPlainDiff(events[a.at]), a.at \in 1..Len(events), Load(a.at),
             position' = a.at, seen' = a.seen, mode' = "inside", UNCHANGED current_event_id
      PROVE  StandsAt(a)'
  <2>1. /\ todo' \in Todo
        /\ todo'.mem = MemOf(events, NoneOpen, a.at)
        /\ todo'.reg = RegOf(events, NoneOpen, a.at)
        /\ todo'.more = More(events, a.at)
    BY <1>4, LoadTyped DEF IsPlainDiff
  <2>2. todo'.mem = todo'.mem - 0 /\ todo'.reg = todo'.reg - 0
    BY <2>1 DEF Todo
  <2> QED
    BY <1>3, <1>4, <2>1, <2>2 DEF StandsAt
<1>5. CASE a.at = from + 1 /\ IsPlainDiff(events[from + 1]) /\ a.seen = <<Instruction>>
  <2>1. Ahead(<<"diff">>) /\ events[position + 1] # NotInstruction
    BY <1>1, <1>3, <1>5, AheadIs DEF IsPlainDiff
  <2>2. ReadInstruction
    BY <2>1 DEF ReadHead, ReadOther, HeadAhead
  <2>3. /\ Load(a.at) /\ position' = a.at /\ seen' = a.seen /\ mode' = "inside"
        /\ UNCHANGED current_event_id
    BY <1>1, <1>5, <2>2 DEF ReadInstruction
  <2>4. a.at \in 1..Len(events)
    BY <1>3, <1>5
  <2> QED
    BY <1>1, <1>4, <1>5, <2>3, <2>4
<1>6. ASSUME NEW length \in Nat,
             Stored(events, from, <<NotInstruction, OtherType, Text(length)>>),
             a.at = from + 4, IsPlainDiff(events[from + 4]), a.seen = <<Other(length)>>
      PROVE  StandsAt(p[1])' /\ mode' = "inside" /\ UNCHANGED current_event_id
  <2>1. PICK t : t = <<NotInstruction, OtherType, Text(length)>>
    OBVIOUS
  <2>2. Len(t) = 3 /\ t[1] = NotInstruction /\ t[2] = OtherType /\ t[3] = Text(length)
    BY <2>1
  <2>3. Stored(events, from, t)
    BY <1>6, <2>1
  <2>4. /\ events[position + 1] = NotInstruction /\ events[position + 2] = OtherType
        /\ events[position + 3] = Text(length)
    BY <1>1, <1>3, <2>2, <2>3 DEF Stored
  <2>5. /\ position + 4 <= Len(events) /\ position + 1 <= Len(events)
        /\ events[position + 4][1] = "diff"
    BY <1>1, <1>3, <1>6 DEF IsPlainDiff
  <2>6. /\ events[position + 1][1] = "diff" /\ events[position + 2][1] = "type"
        /\ events[position + 3][1] = "string" /\ Value(3) = length
    <3>1. /\ NotInstruction[1] = "diff" /\ OtherType[1] = "type"
          /\ Text(length)[1] = "string" /\ Text(length)[2] = length
      BY DEF NotInstruction, Diff, OtherType, Text
    <3> QED
      BY <2>4, <3>1 DEF Value
  <2>7. Ahead(<<"diff">>) /\ Ahead(<<"diff", "type", "string", "diff">>)
    BY <2>5, <2>6, AheadIs
  <2>8. ReadOther
    BY <2>4, <2>7 DEF ReadHead, ReadInstruction, HeadAhead
  <2>9. /\ Load(a.at) /\ position' = a.at /\ seen' = a.seen /\ mode' = "inside"
        /\ UNCHANGED current_event_id
    BY <1>1, <1>6, <2>6, <2>8 DEF ReadOther
  <2>10. a.at \in 1..Len(events)
    BY <1>3, <1>6
  <2> QED
    BY <1>1, <1>4, <1>6, <2>9, <2>10
<1> QED
  BY <1>2, <1>5, <1>6 DEF BehindHead

\* What is left of a block tells which kind of write comes next.
LEMMA InsideRead ==
    ASSUME Bookkept, ReaderTyped, NEW i \in 1..Len(log), NEW p, WholeEvent(p, i),
           NEW k \in 1..Len(p), StandsAt(p[k]), ReadMemory \/ ReadRegister \/ ReadContinuation
    PROVE  k + 1 \in 1..Len(p) /\ StepsTo(p[k + 1])
<1>1. PICK m, r, more : /\ todo = [mem |-> m, reg |-> r, more |-> more]
                        /\ m \in Nat /\ r \in Nat /\ more \in BOOLEAN
                        /\ todo.mem = m /\ todo.reg = r /\ todo.more = more
  BY DEF ReaderTyped, Todo
<1>2. \/ ReadMemory /\ m > 0
      \/ ReadRegister /\ m = 0 /\ r > 0
      \/ ReadContinuation /\ m = 0 /\ r = 0 /\ more
  BY <1>1 DEF ReadMemory, ReadRegister, ReadContinuation, BlockRead
<1>3. k + 1 \in 1..Len(p) /\ Between(events, NoneOpen, p[k], p[k + 1])
  BY <1>1, <1>2, PathGoesOn
<1>4. PICK a, b : a = p[k] /\ b = p[k + 1]
  OBVIOUS
<1>5. /\ a \in Places /\ b \in Places
      /\ MemOf(events, NoneOpen, a.block) \in Int
      /\ RegOf(events, NoneOpen, a.block) \in Int
  BY <1>3, <1>4, PlaceTyped
<1>6. /\ m = MemOf(events, NoneOpen, a.block) - a.mem
      /\ r = RegOf(events, NoneOpen, a.block) - a.reg
      /\ a.mem \in Nat /\ a.reg \in Nat
  BY <1>1, <1>4, <1>5 DEF StandsAt, Places
<1>7. StandsAt(a)
  BY <1>4
<1>8. CASE MemoryBetween(events, NoneOpen, a, b)
  <2>1. m > 0
    BY <1>5, <1>6, <1>8 DEF MemoryBetween
  <2>2. ReadMemory
    BY <1>1, <1>2, <2>1
  <2> QED
    BY <1>3, <1>4, <1>5, <1>7, <1>8, <2>2, MemoryRead
<1>9. CASE RegisterBetween(events, NoneOpen, a, b)
  <2>1. m = 0 /\ r > 0
    BY <1>5, <1>6, <1>9 DEF RegisterBetween
  <2>2. ReadRegister
    BY <1>1, <1>2, <2>1
  <2> QED
    BY <1>3, <1>4, <1>5, <1>7, <1>9, <2>2, RegisterRead
<1>10. CASE DiffBetween(events, NoneOpen, a, b)
  <2>1. m = 0 /\ r = 0
    BY <1>5, <1>6, <1>10 DEF DiffBetween
  <2>2. ReadContinuation
    BY <1>1, <1>2, <2>1
  <2> QED
    BY <1>3, <1>4, <1>5, <1>7, <1>10, <2>2, ContinuationRead
<1> QED
  BY <1>3, <1>4, <1>8, <1>9, <1>10 DEF Between

\* An event ends where the recorder finished it, with all of its effects.
LEMMA DoneRead ==
    ASSUME Bookkept, ReaderTyped, NEW i \in 1..Len(log), NEW p, WholeEvent(p, i),
           NEW k \in 1..Len(p), StandsAt(p[k]), ReadDone
    PROVE  position = starts[i + 1] /\ seen = log[i]
<1>1. todo.mem = 0 /\ todo.reg = 0 /\ ~todo.more
  BY DEF ReadDone, BlockRead
<1>2. PICK a : a = p[k]
  OBVIOUS
<1>3. /\ Path(events, NoneOpen, starts[i], starts[i + 1], log[i], p)
      /\ Complete(events, NoneOpen, starts[i + 1], log[i], p[Len(p)])
  BY DEF WholeEvent
<1>4. CASE k = Len(p)
  BY <1>3, <1>4 DEF StandsAt, Complete
<1>5. CASE k # Len(p)
  <2>1. k \in 1..(Len(p) - 1) /\ k + 1 \in 1..Len(p)
    BY <1>3, <1>5, LenProperties DEF Path
  <2>2. Between(events, NoneOpen, a, p[k + 1])
    BY <1>2, <1>3, <2>1 DEF Path
  <2>3. /\ a \in Places
        /\ MemOf(events, NoneOpen, a.block) \in Int
        /\ RegOf(events, NoneOpen, a.block) \in Int
    BY <1>2, PlaceTyped
  <2>4. /\ 0 = MemOf(events, NoneOpen, a.block) - a.mem
        /\ 0 = RegOf(events, NoneOpen, a.block) - a.reg
        /\ ~More(events, a.block) /\ a.mem \in Nat /\ a.reg \in Nat
    BY <1>1, <1>2, <2>3 DEF StandsAt, Places
  <2>5. /\ a.mem = MemOf(events, NoneOpen, a.block)
        /\ a.reg = RegOf(events, NoneOpen, a.block)
    BY <2>3, <2>4
  <2>6. /\ ~(a.mem < MemOf(events, NoneOpen, a.block))
        /\ ~(a.reg < RegOf(events, NoneOpen, a.block))
    BY <2>3, <2>4
  <2>7. ~MemoryBetween(events, NoneOpen, a, p[k + 1])
    BY <2>6 DEF MemoryBetween
  <2>8. ~RegisterBetween(events, NoneOpen, a, p[k + 1])
    BY <2>6 DEF RegisterBetween
  <2>9. ~DiffBetween(events, NoneOpen, a, p[k + 1])
    BY <2>4 DEF DiffBetween
  <2> QED
    BY <2>2, <2>7, <2>8, <2>9 DEF Between
<1> QED
  BY <1>4, <1>5

\* Nothing of the writer is about what the reader does.
LEMMA BooksUnread ==
    ASSUME Bookkept, Written, UNCHANGED writerVars
    PROVE  Bookkept' /\ Written'
<1>1. UNCHANGED <<events, event_count, diff_element_count_stream_pos,
                  current_diff_mem_count, current_diff_reg_count, finalized, log, current,
                  starts, spoilt>>
  BY DEF writerVars, block, history
<1>2. Bookkept'
  BY <1>1 DEF Bookkept, IsEventStarted, Count
<1>3. Written'
  BY <1>1 DEF Written, IsEventStarted, LogRecorded, StartsWithin, Open, OpenDiff
<1> QED
  BY <1>2, <1>3

\* While the reader is in an event it stays on the event's path.
LEMMA StaysOnPath ==
    ASSUME NEW i, NEW p, WholeEvent(p, i), NEW k \in 1..Len(p), StandsAt(p[k])',
           UNCHANGED writerVars, mode' = "inside", i = current_event_id' + 1
    PROVE  Reading'
<1>1. UNCHANGED <<events, log, starts, spoilt>>
  BY DEF writerVars, history
<1>2. WholeEvent(p, i)'
  BY <1>1 DEF WholeEvent
<1>3. \E q : /\ WholeEvent(q, current_event_id + 1)'
             /\ \E j \in 1..Len(q) : StandsAt(q[j])'
  BY <1>2
<1> QED
  BY <1>3 DEF Reading

\* What a step of the reader does to a trace that is not spoilt; besides moving
\* on an event's path, it finishes the event having seen all of it.
LEMMA ReadingMove ==
    ASSUME Bookkept, Written, ReaderTyped, Reading, ~spoilt, ReadHead \/ InsideStep
    PROVE  /\ Reading'
           /\ ReadDone => seen = log[current_event_id + 1]
           /\ ~ReadDone => mode' = "inside" /\ UNCHANGED current_event_id
<1>1. PICK i : i = current_event_id + 1
  OBVIOUS
<1>2. /\ UNCHANGED writerVars /\ UNCHANGED <<starts, log, spoilt>>
      /\ Len(log) \in Nat /\ current_event_id \in 0..Len(log)
  <2>1. UNCHANGED writerVars
    BY DEF ReadHead, InsideStep, ReadMemory, ReadRegister, ReadContinuation, ReadDone
  <2> QED
    BY <2>1, LenProperties DEF writerVars, history, Bookkept, ReaderTyped
<1>3. CASE ReadHead
  <2>1. i \in 1..Len(log)
    BY <1>1, <1>2, <1>3, HeadTyped
  <2>2. PICK p : WholeEvent(p, i)
    BY <2>1 DEF Written, LogRecorded, Recorded, WholeEvent
  <2>3. position = starts[i]
    BY <1>1, <1>3 DEF Reading, ReadHead
  <2>4. StandsAt(p[1])' /\ mode' = "inside" /\ UNCHANGED current_event_id
    BY <1>3, <2>1, <2>2, <2>3, HeadRead
  <2>5. 1 \in 1..Len(p) /\ i = current_event_id' + 1
    BY <1>1, <2>2, <2>4, LenProperties DEF WholeEvent, Path
  <2>6. Reading'
    BY <1>2, <2>2, <2>4, <2>5, StaysOnPath
  <2>7. ~ReadDone
    BY <1>3 DEF ReadHead, ReadDone, BlockRead
  <2> QED
    BY <2>4, <2>6, <2>7
<1>4. ASSUME InsideStep
      PROVE  i \in 1..Len(log) /\ mode = "inside"
  <2>1. mode = "inside"
    BY <1>4 DEF InsideStep, ReadMemory, ReadRegister, ReadContinuation, ReadDone, BlockRead
  <2>2. current_event_id < Len(log)
    BY <2>1 DEF ReaderTyped
  <2> QED
    BY <1>1, <1>2, <2>1, <2>2
<1>5. ASSUME InsideStep
      PROVE  \E p : WholeEvent(p, i) /\ \E k \in 1..Len(p) : StandsAt(p[k])
  BY <1>1, <1>4, <1>5 DEF Reading
<1>6. CASE ReadMemory \/ ReadRegister \/ ReadContinuation
  <2>1. InsideStep
    BY <1>6 DEF InsideStep
  <2>2. PICK p : WholeEvent(p, i) /\ \E k \in 1..Len(p) : StandsAt(p[k])
    BY <1>5, <2>1
  <2>3. PICK k \in 1..Len(p) : StandsAt(p[k])
    BY <2>2
  <2>4. k + 1 \in 1..Len(p) /\ StepsTo(p[k + 1])
    BY <1>4, <1>6, <2>1, <2>2, <2>3, InsideRead
  <2>5. PICK j : j = k + 1
    OBVIOUS
  <2>6. StandsAt(p[j])' /\ mode' = "inside" /\ UNCHANGED current_event_id
    BY <2>4, <2>5 DEF StepsTo
  <2>7. Reading'
    BY <1>1, <1>2, <2>2, <2>4, <2>5, <2>6, StaysOnPath
  <2>8. ~ReadDone
    BY <2>6 DEF ReadDone
  <2> QED
    BY <2>6, <2>7, <2>8
<1>7. CASE ReadDone
  <2>1. InsideStep
    BY <1>7 DEF InsideStep
  <2>2. PICK p : WholeEvent(p, i) /\ \E k \in 1..Len(p) : StandsAt(p[k])
    BY <1>5, <2>1
  <2>3. PICK k \in 1..Len(p) : StandsAt(p[k])
    BY <2>2
  <2>4. position = starts[i + 1] /\ seen = log[i]
    BY <1>4, <1>7, <2>1, <2>2, <2>3, DoneRead
  <2>5. mode' = "between" /\ current_event_id' = i /\ position' = position
    BY <1>1, <1>7 DEF ReadDone
  <2>6. Reading'
    BY <1>2, <2>4, <2>5 DEF Reading
  <2> QED
    BY <1>1, <1>7, <2>4, <2>6
<1> QED
  BY <1>3, <1>6, <1>7 DEF InsideStep

\* Nothing was read yet.
LEMMA ReadingInit == Init => Reading
BY DEF Init, Reading

\* Opening, reading and seeking, and what the recorder does before.
LEMMA ReadingStep ==
    ASSUME Bookkept, Written, ReaderTyped, Reading, [Next]_vars
    PROVE  Reading'
<1>1. CASE NextWriter /\ UNCHANGED readerVars
  <2>1. mode' = "closed"
    BY <1>1, WritesBeforeFinal DEF ReaderTyped, readerVars
  <2> QED
    BY <2>1 DEF Reading
<1>2. CASE OpenTrace
  <2>1. /\ mode' = "between" /\ position' = 1 /\ current_event_id' = 0 /\ starts' = starts
    BY <1>2 DEF OpenTrace, ReaderTyped, writerVars, history
  <2>2. starts[0 + 1] = 1
    BY DEF Bookkept
  <2> QED
    BY <2>1, <2>2 DEF Reading
<1>3. CASE ReadHead \/ InsideStep
  <2>1. spoilt' = spoilt
    BY <1>3 DEF ReadHead, InsideStep, ReadMemory, ReadRegister, ReadContinuation, ReadDone,
           writerVars, history
  <2>2. CASE spoilt
    BY <2>1, <2>2 DEF Reading
  <2>3. CASE ~spoilt
    BY <1>3, <2>3, ReadingMove
  <2> QED
    BY <2>2, <2>3
<1>4. ASSUME NEW event_id \in 0..Len(log), Seek(event_id)
      PROVE  Reading'
  <2>1. /\ mode' = "between" /\ position' = starts[event_id + 1]
        /\ current_event_id' = event_id /\ starts' = starts
    BY <1>4 DEF Seek, writerVars, history
  <2> QED
    BY <2>1 DEF Reading
<1>5. CASE Throw
  BY <1>5 DEF Throw, Reading
<1>6. CASE UNCHANGED vars
  <2>1. /\ UNCHANGED <<events, log, starts, spoilt>>
        /\ UNCHANGED <<mode, position, current_event_id, todo, seen>>
    BY <1>6 DEF vars, writerVars, history, readerVars
  <2> QED
    BY <2>1 DEF Reading, WholeEvent, StandsAt
<1> QED
  BY <1>1, <1>2, <1>3, <1>4, <1>5, <1>6 DEF Next

-----------------------------------------------------------------------------
(* The theorems.                                                            *)

\* What is true of every state: the section says what was recorded, and the
\* reader is somewhere on the path of the event it is in.
Inductive == IInv /\ Bookkept /\ Written /\ ReaderTyped /\ Reading

\* For every width of counts, bytes and addresses, every machine, any calls
\* and any seeks, the inductive invariant of the events section.
THEOREM Faithful == Spec => []Inductive
<1>1. Init => Inductive
  BY InitHolds, BookkeptInit, WrittenInit, ReaderTypedInit, ReadingInit DEF Init, Inductive
<1>2. Inductive /\ [Next]_vars => Inductive'
  <2> SUFFICES ASSUME Inductive, [Next]_vars PROVE Inductive'
    OBVIOUS
  <2>1. NextWriter \/ UNCHANGED writerVars
    BY DEF Next, vars, OpenTrace, InsideStep, ReadHead, ReadMemory, ReadRegister,
           ReadContinuation, ReadDone, Throw, Seek
  <2>2. IInv'
    BY <2>1, StepHolds, StutterKeeps DEF Inductive
  <2>3. Bookkept' /\ Written'
    BY <2>1, BookkeptWriter, WrittenStep, BooksUnread DEF Inductive
  <2>4. ReaderTyped'
    BY <2>3, ReaderTypedStep DEF Inductive
  <2>5. Reading'
    BY ReadingStep DEF Inductive
  <2> QED
    BY <2>2, <2>3, <2>4, <2>5 DEF Inductive
<1> QED
  BY <1>1, <1>2, PTL DEF Spec

\* Type correctness of writer and reader together: no count of the object ever
\* needs more than 4 bits, and the reader's never reaches 0xf.
THEOREM Typed == Spec => []TypeOK
<1>1. Inductive => TypeOK
  <2> SUFFICES ASSUME Inductive PROVE TypeOK
    OBVIOUS
  <2>1. IInv /\ Bookkept /\ ReaderTyped
    BY DEF Inductive
  <2>2. events \in Seq(Fields)
    BY <2>1 DEF IInv, HeadsAnnounced
  <2>3. current_diff_mem_count \in 0..Full /\ current_diff_reg_count \in 0..Full
    BY <2>1, WidthAssumption DEF Bookkept
  <2>4. TypeOKWriter
    BY <2>1, <2>2, <2>3 DEF IInv, Bookkept, TypeOKWriter, Fields
  <2>5. current_event_id \in 0..MaxEvents
    BY <2>1, BoundAssumption DEF ReaderTyped, Bookkept
  <2> QED
    BY <2>1, <2>4, <2>5 DEF ReaderTyped, Todo, TypeOK
<1> QED
  BY <1>1, Faithful, PTL

\* Of a trace whose recorder was never refused half-way, read_next_event finds
\* every field where it expects it, from every position it is put at.
THEOREM NothingMisread == Spec => []NeverMisread
<1>1. Inductive => NeverMisread
  BY DEF Inductive, Reading, NeverMisread
<1> QED
  BY <1>1, Faithful, PTL

\* trace_reader.h:44 and stream_pos(): between two events the reader stands
\* where the recorder stood between the same two.
THEOREM SeeksStandBetween == Spec => []StandsBetweenEvents
<1>1. Inductive => StandsBetweenEvents
  BY DEF Inductive, Reading, StandsBetweenEvents
<1> QED
  BY <1>1, Faithful, PTL

\* The callbacks of an event come in the order its writes were recorded, across
\* any number of continuation blocks.
THEOREM EffectsInOrder == Spec => []CallbacksInOrder
<1>1. Inductive => CallbacksInOrder
  <2> SUFFICES ASSUME Inductive, ~spoilt, mode = "inside"
               PROVE  /\ Len(seen) <= Len(log[current_event_id + 1])
                      /\ seen = SubSeq(log[current_event_id + 1], 1, Len(seen))
    BY DEF CallbacksInOrder
  <2>1. PICK i : i = current_event_id + 1
    OBVIOUS
  <2>2. i \in 1..Len(log)
    BY <2>1, LenProperties DEF Inductive, ReaderTyped, Bookkept
  <2>3. PICK p : WholeEvent(p, i) /\ \E k \in 1..Len(p) : StandsAt(p[k])
    BY <2>1 DEF Inductive, Reading
  <2>4. PICK k \in 1..Len(p) : StandsAt(p[k])
    BY <2>3
  <2>5. Within(starts[i], starts[i + 1], log[i], p[k])
    BY <2>2, <2>3, PlaceTyped DEF Inductive
  <2> QED
    BY <2>1, <2>4, <2>5 DEF Within, StandsAt
<1> QED
  BY <1>1, Faithful, PTL

-----------------------------------------------------------------------------
(* Writer and reader implement EventLog.                                    *)

\* What the recorder does between two steps of the log.
LEMMA RecorderSteps ==
    ASSUME Bookkept, ReaderTyped, NextWriter, UNCHANGED readerVars
    PROVE  L!Next \/ UNCHANGED L!vars
<1>1. /\ mode = "closed" /\ current_event_id = 0 /\ seen = <<>>
      /\ mode' = mode /\ current_event_id' = current_event_id /\ seen' = seen
  BY WritesBeforeFinal DEF ReaderTyped, readerVars
<1>2. spoilt \in BOOLEAN /\ log \in Seq(Seq(Effects)) /\ current \in Seq(Effects)
  BY DEF Bookkept
<1>3. /\ spoilt => spoilt'
      /\ spoilt' \in BOOLEAN
      /\ FinishEvent \/ log' = log
  BY <1>2 DEF NextWriter, StartEventInstruction, StartEventOther, StartEventOtherTooLong,
              WriteMemory, WriteRegister, WriteRegisterAction, DoFinalize, WriteFields, history,
              FinishEvent
<1>4. CASE spoilt
  BY <1>1, <1>3, <1>4 DEF L!vars
<1>5. CASE ~spoilt /\ spoilt'
  <2>1. L!Spoil
    BY <1>3, <1>5 DEF L!Spoil
  <2> QED
    BY <2>1 DEF L!Next
<1>6. CASE ~spoilt /\ ~spoilt' /\ FinishEvent
  <2>1. log' = Append(log, current)
    BY <1>6 DEF FinishEvent
  <2>2. Len(log') = Len(log) + 1 /\ SubSeq(log', 1, Len(log)) = log
    BY <1>2, <2>1, AppendProperties, LenProperties
  <2>3. L!Record
    BY <1>1, <1>2, <1>3, <1>6, <2>2 DEF L!Record
  <2> QED
    BY <2>3 DEF L!Next
<1>7. CASE ~spoilt /\ ~spoilt' /\ log' = log
  BY <1>1, <1>2, <1>3, <1>7 DEF L!vars
<1> QED
  BY <1>2, <1>3, <1>4, <1>5, <1>6, <1>7

\* What the reader does: looking for the next event, giving it up after an
\* exception and seeking set the cursor,
\* and the event is delivered when its last block was read.
LEMMA ReaderSteps ==
    ASSUME Bookkept, Written, ReaderTyped, Reading, UNCHANGED writerVars,
           \/ OpenTrace
           \/ ReadHead \/ InsideStep \/ Throw
           \/ \E event_id \in 0..Len(log) : Seek(event_id)
    PROVE  L!Next \/ UNCHANGED L!vars
<1>1. /\ log' = log /\ spoilt' = spoilt /\ spoilt \in BOOLEAN
      /\ current_event_id \in 0..Len(log) /\ Len(log) \in Nat
  BY LenProperties DEF writerVars, history, Bookkept, ReaderTyped
<1>2. CASE spoilt
  BY <1>1, <1>2 DEF L!vars
<1>3. ASSUME ~spoilt, NEW event_id \in 0..Len(log), current_event_id' = event_id,
             mode' # "between" \/ seen' = <<>>
      PROVE  L!Next
  <2>1. L!Seek(event_id)
    BY <1>1, <1>3 DEF L!Seek
  <2> QED
    BY <1>3, <2>1 DEF L!Next
<1>4. CASE ~spoilt /\ OpenTrace
  <2>1. /\ mode = "closed" /\ seen = <<>> /\ current_event_id' = current_event_id
        /\ seen' = seen
    BY <1>4 DEF OpenTrace, ReaderTyped
  <2> QED
    BY <1>1, <1>3, <1>4, <2>1
<1>5. CASE ~spoilt /\ ReadHead
  <2>1. ~ReadDone
    BY <1>5 DEF ReadHead, ReadDone, BlockRead
  <2>2. mode' = "inside" /\ current_event_id' = current_event_id
    BY <1>5, <2>1, ReadingMove
  <2> QED
    BY <1>1, <1>3, <1>5, <2>2
<1>6. ASSUME InsideStep
      PROVE  mode = "inside" /\ current_event_id < Len(log)
  <2>1. mode = "inside"
    BY <1>6 DEF InsideStep, ReadMemory, ReadRegister, ReadContinuation, ReadDone, BlockRead
  <2> QED
    BY <2>1 DEF ReaderTyped
<1>7. CASE ~spoilt /\ InsideStep /\ ~ReadDone
  <2>1. mode' = "inside" /\ current_event_id' = current_event_id
    BY <1>7, ReadingMove
  <2> QED
    BY <1>1, <1>3, <1>7, <2>1
<1>8. CASE ~spoilt /\ InsideStep /\ ReadDone
  <2>1. /\ mode' = "between" /\ current_event_id' = current_event_id + 1
        /\ seen' = seen
    BY <1>8 DEF ReadDone
  <2>2. seen = log[current_event_id + 1]
    BY <1>8, ReadingMove
  <2>3. L!Read
    BY <1>1, <1>6, <1>8, <2>1, <2>2 DEF L!Read
  <2> QED
    BY <2>3 DEF L!Next
<1>9. ASSUME ~spoilt, NEW event_id \in 0..Len(log), Seek(event_id)
      PROVE  L!Next
  <2>1. current_event_id' = event_id /\ seen' = <<>>
    BY <1>9 DEF Seek
  <2> QED
    BY <1>3, <1>9, <2>1
<1>10. CASE ~spoilt /\ Throw
  <2>1. mode' = "thrown" /\ current_event_id' = current_event_id
    BY <1>10 DEF Throw
  <2> QED
    BY <1>1, <1>3, <1>10, <2>1
<1> QED
  BY <1>1, <1>2, <1>4, <1>5, <1>7, <1>8, <1>9, <1>10

\* Writer and reader together implement the log: whatever is recorded and
\* however the reader seeks, a read delivers the whole event at the cursor, in
\* order, and nothing else, as long as no call was refused half-way.
THEOREM TraceIsLog == Spec => ImplementsLog
<1>1. Init => L!Init
  BY DEF Init, InitWriter, L!Init
<1>2. Inductive /\ [Next]_vars => [L!Next]_L!vars
  <2> SUFFICES ASSUME Inductive, [Next]_vars PROVE L!Next \/ UNCHANGED L!vars
    OBVIOUS
  <2>1. Bookkept /\ Written /\ ReaderTyped /\ Reading
    BY DEF Inductive
  <2>2. CASE NextWriter /\ UNCHANGED readerVars
    BY <2>1, <2>2, RecorderSteps
  <2>3. ASSUME \/ OpenTrace
               \/ ReadHead \/ InsideStep \/ Throw
               \/ \E event_id \in 0..Len(log) : Seek(event_id)
        PROVE  L!Next \/ UNCHANGED L!vars
    <3>1. UNCHANGED writerVars
      BY <2>3 DEF OpenTrace, ReadHead, InsideStep, ReadMemory, ReadRegister,
                  ReadContinuation, ReadDone, Throw, Seek
    <3> QED
      BY <2>1, <2>3, <3>1, ReaderSteps
  <2>4. CASE UNCHANGED vars
    BY <2>4 DEF vars, readerVars, writerVars, history, L!vars
  <2> QED
    BY <2>2, <2>3, <2>4 DEF Next
<1> QED
  BY <1>1, <1>2, Faithful, PTL DEF Spec, L!Spec, ImplementsLog

=============================================================================
