-------------------------- MODULE EventTrace_proofs --------------------------
(***************************************************************************)
(* Proofs that the diff bytes of an events section are never taken for the  *)
(* head of an event of type other, and that they announce what follows      *)
(* them, for every width of counts and bytes, every machine, all calls and  *)
(* any number of them.                                                      *)
(***************************************************************************)
EXTENDS EventTrace, FiniteSetTheorems, TLAPS

Fields == {"count", "diff", "type", "string", "address", "size",
           "wide size", "bytes", "id", "wide id", "content"} \X Nat \X Nat

\* The byte 0xff where a diff may be is followed by the type of the event.
HeadsAnnounced(s) ==
    /\ s \in Seq(Fields)
    /\ \A i \in 1..Len(s) :
          s[i] = NotInstruction => i < Len(s) /\ s[i + 1] = OtherType

\* A block is open in s, at pos, with these counts; its diff is not the first
\* field, which is the event count.
BlockOpen(s, pos, mem, reg) ==
    /\ pos \in Nat \ {0} /\ pos + 1 <= Len(s)
    /\ s[pos + 1] = Diff(0, 0)
    /\ mem \in 0..(Full - 1) /\ reg \in 0..(Full - 1)

IInv ==
    /\ HeadsAnnounced(events) /\ Len(events) > 0
    /\ event_count \in Nat
    /\ diff_element_count_stream_pos \in Nat \union {NoBlock}
    /\ IsEventStarted =>
          BlockOpen(events, diff_element_count_stream_pos,
                    current_diff_mem_count, current_diff_reg_count)

\* What the writer's calls append keeps every head announced.
LEMMA AppendedHeads ==
    ASSUME NEW s, NEW t, HeadsAnnounced(s), HeadsAnnounced(t)
    PROVE  HeadsAnnounced(s \o t)
<1>1. s \in Seq(Fields) /\ t \in Seq(Fields)
  BY DEF HeadsAnnounced
<1>2. s \o t \in Seq(Fields) /\ Len(s \o t) = Len(s) + Len(t)
  BY <1>1
<1>3. ASSUME NEW i \in 1..Len(s \o t), (s \o t)[i] = NotInstruction
      PROVE  i < Len(s \o t) /\ (s \o t)[i + 1] = OtherType
  <2>1. CASE i <= Len(s)
    <3>1. (s \o t)[i] = s[i] /\ i \in 1..Len(s)
      BY <1>1, <2>1
    <3>2. i < Len(s) /\ s[i + 1] = OtherType
      BY <3>1, <1>3 DEF HeadsAnnounced
    <3>3. (s \o t)[i + 1] = s[i + 1]
      BY <1>1, <3>1, <3>2
    <3> QED
      BY <1>1, <1>2, <3>2, <3>3
  <2>2. CASE i > Len(s)
    <3>1. (s \o t)[i] = t[i - Len(s)] /\ i - Len(s) \in 1..Len(t)
      BY <1>1, <1>2, <2>2
    <3>2. i - Len(s) < Len(t) /\ t[(i - Len(s)) + 1] = OtherType
      BY <3>1, <1>3 DEF HeadsAnnounced
    <3>3. (s \o t)[i + 1] = t[(i + 1) - Len(s)]
      BY <1>1, <2>2, <3>1, <3>2
    <3>4. (i + 1) - Len(s) = (i - Len(s)) + 1
      BY <1>1, <3>1
    <3> QED
      BY <1>1, <1>2, <3>1, <3>2, <3>3, <3>4
  <2> QED
    BY <1>1, <2>1, <2>2
<1> QED
  BY <1>2, <1>3 DEF HeadsAnnounced

\* Patching a diff that counts nothing announces nothing and takes no type away.
LEMMA PatchedHeads ==
    ASSUME NEW s, HeadsAnnounced(s), NEW p \in 1..Len(s), s[p] = Diff(0, 0),
           NEW f \in Fields, f # NotInstruction
    PROVE  /\ HeadsAnnounced([s EXCEPT ![p] = f])
           /\ Len([s EXCEPT ![p] = f]) = Len(s)
<1> DEFINE t == [s EXCEPT ![p] = f]
<1>1. s \in Seq(Fields)
  BY DEF HeadsAnnounced
<1>2. /\ t \in Seq(Fields) /\ Len(t) = Len(s)
      /\ \A i \in 1..Len(s) : t[i] = IF i = p THEN f ELSE s[i]
  BY <1>1
<1>3. s[p] # OtherType
  BY DEF Diff, OtherType
<1>4. ASSUME NEW i \in 1..Len(t), t[i] = NotInstruction
      PROVE  i < Len(t) /\ t[i + 1] = OtherType
  <2>1. i # p /\ s[i] = NotInstruction
    BY <1>2, <1>4
  <2>2. i < Len(s) /\ s[i + 1] = OtherType
    BY <1>2, <2>1 DEF HeadsAnnounced
  <2>3. i + 1 # p
    BY <1>3, <2>2
  <2> QED
    BY <1>1, <1>2, <2>2, <2>3
<1> QED
  BY <1>2, <1>4 DEF HeadsAnnounced

\* Fields other than the byte 0xff announce nothing.
LEMMA PlainHeads ==
    ASSUME NEW t \in Seq(Fields), \A i \in 1..Len(t) : t[i] # NotInstruction
    PROVE  HeadsAnnounced(t)
BY DEF HeadsAnnounced

\* A diff that does not count 0xf twice is not the byte 0xff.
LEMMA DiffIsField ==
    ASSUME NEW mem \in 0..Full, NEW reg \in 0..Full, ~(mem = Full /\ reg = Full)
    PROVE  Diff(mem, reg) \in Fields /\ Diff(mem, reg) # NotInstruction
<1>1. mem \in Nat /\ reg \in Nat
  BY WidthAssumption
<1>2. <<"diff", mem, reg>> \in Fields
  BY <1>1 DEF Fields
<1>3. <<"diff", mem, reg>> # <<"diff", Full, Full>>
  BY Z3
<1> QED
  BY <1>2, <1>3 DEF Diff, NotInstruction

LEMMA EmptyDiff == Diff(0, 0) \in Fields /\ Diff(0, 0) # NotInstruction
<1>1. 0 \in 0..Full /\ ~(0 = Full /\ 0 = Full)
  BY WidthAssumption
<1> QED
  BY <1>1, DiffIsField

-----------------------------------------------------------------------------
(* Blocks. *)

\* OpenBlock appends a head, if any, and a diff that counts nothing.
LEMMA BlockBegun ==
    ASSUME NEW s, HeadsAnnounced(s), Len(s) > 0
    PROVE  /\ HeadsAnnounced(Append(s, Diff(0, 0)))
           /\ BlockOpen(Append(s, Diff(0, 0)), Len(s), 0, 0)
<1> DEFINE t == <<Diff(0, 0)>>
<1>1. s \in Seq(Fields)
  BY DEF HeadsAnnounced
<1>2. t \in Seq(Fields) /\ Len(t) = 1 /\ t[1] = Diff(0, 0)
  BY EmptyDiff
<1>3. \A i \in 1..Len(t) : t[i] # NotInstruction
  BY <1>2, EmptyDiff
<1>4. HeadsAnnounced(t)
  BY <1>2, <1>3, PlainHeads
<1>5. HeadsAnnounced(s \o t)
  BY <1>4, AppendedHeads
<1>6. s \o t = Append(s, Diff(0, 0))
  BY <1>1, <1>2
<1>7. Len(Append(s, Diff(0, 0))) = Len(s) + 1 /\ Append(s, Diff(0, 0))[Len(s) + 1] = Diff(0, 0)
  BY <1>1, EmptyDiff
<1>8. 0 \in 0..(Full - 1)
  BY WidthAssumption
<1>9. HeadsAnnounced(Append(s, Diff(0, 0)))
  BY <1>5, <1>6, Zenon
<1>10. BlockOpen(Append(s, Diff(0, 0)), Len(s), 0, 0)
  BY <1>1, <1>7, <1>8 DEF BlockOpen
<1> QED
  BY <1>9, <1>10

\* An open block stays open when plain fields are appended behind its diff.
LEMMA BlockExtended ==
    ASSUME NEW s, HeadsAnnounced(s), NEW pos, NEW mem, NEW reg,
           BlockOpen(s, pos, mem, reg), NEW t, HeadsAnnounced(t)
    PROVE  HeadsAnnounced(s \o t) /\ BlockOpen(s \o t, pos, mem, reg)
<1>1. s \in Seq(Fields) /\ t \in Seq(Fields)
  BY DEF HeadsAnnounced
<1>2. pos \in Nat \ {0} /\ pos + 1 <= Len(s) /\ s[pos + 1] = Diff(0, 0)
  BY DEF BlockOpen
<1>3. Len(s \o t) = Len(s) + Len(t) /\ (s \o t)[pos + 1] = s[pos + 1]
  BY <1>1, <1>2
<1>4. pos + 1 <= Len(s \o t)
  BY <1>1, <1>2, <1>3
<1> QED
  BY <1>2, <1>3, <1>4, AppendedHeads DEF BlockOpen

\* What OneMoreMemory and OneMoreRegister return is an open block: a block whose
\* count reaches 0xf is closed, and the new one has counted one element.
Good(counted) ==
    /\ HeadsAnnounced(counted.fields)
    /\ BlockOpen(counted.fields, counted.pos, counted.mem, counted.reg)

LEMMA PatchedOpen ==
    ASSUME HeadsAnnounced(events),
           BlockOpen(events, diff_element_count_stream_pos,
                     current_diff_mem_count, current_diff_reg_count),
           NEW mem \in 0..Full, NEW reg \in 0..Full, ~(mem = Full /\ reg = Full)
    PROVE  HeadsAnnounced(WithDiff(mem, reg)) /\ Len(WithDiff(mem, reg)) = Len(events)
<1>1. events \in Seq(Fields)
  BY DEF HeadsAnnounced
<1>2. PICK p : p = diff_element_count_stream_pos + 1
  OBVIOUS
<1>3. p \in 1..Len(events) /\ events[p] = Diff(0, 0)
  BY <1>1, <1>2 DEF BlockOpen
<1>4. PICK f : f = Diff(mem, reg)
  OBVIOUS
<1>5. f \in Fields /\ f # NotInstruction
  BY <1>4, DiffIsField
<1>6. HeadsAnnounced([events EXCEPT ![p] = f]) /\ Len([events EXCEPT ![p] = f]) = Len(events)
  BY <1>3, <1>5, PatchedHeads
<1> QED
  BY <1>2, <1>4, <1>6 DEF WithDiff

LEMMA ContinuedGood ==
    ASSUME HeadsAnnounced(events),
           BlockOpen(events, diff_element_count_stream_pos,
                     current_diff_mem_count, current_diff_reg_count),
           NEW mem \in 0..Full, NEW reg \in 0..Full, ~(mem = Full /\ reg = Full),
           NEW m \in 0..(Full - 1), NEW r \in 0..(Full - 1)
    PROVE  Good(Continued(mem, reg, m, r))
<1>1. PICK s : s = WithDiff(mem, reg)
  OBVIOUS
<1>2. HeadsAnnounced(s) /\ Len(s) = Len(events)
  BY <1>1, PatchedOpen
<1> Len(s) > 0
  BY <1>2 DEF BlockOpen, HeadsAnnounced
<1>3. HeadsAnnounced(Append(s, Diff(0, 0))) /\ BlockOpen(Append(s, Diff(0, 0)), Len(s), 0, 0)
  BY <1>2, BlockBegun
<1>4. BlockOpen(Append(s, Diff(0, 0)), Len(s), m, r)
  BY <1>3 DEF BlockOpen
<1>5. Continued(mem, reg, m, r) =
        [fields |-> Append(s, Diff(0, 0)), pos |-> Len(s), mem |-> m, reg |-> r]
  BY <1>1, <1>2 DEF Continued
<1> QED
  BY <1>3, <1>4, <1>5 DEF Good

LEMMA OneMoreGood ==
    ASSUME HeadsAnnounced(events),
           BlockOpen(events, diff_element_count_stream_pos,
                     current_diff_mem_count, current_diff_reg_count)
    PROVE  Good(OneMoreMemory) /\ Good(OneMoreRegister)
<1>1. /\ current_diff_mem_count \in 0..(Full - 1) /\ current_diff_mem_count \in 0..Full
      /\ current_diff_reg_count \in 0..(Full - 1) /\ current_diff_reg_count \in 0..Full
      /\ current_diff_mem_count # Full /\ current_diff_reg_count # Full
      /\ Full \in 0..Full /\ 0 \in 0..(Full - 1) /\ 1 \in 0..(Full - 1)
  BY WidthAssumption DEF BlockOpen
<1>2. Good(OneMoreMemory)
  <2>1. CASE current_diff_mem_count + 1 = Full
    <3>1. Good(Continued(Full, current_diff_reg_count, 1, 0))
      BY <1>1, ContinuedGood
    <3> QED
      BY <2>1, <3>1 DEF OneMoreMemory
  <2>2. CASE current_diff_mem_count + 1 # Full
    <3>1. current_diff_mem_count + 1 \in 0..(Full - 1)
      BY <1>1, <2>2, WidthAssumption
    <3>2. BlockOpen(events, diff_element_count_stream_pos,
                    current_diff_mem_count + 1, current_diff_reg_count)
      BY <3>1 DEF BlockOpen
    <3> QED
      BY <2>2, <3>2 DEF OneMoreMemory, Good
  <2> QED
    BY <2>1, <2>2
<1>3. Good(OneMoreRegister)
  <2>1. CASE current_diff_reg_count + 1 = Full
    <3>1. Good(Continued(current_diff_mem_count, Full, 0, 1))
      BY <1>1, ContinuedGood
    <3> QED
      BY <2>1, <3>1 DEF OneMoreRegister
  <2>2. CASE current_diff_reg_count + 1 # Full
    <3>1. current_diff_reg_count + 1 \in 0..(Full - 1)
      BY <1>1, <2>2, WidthAssumption
    <3>2. BlockOpen(events, diff_element_count_stream_pos,
                    current_diff_mem_count, current_diff_reg_count + 1)
      BY <3>1 DEF BlockOpen
    <3> QED
      BY <2>2, <3>2 DEF OneMoreRegister, Good
  <2> QED
    BY <2>1, <2>2
<1> QED
  BY <1>2, <1>3

-----------------------------------------------------------------------------
(* The fields the calls append. *)

LEMMA FieldsPlain ==
    ASSUME NEW address \in Nat, NEW size \in Nat, NEW id \in Nat
    PROVE  /\ HeadsAnnounced(MemoryFields(address, size))
           /\ HeadsAnnounced(RegisterFields(id))
           /\ HeadsAnnounced(IF id <= Escape THEN <<Id(id)>> ELSE <<>>)
<1> DEFINE Plain == {f \in Fields : f # NotInstruction}
<1>1. ASSUME NEW t \in Seq(Plain)
      PROVE  HeadsAnnounced(t)
  <2>1. t \in Seq(Fields) /\ \A i \in 1..Len(t) : t[i] # NotInstruction
    OBVIOUS
  <2> QED
    BY <2>1, PlainHeads
<1>2. \A kind \in {"type", "string", "address", "size", "wide size", "bytes",
                   "id", "wide id", "content"}, k \in Nat :
          <<kind, k, 0>> \in Plain
  BY DEF Fields, NotInstruction, Diff
<1>3. Escape \in Nat
  BY WidthAssumption
<1>4. /\ Address(address) \in Plain /\ Size(size) \in Plain /\ Size(Escape) \in Plain
      /\ WideSize(size) \in Plain /\ Bytes(size) \in Plain
      /\ Id(id) \in Plain /\ Id(Escape) \in Plain /\ WideId(id) \in Plain
      /\ Content(id) \in Plain
  BY <1>2, <1>3 DEF Address, Size, WideSize, Bytes, Id, WideId, Content
<1> HIDE DEF Plain
<1>5. MemoryFields(address, size) \in Seq(Plain)
  BY <1>3, <1>4 DEF MemoryFields, AddressFits, SizeFits
<1>6. RegisterFields(id) \in Seq(Plain)
  BY <1>4 DEF RegisterFields
<1>7. (IF id <= Escape THEN <<Id(id)>> ELSE <<>>) \in Seq(Plain)
  BY <1>4
<1> QED
  BY <1>1, <1>5, <1>6, <1>7

\* The head of an event of type other, whose first byte is announced.
LEMMA OtherHead ==
    ASSUME NEW length \in Nat
    PROVE  /\ HeadsAnnounced(<<NotInstruction, OtherType, Text(length)>>)
           /\ HeadsAnnounced(<<NotInstruction, OtherType>>)
           /\ HeadsAnnounced(<<>>)
<1>1. NotInstruction \in Fields /\ OtherType \in Fields /\ Text(length) \in Fields
  BY WidthAssumption DEF Fields, NotInstruction, Diff, OtherType, Text
<1>2. OtherType # NotInstruction /\ Text(length) # NotInstruction
  BY DEF NotInstruction, Diff, OtherType, Text
<1>3. HeadsAnnounced(<<NotInstruction, OtherType, Text(length)>>)
  BY <1>1, <1>2 DEF HeadsAnnounced
<1>4. HeadsAnnounced(<<NotInstruction, OtherType>>)
  BY <1>1, <1>2 DEF HeadsAnnounced
<1>5. HeadsAnnounced(<<>>)
  BY DEF HeadsAnnounced
<1> QED
  BY <1>3, <1>4, <1>5

-----------------------------------------------------------------------------
(* The calls. *)

LEMMA OpenBlockKeeps ==
    ASSUME HeadsAnnounced(events), Len(events) > 0, event_count' \in Nat,
           NEW head, HeadsAnnounced(head), OpenBlock(head)
    PROVE  IInv'
<1>1. PICK s : s = events \o head
  OBVIOUS
<1>2. events \in Seq(Fields) /\ head \in Seq(Fields)
  BY DEF HeadsAnnounced
<1>3. HeadsAnnounced(s) /\ Len(s) = Len(events) + Len(head)
  BY <1>1, <1>2, AppendedHeads
<1>4. s \in Seq(Fields) /\ Len(s) > 0
  BY <1>2, <1>3 DEF HeadsAnnounced
<1>5. events' = Append(s, Diff(0, 0))
  <2>1. events' = events \o head \o <<Diff(0, 0)>>
    BY DEF OpenBlock
  <2> QED
    BY <1>1, <1>4, <2>1, EmptyDiff
<1>6. HeadsAnnounced(events') /\ BlockOpen(events', Len(s), 0, 0)
  BY <1>3, <1>4, <1>5, BlockBegun
<1>7. /\ diff_element_count_stream_pos' = Len(s)
      /\ current_diff_mem_count' = 0 /\ current_diff_reg_count' = 0
  BY <1>3 DEF OpenBlock
<1>8. Len(s) \in Nat
  BY <1>4
<1>9. BlockOpen(events', diff_element_count_stream_pos',
                current_diff_mem_count', current_diff_reg_count')
  BY <1>6, <1>7
<1>10. HeadsAnnounced(events)'
  BY <1>6 DEF HeadsAnnounced
<1>11. BlockOpen(events, diff_element_count_stream_pos,
                 current_diff_mem_count, current_diff_reg_count)'
  BY <1>9 DEF BlockOpen
<1>12. Len(events') > 0
  BY <1>4, <1>5
<1> QED
  BY <1>7, <1>8, <1>10, <1>11, <1>12 DEF IInv

LEMMA WriteFieldsKeeps ==
    ASSUME event_count \in Nat, NEW counted, Good(counted), NEW fields, HeadsAnnounced(fields),
           NEW complete, NEW effect, WriteFields(counted, fields, complete, effect)
    PROVE  IInv'
<1>1. PICK s, pos, mem, reg : /\ s = counted.fields /\ pos = counted.pos
                              /\ mem = counted.mem /\ reg = counted.reg
  OBVIOUS
<1>2. HeadsAnnounced(s) /\ BlockOpen(s, pos, mem, reg)
  BY <1>1 DEF Good
<1>3. HeadsAnnounced(s \o fields) /\ BlockOpen(s \o fields, pos, mem, reg)
  BY <1>2, BlockExtended
<1>4. /\ events' = s \o fields /\ diff_element_count_stream_pos' = pos
      /\ current_diff_mem_count' = mem /\ current_diff_reg_count' = reg
  BY <1>1 DEF WriteFields
<1>5. HeadsAnnounced(events)'
  BY <1>3, <1>4 DEF HeadsAnnounced
<1>6. BlockOpen(events, diff_element_count_stream_pos,
                current_diff_mem_count, current_diff_reg_count)'
  BY <1>3, <1>4 DEF BlockOpen
<1>7. diff_element_count_stream_pos' \in Nat
  BY <1>3, <1>4 DEF BlockOpen
<1>8. Len(events') > 0
  BY <1>3, <1>4 DEF BlockOpen, HeadsAnnounced
<1>9. event_count' = event_count
  BY DEF WriteFields
<1> QED
  BY <1>5, <1>6, <1>7, <1>8, <1>9 DEF IInv

LEMMA InitHolds == InitWriter => IInv
<1> SUFFICES ASSUME InitWriter PROVE IInv
  OBVIOUS
<1>1. /\ events = <<Count(0)>> /\ event_count = 0
      /\ diff_element_count_stream_pos = NoBlock
  BY DEF InitWriter
<1>2. Count(0) \in Fields /\ Count(0) # NotInstruction
  BY DEF Count, Fields, NotInstruction, Diff
<1>3. /\ events \in Seq(Fields) /\ Len(events) > 0
      /\ \A i \in 1..Len(events) : events[i] # NotInstruction
  BY <1>1, <1>2
<1>4. HeadsAnnounced(events)
  BY <1>3, PlainHeads
<1> QED
  BY <1>1, <1>3, <1>4 DEF IInv, IsEventStarted

\* Between events nothing of the invariant is about the block.
LEMMA NoBlockKeeps ==
    ASSUME HeadsAnnounced(events)', Len(events') > 0, event_count' \in Nat,
           diff_element_count_stream_pos' = NoBlock
    PROVE  IInv'
BY DEF IInv, IsEventStarted

LEMMA StutterKeeps ==
    ASSUME IInv, UNCHANGED writerVars
    PROVE  IInv'
<1>1. UNCHANGED <<events, event_count, diff_element_count_stream_pos,
                  current_diff_mem_count, current_diff_reg_count>>
  BY DEF writerVars, block
<1>2. HeadsAnnounced(events)'
  BY <1>1 DEF IInv, HeadsAnnounced
<1>3. IsEventStarted' = IsEventStarted
  BY <1>1 DEF IsEventStarted
<1>4. IsEventStarted => BlockOpen(events, diff_element_count_stream_pos,
                          current_diff_mem_count, current_diff_reg_count)'
  BY <1>1 DEF IInv, BlockOpen
<1> QED
  BY <1>1, <1>2, <1>3, <1>4 DEF IInv

LEMMA StepHolds ==
    ASSUME IInv, NextWriter
    PROVE  IInv'
<1>1. HeadsAnnounced(events) /\ Len(events) > 0 /\ event_count \in Nat
  BY DEF IInv
<1>2. ASSUME IsEventStarted
      PROVE  BlockOpen(events, diff_element_count_stream_pos,
                       current_diff_mem_count, current_diff_reg_count)
  BY <1>2 DEF IInv
<1>3. CASE StartEventInstruction
  <2>1. OpenBlock(<<>>) /\ HeadsAnnounced(<<>>) /\ event_count' = event_count
    BY <1>3, OtherHead DEF StartEventInstruction
  <2> QED
    BY <1>1, <2>1, OpenBlockKeeps
<1>4. ASSUME NEW length \in Description, StartEventOther(length)
      PROVE  IInv'
  <2>1. PICK head : head = <<NotInstruction, OtherType, Text(length)>>
    OBVIOUS
  <2>2. OpenBlock(head) /\ HeadsAnnounced(head) /\ event_count' = event_count
    BY <1>4, <2>1, OtherHead, InputAssumption DEF StartEventOther
  <2> QED
    BY <1>1, <2>2, OpenBlockKeeps
<1>5. ASSUME NEW length \in Description, StartEventOtherTooLong(length)
      PROVE  IInv'
  <2>1. PICK head : head = <<NotInstruction, OtherType>>
    OBVIOUS
  <2>2. HeadsAnnounced(head)
    BY <2>1, OtherHead
  <2>3. HeadsAnnounced(events \o head)
    BY <1>1, <2>2, AppendedHeads
  <2>4. events' = events \o head
    BY <1>5, <2>1 DEF StartEventOtherTooLong
  <2>5. HeadsAnnounced(events)'
    BY <2>3, <2>4 DEF HeadsAnnounced
  <2>6. /\ diff_element_count_stream_pos' = NoBlock
        /\ event_count' = event_count
    BY <1>5 DEF StartEventOtherTooLong, CanStart, IsEventStarted, block
  <2>7. Len(events') > 0
    BY <1>1, <2>2, <2>4 DEF HeadsAnnounced
  <2> QED
    BY <1>1, <2>5, <2>6, <2>7, NoBlockKeeps
<1>6. ASSUME NEW write \in MemoryWrite, WriteMemory(write[1], write[2])
      PROVE  IInv'
  <2>1. PICK address, size : address = write[1] /\ size = write[2]
    OBVIOUS
  <2>2. address \in Nat /\ size \in Nat
    BY <2>1, InputAssumption
  <2>3. HeadsAnnounced(MemoryFields(address, size))
    BY <2>2, FieldsPlain
  <2>4. Good(OneMoreMemory)
    BY <1>1, <1>2, <1>6, OneMoreGood DEF WriteMemory, CanAdd
  <2>5. WriteFields(OneMoreMemory, MemoryFields(address, size),
                    AddressFits(address) /\ SizeFits(size), MemoryEffect(address, size))
    BY <1>6, <2>1 DEF WriteMemory
  <2> QED
    BY <1>1, <2>3, <2>4, <2>5, WriteFieldsKeeps
<1>7. ASSUME NEW id \in Register, WriteRegister(id)
      PROVE  IInv'
  <2>1. HeadsAnnounced(RegisterFields(id))
    <3>1. id \in Nat
      BY IdAssumption
    <3> QED
      BY <3>1, FieldsPlain
  <2>2. Good(OneMoreRegister)
    BY <1>1, <1>2, <1>7, OneMoreGood DEF WriteRegister, CanAdd
  <2>3. WriteFields(OneMoreRegister, RegisterFields(id), TRUE, RegisterEffect(id))
    BY <1>7 DEF WriteRegister
  <2> QED
    BY <1>1, <2>1, <2>2, <2>3, WriteFieldsKeeps
<1>8. ASSUME NEW id \in ActionId, WriteRegisterAction(id)
      PROVE  IInv'
  <2>1. PICK fields : fields = IF id <= Escape THEN <<Id(id)>> ELSE <<>>
    OBVIOUS
  <2>2. HeadsAnnounced(fields)
    <3>1. id \in Nat
      BY InputAssumption
    <3> QED
      BY <2>1, <3>1, FieldsPlain
  <2>3. Good(OneMoreRegister)
    BY <1>1, <1>2, <1>8, OneMoreGood DEF WriteRegisterAction, CanAdd
  <2>4. WriteFields(OneMoreRegister, fields, id <= Escape, OperationEffect(id))
    BY <1>8, <2>1 DEF WriteRegisterAction
  <2> QED
    BY <1>1, <2>2, <2>3, <2>4, WriteFieldsKeeps
<1>9. CASE FinishEvent
  <2>1. PICK mem, reg : mem = current_diff_mem_count /\ reg = current_diff_reg_count
    OBVIOUS
  <2>2. BlockOpen(events, diff_element_count_stream_pos,
                  current_diff_mem_count, current_diff_reg_count)
    BY <1>2, <1>9 DEF FinishEvent
  <2>3. mem \in 0..Full /\ reg \in 0..Full /\ ~(mem = Full /\ reg = Full)
    BY <2>1, <2>2, WidthAssumption DEF BlockOpen
  <2>4. HeadsAnnounced(WithDiff(mem, reg)) /\ Len(WithDiff(mem, reg)) = Len(events)
    BY <1>1, <2>2, <2>3, PatchedOpen
  <2>5. /\ events' = WithDiff(mem, reg) /\ event_count' = event_count + 1
        /\ diff_element_count_stream_pos' = NoBlock
    BY <1>9, <2>1 DEF FinishEvent
  <2>6. HeadsAnnounced(events)'
    BY <2>4, <2>5 DEF HeadsAnnounced
  <2> QED
    BY <1>1, <2>4, <2>5, <2>6, NoBlockKeeps
<1>10. CASE DoFinalize
  <2>1. PICK f : f = Count(event_count)
    OBVIOUS
  <2>2. f \in Fields /\ f # NotInstruction
    BY <1>1, <2>1 DEF Count, Fields, NotInstruction, Diff
  <2>3. events' = [events EXCEPT ![1] = f] /\ event_count' = event_count
    BY <1>10, <2>1 DEF DoFinalize
  <2>4. /\ events \in Seq(Fields) /\ events' \in Seq(Fields) /\ Len(events') = Len(events)
        /\ \A i \in 1..Len(events) : events'[i] = IF i = 1 THEN f ELSE events[i]
    BY <1>1, <2>2, <2>3 DEF HeadsAnnounced
  <2>5. ASSUME NEW i \in 1..Len(events'), events'[i] = NotInstruction
        PROVE  i < Len(events') /\ events'[i + 1] = OtherType
    <3>1. i # 1 /\ events[i] = NotInstruction
      BY <2>2, <2>4, <2>5
    <3>2. i < Len(events) /\ events[i + 1] = OtherType
      BY <1>1, <2>4, <3>1 DEF HeadsAnnounced
    <3> QED
      BY <2>4, <3>1, <3>2
  <2>6. HeadsAnnounced(events)'
    BY <2>4, <2>5 DEF HeadsAnnounced
  <2>7. UNCHANGED <<diff_element_count_stream_pos, current_diff_mem_count,
                    current_diff_reg_count>>
    BY <1>10 DEF DoFinalize, block
  <2>8. IsEventStarted' = IsEventStarted
    BY <2>7 DEF IsEventStarted
  <2>9. IsEventStarted => BlockOpen(events, diff_element_count_stream_pos,
                                    current_diff_mem_count, current_diff_reg_count)'
    BY <1>2, <2>4, <2>7 DEF BlockOpen
  <2> QED
    BY <1>1, <2>3, <2>4, <2>6, <2>7, <2>8, <2>9 DEF IInv
<1> QED
  BY <1>3, <1>4, <1>5, <1>6, <1>7, <1>8, <1>9, <1>10 DEF NextWriter

-----------------------------------------------------------------------------
\* The invariant is more than what is wanted of the diff bytes.
LEMMA NeverBothFullFollows == IInv => NeverBothFull
<1> SUFFICES ASSUME IInv PROVE NeverBothFull
  OBVIOUS
<1>1. \A i \in 1..Len(events) :
          events[i] = NotInstruction => i < Len(events) /\ events[i + 1] = OtherType
  BY DEF IInv, HeadsAnnounced
<1>2. ASSUME IsEventStarted
      PROVE  /\ current_diff_mem_count < Full /\ current_diff_reg_count < Full
             /\ OpenDiff \in 1..Len(events) /\ events[OpenDiff] = Diff(0, 0)
  <2>1. BlockOpen(events, diff_element_count_stream_pos,
                  current_diff_mem_count, current_diff_reg_count)
    BY <1>2 DEF IInv
  <2>2. events \in Seq(Fields)
    BY DEF IInv, HeadsAnnounced
  <2> QED
    BY <2>1, <2>2, WidthAssumption DEF BlockOpen, OpenDiff
<1> QED
  BY <1>1, <1>2 DEF NeverBothFull

\* Whatever is recorded, in whatever order, refused calls included, the writer's
\* counts and open block are those of IInv: EventsSectionWriter as a whole.
THEOREM Invariance == Spec => []IInv
<1>1. Init => IInv
  BY InitHolds DEF Init
<1>2. IInv /\ [Next]_vars => IInv'
  <2> SUFFICES ASSUME IInv, [Next]_vars PROVE IInv'
    OBVIOUS
  <2>1. NextWriter \/ UNCHANGED writerVars
    BY DEF Next, vars, OpenTrace, InsideStep, ReadHead, ReadMemory, ReadRegister,
           ReadContinuation, ReadDone, Throw, Seek
  <2> QED
    BY <2>1, StepHolds, StutterKeeps
<1> QED
  BY <1>1, <1>2, PTL DEF Spec

\* trace-format.md:106: both counts of a diff are never 0xf at once.  For every
\* width, machine and sequence of calls, a byte 0xff stands only where an event of
\* type other begins, and write_event_diff_size() never throws.
THEOREM DiffsNeverReserved == Spec => []NeverBothFull
<1>1. IInv => NeverBothFull
  BY NeverBothFullFollows
<1> QED
  BY <1>1, Invariance, PTL

-----------------------------------------------------------------------------
(* The frames of the section: which fields belong to the block of a diff, in *)
(* any sequence of fields, and what appending and patching do to them.       *)

BlockIn(s, i) == {j \in (i + 1)..Len(s) : \A k \in (i + 1)..j : s[k][1] # "diff"}
KindIn(s, i, kind) == {j \in BlockIn(s, i) : s[j][1] = kind}
CountedIn(s, i, mem, reg) ==
    /\ Cardinality(KindIn(s, i, "address")) = mem
    /\ Cardinality(KindIn(s, i, "id")) = reg
    /\ \A j \in KindIn(s, i, "address"), k \in KindIn(s, i, "id") : j < k

\* Every block but the one at p holds what its diff announces; the first field,
\* which is patched last, is no diff.
Framed(s, p) ==
    /\ s[1][1] = "count"
    /\ \A i \in 1..Len(s) :
          s[i][1] = "diff" /\ s[i] # NotInstruction /\ i # p =>
              CountedIn(s, i, Announced(s[i][2]), Announced(s[i][3]))

\* The block at p is the last one, and holds this many writes.
OpenCounted(s, p, mem, reg) ==
    /\ p \in 1..Len(s) /\ s[p] = Diff(0, 0)
    /\ \A i \in (p + 1)..Len(s) : s[i][1] # "diff"
    /\ CountedIn(s, p, mem, reg)

\* The fields of a block are finitely many.
LEMMA KindFinite ==
    ASSUME NEW s \in Seq(Fields), NEW i \in Nat, NEW kind
    PROVE  IsFiniteSet(KindIn(s, i, kind)) /\ KindIn(s, i, kind) \subseteq 1..Len(s)
<1>1. KindIn(s, i, kind) \subseteq (i + 1)..Len(s)
  BY DEF KindIn, BlockIn
<1>2. IsFiniteSet((i + 1)..Len(s))
  BY FS_Interval
<1>3. IsFiniteSet(KindIn(s, i, kind))
  BY <1>1, <1>2, FS_Subset
<1> QED
  BY <1>1, <1>3

\* Counts are about the fields of a block and their kinds only.
LEMMA SameBlock ==
    ASSUME NEW s \in Seq(Fields), NEW t \in Seq(Fields), NEW i \in Nat,
           BlockIn(t, i) = BlockIn(s, i),
           \A j \in BlockIn(s, i) : t[j][1] = s[j][1],
           NEW mem, NEW reg
    PROVE  CountedIn(t, i, mem, reg) = CountedIn(s, i, mem, reg)
<1>1. \A kind : KindIn(t, i, kind) = KindIn(s, i, kind)
  BY DEF KindIn
<1> QED
  BY <1>1 DEF CountedIn

\* Patching keeps the kinds, and so the blocks.
LEMMA KindsKept ==
    ASSUME NEW s \in Seq(Fields), NEW t \in Seq(Fields), Len(t) = Len(s),
           \A j \in 1..Len(s) : t[j][1] = s[j][1], NEW i \in Nat, NEW mem, NEW reg
    PROVE  CountedIn(t, i, mem, reg) = CountedIn(s, i, mem, reg)
<1>1. \A j \in (i + 1)..Len(s) : t[j][1] = s[j][1]
  OBVIOUS
<1>2. \A j \in (i + 1)..Len(s) : \A k \in (i + 1)..j : t[k][1] = s[k][1]
  BY <1>1
<1>3. BlockIn(t, i) = BlockIn(s, i)
  BY <1>2 DEF BlockIn
<1>4. \A j \in BlockIn(s, i) : t[j][1] = s[j][1]
  BY <1>1 DEF BlockIn
<1> QED
  BY <1>3, <1>4, SameBlock

\* A block that a diff ends keeps its fields, whatever is appended.
LEMMA EndedKept ==
    ASSUME NEW s \in Seq(Fields), NEW t \in Seq(Fields), NEW i \in 1..Len(s),
           NEW d \in (i + 1)..Len(s \o t), d <= Len(s) + 1, (s \o t)[d][1] = "diff",
           NEW mem, NEW reg
    PROVE  CountedIn(s \o t, i, mem, reg) = CountedIn(s, i, mem, reg)
<1>1. PICK u : u = s \o t
  OBVIOUS
<1>2. /\ u \in Seq(Fields) /\ Len(u) = Len(s) + Len(t)
      /\ \A j \in 1..Len(s) : u[j] = s[j]
  BY <1>1
<1>3. d \in (i + 1)..Len(u) /\ u[d][1] = "diff"
  BY <1>1
<1>4. ASSUME NEW j \in BlockIn(u, i)
      PROVE  j \in BlockIn(s, i)
  <2>1. j \in (i + 1)..Len(u) /\ \A k \in (i + 1)..j : u[k][1] # "diff"
    BY DEF BlockIn
  <2>2. j < d
    BY <1>2, <1>3, <2>1
  <2>3. j \in (i + 1)..Len(s)
    BY <1>2, <1>3, <2>1, <2>2
  <2>4. \A k \in (i + 1)..j : k \in 1..Len(s)
    BY <2>3
  <2> QED
    BY <1>2, <2>1, <2>3, <2>4 DEF BlockIn
<1>5. ASSUME NEW j \in BlockIn(s, i)
      PROVE  j \in BlockIn(u, i) /\ u[j][1] = s[j][1]
  <2>1. j \in (i + 1)..Len(s) /\ \A k \in (i + 1)..j : s[k][1] # "diff"
    BY DEF BlockIn
  <2>2. \A k \in (i + 1)..j : k \in 1..Len(s)
    BY <2>1
  <2>3. j \in (i + 1)..Len(u) /\ j \in 1..Len(s)
    BY <1>2, <2>1
  <2> QED
    BY <1>2, <2>1, <2>2, <2>3 DEF BlockIn
<1>6. BlockIn(u, i) = BlockIn(s, i)
  BY <1>4, <1>5
<1>7. \A j \in BlockIn(s, i) : u[j][1] = s[j][1]
  BY <1>5
<1>8. u \in Seq(Fields) /\ i \in Nat
  BY <1>2
<1>9. CountedIn(u, i, mem, reg) = CountedIn(s, i, mem, reg)
  BY <1>6, <1>7, <1>8, SameBlock
<1> QED
  BY <1>1, <1>9

\* The fields of the last block are those behind its diff.
LEMMA LastBlock ==
    ASSUME NEW s \in Seq(Fields), NEW p \in 1..Len(s),
           \A i \in (p + 1)..Len(s) : s[i][1] # "diff"
    PROVE  BlockIn(s, p) = (p + 1)..Len(s)
<1>1. \A j \in (p + 1)..Len(s) : \A k \in (p + 1)..j : k \in (p + 1)..Len(s)
  OBVIOUS
<1> QED
  BY <1>1 DEF BlockIn

\* The fields of one write: its address or its id first.
OneOf(t, kind) ==
    /\ t \in Seq(Fields) /\ Len(t) > 0
    /\ t[1][1] = kind
    /\ \A i \in 2..Len(t) : t[i][1] \notin {"diff", "address", "id"}

\* Fields appended to the open block leave the others alone.
LEMMA FrameExtended ==
    ASSUME NEW s \in Seq(Fields), NEW p \in 1..Len(s), Framed(s, p), s[p] = Diff(0, 0),
           \A i \in (p + 1)..Len(s) : s[i][1] # "diff",
           NEW t \in Seq(Fields), \A i \in 1..Len(t) : t[i][1] # "diff"
    PROVE  /\ Framed(s \o t, p)
           /\ \A i \in (p + 1)..Len(s \o t) : (s \o t)[i][1] # "diff"
<1>1. PICK u : u = s \o t
  OBVIOUS
<1>2. /\ u \in Seq(Fields) /\ Len(u) = Len(s) + Len(t)
      /\ \A j \in 1..Len(s) : u[j] = s[j]
      /\ \A j \in (Len(s) + 1)..Len(u) : u[j] = t[j - Len(s)] /\ j - Len(s) \in 1..Len(t)
  BY <1>1
<1>3. ASSUME NEW i \in (p + 1)..Len(u)
      PROVE  u[i][1] # "diff"
  <2>1. CASE i <= Len(s)
    <3>1. i \in (p + 1)..Len(s) /\ i \in 1..Len(s)
      BY <2>1
    <3> QED
      BY <1>2, <3>1
  <2>2. CASE i > Len(s)
    <3>1. i \in (Len(s) + 1)..Len(u)
      BY <1>2, <2>2
    <3> QED
      BY <1>2, <3>1
  <2> QED
    BY <1>2, <2>1, <2>2
<1>4. u[1][1] = "count"
  BY <1>2 DEF Framed
<1>5. ASSUME NEW i \in 1..Len(u), u[i][1] = "diff", u[i] # NotInstruction, i # p
      PROVE  CountedIn(u, i, Announced(u[i][2]), Announced(u[i][3]))
  <2>1. i < p /\ i \in 1..Len(s) /\ u[i] = s[i]
    BY <1>2, <1>3, <1>5
  <2>2. PICK m, r : m = Announced(s[i][2]) /\ r = Announced(s[i][3])
    OBVIOUS
  <2>3. CountedIn(s, i, m, r)
    BY <1>5, <2>1, <2>2 DEF Framed
  <2>4. u[p][1] = "diff"
    BY <1>2 DEF Diff
  <2>5. p \in (i + 1)..Len(s \o t) /\ p <= Len(s) + 1 /\ (s \o t)[p][1] = "diff"
    BY <1>1, <1>2, <2>1, <2>4
  <2>6. CountedIn(s \o t, i, m, r) = CountedIn(s, i, m, r)
    BY <2>1, <2>5, EndedKept
  <2> QED
    BY <1>1, <2>1, <2>2, <2>3, <2>6
<1>6. Framed(u, p)
  BY <1>4, <1>5 DEF Framed
<1> QED
  BY <1>1, <1>3, <1>6

\* One write more in the last block: a field of its kind, the last one so far.
LEMMA ElementAdded ==
    ASSUME NEW s \in Seq(Fields), NEW p \in 1..Len(s),
           \A i \in (p + 1)..Len(s) : s[i][1] # "diff",
           NEW kind \in {"address", "id"}, NEW t, OneOf(t, kind),
           NEW other \in {"address", "id"}, other # kind
    PROVE  /\ KindIn(s \o t, p, kind) = KindIn(s, p, kind) \union {Len(s) + 1}
           /\ KindIn(s \o t, p, other) = KindIn(s, p, other)
<1>1. PICK u : u = s \o t
  OBVIOUS
<1>2. t \in Seq(Fields) /\ Len(t) > 0 /\ t[1][1] = kind
  BY DEF OneOf
<1>3. /\ u \in Seq(Fields) /\ Len(u) = Len(s) + Len(t)
      /\ \A j \in 1..Len(s) : u[j] = s[j]
      /\ \A j \in (Len(s) + 1)..Len(u) : u[j] = t[j - Len(s)] /\ j - Len(s) \in 1..Len(t)
  BY <1>1, <1>2
<1>4. u[Len(s) + 1][1] = kind /\ Len(s) + 1 \in (p + 1)..Len(u)
  <2>1. Len(s) + 1 \in (Len(s) + 1)..Len(u) /\ (Len(s) + 1) - Len(s) = 1
    BY <1>2, <1>3
  <2>2. u[Len(s) + 1] = t[1]
    BY <1>3, <2>1
  <2> QED
    BY <1>2, <2>1, <2>2
<1>5. ASSUME NEW j \in (Len(s) + 2)..Len(u)
      PROVE  u[j][1] \notin {"diff", "address", "id"}
  <2>1. u[j] = t[j - Len(s)] /\ j - Len(s) \in 2..Len(t)
    BY <1>3
  <2> QED
    BY <2>1 DEF OneOf
<1>6. ASSUME NEW i \in (p + 1)..Len(u)
      PROVE  u[i][1] # "diff"
  <2>1. CASE i <= Len(s)
    <3>1. i \in (p + 1)..Len(s) /\ i \in 1..Len(s)
      BY <2>1
    <3> QED
      BY <1>3, <3>1
  <2>2. CASE i = Len(s) + 1
    BY <1>4, <2>2
  <2>3. CASE i \in (Len(s) + 2)..Len(u)
    BY <1>5, <2>3
  <2> QED
    BY <1>3, <2>1, <2>2, <2>3
<1>7. BlockIn(s, p) = (p + 1)..Len(s) /\ BlockIn(u, p) = (p + 1)..Len(u)
  <2>1. p \in 1..Len(u)
    BY <1>3, <1>2
  <2> QED
    BY <1>3, <1>6, <2>1, LastBlock
<1>8. /\ \A j \in (p + 1)..Len(s) : j \in (p + 1)..Len(u) /\ u[j] = s[j]
      /\ \A j \in (p + 1)..Len(u) :
            j \in (p + 1)..Len(s) \/ j = Len(s) + 1 \/ j \in (Len(s) + 2)..Len(u)
  BY <1>2, <1>3
<1>9. KindIn(u, p, kind) = KindIn(s, p, kind) \union {Len(s) + 1}
  BY <1>4, <1>5, <1>7, <1>8 DEF KindIn
<1>10. KindIn(u, p, other) = KindIn(s, p, other)
  BY <1>4, <1>5, <1>7, <1>8 DEF KindIn
<1> QED
  BY <1>1, <1>9, <1>10

\* A memory write, while the block has no register write yet.
LEMMA MemoryAdded ==
    ASSUME NEW s \in Seq(Fields), NEW p, NEW mem, Framed(s, p), OpenCounted(s, p, mem, 0),
           NEW t, OneOf(t, "address")
    PROVE  Framed(s \o t, p) /\ OpenCounted(s \o t, p, mem + 1, 0)
<1>1. PICK u : u = s \o t
  OBVIOUS
<1>2. /\ p \in 1..Len(s) /\ s[p] = Diff(0, 0)
      /\ \A i \in (p + 1)..Len(s) : s[i][1] # "diff"
      /\ CountedIn(s, p, mem, 0)
  BY DEF OpenCounted
<1>3. t \in Seq(Fields) /\ \A i \in 1..Len(t) : t[i][1] # "diff"
  BY DEF OneOf
<1>4. Framed(u, p) /\ \A i \in (p + 1)..Len(u) : u[i][1] # "diff"
  BY <1>1, <1>2, <1>3, FrameExtended
<1>5. /\ KindIn(u, p, "address") = KindIn(s, p, "address") \union {Len(s) + 1}
      /\ KindIn(u, p, "id") = KindIn(s, p, "id")
  BY <1>1, <1>2, ElementAdded
<1>6. /\ IsFiniteSet(KindIn(s, p, "address")) /\ KindIn(s, p, "address") \subseteq 1..Len(s)
      /\ IsFiniteSet(KindIn(s, p, "id"))
  BY <1>2, KindFinite
<1>7. Cardinality(KindIn(s, p, "address")) = mem /\ Cardinality(KindIn(s, p, "id")) = 0
  BY <1>2 DEF CountedIn
<1>8. Cardinality(KindIn(u, p, "address")) = mem + 1
  <2>1. Len(s) + 1 \notin KindIn(s, p, "address")
    BY <1>6
  <2> QED
    BY <1>5, <1>6, <1>7, <2>1, FS_AddElement
<1>9. KindIn(u, p, "id") = {}
  BY <1>5, <1>6, <1>7, FS_EmptySet
<1>10. CountedIn(u, p, mem + 1, 0)
  BY <1>5, <1>7, <1>8, <1>9 DEF CountedIn
<1>11. p \in 1..Len(u) /\ u[p] = s[p]
  BY <1>1, <1>2, <1>3
<1>12. OpenCounted(u, p, mem + 1, 0)
  BY <1>2, <1>4, <1>10, <1>11 DEF OpenCounted
<1> QED
  BY <1>1, <1>4, <1>12

\* A register write, behind whatever the block holds.
LEMMA RegisterAdded ==
    ASSUME NEW s \in Seq(Fields), NEW p, NEW mem, NEW reg, Framed(s, p),
           OpenCounted(s, p, mem, reg), NEW t, OneOf(t, "id")
    PROVE  Framed(s \o t, p) /\ OpenCounted(s \o t, p, mem, reg + 1)
<1>1. PICK u : u = s \o t
  OBVIOUS
<1>2. /\ p \in 1..Len(s) /\ s[p] = Diff(0, 0)
      /\ \A i \in (p + 1)..Len(s) : s[i][1] # "diff"
      /\ CountedIn(s, p, mem, reg)
  BY DEF OpenCounted
<1>3. t \in Seq(Fields) /\ \A i \in 1..Len(t) : t[i][1] # "diff"
  BY DEF OneOf
<1>4. Framed(u, p) /\ \A i \in (p + 1)..Len(u) : u[i][1] # "diff"
  BY <1>1, <1>2, <1>3, FrameExtended
<1>5. /\ KindIn(u, p, "id") = KindIn(s, p, "id") \union {Len(s) + 1}
      /\ KindIn(u, p, "address") = KindIn(s, p, "address")
  BY <1>1, <1>2, ElementAdded
<1>6. /\ IsFiniteSet(KindIn(s, p, "id")) /\ KindIn(s, p, "id") \subseteq 1..Len(s)
      /\ KindIn(s, p, "address") \subseteq 1..Len(s)
  BY <1>2, KindFinite
<1>7. /\ Cardinality(KindIn(s, p, "address")) = mem /\ Cardinality(KindIn(s, p, "id")) = reg
      /\ \A j \in KindIn(s, p, "address"), k \in KindIn(s, p, "id") : j < k
  BY <1>2 DEF CountedIn
<1>8. Cardinality(KindIn(u, p, "id")) = reg + 1
  <2>1. Len(s) + 1 \notin KindIn(s, p, "id")
    BY <1>6
  <2> QED
    BY <1>5, <1>6, <1>7, <2>1, FS_AddElement
<1>9. \A j \in KindIn(u, p, "address"), k \in KindIn(u, p, "id") : j < k
  <2>1. \A j \in KindIn(s, p, "address") : j < Len(s) + 1
    BY <1>6
  <2> QED
    BY <1>5, <1>7, <2>1
<1>10. CountedIn(u, p, mem, reg + 1)
  BY <1>5, <1>7, <1>8, <1>9 DEF CountedIn
<1>11. p \in 1..Len(u) /\ u[p] = s[p]
  BY <1>1, <1>2, <1>3
<1>12. OpenCounted(u, p, mem, reg + 1)
  BY <1>2, <1>4, <1>10, <1>11 DEF OpenCounted
<1> QED
  BY <1>1, <1>4, <1>12

\* Closing a block: its diff announces what it holds.
LEMMA DiffPatched ==
    ASSUME NEW s \in Seq(Fields), NEW p, NEW mem, NEW reg, Framed(s, p),
           NEW m \in 0..Full, NEW r \in 0..Full,
           OpenCounted(s, p, Announced(m), Announced(r))
    PROVE  Framed([s EXCEPT ![p] = Diff(m, r)], 0)
<1>1. PICK f : f = Diff(m, r)
  OBVIOUS
<1>2. f \in Fields /\ f[1] = "diff" /\ f[2] = m /\ f[3] = r
  <2>1. m \in Nat /\ r \in Nat
    BY WidthAssumption
  <2>2. f = <<"diff", m, r>>
    BY <1>1 DEF Diff
  <2> QED
    BY <2>1, <2>2 DEF Fields
<1>3. PICK u : u = [s EXCEPT ![p] = f]
  OBVIOUS
<1>4. /\ p \in 1..Len(s) /\ s[p] = Diff(0, 0)
      /\ CountedIn(s, p, Announced(m), Announced(r))
  BY DEF OpenCounted
<1>5. /\ u \in Seq(Fields) /\ Len(u) = Len(s)
      /\ \A j \in 1..Len(s) : u[j] = IF j = p THEN f ELSE s[j]
  BY <1>2, <1>3, <1>4
<1>6. \A j \in 1..Len(s) : u[j][1] = s[j][1]
  BY <1>2, <1>4, <1>5 DEF Diff
<1>7. u[1][1] = "count"
  BY <1>4, <1>6 DEF Framed
<1>8. ASSUME NEW i \in 1..Len(u), u[i][1] = "diff", u[i] # NotInstruction
      PROVE  CountedIn(u, i, Announced(u[i][2]), Announced(u[i][3]))
  <2>1. PICK c, d : c = Announced(u[i][2]) /\ d = Announced(u[i][3])
    OBVIOUS
  <2>2. CountedIn(s, i, c, d)
    <3>1. CASE i = p
      BY <1>2, <1>4, <1>5, <2>1, <3>1
    <3>2. CASE i # p
      BY <1>5, <1>8, <2>1, <3>2 DEF Framed
    <3> QED
      BY <3>1, <3>2
  <2>3. CountedIn(u, i, c, d) = CountedIn(s, i, c, d)
    BY <1>5, <1>6, KindsKept
  <2> QED
    BY <2>1, <2>2, <2>3
<1>9. Framed(u, 0)
  BY <1>7, <1>8 DEF Framed
<1> QED
  BY <1>1, <1>3, <1>9

\* OpenBlock: a head, if any, and a diff behind fields that no block counts.
LEMMA BlockFramed ==
    ASSUME NEW s \in Seq(Fields), Len(s) > 0, Framed(s, 0), NEW head \in Seq(Fields),
           \A i \in 1..Len(head) : head[i][1] = "diff" => head[i] = NotInstruction,
           Len(head) > 0 => head[1][1] = "diff"
    PROVE  /\ Framed(s \o head \o <<Diff(0, 0)>>, Len(s) + Len(head) + 1)
           /\ OpenCounted(s \o head \o <<Diff(0, 0)>>, Len(s) + Len(head) + 1, 0, 0)
<1>1. PICK t : t = head \o <<Diff(0, 0)>>
  OBVIOUS
<1>2. <<Diff(0, 0)>> \in Seq(Fields) /\ <<Diff(0, 0)>>[1] = Diff(0, 0)
  BY EmptyDiff
<1>3. /\ t \in Seq(Fields) /\ Len(t) = Len(head) + 1
      /\ \A j \in 1..Len(head) : t[j] = head[j]
      /\ t[Len(head) + 1] = Diff(0, 0)
  BY <1>1, <1>2
<1>4. PICK p : p = Len(s) + Len(head) + 1
  OBVIOUS
<1>5. PICK u : u = s \o t
  OBVIOUS
<1>6. /\ u \in Seq(Fields) /\ Len(u) = Len(s) + Len(t) /\ Len(u) = p
      /\ \A j \in 1..Len(s) : u[j] = s[j]
      /\ \A j \in (Len(s) + 1)..Len(u) : u[j] = t[j - Len(s)] /\ j - Len(s) \in 1..Len(t)
  <2>1. u \in Seq(Fields) /\ Len(u) = Len(s) + Len(t)
    <3>1. s \in Seq(Fields) /\ t \in Seq(Fields)
      BY <1>3
    <3> QED
      BY <1>5, <3>1
  <2>2. Len(u) = p
    BY <1>3, <1>4, <2>1
  <2>3. \A j \in 1..Len(s) : u[j] = s[j]
    BY <1>3, <1>5
  <2>4. \A j \in (Len(s) + 1)..Len(u) : u[j] = t[j - Len(s)] /\ j - Len(s) \in 1..Len(t)
    BY <1>3, <1>5, <2>1
  <2> QED
    BY <2>1, <2>2, <2>3, <2>4
<1>7. u[p] = Diff(0, 0) /\ p \in 1..Len(u)
  <2>1. p \in (Len(s) + 1)..Len(u) /\ p - Len(s) = Len(head) + 1
    BY <1>3, <1>4, <1>6
  <2> QED
    BY <1>3, <1>6, <2>1
<1>8. u[Len(s) + 1][1] = "diff"
  <2>1. Len(s) + 1 \in (Len(s) + 1)..Len(u) /\ (Len(s) + 1) - Len(s) = 1
    BY <1>3, <1>6
  <2>2. u[Len(s) + 1] = t[1]
    BY <1>6, <2>1
  <2>3. CASE Len(head) = 0
    BY <1>3, <2>2, <2>3 DEF Diff
  <2>4. CASE Len(head) > 0
    BY <1>3, <2>2, <2>4
  <2> QED
    BY <2>3, <2>4
<1>9. u[1][1] = "count"
  BY <1>6 DEF Framed
<1>10. ASSUME NEW i \in 1..Len(u), u[i][1] = "diff", u[i] # NotInstruction, i # p
       PROVE  CountedIn(u, i, Announced(u[i][2]), Announced(u[i][3]))
  <2>1. i <= Len(s)
    <3>1. ASSUME i > Len(s)
          PROVE  FALSE
      <4>1. i - Len(s) \in 1..Len(head) /\ u[i] = t[i - Len(s)]
        BY <1>3, <1>4, <1>6, <1>10, <3>1
      <4>2. u[i] = head[i - Len(s)]
        BY <1>3, <4>1
      <4> QED
        BY <1>10, <4>1, <4>2
    <3> QED
      BY <3>1, <1>6
  <2>2. i \in 1..Len(s) /\ u[i] = s[i]
    BY <1>6, <2>1
  <2>3. PICK c, d : c = Announced(s[i][2]) /\ d = Announced(s[i][3])
    OBVIOUS
  <2>4. CountedIn(s, i, c, d)
    BY <1>10, <2>2, <2>3 DEF Framed
  <2>5. PICK e : e = Len(s) + 1
    OBVIOUS
  <2>6. e \in (i + 1)..Len(s \o t) /\ e <= Len(s) + 1 /\ (s \o t)[e][1] = "diff"
    BY <1>3, <1>5, <1>6, <1>8, <2>1, <2>5
  <2>7. CountedIn(s \o t, i, c, d) = CountedIn(s, i, c, d)
    BY <1>3, <2>2, <2>6, EndedKept
  <2> QED
    BY <1>5, <2>2, <2>3, <2>4, <2>7
<1>11. Framed(u, p)
  BY <1>9, <1>10 DEF Framed
<1>12. OpenCounted(u, p, 0, 0)
  <2>1. \A i \in (p + 1)..Len(u) : FALSE
    BY <1>6, <1>7
  <2>2. BlockIn(u, p) = {}
    BY <2>1 DEF BlockIn
  <2>3. KindIn(u, p, "address") = {} /\ KindIn(u, p, "id") = {}
    BY <2>2 DEF KindIn
  <2>4. CountedIn(u, p, 0, 0)
    BY <2>3, FS_EmptySet DEF CountedIn
  <2> QED
    BY <1>7, <2>1, <2>4 DEF OpenCounted
<1>13. u = s \o head \o <<Diff(0, 0)>>
  BY <1>1, <1>2, <1>5
<1> QED
  BY <1>4, <1>11, <1>12, <1>13

\* As long as no call threw half-way, every block is counted: a closed one by its
\* diff, the open one, the last, by the object.
Framing ==
    ~spoilt =>
        /\ Framed(events, OpenDiff)
        /\ IsEventStarted => OpenCounted(events, OpenDiff, current_diff_mem_count,
                                         current_diff_reg_count)

\* The fields of the calls that are not refused half-way.
LEMMA ElementFields ==
    ASSUME NEW address \in Nat, NEW size \in Nat, NEW id \in Nat
    PROVE  /\ AddressFits(address) /\ SizeFits(size) =>
                  OneOf(MemoryFields(address, size), "address")
           /\ OneOf(RegisterFields(id), "id")
           /\ id <= Escape => OneOf(<<Id(id)>>, "id")
<1>1. Escape \in Nat
  BY WidthAssumption
<1>2. \A kind \in {"address", "size", "wide size", "bytes", "id", "wide id", "content"},
        k \in Nat : <<kind, k, 0>> \in Fields /\ <<kind, k, 0>>[1] = kind
  BY DEF Fields
<1>3. ASSUME NEW kind \in {"address", "id"}, NEW a \in Fields, NEW b \in Fields,
             NEW c \in Fields, NEW d \in Fields, a[1] = kind,
             \A x \in {b, c, d} : x[1] \in {"size", "wide size", "bytes", "wide id", "content"}
      PROVE  /\ OneOf(<<a>>, kind) /\ OneOf(<<a, b>>, kind)
             /\ OneOf(<<a, b, c>>, kind) /\ OneOf(<<a, b, c, d>>, kind)
  <2>1. \A x \in {b, c, d} : x[1] \notin {"diff", "address", "id"}
    BY <1>3
  <2>2. ASSUME NEW t \in Seq(Fields), Len(t) > 0, t[1] = a,
               \A i \in 2..Len(t) : t[i] \in {b, c, d}
        PROVE  OneOf(t, kind)
    BY <1>3, <2>1, <2>2 DEF OneOf
  <2>3. OneOf(<<a>>, kind)
    <3>1. PICK t : t = <<a>>
      OBVIOUS
    <3>2. t \in Seq(Fields) /\ Len(t) = 1 /\ t[1] = a
      BY <3>1
    <3>3. \A i \in 2..Len(t) : t[i] \in {b, c, d}
      BY <3>2
    <3>4. OneOf(t, kind)
      BY <2>2, <3>2, <3>3
    <3> QED
      BY <3>1, <3>4
  <2>4. OneOf(<<a, b>>, kind)
    <3>1. PICK t : t = <<a, b>>
      OBVIOUS
    <3>2. t \in Seq(Fields) /\ Len(t) = 2 /\ t[1] = a /\ t[2] = b
      BY <3>1
    <3>3. \A i \in 2..Len(t) : t[i] \in {b, c, d}
      BY <3>2
    <3>4. OneOf(t, kind)
      BY <2>2, <3>2, <3>3
    <3> QED
      BY <3>1, <3>4
  <2>5. OneOf(<<a, b, c>>, kind)
    <3>1. PICK t : t = <<a, b, c>>
      OBVIOUS
    <3>2. t \in Seq(Fields) /\ Len(t) = 3 /\ t[1] = a /\ t[2] = b /\ t[3] = c
      BY <3>1
    <3>3. \A i \in 2..Len(t) : t[i] \in {b, c, d}
      BY <3>2
    <3>4. OneOf(t, kind)
      BY <2>2, <3>2, <3>3
    <3> QED
      BY <3>1, <3>4
  <2>6. OneOf(<<a, b, c, d>>, kind)
    <3>1. PICK t : t = <<a, b, c, d>>
      OBVIOUS
    <3>2. t \in Seq(Fields) /\ Len(t) = 4 /\ t[1] = a /\ t[2] = b /\ t[3] = c /\ t[4] = d
      BY <3>1
    <3>3. \A i \in 2..Len(t) : t[i] \in {b, c, d}
      BY <3>2
    <3>4. OneOf(t, kind)
      BY <2>2, <3>2, <3>3
    <3> QED
      BY <3>1, <3>4
  <2> QED
    BY <2>3, <2>4, <2>5, <2>6
<1>4. /\ Address(address) \in Fields /\ Address(address)[1] = "address"
      /\ Size(size) \in Fields /\ Size(size)[1] = "size"
      /\ Size(Escape) \in Fields /\ Size(Escape)[1] = "size"
      /\ WideSize(size) \in Fields /\ WideSize(size)[1] = "wide size"
      /\ Bytes(size) \in Fields /\ Bytes(size)[1] = "bytes"
  BY <1>1, <1>2 DEF Address, Size, WideSize, Bytes
<1>5. /\ Id(id) \in Fields /\ Id(id)[1] = "id"
      /\ Id(Escape) \in Fields /\ Id(Escape)[1] = "id"
      /\ WideId(id) \in Fields /\ WideId(id)[1] = "wide id"
      /\ Content(id) \in Fields /\ Content(id)[1] = "content"
  BY <1>1, <1>2 DEF Id, WideId, Content
<1>6. ASSUME AddressFits(address), SizeFits(size)
      PROVE  OneOf(MemoryFields(address, size), "address")
  <2>1. OneOf(<<Address(address), Size(size), Bytes(size)>>, "address")
    <3>1. \A x \in {Size(size), Bytes(size), Bytes(size)} :
              x[1] \in {"size", "wide size", "bytes", "wide id", "content"}
      BY <1>4
    <3> QED
      BY <1>3, <1>4, <3>1
  <2>2. OneOf(<<Address(address), Size(Escape), WideSize(size), Bytes(size)>>, "address")
    <3>1. \A x \in {Size(Escape), WideSize(size), Bytes(size)} :
              x[1] \in {"size", "wide size", "bytes", "wide id", "content"}
      BY <1>4
    <3> QED
      BY <1>3, <1>4, <3>1
  <2>3. CASE size < Escape
    <3>1. MemoryFields(address, size) = <<Address(address), Size(size), Bytes(size)>>
      <4>1. ~(size >= Escape)
        BY <1>1, <2>3
      <4> QED
        BY <1>6, <2>3, <4>1, Zenon DEF MemoryFields
    <3> QED
      BY <2>1, <3>1
  <2>4. CASE ~(size < Escape)
    <3>1. size >= Escape
      BY <1>1, <2>4
    <3>2. MemoryFields(address, size) =
            <<Address(address), Size(Escape), WideSize(size), Bytes(size)>>
      BY <1>6, <2>4, <3>1, Zenon DEF MemoryFields
    <3> QED
      BY <2>2, <3>2
  <2> QED
    BY <2>3, <2>4
<1>7. OneOf(RegisterFields(id), "id") /\ OneOf(<<Id(id)>>, "id")
  <2>1. \A x \in {Content(id), Content(id), Content(id)} :
            x[1] \in {"size", "wide size", "bytes", "wide id", "content"}
    BY <1>5
  <2>2. \A x \in {WideId(id), Content(id), Content(id)} :
            x[1] \in {"size", "wide size", "bytes", "wide id", "content"}
    BY <1>5
  <2>3. OneOf(<<Id(id)>>, "id") /\ OneOf(<<Id(id), Content(id)>>, "id")
    BY <1>3, <1>5, <2>1
  <2>4. OneOf(<<Id(Escape), WideId(id), Content(id)>>, "id")
    BY <1>3, <1>5, <2>2
  <2> QED
    BY <2>3, <2>4 DEF RegisterFields
<1> QED
  BY <1>6, <1>7

\* The element counted is still to be written: the block holds one less.
AwaitsMemory(counted) ==
    \E m \in Nat : /\ Framed(counted.fields, counted.pos + 1)
                   /\ OpenCounted(counted.fields, counted.pos + 1, m, 0)
                   /\ counted.mem = m + 1 /\ counted.reg = 0

AwaitsRegister(counted) ==
    \E m \in Nat, r \in Nat : /\ Framed(counted.fields, counted.pos + 1)
                              /\ OpenCounted(counted.fields, counted.pos + 1, m, r)
                              /\ counted.mem = m /\ counted.reg = r + 1

\* What the counting relies on, and the block it finds.
LEMMA CountsBefore ==
    ASSUME IInv, Framing, ~spoilt, IsEventStarted
    PROVE  /\ HeadsAnnounced(events)
           /\ BlockOpen(events, diff_element_count_stream_pos,
                        current_diff_mem_count, current_diff_reg_count)
           /\ current_diff_mem_count \in 0..(Full - 1) /\ current_diff_reg_count \in 0..(Full - 1)
           /\ Framed(events, OpenDiff)
           /\ OpenCounted(events, OpenDiff, current_diff_mem_count, current_diff_reg_count)
BY DEF IInv, Framing, BlockOpen

\* continue_on_next_event: the old block announces Full - 1 by Full.
LEMMA ContinuedFramed ==
    ASSUME IInv, Framing, ~spoilt, IsEventStarted,
           NEW mem \in 0..Full, NEW reg \in 0..Full, ~(mem = Full /\ reg = Full),
           Announced(mem) = current_diff_mem_count, Announced(reg) = current_diff_reg_count,
           NEW m, NEW r
    PROVE  LET c == Continued(mem, reg, m, r)
           IN  Framed(c.fields, c.pos + 1) /\ OpenCounted(c.fields, c.pos + 1, 0, 0)
<1>1. PICK s : s = WithDiff(mem, reg)
  OBVIOUS
<1>2. HeadsAnnounced(s) /\ Len(s) = Len(events) /\ Len(events) > 0
  BY <1>1, CountsBefore, PatchedOpen DEF IInv
<1>3. s \in Seq(Fields)
  BY <1>2 DEF HeadsAnnounced
<1>4. Framed(s, 0)
  <2>1. PICK p : p = OpenDiff
    OBVIOUS
  <2>2. events \in Seq(Fields) /\ Framed(events, p)
        /\ OpenCounted(events, p, Announced(mem), Announced(reg))
    BY <2>1, CountsBefore DEF HeadsAnnounced
  <2>3. Framed([events EXCEPT ![p] = Diff(mem, reg)], 0)
    BY <2>2, DiffPatched
  <2> QED
    BY <1>1, <2>1, <2>3 DEF WithDiff, OpenDiff
<1>5. PICK head : head = <<>>
  OBVIOUS
<1>6. /\ head \in Seq(Fields) /\ Len(head) = 0
      /\ \A i \in 1..Len(head) : head[i][1] = "diff" => head[i] = NotInstruction
      /\ Len(head) > 0 => head[1][1] = "diff"
  BY <1>5
<1>7. /\ Framed(s \o head \o <<Diff(0, 0)>>, Len(s) + Len(head) + 1)
      /\ OpenCounted(s \o head \o <<Diff(0, 0)>>, Len(s) + Len(head) + 1, 0, 0)
  BY <1>2, <1>3, <1>4, <1>6, BlockFramed
<1>8. s \o head \o <<Diff(0, 0)>> = Append(s, Diff(0, 0)) /\ Len(s) + Len(head) + 1 = Len(s) + 1
  BY <1>3, <1>5, <1>6, EmptyDiff
<1>9. /\ Framed(Append(s, Diff(0, 0)), Len(s) + 1)
      /\ OpenCounted(Append(s, Diff(0, 0)), Len(s) + 1, 0, 0)
  BY <1>7, <1>8
<1>10. Continued(mem, reg, m, r) =
         [fields |-> Append(s, Diff(0, 0)), pos |-> Len(s), mem |-> m, reg |-> r]
  BY <1>1, <1>2 DEF Continued
<1> QED
  BY <1>9, <1>10

LEMMA OneMoreMemoryFramed ==
    ASSUME IInv, Framing, ~spoilt, IsEventStarted, current_diff_reg_count = 0
    PROVE  AwaitsMemory(OneMoreMemory)
<1>1. /\ current_diff_mem_count \in 0..(Full - 1)
      /\ Full \in 0..Full /\ 0 \in 0..Full /\ Full # 0 /\ Full \in Nat
  BY CountsBefore, WidthAssumption
<1>2. CASE current_diff_mem_count + 1 = Full
  <2>1. PICK c : c = Continued(Full, current_diff_reg_count, 1, 0)
    OBVIOUS
  <2>2. Announced(Full) = current_diff_mem_count /\ Announced(0) = current_diff_reg_count
    BY <1>1, <1>2 DEF Announced
  <2>3. Framed(c.fields, c.pos + 1) /\ OpenCounted(c.fields, c.pos + 1, 0, 0)
    BY <1>1, <2>1, <2>2, ContinuedFramed
  <2>4. c.mem = 0 + 1 /\ c.reg = 0
    BY <2>1 DEF Continued
  <2>5. AwaitsMemory(c)
    BY <2>3, <2>4 DEF AwaitsMemory
  <2> QED
    BY <1>2, <2>1, <2>5 DEF OneMoreMemory
<1>3. CASE current_diff_mem_count + 1 # Full
  <2>1. PICK c : c = OneMoreMemory
    OBVIOUS
  <2>2. /\ c.fields = events /\ c.pos = diff_element_count_stream_pos
        /\ c.mem = current_diff_mem_count + 1 /\ c.reg = 0
    BY <1>3, <2>1 DEF OneMoreMemory
  <2>3. Framed(c.fields, c.pos + 1)
        /\ OpenCounted(c.fields, c.pos + 1, current_diff_mem_count, 0)
    BY <2>2, CountsBefore DEF OpenDiff
  <2>4. current_diff_mem_count \in Nat
    BY <1>1
  <2>5. AwaitsMemory(c)
    BY <2>2, <2>3, <2>4 DEF AwaitsMemory
  <2> QED
    BY <2>1, <2>5
<1> QED
  BY <1>2, <1>3

LEMMA OneMoreRegisterFramed ==
    ASSUME IInv, Framing, ~spoilt, IsEventStarted
    PROVE  AwaitsRegister(OneMoreRegister)
<1>1. /\ current_diff_mem_count \in 0..(Full - 1) /\ current_diff_reg_count \in 0..(Full - 1)
      /\ current_diff_mem_count # Full /\ current_diff_mem_count \in 0..Full
      /\ Full \in 0..Full /\ Full \in Nat
  BY CountsBefore, WidthAssumption
<1>2. CASE current_diff_reg_count + 1 = Full
  <2>1. PICK c : c = Continued(current_diff_mem_count, Full, 0, 1)
    OBVIOUS
  <2>2. /\ Announced(current_diff_mem_count) = current_diff_mem_count
        /\ Announced(Full) = current_diff_reg_count
    BY <1>1, <1>2 DEF Announced
  <2>3. Framed(c.fields, c.pos + 1) /\ OpenCounted(c.fields, c.pos + 1, 0, 0)
    BY <1>1, <2>1, <2>2, ContinuedFramed
  <2>4. c.mem = 0 /\ c.reg = 0 + 1
    BY <2>1 DEF Continued
  <2>5. AwaitsRegister(c)
    BY <2>3, <2>4 DEF AwaitsRegister
  <2> QED
    BY <1>2, <2>1, <2>5 DEF OneMoreRegister
<1>3. CASE current_diff_reg_count + 1 # Full
  <2>1. PICK c : c = OneMoreRegister
    OBVIOUS
  <2>2. /\ c.fields = events /\ c.pos = diff_element_count_stream_pos
        /\ c.mem = current_diff_mem_count /\ c.reg = current_diff_reg_count + 1
    BY <1>3, <2>1 DEF OneMoreRegister
  <2>3. Framed(c.fields, c.pos + 1)
        /\ OpenCounted(c.fields, c.pos + 1, current_diff_mem_count, current_diff_reg_count)
    BY <2>2, CountsBefore DEF OpenDiff
  <2>4. current_diff_mem_count \in Nat /\ current_diff_reg_count \in Nat
    BY <1>1
  <2>5. AwaitsRegister(c)
    BY <2>2, <2>3, <2>4 DEF AwaitsRegister
  <2> QED
    BY <2>1, <2>5
<1> QED
  BY <1>2, <1>3

\* The next state of the section, where a call leaves it.
LEMMA FramingAfter ==
    ASSUME Framed(events', diff_element_count_stream_pos' + 1),
           IsEventStarted' => OpenCounted(events', diff_element_count_stream_pos' + 1,
                                          current_diff_mem_count', current_diff_reg_count')
    PROVE  Framing'
BY DEF Framing, OpenDiff, Framed, OpenCounted, CountedIn, KindIn, BlockIn, Announced,
       NotInstruction, Diff

LEMMA MemoryFramed ==
    ASSUME NEW counted, AwaitsMemory(counted), HeadsAnnounced(counted.fields),
           NEW fields, OneOf(fields, "address"),
           NEW complete, NEW effect, WriteFields(counted, fields, complete, effect)
    PROVE  Framing'
<1>1. PICK s, p : s = counted.fields /\ p = counted.pos + 1
  OBVIOUS
<1>2. PICK m \in Nat : /\ Framed(s, p) /\ OpenCounted(s, p, m, 0)
                       /\ counted.mem = m + 1 /\ counted.reg = 0
  BY <1>1 DEF AwaitsMemory
<1>3. s \in Seq(Fields)
  BY <1>1 DEF HeadsAnnounced
<1>4. Framed(s \o fields, p) /\ OpenCounted(s \o fields, p, m + 1, 0)
  BY <1>2, <1>3, MemoryAdded
<1>5. /\ events' = s \o fields /\ diff_element_count_stream_pos' + 1 = p
      /\ current_diff_mem_count' = m + 1 /\ current_diff_reg_count' = 0
  BY <1>1, <1>2 DEF WriteFields
<1> QED
  BY <1>4, <1>5, FramingAfter

LEMMA RegisterFramed ==
    ASSUME NEW counted, AwaitsRegister(counted), HeadsAnnounced(counted.fields),
           NEW fields, OneOf(fields, "id"),
           NEW complete, NEW effect, WriteFields(counted, fields, complete, effect)
    PROVE  Framing'
<1>1. PICK s, p : s = counted.fields /\ p = counted.pos + 1
  OBVIOUS
<1>2. PICK m \in Nat, r \in Nat : /\ Framed(s, p) /\ OpenCounted(s, p, m, r)
                                  /\ counted.mem = m /\ counted.reg = r + 1
  BY <1>1 DEF AwaitsRegister
<1>3. s \in Seq(Fields)
  BY <1>1 DEF HeadsAnnounced
<1>4. Framed(s \o fields, p) /\ OpenCounted(s \o fields, p, m, r + 1)
  BY <1>2, <1>3, RegisterAdded
<1>5. /\ events' = s \o fields /\ diff_element_count_stream_pos' + 1 = p
      /\ current_diff_mem_count' = m /\ current_diff_reg_count' = r + 1
  BY <1>1, <1>2 DEF WriteFields
<1> QED
  BY <1>4, <1>5, FramingAfter

LEMMA HeadFramed ==
    ASSUME IInv, Framing, ~spoilt, ~IsEventStarted, NEW head \in Seq(Fields),
           \A i \in 1..Len(head) : head[i][1] = "diff" => head[i] = NotInstruction,
           Len(head) > 0 => head[1][1] = "diff", OpenBlock(head)
    PROVE  Framing'
<1>1. PICK s : s = events
  OBVIOUS
<1>2. s \in Seq(Fields) /\ Len(s) > 0
  BY <1>1 DEF IInv, HeadsAnnounced
<1>3. Framed(s, 0)
  BY <1>1 DEF Framing, IsEventStarted, OpenDiff, NoBlock
<1>4. /\ Framed(s \o head \o <<Diff(0, 0)>>, Len(s) + Len(head) + 1)
      /\ OpenCounted(s \o head \o <<Diff(0, 0)>>, Len(s) + Len(head) + 1, 0, 0)
  BY <1>2, <1>3, BlockFramed
<1>5. /\ events' = s \o head \o <<Diff(0, 0)>>
      /\ diff_element_count_stream_pos' = Len(s) + Len(head)
      /\ current_diff_mem_count' = 0 /\ current_diff_reg_count' = 0
  BY <1>1 DEF OpenBlock
<1> QED
  BY <1>4, <1>5, FramingAfter

LEMMA FramingInit == InitWriter => Framing
<1> SUFFICES ASSUME InitWriter PROVE Framing
  OBVIOUS
<1>1. /\ events = <<Count(0)>> /\ diff_element_count_stream_pos = NoBlock
  BY DEF InitWriter
<1>2. Len(events) = 1 /\ events[1][1] = "count"
  BY <1>1 DEF Count
<1>3. Framed(events, OpenDiff)
  BY <1>2 DEF Framed
<1> QED
  BY <1>1, <1>3 DEF Framing, IsEventStarted

LEMMA FramingStutter ==
    ASSUME Framing, UNCHANGED writerVars
    PROVE  Framing'
<1>1. UNCHANGED <<events, diff_element_count_stream_pos, current_diff_mem_count,
                  current_diff_reg_count, spoilt>>
  BY DEF writerVars, block, history
<1>2. CASE spoilt
  BY <1>1, <1>2 DEF Framing
<1>3. CASE ~spoilt
  BY <1>1, <1>3, FramingAfter DEF Framing, OpenDiff, IsEventStarted
<1> QED
  BY <1>2, <1>3

LEMMA FramingStep ==
    ASSUME IInv, Framing, NextWriter
    PROVE  Framing'
<1>1. CASE spoilt'
  BY <1>1 DEF Framing
<1>2. CASE ~spoilt'
  <2>1. ~spoilt
    <3>1. spoilt => spoilt'
      BY DEF NextWriter, StartEventInstruction, StartEventOther, StartEventOtherTooLong,
             WriteMemory, WriteRegister, WriteRegisterAction, WriteFields, FinishEvent,
             DoFinalize, history
    <3> QED
      BY <1>2, <3>1
  <2>2. CASE StartEventInstruction
    <3>1. PICK head : head = <<>>
      OBVIOUS
    <3>2. /\ head \in Seq(Fields)
          /\ \A i \in 1..Len(head) : head[i][1] = "diff" => head[i] = NotInstruction
          /\ Len(head) > 0 => head[1][1] = "diff"
      BY <3>1
    <3>3. OpenBlock(head) /\ ~IsEventStarted
      BY <2>2, <3>1 DEF StartEventInstruction, CanStart
    <3> QED
      BY <2>1, <3>2, <3>3, HeadFramed
  <2>3. ASSUME NEW length \in Description, StartEventOther(length)
        PROVE  Framing'
    <3>1. PICK head : head = <<NotInstruction, OtherType, Text(length)>>
      OBVIOUS
    <3>2. head \in Seq(Fields)
      <4>1. HeadsAnnounced(head)
        BY <3>1, OtherHead, InputAssumption
      <4> QED
        BY <4>1 DEF HeadsAnnounced
    <3>3. /\ \A i \in 1..Len(head) : head[i][1] = "diff" => head[i] = NotInstruction
          /\ head[1][1] = "diff"
      BY <3>1 DEF NotInstruction, Diff, OtherType, Text
    <3>4. OpenBlock(head) /\ ~IsEventStarted
      BY <2>3, <3>1 DEF StartEventOther, CanStart
    <3> QED
      BY <2>1, <3>2, <3>3, <3>4, HeadFramed
  <2>4. ASSUME NEW length \in Description, StartEventOtherTooLong(length)
        PROVE  Framing'
    BY <1>2, <2>4 DEF StartEventOtherTooLong
  <2>5. ASSUME NEW write \in MemoryWrite, WriteMemory(write[1], write[2])
        PROVE  Framing'
    <3>1. PICK address, size : address = write[1] /\ size = write[2]
      OBVIOUS
    <3>2. address \in Nat /\ size \in Nat
      BY <3>1, InputAssumption
    <3>3. /\ IsEventStarted /\ current_diff_reg_count = 0
          /\ WriteFields(OneMoreMemory, MemoryFields(address, size),
                         AddressFits(address) /\ SizeFits(size), MemoryEffect(address, size))
      BY <2>5, <3>1 DEF WriteMemory, CanAdd
    <3>4. AddressFits(address) /\ SizeFits(size)
      BY <1>2, <3>3 DEF WriteFields
    <3>5. OneOf(MemoryFields(address, size), "address")
      BY <3>2, <3>4, ElementFields
    <3>6. AwaitsMemory(OneMoreMemory) /\ HeadsAnnounced(OneMoreMemory.fields)
      BY <2>1, <3>3, OneMoreMemoryFramed, CountsBefore, OneMoreGood DEF Good
    <3> QED
      BY <3>3, <3>5, <3>6, MemoryFramed
  <2>6. ASSUME NEW id \in Register, WriteRegister(id)
        PROVE  Framing'
    <3>1. id \in Nat
      BY IdAssumption
    <3>2. /\ IsEventStarted
          /\ WriteFields(OneMoreRegister, RegisterFields(id), TRUE, RegisterEffect(id))
      BY <2>6 DEF WriteRegister, CanAdd
    <3>3. OneOf(RegisterFields(id), "id")
      BY <3>1, ElementFields
    <3>4. AwaitsRegister(OneMoreRegister) /\ HeadsAnnounced(OneMoreRegister.fields)
      BY <2>1, <3>2, OneMoreRegisterFramed, CountsBefore, OneMoreGood DEF Good
    <3> QED
      BY <3>2, <3>3, <3>4, RegisterFramed
  <2>7. ASSUME NEW id \in ActionId, WriteRegisterAction(id)
        PROVE  Framing'
    <3>1. id \in Nat
      BY InputAssumption
    <3>2. PICK fields : fields = IF id <= Escape THEN <<Id(id)>> ELSE <<>>
      OBVIOUS
    <3>3. /\ IsEventStarted
          /\ WriteFields(OneMoreRegister, fields, id <= Escape, OperationEffect(id))
      BY <2>7, <3>2 DEF WriteRegisterAction, CanAdd
    <3>4. id <= Escape
      BY <1>2, <3>3 DEF WriteFields
    <3>5. OneOf(fields, "id")
      BY <3>1, <3>2, <3>4, ElementFields
    <3>6. AwaitsRegister(OneMoreRegister) /\ HeadsAnnounced(OneMoreRegister.fields)
      BY <2>1, <3>3, OneMoreRegisterFramed, CountsBefore, OneMoreGood DEF Good
    <3> QED
      BY <3>3, <3>5, <3>6, RegisterFramed
  <2>8. CASE FinishEvent
    <3>1. PICK mem, reg, p : /\ mem = current_diff_mem_count /\ reg = current_diff_reg_count
                             /\ p = OpenDiff
      OBVIOUS
    <3>2. /\ events \in Seq(Fields) /\ mem \in 0..(Full - 1) /\ reg \in 0..(Full - 1)
          /\ Framed(events, p) /\ OpenCounted(events, p, mem, reg)
      BY <2>1, <2>8, <3>1, CountsBefore DEF FinishEvent, HeadsAnnounced
    <3>3. /\ mem \in 0..Full /\ reg \in 0..Full
          /\ Announced(mem) = mem /\ Announced(reg) = reg
      BY <3>2, WidthAssumption DEF Announced
    <3>4. Framed([events EXCEPT ![p] = Diff(mem, reg)], 0)
      BY <3>2, <3>3, DiffPatched
    <3>5. /\ events' = [events EXCEPT ![p] = Diff(mem, reg)]
          /\ diff_element_count_stream_pos' = NoBlock
      BY <2>8, <3>1 DEF FinishEvent, WithDiff, OpenDiff
    <3> QED
      BY <3>4, <3>5, FramingAfter DEF NoBlock, IsEventStarted
  <2>9. CASE DoFinalize
    <3>1. PICK f, p : f = Count(event_count) /\ p = OpenDiff
      OBVIOUS
    <3>2. f \in Fields /\ f[1] = "count"
      BY <3>1 DEF Count, Fields, IInv
    <3>3. /\ events' = [events EXCEPT ![1] = f]
          /\ UNCHANGED <<diff_element_count_stream_pos, current_diff_mem_count,
                         current_diff_reg_count>>
      BY <2>9, <3>1 DEF DoFinalize, block
    <3>4. events \in Seq(Fields) /\ Len(events) > 0 /\ Framed(events, p)
      BY <2>1, <3>1 DEF IInv, HeadsAnnounced, Framing
    <3>5. PICK s, u : s = events /\ u = [s EXCEPT ![1] = f]
      OBVIOUS
    <3>6. /\ u \in Seq(Fields) /\ Len(u) = Len(s)
          /\ \A j \in 1..Len(s) : u[j] = IF j = 1 THEN f ELSE s[j]
      BY <3>2, <3>4, <3>5
    <3>7. s[1][1] = "count" /\ \A j \in 1..Len(s) : u[j][1] = s[j][1]
      BY <3>2, <3>4, <3>5, <3>6 DEF Framed
    <3>8. ASSUME NEW i \in Nat, NEW m, NEW r
          PROVE  CountedIn(u, i, m, r) = CountedIn(s, i, m, r)
      <4>1. s \in Seq(Fields) /\ u \in Seq(Fields)
        BY <3>4, <3>5, <3>6
      <4> QED
        BY <3>6, <3>7, <4>1, KindsKept
    <3>9. Framed(u, p)
      <4>1. u[1][1] = "count"
        BY <3>2, <3>4, <3>5, <3>6
      <4>2. ASSUME NEW i \in 1..Len(u), u[i][1] = "diff", u[i] # NotInstruction, i # p
            PROVE  CountedIn(u, i, Announced(u[i][2]), Announced(u[i][3]))
        <5>1. i # 1 /\ u[i] = s[i] /\ i \in 1..Len(s) /\ i \in Nat
          BY <3>6, <4>1, <4>2
        <5>2. CountedIn(s, i, Announced(s[i][2]), Announced(s[i][3]))
          BY <3>4, <3>5, <4>2, <5>1 DEF Framed
        <5> QED
          BY <3>8, <5>1, <5>2
      <4> QED
        BY <4>1, <4>2 DEF Framed
    <3>10. ASSUME IsEventStarted
           PROVE  OpenCounted(u, p, current_diff_mem_count, current_diff_reg_count)
      <4>1. OpenCounted(s, p, current_diff_mem_count, current_diff_reg_count)
        BY <2>1, <3>1, <3>5, <3>10 DEF Framing
      <4>2. /\ p \in 1..Len(s) /\ s[p] = Diff(0, 0)
            /\ \A i \in (p + 1)..Len(s) : s[i][1] # "diff"
            /\ CountedIn(s, p, current_diff_mem_count, current_diff_reg_count)
        BY <4>1 DEF OpenCounted
      <4>3. p # 1
        BY <3>7, <4>2 DEF Diff
      <4>4. p \in Nat /\ u[p] = s[p]
        BY <3>6, <4>2, <4>3
      <4>5. \A i \in (p + 1)..Len(u) : u[i][1] # "diff"
        BY <3>6, <3>7, <4>2
      <4>6. CountedIn(u, p, current_diff_mem_count, current_diff_reg_count)
        BY <3>8, <4>2, <4>4
      <4> QED
        BY <3>6, <4>2, <4>4, <4>5, <4>6 DEF OpenCounted
    <3>11. events' = u /\ diff_element_count_stream_pos' + 1 = p
      BY <3>1, <3>3, <3>5 DEF OpenDiff
    <3>12. IsEventStarted' = IsEventStarted
      BY <3>3 DEF IsEventStarted
    <3> QED
      BY <3>3, <3>9, <3>10, <3>11, <3>12, FramingAfter
  <2> QED
    BY <2>2, <2>3, <2>4, <2>5, <2>6, <2>7, <2>8, <2>9 DEF NextWriter
<1> QED
  BY <1>1, <1>2

\* Framing is FramingTruthful, and that nothing follows the open block.
LEMMA FramingSays == IInv /\ Framing => FramingTruthful
<1> SUFFICES ASSUME IInv, Framing, ~spoilt
             PROVE  ClosedDiffsCount /\ OpenDiffCounts
  BY DEF FramingTruthful
<1>1. \A i : BlockOf(i) = BlockIn(events, i)
  BY DEF BlockOf, BlockIn, IsDiff
<1>2. \A i, kind : InBlock(i, kind) = KindIn(events, i, kind)
  BY <1>1 DEF InBlock, KindIn
<1>3. \A i, mem, reg : BlockCounted(i, mem, reg) = CountedIn(events, i, mem, reg)
  BY <1>2 DEF BlockCounted, CountedIn
<1>4. ClosedDiffsCount
  BY <1>3 DEF ClosedDiffsCount, Framing, Framed, Blocks, IsDiff
<1>5. OpenDiffCounts
  BY <1>3 DEF OpenDiffCounts, Framing, OpenCounted
<1> QED
  BY <1>4, <1>5

\* trace-format.md:103-114: every diff announces the memory and the register
\* writes that follow it, memory first, in a block of any event, continued or
\* not, and the object counts those of the open block: for every width, machine
\* and sequence of calls of which none threw half-way.
THEOREM DiffsTruthful == Spec => []FramingTruthful
<1>1. Init => IInv /\ Framing
  BY InitHolds, FramingInit DEF Init
<1>2. (IInv /\ Framing) /\ [Next]_vars => (IInv /\ Framing)'
  <2> SUFFICES ASSUME IInv, Framing, [Next]_vars PROVE IInv' /\ Framing'
    OBVIOUS
  <2>1. NextWriter \/ UNCHANGED writerVars
    BY DEF Next, vars, OpenTrace, InsideStep, ReadHead, ReadMemory, ReadRegister,
           ReadContinuation, ReadDone, Throw, Seek
  <2> QED
    BY <2>1, StepHolds, StutterKeeps, FramingStep, FramingStutter
<1>3. IInv /\ Framing => FramingTruthful
  BY FramingSays
<1> QED
  BY <1>1, <1>2, <1>3, PTL DEF Spec

=============================================================================
