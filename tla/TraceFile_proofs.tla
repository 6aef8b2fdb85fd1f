-------------------------- MODULE TraceFile_proofs --------------------------
(***************************************************************************)
(* Proofs about TraceFile, for every machine and every number of registers  *)
(* and events: a trace whose recording died does not open, a trace that     *)
(* opens has one initial value of each register, and a trace that was       *)
(* finished with them opens.                                                *)
(*                                                                          *)
(* What the reader finds depends on where it looks, and where it looks on   *)
(* the sizes it found before: the inductive invariant says what is at every *)
(* position of the file in each stage.                                      *)
(***************************************************************************)
EXTENDS TraceFile, Functions, FunctionTheorems, FiniteSetTheorems, SequenceTheorems, TLAPS

\* The fields of a section, and those of a file.
PartField == {"memory", "count", "register", "event"} \X Nat
FileField == {"size", "memory", "count", "register", "event"} \X Nat

\* A memory section of m fields at the beginning of f.
MemoryLaid(f, m) ==
    /\ m + 1 <= Len(f)
    /\ f[1] = SizeField(m)
    /\ \A i \in 2..(m + 1) : f[i] = MemoryField

\* A section of n fields at the position `at' of f: a count of those that follow.
CountedLaid(f, at, n, fields) ==
    /\ at + n <= Len(f)
    /\ f[at] = SizeField(n)
    /\ f[at + 1] = CountField(n - 1)
    /\ \A i \in (at + 2)..(at + n) : f[i] \in fields

\* The fields of such a section while it is written.
CountThen(p, fields) ==
    /\ 1 <= Len(p)
    /\ p[1] = CountField(0)
    /\ \A i \in 2..Len(p) : p[i] \in fields

RegisterFields == {RegisterField(id) : id \in machine.registers}

\* The file in the stages in which it is not empty.
MemoryWritten == MemoryLaid(file, machine.memory)

RegistersWritten(n) == CountedLaid(file, machine.memory + 2, n, RegisterFields)

EventsWritten(n, k) == CountedLaid(file, machine.memory + 3 + n, k, {EventField})

\* The inductive invariant.
IInv ==
    /\ TypeOK
    /\ stage = "start" => file = <<>> /\ payload = <<>>
    /\ stage = "memory" =>
          file = <<>> /\ \A i \in 1..Len(payload) : payload[i] = MemoryField
    /\ stage = "registers" =>
          /\ MemoryWritten
          /\ Len(file) = machine.memory + 1
          /\ CountThen(payload, RegisterFields)
    /\ stage = "events" =>
          /\ MemoryWritten
          /\ \E n \in 1..Len(file) :
                RegistersWritten(n) /\ Len(file) = machine.memory + 2 + n
          /\ CountThen(payload, {EventField})
    /\ stage = "done" =>
          /\ payload = <<>>
          /\ MemoryWritten
          /\ \E n, k \in 1..Len(file) :
                /\ RegistersWritten(n)
                /\ EventsWritten(n, k)
                /\ Len(file) = machine.memory + 3 + n + k

-----------------------------------------------------------------------------
(* What is appended to the file.                                            *)

\* Fields of a section are fields of a file.
LEMMA PartsAreFields ==
  ASSUME NEW p \in Seq(PartField)
  PROVE  p \in Seq(FileField)
<1>1. PartField \subseteq FileField
  BY DEF PartField, FileField
<1> QED
  BY <1>1, SeqMonotonic

\* finalize() leaves the size, and behind it the fields.
LEMMA FramedProperties ==
  ASSUME NEW p \in Seq(PartField)
  PROVE  /\ Framed(p) \in Seq(FileField) /\ Len(Framed(p)) = 1 + Len(p)
         /\ Framed(p)[1] = SizeField(Len(p))
         /\ \A i \in 1..Len(p) : Framed(p)[1 + i] = p[i]
<1>1. p \in Seq(FileField) /\ Len(p) \in Nat
  BY PartsAreFields, LenProperties
<1>2. PICK s : s = <<SizeField(Len(p))>>
  OBVIOUS
<1>3. s \in Seq(FileField) /\ Len(s) = 1 /\ s[1] = SizeField(Len(p))
  BY <1>1, <1>2 DEF SizeField, FileField
<1>4. /\ s \o p \in Seq(FileField) /\ Len(s \o p) = Len(s) + Len(p)
      /\ \A i \in 1..(Len(s) + Len(p)) :
            (s \o p)[i] = IF i <= Len(s) THEN s[i] ELSE p[i - Len(s)]
  BY <1>1, <1>3, ConcatProperties
<1>5. \A i \in 1..Len(p) : (s \o p)[1 + i] = p[i]
  <2> TAKE i \in 1..Len(p)
  <2>1. 1 + i \in 1..(Len(s) + Len(p)) /\ ~(1 + i <= Len(s)) /\ (1 + i) - Len(s) = i
    BY <1>1, <1>3
  <2> QED
    BY <1>4, <2>1
<1>6. (s \o p)[1] = s[1]
  BY <1>1, <1>3, <1>4
<1>7. Framed(p) = s \o p
  BY <1>2 DEF Framed
<1> QED
  BY <1>3, <1>4, <1>5, <1>6, <1>7

\* g is f, and behind it a section of the fields p.
Follows(g, f, p) ==
    /\ g \in Seq(FileField) /\ Len(g) = Len(f) + 1 + Len(p)
    /\ \A i \in 1..Len(f) : g[i] = f[i]
    /\ g[Len(f) + 1] = SizeField(Len(p))
    /\ \A i \in 1..Len(p) : g[Len(f) + 1 + i] = p[i]

\* A finalized section follows what was there.
LEMMA FramedFollows ==
  ASSUME NEW f \in Seq(FileField), NEW p \in Seq(PartField)
  PROVE  Follows(f \o Framed(p), f, p)
<1>1. PICK q : q = Framed(p)
  OBVIOUS
<1>2. /\ q \in Seq(FileField) /\ Len(q) = 1 + Len(p)
      /\ q[1] = SizeField(Len(p))
      /\ \A i \in 1..Len(p) : q[1 + i] = p[i]
  BY <1>1, FramedProperties
<1>3. f \in Seq(FileField) /\ q \in Seq(FileField)
  BY <1>2
<1>4. /\ f \o q \in Seq(FileField) /\ Len(f \o q) = Len(f) + Len(q)
      /\ \A i \in 1..(Len(f) + Len(q)) :
            (f \o q)[i] = IF i <= Len(f) THEN f[i] ELSE q[i - Len(f)]
  BY <1>3, ConcatProperties
<1>5. Len(f) \in Nat /\ Len(p) \in Nat
  BY LenProperties
<1>6. Len(f \o q) = Len(f) + 1 + Len(p)
  BY <1>2, <1>4, <1>5
<1>7. \A i \in 1..Len(f) : (f \o q)[i] = f[i]
  BY <1>2, <1>4, <1>5
<1>8. (f \o q)[Len(f) + 1] = SizeField(Len(p))
  <2>1. /\ Len(f) + 1 \in 1..(Len(f) + Len(q)) /\ ~(Len(f) + 1 <= Len(f))
        /\ (Len(f) + 1) - Len(f) = 1
    BY <1>2, <1>5
  <2> QED
    BY <1>2, <1>4, <2>1
<1>9. \A i \in 1..Len(p) : (f \o q)[Len(f) + 1 + i] = p[i]
  <2> TAKE i \in 1..Len(p)
  <2>1. /\ Len(f) + 1 + i \in 1..(Len(f) + Len(q)) /\ ~(Len(f) + 1 + i <= Len(f))
        /\ (Len(f) + 1 + i) - Len(f) = 1 + i
    BY <1>2, <1>5
  <2> QED
    BY <1>2, <1>4, <2>1
<1> QED
  BY <1>1, <1>4, <1>6, <1>7, <1>8, <1>9 DEF Follows

\* do_finalize changes the count, and only it.
LEMMA CountedProperties ==
  ASSUME NEW fields, NEW p \in Seq(PartField), CountThen(p, fields)
  PROVE  /\ Counted(p) \in Seq(PartField) /\ Len(Counted(p)) = Len(p)
         /\ Counted(p)[1] = CountField(Len(p) - 1)
         /\ \A i \in 2..Len(p) : Counted(p)[i] \in fields
<1>1. /\ Len(p) \in Nat /\ 1 <= Len(p)
      /\ \A i \in 2..Len(p) : p[i] \in fields
  BY LenProperties DEF CountThen
<1>2. PICK one \in 1..Len(p) : one = 1
  BY <1>1
<1>3. PICK c \in PartField : c = CountField(Len(p) - 1)
  <2>1. Len(p) - 1 \in Nat
    BY <1>1
  <2> QED
    BY <2>1 DEF CountField, PartField
<1>4. /\ [p EXCEPT ![one] = c] \in Seq(PartField)
      /\ Len([p EXCEPT ![one] = c]) = Len(p)
      /\ \A j \in 1..Len(p) : [p EXCEPT ![one] = c][j] = IF j = one THEN c ELSE p[j]
  BY ExceptSeq
<1>5. Counted(p) = [p EXCEPT ![one] = c]
  BY <1>2, <1>3 DEF Counted
<1>6. \A i \in 2..Len(p) : i \in 1..Len(p) /\ i # one
  BY <1>1, <1>2
<1>7. PICK r : r = Counted(p)
  OBVIOUS
<1>8. /\ r \in Seq(PartField) /\ Len(r) = Len(p)
      /\ \A j \in 1..Len(p) : r[j] = IF j = one THEN c ELSE p[j]
  BY <1>4, <1>5, <1>7
<1> QED
  BY <1>1, <1>2, <1>3, <1>6, <1>7, <1>8

\* A counted section behind a file is laid out there.
LEMMA CountedFollows ==
  ASSUME NEW fields, NEW f \in Seq(FileField),
         NEW p \in Seq(PartField), CountThen(p, fields)
  PROVE  /\ Follows(f \o Framed(Counted(p)), f, Counted(p))
         /\ Len(f \o Framed(Counted(p))) = Len(f) + 1 + Len(p)
         /\ CountedLaid(f \o Framed(Counted(p)), Len(f) + 1, Len(p), fields)
<1>1. PICK r : r = Counted(p)
  OBVIOUS
<1>2. /\ r \in Seq(PartField) /\ Len(r) = Len(p)
      /\ r[1] = CountField(Len(p) - 1)
      /\ \A i \in 2..Len(p) : r[i] \in fields
  BY <1>1, CountedProperties
<1>3. PICK g : g = f \o Framed(r)
  OBVIOUS
<1>4. Follows(g, f, r)
  BY <1>2, <1>3, FramedFollows
<1>5. /\ Len(g) = Len(f) + 1 + Len(p)
      /\ g[Len(f) + 1] = SizeField(Len(p))
      /\ \A i \in 1..Len(p) : g[Len(f) + 1 + i] = r[i]
  BY <1>2, <1>4 DEF Follows
<1>6. Len(f) \in Nat /\ Len(p) \in Nat /\ 1 <= Len(p)
  BY LenProperties DEF CountThen
<1>7. g[Len(f) + 1 + 1] = CountField(Len(p) - 1)
  <2>1. 1 \in 1..Len(p)
    BY <1>6
  <2> QED
    BY <1>2, <1>5, <2>1
<1>8. ASSUME NEW i \in (Len(f) + 1 + 2)..(Len(f) + 1 + Len(p)) PROVE g[i] \in fields
  <2>1. PICK j : j = i - (Len(f) + 1)
    OBVIOUS
  <2>2. j \in 1..Len(p) /\ j \in 2..Len(p) /\ Len(f) + 1 + j = i
    BY <1>6, <2>1
  <2>3. g[Len(f) + 1 + j] = r[j]
    BY <1>5, <2>2
  <2> QED
    BY <1>2, <2>2, <2>3
<1>9. CountedLaid(g, Len(f) + 1, Len(p), fields)
  BY <1>5, <1>6, <1>7, <1>8 DEF CountedLaid
<1> QED
  BY <1>1, <1>3, <1>4, <1>5, <1>9

\* g begins with f.
Begins(f, g) ==
    /\ g \in Seq(FileField) /\ Len(f) <= Len(g)
    /\ \A i \in 1..Len(f) : g[i] = f[i]

\* What a section follows is still at the beginning of the file.
LEMMA FollowsBegins ==
  ASSUME NEW f \in Seq(FileField), NEW p, NEW g, Follows(g, f, p), Len(p) \in Nat
  PROVE  Begins(f, g)
<1>1. Len(f) \in Nat
  BY LenProperties
<1> QED
  BY <1>1 DEF Follows, Begins

\* What was laid out stays so when something follows.
LEMMA MemoryStays ==
  ASSUME NEW f \in Seq(FileField), NEW g, Begins(f, g),
         NEW m \in Nat, MemoryLaid(f, m)
  PROVE  MemoryLaid(g, m)
<1>1. /\ Len(f) <= Len(g) /\ Len(f) \in Nat /\ Len(g) \in Nat
      /\ \A i \in 1..Len(f) : g[i] = f[i]
  BY LenProperties DEF Begins
<1>2. /\ m + 1 <= Len(f)
      /\ f[1] = SizeField(m)
      /\ \A i \in 2..(m + 1) : f[i] = MemoryField
  BY DEF MemoryLaid
<1>3. m + 1 <= Len(g) /\ 1 \in 1..Len(f) /\ \A i \in 2..(m + 1) : i \in 1..Len(f)
  BY <1>1, <1>2
<1> QED
  BY <1>1, <1>2, <1>3 DEF MemoryLaid

\* The same of a counted section.
LEMMA CountedStays ==
  ASSUME NEW f \in Seq(FileField), NEW g, Begins(f, g),
         NEW at \in Nat \ {0}, NEW n \in Nat \ {0}, NEW fields, CountedLaid(f, at, n, fields)
  PROVE  CountedLaid(g, at, n, fields)
<1>1. /\ Len(f) <= Len(g) /\ Len(f) \in Nat /\ Len(g) \in Nat
      /\ \A i \in 1..Len(f) : g[i] = f[i]
  BY LenProperties DEF Begins
<1>2. /\ at + n <= Len(f)
      /\ f[at] = SizeField(n)
      /\ f[at + 1] = CountField(n - 1)
      /\ \A i \in (at + 2)..(at + n) : f[i] \in fields
  BY DEF CountedLaid
<1>3. /\ at + n <= Len(g) /\ at \in 1..Len(f) /\ at + 1 \in 1..Len(f)
      /\ \A i \in (at + 2)..(at + n) : i \in 1..Len(f)
  BY <1>1, <1>2
<1> QED
  BY <1>1, <1>2, <1>3 DEF CountedLaid

\* One more field of a section.
LEMMA AppendedCount ==
  ASSUME NEW fields, NEW p \in Seq(PartField), CountThen(p, fields),
         NEW e \in PartField, e \in fields
  PROVE  Append(p, e) \in Seq(PartField) /\ CountThen(Append(p, e), fields)
<1>1. PICK q : q = Append(p, e)
  OBVIOUS
<1>2. /\ q \in Seq(PartField) /\ Len(p) \in Nat /\ Len(q) = Len(p) + 1
      /\ \A i \in 1..(Len(p) + 1) : q[i] = IF i = Len(p) + 1 THEN e ELSE p[i]
  BY <1>1, AppendProperties, LenProperties
<1>3. /\ 1 <= Len(p) /\ p[1] = CountField(0)
      /\ \A i \in 2..Len(p) : p[i] \in fields
  BY DEF CountThen
<1>4. q[1] = CountField(0)
  BY <1>2, <1>3
<1>5. ASSUME NEW i \in 2..Len(q) PROVE q[i] \in fields
  <2>1. i \in 1..(Len(p) + 1) /\ (i # Len(p) + 1 => i \in 2..Len(p))
    BY <1>2
  <2> QED
    BY <1>2, <1>3, <2>1
<1> QED
  BY <1>1, <1>2, <1>3, <1>4, <1>5 DEF CountThen

-----------------------------------------------------------------------------
(* The inductive invariant.                                                 *)

\* What the types say of the variables.
LEMMA TypeFacts ==
  ASSUME TypeOK
  PROVE  /\ machine \in Machine /\ machine.memory \in Nat
         /\ machine.registers \subseteq Nat /\ IsFiniteSet(machine.registers)
         /\ file \in Seq(FileField) /\ Len(file) \in Nat
         /\ payload \in Seq(PartField) /\ Len(payload) \in Nat
         /\ RegisterFields \subseteq PartField
<1>1. file \in Seq(FileField) /\ payload \in Seq(PartField) /\ machine \in Machine
  BY DEF TypeOK, FileField, PartField
<1>2. RegisterFields \subseteq PartField
  BY <1>1, MachineAssumption DEF RegisterFields, RegisterField, PartField
<1> QED
  BY <1>1, <1>2, MachineAssumption, LenProperties

\* The types after a step, from those of the file and of the section.
LEMMA TypesKept ==
  ASSUME TypeOK, machine' = machine,
         stage' \in {"start", "memory", "registers", "events", "done"},
         file' \in Seq(FileField), payload' \in Seq(PartField)
  PROVE  TypeOK'
BY DEF TypeOK, FileField, PartField

\* The initial state satisfies the invariant: nothing is written.
LEMMA InitInv == Init => IInv
<1> SUFFICES ASSUME Init PROVE IInv
  OBVIOUS
<1>1. file \in Seq(FileField) /\ payload \in Seq(PartField)
  BY EmptySeq DEF Init
<1>2. TypeOK
  BY <1>1 DEF Init, TypeOK, FileField, PartField
<1> QED
  BY <1>2 DEF Init, IInv

\* The memory section begins with nothing behind it.
LEMMA StartMemoryInv == IInv /\ StartInitialMemorySection => IInv'
<1> SUFFICES ASSUME IInv, StartInitialMemorySection PROVE IInv'
  OBVIOUS
<1>1. /\ stage = "start" /\ stage' = "memory" /\ machine' = machine
      /\ file' = <<>> /\ payload' = <<>> /\ TypeOK
      /\ file' = file /\ payload' = payload
  BY DEF IInv, StartInitialMemorySection
<1>2. TypeOK'
  BY <1>1, TypeFacts, TypesKept
<1>3. \A i \in 1..Len(payload') : payload'[i] = MemoryField
  <2>1. Len(payload') = 0
    BY <1>1, EmptySeq
  <2> QED
    BY <2>1
<1> QED
  BY <1>1, <1>2, <1>3 DEF IInv

\* Memory is written behind memory.
LEMMA WriteMemoryInv == IInv /\ WriteInitialMemory => IInv'
<1> SUFFICES ASSUME IInv, WriteInitialMemory PROVE IInv'
  OBVIOUS
<1>1. /\ stage = "memory" /\ stage' = "memory" /\ machine' = machine
      /\ file' = <<>> /\ file' = file /\ payload' = Append(payload, MemoryField) /\ TypeOK
      /\ \A i \in 1..Len(payload) : payload[i] = MemoryField
  BY DEF IInv, WriteInitialMemory
<1>2. /\ payload \in Seq(PartField) /\ Len(payload) \in Nat /\ file \in Seq(FileField)
      /\ MemoryField \in PartField
  BY <1>1, TypeFacts DEF MemoryField, PartField
<1>3. PICK e \in PartField : e = MemoryField
  BY <1>2
<1>4. /\ Append(payload, e) \in Seq(PartField)
      /\ Len(Append(payload, e)) = Len(payload) + 1
      /\ \A i \in 1..Len(payload) : Append(payload, e)[i] = payload[i]
      /\ Append(payload, e)[Len(payload) + 1] = e
  BY <1>2, AppendProperties
<1>5. payload' = Append(payload, e)
  BY <1>1, <1>3
<1>6. \A i \in 1..Len(payload') : payload'[i] = MemoryField
  <2> TAKE i \in 1..Len(payload')
  <2>1. i \in 1..Len(payload) \/ i = Len(payload) + 1
    BY <1>2, <1>4, <1>5
  <2> QED
    BY <1>1, <1>3, <1>4, <1>5, <2>1
<1>7. TypeOK'
  BY <1>1, <1>2, <1>4, <1>5, TypesKept
<1> QED
  BY <1>1, <1>6, <1>7 DEF IInv

\* A section that is begun with its count.
LEMMA CountAlone ==
  ASSUME NEW fields
  PROVE  <<CountField(0)>> \in Seq(PartField) /\ CountThen(<<CountField(0)>>, fields)
<1>1. PICK s : s = <<CountField(0)>>
  OBVIOUS
<1>2. s \in Seq(PartField) /\ Len(s) = 1 /\ s[1] = CountField(0)
  BY <1>1 DEF CountField, PartField
<1> QED
  BY <1>1, <1>2 DEF CountThen

\* The memory section is finalized when it is as long as the memory.
LEMMA StartRegistersInv == IInv /\ StartInitialRegistersSection => IInv'
<1> SUFFICES ASSUME IInv, StartInitialRegistersSection PROVE IInv'
  OBVIOUS
<1>1. /\ stage = "memory" /\ stage' = "registers" /\ machine' = machine
      /\ Len(payload) = machine.memory /\ file = <<>> /\ TypeOK
      /\ file' = file \o Framed(payload) /\ payload' = <<CountField(0)>>
      /\ \A i \in 1..Len(payload) : payload[i] = MemoryField
  BY DEF IInv, StartInitialRegistersSection
<1>2. /\ payload \in Seq(PartField) /\ file \in Seq(FileField)
      /\ machine.memory \in Nat
  BY <1>1, TypeFacts
<1>3. Follows(file', file, payload)
  BY <1>1, <1>2, FramedFollows
<1>4. Len(file) = 0
  BY <1>1, EmptySeq
<1>5. /\ file' \in Seq(FileField) /\ Len(file') = machine.memory + 1
      /\ file'[1] = SizeField(machine.memory)
      /\ \A i \in 1..machine.memory : file'[1 + i] = payload[i]
  BY <1>1, <1>2, <1>3, <1>4 DEF Follows
<1>6. ASSUME NEW i \in 2..(machine.memory + 1) PROVE file'[i] = MemoryField
  <2>1. PICK j \in 1..machine.memory : 1 + j = i
    BY <1>2
  <2> QED
    BY <1>1, <1>5, <2>1
<1>7. MemoryWritten'
  BY <1>1, <1>2, <1>5, <1>6 DEF MemoryWritten, MemoryLaid
<1>8. payload' \in Seq(PartField) /\ CountThen(payload', RegisterFields')
  BY <1>1, CountAlone
<1>9. TypeOK'
  BY <1>1, <1>5, <1>8, TypesKept
<1> QED
  BY <1>1, <1>5, <1>7, <1>8, <1>9 DEF IInv

\* Registers are written behind the count.
LEMMA WriteRegisterInv ==
  ASSUME IInv, NEW id \in machine.registers, WriteInitialRegister(id)
  PROVE  IInv'
<1>1. /\ stage = "registers" /\ stage' = "registers" /\ machine' = machine
      /\ file' = file /\ payload' = Append(payload, RegisterField(id)) /\ TypeOK
      /\ MemoryWritten /\ Len(file) = machine.memory + 1
      /\ CountThen(payload, RegisterFields)
  BY DEF IInv, WriteInitialRegister
<1>2. /\ payload \in Seq(PartField) /\ file \in Seq(FileField)
      /\ RegisterFields \subseteq PartField /\ RegisterField(id) \in RegisterFields
  BY <1>1, TypeFacts DEF RegisterFields
<1>3. PICK e \in PartField : e = RegisterField(id)
  BY <1>2
<1>4. e \in RegisterFields /\ payload' = Append(payload, e)
  BY <1>1, <1>2, <1>3
<1>5. payload' \in Seq(PartField) /\ CountThen(payload', RegisterFields)
  BY <1>1, <1>2, <1>4, AppendedCount
<1>6. RegisterFields' = RegisterFields /\ MemoryWritten'
  BY <1>1 DEF RegisterFields, MemoryWritten
<1>7. TypeOK'
  BY <1>1, <1>2, <1>5, TypesKept
<1> QED
  BY <1>1, <1>5, <1>6, <1>7 DEF IInv

\* The registers section is finalized with its count.
LEMMA StartEventsInv == IInv /\ StartEventsSection => IInv'
<1> SUFFICES ASSUME IInv, StartEventsSection PROVE IInv'
  OBVIOUS
<1>1. /\ stage = "registers" /\ stage' = "events" /\ machine' = machine
      /\ file' = file \o Framed(Counted(payload)) /\ payload' = <<CountField(0)>>
      /\ TypeOK /\ MemoryWritten /\ Len(file) = machine.memory + 1
      /\ CountThen(payload, RegisterFields)
  BY DEF IInv, StartEventsSection
<1>2. /\ payload \in Seq(PartField) /\ file \in Seq(FileField) /\ Len(payload) \in Nat
      /\ machine.memory \in Nat
  BY <1>1, TypeFacts
<1>3. 1 <= Len(payload)
  BY <1>1 DEF CountThen
<1>4. /\ Follows(file', file, Counted(payload))
      /\ Len(file') = Len(file) + 1 + Len(payload)
      /\ CountedLaid(file', Len(file) + 1, Len(payload), RegisterFields)
  BY <1>1, <1>2, CountedFollows
<1>5. Len(Counted(payload)) \in Nat
  BY <1>1, <1>2, CountedProperties
<1>6. MemoryWritten'
  BY <1>1, <1>2, <1>4, <1>5, FollowsBegins, MemoryStays DEF MemoryWritten
<1>7. RegisterFields' = RegisterFields
  BY <1>1 DEF RegisterFields
<1>8. PICK n : n = Len(payload)
  OBVIOUS
<1>9. Len(file) + 1 = machine.memory + 2 /\ n \in 1..Len(file')
      /\ Len(file') = machine.memory + 2 + n
  BY <1>1, <1>2, <1>3, <1>4, <1>8
<1>10. RegistersWritten(n)'
  BY <1>1, <1>4, <1>7, <1>8, <1>9 DEF RegistersWritten
<1>11. payload' \in Seq(PartField) /\ CountThen(payload', {EventField})
  BY <1>1, CountAlone
<1>12. TypeOK'
  BY <1>1, <1>4, <1>11, TypesKept DEF Follows
<1>13. \E k \in 1..Len(file') : RegistersWritten(k)' /\ Len(file') = machine'.memory + 2 + k
  BY <1>1, <1>9, <1>10
<1> QED
  BY <1>1, <1>6, <1>11, <1>12, <1>13 DEF IInv

\* Events are written behind the count.
LEMMA WriteEventInv == IInv /\ WriteEvent => IInv'
<1> SUFFICES ASSUME IInv, WriteEvent PROVE IInv'
  OBVIOUS
<1>1. /\ stage = "events" /\ stage' = "events" /\ machine' = machine
      /\ file' = file /\ payload' = Append(payload, EventField) /\ TypeOK
      /\ MemoryWritten /\ CountThen(payload, {EventField})
      /\ \E n \in 1..Len(file) : RegistersWritten(n) /\ Len(file) = machine.memory + 2 + n
  BY DEF IInv, WriteEvent
<1>2. /\ payload \in Seq(PartField) /\ file \in Seq(FileField)
  BY <1>1, TypeFacts
<1>3. PICK e \in PartField : e = EventField
  BY DEF EventField, PartField
<1>4. e \in {EventField} /\ payload' = Append(payload, e)
  BY <1>1, <1>3
<1>5. payload' \in Seq(PartField) /\ CountThen(payload', {EventField})
  BY <1>1, <1>2, <1>4, AppendedCount
<1>6. /\ MemoryWritten'
      /\ \E n \in 1..Len(file') : RegistersWritten(n)' /\ Len(file') = machine'.memory + 2 + n
  BY <1>1 DEF RegisterFields, MemoryWritten, RegistersWritten
<1>7. TypeOK'
  BY <1>1, <1>2, <1>5, TypesKept
<1> QED
  BY <1>1, <1>5, <1>6, <1>7 DEF IInv

\* The events section is finalized with its count.
LEMMA FinishEventsInv == IInv /\ FinishEventsSection => IInv'
<1> SUFFICES ASSUME IInv, FinishEventsSection PROVE IInv'
  OBVIOUS
<1>1. /\ stage = "events" /\ stage' = "done" /\ machine' = machine
      /\ file' = file \o Framed(Counted(payload)) /\ payload' = <<>>
      /\ TypeOK /\ MemoryWritten /\ CountThen(payload, {EventField})
  BY DEF IInv, FinishEventsSection
<1>2. PICK n \in 1..Len(file) : RegistersWritten(n) /\ Len(file) = machine.memory + 2 + n
  BY <1>1 DEF IInv
<1>3. /\ payload \in Seq(PartField) /\ file \in Seq(FileField) /\ Len(payload) \in Nat
      /\ machine.memory \in Nat /\ Len(file) \in Nat
  BY <1>1, TypeFacts
<1>4. 1 <= Len(payload)
  BY <1>1 DEF CountThen
<1>5. /\ Follows(file', file, Counted(payload))
      /\ Len(file') = Len(file) + 1 + Len(payload)
      /\ CountedLaid(file', Len(file) + 1, Len(payload), {EventField})
  BY <1>1, <1>3, CountedFollows
<1>6. Len(Counted(payload)) \in Nat
  BY <1>1, <1>3, CountedProperties
<1>7. MemoryWritten'
  BY <1>1, <1>3, <1>5, <1>6, FollowsBegins, MemoryStays DEF MemoryWritten
<1>8. RegistersWritten(n)'
  <2>1. RegisterFields' = RegisterFields
    BY <1>1 DEF RegisterFields
  <2>2. PICK at \in Nat \ {0} : at = machine.memory + 2
    BY <1>3
  <2>3. CountedLaid(file, at, n, RegisterFields) /\ n \in Nat \ {0}
    BY <1>2, <2>2 DEF RegistersWritten
  <2>4. CountedLaid(file', at, n, RegisterFields)
    BY <1>3, <1>5, <1>6, <2>3, FollowsBegins, CountedStays
  <2> QED
    BY <1>1, <2>1, <2>2, <2>4 DEF RegistersWritten
<1>9. PICK k : k = Len(payload)
  OBVIOUS
<1>10. /\ Len(file) + 1 = machine.memory + 3 + n
       /\ n \in 1..Len(file') /\ k \in 1..Len(file')
       /\ Len(file') = machine.memory + 3 + n + k
  <2>1. n \in Nat /\ k \in Nat /\ 1 <= n /\ 1 <= k
    BY <1>3, <1>4, <1>9
  <2>2. Len(file) + 1 = machine.memory + 3 + n
    BY <1>2, <1>3, <2>1
  <2>3. Len(file') = machine.memory + 3 + n + k
    BY <1>3, <1>5, <1>9, <2>1, <2>2
  <2> QED
    BY <1>3, <2>1, <2>2, <2>3
<1>11. EventsWritten(n, k)'
  BY <1>1, <1>5, <1>9, <1>10 DEF EventsWritten
<1>12. payload' \in Seq(PartField)
  BY <1>1, EmptySeq
<1>13. TypeOK'
  BY <1>1, <1>5, <1>12, TypesKept DEF Follows
<1>14. \E a, b \in 1..Len(file') : /\ RegistersWritten(a)' /\ EventsWritten(a, b)'
                                   /\ Len(file') = machine'.memory + 3 + a + b
  BY <1>1, <1>8, <1>10, <1>11
<1> QED
  BY <1>1, <1>7, <1>13, <1>14 DEF IInv

\* IInv is an invariant of the specification: in every stage it is known what
\* is at every position of the file.
THEOREM Invariance == Spec => []IInv
<1>1. IInv /\ [Next]_vars => IInv'
  <2> SUFFICES ASSUME IInv, [Next]_vars PROVE IInv'
    OBVIOUS
  <2>1. CASE StartInitialMemorySection
    BY <2>1, StartMemoryInv
  <2>2. CASE WriteInitialMemory
    BY <2>2, WriteMemoryInv
  <2>3. CASE StartInitialRegistersSection
    BY <2>3, StartRegistersInv
  <2>4. CASE \E id \in machine.registers : WriteInitialRegister(id)
    BY <2>4, WriteRegisterInv
  <2>5. CASE StartEventsSection
    BY <2>5, StartEventsInv
  <2>6. CASE WriteEvent
    BY <2>6, WriteEventInv
  <2>7. CASE FinishEventsSection
    BY <2>7, FinishEventsInv
  <2>8. CASE UNCHANGED vars
    <3>1. machine' = machine /\ file' = file /\ stage' = stage /\ payload' = payload
      BY <2>8 DEF vars
    <3>2. TypeOK' /\ MemoryWritten' = MemoryWritten /\ RegisterFields' = RegisterFields
      BY <3>1 DEF IInv, TypeOK, MemoryWritten, RegisterFields
    <3>3. /\ \A n : RegistersWritten(n)' = RegistersWritten(n)
          /\ \A n, k : EventsWritten(n, k)' = EventsWritten(n, k)
      BY <3>1, <3>2 DEF RegistersWritten, EventsWritten
    <3> QED
      BY <3>1, <3>2, <3>3 DEF IInv
  <2> QED
    BY <2>1, <2>2, <2>3, <2>4, <2>5, <2>6, <2>7, <2>8 DEF Next
<1> QED
  BY InitInv, <1>1, PTL DEF Spec

-----------------------------------------------------------------------------
(* What a crash leaves, and what the reader makes of it.                    *)

\* The file, and behind it a section without size.
Torn(image) ==
    /\ Begins(file, image)
    /\ Len(file) + 1 <= Len(image)
    /\ image[Len(file) + 1] = SizeField(0)
    /\ \A i \in (Len(file) + 2)..Len(image) : image[i] \in PartField

\* A crash leaves the file alone or torn.
LEMMA ImageCases ==
  ASSUME TypeOK, NEW image \in CrashImages
  PROVE  image = file \/ Torn(image)
<1>1. file \in Seq(FileField) /\ payload \in Seq(PartField) /\ Len(file) \in Nat
  BY TypeFacts
<1>2. SUFFICES ASSUME NEW k \in 0..Len(payload),
                      image = file \o <<SizeField(0)>> \o SubSeq(payload, 1, k)
               PROVE  Torn(image)
  BY DEF CrashImages
<1>3. Len(payload) \in Nat /\ k \in Nat
  BY <1>1, LenProperties
<1>4. PICK q : q = SubSeq(payload, 1, k)
  OBVIOUS
<1>5. q \in Seq(PartField)
  <2>1. \A i \in 1..k : payload[i] \in PartField
    BY <1>1, <1>3, ElementOfSeq
  <2>2. 1 \in Int /\ k \in Int
    BY <1>3
  <2> QED
    BY <1>4, <2>1, <2>2, SubSeqProperties
<1>6. PICK s : s = <<SizeField(0)>>
  OBVIOUS
<1>7. s \in Seq(FileField) /\ Len(s) = 1 /\ s[1] = SizeField(0)
  BY <1>6 DEF SizeField, FileField
<1>8. q \in Seq(FileField) /\ Len(q) \in Nat
  BY <1>5, PartsAreFields, LenProperties
<1>9. PICK fs : fs = file \o s
  OBVIOUS
<1>10. /\ fs \in Seq(FileField) /\ Len(fs) = Len(file) + 1
       /\ \A i \in 1..(Len(file) + 1) :
             fs[i] = IF i <= Len(file) THEN file[i] ELSE s[i - Len(file)]
  <2>1. /\ file \o s \in Seq(FileField) /\ Len(file \o s) = Len(file) + Len(s)
        /\ \A i \in 1..(Len(file) + Len(s)) :
              (file \o s)[i] = IF i <= Len(file) THEN file[i] ELSE s[i - Len(file)]
    BY <1>1, <1>7, ConcatProperties
  <2> QED
    BY <1>7, <1>9, <2>1
<1>11. PICK im : im = fs \o q
  OBVIOUS
<1>12. /\ im \in Seq(FileField) /\ Len(im) = Len(fs) + Len(q)
       /\ \A i \in 1..(Len(fs) + Len(q)) :
             im[i] = IF i <= Len(fs) THEN fs[i] ELSE q[i - Len(fs)]
  <2>1. fs \in Seq(FileField) /\ q \in Seq(FileField)
    BY <1>8, <1>10
  <2>2. /\ fs \o q \in Seq(FileField) /\ Len(fs \o q) = Len(fs) + Len(q)
        /\ \A i \in 1..(Len(fs) + Len(q)) :
              (fs \o q)[i] = IF i <= Len(fs) THEN fs[i] ELSE q[i - Len(fs)]
    BY <2>1, ConcatProperties
  <2> QED
    BY <1>11, <2>2
<1>13. Len(im) = Len(file) + 1 + Len(q)
  BY <1>1, <1>8, <1>10, <1>12
<1>14. \A i \in 1..Len(file) : im[i] = file[i]
  <2> TAKE i \in 1..Len(file)
  <2>1. i \in 1..(Len(fs) + Len(q)) /\ i <= Len(fs) /\ i \in 1..(Len(file) + 1)
    BY <1>1, <1>8, <1>10
  <2> QED
    BY <1>10, <1>12, <2>1
<1>15. im[Len(file) + 1] = SizeField(0)
  <2>1. /\ Len(file) + 1 \in 1..(Len(fs) + Len(q)) /\ Len(file) + 1 <= Len(fs)
        /\ Len(file) + 1 \in 1..(Len(file) + 1)
        /\ ~(Len(file) + 1 <= Len(file)) /\ (Len(file) + 1) - Len(file) = 1
    BY <1>1, <1>8, <1>10
  <2> QED
    BY <1>7, <1>10, <1>12, <2>1
<1>16. ASSUME NEW i \in (Len(file) + 2)..Len(im) PROVE im[i] \in PartField
  <2>1. PICK j : j = i - Len(fs)
    OBVIOUS
  <2>2. i \in 1..(Len(fs) + Len(q)) /\ ~(i <= Len(fs)) /\ j \in 1..Len(q)
    BY <1>1, <1>8, <1>10, <1>13, <2>1
  <2>3. q[j] \in PartField
    BY <1>5, <2>2, ElementOfSeq
  <2> QED
    BY <1>12, <2>1, <2>2, <2>3
<1>17. Torn(im)
  BY <1>1, <1>8, <1>12, <1>13, <1>14, <1>15, <1>16 DEF Torn, Begins
<1> QED
  BY <1>2, <1>4, <1>6, <1>9, <1>11, <1>17

\* The file is at the beginning of what a crash leaves.
LEMMA ImageBegins ==
  ASSUME TypeOK, NEW image \in CrashImages
  PROVE  Begins(file, image)
<1>1. CASE image = file
  BY <1>1, TypeFacts DEF Begins
<1>2. CASE Torn(image)
  BY <1>2 DEF Torn
<1> QED
  BY <1>1, <1>2, ImageCases

\* Where the reader looks for the registers, and for the events.
LEMMA ReaderGoes ==
  ASSUME NEW image, NEW m \in Nat, MemoryLaid(image, m)
  PROVE  /\ Behind(image, 1) = m + 2
         /\ \A n \in Nat : \A fields :
               CountedLaid(image, m + 2, n, fields) =>
                   Behind(image, Behind(image, 1)) = m + 3 + n
<1>1. SizeAt(image, 1) = m
  BY DEF MemoryLaid, SizeAt, SizeField
<1>2. Behind(image, 1) = m + 2
  BY <1>1 DEF Behind
<1>3. ASSUME NEW n \in Nat, NEW fields, CountedLaid(image, m + 2, n, fields)
      PROVE  Behind(image, Behind(image, 1)) = m + 3 + n
  <2>1. SizeAt(image, m + 2) = n
    BY <1>3 DEF CountedLaid, SizeAt, SizeField
  <2> QED
    BY <1>2, <2>1 DEF Behind
<1> QED
  BY <1>2, <1>3

\* A field of a section is not a size.
LEMMA PartsNoSize ==
  ASSUME NEW e \in PartField
  PROVE  e[1] # "size"
BY DEF PartField

\* A trace that is not finished is refused.
LEMMA HalfRefused ==
  ASSUME IInv, stage # "done", NEW image \in CrashImages
  PROVE  ~Opens(image)
<1> SUFFICES ASSUME Opens(image) PROVE FALSE
  OBVIOUS
<1>1. /\ TypeOK /\ file \in Seq(FileField) /\ Len(file) \in Nat
      /\ machine.memory \in Nat
      /\ stage \in {"start", "memory", "registers", "events"}
  BY TypeFacts DEF IInv, TypeOK
<1>2. Begins(file, image) /\ (image = file \/ Torn(image))
  BY <1>1, ImageBegins, ImageCases
<1>3. /\ 1 <= Len(image) /\ SizeAt(image, 1) = machine.memory
      /\ HasSize(image, Behind(image, 1)) /\ SizeAt(image, Behind(image, 1)) > 0
      /\ HasSize(image, Behind(image, Behind(image, 1)))
      /\ SizeAt(image, Behind(image, Behind(image, 1))) > 0
  BY DEF Opens, MemoryAccepted, RegistersAccepted, EventsAccepted, HasSize
<1>4. Torn(image) => SizeAt(image, Len(file) + 1) = 0
  BY DEF Torn, SizeAt, SizeField
<1>5. CASE stage \in {"start", "memory"}
  <2>1. Len(file) = 0
    BY <1>5, EmptySeq DEF IInv
  <2>2. Torn(image) /\ SizeAt(image, 1) = 0
    BY <1>2, <1>3, <1>4, <2>1
  <2>3. Behind(image, 1) = 2
    BY <2>2 DEF Behind
  <2>4. 2 <= Len(image) /\ image[2][1] = "size"
    BY <1>3, <2>3 DEF HasSize
  <2>5. 2 \in (Len(file) + 2)..Len(image)
    <3>1. Len(image) \in Nat
      BY <1>2, LenProperties DEF Begins
    <3> QED
      BY <2>1, <2>4, <3>1
  <2>6. image[2] \in PartField
    BY <2>2, <2>5 DEF Torn
  <2> QED
    BY <2>4, <2>6, PartsNoSize
<1>6. CASE stage = "registers"
  <2>1. MemoryLaid(file, machine.memory) /\ Len(file) = machine.memory + 1
    BY <1>6 DEF IInv, MemoryWritten
  <2>2. Behind(image, 1) = machine.memory + 2
    BY <1>1, <1>2, <2>1, MemoryStays, ReaderGoes
  <2>3. Behind(image, 1) = Len(file) + 1
    BY <1>1, <2>1, <2>2
  <2>4. CASE image = file
    BY <1>1, <1>3, <2>3, <2>4 DEF HasSize
  <2>5. CASE Torn(image)
    BY <1>3, <1>4, <2>3, <2>5
  <2> QED
    BY <1>2, <2>4, <2>5
<1>7. CASE stage = "events"
  <2>1. MemoryLaid(file, machine.memory)
    BY <1>7 DEF IInv, MemoryWritten
  <2>2. PICK n \in 1..Len(file) : RegistersWritten(n) /\ Len(file) = machine.memory + 2 + n
    BY <1>7 DEF IInv
  <2>3. PICK at \in Nat \ {0} : at = machine.memory + 2
    BY <1>1
  <2>4. CountedLaid(file, at, n, RegisterFields) /\ n \in Nat \ {0} /\ n \in Nat
    BY <2>2, <2>3 DEF RegistersWritten
  <2>5. CountedLaid(image, at, n, RegisterFields)
    BY <1>1, <1>2, <2>4, CountedStays
  <2>6. MemoryLaid(image, machine.memory)
    BY <1>1, <1>2, <2>1, MemoryStays
  <2>7. Behind(image, Behind(image, 1)) = machine.memory + 3 + n
    BY <1>1, <2>3, <2>4, <2>5, <2>6, ReaderGoes
  <2>8. Behind(image, Behind(image, 1)) = Len(file) + 1
    BY <1>1, <2>2, <2>4, <2>7
  <2>9. CASE image = file
    BY <1>1, <1>3, <2>8, <2>9 DEF HasSize
  <2>10. CASE Torn(image)
    BY <1>3, <1>4, <2>8, <2>10
  <2> QED
    BY <1>2, <2>9, <2>10
<1> QED
  BY <1>1, <1>5, <1>6, <1>7

\* A half-written trace is refused, however much of it reached the disk.
THEOREM HalfTraceRefused == Spec => []NoHalfTraceOpens
<1>1. IInv => NoHalfTraceOpens
  BY HalfRefused DEF NoHalfTraceOpens
<1> QED
  BY Invariance, <1>1, PTL

\* Every variable keeps its type.
THEOREM TypeCorrect == Spec => []TypeOK
<1>1. IInv => TypeOK
  BY DEF IInv
<1> QED
  BY Invariance, <1>1, PTL

-----------------------------------------------------------------------------
(* The finished trace.                                                      *)

\* A finished trace with m units of memory, n - 1 registers and k - 1 events.
Finished(m, n, k) ==
    /\ m \in Nat /\ n \in Nat \ {0} /\ k \in Nat \ {0}
    /\ m = machine.memory
    /\ MemoryLaid(file, m)
    /\ CountedLaid(file, m + 2, n, RegisterFields)
    /\ CountedLaid(file, m + 3 + n, k, {EventField})
    /\ Len(file) = m + 3 + n + k

\* The invariant of a finished trace.
LEMMA DoneFinished ==
  ASSUME IInv, stage = "done"
  PROVE  \E m, n, k : Finished(m, n, k)
<1>1. PICK n, k \in 1..Len(file) :
         /\ RegistersWritten(n) /\ EventsWritten(n, k)
         /\ Len(file) = machine.memory + 3 + n + k
  BY DEF IInv
<1>2. MemoryLaid(file, machine.memory) /\ machine.memory \in Nat
  BY TypeFacts DEF IInv, MemoryWritten
<1>3. n \in Nat \ {0} /\ k \in Nat \ {0}
  BY <1>1
<1>4. Finished(machine.memory, n, k)
  BY <1>1, <1>2, <1>3 DEF Finished, RegistersWritten, EventsWritten
<1> QED
  BY <1>4

\* What is at each position of a finished trace.
LEMMA Positions ==
  ASSUME TypeOK, NEW m \in Nat, NEW n, NEW k, Finished(m, n, k)
  PROVE  /\ \A i \in 1..Len(file) :
               \/ i = 1 /\ file[i][1] = "size"
               \/ i \in 2..(m + 1) /\ file[i][1] = "memory"
               \/ i = m + 2 /\ file[i][1] = "size"
               \/ i = m + 3 /\ file[i][1] = "count"
               \/ i \in (m + 4)..(m + 2 + n) /\ file[i] \in RegisterFields
               \/ i = m + 3 + n /\ file[i][1] = "size"
               \/ i = m + 4 + n /\ file[i][1] = "count"
               \/ i \in (m + 5 + n)..(m + 3 + n + k) /\ file[i] = EventField
         /\ \A i \in (m + 4)..(m + 2 + n) : i \in 1..Len(file) /\ file[i] \in RegisterFields
         /\ \A i \in (m + 5 + n)..(m + 3 + n + k) : i \in 1..Len(file) /\ file[i] = EventField
<1>1. /\ n \in Nat \ {0} /\ k \in Nat \ {0}
      /\ MemoryLaid(file, m)
      /\ CountedLaid(file, m + 2, n, RegisterFields)
      /\ CountedLaid(file, m + 3 + n, k, {EventField})
      /\ Len(file) = m + 3 + n + k
  BY DEF Finished
<1>2. /\ file[1] = SizeField(m)
      /\ \A i \in 2..(m + 1) : file[i] = MemoryField
  BY <1>1 DEF MemoryLaid
<1>3. /\ file[m + 2] = SizeField(n)
      /\ file[m + 2 + 1] = CountField(n - 1)
      /\ \A i \in (m + 2 + 2)..(m + 2 + n) : file[i] \in RegisterFields
  BY <1>1 DEF CountedLaid
<1>4. /\ file[m + 3 + n] = SizeField(k)
      /\ file[m + 3 + n + 1] = CountField(k - 1)
      /\ \A i \in (m + 3 + n + 2)..(m + 3 + n + k) : file[i] = EventField
  BY <1>1 DEF CountedLaid
<1>5. /\ m + 2 + 1 = m + 3 /\ m + 2 + 2 = m + 4
      /\ m + 3 + n + 1 = m + 4 + n /\ m + 3 + n + 2 = m + 5 + n
  BY <1>1
<1>6. /\ file[1][1] = "size" /\ file[m + 2][1] = "size" /\ file[m + 3 + n][1] = "size"
      /\ file[m + 3][1] = "count" /\ file[m + 4 + n][1] = "count"
      /\ \A i \in 2..(m + 1) : file[i][1] = "memory"
  BY <1>2, <1>3, <1>4, <1>5 DEF SizeField, CountField, MemoryField
<1>7. /\ \A i \in (m + 4)..(m + 2 + n) : file[i] \in RegisterFields
      /\ \A i \in (m + 5 + n)..(m + 3 + n + k) : file[i] = EventField
  BY <1>3, <1>4, <1>5
<1>8. ASSUME NEW i \in 1..Len(file)
      PROVE  \/ i = 1 \/ i \in 2..(m + 1) \/ i = m + 2 \/ i = m + 3
             \/ i \in (m + 4)..(m + 2 + n) \/ i = m + 3 + n \/ i = m + 4 + n
             \/ i \in (m + 5 + n)..(m + 3 + n + k)
  BY <1>1
<1>9. /\ \A i \in (m + 4)..(m + 2 + n) : i \in 1..Len(file)
      /\ \A i \in (m + 5 + n)..(m + 3 + n + k) : i \in 1..Len(file)
  BY <1>1
<1>10. ASSUME NEW i \in 1..Len(file)
       PROVE  \/ i = 1 /\ file[i][1] = "size"
              \/ i \in 2..(m + 1) /\ file[i][1] = "memory"
              \/ i = m + 2 /\ file[i][1] = "size"
              \/ i = m + 3 /\ file[i][1] = "count"
              \/ i \in (m + 4)..(m + 2 + n) /\ file[i] \in RegisterFields
              \/ i = m + 3 + n /\ file[i][1] = "size"
              \/ i = m + 4 + n /\ file[i][1] = "count"
              \/ i \in (m + 5 + n)..(m + 3 + n + k) /\ file[i] = EventField
  BY <1>6, <1>7, <1>8, Zenon
<1> QED
  BY <1>7, <1>9, <1>10

\* The initial values are the fields behind the count of registers.
LEMMA RegisterPositions ==
  ASSUME TypeOK, NEW m \in Nat, NEW n, NEW k, Finished(m, n, k)
  PROVE  /\ InitialRegisters = (m + 4)..(m + 2 + n)
         /\ IsFiniteSet(InitialRegisters) /\ Cardinality(InitialRegisters) = n - 1
         /\ \A i \in InitialRegisters : file[i][2] \in machine.registers
<1>1. n \in Nat \ {0} /\ k \in Nat \ {0}
  BY DEF Finished
<1>2. \A i \in 1..Len(file) : file[i] \in RegisterFields =>
          file[i][1] = "register" /\ file[i][2] \in machine.registers
  BY DEF RegisterFields, RegisterField
<1>3. \A i \in 1..Len(file) : file[i] = EventField => file[i][1] = "event"
  BY DEF EventField
<1>4. ASSUME NEW i \in 1..Len(file), file[i][1] = "register"
      PROVE  i \in (m + 4)..(m + 2 + n)
  BY <1>3, <1>4, Positions
<1>5. ASSUME NEW i \in (m + 4)..(m + 2 + n)
      PROVE  /\ i \in 1..Len(file) /\ file[i][1] = "register"
             /\ file[i][2] \in machine.registers
  <2>1. i \in 1..Len(file) /\ file[i] \in RegisterFields
    BY Positions
  <2> QED
    BY <1>2, <2>1
<1>6. InitialRegisters = (m + 4)..(m + 2 + n)
  BY <1>4, <1>5 DEF InitialRegisters
<1>7. PICK a \in Int, b \in Int : a = m + 4 /\ b = m + 2 + n
  BY <1>1
<1>8. IsFiniteSet(a..b) /\ Cardinality(a..b) = IF a > b THEN 0 ELSE b - a + 1
  BY FS_Interval
<1>9. (IF a > b THEN 0 ELSE b - a + 1) = n - 1
  BY <1>1, <1>7
<1> QED
  BY <1>5, <1>6, <1>7, <1>8, <1>9

\* The events are the fields behind their count.
LEMMA EventPositions ==
  ASSUME TypeOK, NEW m \in Nat, NEW n, NEW k, Finished(m, n, k)
  PROVE  Cardinality({i \in 1..Len(file) : file[i] = EventField}) = k - 1
<1>1. n \in Nat \ {0} /\ k \in Nat \ {0}
  BY DEF Finished
<1>2. EventField[1] = "event"
  BY DEF EventField
<1>3. \A e \in RegisterFields : e[1] = "register"
  BY DEF RegisterFields, RegisterField
<1>4. ASSUME NEW i \in 1..Len(file), file[i] = EventField
      PROVE  i \in (m + 5 + n)..(m + 3 + n + k)
  BY <1>2, <1>3, <1>4, Positions
<1>5. \A i \in (m + 5 + n)..(m + 3 + n + k) : i \in 1..Len(file) /\ file[i] = EventField
  BY Positions
<1>6. {i \in 1..Len(file) : file[i] = EventField} = (m + 5 + n)..(m + 3 + n + k)
  BY <1>4, <1>5
<1>7. PICK a \in Int, b \in Int : a = m + 5 + n /\ b = m + 3 + n + k
  BY <1>1
<1>8. Cardinality(a..b) = IF a > b THEN 0 ELSE b - a + 1
  BY FS_Interval
<1>9. (IF a > b THEN 0 ELSE b - a + 1) = k - 1
  BY <1>1, <1>7
<1> QED
  BY <1>6, <1>7, <1>8, <1>9

\* What the reader decides on the registers of a finished trace, whatever
\* follows it.
LEMMA RegistersDecision ==
  ASSUME TypeOK, NEW m \in Nat, NEW n, NEW k, Finished(m, n, k),
         NEW image, Begins(file, image)
  PROVE  RegistersAccepted(image, Behind(image, 1)) <=>
            /\ n - 1 = Cardinality(machine.registers)
            /\ \A i, j \in InitialRegisters : i # j => file[i][2] # file[j][2]
<1>1. /\ n \in Nat \ {0} /\ k \in Nat \ {0} /\ file \in Seq(FileField)
      /\ MemoryLaid(file, m) /\ CountedLaid(file, m + 2, n, RegisterFields)
      /\ Len(file) = m + 3 + n + k
  BY TypeFacts DEF Finished
<1>2. MemoryLaid(image, m)
  BY <1>1, MemoryStays
<1>3. PICK at \in Nat \ {0} : at = m + 2
  OBVIOUS
<1>4. CountedLaid(file, at, n, RegisterFields)
  BY <1>1, <1>3
<1>5. CountedLaid(image, at, n, RegisterFields)
  BY <1>1, <1>4, CountedStays
<1>6. Behind(image, 1) = at
  BY <1>2, <1>3, ReaderGoes
<1>7. /\ at + n <= Len(image) /\ image[at] = SizeField(n) /\ image[at + 1] = CountField(n - 1)
      /\ \A i \in (at + 2)..(at + n) : image[i] \in RegisterFields
  BY <1>5 DEF CountedLaid
<1>8. Len(image) \in Nat /\ \A i \in 1..Len(file) : image[i] = file[i]
  BY LenProperties DEF Begins
<1>9. /\ HasSize(image, at) /\ SizeAt(image, at) = n /\ n > 0
      /\ image[at + 1][2] = n - 1
      /\ n - 1 < n /\ at + 1 + (n - 1) <= Len(image)
  <2>1. at <= Len(image)
    BY <1>1, <1>3, <1>7, <1>8
  <2>2. image[at][1] = "size" /\ image[at][2] = n /\ image[at + 1][2] = n - 1
    BY <1>7 DEF SizeField, CountField
  <2>3. at + 1 + (n - 1) = at + n
    BY <1>1, <1>3
  <2> QED
    BY <1>1, <1>7, <2>1, <2>2, <2>3 DEF HasSize, SizeAt
<1> DEFINE ids == [i \in 1..(n - 1) |-> image[at + 1 + i][2]]
<1>10. RegistersAccepted(image, at) <=>
          /\ \A i, j \in 1..(n - 1) : i # j => ids[i] # ids[j]
          /\ {ids[i] : i \in 1..(n - 1)} \subseteq machine.registers
          /\ n - 1 = Cardinality(machine.registers)
  BY <1>9 DEF RegistersAccepted
<1>11. /\ InitialRegisters = (m + 4)..(m + 2 + n)
       /\ \A i \in InitialRegisters : file[i][2] \in machine.registers
  BY RegisterPositions
<1>12. \A i \in 1..(n - 1) : /\ at + 1 + i \in InitialRegisters
                             /\ ids[i] = file[at + 1 + i][2]
  <2> TAKE i \in 1..(n - 1)
  <2>1. at + 1 + i \in (m + 4)..(m + 2 + n) /\ at + 1 + i \in 1..Len(file)
    BY <1>1, <1>3
  <2>2. image[at + 1 + i] = file[at + 1 + i]
    BY <1>8, <2>1
  <2> QED
    BY <1>11, <2>1, <2>2
<1> HIDE DEF ids
<1>13. {ids[i] : i \in 1..(n - 1)} \subseteq machine.registers
  BY <1>11, <1>12
<1>14. (\A i, j \in 1..(n - 1) : i # j => ids[i] # ids[j]) <=>
       (\A i, j \in InitialRegisters : i # j => file[i][2] # file[j][2])
  <2>1. ASSUME \A i, j \in InitialRegisters : i # j => file[i][2] # file[j][2],
               NEW i \in 1..(n - 1), NEW j \in 1..(n - 1), i # j
        PROVE  ids[i] # ids[j]
    <3>1. at + 1 + i # at + 1 + j
      BY <1>1, <2>1
    <3> QED
      BY <1>12, <2>1, <3>1
  <2>2. ASSUME \A i, j \in 1..(n - 1) : i # j => ids[i] # ids[j],
               NEW i \in InitialRegisters, NEW j \in InitialRegisters, i # j
        PROVE  file[i][2] # file[j][2]
    <3>1. PICK p \in 1..(n - 1) : at + 1 + p = i
      <4>1. i - (at + 1) \in 1..(n - 1) /\ at + 1 + (i - (at + 1)) = i
        BY <1>1, <1>3, <1>11
      <4> QED
        BY <4>1
    <3>2. PICK q \in 1..(n - 1) : at + 1 + q = j
      <4>1. j - (at + 1) \in 1..(n - 1) /\ at + 1 + (j - (at + 1)) = j
        BY <1>1, <1>3, <1>11
      <4> QED
        BY <4>1
    <3>3. p # q
      BY <2>2, <3>1, <3>2
    <3>4. ids[p] # ids[q]
      BY <2>2, <3>3
    <3>5. ids[p] = file[i][2] /\ ids[q] = file[j][2]
      BY <1>12, <3>1, <3>2
    <3> QED
      BY <3>4, <3>5
  <2> QED
    BY <2>1, <2>2
<1> QED
  BY <1>6, <1>10, <1>13, <1>14

\* As many initial values as registers, no register twice: each has one.
LEMMA OneEach ==
  ASSUME NEW P, NEW R, IsFiniteSet(P), IsFiniteSet(R), NEW f \in [P -> R],
         Cardinality(P) = Cardinality(R)
  PROVE  (\A i, j \in P : i # j => f[i] # f[j]) <=> R = {f[i] : i \in P}
<1>1. ASSUME \A i, j \in P : i # j => f[i] # f[j] PROVE R = {f[i] : i \in P}
  <2>1. f \in Injection(P, R)
    BY <1>1 DEF Injection, IsInjective
  <2>2. f \in Surjection(P, R)
    BY <2>1, FS_Injection
  <2> QED
    BY <2>2 DEF Surjection
<1>2. ASSUME R = {f[i] : i \in P} PROVE \A i, j \in P : i # j => f[i] # f[j]
  <2>1. f \in Surjection(P, R)
    BY <1>2 DEF Surjection
  <2>2. f \in Injection(P, R)
    BY <2>1, FS_SurjSameCardinalityImpliesInj
  <2> QED
    BY <2>2 DEF Injection, IsInjective
<1> QED
  BY <1>1, <1>2

\* The initial values as a function, and what the reader decides by it.
LEMMA ValuesDecision ==
  ASSUME TypeOK, NEW m, NEW n, NEW k, Finished(m, n, k),
         Cardinality(InitialRegisters) = Cardinality(machine.registers)
  PROVE  (\A i, j \in InitialRegisters : i # j => file[i][2] # file[j][2])
            <=> machine.registers = {file[i][2] : i \in InitialRegisters}
<1>1. m \in Nat
  BY DEF Finished
<1>2. /\ IsFiniteSet(InitialRegisters) /\ IsFiniteSet(machine.registers)
      /\ \A i \in InitialRegisters : file[i][2] \in machine.registers
  BY <1>1, RegisterPositions, TypeFacts
<1>3. PICK f : f = [i \in InitialRegisters |-> file[i][2]]
  OBVIOUS
<1>4. /\ f \in [InitialRegisters -> machine.registers]
      /\ \A i \in InitialRegisters : f[i] = file[i][2]
  BY <1>2, <1>3
<1>5. (\A i, j \in InitialRegisters : i # j => f[i] # f[j])
         <=> machine.registers = {f[i] : i \in InitialRegisters}
  BY <1>2, <1>4, OneEach
<1>6. {f[i] : i \in InitialRegisters} = {file[i][2] : i \in InitialRegisters}
  BY <1>4
<1> QED
  BY <1>4, <1>5, <1>6

\* A trace opens only with one initial value of each register.
THEOREM OpenedInitialized == Spec => []OpenedTraceInitialized
<1>1. IInv => OpenedTraceInitialized
  <2> SUFFICES ASSUME IInv, NEW image \in CrashImages, Opens(image)
               PROVE  /\ machine.registers = {file[i][2] : i \in InitialRegisters}
                      /\ Cardinality(InitialRegisters) = Cardinality(machine.registers)
    BY DEF OpenedTraceInitialized
  <2>1. stage = "done" /\ TypeOK
    BY HalfRefused DEF IInv
  <2>2. PICK m, n, k : Finished(m, n, k)
    BY <2>1, DoneFinished
  <2>3. m \in Nat
    BY <2>2 DEF Finished
  <2>4. /\ n - 1 = Cardinality(machine.registers)
        /\ \A i, j \in InitialRegisters : i # j => file[i][2] # file[j][2]
    <3>1. Begins(file, image)
      BY <2>1, ImageBegins
    <3>2. RegistersAccepted(image, Behind(image, 1))
      BY DEF Opens
    <3> QED
      BY <2>1, <2>2, <2>3, <3>1, <3>2, RegistersDecision
  <2>5. Cardinality(InitialRegisters) = Cardinality(machine.registers)
    BY <2>1, <2>2, <2>3, <2>4, RegisterPositions
  <2>6. machine.registers = {file[i][2] : i \in InitialRegisters}
    BY <2>1, <2>2, <2>4, <2>5, ValuesDecision
  <2> QED
    BY <2>5, <2>6
<1> QED
  BY Invariance, <1>1, PTL

\* A trace finished with one initial value of each register opens, and the
\* reader takes its event count from it.
THEOREM FinishedOpens == Spec => []FinishedTraceOpens
<1>1. IInv => FinishedTraceOpens
  <2> SUFFICES ASSUME IInv, stage = "done",
                      machine.registers = {file[i][2] : i \in InitialRegisters},
                      Cardinality(InitialRegisters) = Cardinality(machine.registers)
               PROVE  /\ Opens(file)
                      /\ EventCount(file)
                            = Cardinality({i \in 1..Len(file) : file[i] = EventField})
    BY DEF FinishedTraceOpens
  <2>1. TypeOK /\ file \in Seq(FileField)
    BY TypeFacts DEF IInv
  <2>2. PICK m, n, k : Finished(m, n, k)
    BY DoneFinished
  <2>3. m \in Nat /\ m = machine.memory
    BY <2>2 DEF Finished
  <2>4. /\ m \in Nat /\ n \in Nat \ {0} /\ k \in Nat \ {0} /\ MemoryLaid(file, m)
        /\ CountedLaid(file, m + 2, n, RegisterFields)
        /\ CountedLaid(file, m + 3 + n, k, {EventField})
        /\ Len(file) = m + 3 + n + k
    BY <2>2, <2>3 DEF Finished
  <2>5. MemoryAccepted(file, 1)
    <3>1. 1 <= Len(file) /\ file[1] = SizeField(m)
      BY <2>3, <2>4 DEF MemoryLaid
    <3> QED
      BY <2>3, <3>1 DEF MemoryAccepted, HasSize, SizeAt, SizeField
  <2>6. RegistersAccepted(file, Behind(file, 1))
    <3>1. Begins(file, file)
      BY <2>1, TypeFacts DEF Begins
    <3>2. n - 1 = Cardinality(machine.registers)
      BY <2>1, <2>2, <2>3, RegisterPositions
    <3>3. \A i, j \in InitialRegisters : i # j => file[i][2] # file[j][2]
      BY <2>1, <2>2, ValuesDecision
    <3> QED
      BY <2>1, <2>2, <2>3, <3>1, <3>2, <3>3, RegistersDecision
  <2>7. Behind(file, Behind(file, 1)) = m + 3 + n
    BY <2>4, ReaderGoes
  <2>8. /\ m + 3 + n + 1 <= Len(file)
        /\ file[m + 3 + n] = SizeField(k) /\ file[m + 3 + n + 1] = CountField(k - 1)
    BY <2>4 DEF CountedLaid
  <2>9. EventsAccepted(file, Behind(file, Behind(file, 1)))
    <3>1. m + 3 + n <= Len(file) /\ k > 0
      BY <2>4
    <3> QED
      BY <2>7, <2>8, <3>1 DEF EventsAccepted, HasSize, SizeAt, SizeField
  <2>10. EventCount(file) = k - 1
    BY <2>7, <2>8 DEF EventCount, CountField
  <2> QED
    BY <2>1, <2>2, <2>3, <2>5, <2>6, <2>9, <2>10, EventPositions DEF Opens
<1> QED
  BY Invariance, <1>1, PTL

=============================================================================
