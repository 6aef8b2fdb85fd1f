------------------------------ MODULE CacheFile ------------------------------
(***************************************************************************)
(* A cache file from both ends: CacheWriter and CachePointsSectionWriter    *)
(* (src/src/cache_writer.cpp, cache_section_writers.cpp) write it next to a *)
(* trace, CacheReader (src/src/cache_reader.cpp) reads the registers of the *)
(* points its index lists; which point a context is served from is          *)
(* RandomAccess's part.  The cache points section holds, for each point, a  *)
(* register count that is patched when the point is finished, the           *)
(* registers, and memory pages; the index section, written last, says for   *)
(* each context where its point and its pages are.                          *)
(*                                                                          *)
(* Positions count fields.  The content of a register or of a page at a     *)
(* context is represented by the id of the context.  Addresses and counts   *)
(* wrap as the integer types of the code do.  Calls that throw change       *)
(* nothing here and are stuttering steps.                                   *)
(***************************************************************************)
EXTENDS Integers, Sequences, FiniteSets

CONSTANTS Register,      \* ids of the machine's registers
          OtherId,       \* an id that is not a register's
          Region,        \* memory regions of the machine: [start, size]
          PageSize,
          Address,       \* addresses given to write_memory_page
          AddressMod,    \* 2^64 in the code
          CountMod,      \* 2^16 in the code
          ContextId,     \* contexts a cache point may be taken at
          TracePos,      \* positions in the trace given with them
          MaxFields      \* bound: length of the section when a call is made

\* Register ids are unsigned numbers.
ASSUME MachineAssumption ==
    /\ Register \subseteq Nat /\ OtherId \notin Register
    /\ IsFiniteSet(Register) /\ Cardinality(Register) < CountMod
    /\ Region \subseteq [start : Nat, size : Nat]
ASSUME WidthAssumption ==
    /\ PageSize \in Nat \ {0} /\ AddressMod \in Nat /\ CountMod \in Nat
    /\ Address \subseteq 0..(AddressMod - 1)
ASSUME InputAssumption ==
    ContextId \subseteq Nat /\ TracePos \subseteq Nat /\ MaxFields \in Nat

VARIABLES points,                 \* fields of the cache points section
          index,                  \* CachePointsSectionWriter::index_
          current,                \* context of the open cache point, or NoPoint
          current_reg_count,
          finalized,              \* the cache points section is closed
          written_index           \* the index section, <<>> before it is written

vars == <<points, index, current, current_reg_count, finalized, written_index>>

NoPoint == -1
IsCachePointStarted == current # NoPoint

RegisterCount(n) == <<"count", n, 0>>
RegisterContent(id, context_id) == <<"register", id, context_id>>
PageContent(address, context_id) == <<"page", address, context_id>>

Init ==
    /\ points = <<>>
    /\ index = <<>>
    /\ current = NoPoint
    /\ current_reg_count = 0
    /\ finalized = FALSE
    /\ written_index = <<>>

CanWrite == ~finalized /\ Len(points) <= MaxFields

Extended(f, key, value) ==
    [x \in DOMAIN f \union {key} |-> IF x = key THEN value ELSE f[x]]

\* std::logic_error while a point is open, NonsenseValue for a context that
\* has one.
StartCachePoint(context_id, trace_stream_pos) ==
    /\ CanWrite
    /\ ~IsCachePointStarted
    /\ context_id \notin DOMAIN index
    /\ index' = Extended(index, context_id,
                         [trace_stream_offset |-> trace_stream_pos,
                          cpu_cache_stream_offset |-> Len(points),
                          page_offsets |-> <<>>])
    /\ points' = Append(points, RegisterCount(0))
    /\ current' = context_id
    /\ current_reg_count' = 0
    /\ UNCHANGED <<finalized, written_index>>

\* Registers come before pages.  Nothing is said of a register written twice,
\* or not at all.
WriteRegister(id) ==
    /\ CanWrite
    /\ IsCachePointStarted
    /\ index[current].page_offsets = <<>>
    /\ id \in Register
    /\ points' = Append(points, RegisterContent(id, current))
    /\ current_reg_count' = current_reg_count + 1
    /\ UNCHANGED <<index, current, finalized, written_index>>

\* Mutant: only the first byte of the page is looked at.
StartsInRegion(address, region) ==
    address >= region.start /\ address < region.start + region.size

\* The sums are those of 64-bit integers.
InRegion(address, region) ==
    /\ address >= region.start
    /\ (address + PageSize) % AddressMod <= (region.start + region.size) % AddressMod

\* Mutant: the position is taken after the page was written.
WriteMemoryPageAfter(address) ==
    /\ CanWrite
    /\ IsCachePointStarted
    /\ address % PageSize = 0
    /\ \E region \in Region : InRegion(address, region)
    /\ index' = [index EXCEPT ![current].page_offsets =
                     Append(@, [page_address |-> address,
                                cache_stream_offset |-> Len(points) + 1])]
    /\ points' = Append(points, PageContent(address, current))
    /\ UNCHANGED <<current, current_reg_count, finalized, written_index>>

WriteMemoryPage(address) ==
    /\ CanWrite
    /\ IsCachePointStarted
    /\ address % PageSize = 0
    /\ \E region \in Region : InRegion(address, region)
    /\ index' = [index EXCEPT ![current].page_offsets =
                     Append(@, [page_address |-> address,
                                cache_stream_offset |-> Len(points)])]
    /\ points' = Append(points, PageContent(address, current))
    /\ UNCHANGED <<current, current_reg_count, finalized, written_index>>

\* Mutant: the count goes to the last field before the cache point.
CountPatchedBefore ==
    [i \in DOMAIN points |->
         IF i = index[current].cpu_cache_stream_offset
         THEN RegisterCount(current_reg_count % CountMod) ELSE points[i]]

\* The count, kept in 32 bits, is written in 16.
CountPatched ==
    [points EXCEPT ![index[current].cpu_cache_stream_offset + 1] =
         RegisterCount(current_reg_count % CountMod)]

FinishCachePoint ==
    /\ ~finalized
    /\ IsCachePointStarted
    /\ points' = CountPatched
    /\ current' = NoPoint
    /\ UNCHANGED <<index, current_reg_count, finalized, written_index>>

\* Mutant: an open cache point is left open.
FinalizeOpenPoint ==
    /\ ~finalized
    /\ current' = NoPoint
    /\ finalized' = TRUE
    /\ UNCHANGED <<points, index, current_reg_count, written_index>>

\* finish_cache_points_section: do_finalize finishes an open point, ...
FinalizePoints ==
    /\ ~finalized
    /\ points' = IF IsCachePointStarted THEN CountPatched ELSE points
    /\ current' = NoPoint
    /\ finalized' = TRUE
    /\ UNCHANGED <<index, current_reg_count, written_index>>

\* Mutant: the index is written before the cache points section is finished.
WriteIndexEarly ==
    /\ written_index # index
    /\ written_index' = index
    /\ UNCHANGED <<points, index, current, current_reg_count, finalized>>

\* ... then the index is written behind the section.
WriteIndex ==
    /\ finalized
    /\ written_index # index
    /\ written_index' = index
    /\ UNCHANGED <<points, index, current, current_reg_count, finalized>>

Next ==
    \/ \E context_id \in ContextId, trace_stream_pos \in TracePos :
          StartCachePoint(context_id, trace_stream_pos)
    \/ \E id \in Register \union {OtherId} : WriteRegister(id)
    \/ \E address \in Address : WriteMemoryPage(address)
    \/ FinishCachePoint
    \/ FinalizePoints
    \/ WriteIndex

Spec == Init /\ [][Next]_vars

-----------------------------------------------------------------------------
(* CacheReader, over a file whose index was read. *)

\* read_cache_point: MalformedSection, or a value for every register.
Malformed == [status |-> "malformed", dump |-> <<>>]

\* Mutant: a register contained twice is not noticed.
ReadCachePointTwice(context_id) ==
    LET at == written_index[context_id].cpu_cache_stream_offset + 1
        count == points[at][2]
        registers == SubSeq(points, at + 1, at + count)
        Ids == {registers[i][2] : i \in DOMAIN registers}
    IN  IF \/ count # Cardinality(Register)
           \/ at + count > Len(points)
           \/ \E i \in DOMAIN registers : registers[i][1] # "register"
        THEN Malformed
        ELSE [status |-> "ok", dump |-> [id \in Ids |-> context_id]]

ReadCachePoint(context_id) ==
    LET at == written_index[context_id].cpu_cache_stream_offset + 1
        count == points[at][2]
        registers == SubSeq(points, at + 1, at + count)
        Ids == {registers[i][2] : i \in DOMAIN registers}
    IN  IF \/ count # Cardinality(Register)
           \/ at + count > Len(points)
           \/ \E i \in DOMAIN registers : registers[i][1] # "register"
           \/ \E i, j \in DOMAIN registers : i # j /\ registers[i][2] = registers[j][2]
           \/ ~(Ids \subseteq Register)
        THEN Malformed
        ELSE [status |-> "ok",
              dump |-> [id \in Ids |->
                           (CHOOSE r \in {registers[i] : i \in DOMAIN registers} :
                                r[2] = id)[3]]]

-----------------------------------------------------------------------------
TypeOK ==
    /\ points \in Seq({"count", "register", "page"} \X Nat \X Nat)
    /\ DOMAIN index \subseteq ContextId
    /\ current \in DOMAIN index \union {NoPoint}
    /\ current_reg_count \in Nat
    /\ finalized \in BOOLEAN
    /\ written_index \in {<<>>, index}

\* The registers of a cache point, as they lie between its count and whatever
\* comes next.
Written(context_id) ==
    LET at == index[context_id].cpu_cache_stream_offset + 1
    IN  {i \in (at + 1)..Len(points) :
            /\ points[i][1] = "register"
            /\ \A j \in (at + 1)..i : points[j][1] = "register"}

EachOnce(context_id) ==
    /\ Cardinality(Written(context_id)) = Cardinality(Register)
    /\ {points[i][2] : i \in Written(context_id)} = Register

\* cache-format.md:25: "the register list must be comprehensive".  Whatever the
\* recorder wrote, left out, wrote twice or left unfinished, a register dump
\* the reader returns has every register of the machine, with the content it
\* had at the context of the point asked for.
DumpsComprehensive ==
    \A context_id \in DOMAIN written_index :
        ReadCachePoint(context_id).status = "ok" =>
            ReadCachePoint(context_id).dump = [id \in Register |-> context_id]

\* A point in which every register was written once is never refused, however
\* many points and pages lie around it, and also when it was open as the
\* section was closed.
CompletePointsRead ==
    \A context_id \in DOMAIN written_index :
        EachOnce(context_id) => ReadCachePoint(context_id).status = "ok"

\* The offset the index gives for a page is where that page of that context
\* lies.
PagesWhereIndexed ==
    \A context_id \in DOMAIN written_index :
        \A i \in DOMAIN written_index[context_id].page_offsets :
            LET page == written_index[context_id].page_offsets[i]
            IN  /\ page.cache_stream_offset + 1 \in DOMAIN points
                /\ points[page.cache_stream_offset + 1]
                       = PageContent(page.page_address, context_id)

\* write_memory_page refuses an address that "is outside of known memory
\* regions" (cache_section_writers.cpp:100): the pages of the index lie in a
\* region of the machine to their last byte.
PagesInRegions ==
    \A context_id \in DOMAIN index :
        \A i \in DOMAIN index[context_id].page_offsets :
            LET address == index[context_id].page_offsets[i].page_address
            IN  \E region \in Region :
                    \A byte \in address..(address + PageSize - 1) :
                        byte \in region.start..(region.start + region.size - 1)

\* What was written stays: no later call changes a field of the section but the
\* count of the open cache point, nor the index entry of another point.
FinishedPointsStay ==
    [][/\ \A i \in DOMAIN points :
             points'[i] # points[i] =>
                 IsCachePointStarted /\ i = index[current].cpu_cache_stream_offset + 1
       /\ \A context_id \in DOMAIN index \ {current} :
             index'[context_id] = index[context_id]]_vars

=============================================================================
