---------------------------- MODULE RandomAccess ----------------------------
(***************************************************************************)
(* What the cache is for: reaching a context of a trace without reading all *)
(* of it (trace_reader.h:30, cache_reader.h:24).  Composes CacheFile with   *)
(* CacheReader::find_closest and with TraceReader::seek and read_next_event *)
(* at the granularity of events (EventTrace shows that these deliver the    *)
(* event at a position taken between two).  The programs around the library *)
(* are external: a recorder that keeps to cache_section_writers.h:26-45 and *)
(* a replayer that takes the registers from the closest cache point and     *)
(* every page from the latest point that has it.                            *)
(*                                                                          *)
(* Context 0 is the initial one, context n the one after n events.  The     *)
(* content of a register or page is represented by the context it was last  *)
(* written at.                                                              *)
(***************************************************************************)
EXTENDS CacheFile, FiniteSetsExt

CONSTANTS Touch,          \* what an event writes: sets of registers and pages
          MaxEvents       \* bound: events of the trace

Page == {address \in Address : address % PageSize = 0}
Location == Register \union Page

ASSUME LocationAssumption ==
    /\ Register \intersect Address = {}
    /\ Touch \subseteq SUBSET Location
    /\ MaxEvents \in Nat /\ 1..MaxEvents \subseteq ContextId
    /\ 1..MaxEvents \subseteq TracePos

VARIABLES trace,                \* the events: what each wrote
          dirty,                \* recorder: pages no cache point has yet
          to_write,             \* recorder: registers the open point lacks
          target,               \* the context the replayer wants
          current_event_id,     \* of TraceReader
          position,             \* its events section's: events before it
          state,                \* replayer: content of every location
          called_back           \* history: events read since the request

recorderVars == <<trace, dirty, to_write>>
replayVars == <<target, current_event_id, position, state, called_back>>
allVars == <<vars, recorderVars, replayVars>>

\* The content of a location at a context, read from the trace's beginning.
Version(location, context_id) ==
    LET Writes == {n \in 1..context_id : location \in trace[n]}
    IN  IF Writes = {} THEN 0 ELSE Max(Writes)

InitAccess ==
    /\ Init
    /\ trace = <<>>
    /\ dirty = {}
    /\ to_write = {}
    /\ target = 0
    /\ current_event_id = 0
    /\ position = 0
    /\ state = [location \in Location |-> 0]
    /\ called_back = {}

-----------------------------------------------------------------------------
(* The recorder *)

RecordEvent(touched) ==
    /\ ~finalized /\ ~IsCachePointStarted
    /\ Len(trace) < MaxEvents
    /\ trace' = Append(trace, touched)
    /\ dirty' = dirty \union (touched \intersect Page)
    /\ UNCHANGED <<vars, to_write, replayVars>>

\* Contexts with a cache point begin at 1; stream_pos() is behind the event.
RecordPoint ==
    /\ Len(trace) > 0
    /\ StartCachePoint(Len(trace), Len(trace))
    /\ to_write' = Register
    /\ UNCHANGED <<trace, dirty, replayVars>>

RecordRegister(id) ==
    /\ id \in to_write
    /\ WriteRegister(id)
    /\ to_write' = to_write \ {id}
    /\ UNCHANGED <<trace, dirty, replayVars>>

RecordPage(address) ==
    /\ to_write = {}
    /\ address \in dirty
    /\ WriteMemoryPage(address)
    /\ dirty' = dirty \ {address}
    /\ UNCHANGED <<trace, to_write, replayVars>>

RecordPointDone ==
    /\ to_write = {} /\ dirty = {}
    /\ FinishCachePoint
    /\ UNCHANGED <<recorderVars, replayVars>>

RecordEnd ==
    /\ \/ ~IsCachePointStarted /\ FinalizePoints
       \/ WriteIndex
    /\ UNCHANGED <<recorderVars, replayVars>>

-----------------------------------------------------------------------------
(* The replayer *)

None == NoPoint                     \* CacheReader::none()

\* Mutant: the cache point of the context itself is taken.
FindClosestOrExact(context_id) ==
    LET Before == {c \in DOMAIN written_index : c <= context_id}
    IN  IF Before = {} THEN None ELSE Max(Before)

\* Mutant: upper_bound on a map in ascending order.
FindClosestAscending(context_id) ==
    LET After == {c \in DOMAIN written_index : c > context_id}
    IN  IF After = {} THEN None ELSE Min(After)

\* upper_bound on a map in descending order.
FindClosest(context_id) ==
    LET Before == {c \in DOMAIN written_index : c < context_id}
    IN  IF Before = {} THEN None ELSE Max(Before)

\* The positions of a page in the cache points up to one, by their contexts.
PageOffsets(address, base) ==
    {o \in (DOMAIN written_index \intersect 1..base) \X (1..Len(points)) :
        /\ o[2] \in DOMAIN written_index[o[1]].page_offsets
        /\ written_index[o[1]].page_offsets[o[2]].page_address = address}
LatestPage(address, base) ==
    LET latest == CHOOSE o \in PageOffsets(address, base) :
                      \A other \in PageOffsets(address, base) : other[1] <= o[1]
    IN  points[written_index[latest[1]].page_offsets[latest[2]].cache_stream_offset + 1]

\* A dump of the point at `base', with initial memory for the pages that no
\* point up to there has.
StateAt(base) ==
    LET dump == ReadCachePoint(base).dump
    IN  [location \in Location |->
            IF location \in Register THEN Version(location, dump[location])
            ELSE IF PageOffsets(location, base) = {} THEN 0
            ELSE Version(location, LatestPage(location, base)[3])]

\* Mutant: the id is that of the event just read.
SeekIdBehind(context_id, stream_position) ==
    /\ current_event_id' = context_id - 1
    /\ position' = stream_position

\* TraceReader::seek
Seek(context_id, stream_position) ==
    /\ current_event_id' = context_id
    /\ position' = stream_position

\* The replayer has reached its target and is given another one.  Without a
\* cache point before it, it starts from the initial state.
Request(context_id) ==
    /\ finalized /\ written_index = index
    /\ current_event_id = target
    /\ target' = context_id
    /\ LET base == FindClosest(context_id)
       IN  IF base = None
           THEN /\ Seek(0, 0)
                /\ state' = [location \in Location |-> 0]
           ELSE /\ Seek(base, written_index[base].trace_stream_offset)
                /\ state' = StateAt(base)
    /\ called_back' = {}
    /\ UNCHANGED <<vars, recorderVars>>

\* read_next_event, up to the target; it throws at the end of the section.
ReplayEvent ==
    /\ current_event_id # target
    /\ current_event_id < Len(trace) /\ position < Len(trace)
    /\ state' = [location \in Location |->
                    IF location \in trace[position + 1] THEN position + 1
                    ELSE state[location]]
    /\ called_back' = called_back \union {position + 1}
    /\ current_event_id' = current_event_id + 1
    /\ position' = position + 1
    /\ UNCHANGED <<vars, recorderVars, target>>

NextAccess ==
    \/ \E touched \in Touch : RecordEvent(touched)
    \/ RecordPoint
    \/ \E id \in Register : RecordRegister(id)
    \/ \E address \in Page : RecordPage(address)
    \/ RecordPointDone
    \/ RecordEnd
    \/ \E context_id \in 1..Len(trace) : Request(context_id)
    \/ ReplayEvent

\* A replayer that was given a target goes on reading.
SpecAccess == InitAccess /\ [][NextAccess]_allVars /\ WF_allVars(ReplayEvent)

-----------------------------------------------------------------------------
\* Wherever the replayer is on its way, and whatever it was at before, every
\* register and page has the content that reading the trace from its beginning
\* gives, and the reader counts the event it stands at: the cache point, its
\* pages, those of earlier points and the position saved with it agree with the
\* trace.  So context_id is, "as if [it] was just read" (trace_reader.h:44), the
\* index of the next event.
ReplayExact ==
    /\ position = current_event_id
    /\ \A location \in Location : state[location] = Version(location, current_event_id)

\* cache_reader.cpp:54: an exact match is not returned "because the caller does
\* require executing at least one instruction to get the events right".  At the
\* target, the event that leads to it has been called back; and no cache point
\* was passed on the way, so none was closer.
ReplaysFromClosest ==
    target # 0 =>
        /\ current_event_id = target => target \in called_back
        /\ \A n \in called_back : n # Min(called_back) => n - 1 \notin DOMAIN written_index

\* A context that is asked for is reached, from whatever cache points there are.
RequestReached == current_event_id # target ~> current_event_id = target

=============================================================================
