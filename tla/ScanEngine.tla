---------------------------- MODULE ScanEngine ----------------------------
(***************************************************************************)
(* The scan engine: a worker thread that reads the memory of the attached  *)
(* process piece by piece while that process goes on writing and freeing   *)
(* it.  A first scan reads every selected region in chunks that overlap by *)
(* one byte less than an item; an unknown-value capture stores the raw     *)
(* chunks of the regions its budget can pay; a refinement reads the        *)
(* candidates in groups, or the captured chunks, and compares.             *)
(*                                                                         *)
(* A value is the tuple of its bytes, little-endian.  Every integer type   *)
(* has ValueSize bytes, "uint" unsigned and "int" in two's complement; an  *)
(* "aob" item is as long as its pattern.  Candidates are a function from   *)
(* addresses to values: the sorted, duplicate-free pair of arrays of       *)
(* CandidateSet.  Floating point, text folding and progress are left out.  *)
(***************************************************************************)
EXTENDS Integers, Sequences, FiniteSets, FiniteSetsExt

CONSTANTS
    Base,        \* values of a byte are 0..(Base - 1)
    Address,     \* addresses of the target's memory
    Page,        \* size of a page, the unit in which memory is freed
    Regions,     \* readable regions while nothing has been freed
    ValueSize,   \* bytes of an integer item
    Requests,    \* scan requests the user can make
    GapLimit,    \* largest gap between two candidates read together
    SpanLimit,   \* longest read of a group of candidates
    Wild,        \* a wildcard of a byte pattern
    NoValue,     \* an operand that is not given
    MaxPokes     \* bound: writes and frees of the target

Byte == 0..(Base - 1)
RegionType == {"private", "image", "mapped"}
Region == [base : Nat, size : Nat \ {0}, type : RegionType, writable : BOOLEAN]
Span(r) == r.base..(r.base + r.size - 1)

RelativeModes == {"changed", "unchanged", "increased", "decreased",
                  "increased_by", "decreased_by"}
OperandModes == {"exact", "between", "greater_than", "less_than",
                 "increased_by", "decreased_by"}
Modes == RelativeModes \cup OperandModes \cup {"unknown_initial", "aob"}

Option == [alignment : Nat, writable_only : BOOLEAN, include_image : BOOLEAN,
           include_mapped : BOOLEAN, address_min : Nat, address_max : Nat,
           chunk_size : Nat \ {0}, max_candidates : Nat \ {0}, budget : Nat]
Request == [type : {"uint", "int", "aob"}, mode : Modes,
            value : Int \cup {NoValue}, value2 : Int \cup {NoValue},
            pattern : Seq(Byte \cup {Wild}), options : Option]

ASSUME EngineAssumption ==
    /\ Base \in Nat \ {0, 1}
    /\ Page \in Nat \ {0}
    /\ ValueSize \in Nat \ {0}
    /\ GapLimit \in Nat
    /\ SpanLimit \in Nat
    /\ MaxPokes \in Nat
    /\ Address \subseteq Nat /\ IsFiniteSet(Address)
    /\ Regions \subseteq Region
    /\ \A r \in Regions : Span(r) \subseteq Address
    /\ \A r, s \in Regions : r # s => Span(r) \cap Span(s) = {}
    /\ Requests \subseteq Request

\* Memory comes in whole pages: what is not mapped between two regions is a page
\* or more, and no group reads over a gap that long.
ASSUME PageAssumption ==
    LET mappable == UNION {Span(r) : r \in Regions}
    IN  /\ GapLimit <= Page
        /\ \A r, s \in Regions : \A x \in (r.base + r.size)..(s.base - 1) :
               x \in mappable \/ \E y \in 0..x : /\ x < y + Page
                                              /\ (y..(y + Page - 1)) \cap mappable = {}

VARIABLES
    memory,  \* the byte at each address of the target
    mapped,  \* the addresses that can be read
    pokes,   \* how often the target has written or freed
    job,     \* the locals of the scan worker
    result   \* ScanSession.result

vars == <<memory, mapped, pokes, job, result>>

-----------------------------------------------------------------------------
(* Values and comparisons.                                                 *)

BytesAt(a, n) == [i \in 1..n |-> memory[a + i - 1]]
Footprint(a, n) == a..(a + n - 1)

Unsigned(b) ==
    LET from[i \in 1..(Len(b) + 1)] ==
            IF i > Len(b) THEN 0 ELSE b[i] + Base * from[i + 1]
    IN  from[1]
\* One more than the greatest value of that many bytes.
Width(b) == Unsigned([i \in 1..Len(b) |-> Base - 1]) + 1
Number(type, b) ==
    IF type = "int" /\ 2 * Unsigned(b) >= Width(b)
    THEN Unsigned(b) - Width(b)
    ELSE Unsigned(b)

ItemSize(req) == IF req.mode = "aob" THEN Len(req.pattern) ELSE ValueSize

\* parse_value: the operand fits the type.
Fits(req, v) == \E b \in [1..ValueSize -> Byte] : Number(req.type, b) = v

\* The modes the panel offers for a type.
AvailableModes(type) == IF type = "aob" THEN {"aob"} ELSE Modes \ {"aob"}

\* The panel asks for an operand only in a mode that has one.
CurrentRequest(req) ==
    /\ req.mode \in AvailableModes(req.type)
    /\ req.mode \notin OperandModes => req.value = NoValue
    /\ req.mode # "between" => req.value2 = NoValue

\* validate: what start_scan and refine_scan refuse before anything else.
Valid(req) ==
    /\ (req.mode = "aob") <=> (req.type = "aob")
    /\ req.mode = "aob" => Len(req.pattern) > 0
    /\ (req.value # NoValue) <=> (req.mode \in OperandModes)
    /\ (req.value2 # NoValue) <=> (req.mode = "between")
    /\ req.mode \in OperandModes => Fits(req, req.value)
    /\ req.mode = "between" => Fits(req, req.value2) /\ req.value <= req.value2

ValidRequests == {req \in Requests : CurrentRequest(req) /\ Valid(req)}

ByteMatch(pattern, b) == \A i \in DOMAIN pattern : pattern[i] \in {Wild, b[i]}

\* _first_numeric_indices, kernel_exact, kernel_range, kernel_aob.
FirstMatch(req, b) ==
    \/ req.mode = "exact" /\ Number(req.type, b) = req.value
    \/ req.mode = "between" /\ Number(req.type, b) \in req.value..req.value2
    \/ req.mode = "greater_than" /\ Number(req.type, b) > req.value
    \/ req.mode = "less_than" /\ Number(req.type, b) < req.value
    \/ req.mode = "aob" /\ ByteMatch(req.pattern, b)

\* Mutant: the delta is added without a width.
DiffersUnbounded(cur, old, delta) == Unsigned(cur) - Unsigned(old) # delta

\* kernel_compare: the delta is added in the width of the type.
Differs(cur, old, delta) ==
    (Unsigned(cur) - Unsigned(old) - delta) % Width(cur) # 0
CompareMatch(req, cur, old) ==
    \/ req.mode = "changed" /\ cur # old
    \/ req.mode = "unchanged" /\ cur = old
    \/ req.mode = "increased" /\ Number(req.type, cur) > Number(req.type, old)
    \/ req.mode = "decreased" /\ Number(req.type, cur) < Number(req.type, old)
    \/ req.mode = "increased_by" /\ ~Differs(cur, old, req.value)
    \/ req.mode = "decreased_by" /\ ~Differs(cur, old, -req.value)

\* _numeric_refine_mask and _byte_refine_mask.
RefineMatch(req, cur, old) ==
    IF req.mode \in RelativeModes THEN CompareMatch(req, cur, old)
    ELSE FirstMatch(req, cur)

-----------------------------------------------------------------------------
(* Reading and choosing regions.                                           *)

\* read_into: a read stops at the first address that cannot be read.
ReadInto(a, n) ==
    CHOOSE c \in 0..n : /\ \A i \in 0..(c - 1) : a + i \in mapped
                        /\ c < n => a + c \notin mapped

\* The addresses of an interval at which an item can begin.
Aligned(a, req) ==
    LET step == IF req.options.alignment # 0 THEN req.options.alignment
                ELSE IF req.mode = "aob" THEN 1 ELSE ValueSize
    IN  a % step = 0

\* enumerate_readable_regions: what is left of each region.
Pieces(r) ==
    LET kept == Span(r) \cap mapped
        End(a) == Min({b \in a..(r.base + r.size) : b \notin kept})
    IN  {[r EXCEPT !.base = a, !.size = End(a) - a] :
            a \in {b \in kept : b - 1 \notin kept}}

Larger(x, y) == IF x > y THEN x ELSE y
Smaller(x, y) == IF x < y THEN x ELSE y
Clip(r, opts) ==
    LET first == Larger(r.base, opts.address_min)
        end == Smaller(r.base + r.size, opts.address_max + 1)
    IN  [r EXCEPT !.base = first, !.size = end - first]

\* select_regions
Selected(opts) ==
    {Clip(r, opts) : r \in
        {p \in UNION {Pieces(r) : r \in Regions} :
            /\ opts.writable_only => p.writable
            /\ p.type = "image" => opts.include_image
            /\ p.type = "mapped" => opts.include_mapped
            /\ \E a \in Span(p) : a \in opts.address_min..opts.address_max}}

\* A capture takes private writable memory first, then writable images.
Priority(r) ==
    IF r.writable /\ r.type = "private" THEN 0
    ELSE IF r.writable /\ r.type = "image" THEN 1
    ELSE 2
Precedes(kind, r, s) ==
    IF kind = "capture" /\ Priority(r) # Priority(s)
    THEN Priority(r) < Priority(s)
    ELSE r.base < s.base

-----------------------------------------------------------------------------
NoRegion == [base |-> 0, size |-> 0, type |-> "private", writable |-> FALSE]
Empty == [a \in {} |-> <<>>]
NoResult == [kind |-> "none", type |-> "uint", values |-> Empty,
             chunks |-> <<>>, bytes |-> 0, skipped |-> 0]

\* History, for the properties.  A job remembers the addresses untouched since
\* it began, what it completed with, and that of the job it refines.
NoEnd == [memory |-> Empty, stable |-> {}, regions |-> {}]
Touch(addresses) ==
    job' = IF job.phase \in {"running", "done"}
           THEN [job EXCEPT !.stable = @ \ addresses] ELSE job

\* No job, or one that ended without a result.
Over(phase) == [phase |-> phase]

Init ==
    /\ mapped = UNION {Span(r) : r \in Regions}
    /\ memory \in {m \in [Address -> Byte] : \A a \in Address \ mapped : m[a] = 0}
    /\ pokes = 0
    /\ job = Over("idle")
    /\ result = NoResult

(* The target process (outside the program).                               *)

ProgramWrites(a) ==
    /\ pokes < MaxPokes
    /\ a \in mapped
    /\ pokes' = pokes + 1
    /\ \E b \in Byte \ {memory[a]} : memory' = [memory EXCEPT ![a] = b]
    /\ Touch({a})
    /\ UNCHANGED <<mapped, result>>

ProgramFrees(a) ==
    LET page == {b \in mapped : b \div Page = a \div Page}
    IN  /\ pokes < MaxPokes
        /\ a \in mapped
        /\ pokes' = pokes + 1
        /\ mapped' = mapped \ page
        /\ Touch(page)
        /\ UNCHANGED <<memory, result>>

-----------------------------------------------------------------------------
(* Starting: start_scan and refine_scan refuse while a worker runs.        *)

Running(kinds) == job.phase = "running" /\ job.kind \in kinds

Start(kind, req, before, ok) ==
    LET chosen == Selected(req.options)
    IN  job' =
           IF ~ok THEN Over("failed") ELSE
           [phase |-> "running", kind |-> kind, req |-> req,
            selected |-> chosen, regions |-> chosen,
            region |-> NoRegion, offset |-> 0, left |-> req.options.budget,
            skipped |-> {}, chunks |-> <<>>, bytes |-> 0, next |-> 1,
            old |-> result.values, todo |-> DOMAIN result.values,
            found |-> Empty, count |-> 0,
            stable |-> mapped, before |-> before, end |-> NoEnd]

FirstScan(req) ==
    /\ job.phase # "running"
    /\ req \in ValidRequests
    /\ result' = [NoResult EXCEPT !.type = req.type]
    /\ Start(IF req.mode = "unknown_initial" THEN "capture" ELSE "scan",
             req, NoEnd, req.mode \notin RelativeModes)
    /\ UNCHANGED <<memory, mapped, pokes>>

\* Only a completed result is refined; its values are copied here.
RefineScan(req) ==
    /\ job.phase = "done"
    /\ req \in ValidRequests
    /\ req.type = result.type
    /\ IF result.kind = "snapshot"
       THEN Start("refine_unknown", req, job.end, req.mode \in RelativeModes)
       ELSE Start("refine", req, job.end, req.mode # "unknown_initial")
    /\ UNCHANGED <<memory, mapped, pokes, result>>

\* A cancellation is seen between two reads, or before the result is sent.
Cancel ==
    /\ job.phase = "running"
    /\ job' = Over("cancelled")
    /\ UNCHANGED <<memory, mapped, pokes, result>>

-----------------------------------------------------------------------------
(* First scan and capture: one region after the other, chunk by chunk.     *)

Choosing == Running({"scan", "capture"}) /\ job.region = NoRegion
IsNext(r) ==
    \A s \in job.regions \ {r} : Precedes(job.kind, r, s)

\* Mutant: every region is compared with the whole budget.
RegionFitsWholeBudget(r) == job.kind = "capture" => r.size <= job.req.options.budget

\* Mutant: a region that would use up the budget is skipped.
RegionFitsStrictly(r) == job.kind = "capture" => r.size < job.left

RegionFits(r) == job.kind = "capture" => r.size <= job.left

TakeRegion ==
    /\ Choosing
    /\ \E r \in job.regions :
        /\ IsNext(r)
        /\ RegionFits(r)
        /\ job' = [job EXCEPT !.regions = @ \ {r}, !.region = r,
                              !.left = IF job.kind = "capture" THEN @ - r.size ELSE @]
    /\ UNCHANGED <<memory, mapped, pokes, result>>

\* A capture skips a region that does not fit what is left of its budget.
SkipRegion ==
    /\ Choosing
    /\ \E r \in job.regions :
        /\ IsNext(r)
        /\ ~RegionFits(r)
        /\ job' = [job EXCEPT !.regions = @ \ {r}, !.skipped = @ \cup {r}]
    /\ UNCHANGED <<memory, mapped, pokes, result>>

ChunkBase == job.region.base + job.offset
ChunkPrimary == Smaller(job.req.options.chunk_size, job.region.size - job.offset)

\* Mutant: chunks do not overlap.
ChunkReadNoOverlap == ChunkPrimary

\* Mutant: chunks overlap by a whole item.
ChunkReadWholeItem ==
    Smaller(ChunkPrimary + ItemSize(job.req), job.region.size - job.offset)

ChunkRead ==
    LET overlap == ItemSize(job.req) - 1
    IN  Smaller(ChunkPrimary + overlap, job.region.size - job.offset)

\* Mutant: the next chunk begins where the last read stopped.
NextChunkAfterRead(j) ==
    LET count == Smaller(ReadInto(ChunkBase, ChunkRead), ChunkPrimary)
    IN  IF job.offset + count < job.region.size
        THEN [j EXCEPT !.offset = @ + count]
        ELSE [j EXCEPT !.region = NoRegion, !.offset = 0]

\* The region is over once its last chunk has been read.
NextChunk(j) ==
    IF job.offset + ChunkPrimary < job.region.size
    THEN [j EXCEPT !.offset = @ + ChunkPrimary]
    ELSE [j EXCEPT !.region = NoRegion, !.offset = 0]

\* _numeric_slices, and the offsets kept of a pattern search: where an item
\* begins in the first `primary` of the `count` bytes read at `base`.
Starts(base, count, primary, req) ==
    {a \in base..(base + primary - 1) :
        /\ a + ItemSize(req) <= base + count
        /\ Aligned(a, req)}

\* Matches are counted as they are found, the earlier of two with the same
\* address is kept, and the limit is checked as soon as they are counted.
AddFound(j, found) ==
    [j EXCEPT !.count = @ + Cardinality(DOMAIN found),
              !.found = [a \in DOMAIN @ \cup DOMAIN found |->
                            IF a \in DOMAIN @ THEN @[a] ELSE found[a]]]
Limited(j) == IF j.count > j.req.options.max_candidates THEN Over("failed") ELSE j

\* _scan_regions, one chunk.
ScanChunk ==
    LET base == ChunkBase
        count == ReadInto(base, ChunkRead)
        size == ItemSize(job.req)
        hits == {a \in Starts(base, count, Smaller(ChunkPrimary, count),
                              job.req) :
                    FirstMatch(job.req, BytesAt(a, size))}
    IN  /\ Running({"scan"})
        /\ job.region # NoRegion
        /\ job' = Limited(NextChunk(AddFound(job, [a \in hits |-> BytesAt(a, size)])))
        /\ UNCHANGED <<memory, mapped, pokes, result>>

\* _capture_unknown, one chunk.
CaptureChunk ==
    LET base == ChunkBase
        count == ReadInto(base, ChunkRead)
        chunk == [base |-> base, raw |-> BytesAt(base, count)]
    IN  /\ Running({"capture"})
        /\ job.region # NoRegion
        /\ job' = NextChunk([job EXCEPT
                    !.chunks = IF count > 0 THEN Append(@, chunk) ELSE @,
                    !.bytes = @ + Smaller(ChunkPrimary, count)])
        /\ UNCHANGED <<memory, mapped, pokes, result>>

Finish(values, chunks) ==
    /\ job' = [job EXCEPT
                !.phase = "done",
                !.end = [memory |-> memory, stable |-> job.stable,
                         regions |-> job.selected \ job.skipped]]
    /\ result' = [kind |-> IF job.kind = "capture" THEN "snapshot" ELSE "candidates",
                  type |-> job.req.type, values |-> values, chunks |-> chunks,
                  bytes |-> job.bytes, skipped |-> Cardinality(job.skipped)]
    /\ UNCHANGED <<memory, mapped, pokes>>

FinishFirst ==
    /\ Choosing
    /\ job.regions = {}
    /\ Finish(job.found, job.chunks)

-----------------------------------------------------------------------------
(* Refinement.                                                             *)

\* Mutant: only the length of the read ends a group.
GroupBySpan(todo, size) == {a \in todo : a + size - Min(todo) <= SpanLimit}

\* The candidates read with the lowest one left: no wide gap, no long span.
Group(todo, size) ==
    LET first == Min(todo)
    IN  {a \in todo :
            \A b \in {c \in todo : c # first /\ c <= a} :
                /\ \E c \in todo : c < b /\ b - c <= GapLimit
                /\ b + size - first <= SpanLimit}

\* _refine_candidates, one group; what cannot be read is dropped.
RefineGroup ==
    LET size == ItemSize(job.req)
        group == Group(job.todo, size)
        base == Min(group)
        count == ReadInto(base, Max(group) + size - base)
        kept == {a \in group :
                    /\ a + size - base <= count
                    /\ RefineMatch(job.req, BytesAt(a, size), job.old[a])}
    IN  /\ Running({"refine"})
        /\ job.todo # {}
        /\ job' = [job EXCEPT
                    !.todo = @ \ group,
                    !.found = [a \in DOMAIN @ \cup kept |->
                                IF a \in kept THEN BytesAt(a, size) ELSE @[a]],
                    !.count = @ + Cardinality(kept)]
        /\ UNCHANGED <<memory, mapped, pokes, result>>

\* _refine_unknown, one captured chunk.
RefineChunk ==
    LET chunk == result.chunks[job.next]
        usable == ReadInto(chunk.base, Len(chunk.raw))
        size == ItemSize(job.req)
        OldAt(a) == SubSeq(chunk.raw, a - chunk.base + 1, a - chunk.base + size)
        hits == {a \in Starts(chunk.base, usable, usable, job.req) :
                    RefineMatch(job.req, BytesAt(a, size), OldAt(a))}
    IN  /\ Running({"refine_unknown"})
        /\ job.next <= Len(result.chunks)
        /\ job' = Limited([AddFound(job, [a \in hits |-> BytesAt(a, size)])
                            EXCEPT !.next = @ + 1])
        /\ UNCHANGED <<memory, mapped, pokes, result>>

\* The limit of a refinement of candidates is checked once, at the end.
FinishRefine ==
    /\ \/ Running({"refine"}) /\ job.todo = {}
       \/ Running({"refine_unknown"}) /\ job.next > Len(result.chunks)
    /\ IF job.count > job.req.options.max_candidates
       THEN /\ job' = Over("failed")
            /\ UNCHANGED <<memory, mapped, pokes, result>>
       ELSE Finish(job.found, <<>>)

-----------------------------------------------------------------------------
\* The worker thread.
WorkerStep ==
    \/ TakeRegion
    \/ SkipRegion
    \/ ScanChunk
    \/ CaptureChunk
    \/ FinishFirst
    \/ RefineGroup
    \/ RefineChunk
    \/ FinishRefine

Next ==
    \/ \E a \in Address : ProgramWrites(a) \/ ProgramFrees(a)
    \/ \E req \in Requests :
           FirstScan(req) \/ RefineScan(req)
    \/ Cancel
    \/ WorkerStep

Spec == Init /\ [][Next]_vars /\ WF_vars(WorkerStep)

-----------------------------------------------------------------------------
(* Properties.                                                             *)

Candidates(f) == DOMAIN f \subseteq Address /\ \A a \in DOMAIN f : f[a] \in Seq(Byte)
Chunks(s) == \A i \in DOMAIN s : s[i].base \in Address /\ s[i].raw \in Seq(Byte)

\* Types of the engine's state.
TypeOK ==
    /\ memory \in [Address -> Byte]
    /\ mapped \subseteq Address
    /\ pokes \in 0..MaxPokes
    /\ job.phase \in {"idle", "running", "done", "failed", "cancelled"}
    /\ job.phase \in {"running", "done"} =>
        /\ job.req \in Requests
        /\ job.kind \in {"scan", "capture", "refine", "refine_unknown"}
        /\ job.regions \cup job.skipped \subseteq job.selected
        /\ job.stable \subseteq mapped
        /\ job.left \in Nat /\ job.bytes \in Nat /\ job.count \in Nat
        /\ Candidates(job.found) /\ Candidates(job.old) /\ Chunks(job.chunks)
    /\ result.kind \in {"none", "candidates", "snapshot"}
    /\ Candidates(result.values) /\ Chunks(result.chunks)

\* The counter that enforces max_candidates counts every candidate once:
\* overlapping chunks and captured chunks report no address a second time.
CountExact ==
    job.phase \in {"running", "done"} =>
        /\ job.count = Cardinality(DOMAIN job.found)
        /\ job.phase = "done" => job.count <= job.req.options.max_candidates

Size == ItemSize(job.req)
Done(kind) == job.phase = "done" /\ job.kind = kind
Untouched(a) == Footprint(a, Size) \subseteq job.stable
\* The regions that hold an item at a; none of an item across two regions.
Around(a, regions) == {r \in regions : Footprint(a, Size) \subseteq Span(r)}
StillMapped(a, regions) == \E r \in Around(a, regions) : Span(r) \subseteq mapped

\* A first scan finds exactly the aligned items that match inside one selected
\* region, wherever the chunk boundaries fall; of the items the target changes
\* or frees meanwhile, and of a region that loses a page, nothing is promised.
ScanFindsExactly ==
    Done("scan") =>
        \A a \in Address :
            /\ a \in DOMAIN result.values =>
                Around(a, job.selected) # {} /\ Aligned(a, job.req)
            /\ Untouched(a) /\ a \in DOMAIN result.values =>
                /\ FirstMatch(job.req, BytesAt(a, Size))
                /\ result.values[a] = BytesAt(a, Size)
            /\ /\ Untouched(a) /\ StillMapped(a, job.selected)
               /\ Aligned(a, job.req)
               /\ FirstMatch(job.req, BytesAt(a, Size))
               => a \in DOMAIN result.values

\* What the modes mean: a value may have wrapped around the width of its type.
Expected(req, cur, old) ==
    LET c == Number(req.type, cur)
        o == Number(req.type, old)
        Wrapped(d) == {d, d - Width(cur), d + Width(cur)}
    IN  CASE req.mode = "changed" -> c # o
          [] req.mode = "unchanged" -> c = o
          [] req.mode = "increased" -> c > o
          [] req.mode = "decreased" -> c < o
          [] req.mode = "increased_by" -> c - o \in Wrapped(req.value)
          [] req.mode = "decreased_by" -> o - c \in Wrapped(req.value)
          [] OTHER -> FirstMatch(req, cur)

\* A refinement keeps only candidates, and decides each one by its own old and
\* new value, whichever candidates it was read with: pages never mapped between
\* two candidates cost none of them.
RefineDecides ==
    Done("refine") =>
        /\ DOMAIN result.values \subseteq DOMAIN job.old
        /\ (\A a \in DOMAIN job.old : Footprint(a, Size) \subseteq mapped) =>
            \A a \in DOMAIN job.old :
                Untouched(a) =>
                    (a \in DOMAIN result.values
                        <=> Expected(job.req, BytesAt(a, Size), job.old[a]))

\* The first refinement of a capture compares with what memory held during the
\* capture, in the captured regions only, and misses no item of theirs.
UnknownDecides ==
    Done("refine_unknown") =>
        \A a \in Address :
            LET Was == [i \in 1..Size |-> job.before.memory[a + i - 1]]
            IN  /\ a \in DOMAIN result.values =>
                    /\ Around(a, job.before.regions) # {}
                    /\ Aligned(a, job.req)
                /\ /\ Untouched(a) /\ Footprint(a, Size) \subseteq job.before.stable
                   /\ StillMapped(a, job.before.regions)
                   /\ Aligned(a, job.req)
                   => (a \in DOMAIN result.values
                        <=> Expected(job.req, BytesAt(a, Size), Was))

\* Every job ends, also when the memory it reads is freed under it.
ScanEnds == job.phase = "running" ~> job.phase # "running"

\* How many bytes a set of regions has, those of each region on their own.
Cells(rs) == UNION {{r} \X Span(r) : r \in rs}
Bytes(rs) == Cardinality(Cells(rs))

\* A capture never takes more than its budget, and skips a region only when it
\* does not fit beside what goes before it.
CaptureSpendsBudget ==
    Done("capture") =>
        LET kept == job.selected \ job.skipped
        IN  /\ Bytes(kept) <= job.req.options.budget
            /\ \A s \in job.skipped :
                Bytes({r \in kept : Precedes("capture", r, s)}) + s.size
                    > job.req.options.budget
=============================================================================
