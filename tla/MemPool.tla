------------------------------ MODULE MemPool ------------------------------
(***************************************************************************)
(* An owner's memory pool (core/foundation/c2-mem/src/pool.rs): buddy      *)
(* segments, dedicated segments and file spill behind one allocation call, *)
(* the budget they are charged to (budget.rs), and the pressure engine     *)
(* that may deny them (pressure.rs).  Every operation has the pool to      *)
(* itself; the budget is shared with other owners.                         *)
(***************************************************************************)
EXTENDS Buddy, Functions

CONSTANTS
    HandleIds,                  \* allocation handles
    max_segments, max_dedicated_segments, min_retained_segments,
    PageSize, ShmLimit, FileLimit,
    spill_threshold,            \* in tenths
    MaxGeneration,              \* u32::MAX
    Scenes                      \* circumstances a pool may be in (see scene)

ASSUME PoolAssumption ==
    /\ {max_segments, max_dedicated_segments, min_retained_segments,
        ShmLimit, FileLimit, spill_threshold} \subseteq Nat
    /\ {PageSize, MaxGeneration} \subseteq Nat \ {0}
    /\ \A s \in Scenes :
         /\ s.sizes \subseteq Nat \ {0} /\ s.available \subseteq Nat /\ s.charges \subseteq Nat
         /\ s.granted \subseteq SUBSET {"buddy", "dedicated", "file"}

VARIABLES
    scene,                  \* the sizes asked for, what the OS may report available and
                            \* which creations it grants, what other owners may charge,
                            \* and which of the optional operations the owner uses
    segments,               \* free blocks, alloc_count and free_bytes of a slot
    generations, idle_since, retain_idle_backing,
    dedicated, dedicated_generations,
    shm_used, file_used,    \* the budget's cells
    others,                 \* history: what other owners hold of the shm cell
    pressured_for,          \* 0 is None
    handles

pool_vars == <<scene, segments, generations, idle_since, retain_idle_backing, dedicated,
               dedicated_generations, shm_used, file_used, others, pressured_for, handles>>

Slots == 0 .. max_segments - 1
DedicatedSlots == 0 .. max_dedicated_segments - 1
None == [kind |-> "none"]

PoolInit ==
    /\ scene \in Scenes
    /\ segments = [i \in Slots |-> None]
    /\ generations = [i \in Slots |-> 0]
    /\ idle_since = [i \in Slots |-> "none"]
    /\ retain_idle_backing = TRUE
    /\ dedicated = [i \in DedicatedSlots |-> None]
    /\ dedicated_generations = [i \in DedicatedSlots |-> 0]
    /\ shm_used = 0 /\ file_used = 0 /\ others = 0 /\ pressured_for = 0
    /\ handles = [h \in HandleIds |-> None]

-----------------------------------------------------------------------------
Live == {i \in Slots : segments[i] # None}
LiveDedicated == {i \in DedicatedSlots : dedicated[i] # None}
Idle == {i \in Live : segments[i].alloc_count = 0}

Segment(free, count, bytes) ==
    [kind |-> "segment", free |-> free, alloc_count |-> count, free_bytes |-> bytes]

NewSegment == Segment({<<0, 0>>}, 0, data_size)

alloc_in(s, size) ==
    LET a == alloc(s.free, size)
    IN  Segment(a.free, s.alloc_count + 1, s.free_bytes - block_size(a.block[1]))

free_in(s, b) ==
    Segment(free_block(s.free, b), s.alloc_count - 1, s.free_bytes + block_size(b[1]))

(* gc_buddy walks the slots downwards and stops at a busy segment, at the  *)
(* retained minimum, or at one that has not been idle for long.            *)
Above(i) == {j \in Live : j > i}
may_retire(i) == Cardinality(Live) - Cardinality(Above(i)) > min_retained_segments
reaches(i) == \A j \in Above(i) : may_retire(j) /\ j \in Idle /\ idle_since[j] = "long"

Retired == {i \in Idle : reaches(i) /\ may_retire(i) /\ idle_since[i] = "long"}

(* The idle window of a segment that never held anything starts when the   *)
(* walk first meets it.                                                    *)
Noticed == {i \in Idle : reaches(i) /\ may_retire(i) /\ idle_since[i] = "none"}

idle_since_after(gone) ==
    [i \in Slots |-> IF i \in gone THEN "none"
                     ELSE IF i \in Noticed THEN "now" ELSE idle_since[i]]

gc_buddy ==
    /\ Retired \cup Noticed # {}
    /\ segments' = [i \in Slots |-> IF i \in Retired THEN None ELSE segments[i]]
    /\ idle_since' = idle_since_after(Retired)
    /\ shm_used' = shm_used - data_size * Cardinality(Retired)
    /\ UNCHANGED <<generations, retain_idle_backing, dedicated, dedicated_generations,
                   file_used, others, pressured_for, handles>>

(* Time: an idle window passes.                                            *)
decays ==
    /\ \E i \in Slots : idle_since[i] = "now"
                        /\ idle_since' = [idle_since EXCEPT ![i] = "long"]
    /\ UNCHANGED <<segments, generations, retain_idle_backing, dedicated,
                   dedicated_generations, shm_used, file_used, others, pressured_for,
                   handles>>

-----------------------------------------------------------------------------
(* PressureEngine::evaluate: a backing at least as large as the largest    *)
(* one denied must fit the recovery bar.                                   *)
recovering(latch, bytes) == latch # 0 /\ bytes >= latch

admits(latch, available, bytes) ==
    \/ spill_threshold >= 10
    \/ /\ spill_threshold > 0
       /\ 100 * bytes <= available * spill_threshold * (IF recovering(latch, bytes) THEN 8 ELSE 10)

latch_after(latch, available, bytes) ==
    IF spill_threshold \notin 1 .. 9 THEN latch
    ELSE IF ~admits(latch, available, bytes) THEN Highest({latch, bytes})
    ELSE IF recovering(latch, bytes) THEN 0 ELSE latch

required_shm_size(size) == PageSize * ((size + PageSize - 1) \div PageSize)

BuddyHandle(i, generation, b, size) ==
    [kind |-> "buddy", seg_idx |-> i, generation |-> generation, block |-> b, len |-> size]
DedicatedHandle(i, generation, size) ==
    [kind |-> "dedicated", seg_idx |-> i, generation |-> generation, len |-> size]
FileHandle(size) == [kind |-> "file", len |-> size]

fits_buddy(size) == max_segments > 0 /\ size <= data_size
Reusable(size) == {i \in Live : can_alloc(segments[i].free, size)}

(* Layer 1: an existing segment has room.                                  *)
try_buddy_reuse(h, size) ==
    /\ fits_buddy(size) /\ Reusable(size) # {}
    /\ LET i == Lowest(Reusable(size)) IN
         /\ segments' = [segments EXCEPT ![i] = alloc_in(@, size)]
         /\ idle_since' = [idle_since EXCEPT ![i] = "none"]
         /\ handles' = [handles EXCEPT
              ![h] = BuddyHandle(i, generations[i], alloc(segments[i].free, size).block, size)]
    /\ UNCHANGED <<generations, retain_idle_backing, dedicated, dedicated_generations,
                   shm_used, file_used, others, pressured_for>>

Wrong_next_generation(g) == IF g = 0 THEN 1 ELSE g

next_generation(g) == g + 1

(* Only empty slots advance; an exhausted generation retires its slot.     *)
NextSlots(gone) == {i \in Slots : i \notin Live \ gone /\ generations[i] < MaxGeneration}
NextDedicated ==
    {i \in DedicatedSlots \ LiveDedicated : dedicated_generations[i] < MaxGeneration}

(* Layers 2 to 4: what the creation seams make of a request no mapped      *)
(* segment can serve.  os is the set of creations the system would grant.  *)
Attempt(size, available, os) ==
    LET gone == IF fits_buddy(size) THEN Retired ELSE {}
        held == shm_used - data_size * Cardinality(gone)
        slots == IF fits_buddy(size) THEN NextSlots(gone) ELSE {}
        expands == /\ slots # {} /\ admits(pressured_for, available, data_size)
                   /\ held + data_size <= ShmLimit /\ "buddy" \in os
        latch == IF slots = {} THEN pressured_for
                 ELSE latch_after(pressured_for, available, data_size)
        bytes == required_shm_size(size)
        reached == ~expands /\ NextDedicated # {}
        dedicates == /\ reached /\ admits(latch, available, bytes)
                     /\ held + bytes <= ShmLimit /\ "dedicated" \in os
    IN  [gone |-> gone, held |-> held, slots |-> slots, expands |-> expands,
         bytes |-> bytes, dedicates |-> dedicates,
         latch |-> IF reached THEN latch_after(latch, available, bytes) ELSE latch]

(* What every outcome of an attempt does: gc_buddy's walk and the latch.   *)
Reclaims(size, gone) ==
    idle_since' = IF fits_buddy(size) THEN idle_since_after(gone) ELSE idle_since

Remaining(gone) == [i \in Slots |-> IF i \in gone THEN None ELSE segments[i]]

expand_buddy(h, size, available, os) ==
    /\ Reusable(size) = {}
    /\ LET a == Attempt(size, available, os)
           i == Lowest(a.slots)
           s == alloc_in(NewSegment, size)
           g == next_generation(generations[i])
       IN  /\ a.expands
           /\ segments' = [Remaining(a.gone) EXCEPT ![i] = s]
           /\ idle_since' = [idle_since_after(a.gone) EXCEPT ![i] = "none"]
           /\ generations' = [generations EXCEPT ![i] = g]
           /\ shm_used' = a.held + data_size
           /\ pressured_for' = a.latch
           /\ handles' = [handles EXCEPT
                ![h] = BuddyHandle(i, g, alloc(NewSegment.free, size).block, size)]
    /\ UNCHANGED <<retain_idle_backing, dedicated, dedicated_generations, file_used, others>>

alloc_dedicated(h, size, available, os) ==
    /\ Reusable(size) = {}
    /\ LET a == Attempt(size, available, os)
           i == Lowest(NextDedicated)
           g == next_generation(dedicated_generations[i])
       IN  /\ a.dedicates
           /\ segments' = Remaining(a.gone) /\ Reclaims(size, a.gone)
           /\ dedicated' = [dedicated EXCEPT
                ![i] = [kind |-> "dedicated", generation |-> g, bytes |-> a.bytes]]
           /\ dedicated_generations' = [dedicated_generations EXCEPT ![i] = g]
           /\ shm_used' = a.held + a.bytes
           /\ pressured_for' = a.latch
           /\ handles' = [handles EXCEPT ![h] = DedicatedHandle(i, g, size)]
    /\ UNCHANGED <<generations, retain_idle_backing, file_used, others>>

(* alloc_handle spills to a file; try_alloc_shm reports the failure.       *)
spills(size, os) == file_used + size <= FileLimit /\ "file" \in os

alloc_file_spill(h, size, available, os, spill) ==
    /\ Reusable(size) = {}
    /\ LET a == Attempt(size, available, os) IN
         /\ ~a.expands /\ ~a.dedicates
         /\ segments' = Remaining(a.gone) /\ Reclaims(size, a.gone)
         /\ shm_used' = a.held
         /\ pressured_for' = a.latch
    /\ \/ /\ spill /\ spills(size, os)
          /\ file_used' = file_used + size
          /\ handles' = [handles EXCEPT ![h] = FileHandle(size)]
       \/ /\ ~(spill /\ spills(size, os))
          /\ UNCHANGED <<file_used, handles>>
    /\ UNCHANGED <<generations, retain_idle_backing, dedicated, dedicated_generations, others>>

alloc_handle(h, size) ==
    /\ handles[h] = None
    /\ \/ try_buddy_reuse(h, size)
       \/ \E available \in scene.available, os \in scene.granted :
            \/ expand_buddy(h, size, available, os)
            \/ alloc_dedicated(h, size, available, os)
            \/ \E spill \in BOOLEAN : alloc_file_spill(h, size, available, os, spill)
    /\ UNCHANGED scene

-----------------------------------------------------------------------------
(* The lowest free slots that prewarming up to count segments fills: all   *)
(* of them, or fewer when the budget, the slots or the system run out.     *)
prewarms(count, available, made) ==
    LET slots == NextSlots({})
        wanted == Lowest({count - Cardinality(Live), Cardinality(slots),
                          (ShmLimit - shm_used) \div data_size, made})
    IN  {i \in slots : /\ admits(pressured_for, available, data_size)
                       /\ Cardinality({j \in slots : j < i}) < wanted}

ensure_buddy_segments(count, available, made) ==
    /\ retain_idle_backing /\ Cardinality(Live) < count
    /\ LET new == prewarms(count, available, made) IN
         /\ segments' = [i \in Slots |-> IF i \in new THEN NewSegment ELSE segments[i]]
         /\ generations' = [i \in Slots |-> IF i \in new THEN next_generation(generations[i])
                                          ELSE generations[i]]
         /\ idle_since' = [i \in Slots |-> IF i \in new THEN "none" ELSE idle_since[i]]
         /\ shm_used' = shm_used + data_size * Cardinality(new)
    /\ pressured_for' = IF NextSlots({}) = {} THEN pressured_for
                        ELSE latch_after(pressured_for, available, data_size)
    /\ UNCHANGED <<retain_idle_backing, dedicated, dedicated_generations, file_used, others,
                   handles>>

Wrong_unretained == Live

unretained == Idle

set_idle_backing_retention(retain) ==
    /\ retain # retain_idle_backing
    /\ retain_idle_backing' = retain
    /\ LET gone == IF retain THEN {} ELSE unretained IN
         /\ segments' = Remaining(gone)
         /\ idle_since' = [i \in Slots |-> IF i \in gone THEN "none" ELSE idle_since[i]]
         /\ shm_used' = shm_used - data_size * Cardinality(gone)
    /\ UNCHANGED <<generations, dedicated, dedicated_generations, file_used, others,
                   pressured_for, handles>>

retires(s) == s.alloc_count = 0 /\ ~retain_idle_backing

free_buddy(h) ==
    /\ handles[h].kind = "buddy"
    /\ LET i == handles[h].seg_idx
           s == free_in(segments[i], handles[h].block)
       IN  /\ segments' = [segments EXCEPT ![i] = IF retires(s) THEN None ELSE s]
           /\ idle_since' = [idle_since EXCEPT
                ![i] = IF s.alloc_count # 0 THEN @ ELSE IF retires(s) THEN "none" ELSE "now"]
           /\ shm_used' = shm_used - (IF retires(s) THEN data_size ELSE 0)
    /\ UNCHANGED <<dedicated, file_used>>

Wrong_free_dedicated(h) ==
    /\ handles[h].kind = "dedicated"
    /\ dedicated' = [dedicated EXCEPT ![handles[h].seg_idx] = None]
    /\ shm_used' = shm_used - handles[h].len
    /\ UNCHANGED <<segments, idle_since, file_used>>

free_dedicated(h) ==
    /\ handles[h].kind = "dedicated"
    /\ dedicated' = [dedicated EXCEPT ![handles[h].seg_idx] = None]
    /\ shm_used' = shm_used - dedicated[handles[h].seg_idx].bytes
    /\ UNCHANGED <<segments, idle_since, file_used>>

drop_file(h) ==
    /\ handles[h].kind = "file"
    /\ file_used' = file_used - handles[h].len
    /\ UNCHANGED <<segments, idle_since, dedicated, shm_used>>

release_handle(h) ==
    /\ free_buddy(h) \/ free_dedicated(h) \/ drop_file(h)
    /\ handles' = [handles EXCEPT ![h] = None]
    /\ UNCHANGED <<scene, generations, retain_idle_backing, dedicated_generations, others,
                   pressured_for>>

(* Another owner of the same budget.                                       *)
other_charges(c) ==
    /\ c # others /\ shm_used - others + c <= ShmLimit
    /\ shm_used' = shm_used - others + c
    /\ others' = c
    /\ UNCHANGED <<segments, generations, idle_since, retain_idle_backing, dedicated,
                   dedicated_generations, file_used, pressured_for, handles>>

PoolMaintenance ==
    /\ \/ gc_buddy \/ decays
       \/ \E retain \in BOOLEAN : scene.switches /\ set_idle_backing_retention(retain)
       \/ \E count \in scene.prewarms, available \in scene.available, made \in 0 .. max_segments :
            ensure_buddy_segments(count, available, made)
       \/ \E c \in scene.charges : other_charges(c)
    /\ UNCHANGED scene

-----------------------------------------------------------------------------
BuddyHandles(i) == {h \in HandleIds : handles[h].kind = "buddy" /\ handles[h].seg_idx = i}

(* validate_generation never refuses a release: the backing of a live      *)
(* handle is mapped, under the generation the handle names.                *)
HandlesBacked ==
    \A h \in HandleIds :
        /\ handles[h].kind = "buddy" =>
             /\ segments[handles[h].seg_idx] # None
             /\ generations[handles[h].seg_idx] = handles[h].generation
        /\ handles[h].kind = "dedicated" =>
             /\ dedicated[handles[h].seg_idx] # None
             /\ dedicated[handles[h].seg_idx].generation = handles[h].generation

(* alloc hands out disjoint blocks and free gives back what it merges: in  *)
(* every segment the allocated and the free blocks do not overlap, a       *)
(* request holds its size, and whatever block no allocation touches can be *)
(* allocated whole again, so coalescing never falls behind.  The counters  *)
(* gc_buddy and stats go by are those of the blocks.                       *)
BlocksPartition ==
    \A i \in Live :
        LET taken == {handles[h].block : h \in BuddyHandles(i)} IN
        /\ Cardinality(taken) = Cardinality(BuddyHandles(i))
        /\ \A b, c \in taken \cup segments[i].free : b # c => ~Overlaps(b, c)
        /\ \A h \in BuddyHandles(i) : handles[h].len <= block_size(handles[h].block[1])
        /\ \A b \in Blocks : (\A c \in taken : ~Overlaps(b, c))
                             => \E c \in segments[i].free : Covers(c, b)
        /\ segments[i].alloc_count = Cardinality(BuddyHandles(i))
        /\ segments[i].free_bytes
             = SumFunctionOnSet([b \in Blocks |-> block_size(b[1])], segments[i].free)

(* Every backing holds exactly one reservation from before it is created   *)
(* until it is unmapped, on every path that creates, loses or retires one; *)
(* so the cells are exact, and never above their limits.                   *)
BudgetExact ==
    /\ shm_used = others + data_size * Cardinality(Live)
                  + SumFunctionOnSet([i \in LiveDedicated |-> dedicated[i].bytes], LiveDedicated)
    /\ file_used = SumFunctionOnSet([h \in HandleIds |-> IF handles[h].kind = "file"
                                              THEN handles[h].len ELSE 0], HandleIds)
    /\ shm_used <= ShmLimit /\ file_used <= FileLimit

(* A slot's backing is never mapped twice under one generation: the name a *)
(* late reader holds cannot come to mean another backing.                  *)
GenerationsAdvance ==
    [][/\ \A i \in Slots : /\ generations'[i] >= generations[i]
                           /\ segments[i] = None /\ segments'[i] # None
                              => generations'[i] > generations[i]
       /\ \A i \in DedicatedSlots : dedicated'[i] # None /\ dedicated'[i] # dedicated[i]
                              => dedicated'[i].generation > dedicated_generations[i]]_pool_vars
=============================================================================
