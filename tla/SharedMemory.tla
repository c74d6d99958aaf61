---------------------------- MODULE SharedMemory ----------------------------
(***************************************************************************)
(* An owner's pool and the peer that reads what it publishes: the owner    *)
(* lends an allocation with a descriptor on the connection's FIFO stream,  *)
(* the peer maps the backing by name and reads it through a PeerRead       *)
(* (core/foundation/c2-mem/src/peer.rs), and the owner releases the        *)
(* allocation once the peer has returned the loan.  Each connection has    *)
(* one cache; the loan protocol itself is the subject of ConnectionCore.   *)
(***************************************************************************)
EXTENDS MemPool, Sequences

VARIABLES
    loan,       \* of a handle: "local", "lent" or "returned"
    wire,       \* descriptors under way
    cache,      \* the peer's entry for each slot of either kind
    read        \* of a lent handle: what the peer's PeerRead pins

vars == <<pool_vars, loan, wire, cache, read>>

Keys == ({"buddy"} \X Slots) \cup ({"dedicated"} \X DedicatedSlots)
Unmapped == 0       \* generation 0 names no backing

Init ==
    /\ PoolInit
    /\ loan = [h \in HandleIds |-> "local"]
    /\ wire = <<>>
    /\ cache = [k \in Keys |-> [generation |-> 0, mapping |-> Unmapped, reads |-> 0,
                                idle |-> FALSE]]
    /\ read = [h \in HandleIds |-> None]

-----------------------------------------------------------------------------
Descriptor(h) == [h |-> h, key |-> <<handles[h].kind, handles[h].seg_idx>>,
                  generation |-> handles[h].generation]

(* ShmRegion::open finds the object while the owner has it mapped.         *)
Exists(key, generation) ==
    IF key[1] = "buddy"
    THEN segments[key[2]] # None /\ generations[key[2]] = generation
    ELSE dedicated[key[2]] # None /\ dedicated[key[2]].generation = generation

publish(h) ==
    /\ scene.publishes /\ handles[h].kind \in {"buddy", "dedicated"} /\ loan[h] = "local"
    /\ loan' = [loan EXCEPT ![h] = "lent"]
    /\ wire' = Append(wire, Descriptor(h))
    /\ UNCHANGED <<pool_vars, cache, read>>

stale(e, generation) == generation < e.generation

Wrong_current(e, generation) == e.mapping # Unmapped

current(e, generation) == generation = e.generation /\ e.mapping # Unmapped

(* The entry an admission reads through, remapped if it has to be; its     *)
(* mapping is Unmapped when the descriptor is refused or cannot be opened. *)
mapped_for(key, generation, opens) ==
    LET e == cache[key] IN
    IF stale(e, generation) THEN [e EXCEPT !.mapping = Unmapped]
    ELSE IF current(e, generation) THEN e
    ELSE [generation |-> generation, reads |-> 0, idle |-> TRUE,
          mapping |-> IF opens /\ Exists(key, generation) THEN generation ELSE Unmapped]

(* A refused admission pins nothing and ends the read interval at once.    *)
PeerMappingCache_admit(opens) ==
    /\ wire # <<>>
    /\ LET d == Head(wire)
           e == mapped_for(d.key, d.generation, opens)
       IN  \/ /\ e.mapping = Unmapped
              /\ loan' = [loan EXCEPT ![d.h] = "returned"]
              /\ UNCHANGED <<cache, read>>
           \/ /\ e.mapping # Unmapped
              /\ read' = [read EXCEPT ![d.h] = [key |-> d.key, generation |-> d.generation,
                                                mapping |-> e.mapping]]
              /\ cache' = [cache EXCEPT ![d.key] =
                             [e EXCEPT !.reads = e.reads + 1, !.idle = FALSE]]
              /\ UNCHANGED loan
    /\ wire' = Tail(wire)
    /\ UNCHANGED pool_vars

counted(r) == cache[r.key].generation = r.generation /\ cache[r.key].mapping = r.mapping

entry_after_drop(k, e) ==
    IF e.reads > 1 THEN [e EXCEPT !.reads = @ - 1]
    ELSE [e EXCEPT !.reads = 0, !.mapping = IF k[1] = "dedicated" THEN Unmapped ELSE @,
                   !.idle = k[1] = "buddy"]

(* PeerRead::drop: the read ends before its loan is returned.              *)
PeerRead_drop(h) ==
    /\ read[h] # None
    /\ LET r == read[h] IN
         cache' = IF counted(r) THEN [cache EXCEPT ![r.key] = entry_after_drop(r.key, @)]
                  ELSE cache
    /\ read' = [read EXCEPT ![h] = None]
    /\ loan' = [loan EXCEPT ![h] = "returned"]
    /\ UNCHANGED <<pool_vars, wire>>

Wrong_gc_retires(k) == k[1] = "buddy" /\ cache[k].mapping # Unmapped

gc_retires(k) ==
    k[1] = "buddy" /\ cache[k].reads = 0 /\ cache[k].idle /\ cache[k].mapping # Unmapped

(* The idle window of any set of retirable views may be over.              *)
gc_idle ==
    /\ \E K \in SUBSET {k \in Keys : gc_retires(k)} :
         /\ K # {}
         /\ cache' = [k \in Keys |-> IF k \in K THEN [cache[k] EXCEPT !.mapping = Unmapped,
                                                                      !.idle = FALSE]
                                     ELSE cache[k]]
    /\ UNCHANGED <<pool_vars, loan, wire, read>>

Wrong_may_release(h) == handles[h] # None /\ (loan[h] = "lent" => read[h] = None)

(* The owner drops a handle it never lent, or one whose loan came back.    *)
may_release(h) == handles[h] # None /\ loan[h] \in {"local", "returned"}

release(h) ==
    /\ may_release(h)
    /\ release_handle(h)
    /\ loan' = [loan EXCEPT ![h] = "local"]
    /\ UNCHANGED <<wire, cache, read>>

Next ==
    \/ \E h \in HandleIds, size \in scene.sizes :
         alloc_handle(h, size) /\ UNCHANGED <<loan, wire, cache, read>>
    \/ PoolMaintenance /\ UNCHANGED <<loan, wire, cache, read>>
    \/ \E h \in HandleIds : publish(h) \/ PeerRead_drop(h) \/ release(h)
    \/ \E opens \in BOOLEAN : PeerMappingCache_admit(opens)
    \/ gc_idle

Spec == Init /\ [][Next]_vars

-----------------------------------------------------------------------------
Readers(k) == {h \in HandleIds : read[h] # None /\ read[h].key = k}

(* However the owner collects, re-creates and re-uses slots, a descriptor  *)
(* that reaches the peer in order is never refused by admit as stale, and  *)
(* its backing is there to be opened.                                      *)
DescriptorsAdmissible ==
    \A i \in DOMAIN wire :
        /\ ~stale(cache[wire[i].key], wire[i].generation)
        /\ Exists(wire[i].key, wire[i].generation)

(* A PeerRead is through a mapping of the backing its descriptor named;    *)
(* until it is dropped the owner neither unmaps that backing nor gives up  *)
(* the allocation that was lent.                                           *)
ReadsSeeTheLoan ==
    \A h \in HandleIds : read[h] # None =>
        /\ read[h].mapping = read[h].generation
        /\ Exists(read[h].key, read[h].generation)
        /\ handles[h] # None
        /\ read[h].key = Descriptor(h).key /\ read[h].generation = Descriptor(h).generation

(* The cache counts exactly the reads of its mapping, and no read is of a  *)
(* mapping it has replaced, so gc_idle never closes a view in use and a    *)
(* dedicated view goes with its last read.                                 *)
ReadsCounted ==
    \A k \in Keys :
        /\ cache[k].reads = Cardinality(Readers(k))
        /\ \A h \in Readers(k) : counted(read[h])
        /\ cache[k].reads > 0 => ~cache[k].idle
        /\ k[1] = "dedicated" /\ cache[k].reads = 0 => cache[k].mapping = Unmapped
=============================================================================
