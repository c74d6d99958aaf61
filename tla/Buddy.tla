------------------------------- MODULE Buddy -------------------------------
(***************************************************************************)
(* Buddy allocation (core/foundation/c2-mem/src/alloc/buddy.rs, bitmap.rs) *)
(* on a segment's set of free blocks.  A block <<level, index>> is one bit *)
(* of the level's bitmap.                                                  *)
(***************************************************************************)
EXTENDS Integers, FiniteSets

CONSTANTS
    Levels,         \* num_levels - 1
    min_block

ASSUME BuddyAssumption == Levels \in Nat /\ min_block \in Nat \ {0}

Blocks == UNION {{l} \X (0 .. 2^l - 1) : l \in 0 .. Levels}

block_size(level) == min_block * 2^(Levels - level)
data_size == block_size(0)

Highest(S) == CHOOSE x \in S : \A y \in S : y <= x
Lowest(S) == CHOOSE x \in S : \A y \in S : x <= y

(* The deepest level whose blocks hold size bytes.                         *)
target_level(size) == Highest({l \in 0 .. Levels : size <= block_size(l)})

(* The level to split, and the first free block of it.                     *)
donors(free, size) == {b \in free : b[1] <= target_level(size)}
donor_level(free, size) == Highest({b[1] : b \in donors(free, size)})
alloc_one(free, level) == Lowest({b[2] : b \in {c \in free : c[1] = level}})

can_alloc(free, size) == size \in 1 .. data_size /\ donors(free, size) # {}

Descendant(index, from, to) == index * 2^(to - from)

alloc(free, size) ==
    LET target == target_level(size)
        donor == donor_level(free, size)
        index == alloc_one(free, donor)
    IN  [block |-> <<target, Descendant(index, donor, target)>>,
         free |-> (free \ {<<donor, index>>})
                    \cup {<<l, Descendant(index, donor, l) + 1>> : l \in donor + 1 .. target}]

Ancestor(b, level) == <<level, b[2] \div 2^(b[1] - level)>>
Sibling(b) == <<b[1], IF b[2] % 2 = 0 THEN b[2] + 1 ELSE b[2] - 1>>

Wrong_merges(free, b, level) == level >= b[1] - 1 /\
    \A l \in level + 1 .. b[1] : Sibling(Ancestor(b, l)) \in free

(* The loop of free: b merges up to level if every sibling on the way is   *)
(* free.                                                                   *)
merges(free, b, level) ==
    \A l \in level + 1 .. b[1] : Sibling(Ancestor(b, l)) \in free

free_block(free, b) ==
    LET top == Lowest({l \in 0 .. b[1] : merges(free, b, l)})
    IN  (free \ {Sibling(Ancestor(b, l)) : l \in top + 1 .. b[1]}) \cup {Ancestor(b, top)}

Covers(b, c) == b[1] <= c[1] /\ Ancestor(c, b[1]) = b
Overlaps(b, c) == Covers(b, c) \/ Covers(c, b)
=============================================================================
