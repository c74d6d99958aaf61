--------------------------- MODULE MCSharedMemory ---------------------------
(***************************************************************************)
(* SharedMemory on a small pool: two segments of four units, one dedicated *)
(* slot, three handles, and slots that retire after two generations.       *)
(***************************************************************************)
EXTENDS SharedMemory, TLC

All == {"buddy", "dedicated", "file"}

(* Every creation granted, nothing scarce but slots and generations.       *)
Plenty == [sizes |-> {1, 2, 4}, available |-> {40}, granted |-> {All}, charges |-> {0},
           switches |-> FALSE, prewarms |-> {}, publishes |-> FALSE]

(* Splitting, merging, reuse and the retention switch.                     *)
Blocked == [Plenty EXCEPT !.sizes = {1, 2, 3}, !.switches = TRUE]

(* Pressure, an exhausted budget and creations that fail.                  *)
Scarce == [Plenty EXCEPT !.sizes = {2, 4, 5}, !.available = {0, 9, 40},
                         !.granted = {All, {}, {"dedicated"}, {"file"}},
                         !.charges = {0, 4}, !.prewarms = {1, 2}]

(* A peer reads what the owner lends.                                      *)
Shared == [Plenty EXCEPT !.sizes = {2, 5}, !.publishes = TRUE]

MCScenes == {Blocked, Scarce, Shared}

Symmetry == Permutations(HandleIds)
=============================================================================
