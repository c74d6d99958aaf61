------------------------ MODULE MCServerLifecycle ------------------------
EXTENDS ServerLifecycle

MC_Routes == {"r1", "r2", "r3"}
MC_NameOf == [r \in MC_Routes |-> IF r = "r3" THEN "m" ELSE "n"]

(* A call through two starts; a call among removals and terminal closing;  *)
(* two routes of one name and two removals; two routes of two names.       *)
MC_Scenes == {
    [routes |-> {"r1"}, calls |-> {"c"}, removals |-> {}, business |-> FALSE, starts |-> 2],
    [routes |-> {"r1"}, calls |-> {"c"}, removals |-> {"u1"}, business |-> TRUE, starts |-> 1],
    [routes |-> {"r1", "r2"}, calls |-> {}, removals |-> Removals, business |-> FALSE, starts |-> 1],
    [routes |-> {"r1", "r3"}, calls |-> {}, removals |-> {}, business |-> FALSE, starts |-> 2]}
=============================================================================
