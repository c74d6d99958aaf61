-------------------------- MODULE MCConnectionCore --------------------------
EXTENDS ConnectionCore

(* Bound: loans made and borrowed in a behaviour, in any mix.  Three let   *)
(* two loans overlap a borrow, and three borrows overflow a batch.         *)
ExchangeBound ==
    sequence + Cardinality({id \in RemoteIds : carriers[id] # "none"}) <= 3

(* The peer's ids are only compared for equality: it lends them in order.  *)
LentInOrder ==
    \A a, b \in RemoteIds : a < b /\ carriers[b] # "none" => carriers[a] # "none"
=============================================================================
