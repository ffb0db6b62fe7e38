---------------------------- MODULE MCEndpoints ----------------------------
(***************************************************************************)
(* Instances of Endpoints for TLC: one peer that connects twice, and two   *)
(* peers of which one sends for the other, too.                            *)
(***************************************************************************)
EXTENDS Endpoints, TLC

CONSTANTS p1, p2, k1, k2

\* A peer that connects again sends with the keys of its first connection.
SharedKey == [p \in Endpoint |-> Key]

\* Two peers with a key in common; one has another to itself.
CommonKey == p1 :> {k1, k2} @@ p2 :> {k1}

\* Two sockets that are open together, and the number of the first used again.
OwnNumber == {p1 :> 1 @@ p2 :> 2}
AnyNumber == OwnNumber \cup {[p \in Endpoint |-> 1]}

\* The same, closed under Symmetry.
EveryNumber == [Endpoint -> Number]

\* No run with symmetry has a liveness property.
Symmetry == Permutations({p1, p2})
=============================================================================
