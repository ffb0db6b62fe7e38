------------------------------- MODULE Routes -------------------------------
(***************************************************************************)
(* What SendPacket() relies on until Stop(): a table of routes in which an *)
(* open endpoint gets a key that its peer sends, and from which one that   *)
(* leaves takes all its own routes, once and for good.  With them may go   *)
(* routes of others, but only of keys that its peer sends, too.            *)
(***************************************************************************)
CONSTANTS Endpoint, Key, None,
          KeysOf   \* the keys that the peer of an endpoint sends

VARIABLES serving, \* Stop() has not begun to close the endpoints
          phase,   \* of an endpoint: unborn, open or gone
          route    \* of a key: an endpoint or None

Init == /\ serving = TRUE
        /\ phase = [p \in Endpoint |-> "unborn"]
        /\ route = [k \in Key |-> None]

Join(p) ==
    /\ phase[p] = "unborn" /\ phase' = [phase EXCEPT ![p] = "open"]
    /\ UNCHANGED route

Claim(p, k) ==
    /\ phase[p] = "open" /\ route' = [route EXCEPT ![k] = p]
    /\ UNCHANGED phase

Leave(p) ==
    /\ phase[p] # "gone" /\ phase' = [phase EXCEPT ![p] = "gone"]
    /\ \E lost \in SUBSET KeysOf[p] :
          /\ \A k \in Key : route[k] = p => k \in lost
          /\ route' = [k \in Key |-> IF k \in lost THEN None ELSE route[k]]

Serve ==
    /\ serving /\ serving'
    /\ \E p \in Endpoint : Join(p) \/ Leave(p) \/ \E k \in KeysOf[p] : Claim(p, k)

\* From here on endpoints go in any order, also under their users.
Stop == ~serving' /\ (serving => UNCHANGED <<phase, route>>)

Next == Serve \/ Stop

Spec == Init /\ [][Next]_<<serving, phase, route>>
=============================================================================
