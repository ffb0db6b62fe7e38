--------------------------- MODULE EndpointsProofs ---------------------------
(***************************************************************************)
(* Proofs about module Endpoints, for any number of connections, keys,     *)
(* numbers and senders, every mode of sending, with sends that fail and    *)
(* with Stop().  TypeCorrect, ClosedOnce and RoutesKnown have no more      *)
(* assumptions; NoUseAfterDelete and ImplementsRoutes need the worker's    *)
(* pause, and TablesAreLive that no data comes early, too.                 *)
(***************************************************************************)
EXTENDS Endpoints, SequenceTheorems, FiniteSetTheorems, TLAPS

-----------------------------------------------------------------------------
(* Types.                                                                  *)

\* Where each thread has an endpoint, it is one.
Named ==
    /\ acc.pc # "idle" => acc.p \in Endpoint
    /\ \A p \in Endpoint : io[p].pc \in {"list", "route"} => io[p].key \in Key
    /\ \A s \in Sender : snd[s].pc \in {"close", "enque"} => snd[s].p \in Endpoint
    /\ \A c \in Closer : clo[c].pc # "idle" => clo[c].p \in Endpoint

Typed == TypeOK /\ Named

CloserState == [pc : {"idle", "unreg", "nm", "keys", "routes", "list", "delete"},
                p : Endpoint \cup {None}, keys : SUBSET Key]
SenderState == [pc : {"idle", "next", "close", "enque"},
                p : Endpoint \cup {None}, todo : SUBSET Endpoint]

CloTyped ==
    /\ clo \in [Closer -> CloserState]
    /\ \A c \in Closer : clo[c].pc # "idle" => clo[c].p \in Endpoint

SndTyped ==
    /\ snd \in [Sender -> SenderState]
    /\ \A s \in Sender : snd[s].pc \in {"close", "enque"} => snd[s].p \in Endpoint

\* A thread that moves to a state of the type leaves the others as they are.
LEMMA CloserMoves ==
    ASSUME Typed, NEW c \in Closer, NEW r \in CloserState, r.pc # "idle" => r.p \in Endpoint,
           clo' = [clo EXCEPT ![c] = r]
    PROVE  CloTyped'
<1>1. CloTyped
      BY DEF Typed, TypeOK, Named, CloTyped, CloserState
<1> QED  BY <1>1 DEF CloTyped

LEMMA StartsClosing ==
    ASSUME Typed, NEW c \in Closer, NEW p \in Endpoint, Close(c, p)
    PROVE  CloTyped'
<1>1. [pc |-> "unreg", p |-> p, keys |-> {}] \in CloserState
      BY DEF CloserState
<1> QED  BY <1>1, CloserMoves DEF Close

LEMMA SenderMoves ==
    ASSUME Typed, NEW s \in Sender, NEW r \in SenderState,
           r.pc \in {"close", "enque"} => r.p \in Endpoint,
           snd' = [snd EXCEPT ![s] = r]
    PROVE  SndTyped'
<1>1. SndTyped
      BY DEF Typed, TypeOK, Named, SndTyped, SenderState
<1> QED  BY <1>1 DEF SndTyped

LEMMA DequeTypes ==
    ASSUME NEW q \in Seq(Endpoint)
    PROVE  /\ \A p \in Endpoint : Append(q, p) \in Seq(Endpoint)
           /\ q # <<>> => Tail(q) \in Seq(Endpoint) /\ Head(q) \in Endpoint
<1> QED  BY SMT

LEMMA InitTyped == Init => Typed
<1> SUFFICES ASSUME Init PROVE Typed
    OBVIOUS
<1>1. TypeOK
      <2>1. dqClose \in Seq(Endpoint)
            BY DEF Init
      <2>2. lock \in [Mutex -> Closer \cup Sender \cup {None}]
            BY DEF Init
      <2>3. clo \in [Closer -> [pc : {"idle", "unreg", "nm", "keys", "routes", "list", "delete"},
                               p : Endpoint \cup {None}, keys : SUBSET Key]]
            BY DEF Init
      <2>4. /\ m_nBroadcast \in 0 .. 2 /\ sSocket \in [Endpoint -> Number]
            /\ mapNm \in [Number -> Endpoint \cup {None}]
            BY EndpointsAssumption DEF Init
      <2> QED  BY <2>1, <2>2, <2>3, <2>4 DEF Init, TypeOK
<1>2. Named
      BY DEF Init, Named
<1> QED  BY <1>1, <1>2 DEF Typed

LEMMA NextTyped ==
    ASSUME Typed, [Next]_vars
    PROVE  Typed'
<1>0. m_nBroadcast' = m_nBroadcast /\ sSocket' = sSocket
      BY DEF Next, vars
<1> USE <1>0 DEF Typed, tables, ends, Io
<1>1. ASSUME NEW p \in Endpoint, Accept(p) PROVE Typed'
      BY <1>1 DEF Accept, Register, TypeOK, Named
<1>2. ASSUME NEW p \in Endpoint, AcceptRefused(p) PROVE Typed'
      BY <1>2 DEF AcceptRefused, TypeOK, Named
<1>3. ASSUME AcceptMap PROVE Typed'
      BY <1>3 DEF AcceptMap, TypeOK, Named
<1>4. ASSUME AcceptList PROVE Typed'
      BY <1>4 DEF AcceptList, TypeOK, Named
<1>5. ASSUME AcceptNm PROVE Typed'
      BY <1>5 DEF AcceptNm, TypeOK, Named
<1>6. ASSUME NEW p \in Endpoint, Active(p) PROVE Typed'
      BY <1>6 DEF Active, TypeOK, Named
<1>7. ASSUME NEW p \in Endpoint, Recv(p) PROVE Typed'
      BY <1>7 DEF Recv, TypeOK, Named
<1>8. ASSUME NEW p \in Endpoint, NEW k \in KeysOf[p], Packet(p, k) PROVE Typed'
      <2>1. k \in Key
            BY EndpointsAssumption
      <2> QED  BY <1>8, <2>1 DEF Packet, TypeOK, Named
<1>9. ASSUME NEW p \in Endpoint, FirstList(p) PROVE Typed'
      <2>1. io' = [io EXCEPT ![p].pc = "route"] /\ io[p].pc = "list" /\ io[p].key \in Key
            BY <1>9 DEF FirstList, Named
      <2>2. /\ lstEpAccepted' \subseteq Endpoint
            /\ io' \in [Endpoint -> [pc : {"idle", "ready", "on", "list", "route", "close",
                                           "enque", "hello", "enquehello", "again"},
                                     key : Key \cup {None}]]
            BY <1>9, <2>1 DEF FirstList, TypeOK
      <2>3. TypeOK'
            BY <1>9, <2>2 DEF FirstList, TypeOK
      <2>4. \A q \in Endpoint : io'[q].pc \in {"list", "route"} => io'[q].key \in Key
            BY <2>1 DEF TypeOK, Named
      <2>5. UNCHANGED <<acc, snd, clo>>
            BY <1>9 DEF FirstList
      <2> QED  BY <2>3, <2>4, <2>5 DEF Named
<1>10. ASSUME NEW p \in Endpoint, FirstRoute(p) PROVE Typed'
      BY <1>10 DEF FirstRoute, RemoveKey, TypeOK, Named
<1>11. ASSUME NEW p \in Endpoint, HelloFails(p) PROVE Typed'
      BY <1>11 DEF HelloFails, TypeOK, Named
<1>12. ASSUME NEW p \in Endpoint, RecvReqClose(p) PROVE Typed'
      BY <1>12 DEF RecvReqClose, UnRegisterAio, Claimed, After, TypeOK, Named
<1>13. ASSUME NEW p \in Endpoint, RecvEnque(p) PROVE Typed'
      BY <1>13, DequeTypes DEF RecvEnque, Enque, After, TypeOK, Named
<1>14. ASSUME NEW p \in Endpoint, Again(p) PROVE Typed'
      BY <1>14 DEF Again, Register, TypeOK, Named
<1>15. ASSUME NEW s \in Sender, NEW k \in Key, SendPacket(s, k) PROVE Typed'
      BY <1>15, EndpointsAssumption DEF SendPacket, Targets, SendLock, Mutex, TypeOK, Named
<1>16. ASSUME NEW s \in Sender, NEW p \in Endpoint, Send(s, p) PROVE Typed'
      BY <1>16 DEF Send, Rest, TypeOK, Named
<1>17. ASSUME NEW s \in Sender, NEW p \in Endpoint, SendError(s, p) PROVE Typed'
      BY <1>17 DEF SendError, Rest, TypeOK, Named
<1>18. ASSUME NEW s \in Sender, SendReqClose(s) PROVE Typed'
      <2> DEFINE q == snd[s].p
                 r == IF Claimed(q) THEN [snd[s] EXCEPT !.pc = "enque"]
                      ELSE [snd[s] EXCEPT !.pc = "next", !.p = None]
      <2>1. snd[s] \in [pc : {"idle", "next", "close", "enque"},
                        p : Endpoint \cup {None}, todo : SUBSET Endpoint]
            BY DEF TypeOK
      <2>2. q \in Endpoint
            BY <1>18 DEF SendReqClose, Named
      <2>3. /\ r \in [pc : {"idle", "next", "close", "enque"},
                      p : Endpoint \cup {None}, todo : SUBSET Endpoint]
            /\ r.pc \in {"enque", "next"}
            /\ r.pc = "enque" => r.p \in Endpoint
            <3>1. CASE Claimed(q)  BY <2>1, <2>2, <3>1
            <3>2. CASE ~Claimed(q)  BY <2>1, <3>2
            <3> QED  BY <3>1, <3>2
      <2>4. snd' = [snd EXCEPT ![s] = r]
            BY <1>18 DEF SendReqClose
      <2> HIDE DEF q, r
      <2>5. snd' \in [Sender -> [pc : {"idle", "next", "close", "enque"},
                        p : Endpoint \cup {None}, todo : SUBSET Endpoint]]
            BY <2>3, <2>4 DEF TypeOK
      <2>6. \A t \in Sender : snd'[t].pc \in {"close", "enque"} => snd'[t].p \in Endpoint
            BY <2>3, <2>4 DEF TypeOK, Named
      <2> QED  BY <1>18, <2>5, <2>6 DEF SendReqClose, UnRegisterAio, TypeOK, Named
<1>19. ASSUME NEW s \in Sender, SendEnque(s) PROVE Typed'
      <2> DEFINE r == [snd[s] EXCEPT !.pc = "next", !.p = None]
      <2>1. /\ r \in [pc : {"idle", "next", "close", "enque"},
                      p : Endpoint \cup {None}, todo : SUBSET Endpoint]
            /\ r.pc = "next"
            <3>1. snd[s] \in [pc : {"idle", "next", "close", "enque"},
                               p : Endpoint \cup {None}, todo : SUBSET Endpoint]
                  BY DEF TypeOK
            <3> QED  BY <3>1
      <2>2. snd' = [snd EXCEPT ![s] = r]
            BY <1>19 DEF SendEnque
      <2>3. dqClose' \in Seq(Endpoint)
            BY <1>19, DequeTypes DEF SendEnque, Enque, TypeOK, Named
      <2> HIDE DEF r
      <2> QED  BY <1>19, <2>1, <2>2, <2>3 DEF SendEnque, Enque, TypeOK, Named
<1>20. ASSUME NEW s \in Sender, SendDone(s) PROVE Typed'
      <2> DEFINE r == [snd[s] EXCEPT !.pc = "idle"]
      <2>1. r \in SenderState /\ r.pc = "idle" /\ snd' = [snd EXCEPT ![s] = r]
            BY <1>20 DEF SendDone, TypeOK, SenderState
      <2> HIDE DEF r
      <2>2. SndTyped'
            BY <2>1, SenderMoves
      <2>3. lock' \in [Mutex -> Closer \cup Sender \cup {None}]
            BY <1>20 DEF SendDone, Unlock, TypeOK
      <2> QED  BY <1>20, <2>2, <2>3 DEF SendDone, TypeOK, Named, SndTyped, SenderState
<1>21. ASSUME NEW c \in Closer, CloseStep(c) PROVE Typed'
      <2>1. CASE UnRegister(c)
            <3> DEFINE r == [clo[c] EXCEPT !.pc = "nm"]
            <3>1. /\ r \in CloserState /\ r.p = clo[c].p /\ clo[c].p \in Endpoint
                  /\ clo' = [clo EXCEPT ![c] = r]
                  BY <2>1 DEF UnRegister, TypeOK, Named, CloserState
            <3> HIDE DEF r
            <3>2. CloTyped'
                  BY <3>1, CloserMoves
            <3> QED  BY <2>1, <3>2 DEF UnRegister, TypeOK, Named, CloTyped, CloserState
      <2>2. CASE RemoveNm(c)
            <3> DEFINE r == [clo[c] EXCEPT !.pc = "keys"]
            <3>1. /\ r \in CloserState /\ r.p = clo[c].p /\ clo[c].p \in Endpoint
                  /\ clo' = [clo EXCEPT ![c] = r]
                  BY <2>2 DEF RemoveNm, TypeOK, Named, CloserState
            <3> HIDE DEF r
            <3>2. CloTyped'
                  BY <3>1, CloserMoves
            <3> QED  BY <2>2, <3>2 DEF RemoveNm, TypeOK, Named, CloTyped, CloserState
      <2>3. CASE CopyKeys(c)
            <3> DEFINE q == clo[c].p
                       w == IF lstKeys[q] = {} THEN "list" ELSE "routes"
                       r == [clo[c] EXCEPT !.pc = w, !.keys = lstKeys[q]]
            <3>1. q \in Endpoint /\ lstKeys[q] \in SUBSET Key /\ clo[c] \in CloserState
                  BY <2>3 DEF CopyKeys, TypeOK, Named, CloserState
            <3>2. w \in {"list", "routes"}
                  OBVIOUS
            <3>3. clo' = [clo EXCEPT ![c] = r]
                  BY <2>3 DEF CopyKeys
            <3> HIDE DEF w
            <3>4. r \in CloserState /\ r.p = q
                  BY <3>1, <3>2 DEF CloserState
            <3> HIDE DEF q, r
            <3>5. CloTyped'
                  BY <3>1, <3>3, <3>4, CloserMoves
            <3> QED  BY <2>3, <3>5 DEF CopyKeys, TypeOK, Named, CloTyped, CloserState
      <2>4. CASE RemoveRoutes(c)
            <3> DEFINE w == IF \E k \in clo[c].keys : mapEpNormal[k] # None THEN "delete" ELSE "list"
                       r == [clo[c] EXCEPT !.pc = w]
            <3>1. /\ clo[c] \in CloserState /\ clo[c].p \in Endpoint
                  /\ clo' = [clo EXCEPT ![c] = r]
                  BY <2>4 DEF RemoveRoutes, TypeOK, Named, CloserState
            <3>2. w \in {"list", "delete"}
                  OBVIOUS
            <3> HIDE DEF w
            <3>3. r \in CloserState /\ r.p = clo[c].p
                  BY <3>1, <3>2 DEF CloserState
            <3> HIDE DEF r
            <3>4. CloTyped'
                  BY <3>1, <3>3, CloserMoves
            <3>5. mapEpNormal' \in [Key -> Endpoint \cup {None}]
                  BY <2>4 DEF RemoveRoutes, Erased, TypeOK
            <3> QED  BY <2>4, <3>4, <3>5 DEF RemoveRoutes, TypeOK, Named, CloTyped, CloserState
      <2>5. CASE RemoveAccepted(c)
            <3> DEFINE r == [clo[c] EXCEPT !.pc = "delete"]
            <3>1. /\ r \in CloserState /\ r.p = clo[c].p /\ clo[c].p \in Endpoint
                  /\ clo' = [clo EXCEPT ![c] = r]
                  BY <2>5 DEF RemoveAccepted, TypeOK, Named, CloserState
            <3> HIDE DEF r
            <3>2. CloTyped'
                  BY <3>1, CloserMoves
            <3> QED  BY <2>5, <3>2 DEF RemoveAccepted, TypeOK, Named, CloTyped, CloserState
      <2>6. CASE Delete(c)
            <3> DEFINE r == [pc |-> "idle", p |-> None, keys |-> {}]
            <3>1. r \in CloserState /\ r.pc = "idle" /\ clo' = [clo EXCEPT ![c] = r]
                  BY <2>6 DEF Delete, CloserState
            <3> HIDE DEF r
            <3>2. CloTyped'
                  BY <3>1, CloserMoves
            <3> QED  BY <2>6, <3>2 DEF Delete, TypeOK, Named, CloTyped, CloserState
      <2> QED  BY <1>21, <2>1, <2>2, <2>3, <2>4, <2>5, <2>6 DEF CloseStep
<1>22. ASSUME WorkLoop \/ WorkWait \/ WorkNext PROVE Typed'
      BY <1>22 DEF WorkLoop, WorkWait, WorkNext, Work, TypeOK, Named
<1>23. ASSUME WorkCheck PROVE Typed'
      <2>1. dqClose' \in Seq(Endpoint)
            BY <1>23, DequeTypes DEF WorkCheck, TypeOK
      <2>2. UNCHANGED clo \/ \E p \in Endpoint : Close(worker, p)
            BY <1>23, DequeTypes DEF WorkCheck, TypeOK
      <2>3. CloTyped'
            <3>1. CASE UNCHANGED clo
                  BY <3>1 DEF TypeOK, Named, CloTyped, CloserState
            <3>2. ASSUME NEW p \in Endpoint, Close(worker, p) PROVE CloTyped'
                  BY <3>2, StartsClosing DEF Closer
            <3> QED  BY <2>2, <3>1, <3>2
      <2> QED  BY <1>23, <2>1, <2>3 DEF WorkCheck, Work, TypeOK, Named, CloTyped, CloserState
<1>24. ASSUME WorkDrain PROVE Typed'
      <2>1. dqClose' \in Seq(Endpoint)
            BY <1>24, DequeTypes DEF WorkDrain, TypeOK
      <2>2. UNCHANGED clo \/ \E p \in Endpoint : Close(worker, p)
            BY <1>24, DequeTypes DEF WorkDrain, TypeOK
      <2>3. CloTyped'
            <3>1. CASE UNCHANGED clo
                  BY <3>1 DEF TypeOK, Named, CloTyped, CloserState
            <3>2. ASSUME NEW p \in Endpoint, Close(worker, p) PROVE CloTyped'
                  BY <3>2, StartsClosing DEF Closer
            <3> QED  BY <2>2, <3>1, <3>2
      <2> QED  BY <1>24, <2>1, <2>3 DEF WorkDrain, Work, TypeOK, Named, CloTyped, CloserState
<1>25. ASSUME StopListener \/ StopLock \/ StopClear PROVE Typed'
      BY <1>25 DEF StopListener, StopLock, StopClear, Unlock, Mutex, Closer, TypeOK, Named
<1>26. ASSUME NEW p \in Endpoint, StopClose(p) PROVE Typed'
      <2>1. CloTyped'
            BY <1>26, StartsClosing DEF StopClose, Closer
      <2> QED  BY <1>26, <2>1 DEF StopClose, TypeOK, Named, CloTyped, CloserState
<1>27. ASSUME StopEndThread \/ StopSignal \/ StopJoined PROVE Typed'
      BY <1>27 DEF StopEndThread, StopSignal, StopJoined, Work, TypeOK, Named
<1>28. ASSUME NEW p \in Endpoint, HangUp(p) PROVE Typed'
      BY <1>28 DEF HangUp, TypeOK, Named
<1>29. ASSUME UNCHANGED vars PROVE Typed'
      BY <1>29 DEF vars, moving, TypeOK, Named
<1> QED  BY <1>1, <1>2, <1>3, <1>4, <1>5, <1>6, <1>7, <1>8, <1>9, <1>10, <1>11, <1>12, <1>13,
            <1>14, <1>15, <1>16, <1>17, <1>18, <1>19, <1>20, <1>21, <1>22, <1>23, <1>24,
            <1>25, <1>26, <1>27, <1>28, <1>29
         DEF Next, Listener, IoThread, IoStep, SenderThread, WorkerThread, Stopping, Closer

\* Every variable keeps its type.
THEOREM TypeCorrect == Spec => []TypeOK
<1>1. Spec => []Typed
      BY InitTyped, NextTyped, PTL DEF Spec
<1> QED  BY <1>1, PTL DEF Typed

-----------------------------------------------------------------------------
(* One owner.  An endpoint waits in the deque, or is with a selector       *)
(* thread or a sender between ReqClose() and Enque(), or with the worker.  *)

Queued(p) == \E i \in DOMAIN dqClose : dqClose[i] = p
Reading(p) == io[p].pc \in {"enque", "enquehello"}
Sending(s, p) == snd[s].pc = "enque" /\ snd[s].p = p
Working(p) == clo[worker].pc # "idle" /\ clo[worker].p = p
Taken(p) == Queued(p) \/ Reading(p) \/ (\E s \in Sender : Sending(s, p)) \/ Working(p)

\* Nobody has an endpoint twice, no two have the same.
Apart ==
    /\ \A i, j \in DOMAIN dqClose : dqClose[i] = dqClose[j] => i = j
    /\ \A p \in Endpoint :
          /\ p \in mapRegisted => ~Taken(p)
          /\ Queued(p) => ~Reading(p) /\ ~Working(p) /\ \A s \in Sender : ~Sending(s, p)
          /\ Reading(p) => ~Working(p) /\ \A s \in Sender : ~Sending(s, p)
          /\ \A s \in Sender : Sending(s, p) => /\ ~Working(p)
                                                /\ \A t \in Sender : Sending(t, p) => s = t

\* What is owned lives, and Stop() deletes under m_csComm what the table has.
Alive ==
    /\ \A p \in Endpoint : Taken(p) => stage[p] = "live"
    /\ \A p \in mapRegisted : stage[p] = "live" \/ (stage[p] = "deleted" /\ stop = "closing")
    /\ acc.pc = "map" => stage[acc.p] = "live" /\ acc.p \notin mapRegisted /\ ~Taken(acc.p)
    /\ stop = "closing" => lock["csComm"] = stopper
    /\ clo[stopper].pc # "idle" => /\ stop = "closing"
                                   /\ clo[stopper].p \in mapRegisted
                                   /\ stage[clo[stopper].p] = "live"

Owned == Typed /\ Apart /\ Alive

LEMMA InitOwned == Init => Owned
<1> SUFFICES ASSUME Init PROVE Owned
    OBVIOUS
<1>1. /\ mapRegisted = {} /\ dqClose = <<>> /\ acc.pc = "idle" /\ stop = "running"
      /\ \A p \in Endpoint : io[p].pc = "idle"
      /\ \A s \in Sender : snd[s].pc = "idle"
      /\ clo[worker].pc = "idle" /\ clo[stopper].pc = "idle"
      BY DEF Init, Closer
<1>2. \A p \in Endpoint : ~Queued(p) /\ ~Reading(p) /\ ~Working(p)
                              /\ \A s \in Sender : ~Sending(s, p)
      BY <1>1 DEF Queued, Reading, Sending, Working
<1>3. Apart
      BY <1>1, <1>2 DEF Apart, Taken
<1>4. Alive
      BY <1>1, <1>2 DEF Alive, Taken
<1> QED  BY <1>3, <1>4, InitTyped DEF Owned

\* What Io() says of the thread of p and of the others.
LEMMA IoMoves ==
    ASSUME Typed, NEW p \in Endpoint, NEW pc, Io(p, pc)
    PROVE  /\ io'[p].pc = pc /\ io'[p].key = io[p].key
           /\ \A q \in Endpoint \ {p} : io'[q] = io[q]
BY DEF Io, Typed, TypeOK

\* A closing thread that is not through yet keeps its endpoint.
LEMMA CloserWalks ==
    ASSUME Typed, NEW c \in Closer,
           \/ UnRegister(c) \/ RemoveNm(c) \/ CopyKeys(c) \/ RemoveRoutes(c) \/ RemoveAccepted(c)
    PROVE  /\ clo[c].pc # "idle" /\ clo'[c].pc # "idle" /\ clo'[c].p = clo[c].p
           /\ \A d \in Closer \ {c} : clo'[d] = clo[d]
<1>1. CASE UnRegister(c) \/ RemoveNm(c)
      BY <1>1 DEF UnRegister, RemoveNm, Typed, TypeOK
<1>2. CASE CopyKeys(c)
      <2>1. clo' = [clo EXCEPT ![c] =
                       [@ EXCEPT !.pc = IF lstKeys[clo[c].p] = {} THEN "list" ELSE "routes",
                                 !.keys = lstKeys[clo[c].p]]]
            /\ clo[c].pc = "keys"
            BY <1>2 DEF CopyKeys
      <2> QED  BY <2>1 DEF Typed, TypeOK
<1>3. CASE RemoveRoutes(c)
      BY <1>3 DEF RemoveRoutes, Typed, TypeOK
<1>4. CASE RemoveAccepted(c)
      BY <1>4 DEF RemoveAccepted, Typed, TypeOK
<1> QED  BY <1>1, <1>2, <1>3, <1>4

\* What waits in the deque after one comes and after the first one goes.
LEMMA AppendQueues ==
    ASSUME dqClose \in Seq(Endpoint), NEW q \in Endpoint, dqClose' = Append(dqClose, q)
    PROVE  \A p \in Endpoint : Queued(p)' <=> Queued(p) \/ p = q
<1>1. /\ DOMAIN dqClose' = 1 .. Len(dqClose) + 1 /\ DOMAIN dqClose = 1 .. Len(dqClose)
      /\ Len(dqClose) \in Nat
      /\ \A i \in 1 .. Len(dqClose) : dqClose'[i] = dqClose[i]
      /\ dqClose'[Len(dqClose) + 1] = q
      OBVIOUS
<1> QED  BY <1>1 DEF Queued

LEMMA TailQueues ==
    ASSUME dqClose \in Seq(Endpoint), dqClose # <<>>, dqClose' = Tail(dqClose)
    PROVE  Queued(Head(dqClose)) /\ \A p \in Endpoint : Queued(p)' => Queued(p)
<1>1. /\ DOMAIN dqClose' = 1 .. Len(dqClose) - 1 /\ DOMAIN dqClose = 1 .. Len(dqClose)
      /\ Len(dqClose) \in Nat \ {0}
      /\ \A i \in 1 .. Len(dqClose) - 1 : dqClose'[i] = dqClose[i + 1]
      /\ Head(dqClose) = dqClose[1]
      OBVIOUS
<1>2. \A i \in DOMAIN dqClose' : i + 1 \in DOMAIN dqClose /\ dqClose'[i] = dqClose[i + 1]
      BY <1>1
<1>3. 1 \in DOMAIN dqClose
      BY <1>1
<1> QED  BY <1>1, <1>2, <1>3 DEF Queued

\* Steps that leave alone who has what.
LEMMA Idle ==
    ASSUME Owned, Typed',
           UNCHANGED <<mapRegisted, dqClose>>,
           \A p \in Endpoint : Reading(p)' = Reading(p),
           \A s \in Sender : \A p \in Endpoint : Sending(s, p)' = Sending(s, p),
           \A p \in Endpoint : Working(p)' = Working(p),
           \A p \in Endpoint : stage[p] = "live" => stage'[p] = "live",
           acc'.pc = "map" => acc' = acc,
           lock'["csComm"] = lock["csComm"], (stop = "closing") = (stop' = "closing"),
           \A p \in mapRegisted : stage'[p] = stage[p],
           clo'[stopper].pc # "idle" => clo[stopper].pc # "idle" /\ clo'[stopper].p = clo[stopper].p
    PROVE  Owned'
<1>1. \A p \in Endpoint : Taken(p)' = Taken(p)
      BY DEF Taken, Queued
<1>2. Apart'
      BY <1>1 DEF Owned, Apart, Queued
<1>3. Alive'
      BY <1>1 DEF Owned, Alive, Typed, TypeOK, Named
<1> QED  BY <1>2, <1>3 DEF Owned

\* ReqClose() by one thread: a registered endpoint goes over to it.
LEMMA ClaimKeeps ==
    ASSUME Owned, Typed', NEW q \in Endpoint,
           lock["csComm"] = None,
           mapRegisted' = mapRegisted \ {q},
           UNCHANGED <<dqClose, stage, acc, clo, stop, lock>>,
           \A p \in Endpoint : Taken(p)' => Taken(p) \/ (p = q /\ q \in mapRegisted),
           \A p \in Endpoint \ {q} : Reading(p)' = Reading(p),
           \A p \in Endpoint \ {q} : \A s \in Sender : Sending(s, p)' = Sending(s, p),
           q \notin mapRegisted => Reading(q)' = Reading(q),
           q \notin mapRegisted => \A s \in Sender : Sending(s, q)' = Sending(s, q),
           q \in mapRegisted =>
               \/ \A s \in Sender : ~Sending(s, q)'
               \/ ~Reading(q)' /\ \A s, t \in Sender : Sending(s, q)' /\ Sending(t, q)' => s = t
    PROVE  Owned'
<1>1. stop # "closing"
      BY EndpointsAssumption DEF Owned, Alive, Closer
<1>2. \A p \in Endpoint : Queued(p)' = Queued(p) /\ Working(p)' = Working(p)
      BY DEF Queued, Working
<1>3. Apart'
      BY <1>2 DEF Owned, Apart, Taken
<1>4. Alive'
      <2>1. \A p \in Endpoint : Taken(p)' => stage'[p] = "live"
            BY <1>1 DEF Owned, Alive
      <2>2. ASSUME acc.pc = "map"
            PROVE  stage[acc.p] = "live" /\ acc.p \notin mapRegisted' /\ ~Taken(acc.p)'
            <3>1. acc.p \in Endpoint
                  BY <2>2 DEF Owned, Typed, Named
            <3>2. stage[acc.p] = "live" /\ acc.p \notin mapRegisted /\ ~Taken(acc.p)
                  BY <2>2 DEF Owned, Alive
            <3>3. ~Taken(acc.p)'
                  BY <3>1, <3>2
            <3> QED  BY <3>2, <3>3
      <2>3. clo[stopper].pc = "idle"
            BY <1>1 DEF Owned, Alive
      <2> QED  BY <1>1, <2>1, <2>2, <2>3 DEF Owned, Alive
<1> QED  BY <1>3, <1>4 DEF Owned

\* Enque(): the thread that has q hands it to the deque.
LEMMA EnqueKeeps ==
    ASSUME Owned, Typed', NEW q \in Endpoint,
           Reading(q) \/ \E s \in Sender : Sending(s, q),
           dqClose' = Append(dqClose, q),
           UNCHANGED <<mapRegisted, stage, acc, clo, stop, lock>>,
           \A p \in Endpoint \ {q} : Reading(p)' = Reading(p),
           \A p \in Endpoint \ {q} : \A s \in Sender : Sending(s, p)' = Sending(s, p),
           ~Reading(q)', \A s \in Sender : ~Sending(s, q)'
    PROVE  Owned'
<1>1. dqClose \in Seq(Endpoint)
      BY DEF Owned, Typed, TypeOK
<1>2. /\ DOMAIN dqClose' = 1 .. Len(dqClose) + 1 /\ DOMAIN dqClose = 1 .. Len(dqClose)
      /\ Len(dqClose) \in Nat
      /\ \A i \in 1 .. Len(dqClose) : dqClose'[i] = dqClose[i]
      /\ dqClose'[Len(dqClose) + 1] = q
      BY <1>1
<1>3. ~Queued(q) /\ q \notin mapRegisted /\ ~Working(q) /\ Taken(q)
      BY DEF Owned, Apart, Taken
<1>4. \A p \in Endpoint : Queued(p)' <=> Queued(p) \/ p = q
      BY <1>2 DEF Queued
<1>5. \A i, j \in DOMAIN dqClose' : dqClose'[i] = dqClose'[j] => i = j
      <2>1. \A i \in DOMAIN dqClose : dqClose[i] # q
            BY <1>3 DEF Queued
      <2>2. \A i, j \in DOMAIN dqClose : dqClose[i] = dqClose[j] => i = j
            BY DEF Owned, Apart
      <2> QED  BY <1>2, <2>1, <2>2
<1>6. \A p \in Endpoint : Working(p)' = Working(p)
      BY DEF Working
<1>7. \A p \in Endpoint : Taken(p)' => Taken(p)
      BY <1>3, <1>4, <1>6 DEF Taken
<1>8. Apart'
      BY <1>3, <1>4, <1>5, <1>6, <1>7 DEF Owned, Apart
<1>9. Alive'
      BY <1>7 DEF Owned, Alive, Typed, TypeOK, Named
<1> QED  BY <1>8, <1>9 DEF Owned

\* The worker takes the first of the deque, when it is through with the last.
LEMMA TakeKeeps ==
    ASSUME Owned, Typed', dqClose # <<>>,
           dqClose' = Tail(dqClose), Close(worker, Head(dqClose)),
           UNCHANGED <<mapRegisted, stage, acc, io, snd, stop, lock>>
    PROVE  Owned'
<1>0. PICK q : q = Head(dqClose)
      OBVIOUS
<1>1. dqClose \in Seq(Endpoint)
      BY DEF Owned, Typed, TypeOK
<1>2. /\ DOMAIN dqClose' = 1 .. Len(dqClose) - 1 /\ DOMAIN dqClose = 1 .. Len(dqClose)
      /\ Len(dqClose) \in Nat \ {0}
      /\ \A i \in 1 .. Len(dqClose) - 1 : dqClose'[i] = dqClose[i + 1]
      /\ q = dqClose[1] /\ q \in Endpoint
      BY <1>0, <1>1
<1>3. /\ clo'[worker].pc # "idle" /\ clo'[worker].p = q
      /\ clo'[stopper] = clo[stopper]
      BY <1>0 DEF Close, Closer, worker, stopper, Owned, Typed, TypeOK
<1>4. Queued(q)
      BY <1>2 DEF Queued
<1>5. \A i, j \in DOMAIN dqClose : dqClose[i] = dqClose[j] => i = j
      BY DEF Owned, Apart
<1>6. ~Queued(q)' /\ \A p \in Endpoint : Queued(p)' => Queued(p)
      <2>1. \A i \in 1 .. Len(dqClose) - 1 : i + 1 \in DOMAIN dqClose /\ i + 1 # 1
            BY <1>2
      <2>2. \A i \in DOMAIN dqClose' : i + 1 \in DOMAIN dqClose /\ dqClose'[i] = dqClose[i + 1]
                                        /\ dqClose'[i] # q
            BY <1>2, <1>5, <2>1
      <2>3. ~Queued(q)'
            BY <2>2 DEF Queued
      <2>4. ASSUME NEW p \in Endpoint, Queued(p)' PROVE Queued(p)
            <3>1. PICK i \in DOMAIN dqClose' : dqClose'[i] = p
                  BY <2>4 DEF Queued
            <3>2. i + 1 \in DOMAIN dqClose /\ dqClose[i + 1] = p
                  BY <2>2, <3>1
            <3> QED  BY <3>2 DEF Queued
      <2> QED  BY <2>3, <2>4
<1>7. \A i, j \in DOMAIN dqClose' : dqClose'[i] = dqClose'[j] => i = j
      BY <1>2, <1>5
<1>8. \A p \in Endpoint : /\ Working(p)' <=> p = q
                          /\ Reading(p)' = Reading(p)
                          /\ \A s \in Sender : Sending(s, p)' = Sending(s, p)
      BY <1>3 DEF Working, Reading, Sending
<1>9. \A p \in Endpoint : Taken(p)' => Taken(p)
      BY <1>4, <1>6, <1>8 DEF Taken
<1>10. ~Reading(q) /\ q \notin mapRegisted /\ \A s \in Sender : ~Sending(s, q)
      BY <1>2, <1>4 DEF Owned, Apart, Taken
<1>11. Apart'
      <2>1. ASSUME NEW p \in Endpoint
            PROVE  /\ p \in mapRegisted' => ~Taken(p)'
                   /\ Queued(p)' => ~Reading(p)' /\ ~Working(p)' /\ \A s \in Sender : ~Sending(s, p)'
                   /\ Reading(p)' => ~Working(p)' /\ \A s \in Sender : ~Sending(s, p)'
                   /\ \A s \in Sender : Sending(s, p)' => /\ ~Working(p)'
                          /\ \A t \in Sender : Sending(t, p)' => s = t
            <3>1. CASE p = q
                  <4>1. Working(p)' /\ ~Queued(p)' /\ ~Reading(p)' /\ p \notin mapRegisted'
                        /\ \A s \in Sender : ~Sending(s, p)'
                        BY <1>6, <1>8, <1>10, <3>1
                  <4> QED  BY <4>1
            <3>2. CASE p # q
                  <4>1. ~Working(p)' /\ Reading(p)' = Reading(p)
                        /\ (Queued(p)' => Queued(p)) /\ (Taken(p)' => Taken(p))
                        /\ \A s \in Sender : Sending(s, p)' = Sending(s, p)
                        BY <1>6, <1>8, <1>9, <3>2
                  <4>2. /\ p \in mapRegisted => ~Taken(p)
                        /\ Queued(p) => ~Reading(p) /\ \A s \in Sender : ~Sending(s, p)
                        /\ Reading(p) => \A s \in Sender : ~Sending(s, p)
                        /\ \A s, t \in Sender : Sending(s, p) /\ Sending(t, p) => s = t
                        BY DEF Owned, Apart
                  <4> QED  BY <4>1, <4>2
            <3> QED  BY <3>1, <3>2
      <2> QED  BY <1>7, <2>1 DEF Apart
<1>12. Alive'
      BY <1>3, <1>9 DEF Owned, Alive, Typed, TypeOK, Named
<1> QED  BY <1>11, <1>12 DEF Owned

\* Accept() and AcceptMap: the listener's new endpoint.
LEMMA AcceptKeeps ==
    ASSUME Owned, Typed', NEW q \in Endpoint, Accept(q)
    PROVE  Owned'
<1>1. stage[q] = "unborn" /\ stage' = [stage EXCEPT ![q] = "live"]
      /\ acc' = [pc |-> "map", p |-> q]
      /\ UNCHANGED <<mapRegisted, dqClose, io, snd, clo, stop, lock>>
      BY DEF Accept, tables, ends
<1>2. \A p \in Endpoint : stage'[p] = IF p = q THEN "live" ELSE stage[p]
      BY <1>1 DEF Owned, Typed, TypeOK
<1>3. \A p \in Endpoint : Taken(p)' = Taken(p)
      BY <1>1 DEF Taken, Queued, Reading, Sending, Working
<1>4. ~Taken(q) /\ q \notin mapRegisted
      BY <1>1 DEF Owned, Alive
<1>5. Apart'
      BY <1>1 DEF Owned, Apart, Taken, Queued, Reading, Sending, Working
<1>6. Alive'
      <2>1. \A p \in Endpoint : Taken(p)' => stage'[p] = "live"
            BY <1>2, <1>3 DEF Owned, Alive
      <2>2. \A p \in mapRegisted : stage'[p] = stage[p]
            BY <1>2, <1>4 DEF Owned, Typed, TypeOK
      <2>3. acc'.p = q /\ stage'[q] = "live" /\ q \notin mapRegisted' /\ ~Taken(q)'
            BY <1>1, <1>2, <1>3, <1>4
      <2>5. acc'.pc = "map" => stage'[acc'.p] = "live" /\ acc'.p \notin mapRegisted'
            BY <2>3
      <2>6. (acc.pc = "map" => ~Taken(acc.p))'
            BY <2>3 DEF Taken, Queued, Reading, Sending, Working
      <2> QED  BY <1>1, <2>1, <2>2, <2>5, <2>6 DEF Owned, Alive
<1> QED  BY <1>5, <1>6 DEF Owned

LEMMA AcceptMapKeeps ==
    ASSUME Owned, Typed', AcceptMap
    PROVE  Owned'
<1>1. PICK q : q = acc.p
      OBVIOUS
<1>2. /\ q \in Endpoint /\ stage[q] = "live" /\ q \notin mapRegisted /\ ~Taken(q)
      /\ mapRegisted' = mapRegisted \cup {q} /\ acc'.pc = "list"
      /\ UNCHANGED <<stage, dqClose, io, snd, clo, stop, lock>>
      BY <1>1 DEF AcceptMap, ends, Owned, Alive, Typed, TypeOK, Named
<1>3. \A p \in Endpoint : /\ Taken(p)' = Taken(p) /\ Queued(p)' = Queued(p)
                          /\ Reading(p)' = Reading(p) /\ Working(p)' = Working(p)
                          /\ \A s \in Sender : Sending(s, p)' = Sending(s, p)
      BY <1>2 DEF Taken, Queued, Reading, Sending, Working
<1>4. Apart'
      BY <1>2, <1>3 DEF Owned, Apart
<1>5. Alive'
      BY <1>2, <1>3 DEF Owned, Alive
<1> QED  BY <1>4, <1>5 DEF Owned

\* Delete(): the worker's endpoint, or one that Stop() has found on the table.
LEMMA DeleteKeeps ==
    ASSUME Owned, Typed', NEW c \in Closer, Delete(c)
    PROVE  Owned'
<1>1. PICK q : q = clo[c].p
      OBVIOUS
<1>2. /\ q \in Endpoint /\ clo[c].pc = "delete"
      /\ clo'[c].pc = "idle" /\ \A d \in Closer \ {c} : clo'[d] = clo[d]
      /\ stage'[q] = "deleted" /\ \A p \in Endpoint \ {q} : stage'[p] = stage[p]
      /\ UNCHANGED <<mapRegisted, dqClose, acc, io, snd, stop, lock>>
      BY <1>1 DEF Delete, tables, ends, Owned, Typed, TypeOK, Named
<1>3. \A p \in Endpoint : /\ Queued(p)' = Queued(p) /\ Reading(p)' = Reading(p)
                          /\ \A s \in Sender : Sending(s, p)' = Sending(s, p)
      BY <1>2 DEF Queued, Reading, Sending
<1>4. CASE c = worker
      <2>1. Working(q) /\ \A p \in Endpoint : ~Working(p)'
            BY <1>1, <1>2, <1>4 DEF Working
      <2>2. /\ q \notin mapRegisted /\ ~Queued(q) /\ ~Reading(q)
            /\ \A s \in Sender : ~Sending(s, q)
            BY <1>2, <2>1 DEF Owned, Apart, Taken
      <2>3. \A p \in Endpoint : Taken(p)' => Taken(p) /\ p # q
            BY <1>3, <2>1, <2>2 DEF Taken
      <2>4. acc.pc = "map" => acc.p \in Endpoint \ {q}
            BY <2>1 DEF Owned, Alive, Typed, Named, Taken
      <2>5. clo'[stopper] = clo[stopper]
            BY <1>2, <1>4 DEF Closer, worker, stopper
      <2>6. Apart'
            BY <1>2, <1>3, <2>1, <2>3 DEF Owned, Apart
      <2>7. Alive'
            <3>1. \A p \in Endpoint : Taken(p)' => stage'[p] = "live"
                  BY <1>2, <2>3 DEF Owned, Alive
            <3>2. \A p \in mapRegisted : stage'[p] = stage[p]
                  BY <1>2, <2>2 DEF Owned, Typed, TypeOK
            <3>3. acc.pc = "map" => /\ stage'[acc.p] = "live" /\ acc.p \notin mapRegisted
                                    /\ ~Taken(acc.p)'
                  BY <1>2, <2>3, <2>4 DEF Owned, Alive
            <3>4. clo[stopper].pc # "idle" => clo[stopper].p \in mapRegisted
                  BY DEF Owned, Alive
            <3> QED  BY <1>2, <2>5, <3>1, <3>2, <3>3, <3>4 DEF Owned, Alive
      <2> QED  BY <2>6, <2>7 DEF Owned
<1>5. CASE c = stopper
      <2>1. q \in mapRegisted /\ stop = "closing" /\ stage[q] = "live" /\ ~Taken(q)
            BY <1>1, <1>2, <1>5 DEF Owned, Alive, Apart
      <2>2. clo'[worker] = clo[worker]
            BY <1>2, <1>5 DEF Closer, worker, stopper
      <2>3. \A p \in Endpoint : Working(p)' = Working(p) /\ Taken(p)' = Taken(p)
            BY <1>3, <2>2 DEF Working, Taken
      <2>4. Apart'
            BY <1>2, <1>3, <2>3 DEF Owned, Apart
      <2>5. Alive'
            <3>1. \A p \in Endpoint : Taken(p)' => stage'[p] = "live"
                  BY <1>2, <2>1, <2>3 DEF Owned, Alive
            <3>2. acc.pc = "map" => /\ stage'[acc.p] = "live" /\ acc.p \notin mapRegisted
                                    /\ ~Taken(acc.p)'
                  BY <1>2, <2>1, <2>3 DEF Owned, Alive, Typed, Named
            <3>3. \A p \in mapRegisted : stage'[p] = "live" \/ stage'[p] = "deleted"
                  BY <1>2 DEF Owned, Alive, Typed, TypeOK
            <3> QED  BY <1>2, <1>5, <2>1, <3>1, <3>2, <3>3 DEF Owned, Alive
      <2> QED  BY <2>4, <2>5 DEF Owned
<1> QED  BY <1>4, <1>5 DEF Closer

\* Stop() with the table of the registered ones.
LEMMA StopKeeps ==
    ASSUME Owned, Typed',
           StopLock \/ StopClear \/ \E p \in Endpoint : StopClose(p)
    PROVE  Owned'
<1>1. UNCHANGED <<stage, dqClose, acc, io, snd, clo[worker]>>
      BY DEF StopLock, StopClear, StopClose, Close, tables, ends, worker, stopper, Closer,
             Owned, Typed, TypeOK
<1>2. \A p \in Endpoint : /\ Taken(p)' = Taken(p) /\ Queued(p)' = Queued(p)
                          /\ Reading(p)' = Reading(p) /\ Working(p)' = Working(p)
                          /\ \A s \in Sender : Sending(s, p)' = Sending(s, p)
      BY <1>1 DEF Taken, Queued, Reading, Sending, Working
<1>3. mapRegisted' \subseteq mapRegisted
      BY DEF StopLock, StopClear, StopClose, tables, ends
<1>4. Apart'
      BY <1>1, <1>2, <1>3 DEF Owned, Apart
<1>5. acc.pc = "map" => stage'[acc.p] = "live" /\ acc.p \notin mapRegisted' /\ ~Taken(acc.p)'
      BY <1>1, <1>2, <1>3 DEF Owned, Alive, Typed, Named
<1>6. CASE StopLock
      <2>1. stop' = "closing" /\ lock'["csComm"] = stopper /\ clo' = clo
            /\ mapRegisted' = mapRegisted /\ clo[stopper].pc = "idle"
            BY <1>6 DEF StopLock, tables, Mutex, Owned, Alive, Typed, TypeOK
      <2> QED  BY <1>1, <1>2, <1>4, <1>5, <2>1 DEF Owned, Alive
<1>7. CASE StopClear
      <2>1. stop' = "cleared" /\ mapRegisted' = {} /\ clo' = clo /\ clo[stopper].pc = "idle"
            BY <1>7 DEF StopClear
      <2> QED  BY <1>1, <1>2, <1>4, <1>5, <2>1 DEF Owned, Alive
<1>8. ASSUME NEW p \in Endpoint, StopClose(p) PROVE Owned'
      <2>1. stop = "closing" /\ UNCHANGED <<stop, mapRegisted, lock>>
            /\ clo'[stopper].p = p /\ p \in mapRegisted /\ stage[p] = "live"
            BY <1>8 DEF StopClose, ToStop, Close, tables, ends, Closer, stopper,
                        Owned, Alive, Typed, TypeOK
      <2> QED  BY <1>1, <1>2, <1>4, <1>5, <2>1 DEF Owned, Alive
<1> QED  BY <1>6, <1>7, <1>8

LEMMA NextOwned ==
    ASSUME Owned, [Next]_vars
    PROVE  Owned'
<1>0. Typed /\ Typed'
      BY NextTyped DEF Owned
<1> USE <1>0
<1>1. ASSUME NEW p \in Endpoint, Accept(p) PROVE Owned'
      BY <1>1, AcceptKeeps
<1>2. ASSUME NEW p \in Endpoint, AcceptRefused(p) PROVE Owned'
      <2>1. \A q \in mapRegisted : q # p
            BY <1>2 DEF AcceptRefused, Owned, Alive
      <2> QED  BY <1>2, <2>1, Idle DEF AcceptRefused, tables, ends, Reading, Sending, Working,
                                       Typed, TypeOK
<1>3. ASSUME AcceptMap PROVE Owned'
      BY <1>3, AcceptMapKeeps
<1>4. ASSUME AcceptList \/ AcceptNm PROVE Owned'
      BY <1>4, Idle DEF AcceptList, AcceptNm, ends, Reading, Sending, Working, Typed, TypeOK
<1>5. ASSUME NEW p \in Endpoint,
             \/ Active(p) \/ Recv(p) \/ FirstList(p) \/ FirstRoute(p) \/ HelloFails(p) \/ Again(p)
             \/ \E k \in KeysOf[p] : Packet(p, k)
      PROVE  Owned'
      <2>1. \A q \in Endpoint : Reading(q)' = Reading(q)
            <3>1. ASSUME NEW pc, Io(p, pc), pc \notin {"enque", "enquehello"},
                         io[p].pc \notin {"enque", "enquehello"}
                  PROVE  \A q \in Endpoint : Reading(q)' = Reading(q)
                  BY <3>1, IoMoves DEF Reading
            <3>2. CASE Active(p) \/ Recv(p) \/ FirstList(p) \/ HelloFails(p) \/ Again(p)
                  BY <3>1, <3>2 DEF Active, Recv, FirstList, HelloFails, Again
            <3>3. CASE FirstRoute(p)
                  <4>1. /\ io'[p].pc = "on" /\ io[p].pc = "route"
                        /\ \A q \in Endpoint \ {p} : io'[q] = io[q]
                        BY <3>3 DEF FirstRoute, Typed, TypeOK
                  <4> QED  BY <4>1 DEF Reading
            <3>4. CASE \E k \in KeysOf[p] : Packet(p, k)
                  BY <3>4 DEF Packet, Reading, Typed, TypeOK
            <3> QED  BY <1>5, <3>1, <3>2, <3>3, <3>4
      <2>2. UNCHANGED <<stage, mapRegisted, dqClose, lock, acc, snd, clo, stop>>
            BY <1>5 DEF Active, Recv, FirstList, FirstRoute, HelloFails, Again, Packet, tables, ends
      <2> QED  BY <2>1, <2>2, Idle DEF Sending, Working
<1>6. ASSUME NEW p \in Endpoint, RecvReqClose(p) PROVE Owned'
      <2>1. /\ lock["csComm"] = None /\ mapRegisted' = mapRegisted \ {p}
            /\ UNCHANGED <<dqClose, stage, acc, snd, clo, stop, lock>>
            /\ \A q \in Endpoint \ {p} : io'[q] = io[q]
            /\ p \notin mapRegisted => io'[p].pc \in {"idle", "again"}
            /\ io[p].pc \in {"close", "hello"}
            BY <1>6 DEF RecvReqClose, UnRegisterAio, Claimed, After, Io, Free, ends, Typed, TypeOK
      <2>2. \A q \in Endpoint : \A s \in Sender : Sending(s, q)' = Sending(s, q)
            BY <2>1 DEF Sending
      <2>3. \A q \in Endpoint \ {p} : Reading(q)' = Reading(q)
            BY <2>1 DEF Reading
      <2>4. p \notin mapRegisted => Reading(p)' = Reading(p)
            BY <2>1 DEF Reading
      <2>5. \A q \in Endpoint : Taken(q)' => Taken(q) \/ (q = p /\ p \in mapRegisted)
            BY <2>1, <2>2, <2>3, <2>4 DEF Taken, Queued, Working
      <2>6. p \in mapRegisted => \A s \in Sender : ~Sending(s, p)'
            BY <2>2 DEF Owned, Apart, Taken
      <2> QED  BY <2>1, <2>2, <2>3, <2>4, <2>5, <2>6, ClaimKeeps
<1>7. ASSUME NEW p \in Endpoint, RecvEnque(p) PROVE Owned'
      <2>1. /\ dqClose' = Append(dqClose, p) /\ Reading(p)
            /\ UNCHANGED <<mapRegisted, stage, acc, snd, clo, stop, lock>>
            /\ \A q \in Endpoint \ {p} : io'[q] = io[q]
            /\ io'[p].pc \in {"idle", "again"}
            BY <1>7 DEF RecvEnque, Enque, After, Io, Reading, tables, Typed, TypeOK
      <2>2. \A q \in Endpoint : \A s \in Sender : Sending(s, q)' = Sending(s, q)
            BY <2>1 DEF Sending
      <2>3. ~Reading(p)' /\ \A q \in Endpoint \ {p} : Reading(q)' = Reading(q)
            BY <2>1 DEF Reading
      <2>4. \A s \in Sender : ~Sending(s, p)'
            BY <2>1, <2>2 DEF Owned, Apart
      <2> QED  BY <2>1, <2>2, <2>3, <2>4, EnqueKeeps
<1>8. ASSUME NEW s \in Sender, SendReqClose(s) PROVE Owned'
      <2>1. PICK p : p = snd[s].p
            OBVIOUS
      <2>2. /\ p \in Endpoint /\ lock["csComm"] = None /\ mapRegisted' = mapRegisted \ {p}
            /\ UNCHANGED <<dqClose, stage, acc, io, clo, stop, lock>>
            /\ \A t \in Sender \ {s} : snd'[t] = snd[t]
            /\ snd[s].pc = "close"
            BY <1>8, <2>1 DEF SendReqClose, UnRegisterAio, Free, ends, Typed, TypeOK, Named
      <2>3. /\ p \in mapRegisted => snd'[s].pc = "enque" /\ snd'[s].p = p
            /\ p \notin mapRegisted => snd'[s].pc = "next"
            <3>1. snd'[s] = IF p \in mapRegisted THEN [snd[s] EXCEPT !.pc = "enque"]
                            ELSE [snd[s] EXCEPT !.pc = "next", !.p = None]
                  BY <1>8, <2>1 DEF SendReqClose, Claimed, Typed, TypeOK
            <3>2. snd[s] \in [pc : {"idle", "next", "close", "enque"},
                              p : Endpoint \cup {None}, todo : SUBSET Endpoint]
                  BY DEF Typed, TypeOK
            <3>3. CASE p \in mapRegisted  BY <2>1, <3>1, <3>2, <3>3
            <3>4. CASE p \notin mapRegisted  BY <3>1, <3>2, <3>4
            <3> QED  BY <3>3, <3>4
      <2>4. \A q \in Endpoint : \A t \in Sender :
                Sending(t, q)' <=> Sending(t, q) \/ (t = s /\ q = p /\ p \in mapRegisted)
            BY <2>2, <2>3 DEF Sending
      <2>5. \A q \in Endpoint : Reading(q)' = Reading(q)
            BY <2>2 DEF Reading
      <2>6. \A q \in Endpoint : Taken(q)' => Taken(q) \/ (q = p /\ p \in mapRegisted)
            BY <2>2, <2>4, <2>5 DEF Taken, Queued, Working
      <2>7. p \in mapRegisted => /\ ~Reading(p)'
                                 /\ \A t, u \in Sender : Sending(t, p)' /\ Sending(u, p)' => t = u
            BY <2>2, <2>4, <2>5 DEF Owned, Apart, Taken
      <2>8. \A q \in Endpoint \ {p} : \A t \in Sender : Sending(t, q)' = Sending(t, q)
            BY <2>4 DEF Sending
      <2>9. ASSUME p \notin mapRegisted, NEW t \in Sender PROVE Sending(t, p)' = Sending(t, p)
            <3>1. Sending(t, p)' <=> Sending(t, p)
                  BY <2>2, <2>4, <2>9
            <3> QED  BY <3>1 DEF Sending
      <2> QED  BY <2>2, <2>5, <2>6, <2>7, <2>8, <2>9, ClaimKeeps
<1>9. ASSUME NEW s \in Sender, SendEnque(s) PROVE Owned'
      <2>1. PICK p : p = snd[s].p
            OBVIOUS
      <2>2. /\ p \in Endpoint /\ Sending(s, p)
            /\ dqClose' = Append(dqClose, p)
            /\ UNCHANGED <<mapRegisted, stage, acc, io, clo, stop, lock>>
            /\ \A t \in Sender \ {s} : snd'[t] = snd[t]
            /\ snd'[s].pc = "next"
            BY <1>9, <2>1 DEF SendEnque, Enque, Sending, tables, Typed, TypeOK, Named
      <2>3. \A q \in Endpoint : \A t \in Sender : Sending(t, q)' <=> Sending(t, q) /\ t # s
            BY <2>2 DEF Sending
      <2>4. \A q \in Endpoint \ {p} : ~Sending(s, q)
            BY <2>2 DEF Sending
      <2>5. \A t \in Sender : ~Sending(t, p)'
            BY <2>2, <2>3 DEF Owned, Apart
      <2>6. ~Reading(p)' /\ \A q \in Endpoint : Reading(q)' = Reading(q)
            BY <2>2 DEF Owned, Apart, Reading
      <2>7. \A q \in Endpoint \ {p} : \A t \in Sender : Sending(t, q)' = Sending(t, q)
            BY <2>3, <2>4 DEF Sending
      <2> QED  BY <2>2, <2>5, <2>6, <2>7, EnqueKeeps
<1>10. ASSUME NEW s \in Sender,
              \/ SendDone(s) \/ \E k \in Key : SendPacket(s, k)
              \/ \E p \in Endpoint : Send(s, p) \/ SendError(s, p)
       PROVE  Owned'
      <2>1. /\ \A t \in Sender \ {s} : snd'[t] = snd[t]
            /\ snd[s].pc # "enque" /\ snd'[s].pc # "enque"
            BY <1>10 DEF SendDone, SendPacket, Send, SendError, Typed, TypeOK
      <2>2. /\ UNCHANGED <<stage, mapRegisted, dqClose, acc, io, clo, stop>>
            /\ lock'["csComm"] = lock["csComm"]
            BY <1>10 DEF SendDone, SendPacket, Send, SendError, Unlock, SendLock, Mutex, tables, ends,
                         Typed, TypeOK
      <2>3. \A t \in Sender : \A q \in Endpoint : Sending(t, q)' = Sending(t, q)
            BY <2>1 DEF Sending
      <2> QED  BY <2>2, <2>3, Idle DEF Reading, Working
<1>11. ASSUME NEW c \in Closer,
              \/ UnRegister(c) \/ RemoveNm(c) \/ CopyKeys(c) \/ RemoveRoutes(c) \/ RemoveAccepted(c)
       PROVE  Owned'
      <2>1. clo[c].pc # "idle" /\ clo'[c].pc # "idle" /\ clo'[c].p = clo[c].p
            /\ \A d \in Closer \ {c} : clo'[d] = clo[d]
            BY <1>11, CloserWalks
      <2>2. UNCHANGED <<stage, mapRegisted, dqClose, lock, acc, io, snd, stop>>
            BY <1>11 DEF UnRegister, RemoveNm, CopyKeys, RemoveRoutes, RemoveAccepted, tables, ends
      <2>3. \A p \in Endpoint : Working(p)' = Working(p)
            BY <2>1 DEF Working, Closer
      <2>4. clo'[stopper].pc # "idle" => clo[stopper].pc # "idle" /\ clo'[stopper].p = clo[stopper].p
            BY <2>1 DEF Closer
      <2> QED  BY <2>2, <2>3, <2>4, Idle DEF Reading, Sending
<1>12. ASSUME NEW c \in Closer, Delete(c) PROVE Owned'
      BY <1>12, DeleteKeeps
<1>13. ASSUME WorkLoop \/ WorkWait \/ WorkNext PROVE Owned'
      BY <1>13, Idle DEF WorkLoop, WorkWait, WorkNext, tables, Reading, Sending, Working
<1>14. ASSUME WorkCheck \/ WorkDrain PROVE Owned'
      <2>1. UNCHANGED <<mapRegisted, stage, acc, io, snd, stop, lock>>
            BY <1>14 DEF WorkCheck, WorkDrain, tables
      <2>2. CASE UNCHANGED <<dqClose, clo>>
            BY <2>1, <2>2, Idle DEF Reading, Sending, Working
      <2>3. CASE dqClose # <<>> /\ dqClose' = Tail(dqClose) /\ Close(worker, Head(dqClose))
            BY <2>1, <2>3, TakeKeeps
      <2> QED  BY <1>14, <2>2, <2>3 DEF WorkCheck, WorkDrain
<1>15. ASSUME StopLock \/ StopClear \/ \E p \in Endpoint : StopClose(p) PROVE Owned'
      BY <1>15, StopKeeps
<1>16. ASSUME StopListener \/ StopEndThread \/ StopSignal \/ StopJoined PROVE Owned'
      <2>1. /\ UNCHANGED <<stage, mapRegisted, dqClose, lock, acc, io, snd, clo>>
            /\ (stop = "closing") = (stop' = "closing")
            BY <1>16 DEF StopListener, StopEndThread, StopSignal, StopJoined, tables
      <2> QED  BY <2>1, Idle DEF Reading, Sending, Working
<1>17. ASSUME NEW p \in Endpoint, HangUp(p) PROVE Owned'
      BY <1>17, Idle DEF HangUp, tables, ends, Reading, Sending, Working
<1>18. ASSUME UNCHANGED vars PROVE Owned'
      BY <1>18, Idle DEF vars, moving, tables, ends, Reading, Sending, Working
<1> QED  BY <1>1, <1>2, <1>3, <1>4, <1>5, <1>6, <1>7, <1>8, <1>9, <1>10, <1>11, <1>12, <1>13,
            <1>14, <1>15, <1>16, <1>17, <1>18
         DEF Next, Listener, IoThread, IoStep, SenderThread, WorkerThread, Stopping, CloseStep,
             Closer

LEMMA OwnedOnce == Owned => OneOwner
<1> SUFFICES ASSUME Owned, NEW p \in Endpoint
             PROVE  /\ \A a, b \in Owners(p) : a = b
                    /\ stage[p] = "deleted" => Owners(p) \subseteq {<<"table", p>>}
                    /\ stage[p] = "deleted" /\ p \in mapRegisted => stop = "closing"
                    /\ clo[stopper].pc # "idle" /\ clo[stopper].p = p
                          => stop = "closing" /\ p \in mapRegisted /\ stage[p] = "live"
    BY DEF OneOwner
<1>1. \A a \in Owners(p) :
          \/ a = <<"table", p>> /\ p \in mapRegisted
          \/ \E i \in DOMAIN dqClose : a = <<"queued", i>> /\ dqClose[i] = p
          \/ a = <<"reader", p>> /\ Reading(p)
          \/ \E s \in Sender : a = <<"sender", s>> /\ Sending(s, p)
          \/ a = <<"worker", worker>> /\ Working(p)
      BY DEF Owners, Reading, Sending, Working
<1>2. \A a \in Owners(p) : a = <<"table", p>> \/ Taken(p)
      BY <1>1 DEF Taken, Queued
<1>3. ASSUME NEW a \in Owners(p), NEW b \in Owners(p) PROVE a = b
      <2>1. CASE a = <<"table", p>> /\ p \in mapRegisted
            <3>1. ~Taken(p)
                  BY <2>1 DEF Owned, Apart
            <3> QED  BY <1>2, <2>1, <3>1
      <2>2. ASSUME NEW i \in DOMAIN dqClose, a = <<"queued", i>>, dqClose[i] = p PROVE a = b
            <3>1. Queued(p)
                  BY <2>2 DEF Queued
            <3>2. p \notin mapRegisted /\ ~Reading(p) /\ ~Working(p) /\ \A s \in Sender : ~Sending(s, p)
                  BY <3>1 DEF Owned, Apart, Taken
            <3>3. PICK j \in DOMAIN dqClose : b = <<"queued", j>> /\ dqClose[j] = p
                  BY <1>1, <3>2
            <3> QED  BY <2>2, <3>3 DEF Owned, Apart
      <2>3. CASE a = <<"reader", p>> /\ Reading(p)
            <3>1. p \notin mapRegisted /\ ~Queued(p) /\ ~Working(p) /\ \A s \in Sender : ~Sending(s, p)
                  BY <2>3 DEF Owned, Apart, Taken
            <3> QED  BY <1>1, <2>3, <3>1 DEF Queued
      <2>4. ASSUME NEW s \in Sender, a = <<"sender", s>>, Sending(s, p) PROVE a = b
            <3>1. p \notin mapRegisted /\ ~Queued(p) /\ ~Working(p) /\ ~Reading(p)
                  BY <2>4 DEF Owned, Apart, Taken
            <3>2. PICK t \in Sender : b = <<"sender", t>> /\ Sending(t, p)
                  BY <1>1, <3>1 DEF Queued
            <3>3. s = t
                  BY <2>4, <3>2 DEF Owned, Apart
            <3> QED  BY <2>4, <3>2, <3>3
      <2>5. CASE a = <<"worker", worker>> /\ Working(p)
            <3>1. p \notin mapRegisted /\ ~Queued(p) /\ ~Reading(p) /\ \A s \in Sender : ~Sending(s, p)
                  BY <2>5 DEF Owned, Apart, Taken
            <3> QED  BY <1>1, <2>5, <3>1 DEF Queued
      <2> QED  BY <1>1, <2>1, <2>2, <2>3, <2>4, <2>5
<1>4. stage[p] = "deleted" => ~Taken(p)
      BY DEF Owned, Alive
<1>5. /\ stage[p] = "deleted" /\ p \in mapRegisted => stop = "closing"
      /\ clo[stopper].pc # "idle" /\ clo[stopper].p = p
            => stop = "closing" /\ p \in mapRegisted /\ stage[p] = "live"
      BY DEF Owned, Alive
<1> QED  BY <1>2, <1>3, <1>4, <1>5

\* However many threads ask to close an endpoint, and whenever Stop() comes, one has it
\* at a time and nobody once it has been deleted: UnRegisterAio() lets one of them win.
THEOREM ClosedOnce == Spec => []OneOwner
<1>1. Spec => []Owned
      BY InitOwned, NextOwned, PTL DEF Spec
<1> QED  BY <1>1, OwnedOnce, PTL

-----------------------------------------------------------------------------
(* Routes.  An endpoint on its way to a route already has the key, and the *)
(* route is not its own yet.                                               *)

OnItsWay ==
    \A p \in Endpoint : io[p].pc \in {"list", "route"} => /\ io[p].key \in lstKeys[p]
                                                          /\ mapEpNormal[io[p].key] # p

Routed == Typed /\ RouteKnown /\ OnItsWay

LEMMA NextRouted ==
    ASSUME Routed, [Next]_vars
    PROVE  Routed'
<1>0. Typed /\ Typed'
      BY NextTyped DEF Routed
<1>1. ASSUME NEW p \in Endpoint, NEW k \in KeysOf[p], Packet(p, k) PROVE Routed'
      <2>1. k \in Key /\ k \notin lstKeys[p] /\ mapEpNormal' = mapEpNormal /\ mapEpNormal[k] # p
            BY <1>0, <1>1, EndpointsAssumption DEF Packet, Routed, RouteKnown
      <2>2. lstKeys' = [lstKeys EXCEPT ![p] = @ \cup {k}]
            BY <1>1 DEF Packet
      <2>3. RouteKnown'
            BY <1>0, <2>1, <2>2 DEF Routed, RouteKnown, Typed, TypeOK
      <2>4. OnItsWay'
            BY <1>0, <1>1, <2>1, <2>2 DEF Packet, Routed, OnItsWay, Typed, TypeOK
      <2> QED  BY <1>0, <2>3, <2>4 DEF Routed
<1>2. ASSUME NEW p \in Endpoint, FirstRoute(p) PROVE Routed'
      <2>1. PICK k : k = io[p].key
            OBVIOUS
      <2>2. /\ k \in Key /\ k \in lstKeys[p] /\ mapEpNormal[k] # p
            /\ mapEpNormal' = [mapEpNormal EXCEPT ![k] = p]
            /\ lstKeys' = RemoveKey(k) /\ io' = [io EXCEPT ![p] = [pc |-> "on", key |-> None]]
            BY <1>0, <1>2, <2>1 DEF FirstRoute, Routed, OnItsWay, Typed, Named
      <2>3. \A q \in Endpoint : lstKeys'[q] = lstKeys[q] \ IF q = mapEpNormal[k] THEN {k} ELSE {}
            BY <2>2 DEF RemoveKey
      <2>4. RouteKnown'
            <3> SUFFICES ASSUME NEW j \in Key, mapEpNormal'[j] # None
                         PROVE  j \in lstKeys'[mapEpNormal'[j]]
                BY DEF RouteKnown
            <3>1. CASE j = k
                  BY <1>0, <2>2, <2>3, <3>1 DEF Typed, TypeOK
            <3>2. CASE j # k
                  <4>1. mapEpNormal'[j] = mapEpNormal[j] /\ mapEpNormal[j] \in Endpoint
                        BY <1>0, <2>2, <3>2 DEF Typed, TypeOK
                  <4>2. j \in lstKeys[mapEpNormal[j]]
                        BY <4>1, <2>2 DEF Routed, RouteKnown
                  <4> QED  BY <2>3, <3>2, <4>1, <4>2
            <3> QED  BY <3>1, <3>2
      <2>5. OnItsWay'
            <3> SUFFICES ASSUME NEW q \in Endpoint, io'[q].pc \in {"list", "route"}
                         PROVE  io'[q].key \in lstKeys'[q] /\ mapEpNormal'[io'[q].key] # q
                BY DEF OnItsWay
            <3>1. q # p /\ io'[q] = io[q] /\ io[q].key \in Key
                  BY <1>0, <2>2 DEF Typed, TypeOK, Named
            <3>2. io[q].key \in lstKeys[q] /\ mapEpNormal[io[q].key] # q
                  BY <3>1 DEF Routed, OnItsWay
            <3>3. io[q].key = k => mapEpNormal[k] # q
                  BY <3>2
            <3> QED  BY <1>0, <2>2, <2>3, <3>1, <3>2, <3>3 DEF Typed, TypeOK
      <2> QED  BY <1>0, <2>4, <2>5 DEF Routed
<1>3. ASSUME NEW c \in Closer, RemoveRoutes(c) PROVE Routed'
      <2>1. /\ UNCHANGED <<lstKeys, io>>
            /\ \A k \in Key : mapEpNormal'[k] \in {None, mapEpNormal[k]}
            BY <1>3 DEF RemoveRoutes, Erased
      <2>2. RouteKnown'
            BY <2>1 DEF Routed, RouteKnown
      <2>3. OnItsWay'
            BY <1>0, <2>1, EndpointsAssumption DEF Routed, OnItsWay, Typed, Named
      <2> QED  BY <1>0, <2>2, <2>3 DEF Routed
<1>4. ASSUME NEW p \in Endpoint,
             \/ Active(p) \/ Recv(p) \/ FirstList(p) \/ HelloFails(p) \/ RecvReqClose(p)
             \/ RecvEnque(p) \/ Again(p)
      PROVE  Routed'
      <2>1. /\ UNCHANGED <<lstKeys, mapEpNormal>>
            /\ \A q \in Endpoint : io'[q].pc \in {"list", "route"}
                                       => io[q].pc \in {"list", "route"} /\ io'[q].key = io[q].key
            <3>1. CASE Active(p) \/ Recv(p) \/ HelloFails(p) \/ Again(p)
                  <4>1. PICK pc : Io(p, pc) /\ pc \notin {"list", "route"}
                        BY <3>1 DEF Active, Recv, HelloFails, Again
                  <4>2. UNCHANGED <<lstKeys, mapEpNormal>>
                        BY <3>1 DEF Active, Recv, HelloFails, Again, tables
                  <4> QED  BY <1>0, <4>1, <4>2, IoMoves
            <3>2. CASE FirstList(p)
                  BY <1>0, <3>2 DEF FirstList, Io, Typed, TypeOK
            <3>3. CASE RecvReqClose(p)
                  BY <1>0, <3>3 DEF RecvReqClose, After, Io, Typed, TypeOK
            <3>4. CASE RecvEnque(p)
                  BY <1>0, <3>4 DEF RecvEnque, After, Io, tables, Typed, TypeOK
            <3> QED  BY <1>4, <3>1, <3>2, <3>3, <3>4
      <2> QED  BY <1>0, <2>1 DEF Routed, RouteKnown, OnItsWay
<1>5. ASSUME UNCHANGED <<lstKeys, mapEpNormal, io>> PROVE Routed'
      BY <1>0, <1>5 DEF Routed, RouteKnown, OnItsWay
<1>6. ASSUME \/ Listener
             \/ \E p \in Endpoint : HangUp(p)
             \/ \E s \in Sender : SenderThread(s) \/ \E k \in Key : SendPacket(s, k)
      PROVE  UNCHANGED <<lstKeys, mapEpNormal, io>>
      BY <1>6 DEF Listener, Accept, AcceptRefused, AcceptMap, AcceptList, AcceptNm, HangUp,
                  SenderThread, SendReqClose, SendEnque, SendDone, Send, SendError, SendPacket, tables
<1>7. ASSUME NEW c \in Closer,
             UnRegister(c) \/ RemoveNm(c) \/ CopyKeys(c) \/ RemoveAccepted(c) \/ Delete(c)
      PROVE  UNCHANGED <<lstKeys, mapEpNormal, io>>
      BY <1>7 DEF UnRegister, RemoveNm, CopyKeys, RemoveAccepted, Delete, tables
<1>8. ASSUME \/ WorkLoop \/ WorkCheck \/ WorkWait \/ WorkNext \/ WorkDrain
             \/ StopListener \/ StopLock \/ StopClear \/ StopEndThread \/ StopSignal \/ StopJoined
             \/ \E p \in Endpoint : StopClose(p)
      PROVE  UNCHANGED <<lstKeys, mapEpNormal, io>>
      BY <1>8 DEF WorkLoop, WorkCheck, WorkWait, WorkNext, WorkDrain, StopListener, StopLock,
                  StopClear, StopEndThread, StopSignal, StopJoined, StopClose, tables
<1>9. UNCHANGED vars => UNCHANGED <<lstKeys, mapEpNormal, io>>
      BY DEF vars, moving, tables
<1> QED  BY <1>1, <1>2, <1>3, <1>4, <1>5, <1>6, <1>7, <1>8, <1>9
         DEF Next, IoThread, IoStep, WorkerThread, Stopping, CloseStep, Closer

\* Whoever has a route has its key, so that closing it removes the route.
THEOREM RoutesKnown == Spec => []RouteKnown
<1>1. Init => Routed
      BY InitTyped DEF Init, Routed, RouteKnown, OnItsWay
<1>2. Spec => []Routed
      BY <1>1, NextRouted, PTL DEF Spec
<1> QED  BY <1>2, PTL DEF Routed
-----------------------------------------------------------------------------
(* Watched.  Only a thread that reads a socket has it off the selector, it *)
(* gives it back before it is through, and there is room for it then if    *)
(* there are no more connections than the selector takes.                  *)

Sockets ==
    /\ \A p \in mapRead : io[p].pc = "idle" /\ stage[p] # "unborn"
    /\ \A p \in Endpoint : stage[p] = "unborn" => io[p].pc = "idle"
    /\ acc.pc = "map" => acc.p \in mapRead /\ io[acc.p].pc = "idle"
    /\ clo[stopper].pc = "idle" => clo[stopper].p = None

Guarded == Owned /\ Sockets /\ Watched

\* A selector for all connections has room for each that it does not watch.
LEMMA RoomForAll ==
    ASSUME Typed, Cardinality(Endpoint) <= MaxFds, NEW p \in Endpoint, p \notin mapRead
    PROVE  Room
<1>1. IsFiniteSet(Endpoint) /\ MaxFds \in Nat
      BY EndpointsAssumption
<1>2. mapRead \subseteq Endpoint /\ mapRead \cup {p} \subseteq Endpoint
      BY DEF Typed, TypeOK
<1>3. IsFiniteSet(mapRead)
      BY <1>1, <1>2, FS_Subset
<1>4. Cardinality(mapRead \cup {p}) = Cardinality(mapRead) + 1
      BY <1>3, FS_AddElement
<1>5. Cardinality(mapRead \cup {p}) <= Cardinality(Endpoint)
      BY <1>1, <1>2, FS_Subset
<1>6. Cardinality(mapRead) \in Nat /\ Cardinality(Endpoint) \in Nat
      BY <1>1, <1>3, FS_CardinalityType
<1> QED  BY <1>1, <1>4, <1>5, <1>6 DEF Room

\* Steps of others than the listener and the selector.
LEMMA OthersKeepWatch ==
    ASSUME Guarded, Owned', UNCHANGED <<io, acc>>,
           mapRegisted' \subseteq mapRegisted, mapRead' \subseteq mapRead,
           \A p \in Endpoint : stage'[p] = "unborn" => stage[p] = "unborn",
           acc.pc = "map" => acc.p \in mapRead',
           clo'[stopper].pc = "idle" => clo'[stopper].p = None,
           \A p \in mapRegisted' : stage'[p] = "live" /\ clo'[stopper].p # p =>
               stage[p] = "live" /\ clo[stopper].p # p /\ (p \in mapRead => p \in mapRead')
    PROVE  Guarded'
<1>1. mapRead \subseteq Endpoint
      BY DEF Guarded, Owned, Typed, TypeOK
<1>2. Sockets'
      BY <1>1 DEF Guarded, Sockets
<1>3. Watched'
      BY DEF Guarded, Watched
<1> QED  BY <1>2, <1>3 DEF Guarded

\* A step of the selector thread of p.
LEMMA ReaderKeepsWatch ==
    ASSUME Guarded, Owned', NEW p \in Endpoint, UNCHANGED <<stage, acc, clo>>,
           \A q \in Endpoint \ {p} : io'[q] = io[q],
           mapRegisted' \subseteq mapRegisted, mapRead' \ {p} = mapRead \ {p},
           stage[p] # "unborn", acc.pc = "map" => acc.p # p,
           io'[p].pc # "idle" => p \notin mapRead',
           io'[p].pc = "idle" /\ p \in mapRegisted' => p \in mapRead'
    PROVE  Guarded'
<1>1. mapRead' \subseteq Endpoint /\ mapRegisted' \subseteq Endpoint
      BY DEF Owned, Typed, TypeOK
<1>2. acc.pc = "map" => acc.p \in Endpoint
      BY DEF Guarded, Owned, Typed, Named
<1>3. Sockets'
      BY <1>1, <1>2 DEF Guarded, Sockets
<1>4. Watched'
      <2> SUFFICES ASSUME NEW q \in mapRegisted',
                          io'[q].pc = "idle", stage'[q] = "live", clo'[stopper].p # q
                   PROVE  q \in mapRead'
          BY DEF Watched
      <2>1. CASE q = p
            BY <2>1
      <2>2. CASE q # p
            BY <1>1, <2>2 DEF Guarded, Watched
      <2> QED  BY <2>1, <2>2
<1> QED  BY <1>3, <1>4 DEF Guarded

LEMMA InitGuarded == Init => Guarded
<1> SUFFICES ASSUME Init PROVE Guarded
    OBVIOUS
<1>1. Sockets
      BY DEF Init, Sockets, Closer
<1>2. Watched
      BY DEF Init, Watched
<1> QED  BY <1>1, <1>2, InitOwned DEF Guarded

LEMMA NextGuarded ==
    ASSUME Early = FALSE, Cardinality(Endpoint) <= MaxFds, Guarded, [Next]_vars
    PROVE  Guarded'
<1>0. Owned /\ Owned' /\ Typed /\ Typed'
      BY NextOwned DEF Guarded, Owned
<1> USE <1>0
<1>1. ASSUME NEW p \in Endpoint, Accept(p) PROVE Guarded'
      <2>1. /\ stage[p] = "unborn" /\ acc' = [pc |-> "map", p |-> p]
            /\ mapRead' = mapRead \cup {p}
            /\ stage'[p] = "live" /\ \A q \in Endpoint \ {p} : stage'[q] = stage[q]
            /\ UNCHANGED <<mapRegisted, io, clo>>
            BY <1>1 DEF Accept, Register, tables, ends, Typed, TypeOK
      <2>2. io[p].pc = "idle" /\ p \notin mapRegisted
            BY <2>1 DEF Guarded, Sockets, Owned, Alive
      <2>3. mapRead \subseteq Endpoint /\ mapRegisted \subseteq Endpoint
            BY DEF Typed, TypeOK
      <2>4. Sockets'
            BY <2>1, <2>2, <2>3 DEF Guarded, Sockets
      <2>5. Watched'
            BY <2>1, <2>2, <2>3 DEF Guarded, Watched
      <2> QED  BY <2>4, <2>5 DEF Guarded
<1>2. ASSUME NEW p \in Endpoint, AcceptRefused(p) PROVE Guarded'
      <2>1. /\ stage[p] = "unborn"
            /\ stage'[p] = "deleted" /\ \A q \in Endpoint \ {p} : stage'[q] = stage[q]
            /\ UNCHANGED <<mapRegisted, mapRead, acc, io, clo>>
            BY <1>2 DEF AcceptRefused, tables, ends, Typed, TypeOK
      <2>2. mapRegisted \subseteq Endpoint
            BY DEF Typed, TypeOK
      <2> QED  BY <2>1, <2>2, OthersKeepWatch DEF Guarded, Sockets
<1>3. ASSUME AcceptMap PROVE Guarded'
      <2>1. /\ acc.pc = "map" /\ mapRegisted' = mapRegisted \cup {acc.p} /\ acc'.pc = "list"
            /\ UNCHANGED <<stage, mapRead, io, clo>>
            BY <1>3 DEF AcceptMap, ends, Typed, TypeOK
      <2>2. Sockets'
            BY <2>1 DEF Guarded, Sockets
      <2>3. Watched'
            BY <2>1 DEF Guarded, Sockets, Watched
      <2> QED  BY <2>2, <2>3 DEF Guarded
<1>4. ASSUME AcceptList \/ AcceptNm PROVE Guarded'
      <2>1. acc'.pc # "map" /\ UNCHANGED <<stage, mapRead, mapRegisted, io, clo>>
            BY <1>4 DEF AcceptList, AcceptNm, ends, Typed, TypeOK
      <2> QED  BY <2>1 DEF Guarded, Sockets, Watched
<1>5. ASSUME NEW p \in Endpoint, Active(p) PROVE Guarded'
      <2>1. /\ p \in mapRead /\ acc.p # p /\ mapRead' = mapRead \ {p}
            /\ io'[p].pc = "ready" /\ \A q \in Endpoint \ {p} : io'[q] = io[q]
            /\ UNCHANGED <<stage, mapRegisted, acc, clo>>
            BY <1>5, IoMoves DEF Active, tables, ends
      <2>2. stage[p] # "unborn"
            BY <2>1 DEF Guarded, Sockets
      <2> QED  BY <2>1, <2>2, ReaderKeepsWatch
<1>6. ASSUME NEW p \in Endpoint, io[p].pc # "idle"
      PROVE  p \notin mapRead /\ stage[p] # "unborn" /\ (acc.pc = "map" => acc.p # p)
      BY <1>6 DEF Guarded, Sockets
<1>7. ASSUME NEW p \in Endpoint,
             \/ Recv(p) \/ FirstList(p) \/ FirstRoute(p) \/ HelloFails(p)
             \/ \E k \in KeysOf[p] : Packet(p, k)
      PROVE  Guarded'
      <2>1. /\ io[p].pc # "idle" /\ io'[p].pc # "idle" /\ \A q \in Endpoint \ {p} : io'[q] = io[q]
            <3>1. CASE Recv(p) \/ FirstList(p) \/ HelloFails(p)
                  <4>1. PICK pc : Io(p, pc) /\ pc # "idle" /\ io[p].pc # "idle"
                        BY <3>1 DEF Recv, FirstList, HelloFails
                  <4> QED  BY <4>1, IoMoves
            <3>2. CASE FirstRoute(p)
                  BY <3>2 DEF FirstRoute, Typed, TypeOK
            <3>3. CASE \E k \in KeysOf[p] : Packet(p, k)
                  BY <3>3 DEF Packet, Typed, TypeOK
            <3> QED  BY <1>7, <3>1, <3>2, <3>3
      <2>2. UNCHANGED <<stage, mapRead, mapRegisted, acc, clo>>
            BY <1>7 DEF Recv, FirstList, FirstRoute, HelloFails, Packet, tables, ends
      <2> QED  BY <1>6, <2>1, <2>2, ReaderKeepsWatch
<1>8. ASSUME NEW p \in Endpoint, RecvReqClose(p) PROVE Guarded'
      <2>1. /\ io[p].pc # "idle" /\ \A q \in Endpoint \ {p} : io'[q] = io[q]
            /\ mapRegisted' = mapRegisted \ {p}
            /\ UNCHANGED <<stage, mapRead, acc, clo>>
            BY <1>8, IoMoves DEF RecvReqClose, UnRegisterAio, ends
      <2> QED  BY <1>6, <2>1, ReaderKeepsWatch
<1>9. ASSUME NEW p \in Endpoint, RecvEnque(p) PROVE Guarded'
      <2>1. /\ Reading(p) /\ io[p].pc # "idle" /\ \A q \in Endpoint \ {p} : io'[q] = io[q]
            /\ UNCHANGED <<stage, mapRead, mapRegisted, acc, clo>>
            BY <1>9, IoMoves DEF RecvEnque, Reading, tables
      <2>2. p \notin mapRegisted
            BY <2>1 DEF Owned, Apart, Taken
      <2> QED  BY <1>6, <2>1, <2>2, ReaderKeepsWatch
<1>10. ASSUME NEW p \in Endpoint, Again(p) PROVE Guarded'
      <2>1. /\ io[p].pc # "idle" /\ io'[p].pc = "idle" /\ \A q \in Endpoint \ {p} : io'[q] = io[q]
            /\ mapRead' = IF p \in mapRegisted /\ Room THEN mapRead \cup {p} ELSE mapRead
            /\ UNCHANGED <<stage, mapRegisted, acc, clo>>
            BY <1>10, IoMoves DEF Again, Register, tables, ends
      <2>2. Room
            BY <1>6, <2>1, RoomForAll
      <2> QED  BY <1>6, <2>1, <2>2, ReaderKeepsWatch
<1>11. ASSUME NEW s \in Sender,
              SenderThread(s) \/ \E k \in Key : SendPacket(s, k)
       PROVE  Guarded'
      <2>1. UNCHANGED <<stage, mapRead, acc, io, clo>> /\ mapRegisted' \subseteq mapRegisted
            BY <1>11 DEF SenderThread, SendReqClose, SendEnque, SendDone, Send, SendError, SendPacket,
                         UnRegisterAio, tables, ends
      <2> QED  BY <2>1, OthersKeepWatch DEF Guarded, Sockets
<1>12. ASSUME NEW c \in Closer, UnRegister(c) PROVE Guarded'
      <2>1. PICK q : q = clo[c].p
            OBVIOUS
      <2>2. /\ q \in Endpoint /\ clo[c].pc = "unreg" /\ mapRead' = mapRead \ {q}
            /\ clo'[c].pc = "nm" /\ clo'[c].p = q /\ \A d \in Closer \ {c} : clo'[d] = clo[d]
            /\ UNCHANGED <<stage, mapRegisted, acc, io>>
            BY <1>12, <2>1 DEF UnRegister, tables, ends, Typed, TypeOK, Named
      <2>3. /\ clo'[stopper].p = clo[stopper].p
            /\ clo'[stopper].pc = "idle" => clo[stopper].pc = "idle"
            BY <2>1, <2>2 DEF Closer
      <2>4. acc.pc = "map" => acc.p # q
            <3>1. CASE c = worker
                  BY <2>1, <2>2, <3>1 DEF Owned, Alive, Taken, Working
            <3>2. CASE c = stopper
                  BY <2>1, <2>2, <3>2 DEF Owned, Alive
            <3> QED  BY <3>1, <3>2 DEF Closer
      <2>5. q \in mapRegisted => clo[stopper].p = q
            <3>1. CASE c = worker
                  BY <2>1, <2>2, <3>1 DEF Owned, Apart, Taken, Working
            <3> QED  BY <2>1, <3>1 DEF Closer
      <2> QED  BY <2>2, <2>3, <2>4, <2>5, OthersKeepWatch DEF Guarded, Sockets
<1>13. ASSUME NEW c \in Closer,
              RemoveNm(c) \/ CopyKeys(c) \/ RemoveRoutes(c) \/ RemoveAccepted(c)
       PROVE  Guarded'
      <2>1. UNCHANGED <<stage, mapRead, mapRegisted, acc, io>>
            BY <1>13 DEF RemoveNm, CopyKeys, RemoveRoutes, RemoveAccepted, tables, ends
      <2>2. clo'[stopper].p = clo[stopper].p
            /\ (clo'[stopper].pc = "idle" => clo[stopper].pc = "idle")
            BY <1>13, CloserWalks DEF Closer
      <2> QED  BY <2>1, <2>2, OthersKeepWatch DEF Guarded, Sockets
<1>14. ASSUME NEW c \in Closer, Delete(c) PROVE Guarded'
      <2>1. PICK q : q = clo[c].p
            OBVIOUS
      <2>2. /\ q \in Endpoint
            /\ clo'[c].pc = "idle" /\ clo'[c].p = None /\ \A d \in Closer \ {c} : clo'[d] = clo[d]
            /\ stage'[q] = "deleted" /\ \A p \in Endpoint \ {q} : stage'[p] = stage[p]
            /\ UNCHANGED <<mapRead, mapRegisted, acc, io>>
            BY <1>14, <2>1 DEF Delete, tables, ends, Typed, TypeOK, Named
      <2>3. clo'[stopper].pc = "idle" => clo'[stopper].p = None
            BY <2>2 DEF Closer, Guarded, Sockets
      <2>4. clo'[stopper].p = clo[stopper].p \/ clo[stopper].p = q
            BY <2>1, <2>2 DEF Closer
      <2>5. mapRegisted \subseteq Endpoint
            BY DEF Typed, TypeOK
      <2> QED  BY <2>2, <2>3, <2>4, <2>5, OthersKeepWatch DEF Guarded, Sockets
<1>15. ASSUME \/ WorkLoop \/ WorkCheck \/ WorkWait \/ WorkNext \/ WorkDrain
              \/ StopListener \/ StopLock \/ StopClear \/ StopEndThread \/ StopSignal \/ StopJoined
              \/ \E p \in Endpoint : HangUp(p)
       PROVE  Guarded'
      <2>1. /\ UNCHANGED <<stage, mapRead, acc, io>> /\ mapRegisted' \subseteq mapRegisted
            /\ clo'[stopper] = clo[stopper]
            BY <1>15 DEF WorkLoop, WorkCheck, WorkWait, WorkNext, WorkDrain, StopListener, StopLock,
                         StopClear, StopEndThread, StopSignal, StopJoined, HangUp, Close, tables,
                         ends, worker, stopper, Closer, Typed, TypeOK
      <2> QED  BY <2>1, OthersKeepWatch DEF Guarded, Sockets
<1>16. ASSUME NEW p \in Endpoint, StopClose(p) PROVE Guarded'
      <2>1. /\ clo'[stopper].p = p /\ clo'[stopper].pc = "unreg" /\ clo[stopper].pc = "idle"
            /\ UNCHANGED <<stage, mapRead, mapRegisted, acc, io>>
            BY <1>16 DEF StopClose, Close, tables, ends, Closer, Typed, TypeOK
      <2>2. clo[stopper].p = None /\ \A q \in mapRegisted : q # None
            BY <2>1, EndpointsAssumption DEF Guarded, Sockets, Typed, TypeOK
      <2> QED  BY <2>1, <2>2, OthersKeepWatch DEF Guarded, Sockets
<1>17. ASSUME UNCHANGED vars PROVE Guarded'
      <2>1. UNCHANGED <<stage, mapRead, mapRegisted, acc, io, clo>>
            BY <1>17 DEF vars, moving, tables, ends
      <2> QED  BY <2>1, OthersKeepWatch DEF Guarded, Sockets
<1> QED  BY <1>1, <1>2, <1>3, <1>4, <1>5, <1>7, <1>8, <1>9, <1>10, <1>11, <1>12, <1>13, <1>14,
            <1>15, <1>16, <1>17
         DEF Next, Listener, IoThread, IoStep, WorkerThread, Stopping, CloseStep, Closer

\* No connection is forgotten: a registered socket that nobody reads is watched, as long as
\* OnAccept() is through before data comes and the selector could take all the connections.
\* (It lets a read socket go without a word if its place has gone to another.)
THEOREM WatchedWhenRoom ==
    ASSUME Early = FALSE, Cardinality(Endpoint) <= MaxFds
    PROVE  Spec => []Watched
<1>1. Spec => []Guarded
      BY InitGuarded, NextGuarded, PTL DEF Spec
<1> QED  BY <1>1, PTL DEF Guarded
-----------------------------------------------------------------------------
(* Senders.  Who is in the middle of SendPacket() holds the mutex of the   *)
(* table it has its endpoints from, and that table waits for it.           *)

NoRoute(p) == \A k \in Key : mapEpNormal[k] # p

\* The endpoints that SendPacket() may choose.
Served == IF m_nBroadcast = 0 THEN {mapEpNormal[k] : k \in Key} ELSE lstEpAccepted

SenderServes(s) ==
    /\ snd[s].pc = "idle" => snd[s].todo = {}
    /\ snd[s].pc # "idle" => lock[SendLock] = s /\ snd[s].todo \subseteq Served
    /\ snd[s].pc \in {"close", "enque"} => snd[s].p \in Served
    /\ snd[s].pc \in {"idle", "next"} => snd[s].p = None
    /\ SendsFail = FALSE => snd[s].pc \in {"idle", "next"}

Serving == \A s \in Sender : SenderServes(s)

\* Without routes in the configuration there are none.
Plain == m_nBroadcast # 0 => /\ \A k \in Key : mapEpNormal[k] = None
                             /\ \A p \in Endpoint : io[p].pc \notin {"list", "route"}

\* A step of others: if the table changes, nobody is sending.
LEMMA TableWaits ==
    ASSUME Typed, Typed', Serving, UNCHANGED <<m_nBroadcast, snd>>,
           lock'[SendLock] = lock[SendLock],
           Served' = Served \/ Free(SendLock)
    PROVE  Serving'
<1>1. SendLock' = SendLock
      BY DEF SendLock
<1>2. SUFFICES ASSUME NEW s \in Sender PROVE SenderServes(s)'
      BY DEF Serving
<1>3. SenderServes(s)
      BY DEF Serving
<1>4. Free(SendLock) => snd[s].pc = "idle"
      BY <1>3, EndpointsAssumption DEF Free, SenderServes
<1>5. snd[s].pc \in {"idle", "next", "close", "enque"}
      BY DEF Typed, TypeOK
<1> DEFINE S == Served'
<1>6. S = Served \/ snd[s].pc = "idle"
      BY <1>4
<1> HIDE DEF S
<1>7. /\ snd[s].pc # "idle" => lock'[SendLock] = s /\ snd[s].todo \subseteq S
      /\ snd[s].pc \in {"close", "enque"} => snd[s].p \in S
      BY <1>3, <1>6 DEF SenderServes
<1> QED  BY <1>1, <1>3, <1>7 DEF SenderServes, S

\* A step of one sender that has or takes the mutex.
LEMMA SenderStep ==
    ASSUME Typed, Typed', Serving, NEW s \in Sender,
           UNCHANGED <<m_nBroadcast, mapEpNormal, lstEpAccepted>>,
           \A t \in Sender \ {s} : snd'[t] = snd[t],
           lock[SendLock] \in {s, None},
           SenderServes(s)'
    PROVE  Serving'
<1>1. SUFFICES ASSUME NEW t \in Sender, t # s PROVE SenderServes(t)'
      BY DEF Serving
<1>2. SenderServes(t)
      BY DEF Serving
<1>3. snd[t].pc = "idle" /\ snd'[t] = snd[t]
      BY <1>1, <1>2, EndpointsAssumption DEF SenderServes
<1> QED  BY <1>2, <1>3 DEF SenderServes

LEMMA NextServing ==
    ASSUME Typed, Serving, [Next]_vars
    PROVE  Serving'
<1>0. Typed' /\ m_nBroadcast' = m_nBroadcast
      BY NextTyped DEF Next, vars
<1> USE <1>0
<1>1. SendLock \in {"csEpNormal", "csEpAccepted"} /\ SendLock' = SendLock
      BY DEF SendLock
<1>2. \A s \in Sender : SenderServes(s) /\ snd[s] \in SenderState
      BY DEF Serving, Typed, TypeOK, SenderState
<1>3. ASSUME UNCHANGED <<mapEpNormal, lstEpAccepted>> PROVE Served' = Served
      BY <1>3 DEF Served
<1>4. ASSUME NEW s \in Sender, NEW k \in Key, SendPacket(s, k) PROVE Serving'
      <2>1. PICK todo \in Targets(k) :
                snd' = [snd EXCEPT ![s] = [pc |-> "next", p |-> None, todo |-> todo]]
            BY <1>4 DEF SendPacket
      <2>2. /\ lock[SendLock] = None /\ lock'[SendLock] = s
            /\ UNCHANGED <<mapEpNormal, lstEpAccepted>>
            BY <1>1, <1>4 DEF SendPacket, Free, tables, Mutex, Typed, TypeOK
      <2>3. todo \subseteq Served
            BY DEF Targets, Served, Typed, TypeOK
      <2>4. SenderServes(s)'
            BY <1>1, <1>3, <2>1, <2>2, <2>3 DEF SenderServes, Typed, TypeOK
      <2>5. \A t \in Sender \ {s} : snd'[t] = snd[t]
            BY <2>1 DEF Typed, TypeOK
      <2> QED  BY <2>2, <2>4, <2>5, SenderStep
<1>5. ASSUME NEW s \in Sender, NEW p \in Endpoint, Send(s, p) PROVE Serving'
      <2>1. /\ snd[s].pc = "next" /\ snd'[s].pc = "next" /\ snd'[s].p = snd[s].p
            /\ snd'[s].todo \subseteq snd[s].todo
            /\ \A t \in Sender \ {s} : snd'[t] = snd[t]
            /\ UNCHANGED <<lock, mapEpNormal, lstEpAccepted>>
            BY <1>5, <1>2 DEF Send, Rest, tables, Typed, TypeOK
      <2>2. SenderServes(s)' /\ lock[SendLock] = s
            BY <1>1, <1>2, <1>3, <2>1 DEF SenderServes
      <2> QED  BY <2>1, <2>2, SenderStep
<1>6. ASSUME NEW s \in Sender, NEW p \in Endpoint, SendError(s, p) PROVE Serving'
      <2>1. /\ snd[s].pc = "next" /\ snd'[s].pc = "close" /\ snd'[s].p = p
            /\ p \in snd[s].todo /\ snd'[s].todo \subseteq snd[s].todo
            /\ SendsFail
            /\ \A t \in Sender \ {s} : snd'[t] = snd[t]
            /\ UNCHANGED <<lock, mapEpNormal, lstEpAccepted>>
            BY <1>6, <1>2 DEF SendError, Rest, tables, Typed, TypeOK
      <2>2. SenderServes(s)' /\ lock[SendLock] = s
            BY <1>1, <1>2, <1>3, <2>1 DEF SenderServes
      <2> QED  BY <2>1, <2>2, SenderStep
<1>7. ASSUME NEW s \in Sender, SendReqClose(s) PROVE Serving'
      <2>1. /\ snd[s].pc = "close"
            /\ snd'[s] = IF snd[s].p \in mapRegisted THEN [snd[s] EXCEPT !.pc = "enque"]
                         ELSE [snd[s] EXCEPT !.pc = "next", !.p = None]
            /\ \A t \in Sender \ {s} : snd'[t] = snd[t]
            /\ UNCHANGED <<lock, mapEpNormal, lstEpAccepted>>
            BY <1>7 DEF SendReqClose, Claimed, Typed, TypeOK
      <2>2. /\ snd'[s].todo = snd[s].todo
            /\ \/ snd'[s].pc = "enque" /\ snd'[s].p = snd[s].p
               \/ snd'[s].pc = "next" /\ snd'[s].p = None
            <3>1. CASE snd[s].p \in mapRegisted
                  BY <1>2, <2>1, <3>1 DEF SenderState
            <3>2. CASE snd[s].p \notin mapRegisted
                  BY <1>2, <2>1, <3>2 DEF SenderState
            <3> QED  BY <3>1, <3>2
      <2>3. SenderServes(s)' /\ lock[SendLock] = s
            BY <1>1, <1>2, <1>3, <2>1, <2>2 DEF SenderServes
      <2> QED  BY <2>1, <2>3, SenderStep
<1>8. ASSUME NEW s \in Sender, SendEnque(s) PROVE Serving'
      <2>1. /\ snd[s].pc = "enque"
            /\ snd'[s] = [snd[s] EXCEPT !.pc = "next", !.p = None]
            /\ \A t \in Sender \ {s} : snd'[t] = snd[t]
            /\ UNCHANGED <<lock, mapEpNormal, lstEpAccepted>>
            BY <1>8 DEF SendEnque, tables, Typed, TypeOK
      <2>2. /\ snd'[s].todo = snd[s].todo /\ snd'[s].pc = "next" /\ snd'[s].p = None
            BY <1>2, <2>1 DEF SenderState
      <2>3. SenderServes(s)' /\ lock[SendLock] = s
            BY <1>1, <1>2, <1>3, <2>1, <2>2 DEF SenderServes
      <2> QED  BY <2>1, <2>3, SenderStep
<1>9. ASSUME NEW s \in Sender, SendDone(s) PROVE Serving'
      <2>1. /\ snd[s].pc = "next" /\ snd[s].todo = {}
            /\ snd'[s].pc = "idle" /\ snd'[s].p = snd[s].p /\ snd'[s].todo = {}
            /\ \A t \in Sender \ {s} : snd'[t] = snd[t]
            /\ UNCHANGED <<mapEpNormal, lstEpAccepted>>
            BY <1>9, <1>2 DEF SendDone, tables, Typed, TypeOK
      <2>2. SenderServes(s)' /\ lock[SendLock] = s
            BY <1>2, <2>1 DEF SenderServes
      <2> QED  BY <2>1, <2>2, SenderStep
<1>10. ASSUME \/ Listener
              \/ \E p \in Endpoint : IoThread(p) \/ HangUp(p)
              \/ WorkerThread \/ StopListener \/ Stopping
              \/ UNCHANGED vars
       PROVE  snd' = snd /\ lock'[SendLock] = lock[SendLock]
      <2>1. CASE Listener
            BY <2>1 DEF Listener, Accept, AcceptRefused, AcceptMap, AcceptList, AcceptNm
      <2>2. ASSUME NEW p \in Endpoint, IoThread(p) \/ HangUp(p)
            PROVE  snd' = snd /\ lock' = lock
            BY <2>2 DEF IoThread, IoStep, HangUp, Active, Recv, Packet, FirstList, FirstRoute,
                        HelloFails, RecvReqClose, RecvEnque, Again
      <2>3. ASSUME NEW c \in Closer, CloseStep(c)
            PROVE  snd' = snd /\ lock' = lock
            BY <2>3 DEF CloseStep, UnRegister, RemoveNm, CopyKeys, RemoveRoutes, RemoveAccepted,
                        Delete
      <2>4. CASE WorkLoop \/ WorkCheck \/ WorkWait \/ WorkNext \/ WorkDrain \/ StopListener
            BY <2>4 DEF WorkLoop, WorkCheck, WorkWait, WorkNext, WorkDrain, StopListener
      <2>5. CASE \/ StopEndThread \/ StopSignal \/ StopJoined
                 \/ \E p \in Endpoint : StopClose(p)
            BY <2>5 DEF StopEndThread, StopSignal, StopJoined, StopClose
      <2>6. CASE StopLock \/ StopClear
            BY <1>1, <2>6 DEF StopLock, StopClear, Unlock, Mutex, Typed, TypeOK
      <2>7. CASE UNCHANGED vars
            BY <2>7 DEF vars, moving
      <2> QED  BY <1>10, <2>1, <2>2, <2>3, <2>4, <2>5, <2>6, <2>7
               DEF WorkerThread, Stopping, Closer
<1>11. ASSUME \/ AcceptList
              \/ \E p \in Endpoint : FirstList(p) \/ FirstRoute(p)
              \/ \E c \in Closer : RemoveRoutes(c) \/ RemoveAccepted(c)
       PROVE  Served' = Served \/ Free(SendLock)
      <2>1. ASSUME AcceptList \/ \E p \in Endpoint : FirstList(p)
            PROVE  Free("csEpAccepted") /\ UNCHANGED mapEpNormal
            BY <2>1 DEF AcceptList, FirstList
      <2>2. ASSUME \E p \in Endpoint : FirstRoute(p)
            PROVE  Free("csEpNormal") /\ UNCHANGED lstEpAccepted
            BY <2>2 DEF FirstRoute
      <2>3. ASSUME \E c \in Closer : RemoveRoutes(c)
            PROVE  Free("csEpNormal") /\ UNCHANGED lstEpAccepted
            BY <2>3 DEF RemoveRoutes
      <2>4. ASSUME \E c \in Closer : RemoveAccepted(c)
            PROVE  Free("csEpAccepted") /\ UNCHANGED mapEpNormal
            BY <2>4 DEF RemoveAccepted
      <2>5. \/ Free("csEpAccepted") /\ UNCHANGED mapEpNormal
            \/ Free("csEpNormal") /\ UNCHANGED lstEpAccepted
            BY <1>11, <2>1, <2>2, <2>3, <2>4
      <2> QED  BY <2>5 DEF Served, SendLock
<1>12. ASSUME NEW p \in Endpoint,
              \/ Accept(p) \/ AcceptRefused(p) \/ HangUp(p)
              \/ Active(p) \/ Recv(p) \/ HelloFails(p) \/ RecvReqClose(p) \/ RecvEnque(p) \/ Again(p)
              \/ \E k \in KeysOf[p] : Packet(p, k)
       PROVE  Served' = Served
      BY <1>12 DEF Accept, AcceptRefused, HangUp, Active, Recv, HelloFails,
                   RecvReqClose, RecvEnque, Again, Packet, tables, Served
<1>13. ASSUME NEW c \in Closer, UnRegister(c) \/ RemoveNm(c) \/ CopyKeys(c) \/ Delete(c)
       PROVE  Served' = Served
      BY <1>13 DEF UnRegister, RemoveNm, CopyKeys, Delete, tables, Served
<1>14. ASSUME \/ WorkLoop \/ WorkCheck \/ WorkWait \/ WorkNext \/ WorkDrain
              \/ StopListener \/ StopLock \/ StopClear \/ StopEndThread \/ StopSignal \/ StopJoined
              \/ \E p \in Endpoint : StopClose(p)
              \/ UNCHANGED vars
              \/ AcceptMap \/ AcceptNm
       PROVE  Served' = Served
      BY <1>14 DEF AcceptMap, AcceptNm, WorkLoop, WorkCheck, WorkWait, WorkNext, WorkDrain, StopListener, StopLock,
                   StopClear, StopEndThread, StopSignal, StopJoined, StopClose, tables, Served,
                   vars, moving
<1>15. ASSUME \/ Listener
              \/ \E p \in Endpoint : IoThread(p) \/ HangUp(p)
              \/ WorkerThread \/ StopListener \/ Stopping
              \/ UNCHANGED vars
       PROVE  Served' = Served \/ Free(SendLock)
      <2>1. CASE Listener
            BY <1>11, <1>12, <1>14, <2>1 DEF Listener
      <2>2. ASSUME NEW p \in Endpoint, IoThread(p) \/ HangUp(p)
            PROVE  Served' = Served \/ Free(SendLock)
            BY <1>11, <1>12, <2>2 DEF IoThread, IoStep
      <2>3. ASSUME NEW c \in Closer, CloseStep(c)
            PROVE  Served' = Served \/ Free(SendLock)
            BY <1>11, <1>13, <2>3 DEF CloseStep
      <2> QED  BY <1>14, <1>15, <2>1, <2>2, <2>3 DEF WorkerThread, Stopping, Closer
<1>16. CASE \/ Listener
            \/ \E p \in Endpoint : IoThread(p) \/ HangUp(p)
            \/ WorkerThread \/ StopListener \/ Stopping
            \/ UNCHANGED vars
      BY <1>10, <1>15, <1>16, TableWaits
<1> QED  BY <1>4, <1>5, <1>6, <1>7, <1>8, <1>9, <1>16 DEF Next, SenderThread
LEMMA NextPlain ==
    ASSUME Typed, Plain, [Next]_vars
    PROVE  Plain'
<1>0. Typed' /\ m_nBroadcast' = m_nBroadcast
      BY NextTyped DEF Next, vars
<1> SUFFICES ASSUME m_nBroadcast # 0
             PROVE  /\ \A k \in Key : mapEpNormal'[k] = None
                    /\ \A p \in Endpoint : io'[p].pc \notin {"list", "route"}
    BY <1>0 DEF Plain
<1>1. /\ \A k \in Key : mapEpNormal[k] = None
      /\ \A p \in Endpoint : io[p].pc \notin {"list", "route"}
      BY DEF Plain
<1>2. CASE UNCHANGED <<mapEpNormal, io>>
      BY <1>1, <1>2
<1>3. ASSUME NEW p \in Endpoint, NEW pc, Io(p, pc), pc \notin {"list", "route"},
             mapEpNormal' = mapEpNormal
      PROVE  Plain'
      <2>1. io'[p].pc = pc /\ \A q \in Endpoint \ {p} : io'[q] = io[q]
            BY <1>3, IoMoves
      <2> QED  BY <1>1, <1>3, <2>1 DEF Plain
<1>4. ASSUME NEW p \in Endpoint, IoThread(p) PROVE Plain'
      <2>1. CASE Active(p) \/ Recv(p) \/ HelloFails(p) \/ Again(p)
            <3>1. PICK pc : Io(p, pc) /\ pc \notin {"list", "route"}
                  BY <2>1 DEF Active, Recv, HelloFails, Again
            <3>2. mapEpNormal' = mapEpNormal
                  BY <2>1 DEF Active, Recv, HelloFails, Again, tables
            <3> QED  BY <1>3, <3>1, <3>2
      <2>2. CASE RecvReqClose(p)
            <3>1. PICK pc : Io(p, pc) /\ pc \notin {"list", "route"}
                  BY <2>2 DEF RecvReqClose, After
            <3> QED  BY <1>3, <2>2, <3>1 DEF RecvReqClose
      <2>3. CASE RecvEnque(p)
            <3>1. PICK pc : Io(p, pc) /\ pc \notin {"list", "route"}
                  BY <2>3 DEF RecvEnque, After
            <3> QED  BY <1>3, <2>3, <3>1 DEF RecvEnque, tables
      <2>4. ~FirstList(p) /\ ~FirstRoute(p)
            BY <1>1 DEF FirstList, FirstRoute
      <2>5. ASSUME NEW k \in KeysOf[p], Packet(p, k) PROVE Plain'
            BY <1>1, <2>5 DEF Packet, Plain
      <2> QED  BY <1>4, <2>1, <2>2, <2>3, <2>4, <2>5 DEF IoThread, IoStep
<1>5. ASSUME NEW c \in Closer, CloseStep(c) PROVE Plain'
      <2>1. io' = io /\ \A k \in Key : mapEpNormal'[k] \in {None, mapEpNormal[k]}
            BY <1>5 DEF CloseStep, UnRegister, RemoveNm, CopyKeys, RemoveRoutes, RemoveAccepted,
                        Delete, Erased, tables
      <2> QED  BY <1>1, <2>1 DEF Plain
<1>6. ASSUME \/ Listener
             \/ \E p \in Endpoint : HangUp(p) \/ StopClose(p)
             \/ \E s \in Sender : SenderThread(s) \/ \E k \in Key : SendPacket(s, k)
             \/ WorkLoop \/ WorkCheck \/ WorkWait \/ WorkNext \/ WorkDrain
             \/ StopListener \/ StopLock \/ StopClear \/ StopEndThread \/ StopSignal \/ StopJoined
             \/ UNCHANGED vars
      PROVE  UNCHANGED <<mapEpNormal, io>>
      BY <1>6 DEF Listener, Accept, AcceptRefused, AcceptMap, AcceptList, AcceptNm, HangUp,
                  StopClose, SenderThread, SendReqClose, SendEnque, SendDone, Send, SendError,
                  SendPacket, WorkLoop, WorkCheck, WorkWait, WorkNext, WorkDrain, StopListener,
                  StopLock, StopClear, StopEndThread, StopSignal, StopJoined, tables, vars, moving
<1> QED  BY <1>1, <1>2, <1>4, <1>5, <1>6 DEF Next, Plain, WorkerThread, Stopping, Closer

-----------------------------------------------------------------------------
(* A server until Stop() begins to close its endpoints.                    *)

Going == Owned /\ RouteKnown /\ OnItsWay /\ Plain /\ Serving

LEMMA InitGoing == Init => Going
<1> SUFFICES ASSUME Init PROVE Going
    OBVIOUS
<1>1. RouteKnown /\ OnItsWay /\ Plain
      BY DEF Init, RouteKnown, OnItsWay, Plain
<1>2. Serving
      BY DEF Init, Serving, SenderServes
<1> QED  BY <1>1, <1>2, InitOwned DEF Going

LEMMA NextGoing ==
    ASSUME Going, [Next]_vars
    PROVE  Going'
<1>1. Owned' /\ Plain' /\ Serving' /\ Typed'
      BY NextOwned, NextPlain, NextServing, NextTyped DEF Going, Owned
<1>2. RouteKnown' /\ OnItsWay'
      BY NextRouted DEF Going, Routed, Owned
<1> QED  BY <1>1, <1>2 DEF Going

\* Until then only these steps are taken.
ServerStep ==
    \/ Listener
    \/ \E p \in Endpoint : IoThread(p) \/ HangUp(p)
    \/ \E s \in Sender : SenderThread(s) \/ \E k \in Key : SendPacket(s, k)
    \/ WorkerThread
    \/ StopListener
    \/ UNCHANGED vars

LEMMA UpStep ==
    ASSUME Going, [Next]_vars, Up'
    PROVE  Up /\ ServerStep /\ m_nBroadcast' = m_nBroadcast /\ sSocket' = sSocket
<1>1. Typed /\ m_nBroadcast' = m_nBroadcast /\ sSocket' = sSocket
      BY DEF Going, Owned, Next, vars
<1>2. ~Stopping
      <2>1. ~StopLock /\ ~StopClear /\ ~StopEndThread /\ ~StopSignal /\ ~StopJoined
            BY DEF StopLock, StopClear, StopEndThread, StopSignal, StopJoined, Up
      <2>2. ASSUME NEW p \in Endpoint PROVE ~StopClose(p)
            BY DEF StopClose, ends, Up
      <2>3. ~CloseStep(stopper)
            <3>1. clo[stopper].pc # "idle" => stop = "closing"
                  BY DEF Going, Owned, Alive
            <3>2. CloseStep(stopper) => stop' = stop /\ clo[stopper].pc # "idle"
                  BY DEF CloseStep, UnRegister, RemoveNm, CopyKeys, RemoveRoutes, RemoveAccepted,
                         Delete, ends
            <3> QED  BY <3>1, <3>2 DEF Up
      <2> QED  BY <2>1, <2>2, <2>3 DEF Stopping
<1>3. ServerStep
      BY <1>2 DEF Next, ServerStep
<1>4. Up
      <2>1. StopListener => Up
            BY DEF StopListener, Up
      <2>2. ASSUME ~StopListener PROVE stop' = stop
            <3>1. CASE Listener
                  BY <3>1 DEF Listener, Accept, AcceptRefused, AcceptMap, AcceptList, AcceptNm, ends
            <3>2. ASSUME NEW p \in Endpoint, IoThread(p) \/ HangUp(p) PROVE stop' = stop
                  BY <3>2 DEF IoThread, IoStep, Active, Recv, Packet, FirstList, FirstRoute,
                              HelloFails, RecvReqClose, RecvEnque, Again, HangUp, ends
            <3>3. ASSUME NEW s \in Sender, SenderThread(s) \/ \E k \in Key : SendPacket(s, k)
                  PROVE  stop' = stop
                  BY <3>3 DEF SenderThread, SendReqClose, SendEnque, SendDone, Send, SendError,
                              SendPacket, ends
            <3>4. CASE WorkerThread
                  BY <3>4 DEF WorkerThread, WorkLoop, WorkCheck, WorkWait, WorkNext, WorkDrain,
                              CloseStep, UnRegister, RemoveNm, CopyKeys, RemoveRoutes,
                              RemoveAccepted, Delete, ends
            <3>5. CASE UNCHANGED vars
                  BY <3>5 DEF vars, moving, ends
            <3> QED  BY <1>3, <2>2, <3>1, <3>2, <3>3, <3>4, <3>5 DEF ServerStep
      <2> QED  BY <2>1, <2>2 DEF Up
<1> QED  BY <1>1, <1>3, <1>4

-----------------------------------------------------------------------------
(* Who uses an endpoint.  The pause before UnRegister() leaves it to       *)
(* nobody but senders, nobody takes it again, and the worker has it off    *)
(* the table that senders look at before it deletes it.                    *)

\* The worker serves one endpoint at a time and does not empty its deque yet.
Busy == bEndThread = FALSE /\ work # "drain" /\ (clo[worker].pc # "idle" => work = "busy")

\* Keys that an endpoint has or asks for are its peer's.
OwnKeys ==
    /\ \A p \in Endpoint : /\ lstKeys[p] \subseteq KeysOf[p]
                           /\ io[p].pc \in {"list", "route"} => io[p].key \in KeysOf[p]
    /\ clo[worker].pc = "routes" => clo[worker].keys \subseteq KeysOf[clo[worker].p]

\* No connection yet or any more, or one that the worker has begun to close.
Gone(p) ==
    \/ stage[p] # "live"
    \/ clo[worker].p = p /\ clo[worker].pc \in {"nm", "keys", "routes", "list", "delete"}

Out == \A p \in Endpoint : Gone(p) => Through(p)

NoName(p) == \A n \in Number : mapNm[n] # p

\* With routes and early data, p may get on the list after its first packet.
Unlisted(p) == m_nBroadcast # 0 \/ Early = FALSE => p \notin lstEpAccepted

\* How far the worker is with its endpoint, and that it was so with those deleted.
Parted ==
    /\ \A p \in Endpoint : stage[p] # "live" => NoRoute(p) /\ NoName(p) /\ Unlisted(p)
    /\ clo[worker].pc \in {"keys", "routes", "list", "delete"} => NoName(clo[worker].p)
    /\ clo[worker].pc = "routes" =>
          /\ \A k \in Key : mapEpNormal[k] = clo[worker].p => k \in clo[worker].keys
          /\ m_nBroadcast = 0 => Unlisted(clo[worker].p)
    /\ clo[worker].pc \in {"list", "delete"} => NoRoute(clo[worker].p)
    /\ clo[worker].pc = "delete" => Unlisted(clo[worker].p)

\* An entry of m_mapNm is under the number of its socket.
Numbered == \A n \in Number : mapNm[n] # None => sSocket[mapNm[n]] = n

\* Where no data comes early: keys come after OnAccept(), and with routes an endpoint that
\* has one is off the list.
Fresh ==
    /\ \A p \in Endpoint : /\ stage[p] = "unborn" => lstKeys[p] = {}
                           /\ acc.p = p => io[p].pc = "idle" /\ lstKeys[p] = {}
    /\ m_nBroadcast = 0 => \A p \in lstEpAccepted : lstKeys[p] = {} \/ io[p].pc = "list"

Calm == Busy /\ OwnKeys /\ Out /\ Parted /\ Numbered /\ (Early = FALSE => Fresh)

LEMMA InitCalm == Init => Calm
<1> SUFFICES ASSUME Init PROVE Calm
    OBVIOUS
<1>1. Busy /\ OwnKeys
      BY DEF Init, Busy, OwnKeys, Closer
<1>2. Out /\ Parted
      BY EndpointsAssumption DEF Init, Out, Gone, Through, Parted, NoRoute, NoName, Unlisted, Closer
<1>3. Numbered /\ Fresh
      BY EndpointsAssumption DEF Init, Numbered, Fresh
<1> QED  BY <1>1, <1>2, <1>3 DEF Calm

LEMMA NextBusy ==
    ASSUME Typed, Busy, ServerStep
    PROVE  Busy'
<1>1. ASSUME \/ Listener
             \/ \E p \in Endpoint : IoThread(p) \/ HangUp(p)
             \/ \E s \in Sender : SenderThread(s) \/ \E k \in Key : SendPacket(s, k)
             \/ StopListener
             \/ UNCHANGED vars
      PROVE  /\ UNCHANGED <<clo, bEndThread>>
             /\ work' = work \/ (work = "asleep" /\ work' = "check")
      <2>1. ASSUME NEW p, Enque(p) PROVE work' = work \/ (work = "asleep" /\ work' = "check")
            BY <2>1 DEF Enque
      <2>2. CASE \/ Listener
                 \/ \E p \in Endpoint : HangUp(p)
                 \/ StopListener
                 \/ UNCHANGED vars
            BY <2>2 DEF Listener, Accept, AcceptRefused, AcceptMap, AcceptList, AcceptNm, HangUp,
                        StopListener, ends, vars, moving
      <2>3. ASSUME NEW p \in Endpoint, IoThread(p)
            PROVE  /\ UNCHANGED <<clo, bEndThread>>
                   /\ work' = work \/ (work = "asleep" /\ work' = "check")
            BY <2>1, <2>3 DEF IoThread, IoStep, Active, Recv, Packet, FirstList, FirstRoute, HelloFails,
                              RecvReqClose, RecvEnque, Again, ends
      <2>4. ASSUME NEW s \in Sender, SenderThread(s) \/ \E k \in Key : SendPacket(s, k)
            PROVE  /\ UNCHANGED <<clo, bEndThread>>
                   /\ work' = work \/ (work = "asleep" /\ work' = "check")
            BY <2>1, <2>4 DEF SenderThread, SendReqClose, SendEnque, SendDone, Send, SendError,
                              SendPacket, ends
      <2> QED  BY <1>1, <2>2, <2>3, <2>4
<1>2. ASSUME WorkLoop \/ WorkCheck \/ WorkWait \/ WorkNext \/ WorkDrain PROVE Busy'
      BY <1>2 DEF Busy, WorkLoop, WorkCheck, WorkWait, WorkNext, WorkDrain, Work
<1>3. ASSUME CloseStep(worker) PROVE Busy'
      BY <1>3 DEF Busy, CloseStep, UnRegister, RemoveNm, CopyKeys, RemoveRoutes, RemoveAccepted,
                  Delete, ends
<1> QED  BY <1>1, <1>2, <1>3 DEF Busy, ServerStep, WorkerThread

\* What the invariants are about, besides the worker.
seen == <<m_nBroadcast, sSocket, stage, mapRead, lstEpAccepted, mapEpNormal, mapNm, lstKeys, acc, io>>

LEMMA NextCalm ==
    ASSUME Paused = TRUE, Going, Calm, ServerStep, Typed',
           m_nBroadcast' = m_nBroadcast, sSocket' = sSocket
    PROVE  Calm'
<1>0. Typed /\ Busy'
      BY NextBusy DEF Going, Owned, Calm
<1> USE <1>0
<1>a. Busy /\ OwnKeys /\ Out /\ Parted /\ Numbered /\ (Early = FALSE => Fresh)
      BY DEF Calm
<1>b. /\ mapRead \subseteq Endpoint /\ lstEpAccepted \subseteq Endpoint
      /\ mapNm \in [Number -> Endpoint \cup {None}]
      /\ clo[worker].pc # "idle" => clo[worker].p \in Endpoint /\ stage[clo[worker].p] = "live"
      BY DEF Going, Owned, Alive, Taken, Working, Typed, TypeOK, Named, Closer
<1>c. \A p \in Endpoint : Gone(p) => io[p].pc = "idle" /\ p \notin mapRead /\ acc.p # p
      BY <1>a DEF Out, Through
\* OnAccept().
<1>1. ASSUME NEW q \in Endpoint, Accept(q) PROVE Calm'
      <2>1. /\ stage[q] = "unborn" /\ acc'.p = q /\ mapRead' = mapRead \cup {q}
            /\ stage'[q] = "live" /\ \A p \in Endpoint \ {q} : stage'[p] = stage[p]
            /\ UNCHANGED <<lstEpAccepted, mapEpNormal, mapNm, lstKeys, io, clo>>
            BY <1>1 DEF Accept, Register, tables, ends, Typed, TypeOK
      <2>2. io[q].pc = "idle"
            BY <1>c, <2>1 DEF Gone
      <2>3. clo[worker].pc # "idle" => clo[worker].p # q
            BY <1>b, <2>1
      <2>4. OwnKeys' /\ Out'
            BY <1>a, <2>1, <2>3 DEF OwnKeys, Out, Gone, Through
      <2>5. Parted'
            BY <1>a, <2>1 DEF Parted, NoRoute, NoName, Unlisted
      <2>6. Numbered' /\ (Early = FALSE => Fresh')
            BY <1>a, <2>1, <2>2 DEF Numbered, Fresh
      <2> QED  BY <2>4, <2>5, <2>6 DEF Calm
<1>2. ASSUME NEW q \in Endpoint, AcceptRefused(q) PROVE Calm'
      <2>1. /\ stage[q] = "unborn" /\ stage'[q] = "deleted"
            /\ \A p \in Endpoint \ {q} : stage'[p] = stage[p]
            /\ UNCHANGED <<mapRead, lstEpAccepted, mapEpNormal, mapNm, lstKeys, acc, io, clo>>
            BY <1>2 DEF AcceptRefused, tables, ends, Typed, TypeOK
      <2>2. OwnKeys' /\ Out'
            BY <1>a, <2>1 DEF OwnKeys, Out, Gone, Through
      <2>3. Parted'
            BY <1>a, <2>1 DEF Parted, NoRoute, NoName, Unlisted
      <2>4. Numbered' /\ (Early = FALSE => Fresh')
            BY <1>a, <2>1 DEF Numbered, Fresh
      <2> QED  BY <2>2, <2>3, <2>4 DEF Calm
<1>3. ASSUME AcceptList PROVE Calm'
      <2>1. /\ acc'.p = acc.p /\ acc.p \in Endpoint /\ lstEpAccepted' = lstEpAccepted \cup {acc.p}
            /\ UNCHANGED <<stage, mapRead, mapEpNormal, mapNm, lstKeys, io, clo>>
            BY <1>3 DEF AcceptList, ends, Typed, TypeOK, Named
      <2>2. ~Gone(acc.p)
            BY <1>c, <2>1
      <2>3. OwnKeys' /\ Out'
            BY <1>a, <2>1 DEF OwnKeys, Out, Gone, Through
      <2>4. Parted'
            BY <1>a, <2>1, <2>2 DEF Parted, NoRoute, NoName, Unlisted, Gone
      <2>5. Numbered' /\ (Early = FALSE => Fresh')
            BY <1>a, <2>1 DEF Numbered, Fresh
      <2> QED  BY <2>3, <2>4, <2>5 DEF Calm
<1>4. ASSUME AcceptNm PROVE Calm'
      <2>1. /\ acc'.p = None /\ acc.p \in Endpoint
            /\ mapNm' = [mapNm EXCEPT ![sSocket[acc.p]] = acc.p]
            /\ UNCHANGED <<stage, mapRead, lstEpAccepted, mapEpNormal, lstKeys, io, clo>>
            BY <1>4 DEF AcceptNm, ends, Typed, TypeOK, Named
      <2>2. \A p \in Endpoint : acc'.p # p
            BY <2>1, EndpointsAssumption
      <2>3. ~Gone(acc.p)
            BY <1>c, <2>1
      <2>4. \A n \in Number : mapNm'[n] \in {mapNm[n], acc.p}
            BY <1>b, <2>1
      <2>5. OwnKeys' /\ Out'
            BY <1>a, <2>1, <2>2 DEF OwnKeys, Out, Gone, Through
      <2>6. Parted'
            BY <1>a, <2>1, <2>3, <2>4 DEF Parted, NoRoute, NoName, Unlisted, Gone
      <2>7. Numbered'
            <3> SUFFICES ASSUME NEW n \in Number, mapNm'[n] # None PROVE sSocket[mapNm'[n]] = n
                BY DEF Numbered
            <3>1. CASE n = sSocket[acc.p]
                  BY <1>b, <2>1, <3>1
            <3>2. CASE n # sSocket[acc.p]
                  BY <1>a, <1>b, <2>1, <3>2 DEF Numbered
            <3> QED  BY <3>1, <3>2
      <2>8. Early = FALSE => Fresh'
            BY <1>a, <2>1, <2>2 DEF Fresh
      <2> QED  BY <2>5, <2>6, <2>7, <2>8 DEF Calm
\* The selector reads nothing of an endpoint that is gone.
<1>5. ASSUME NEW q \in Endpoint, Active(q) PROVE Calm'
      <2>1. /\ q \in mapRead /\ mapRead' = mapRead \ {q} /\ (Early = FALSE => acc.p # q)
            /\ io'[q].pc = "ready" /\ \A p \in Endpoint \ {q} : io'[p] = io[p]
            /\ io[q].pc = "idle"
            /\ UNCHANGED <<stage, lstEpAccepted, mapEpNormal, mapNm, lstKeys, acc, clo>>
            BY <1>5, IoMoves DEF Active, tables, ends
      <2>2. ~Gone(q)
            BY <1>c, <2>1
      <2>3. OwnKeys' /\ Out'
            BY <1>a, <2>1, <2>2 DEF OwnKeys, Out, Gone, Through
      <2>4. Parted'
            BY <1>a, <2>1 DEF Parted, NoRoute, NoName, Unlisted
      <2>5. Numbered' /\ (Early = FALSE => Fresh')
            BY <1>a, <1>b, <2>1 DEF Numbered, Fresh
      <2> QED  BY <2>3, <2>4, <2>5 DEF Calm
<1>6. ASSUME NEW q \in Endpoint,
             Recv(q) \/ HelloFails(q) \/ RecvReqClose(q) \/ RecvEnque(q) \/ Again(q)
      PROVE  Calm'
      <2>1. PICK pc : Io(q, pc) /\ pc \notin {"list", "route"}
            BY <1>6 DEF Recv, HelloFails, RecvReqClose, RecvEnque, Again, After
      <2>2. /\ io[q].pc \notin {"idle", "list", "route"} /\ mapRead' \in {mapRead, mapRead \cup {q}}
            /\ UNCHANGED <<stage, lstEpAccepted, mapEpNormal, mapNm, lstKeys, acc, clo>>
            BY <1>6 DEF Recv, HelloFails, RecvReqClose, RecvEnque, Again, Register, tables, ends
      <2>3. io'[q].pc \notin {"list", "route"} /\ \A p \in Endpoint \ {q} : io'[p] = io[p]
            BY <2>1, IoMoves
      <2>4. ~Gone(q)
            BY <1>c, <2>2
      <2>5. OwnKeys' /\ Out'
            BY <1>a, <2>2, <2>3, <2>4 DEF OwnKeys, Out, Gone, Through
      <2>6. Parted'
            BY <1>a, <2>2 DEF Parted, NoRoute, NoName, Unlisted
      <2>7. Numbered' /\ (Early = FALSE => Fresh')
            BY <1>a, <1>b, <2>2, <2>3 DEF Numbered, Fresh
      <2> QED  BY <2>5, <2>6, <2>7 DEF Calm
<1>7. ASSUME NEW q \in Endpoint, NEW k \in KeysOf[q], Packet(q, k) PROVE Calm'
      <2>1. /\ io[q].pc = "on" /\ lstKeys' = [lstKeys EXCEPT ![q] = @ \cup {k}]
            /\ \/ m_nBroadcast = 0 /\ io' = [io EXCEPT ![q] = [pc |-> "list", key |-> k]]
               \/ m_nBroadcast # 0 /\ io' = io
            /\ UNCHANGED <<stage, mapRead, lstEpAccepted, mapEpNormal, mapNm, acc, clo>>
            BY <1>7 DEF Packet, tables, ends
      <2>2. /\ \A p \in Endpoint \ {q} : io'[p] = io[p] /\ lstKeys'[p] = lstKeys[p]
            /\ io'[q].pc = IF m_nBroadcast = 0 THEN "list" ELSE "on"
            /\ lstKeys'[q] = lstKeys[q] \cup {k}
            /\ io'[q].pc = "list" => io'[q].key = k
            BY <2>1 DEF Typed, TypeOK
      <2>3. ~Gone(q)
            BY <1>c, <2>1
      <2>4. OwnKeys' /\ Out'
            BY <1>a, <2>1, <2>2, <2>3 DEF OwnKeys, Out, Gone, Through
      <2>5. Parted'
            BY <1>a, <2>1 DEF Parted, NoRoute, NoName, Unlisted
      <2>6. Numbered'
            BY <1>a, <2>1 DEF Numbered
      <2>7. ASSUME Early = FALSE PROVE Fresh'
            BY <1>a, <1>b, <2>1, <2>2, <2>3, <2>7 DEF Fresh, Gone
      <2> QED  BY <2>4, <2>5, <2>6, <2>7 DEF Calm
<1>8. ASSUME NEW q \in Endpoint, FirstList(q) PROVE Calm'
      <2>1. /\ io[q].pc = "list" /\ io'[q].pc = "route" /\ io'[q].key = io[q].key
            /\ \A p \in Endpoint \ {q} : io'[p] = io[p]
            /\ lstEpAccepted' = lstEpAccepted \ {q}
            /\ UNCHANGED <<stage, mapRead, mapEpNormal, mapNm, lstKeys, acc, clo>>
            BY <1>8, IoMoves DEF FirstList, ends
      <2>2. ~Gone(q)
            BY <1>c, <2>1
      <2>3. OwnKeys' /\ Out'
            BY <1>a, <2>1, <2>2 DEF OwnKeys, Out, Gone, Through
      <2>4. Parted'
            BY <1>a, <2>1 DEF Parted, NoRoute, NoName, Unlisted
      <2>5. Numbered' /\ (Early = FALSE => Fresh')
            BY <1>a, <1>b, <2>1 DEF Numbered, Fresh
      <2> QED  BY <2>3, <2>4, <2>5 DEF Calm
<1>9. ASSUME NEW q \in Endpoint, FirstRoute(q) PROVE Calm'
      <2>1. PICK k : k = io[q].key
            OBVIOUS
      <2>2. /\ io[q].pc = "route" /\ io'[q].pc = "on" /\ \A p \in Endpoint \ {q} : io'[p] = io[p]
            /\ k \in Key
            /\ \A p \in Endpoint : lstKeys'[p] \subseteq lstKeys[p]
            /\ mapEpNormal'[k] = q /\ \A j \in Key \ {k} : mapEpNormal'[j] = mapEpNormal[j]
            /\ UNCHANGED <<stage, mapRead, lstEpAccepted, mapNm, acc, clo>>
            BY <1>9, <2>1 DEF FirstRoute, RemoveKey, ends, Typed, TypeOK, Named
      <2>3. ~Gone(q)
            BY <1>c, <2>2
      <2>4. OwnKeys' /\ Out'
            BY <1>a, <2>2, <2>3 DEF OwnKeys, Out, Gone, Through
      <2>5. Parted'
            BY <1>a, <2>2, <2>3 DEF Parted, NoRoute, NoName, Unlisted, Gone
      <2>6. Numbered'
            BY <1>a, <2>2 DEF Numbered
      <2>7. ASSUME Early = FALSE PROVE Fresh'
            <3>1. m_nBroadcast = 0 /\ q \in lstEpAccepted => lstKeys[q] = {}
                  BY <1>a, <2>2, <2>7 DEF Fresh
            <3> QED  BY <1>a, <1>b, <2>2, <2>7, <3>1 DEF Fresh
      <2> QED  BY <2>4, <2>5, <2>6, <2>7 DEF Calm
\* The worker.
<1>10. ASSUME UnRegister(worker) PROVE Calm'
      <2>1. PICK q : q = clo[worker].p
            OBVIOUS
      <2>2. /\ clo[worker].pc = "unreg" /\ PauseOver(worker) /\ q \in Endpoint
            /\ clo'[worker].pc = "nm" /\ clo'[worker].p = q
            /\ mapRead' = mapRead \ {q}
            /\ UNCHANGED <<stage, lstEpAccepted, mapEpNormal, mapNm, lstKeys, acc, io>>
            BY <1>b, <1>10, <2>1 DEF UnRegister, tables, ends, Closer, Typed, TypeOK
      <2>3. io[q].pc = "idle" /\ acc.p # q
            BY <1>a, <2>1, <2>2 DEF PauseOver, Busy, Through
      <2>4. OwnKeys' /\ Out'
            BY <1>a, <2>1, <2>2, <2>3 DEF OwnKeys, Out, Gone, Through
      <2>5. Parted'
            BY <1>a, <2>2 DEF Parted, NoRoute, NoName, Unlisted
      <2>6. Numbered' /\ (Early = FALSE => Fresh')
            BY <1>a, <2>2 DEF Numbered, Fresh
      <2> QED  BY <2>4, <2>5, <2>6 DEF Calm
<1>11. ASSUME RemoveNm(worker) PROVE Calm'
      <2>1. PICK q : q = clo[worker].p
            OBVIOUS
      <2>2. /\ clo[worker].pc = "nm" /\ q \in Endpoint
            /\ clo'[worker].pc = "keys" /\ clo'[worker].p = q
            /\ mapNm' = [mapNm EXCEPT ![sSocket[q]] = None]
            /\ UNCHANGED <<stage, mapRead, lstEpAccepted, mapEpNormal, lstKeys, acc, io>>
            BY <1>b, <1>11, <2>1 DEF RemoveNm, tables, ends, Closer, Typed, TypeOK
      <2>3. \A n \in Number : mapNm'[n] = IF n = sSocket[q] THEN None ELSE mapNm[n]
            BY <1>b, <2>2
      <2>4. NoName(q)'
            BY <1>a, <2>2, <2>3, EndpointsAssumption DEF NoName, Numbered
      <2>5. \A p \in Endpoint : NoName(p) => NoName(p)'
            BY <2>3, EndpointsAssumption DEF NoName
      <2>6. OwnKeys' /\ Out'
            BY <1>a, <2>1, <2>2 DEF OwnKeys, Out, Gone, Through
      <2>7. Parted'
            BY <1>a, <2>2, <2>4, <2>5 DEF Parted, NoRoute, Unlisted
      <2>8. Numbered' /\ (Early = FALSE => Fresh')
            BY <1>a, <2>2, <2>3 DEF Numbered, Fresh
      <2> QED  BY <2>6, <2>7, <2>8 DEF Calm
<1>12. ASSUME CopyKeys(worker) PROVE Calm'
      <2>1. PICK q : q = clo[worker].p
            OBVIOUS
      <2>2. /\ clo[worker].pc = "keys" /\ q \in Endpoint
            /\ clo' = [clo EXCEPT ![worker] =
                          [@ EXCEPT !.pc = IF lstKeys[q] = {} THEN "list" ELSE "routes",
                                    !.keys = lstKeys[q]]]
            /\ UNCHANGED seen
            BY <1>b, <1>12, <2>1 DEF CopyKeys, tables, ends, seen
      <2>3. /\ clo'[worker].pc = IF lstKeys[q] = {} THEN "list" ELSE "routes"
            /\ clo'[worker].p = q /\ clo'[worker].keys = lstKeys[q]
            BY <2>1, <2>2 DEF Typed, TypeOK, Closer
      <2>4. \A k \in Key : mapEpNormal[k] = q => k \in lstKeys[q]
            BY <2>2, EndpointsAssumption DEF Going, RouteKnown
      <2>5. io[q].pc = "idle"
            BY <1>c, <2>1, <2>2 DEF Gone
      <2>6. m_nBroadcast = 0 /\ lstKeys[q] # {} => Unlisted(q)
            BY <1>a, <2>5 DEF Fresh, Unlisted
      <2>7. OwnKeys'
            BY <1>a, <2>2, <2>3 DEF OwnKeys, seen
      <2>8. Out'
            BY <1>a, <2>1, <2>2, <2>3 DEF Out, Gone, Through, seen
      <2>9. NoName(q)' /\ (NoRoute(q) => NoRoute(q)') /\ (Unlisted(q) => Unlisted(q)')
            BY <1>a, <2>1, <2>2 DEF Parted, NoName, NoRoute, Unlisted, seen
      <2>10. Parted'
            <3>1. \A p \in Endpoint : stage'[p] # "live" => NoRoute(p)' /\ NoName(p)' /\ Unlisted(p)'
                  BY <1>a, <2>2 DEF Parted, NoRoute, NoName, Unlisted, seen
            <3>2. CASE lstKeys[q] = {}
                  <4>1. NoRoute(q)
                        BY <2>4, <3>2 DEF NoRoute
                  <4> QED  BY <2>3, <2>9, <3>1, <3>2, <4>1 DEF Parted
            <3>3. CASE lstKeys[q] # {}
                  <4>1. /\ clo'[worker].pc = "routes" /\ clo'[worker].p = q
                        /\ \A k \in Key : mapEpNormal'[k] = q => k \in clo'[worker].keys
                        BY <2>2, <2>3, <2>4, <3>3 DEF seen
                  <4>2. m_nBroadcast' = 0 => Unlisted(q)'
                        BY <2>6, <2>9, <3>3
                  <4> QED  BY <2>9, <3>1, <4>1, <4>2 DEF Parted
            <3> QED  BY <3>2, <3>3
      <2>11. Numbered' /\ (Early = FALSE => Fresh')
            BY <1>a, <2>2 DEF Numbered, Fresh, seen
      <2> QED  BY <2>7, <2>8, <2>10, <2>11 DEF Calm
<1>13. ASSUME RemoveRoutes(worker) PROVE Calm'
      <2>1. PICK q : q = clo[worker].p
            OBVIOUS
      <2>2. PICK keys : keys = clo[worker].keys
            OBVIOUS
      <2>3. /\ clo[worker].pc = "routes" /\ q \in Endpoint
            /\ clo'[worker].pc = IF \E k \in keys : mapEpNormal[k] # None THEN "delete" ELSE "list"
            /\ clo'[worker].p = q
            /\ \A k \in Key : mapEpNormal'[k] = IF k \in keys THEN None ELSE mapEpNormal[k]
            /\ UNCHANGED <<stage, mapRead, lstEpAccepted, mapNm, lstKeys, acc, io>>
            /\ keys \subseteq Key
            BY <1>b, <1>13, <2>1, <2>2 DEF RemoveRoutes, Erased, ends, Closer, Typed, TypeOK
      <2>4. NoRoute(q)'
            BY <1>a, <2>1, <2>2, <2>3, EndpointsAssumption DEF Parted, NoRoute
      <2>5. \A p \in Endpoint : NoRoute(p) => NoRoute(p)'
            BY <2>3, EndpointsAssumption DEF NoRoute
      <2>6. clo'[worker].pc = "delete" => m_nBroadcast = 0
            BY <2>3 DEF Going, Plain
      <2>7. OwnKeys' /\ Out'
            BY <1>a, <2>1, <2>3 DEF OwnKeys, Out, Gone, Through
      <2>8. Parted'
            BY <1>a, <2>1, <2>3, <2>4, <2>5, <2>6 DEF Parted, NoName, Unlisted
      <2>9. Numbered' /\ (Early = FALSE => Fresh')
            BY <1>a, <2>3 DEF Numbered, Fresh
      <2> QED  BY <2>7, <2>8, <2>9 DEF Calm
<1>14. ASSUME RemoveAccepted(worker) PROVE Calm'
      <2>1. PICK q : q = clo[worker].p
            OBVIOUS
      <2>2. /\ clo[worker].pc = "list" /\ clo'[worker].pc = "delete"
            /\ clo'[worker].p = q
            /\ lstEpAccepted' = lstEpAccepted \ {q}
            /\ UNCHANGED <<stage, mapRead, mapEpNormal, mapNm, lstKeys, acc, io>>
            BY <1>14, <2>1 DEF RemoveAccepted, ends, Closer, Typed, TypeOK
      <2>3. OwnKeys' /\ Out'
            BY <1>a, <2>1, <2>2 DEF OwnKeys, Out, Gone, Through
      <2>4. Parted'
            BY <1>a, <2>1, <2>2 DEF Parted, NoRoute, NoName, Unlisted
      <2>5. Numbered' /\ (Early = FALSE => Fresh')
            BY <1>a, <2>2 DEF Numbered, Fresh
      <2> QED  BY <2>3, <2>4, <2>5 DEF Calm
<1>15. ASSUME Delete(worker) PROVE Calm'
      <2>1. PICK q : q = clo[worker].p
            OBVIOUS
      <2>2. /\ clo[worker].pc = "delete" /\ clo'[worker].pc = "idle" /\ q \in Endpoint
            /\ stage'[q] = "deleted" /\ \A p \in Endpoint \ {q} : stage'[p] = stage[p]
            /\ UNCHANGED <<mapRead, lstEpAccepted, mapEpNormal, mapNm, lstKeys, acc, io>>
            BY <1>b, <1>15, <2>1 DEF Delete, tables, ends, Closer, Typed, TypeOK
      <2>3. Gone(q) /\ Through(q)
            BY <1>a, <2>1, <2>2 DEF Gone, Out
      <2>4. OwnKeys' /\ Out'
            BY <1>a, <2>2, <2>3 DEF OwnKeys, Out, Gone, Through
      <2>5. Parted'
            BY <1>a, <2>1, <2>2 DEF Parted, NoRoute, NoName, Unlisted
      <2>6. Numbered' /\ (Early = FALSE => Fresh')
            BY <1>a, <2>2 DEF Numbered, Fresh
      <2> QED  BY <2>4, <2>5, <2>6 DEF Calm
\* What the other steps change nobody looks at here.
<1>16. ASSUME UNCHANGED seen, clo'[worker] = clo[worker] \/ clo'[worker].pc = "unreg"
       PROVE  Calm'
      <2>1. OwnKeys' /\ Out'
            BY <1>a, <1>16 DEF OwnKeys, Out, Gone, Through, seen
      <2>2. Parted'
            BY <1>a, <1>16 DEF Parted, NoRoute, NoName, Unlisted, seen
      <2>3. Numbered' /\ (Early = FALSE => Fresh')
            BY <1>a, <1>16 DEF Numbered, Fresh, seen
      <2> QED  BY <2>1, <2>2, <2>3 DEF Calm
<1>17. ASSUME AcceptMap PROVE Calm'
      <2>1. /\ acc'.p = acc.p
            /\ UNCHANGED <<stage, mapRead, lstEpAccepted, mapEpNormal, mapNm, lstKeys, io, clo>>
            BY <1>17 DEF AcceptMap, ends, Typed, TypeOK
      <2>2. OwnKeys' /\ Out'
            BY <1>a, <2>1 DEF OwnKeys, Out, Gone, Through
      <2>3. Parted'
            BY <1>a, <2>1 DEF Parted, NoRoute, NoName, Unlisted
      <2>4. Numbered' /\ (Early = FALSE => Fresh')
            BY <1>a, <2>1 DEF Numbered, Fresh
      <2> QED  BY <2>2, <2>3, <2>4 DEF Calm
<1>18. ASSUME \/ \E p \in Endpoint : HangUp(p)
              \/ \E s \in Sender : SenderThread(s) \/ \E k \in Key : SendPacket(s, k)
              \/ WorkLoop \/ WorkCheck \/ WorkWait \/ WorkNext \/ WorkDrain
              \/ StopListener
              \/ UNCHANGED vars
       PROVE  UNCHANGED seen /\ (clo'[worker] = clo[worker] \/ clo'[worker].pc = "unreg")
      <2>1. CASE \/ \E p \in Endpoint : HangUp(p)
                 \/ \E s \in Sender : SenderThread(s) \/ \E k \in Key : SendPacket(s, k)
                 \/ StopListener
                 \/ UNCHANGED vars
            BY <2>1 DEF HangUp, SenderThread, SendReqClose, SendEnque, SendDone, Send, SendError,
                        SendPacket, StopListener, tables, ends, vars, moving, seen
      <2>2. CASE WorkLoop \/ WorkCheck \/ WorkWait \/ WorkNext \/ WorkDrain
            BY <2>2 DEF WorkLoop, WorkCheck, WorkWait, WorkNext, WorkDrain, Close, Closer, tables,
                        seen, Typed, TypeOK
      <2> QED  BY <1>18, <2>1, <2>2
<1> QED  BY <1>1, <1>2, <1>3, <1>4, <1>5, <1>6, <1>7, <1>8, <1>9, <1>10, <1>11, <1>12, <1>13,
            <1>14, <1>15, <1>16, <1>17, <1>18
         DEF ServerStep, Listener, IoThread, IoStep, WorkerThread, CloseStep

\* The invariant of a server whose worker pauses.
Kept == Going /\ (Up => Calm)

LEMMA NextKept ==
    ASSUME Paused = TRUE, Kept, [Next]_vars
    PROVE  Kept'
<1>1. Going' /\ Typed'
      BY NextGoing DEF Kept, Going, Owned
<1>2. ASSUME Up' PROVE Calm'
      BY <1>1, <1>2, UpStep, NextCalm DEF Kept
<1> QED  BY <1>1, <1>2 DEF Kept

LEMMA KeepsOn ==
    ASSUME Paused = TRUE
    PROVE  Spec => []Kept
<1>1. Init => Kept
      BY InitGoing, InitCalm DEF Kept
<1>2. Kept /\ [Next]_vars => Kept'
      BY NextKept
<1> QED  BY <1>1, <1>2, PTL DEF Spec

\* The tables of the server have no entry for an endpoint that has been deleted, in any mode,
\* with peers that come back under their old keys and numbers and with sends that fail: neither
\* the routes, nor the list of endpoints, nor the management leads to freed memory.  The worker
\* pauses; data does not come before OnAccept() has returned, which would go on with an
\* endpoint that has sent its first packet.
THEOREM TablesAreLive ==
    ASSUME Paused = TRUE, Early = FALSE
    PROVE  Spec => []TablesLive
<1>1. Kept => TablesLive
      BY DEF Kept, Calm, Parted, TablesLive, NoRoute, NoName, Unlisted
<1> QED  BY <1>1, KeepsOn, PTL

\* No thread has an endpoint that has been deleted: neither OnAccept() nor a selector thread,
\* nor a sender whose send has failed or that is in the middle of a broadcast.  Sends may
\* fail and data may come early; the worker pauses, for without it NotInUse does not hold.
THEOREM NoUseAfterDelete ==
    ASSUME Paused = TRUE
    PROVE  Spec => []NotInUse
<1>1. Kept => NotInUse
      <2> SUFFICES ASSUME Kept, Up, NEW p \in Endpoint, stage[p] = "deleted"
                   PROVE  /\ io[p].pc = "idle" /\ acc.p # p
                          /\ \A s \in Sender : snd[s].p # p /\ p \notin snd[s].todo
          BY DEF NotInUse
      <2>1. io[p].pc = "idle" /\ acc.p # p
            BY DEF Kept, Calm, Out, Gone, Through
      <2>2. p \notin Served
            BY DEF Kept, Calm, Parted, NoRoute, Unlisted, Served
      <2>3. ASSUME NEW s \in Sender PROVE snd[s].p # p /\ p \notin snd[s].todo
            <3>1. SenderServes(s) /\ snd[s].pc \in {"idle", "next", "close", "enque"}
                  BY DEF Kept, Going, Serving, Owned, Typed, TypeOK
            <3> QED  BY <2>2, <3>1, EndpointsAssumption DEF SenderServes
      <2> QED  BY <2>1, <2>3
<1> QED  BY <1>1, KeepsOn, PTL
-----------------------------------------------------------------------------
(* Routes as in module Routes: a new route goes to an endpoint that nobody *)
(* is closing, and one that is closed takes all its routes with it.        *)

\* The phase of an endpoint in the table of routes.
Phase(p) == IF Left(p) THEN "gone" ELSE IF stage[p] = "live" THEN "open" ELSE "unborn"
PhaseOf == [p \in Endpoint |-> Phase(p)]

\* Until Stop() only the worker closes endpoints.
LEMMA WorkerLeaves ==
    ASSUME Going, Up, NEW p \in Endpoint
    PROVE  Left(p) <=> \/ stage[p] = "deleted"
                       \/ clo[worker].p = p /\ clo[worker].pc \in {"list", "delete"}
<1>1. clo[stopper].pc = "idle"
      BY DEF Going, Owned, Alive, Up
<1> QED  BY <1>1 DEF Left, Closer

\* Joining, claiming and leaving as steps of module Routes.
LEMMA Joins ==
    ASSUME Up, Up', NEW p \in Endpoint, Phase(p) = "unborn", Phase(p)' = "open",
           \A q \in Endpoint \ {p} : Phase(q)' = Phase(q), mapEpNormal' = mapEpNormal
    PROVE  RouteTable!Next
<1>1. PhaseOf' = [PhaseOf EXCEPT ![p] = "open"] /\ PhaseOf[p] = "unborn"
      BY DEF PhaseOf
<1>2. RouteTable!Join(p)
      BY <1>1 DEF RouteTable!Join, PhaseOf, Phase
<1> QED  BY <1>2 DEF RouteTable!Next, RouteTable!Serve

LEMMA Claims ==
    ASSUME Up, Up', NEW p \in Endpoint, NEW k \in KeysOf[p], Phase(p) = "open",
           \A q \in Endpoint : Phase(q)' = Phase(q), mapEpNormal' = [mapEpNormal EXCEPT ![k] = p]
    PROVE  RouteTable!Next
<1>1. PhaseOf' = PhaseOf /\ PhaseOf[p] = "open"
      BY DEF PhaseOf
<1>2. RouteTable!Claim(p, k)
      BY <1>1 DEF RouteTable!Claim, PhaseOf, Phase
<1> QED  BY <1>2 DEF RouteTable!Next, RouteTable!Serve

LEMMA Leaves ==
    ASSUME Up, Up', NEW p \in Endpoint, Phase(p) # "gone", Phase(p)' = "gone",
           \A q \in Endpoint \ {p} : Phase(q)' = Phase(q),
           NEW lost \in SUBSET KeysOf[p], \A k \in Key : mapEpNormal[k] = p => k \in lost,
           mapEpNormal' = [k \in Key |-> IF k \in lost THEN None ELSE mapEpNormal[k]]
    PROVE  RouteTable!Next
<1>1. PhaseOf' = [PhaseOf EXCEPT ![p] = "gone"] /\ PhaseOf[p] # "gone"
      BY DEF PhaseOf
<1>2. RouteTable!Leave(p)
      BY <1>1 DEF RouteTable!Leave, PhaseOf, Phase
<1> QED  BY <1>2 DEF RouteTable!Next, RouteTable!Serve

LEMMA RouteStep ==
    ASSUME Kept, Kept', Up, Up', ServerStep
    PROVE  RouteTable!Next \/ UNCHANGED <<Up, PhaseOf, mapEpNormal>>
<1>0. Going /\ Calm /\ Typed /\ Typed' /\ Owned /\ Going' /\ Out /\ Parted /\ UNCHANGED Up
      BY DEF Kept, Going, Owned, Calm
<1>a. clo[worker].pc # "idle" => clo[worker].p \in Endpoint /\ stage[clo[worker].p] = "live"
      BY <1>0 DEF Owned, Alive, Taken, Working, Typed, Named, Closer
<1>b. \A p \in Endpoint : Left(p) <=> \/ stage[p] = "deleted"
                                      \/ clo[worker].p = p /\ clo[worker].pc \in {"list", "delete"}
      BY <1>0, WorkerLeaves
<1>c. \A p \in Endpoint : Left(p)' <=> \/ stage'[p] = "deleted"
                                       \/ clo'[worker].p = p /\ clo'[worker].pc \in {"list", "delete"}
      <2>1. clo'[stopper].pc = "idle"
            BY <1>0 DEF Going, Owned, Alive, Up
      <2> QED  BY <2>1 DEF Left, Closer
<1>e. mapEpNormal \in [Key -> Endpoint \cup {None}] /\ mapEpNormal' \in [Key -> Endpoint \cup {None}]
      BY <1>0 DEF Typed, TypeOK
<1>f. ASSUME NEW q \in Endpoint, NoRoute(q), UNCHANGED mapEpNormal,
             Phase(q) # "gone", Phase(q)' = "gone", \A p \in Endpoint \ {q} : Phase(p)' = Phase(p)
      PROVE  RouteTable!Next
      <2>1. mapEpNormal' = [k \in Key |-> IF k \in {} THEN None ELSE mapEpNormal[k]]
            BY <1>e, <1>f
      <2>2. \A k \in Key : mapEpNormal[k] = q => k \in {}
            BY <1>f DEF NoRoute
      <2>3. {} \in SUBSET KeysOf[q]
            OBVIOUS
      <2> QED  BY <1>f, <2>1, <2>2, <2>3, Leaves
<1>1. ASSUME NEW q \in Endpoint, Accept(q) PROVE RouteTable!Next
      <2>1. /\ stage[q] = "unborn" /\ stage'[q] = "live"
            /\ \A p \in Endpoint \ {q} : stage'[p] = stage[p]
            /\ UNCHANGED <<mapEpNormal, clo>>
            BY <1>0, <1>1 DEF Accept, tables, ends, Typed, TypeOK
      <2>2. ~Left(q) /\ ~Left(q)'
            BY <1>a, <1>b, <1>c, <2>1
      <2>3. \A p \in Endpoint \ {q} : Left(p)' <=> Left(p)
            BY <1>b, <1>c, <2>1
      <2>4. Phase(q) = "unborn" /\ Phase(q)' = "open"
            BY <2>1, <2>2 DEF Phase
      <2>5. \A p \in Endpoint \ {q} : Phase(p)' = Phase(p)
            BY <2>1, <2>3 DEF Phase
      <2> QED  BY <2>1, <2>4, <2>5, Joins
<1>2. ASSUME NEW q \in Endpoint, AcceptRefused(q) PROVE RouteTable!Next
      <2>1. /\ stage[q] = "unborn" /\ stage'[q] = "deleted"
            /\ \A p \in Endpoint \ {q} : stage'[p] = stage[p]
            /\ UNCHANGED <<mapEpNormal, clo>>
            BY <1>0, <1>2 DEF AcceptRefused, tables, ends, Typed, TypeOK
      <2>2. ~Left(q) /\ Left(q)' /\ \A p \in Endpoint \ {q} : Left(p)' <=> Left(p)
            BY <1>a, <1>b, <1>c, <2>1
      <2>3. NoRoute(q)
            BY <1>0, <2>1 DEF Parted
      <2>4. Phase(q) # "gone" /\ Phase(q)' = "gone" /\ \A p \in Endpoint \ {q} : Phase(p)' = Phase(p)
            BY <2>1, <2>2 DEF Phase
      <2> QED  BY <1>f, <2>1, <2>3, <2>4
\* Who claims a route has not been closed: the worker would have waited.
<1>3. ASSUME NEW q \in Endpoint, FirstRoute(q) PROVE RouteTable!Next
      <2>1. PICK k : k = io[q].key
            OBVIOUS
      <2>2. /\ io[q].pc = "route" /\ k \in KeysOf[q]
            /\ mapEpNormal' = [mapEpNormal EXCEPT ![k] = q]
            /\ UNCHANGED <<stage, clo>>
            BY <1>0, <1>3, <2>1 DEF FirstRoute, ends, Calm, OwnKeys
      <2>3. ~Gone(q)
            BY <1>0, <2>2 DEF Out, Through
      <2>4. ~Left(q) /\ \A p \in Endpoint : Left(p)' <=> Left(p)
            BY <1>b, <1>c, <2>2, <2>3 DEF Gone
      <2>5. Phase(q) = "open" /\ \A p \in Endpoint : Phase(p)' = Phase(p)
            BY <2>2, <2>3, <2>4 DEF Phase, Gone
      <2> QED  BY <2>2, <2>5, Claims
<1>4. ASSUME UNCHANGED <<stage, mapEpNormal>>,
             \A p \in Endpoint : Left(p)' <=> Left(p)
      PROVE  UNCHANGED <<Up, PhaseOf, mapEpNormal>>
      BY <1>0, <1>4 DEF PhaseOf, Phase
<1>5. ASSUME UNCHANGED <<stage, mapEpNormal>>,
             \/ clo'[worker] = clo[worker]
             \/ /\ clo'[worker].pc \in {"unreg", "nm", "keys"}
                /\ clo[worker].pc \in {"idle", "unreg", "nm"}
      PROVE  UNCHANGED <<Up, PhaseOf, mapEpNormal>>
      BY <1>4, <1>5, <1>b, <1>c
<1>6. ASSUME CopyKeys(worker) PROVE RouteTable!Next \/ UNCHANGED <<Up, PhaseOf, mapEpNormal>>
      <2>1. PICK q : q = clo[worker].p
            OBVIOUS
      <2>2. /\ q \in Endpoint /\ clo[worker].pc = "keys" /\ stage[q] = "live"
            /\ clo' = [clo EXCEPT ![worker] =
                          [@ EXCEPT !.pc = IF lstKeys[q] = {} THEN "list" ELSE "routes",
                                    !.keys = lstKeys[q]]]
            /\ UNCHANGED <<stage, mapEpNormal>>
            BY <1>6, <1>a, <2>1 DEF CopyKeys, tables
      <2>3. /\ clo'[worker].pc = IF lstKeys[q] = {} THEN "list" ELSE "routes"
            /\ clo'[worker].p = q
            BY <1>0, <2>1, <2>2 DEF Typed, TypeOK, Closer
      <2>4. CASE lstKeys[q] = {}
            <3>1. NoRoute(q)
                  BY <1>0, <2>2, <2>4, EndpointsAssumption DEF Going, RouteKnown, NoRoute
            <3>2. ~Left(q) /\ Left(q)' /\ \A p \in Endpoint \ {q} : Left(p)' <=> Left(p)
                  BY <1>b, <1>c, <2>1, <2>2, <2>3, <2>4
            <3>3. /\ Phase(q) # "gone" /\ Phase(q)' = "gone"
                  /\ \A p \in Endpoint \ {q} : Phase(p)' = Phase(p)
                  BY <2>2, <3>2 DEF Phase
            <3> QED  BY <1>f, <2>2, <3>1, <3>3
      <2>5. CASE lstKeys[q] # {}
            BY <1>4, <1>b, <1>c, <2>1, <2>2, <2>3, <2>5
      <2> QED  BY <2>4, <2>5
\* The routes of the keys it had go, whoever has them now: all of its own, and others' only
\* where its peer sends the key, too.
<1>7. ASSUME RemoveRoutes(worker) PROVE RouteTable!Next
      <2>1. PICK q : q = clo[worker].p
            OBVIOUS
      <2>2. PICK keys : keys = clo[worker].keys
            OBVIOUS
      <2>3. /\ q \in Endpoint /\ clo[worker].pc = "routes" /\ stage[q] = "live"
            /\ clo'[worker].pc \in {"delete", "list"} /\ clo'[worker].p = q
            /\ mapEpNormal' = [k \in Key |-> IF k \in keys THEN None ELSE mapEpNormal[k]]
            /\ UNCHANGED stage
            BY <1>0, <1>7, <1>a, <2>1, <2>2 DEF RemoveRoutes, Erased, Closer, Typed, TypeOK
      <2>4. keys \in SUBSET KeysOf[q] /\ \A k \in Key : mapEpNormal[k] = q => k \in keys
            BY <1>0, <2>1, <2>2, <2>3 DEF Calm, OwnKeys, Parted
      <2>5. ~Left(q) /\ Left(q)' /\ \A p \in Endpoint \ {q} : Left(p)' <=> Left(p)
            BY <1>b, <1>c, <2>1, <2>3
      <2>6. /\ Phase(q) # "gone" /\ Phase(q)' = "gone"
            /\ \A p \in Endpoint \ {q} : Phase(p)' = Phase(p)
            BY <2>3, <2>5 DEF Phase
      <2> QED  BY <2>3, <2>4, <2>6, Leaves
<1>8. ASSUME RemoveAccepted(worker) PROVE UNCHANGED <<Up, PhaseOf, mapEpNormal>>
      <2>1. /\ clo[worker].pc = "list" /\ clo'[worker].pc = "delete"
            /\ clo'[worker].p = clo[worker].p /\ UNCHANGED <<stage, mapEpNormal>>
            BY <1>0, <1>8 DEF RemoveAccepted, Closer, Typed, TypeOK
      <2> QED  BY <1>4, <1>b, <1>c, <2>1
<1>9. ASSUME Delete(worker) PROVE UNCHANGED <<Up, PhaseOf, mapEpNormal>>
      <2>1. PICK q : q = clo[worker].p
            OBVIOUS
      <2>2. /\ q \in Endpoint /\ clo[worker].pc = "delete" /\ clo'[worker].pc = "idle"
            /\ stage'[q] = "deleted" /\ \A p \in Endpoint \ {q} : stage'[p] = stage[p]
            /\ UNCHANGED mapEpNormal
            BY <1>0, <1>9, <1>a, <2>1 DEF Delete, tables, Closer, Typed, TypeOK
      <2>3. \A p \in Endpoint : (Left(p)' <=> Left(p)) /\ (Left(p) \/ stage'[p] = stage[p])
            BY <1>b, <1>c, <2>1, <2>2
      <2>4. \A p \in Endpoint : Phase(p)' = Phase(p)
            BY <2>3 DEF Phase
      <2> QED  BY <1>0, <2>2, <2>4 DEF PhaseOf
<1>10. ASSUME \/ AcceptMap \/ AcceptList \/ AcceptNm
              \/ \E p \in Endpoint : HangUp(p)
              \/ \E s \in Sender : SenderThread(s) \/ \E k \in Key : SendPacket(s, k)
              \/ WorkLoop \/ WorkWait \/ WorkNext
              \/ StopListener
              \/ UNCHANGED vars
       PROVE  UNCHANGED <<stage, mapEpNormal, clo>>
       BY <1>10 DEF AcceptMap, AcceptList, AcceptNm, HangUp, SenderThread, SendReqClose, SendEnque,
                    SendDone, Send, SendError, SendPacket, WorkLoop, WorkWait, WorkNext,
                    StopListener, tables, ends, vars, moving
<1>11. ASSUME NEW p \in Endpoint,
              \/ Active(p) \/ Recv(p) \/ HelloFails(p) \/ RecvReqClose(p) \/ RecvEnque(p) \/ Again(p)
              \/ FirstList(p) \/ \E k \in KeysOf[p] : Packet(p, k)
       PROVE  UNCHANGED <<stage, mapEpNormal, clo>>
       BY <1>11 DEF Active, Recv, HelloFails, RecvReqClose, RecvEnque, Again, FirstList, Packet,
                    tables, ends
<1>12. ASSUME WorkCheck \/ WorkDrain
       PROVE  /\ UNCHANGED <<stage, mapEpNormal>>
              /\ clo' = clo \/ (clo'[worker].pc = "unreg" /\ clo[worker].pc = "idle")
       <2>1. work = "check" => clo[worker].pc = "idle"
             BY <1>0 DEF Calm, Busy
       <2> QED  BY <1>0, <1>12, <2>1 DEF WorkCheck, WorkDrain, Close, Closer, tables, Typed, TypeOK
<1>13. ASSUME UnRegister(worker) \/ RemoveNm(worker)
       PROVE  /\ UNCHANGED <<stage, mapEpNormal>>
              /\ clo'[worker].pc \in {"nm", "keys"} /\ clo[worker].pc \in {"unreg", "nm"}
       BY <1>0, <1>13 DEF UnRegister, RemoveNm, Closer, tables, ends, Typed, TypeOK
<1> QED  BY <1>1, <1>2, <1>3, <1>5, <1>6, <1>7, <1>8, <1>9, <1>10, <1>11, <1>12, <1>13
         DEF ServerStep, Listener, IoThread, IoStep, WorkerThread, CloseStep

\* Until Stop() the routes of a server are the table that SendPacket() relies on, for any keys
\* that peers have in common: only an endpoint that nobody closes gets a route, and one that
\* leaves takes all its own with it, for good, and of the others' none but those of keys that
\* its own peer sends, however the key went over in between.  The worker pauses.
THEOREM ImplementsRoutes ==
    ASSUME Paused = TRUE
    PROVE  Spec => RouteSpec
<1>1. Spec => []Kept
      BY KeepsOn
<1>2. Init => RouteTable!Init
      <2> SUFFICES ASSUME Init PROVE RouteTable!Init
          OBVIOUS
      <2>1. \A p \in Endpoint : ~Left(p) /\ stage[p] = "unborn"
            BY DEF Init, Left
      <2>2. PhaseOf = [p \in Endpoint |-> "unborn"]
            BY <2>1 DEF PhaseOf, Phase
      <2> QED  BY <2>2 DEF Init, Up, RouteTable!Init, PhaseOf, Phase
<1>3. Kept /\ Kept' /\ [Next]_vars => RouteTable!Next \/ UNCHANGED <<Up, PhaseOf, mapEpNormal>>
      <2> SUFFICES ASSUME Kept, Kept', [Next]_vars
                   PROVE  RouteTable!Next \/ UNCHANGED <<Up, PhaseOf, mapEpNormal>>
          OBVIOUS
      <2>1. CASE Up'
            BY <2>1, UpStep, RouteStep DEF Kept
      <2>2. CASE ~Up /\ ~Up'
            BY <2>2 DEF RouteTable!Next, RouteTable!Stop
      <2>3. CASE Up /\ ~Up'
            <3>1. StopLock
                  <4>1. stop' # stop
                        BY <2>3 DEF Up
                  <4>2. ~StopListener /\ ~StopClear /\ ~StopEndThread /\ ~StopSignal /\ ~StopJoined
                        BY <2>3 DEF StopListener, StopClear, StopEndThread, StopSignal, StopJoined, Up
                  <4>3. ~UNCHANGED vars
                        BY <4>1 DEF vars, moving, ends
                  <4>4. ~Listener
                        BY <4>1 DEF Listener, Accept, AcceptRefused, AcceptMap, AcceptList, AcceptNm,
                                    ends
                  <4>5. ASSUME NEW p \in Endpoint PROVE ~IoThread(p) /\ ~HangUp(p) /\ ~StopClose(p)
                        BY <4>1 DEF IoThread, IoStep, Active, Recv, Packet, FirstList, FirstRoute,
                                    HelloFails, RecvReqClose, RecvEnque, Again, HangUp, StopClose, ends
                  <4>6. ASSUME NEW s \in Sender
                        PROVE  ~SenderThread(s) /\ \A k \in Key : ~SendPacket(s, k)
                        BY <4>1 DEF SenderThread, SendReqClose, SendEnque, SendDone, Send, SendError,
                                    SendPacket, ends
                  <4>7. ASSUME NEW c \in Closer PROVE ~CloseStep(c)
                        BY <4>1 DEF CloseStep, UnRegister, RemoveNm, CopyKeys, RemoveRoutes,
                                    RemoveAccepted, Delete, ends
                  <4>8. ~WorkerThread
                        BY <4>1, <4>7 DEF WorkerThread, WorkLoop, WorkCheck, WorkWait, WorkNext,
                                          WorkDrain, Closer
                  <4> QED  BY <4>2, <4>3, <4>4, <4>5, <4>6, <4>7, <4>8 DEF Next, Stopping, Closer
            <3>2. UNCHANGED <<PhaseOf, mapEpNormal>>
                  BY <3>1 DEF StopLock, tables, PhaseOf, Phase, Left
            <3> QED  BY <2>3, <3>2 DEF RouteTable!Next, RouteTable!Stop, PhaseOf, Phase
      <2> QED  BY <2>1, <2>2, <2>3
<1>4. Kept /\ Kept' /\ [Next]_vars
         => [RouteTable!Next]_<<Up, [p \in Endpoint |-> IF Left(p) THEN "gone"
                                     ELSE IF stage[p] = "live" THEN "open" ELSE "unborn"],
                                mapEpNormal>>
      BY <1>3 DEF PhaseOf, Phase
<1> QED  BY <1>1, <1>2, <1>4, PTL DEF Spec, RouteSpec, RouteTable!Spec
=============================================================================
