------------------------------ MODULE Endpoints ------------------------------
(***************************************************************************)
(* The connections of a server (CommFramwork: protocolcomm.cpp,            *)
(* ProtocolComm.h, ProtocolCommSelector.h): from OnAccept() over routing   *)
(* to the request to close, the worker that serves it, and Stop().         *)
(*                                                                         *)
(* Threads: the listener; for each endpoint the selector thread that reads *)
(* it (cpu_num says how many there are, here enough for all); senders; the *)
(* closing worker; the one that calls Stop().  A section under one mutex   *)
(* is one action; the mutexes that are held while another is asked for are *)
(* in "lock".  An endpoint that has been deleted keeps its members, as     *)
(* freed memory may, so that threads that still use it go on.              *)
(*                                                                         *)
(* m_mapRegisted and the selector's map have socket numbers for keys, and  *)
(* are sets of endpoints here.  An entry is taken off m_mapRegisted before *)
(* its socket is closed (but by Stop(), when nobody accepts any more), so  *)
(* that no two have one number.  A thread that is still reading a socket   *)
(* that has been closed could find the registration of the next one with   *)
(* that number (protocolcomm.cpp:198); it is told from its own here, which *)
(* makes no difference while Paused.                                       *)
(***************************************************************************)
EXTENDS Integers, Sequences, FiniteSets

CONSTANTS Endpoint,      \* PROCESS objects, one for each connection
          Key,           \* route keys
          None,          \* no endpoint, no key, no owner
          Sender,        \* threads that call SendPacket()
          Number,        \* numbers of sockets
          SocketIds,     \* the numbers that accept() may give, each a function of the endpoint
          KeysOf,        \* the route keys a peer puts into its packets
          Modes,         \* what the configuration may say: broadcast or not
          MaxFds,        \* AIO_MAX_FD, less the signal socket of the selector
          SendsFail,     \* send() may fail
          Early,         \* data may come before OnAccept() has returned
          Paused,        \* who is busy with an endpoint is through within the worker's 4 seconds
          Stops          \* Stop() may be called

worker == "worker"
stopper == "stopper"
Closer == {worker, stopper}
Mutex == {"csComm", "csEpNormal", "csEpAccepted"}

ASSUME EndpointsAssumption ==
    /\ IsFiniteSet(Endpoint)
    /\ None \notin Endpoint \cup Key \cup Sender
    /\ Closer \cap Sender = {} /\ None \notin Closer
    /\ KeysOf \in [Endpoint -> SUBSET Key]
    /\ SocketIds \subseteq [Endpoint -> Number]
    /\ Modes \subseteq 0 .. 2 /\ MaxFds \in Nat
    /\ SendsFail \in BOOLEAN /\ Early \in BOOLEAN /\ Paused \in BOOLEAN /\ Stops \in BOOLEAN

VARIABLES
    m_nBroadcast,   \* set once, by Init() from the configuration
    sSocket,        \* m_sSocket of each endpoint, as accept() is going to give it
    stage,          \* of an endpoint: unborn, live or deleted
    hung,           \* endpoints whose peer has closed or broken the connection
    mapRead,        \* m_mapRegisterRead: sockets the selector watches
    mapRegisted,    \* m_mapRegisted
    dqClose,        \* m_dqClose
    lstEpAccepted,  \* m_lstEpAccepted
    mapEpNormal,    \* m_mapEpNormal
    mapNm,          \* m_mapNm: by the name of a connection, which is its socket's number
    lstKeys,        \* m_lstKeys of an endpoint
    lock,           \* owner of a mutex that is held over several steps
    acc,            \* the listener: where it is, and its new endpoint
    io,             \* the selector thread of an endpoint, and its packet's key
    snd,            \* a sender: where, its endpoint, and those still to serve
    clo,            \* a closing thread: where, its endpoint, its copy of Keys()
    work,           \* the worker's loop
    stop,           \* Stop()
    bEndThread      \* m_bEndThread of the worker

tables == <<mapRegisted, lstEpAccepted, mapEpNormal, mapNm, lstKeys>>
ends == <<work, stop, bEndThread>>
moving == <<stage, hung, mapRead, tables, dqClose, lock, acc, io, snd, clo, ends>>
vars == <<m_nBroadcast, sSocket, moving>>

Free(m) == lock[m] = None

Unlock(m) == lock' = [lock EXCEPT ![m] = None]

Init ==
    /\ m_nBroadcast \in Modes /\ sSocket \in SocketIds
    /\ stage = [p \in Endpoint |-> "unborn"] /\ hung = {}
    /\ mapRead = {} /\ mapRegisted = {} /\ dqClose = <<>>
    /\ lstEpAccepted = {} /\ mapEpNormal = [k \in Key |-> None]
    /\ mapNm = [n \in Number |-> None]
    /\ lstKeys = [p \in Endpoint |-> {}]
    /\ lock = [m \in Mutex |-> None]
    /\ acc = [pc |-> "idle", p |-> None]
    /\ io = [p \in Endpoint |-> [pc |-> "idle", key |-> None]]
    /\ snd = [s \in Sender |-> [pc |-> "idle", p |-> None, todo |-> {}]]
    /\ clo = [c \in Closer |-> [pc |-> "idle", p |-> None, keys |-> {}]]
    /\ work = "check" /\ stop = "running" /\ bEndThread = FALSE

-----------------------------------------------------------------------------
(* OnAccept(), on the listener's thread.                                   *)

\* A selector that stops one short of its limit, and one that is given the socket of
\* the connection before.
RoomForOneLess == Cardinality(mapRead) + 1 < MaxFds

RegisterStale(p) == mapRead' = mapRead \cup {acc.p}

\* The selector takes one socket more only below its limit.
Room == Cardinality(mapRead) < MaxFds

\* A socket is on the map once, and is not there when it is registered: m_nFds, which
\* counts every call, is the size of the map.
Register(p) == mapRead' = mapRead \cup {p}

\* No open socket has the number.
Unused(p) ==
    \A q \in Endpoint \ {p} :
        sSocket[q] = sSocket[p] =>
            stage[q] # "live" \/ \E c \in Closer : clo[c].p = q /\ clo[c].pc \notin {"idle", "unreg"}

\* A new endpoint, and the first half of RegisterAio(): the selector watches
\* the socket from here on.
Accept(p) ==
    /\ acc.pc = "idle" /\ stop = "running"
    /\ stage[p] = "unborn" /\ Unused(p)
    /\ Room /\ Register(p)
    /\ stage' = [stage EXCEPT ![p] = "live"]
    /\ acc' = [pc |-> "map", p |-> p]
    /\ UNCHANGED <<hung, tables, dqClose, lock, io, snd, clo, ends>>

\* RegisterAio() fails: the socket is closed and the endpoint deleted.
AcceptRefused(p) ==
    /\ acc.pc = "idle" /\ stop = "running"
    /\ stage[p] = "unborn" /\ Unused(p)
    /\ ~Room
    /\ stage' = [stage EXCEPT ![p] = "deleted"]
    /\ UNCHANGED <<hung, mapRead, tables, dqClose, lock, acc, io, snd, clo, ends>>

\* The second half of RegisterAio().
AcceptMap ==
    /\ acc.pc = "map" /\ Free("csComm")
    /\ mapRegisted' = mapRegisted \cup {acc.p}
    /\ acc' = [acc EXCEPT !.pc = "list"]
    /\ UNCHANGED <<stage, hung, mapRead, dqClose, lstEpAccepted, mapEpNormal, mapNm, lstKeys,
                   lock, io, snd, clo, ends>>

AcceptList ==
    /\ acc.pc = "list" /\ Free("csEpAccepted")
    /\ lstEpAccepted' = lstEpAccepted \cup {acc.p}
    /\ acc' = [acc EXCEPT !.pc = "nm"]
    /\ UNCHANGED <<stage, hung, mapRead, dqClose, mapRegisted, mapEpNormal, mapNm, lstKeys,
                   lock, io, snd, clo, ends>>

\* p->OnAccept() and the rest of OnAccept().
AcceptNm ==
    /\ acc.pc = "nm"
    /\ mapNm' = [mapNm EXCEPT ![sSocket[acc.p]] = acc.p]
    /\ acc' = [pc |-> "idle", p |-> None]
    /\ UNCHANGED <<stage, hung, mapRead, dqClose, mapRegisted, lstEpAccepted, mapEpNormal,
                   lstKeys, lock, io, snd, clo, ends>>

-----------------------------------------------------------------------------
(* ReqClose(): whoever takes the endpoint off m_mapRegisted hands it to    *)
(* the worker.                                                             *)

Claimed(p) == p \in mapRegisted

\* A search that finds the endpoint and leaves it on the table.
UnRegisterAioKeeps(p) == UNCHANGED mapRegisted

UnRegisterAio(p) == mapRegisted' = mapRegisted \ {p}

\* Enque() without Signal().
EnqueSilently(p) ==
    /\ work \notin {"towait", "drain"}
    /\ dqClose' = Append(dqClose, p)
    /\ UNCHANGED work

\* The worker keeps its mutex between its last look at the deque and its wait,
\* and while it empties the deque at the end.
Enque(p) ==
    /\ work \notin {"towait", "drain"}
    /\ dqClose' = Append(dqClose, p)
    /\ work' = IF work = "asleep" THEN "check" ELSE work

-----------------------------------------------------------------------------
(* The selector: ThreadEntry() and RecvData().                             *)

Io(p, pc) == io' = [io EXCEPT ![p].pc = pc]

\* The socket is readable: it is off the map until RecvData() is through.
Active(p) ==
    /\ p \in mapRead /\ io[p].pc = "idle"
    /\ Early \/ acc.p # p
    /\ mapRead' = mapRead \ {p}
    /\ Io(p, "ready")
    /\ UNCHANGED <<stage, hung, tables, dqClose, lock, acc, snd, clo, ends>>

\* recv() returns bytes, or nothing, or an error.
Recv(p) ==
    /\ io[p].pc = "ready"
    /\ Io(p, IF p \in hung THEN "close" ELSE "on")
    /\ UNCHANGED <<stage, hung, mapRead, tables, dqClose, lock, acc, snd, clo, ends>>

\* A packet in OnRecv(): Is1stPacket(), and with the first of its key to
\* On1stPacket(), which has nothing to do when it broadcasts.
Packet(p, k) ==
    /\ io[p].pc = "on" /\ k \notin lstKeys[p]
    /\ lstKeys' = [lstKeys EXCEPT ![p] = @ \cup {k}]
    /\ io' = IF m_nBroadcast = 0 THEN [io EXCEPT ![p] = [pc |-> "list", key |-> k]] ELSE io
    /\ UNCHANGED <<stage, hung, mapRead, mapRegisted, lstEpAccepted, mapEpNormal, mapNm,
                   dqClose, lock, acc, snd, clo, ends>>

\* On1stPacket(): off the accepted ones,
FirstList(p) ==
    /\ io[p].pc = "list" /\ Free("csEpAccepted")
    /\ lstEpAccepted' = lstEpAccepted \ {p}
    /\ Io(p, "route")
    /\ UNCHANGED <<stage, hung, mapRead, mapRegisted, mapEpNormal, mapNm, lstKeys, dqClose,
                   lock, acc, snd, clo, ends>>

\* lstKeys when everyone loses the key, the new owner of the route with the others.
RemoveKeyOfAll(k) == [q \in Endpoint |-> lstKeys[q] \ {k}]

\* lstKeys when the route k goes over to another endpoint.
RemoveKey(k) == [q \in Endpoint |-> lstKeys[q] \ IF q = mapEpNormal[k] THEN {k} ELSE {}]

\* and on the routes, from which it may oust the one that had the key.
FirstRoute(p) ==
    /\ io[p].pc = "route" /\ Free("csEpNormal")
    /\ lstKeys' = RemoveKey(io[p].key)
    /\ mapEpNormal' = [mapEpNormal EXCEPT ![io[p].key] = p]
    /\ io' = [io EXCEPT ![p] = [pc |-> "on", key |-> None]]
    /\ UNCHANGED <<stage, hung, mapRead, mapRegisted, lstEpAccepted, mapNm, dqClose, lock, acc,
                   snd, clo, ends>>

\* The answer to a Hello cannot be sent.
HelloFails(p) ==
    /\ io[p].pc = "on" /\ SendsFail /\ p \in hung
    /\ Io(p, "hello")
    /\ UNCHANGED <<stage, hung, mapRead, tables, dqClose, lock, acc, snd, clo, ends>>

\* After an error RecvData() returns; a failed answer is still inside OnRecv().
After(pc) == IF pc \in {"close", "enque"} THEN "idle" ELSE "again"

\* ReqClose() after recv() or from the answer to a Hello.
RecvReqClose(p) ==
    /\ io[p].pc \in {"close", "hello"} /\ Free("csComm")
    /\ UnRegisterAio(p)
    /\ Io(p, IF ~Claimed(p) THEN After(io[p].pc)
             ELSE IF io[p].pc = "close" THEN "enque" ELSE "enquehello")
    /\ UNCHANGED <<stage, hung, mapRead, lstEpAccepted, mapEpNormal, mapNm, lstKeys, dqClose,
                   lock, acc, snd, clo, ends>>

RecvEnque(p) ==
    /\ io[p].pc \in {"enque", "enquehello"}
    /\ Enque(p)
    /\ Io(p, After(io[p].pc))
    /\ UNCHANGED <<stage, hung, mapRead, tables, lock, acc, snd, clo, stop, bEndThread>>

\* OnRecv() has returned: the socket is watched again, if it is still registered
\* and the selector has room; RecvData() does not look at the result.
Again(p) ==
    /\ io[p].pc \in {"on", "again"} /\ Free("csComm")
    /\ IF p \in mapRegisted /\ Room THEN Register(p) ELSE UNCHANGED mapRead
    /\ Io(p, "idle")
    /\ UNCHANGED <<stage, hung, tables, dqClose, lock, acc, snd, clo, ends>>

-----------------------------------------------------------------------------
(* SendPacket(): m_csEpNormal, or in the modes without routes              *)
(* m_csEpAccepted, is held until all is sent.                              *)

\* One mutex in every mode.
SendLockOne == "csEpNormal"

SendLock == IF m_nBroadcast = 0 THEN "csEpNormal" ELSE "csEpAccepted"

\* Who gets a packet: the one with its route, all, or one of all.
Targets(k) ==
    CASE m_nBroadcast = 0 -> {{mapEpNormal[k]}}
      [] m_nBroadcast = 1 -> {lstEpAccepted}
      [] m_nBroadcast = 2 -> {{p} : p \in lstEpAccepted}

SendPacket(s, k) ==
    /\ snd[s].pc = "idle" /\ Free(SendLock)
    /\ \E todo \in Targets(k) :
          /\ todo # {} /\ None \notin todo
          /\ snd' = [snd EXCEPT ![s] = [pc |-> "next", p |-> None, todo |-> todo]]
    /\ lock' = [lock EXCEPT ![SendLock] = s]
    /\ UNCHANGED <<stage, hung, mapRead, tables, dqClose, acc, io, clo, ends>>

\* An iterator that is not advanced.
RestSame(s, p) == snd[s].todo

Rest(s, p) == snd[s].todo \ {p}

\* SendData() of one endpoint, and send() with an error.
Send(s, p) ==
    /\ snd[s].pc = "next" /\ p \in snd[s].todo
    /\ snd' = [snd EXCEPT ![s].todo = Rest(s, p)]
    /\ UNCHANGED <<stage, hung, mapRead, tables, dqClose, lock, acc, io, clo, ends>>

SendError(s, p) ==
    /\ SendsFail /\ p \in hung
    /\ snd[s].pc = "next" /\ p \in snd[s].todo
    /\ snd' = [snd EXCEPT ![s] = [pc |-> "close", p |-> p, todo |-> Rest(s, p)]]
    /\ UNCHANGED <<stage, hung, mapRead, tables, dqClose, lock, acc, io, clo, ends>>

SendReqClose(s) ==
    /\ snd[s].pc = "close" /\ Free("csComm")
    /\ UnRegisterAio(snd[s].p)
    /\ snd' = [snd EXCEPT ![s] = IF Claimed(@.p) THEN [@ EXCEPT !.pc = "enque"]
                                 ELSE [@ EXCEPT !.pc = "next", !.p = None]]
    /\ UNCHANGED <<stage, hung, mapRead, lstEpAccepted, mapEpNormal, mapNm, lstKeys, dqClose,
                   lock, acc, io, clo, ends>>

SendEnque(s) ==
    /\ snd[s].pc = "enque"
    /\ Enque(snd[s].p)
    /\ snd' = [snd EXCEPT ![s] = [@ EXCEPT !.pc = "next", !.p = None]]
    /\ UNCHANGED <<stage, hung, mapRead, tables, lock, acc, io, clo, stop, bEndThread>>

SendDone(s) ==
    /\ snd[s].pc = "next" /\ snd[s].todo = {}
    /\ snd' = [snd EXCEPT ![s].pc = "idle"]
    /\ Unlock(SendLock)
    /\ UNCHANGED <<stage, hung, mapRead, tables, dqClose, acc, io, clo, ends>>

-----------------------------------------------------------------------------
(* Handle() of the worker and the body of the loop in Stop(): UnRegister,  *)
(* closesocket, and CloseProcess() with RemoveEndPoint().                  *)

Close(c, p) == clo' = [clo EXCEPT ![c] = [pc |-> "unreg", p |-> p, keys |-> {}]]

\* Nobody but senders has p in hand, nor will.
Through(p) == io[p].pc = "idle" /\ p \notin mapRead /\ acc.p # p

\* A worker that does not look how long an endpoint has been in the deque.
PausedOverNone(c) == TRUE

\* The worker lets 4 seconds go by after Enque(), but not when it empties the deque at
\* the end; Stop() does not wait.  The peer is gone by then, so that the selector reads
\* the socket once more.
PauseOver(c) == Paused /\ c = worker /\ work = "busy" => Through(clo[c].p)

\* UnRegister() and closesocket().  A socket that has been closed gives errors.
UnRegister(c) ==
    /\ clo[c].pc = "unreg" /\ PauseOver(c)
    /\ mapRead' = mapRead \ {clo[c].p} /\ hung' = hung \cup {clo[c].p}
    /\ clo' = [clo EXCEPT ![c].pc = "nm"]
    /\ UNCHANGED <<stage, tables, dqClose, lock, acc, io, snd, ends>>

\* The entry of that name goes, which may be the next connection's with that number.
RemoveNm(c) ==
    /\ clo[c].pc = "nm"
    /\ mapNm' = [mapNm EXCEPT ![sSocket[clo[c].p]] = None]
    /\ clo' = [clo EXCEPT ![c].pc = "keys"]
    /\ UNCHANGED <<stage, hung, mapRead, mapRegisted, lstEpAccepted, mapEpNormal, lstKeys,
                   dqClose, lock, acc, io, snd, ends>>

\* The copy of Keys(), made before m_csEpNormal is taken.
CopyKeys(c) ==
    /\ clo[c].pc = "keys"
    /\ LET keys == lstKeys[clo[c].p]
       IN  clo' = [clo EXCEPT ![c] = [@ EXCEPT !.pc = IF keys = {} THEN "list" ELSE "routes",
                                               !.keys = keys]]
    /\ UNCHANGED <<stage, hung, mapRead, tables, dqClose, lock, acc, io, snd, ends>>

\* The table when every route goes, and when none does.
ErasedAll(keys) == [k \in Key |-> None]

ErasedNone(keys) == mapEpNormal

Erased(keys) == [k \in Key |-> IF k \in keys THEN None ELSE mapEpNormal[k]]

\* The routes of these keys go, whoever has them now.
RemoveRoutes(c) ==
    /\ clo[c].pc = "routes" /\ Free("csEpNormal")
    /\ LET keys    == clo[c].keys
           blFind  == \E k \in keys : mapEpNormal[k] # None
       IN  /\ mapEpNormal' = Erased(keys)
           /\ clo' = [clo EXCEPT ![c].pc = IF blFind THEN "delete" ELSE "list"]
    /\ UNCHANGED <<stage, hung, mapRead, mapRegisted, lstEpAccepted, mapNm, lstKeys, dqClose,
                   lock, acc, io, snd, ends>>

RemoveAccepted(c) ==
    /\ clo[c].pc = "list" /\ Free("csEpAccepted")
    /\ lstEpAccepted' = lstEpAccepted \ {clo[c].p}
    /\ clo' = [clo EXCEPT ![c].pc = "delete"]
    /\ UNCHANGED <<stage, hung, mapRead, mapRegisted, mapEpNormal, mapNm, lstKeys, dqClose,
                   lock, acc, io, snd, ends>>

\* delete p, and OnClose() of the connection point.
Delete(c) ==
    /\ clo[c].pc = "delete"
    /\ stage' = [stage EXCEPT ![clo[c].p] = "deleted"]
    /\ clo' = [clo EXCEPT ![c] = [pc |-> "idle", p |-> None, keys |-> {}]]
    /\ UNCHANGED <<hung, mapRead, tables, dqClose, lock, acc, io, snd, ends>>

-----------------------------------------------------------------------------
(* The worker: ThreadEntry() of CProtocolCommWorker.                       *)

Work(w) == work' = w

\* The loop looks at m_bEndThread before it takes the mutex.
WorkLoop ==
    /\ work = "loop"
    /\ Work(IF bEndThread THEN "ended" ELSE "check")
    /\ UNCHANGED <<stage, hung, mapRead, tables, dqClose, lock, acc, io, snd, clo, stop,
                   bEndThread>>

\* With the mutex: empty the deque at the end, wait, or serve the first one.
WorkCheck ==
    /\ work = "check"
    /\ \/ bEndThread /\ Work("drain") /\ UNCHANGED <<dqClose, clo>>
       \/ ~bEndThread /\ dqClose = <<>> /\ Work("towait") /\ UNCHANGED <<dqClose, clo>>
       \/ ~bEndThread /\ dqClose # <<>> /\ Work("busy")
          /\ dqClose' = Tail(dqClose) /\ Close(worker, Head(dqClose))
    /\ UNCHANGED <<stage, hung, mapRead, tables, lock, acc, io, snd, stop, bEndThread>>

WorkWait ==
    /\ work = "towait" /\ Work("asleep")
    /\ UNCHANGED <<stage, hung, mapRead, tables, dqClose, lock, acc, io, snd, clo, stop,
                   bEndThread>>

\* Handle() has returned.
WorkNext ==
    /\ work = "busy" /\ clo[worker].pc = "idle" /\ Work("loop")
    /\ UNCHANGED <<stage, hung, mapRead, tables, dqClose, lock, acc, io, snd, clo, stop,
                   bEndThread>>

WorkDrain ==
    /\ work = "drain" /\ clo[worker].pc = "idle"
    /\ IF dqClose = <<>> THEN Work("ended") /\ UNCHANGED <<dqClose, clo>>
       ELSE /\ dqClose' = Tail(dqClose) /\ Close(worker, Head(dqClose)) /\ UNCHANGED work
    /\ UNCHANGED <<stage, hung, mapRead, tables, lock, acc, io, snd, stop, bEndThread>>

-----------------------------------------------------------------------------
(* Stop(): the listener, then every registered endpoint under m_csComm,    *)
(* then EndThread() of the worker.                                         *)

StopListener ==
    /\ Stops /\ stop = "running" /\ stop' = "nolistener"
    /\ UNCHANGED <<stage, hung, mapRead, tables, dqClose, lock, acc, io, snd, clo, work,
                   bEndThread>>

StopLock ==
    /\ stop = "nolistener" /\ Free("csComm") /\ stop' = "closing"
    /\ lock' = [lock EXCEPT !["csComm"] = stopper]
    /\ UNCHANGED <<stage, hung, mapRead, tables, dqClose, acc, io, snd, clo, work, bEndThread>>

ToStop == {p \in mapRegisted : stage[p] # "deleted"}

StopClose(p) ==
    /\ stop = "closing" /\ clo[stopper].pc = "idle" /\ p \in ToStop
    /\ Close(stopper, p)
    /\ UNCHANGED <<stage, hung, mapRead, tables, dqClose, lock, acc, io, snd, ends>>

StopClear ==
    /\ stop = "closing" /\ clo[stopper].pc = "idle" /\ ToStop = {}
    /\ mapRegisted' = {} /\ stop' = "cleared"
    /\ Unlock("csComm")
    /\ UNCHANGED <<stage, hung, mapRead, lstEpAccepted, mapEpNormal, mapNm, lstKeys, dqClose,
                   acc, io, snd, clo, work, bEndThread>>

\* EndThread() and End() take no mutex for the flag and the signal.
StopEndThread ==
    /\ stop = "cleared" /\ bEndThread' = TRUE /\ stop' = "signal"
    /\ UNCHANGED <<stage, hung, mapRead, tables, dqClose, lock, acc, io, snd, clo, work>>

StopSignal ==
    /\ stop = "signal" /\ stop' = "join"
    /\ Work(IF work = "asleep" THEN "check" ELSE work)
    /\ UNCHANGED <<stage, hung, mapRead, tables, dqClose, lock, acc, io, snd, clo, bEndThread>>

StopJoined ==
    /\ stop = "join" /\ work = "ended" /\ stop' = "stopped"
    /\ UNCHANGED <<stage, hung, mapRead, tables, dqClose, lock, acc, io, snd, clo, work,
                   bEndThread>>

\* The peer closes or breaks the connection.
HangUp(p) ==
    /\ stage[p] = "live" /\ p \notin hung
    /\ hung' = hung \cup {p}
    /\ UNCHANGED <<stage, mapRead, tables, dqClose, lock, acc, io, snd, clo, ends>>

-----------------------------------------------------------------------------
Listener == AcceptMap \/ AcceptList \/ AcceptNm \/ \E p \in Endpoint : Accept(p) \/ AcceptRefused(p)

\* What the selector thread does about p once it has its socket, or has to.
IoStep(p) ==
    \/ p \in hung /\ Active(p)
    \/ Recv(p) \/ FirstList(p) \/ FirstRoute(p) \/ RecvReqClose(p) \/ RecvEnque(p) \/ Again(p)

IoThread(p) == IoStep(p) \/ Active(p) \/ HelloFails(p) \/ \E k \in KeysOf[p] : Packet(p, k)

SenderThread(s) ==
    \/ SendReqClose(s) \/ SendEnque(s) \/ SendDone(s)
    \/ \E p \in Endpoint : Send(s, p) \/ SendError(s, p)

CloseStep(c) ==
    \/ UnRegister(c) \/ RemoveNm(c) \/ CopyKeys(c) \/ RemoveRoutes(c) \/ RemoveAccepted(c)
    \/ Delete(c)

WorkerThread == WorkLoop \/ WorkCheck \/ WorkWait \/ WorkNext \/ WorkDrain \/ CloseStep(worker)

Stopping ==
    \/ StopLock \/ StopClear \/ StopEndThread \/ StopSignal \/ StopJoined
    \/ \E p \in Endpoint : StopClose(p)
    \/ CloseStep(stopper)

Next ==
    /\ \/ Listener
       \/ \E p \in Endpoint : IoThread(p) \/ HangUp(p)
       \/ \E s \in Sender : SenderThread(s) \/ \E k \in Key : SendPacket(s, k)
       \/ WorkerThread
       \/ StopListener \/ Stopping
    /\ UNCHANGED <<m_nBroadcast, sSocket>>

Spec == Init /\ [][Next]_vars

\* Every thread that can go on does, and one that asks for a mutex again and again
\* free gets it; m_csComm is kept by Stop() alone, once.  A read holds finitely many
\* packets.  Nobody has to connect, to send or to stop.
Fairness ==
    /\ SF_moving(AcceptMap \/ AcceptList \/ AcceptNm)
    /\ \A p \in Endpoint : SF_moving(IoStep(p)) /\ SF_moving(Again(p))
    /\ \A s \in Sender : WF_moving(SenderThread(s))
    /\ SF_moving(WorkerThread)

FairSpec == Spec /\ Fairness

-----------------------------------------------------------------------------
TypeOK ==
    /\ m_nBroadcast \in 0 .. 2 /\ sSocket \in [Endpoint -> Number]
    /\ stage \in [Endpoint -> {"unborn", "live", "deleted"}]
    /\ hung \subseteq Endpoint /\ mapRead \subseteq Endpoint /\ mapRegisted \subseteq Endpoint
    /\ dqClose \in Seq(Endpoint)
    /\ lstEpAccepted \subseteq Endpoint /\ mapNm \in [Number -> Endpoint \cup {None}]
    /\ mapEpNormal \in [Key -> Endpoint \cup {None}]
    /\ lstKeys \in [Endpoint -> SUBSET Key]
    /\ lock \in [Mutex -> Closer \cup Sender \cup {None}]
    /\ acc \in [pc : {"idle", "map", "list", "nm"}, p : Endpoint \cup {None}]
    /\ io \in [Endpoint -> [pc : {"idle", "ready", "on", "list", "route", "close", "enque",
                                  "hello", "enquehello", "again"},
                            key : Key \cup {None}]]
    /\ snd \in [Sender -> [pc : {"idle", "next", "close", "enque"},
                           p : Endpoint \cup {None}, todo : SUBSET Endpoint]]
    /\ clo \in [Closer -> [pc : {"idle", "unreg", "nm", "keys", "routes", "list", "delete"},
                           p : Endpoint \cup {None}, keys : SUBSET Key]]
    /\ work \in {"loop", "check", "towait", "asleep", "busy", "drain", "ended"}
    /\ stop \in {"running", "nolistener", "closing", "cleared", "signal", "join", "stopped"}
    /\ bEndThread \in BOOLEAN

\* Who answers for closing p: the table, a thread that has taken it off the
\* table, a place in the deque, or the worker.
Owners(p) ==
    {<<"table", q>> : q \in mapRegisted \cap {p}}
    \cup {<<"queued", i>> : i \in {j \in DOMAIN dqClose : dqClose[j] = p}}
    \cup {<<"reader", q>> : q \in {r \in {p} : io[r].pc \in {"enque", "enquehello"}}}
    \cup {<<"sender", s>> : s \in {t \in Sender : snd[t].pc = "enque" /\ snd[t].p = p}}
    \cup {<<"worker", c>> : c \in {d \in {worker} : clo[d].pc # "idle" /\ clo[d].p = p}}

\* An endpoint is closed and deleted at most once, whoever asks for it and however
\* often: at most one owner at any time, and none after it has been deleted (but
\* for the table that Stop() clears when it is through).
OneOwner ==
    \A p \in Endpoint :
        /\ \A a, b \in Owners(p) : a = b
        /\ stage[p] = "deleted" => Owners(p) \subseteq {<<"table", p>>}
        /\ stage[p] = "deleted" /\ p \in mapRegisted => stop = "closing"
        /\ clo[stopper].pc # "idle" /\ clo[stopper].p = p
              => stop = "closing" /\ p \in mapRegisted /\ stage[p] = "live"

\* An endpoint that has a route knows the key, so that its Keys() finds the route
\* again when it is closed.
RouteKnown ==
    \A k \in Key : mapEpNormal[k] # None => k \in lstKeys[mapEpNormal[k]]

\* Stop() has not begun to close what is registered.
Up == stop \in {"running", "nolistener"}

\* Until Stop() closes them all, no table of SendPacket(), and none of the management
\* queries, holds an endpoint that has been deleted.
TablesLive ==
    Up => \A p \in Endpoint :
        stage[p] = "deleted" => /\ p \notin lstEpAccepted
                                /\ \A n \in Number : mapNm[n] # p
                                /\ \A k \in Key : mapEpNormal[k] # p

\* Until Stop() closes them all, no thread works with an endpoint that has been deleted:
\* neither OnAccept() nor a selector thread, with a packet in hand or a failed answer,
\* nor a sender, after a send that failed or in the middle of a broadcast.
NotInUse ==
    Up => \A p \in Endpoint :
        stage[p] = "deleted" => /\ io[p].pc = "idle" /\ acc.p # p
                                /\ \A s \in Sender : snd[s].p # p /\ p \notin snd[s].todo

\* A registered socket that no thread is reading is watched by the selector.
Watched ==
    \A p \in mapRegisted :
        io[p].pc = "idle" /\ stage[p] = "live" /\ clo[stopper].p # p => p \in mapRead

\* With the routes of an endpoint it leaves for good.
Left(p) == \/ stage[p] = "deleted"
           \/ \E c \in Closer : clo[c].p = p /\ clo[c].pc \in {"list", "delete"}

RouteTable == INSTANCE Routes WITH
    serving <- Up,
    phase <- [p \in Endpoint |-> IF Left(p) THEN "gone"
                                 ELSE IF stage[p] = "live" THEN "open" ELSE "unborn"],
    route <- mapEpNormal

\* m_mapEpNormal is such a table of routes, also where peers have keys in common, as a
\* peer that comes back has with its old connection.
RouteSpec == RouteTable!Spec

\* A connection that the peer has closed is deleted in the end.
ClosedInTheEnd == \A p \in Endpoint : p \in hung /\ stage[p] = "live" ~> stage[p] = "deleted"

\* SendPacket() returns.
SendReturns == \A s \in Sender : snd[s].pc # "idle" ~> snd[s].pc = "idle"
=============================================================================
