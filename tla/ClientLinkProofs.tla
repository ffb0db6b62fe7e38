-------------------------- MODULE ClientLinkProofs --------------------------
(***************************************************************************)
(* Theorems about ClientLink, for any sockets and limits, whoever calls.   *)
(*                                                                         *)
(* The argument is that of a baton.  Start(), the connection thread, the   *)
(* table of registrations, a thread that asks to close, the queue and the  *)
(* worker each hold it in their turn, and a step of one of them drops it   *)
(* or hands it to the next: a second connection would need a second baton. *)
(***************************************************************************)
EXTENDS ClientLink, FiniteSetTheorems, TLAPS

\* Who holds the baton.
Starting == main \in {"start", "P", "notify"}
Dialling == at["con"] = "dial" /\ ~Stopping
Making == at["con"] \in {"enter", "map"}
Registered == mapRegisted # {}
Asked == \E a \in Actor : at[a] = "enque"
Queued == dqClose # <<>>
Serving == worker.pc \in {"close", "destroy", "notify"}

Baton ==
    /\ Starting => ~(Dialling \/ Making \/ Registered \/ Asked \/ Queued \/ Serving)
    /\ Dialling => ~(Making \/ Registered \/ Asked \/ Queued \/ Serving)
    /\ Making => ~(Registered \/ Asked \/ Queued \/ Serving)
    /\ Registered => ~(Asked \/ Queued \/ Serving)
    /\ Asked => ~(Queued \/ Serving)
    /\ Queued => ~Serving
    /\ \A s, t \in mapRegisted : s = t
    /\ \A a, b \in Actor : at[a] = "enque" /\ at[b] = "enque" => a = b
    /\ Len(dqClose) <= 1

\* Who has a socket in hand, and who has not.
Keyed ==
    /\ \A a \in Actor : key[a] # None <=> at[a] = "enque" \/ (a = "con" /\ Making)
    /\ worker.pc = "close" => worker.key # None

\* What the counts of the handler say of what has been heard.
Counted ==
    /\ unheard.hellos = IF noAlive = 0 THEN 0 ELSE sended
    /\ noQuote <= unheard.timeouts \/ QuoteLimit <= unheard.timeouts

\* No stage meets a closed socket.
Opened ==
    main # "done" =>
        /\ mapRegisted \subseteq open
        /\ \A a \in Actor : key[a] # None => key[a] \in open
        /\ \A i \in DOMAIN dqClose : dqClose[i] \in open
        /\ worker.pc = "close" => worker.key \in open

Watching == Registered /\ ~Stopping /\ at["con"] # "timer" => timer

IInv == TypeOK /\ Keyed /\ Counted /\ Baton /\ Opened /\ Watching

LEMMA Distinct ==
    /\ None \notin Actor /\ None \notin Sock
    /\ "con" \in Actor /\ "tmr" \in Actor /\ "snd" \in Actor
    /\ \A s \in Sock : s \in Actor /\ s \notin {"con", "tmr", "snd"}
BY ClientLinkAssumption DEF ClientLinkAssumption, Actor, Caller

LEMMA Limits ==
    HelloReSend \in Nat /\ QuoteLimit \in Nat /\ MaxBreaks \in Nat
BY ClientLinkAssumption DEF ClientLinkAssumption

---------------------------------------------------------------------------
(* Types. *)

LEMMA TypeInit == ASSUME Init PROVE TypeOK
<1> USE Distinct, Limits DEF Init
<1>1. /\ at \in [Actor -> {"off", "idle"}]
      /\ key \in [Actor -> {None}] /\ ret \in [Actor -> {"idle"}]
      /\ peer \in [Sock -> {"none"}]
  OBVIOUS
<1>2. worker \in [pc : {"off"}, key : {None}, last : BOOLEAN]
  OBVIOUS
<1>3. /\ noAlive \in 0 .. 1 /\ sended \in 0 .. HelloReSend /\ noQuote \in 0 .. QuoteLimit + 1
      /\ unheard \in [hellos : 0 .. HelloReSend, timeouts : 0 .. QuoteLimit]
      /\ breaks \in 0 .. MaxBreaks
  OBVIOUS
<1>4. handler \in Sock \cup {None} /\ dqClose \in Seq(Sock)
  OBVIOUS
<1>5. m_nConnState \in BOOLEAN /\ timer \in BOOLEAN /\ lost \in BOOLEAN
  BY Zenon
<1> QED
  BY <1>1, <1>2, <1>3, <1>4, <1>5 DEF TypeOK

LEMMA TypeWorker == ASSUME TypeOK, Keyed, Worker PROVE TypeOK'
<1> USE Distinct DEF TypeOK, vars, control, tables, counts, net, link, WorkerTo
<1>1. CASE WorkerTop
  BY <1>1 DEF WorkerTop
<1>2. CASE WorkerLook
  <2>1. dqClose # <<>> => Head(dqClose) \in Sock /\ Tail(dqClose) \in Seq(Sock)
    OBVIOUS
  <2> QED
    BY <1>2, <2>1 DEF WorkerLook
<1>3. CASE WorkerWait
  BY <1>3 DEF WorkerWait
<1>4. CASE WorkerDrain
  <2>1. dqClose # <<>> => Head(dqClose) \in Sock /\ Tail(dqClose) \in Seq(Sock)
    OBVIOUS
  <2> QED
    <3>1. worker' \in [pc : {"ended", "close"}, key : Sock \cup {None}, last : BOOLEAN]
      <4>1. CASE dqClose = <<>>
        BY <1>4, <4>1 DEF WorkerDrain
      <4>2. CASE dqClose # <<>>
        <5>1. worker' = [pc |-> "close", key |-> Head(dqClose), last |-> TRUE]
          BY <1>4, <4>2 DEF WorkerDrain
        <5> QED
          BY <2>1, <4>2, <5>1
      <4> QED
        BY <4>1, <4>2
    <3>2. dqClose' \in Seq(Sock)
      BY <1>4, <2>1 DEF WorkerDrain
    <3> QED
      BY <1>4, <3>1, <3>2 DEF WorkerDrain
<1>5. CASE WorkerClose
  BY <1>5 DEF WorkerClose, CloseSocket
<1>6. CASE WorkerDestroy
  BY <1>6 DEF WorkerDestroy
<1>7. CASE WorkerNotify
  <2>1. at' \in {at, [at EXCEPT !["con"] = "dial"], [at EXCEPT !["con"] = at["con"]]}
    BY <1>7 DEF WorkerNotify, SignalCon
  <2>2. worker' \in [pc : {"drain", "top"}, key : {None}, last : BOOLEAN]
    BY <1>7 DEF WorkerNotify
  <2> QED
    BY <1>7, <2>1, <2>2 DEF WorkerNotify
<1> QED
  BY <1>1, <1>2, <1>3, <1>4, <1>5, <1>6, <1>7 DEF Worker

LEMMA TypeReqClose ==
    ASSUME TypeOK, Keyed, NEW a \in Actor, ReqClose(a)
    PROVE  TypeOK'
<1> USE Distinct DEF TypeOK, control, tables, counts, net, link, Goto
<1>1. CASE UnRegisterAio(a)
  <2>1. ret[a] \in {"idle", "told", "rereg"}
    OBVIOUS
  <2>2. /\ \/ at' = [at EXCEPT ![a] = "enque"]
           \/ at' = [at EXCEPT ![a] = ret[a]]
        /\ \/ key' = key
           \/ \E s \in Sock : key' = [key EXCEPT ![a] = s]
        /\ mapRegisted' \subseteq Sock /\ timer' \in BOOLEAN
    BY <1>1 DEF UnRegisterAio, Erase
  <2> QED
    BY <1>1, <2>1, <2>2 DEF UnRegisterAio
<1>2. CASE Enque(a)
  <2>1. key[a] \in Sock
    BY <1>2 DEF Enque, Keyed
  <2> QED
    BY <1>2, <2>1 DEF Enque, Erase, SignalWorker
<1> QED
  BY <1>1, <1>2 DEF ReqClose

LEMMA TypeConnector ==
    ASSUME TypeOK, Keyed, Connector \/ ConRefused
    PROVE  TypeOK'
<1> USE Distinct, Limits DEF TypeOK, control, tables, counts, net, link, Goto, CloseSocket
<1>1. CASE ConBegin \/ ConCheck \/ ConWait \/ ConGiveUp \/ ConTooLate \/ ConTimer \/ ConTold
  BY <1>1 DEF ConBegin, ConCheck, ConWait, ConGiveUp, ConTooLate, ConTimer, ConTold
<1>2. CASE ConRefused
  <2>1. /\ UNCHANGED <<main, at, key, ret, worker, dqClose, mapRead, mapRegisted>>
        /\ UNCHANGED <<noAlive, sended, noQuote, unheard, open, peer, breaks, lost>>
        /\ UNCHANGED <<handler, timer>> /\ m_nConnState' = FALSE
    BY <1>2 DEF ConRefused
  <2>2. m_nConnState' \in BOOLEAN /\ timer' \in BOOLEAN /\ lost' \in BOOLEAN
    BY <2>1, Zenon
  <2> QED
    BY <2>1, <2>2
<1>3. ASSUME NEW s \in Sock, ConConnect(s) PROVE TypeOK'
  BY <1>3 DEF ConConnect
<1>4. CASE ConEnter \/ ConUnregistered \/ ConMap
  <2>1. key["con"] \in Sock
    BY <1>4 DEF Keyed, Making, ConEnter, ConUnregistered, ConMap
  <2>2. CASE ConEnter
    BY <2>1, <2>2 DEF ConEnter
  <2>3. CASE ConUnregistered
    BY <2>1, <2>3 DEF ConUnregistered
  <2>4. CASE ConMap
    BY <2>1, <2>4 DEF ConMap
  <2> QED
    BY <1>4, <2>2, <2>3, <2>4
<1>5. CASE ConLogin
  BY <1>5 DEF ConLogin, Send, AskToClose
<1>6. CASE ReqClose("con")
  BY <1>6, TypeReqClose
<1> QED
  BY <1>1, <1>2, <1>3, <1>4, <1>5, <1>6 DEF Connector

LEMMA TypeTimeout == ASSUME TypeOK, Counted, Timeout PROVE TypeOK'
<1> USE Distinct, Limits DEF TypeOK, control, tables, counts, net, link
<1>1. noAlive' \in 0 .. 1 /\ sended' \in 0 .. HelloReSend
  BY DEF Timeout
<1>2. noQuote' \in 0 .. QuoteLimit + 1
  BY DEF Timeout
<1>3. unheard' \in [hellos : 0 .. HelloReSend, timeouts : 0 .. QuoteLimit]
  BY DEF Timeout, Counted, Least
<1>4. peer' \in [Sock -> {"none", "up", "silent", "gone"}] /\ breaks' \in 0 .. MaxBreaks
  BY DEF Timeout, Send
<1>5. /\ at' = at \/ at' = [at EXCEPT !["tmr"] = "unreg"]
      /\ ret' = ret \/ ret' = [ret EXCEPT !["tmr"] = "idle"]
      /\ UNCHANGED <<main, key, worker, tables, open, lost, link>>
  BY DEF Timeout, AskToClose
<1> QED
  BY <1>1, <1>2, <1>3, <1>4, <1>5

LEMMA TypeIo ==
    ASSUME TypeOK, Keyed, NEW s \in Sock, Io(s) \/ PeerFails(s)
    PROVE  TypeOK'
<1> USE Distinct, Limits DEF TypeOK, control, tables, counts, net, link, Goto, AskToClose
<1>1. CASE IoPick(s)
  BY <1>1 DEF IoPick
<1>2. CASE IoBroken(s)
  BY <1>2 DEF IoBroken
<1>3. CASE IoPacket(s)
  <2>1. /\ \/ /\ \E pc \in {"rereg", "answer", "quote"} : at' = [at EXCEPT ![s] = pc]
              /\ ret' = ret
           \/ at' = [at EXCEPT ![s] = "unreg"] /\ ret' = [ret EXCEPT ![s] = "rereg"]
        /\ breaks' \in 0 .. MaxBreaks
        /\ UNCHANGED <<main, key, worker, tables, sended, noQuote, open, peer, lost, link>>
    BY <1>3 DEF IoPacket
  <2>2. noAlive' = 0 /\ unheard' \in [hellos : 0 .. HelloReSend, timeouts : 0 .. QuoteLimit]
    BY <1>3 DEF IoPacket, Heard
  <2> QED
    BY <2>1, <2>2
<1>7. CASE IoAnswer(s)
  <2>1. /\ \/ at' = [at EXCEPT ![s] = "rereg"] /\ ret' = ret
           \/ at' = [at EXCEPT ![s] = "unreg"] /\ ret' = [ret EXCEPT ![s] = "rereg"]
        /\ UNCHANGED <<main, key, worker, tables, counts, open, lost, link>>
    BY <1>7 DEF IoAnswer
  <2>2. peer' \in [Sock -> {"none", "up", "silent", "gone"}] /\ breaks' \in 0 .. MaxBreaks
    BY <1>7 DEF IoAnswer, Send
  <2> QED
    BY <2>1, <2>2
<1>8. CASE IoQuote(s)
  BY <1>8 DEF IoQuote
<1>4. CASE IoRereg(s)
  BY <1>4 DEF IoRereg
<1>5. CASE ReqClose(s)
  BY <1>5, TypeReqClose
<1>6. CASE PeerFails(s)
  BY <1>6 DEF PeerFails
<1> QED
  BY <1>1, <1>2, <1>3, <1>4, <1>5, <1>6, <1>7, <1>8 DEF Io, RecvData

LEMMA TypeSend == ASSUME TypeOK, SendPacket PROVE TypeOK'
BY Distinct, Limits
   DEF TypeOK, SendPacket, Send, AskToClose, control, tables, counts, net, link

LEMMA TypeMain == ASSUME TypeOK, Main \/ StopCon PROVE TypeOK'
<1> USE Distinct DEF TypeOK, control, tables, counts, net, link, MainTo
<1>1. CASE StartCon \/ StartSynced \/ StartNotify \/ StartWorker \/ StopJoined \/ StopDestroy
  <2>1. /\ main' \in {"P", "notify", "begin", "run", "each"}
        /\ UNCHANGED <<key, ret, tables, counts, net, handler, m_nConnState>>
        /\ timer' \in {timer, FALSE}
    BY <1>1 DEF StartCon, StartSynced, StartNotify, StartWorker, StopJoined, StopDestroy
  <2>2. /\ \E pc \in {"begun", "dial", at["con"]} : at' \in {at, [at EXCEPT !["con"] = pc]}
        /\ worker' \in {worker, [worker EXCEPT !.pc = "top"]}
    BY <1>1 DEF StartCon, StartSynced, StartNotify, StartWorker, StopJoined, StopDestroy,
                Goto, SignalCon, WorkerTo
  <2>3. m_nConnState' \in BOOLEAN /\ timer' \in BOOLEAN /\ lost' \in BOOLEAN
    BY <2>1, Zenon
  <2>4. at' \in [Actor -> {"off", "begun", "check", "going", "wait", "dial", "enter", "map",
                           "timer", "login", "told", "ended", "idle", "unreg", "enque",
                           "packet", "answer", "quote", "broken", "rereg"}]
    BY <2>2
  <2> QED
    BY <2>1, <2>2, <2>3, <2>4
<1>2. CASE StopCon
  BY <1>2 DEF StopCon, SignalCon
<1>3. ASSUME NEW s \in Sock, StopEach(s) PROVE TypeOK'
  BY <1>3 DEF StopEach, CloseSocket
<1>4. CASE StopWorker
  BY <1>4 DEF StopWorker, SignalWorker
<1>5. CASE StopDone
  BY <1>5 DEF StopDone
<1> QED
  BY <1>1, <1>2, <1>3, <1>4, <1>5 DEF Main

LEMMA TypeStep ==
    ASSUME TypeOK, Keyed, Counted, [Next]_vars
    PROVE  TypeOK'
<1>1. CASE Worker \/ Connector \/ ConRefused
  BY <1>1, TypeWorker, TypeConnector
<1>2. CASE Timer \/ SendPacket \/ ReqClose("snd")
  BY <1>2, TypeTimeout, TypeSend, TypeReqClose, Distinct DEF Timer
<1>3. ASSUME NEW s \in Sock, Io(s) \/ PeerFails(s) PROVE TypeOK'
  BY <1>3, TypeIo
<1>4. CASE Main \/ StopCon
  BY <1>4, TypeMain
<1>5. CASE UNCHANGED vars
  BY <1>5 DEF TypeOK, vars, control, tables, counts, net, link
<1> QED
  BY <1>1, <1>2, <1>3, <1>4, <1>5 DEF Next

---------------------------------------------------------------------------
(* What the counts say. *)

LEMMA CountedStep ==
    ASSUME TypeOK, Counted, [Next]_vars
    PROVE  Counted'
<1> USE Limits DEF Counted, counts
<1>1. CASE UNCHANGED counts
  BY <1>1
<1>2. CASE Timeout
  <2>1. (unheard.hellos = IF noAlive = 0 THEN 0 ELSE sended)'
    BY <1>2 DEF Timeout, TypeOK
  <2>2. (noQuote <= unheard.timeouts \/ QuoteLimit <= unheard.timeouts)'
    BY <1>2 DEF Timeout, TypeOK, Least
  <2> QED
    BY <2>1, <2>2
<1>3. ASSUME NEW s \in Sock, IoPacket(s) \/ IoQuote(s) PROVE Counted'
  BY <1>3 DEF IoPacket, IoQuote, Heard, TypeOK
<1>4. CASE Worker
  BY <1>1, <1>4 DEF Worker, WorkerTop, WorkerLook, WorkerWait, WorkerDrain, WorkerClose,
                    WorkerDestroy, WorkerNotify
<1>5. ASSUME NEW a \in Actor, ReqClose(a) PROVE Counted'
  BY <1>1, <1>5 DEF ReqClose, UnRegisterAio, Enque
<1>6. CASE Connector \/ ConRefused
  BY <1>1, <1>5, <1>6, Distinct
     DEF Connector, ConBegin, ConCheck, ConWait, ConGiveUp, ConRefused, ConConnect, ConTooLate,
         ConEnter, ConUnregistered, ConMap, ConTimer, ConLogin, ConTold
<1>7. ASSUME NEW s \in Sock, Io(s) \/ PeerFails(s) PROVE Counted'
  BY <1>1, <1>3, <1>5, <1>7, Distinct
     DEF Io, RecvData, IoPick, IoBroken, IoAnswer, IoRereg, PeerFails
<1>8. CASE Main \/ StopCon
  BY <1>1, <1>8 DEF Main, StartCon, StartSynced, StartNotify, StartWorker, StopCon, StopJoined,
                    StopEach, StopDestroy, StopWorker, StopDone
<1>9. CASE SendPacket
  BY <1>1, <1>9 DEF SendPacket
<1> QED
  BY <1>1, <1>2, <1>4, <1>5, <1>6, <1>7, <1>8, <1>9, Distinct DEF Next, Timer, vars

---------------------------------------------------------------------------
(* Who has a socket in hand. *)

\* A thread that goes from one place without a socket to another.
LEMMA KeyedMove ==
    ASSUME TypeOK, Keyed, UNCHANGED <<key, worker>>, NEW a \in Actor,
           at[a] # "enque", at'[a] # "enque",
           a = "con" => ~Making /\ ~Making',
           \A b \in Actor \ {a} : at'[b] = at[b]
    PROVE  Keyed'
BY Distinct DEF Keyed, Making

LEMMA KeyedReqClose ==
    ASSUME TypeOK, Keyed, NEW a \in Actor, ReqClose(a)
    PROVE  Keyed'
<1>1. ret[a] \notin {"enque", "enter", "map"}
  BY DEF TypeOK
<1>2. CASE UnRegisterAio(a)
  <2>1. CASE mapRegisted = {}
    BY <1>1, <1>2, <2>1, KeyedMove DEF UnRegisterAio, Goto, TypeOK, Making
  <2>2. CASE mapRegisted # {}
    <3>1. PICK s \in Sock : key' = [key EXCEPT ![a] = s]
      BY <1>2, <2>2 DEF UnRegisterAio, TypeOK
    <3>2. at' = [at EXCEPT ![a] = "enque"] /\ UNCHANGED worker /\ at[a] = "unreg"
      BY <1>2, <2>2 DEF UnRegisterAio, Goto
    <3> QED
      BY <3>1, <3>2, Distinct DEF Keyed, Making, TypeOK
  <2> QED
    BY <2>1, <2>2
<1>3. CASE Enque(a)
  <2>1. worker' = worker \/ worker' = [worker EXCEPT !.pc = "look"]
    BY <1>3 DEF Enque, SignalWorker
  <2>2. worker'.pc = "close" => worker'.key # None
    BY <2>1 DEF Keyed, TypeOK
  <2>3. key' = [key EXCEPT ![a] = None] /\ at' = [at EXCEPT ![a] = ret[a]]
    BY <1>3 DEF Enque, Goto
  <2>4. \A b \in Actor : at[b] = "enque" => key[b] # None
    BY DEF Keyed
  <2> QED
    BY <1>1, <1>3, <2>2, <2>3, Distinct DEF Keyed, Making, TypeOK, Enque
<1> QED
  BY <1>2, <1>3 DEF ReqClose

LEMMA KeyedWorker == ASSUME TypeOK, Keyed, Worker PROVE Keyed'
<1> USE Distinct DEF Keyed, WorkerTo
<1>1. worker'.pc = "close" => worker'.key # None
  <2>1. dqClose # <<>> => Head(dqClose) \in Sock
    BY DEF TypeOK
  <2>2. CASE WorkerTop
    BY <2>2 DEF WorkerTop, TypeOK
  <2>3. CASE WorkerLook
    <3>1. \/ worker' = [worker EXCEPT !.pc = "drain"]
          \/ worker' = [worker EXCEPT !.pc = "going"]
          \/ worker' = [worker EXCEPT !.pc = "close", !.key = Head(dqClose)] /\ dqClose # <<>>
      BY <2>3 DEF WorkerLook
    <3>2. /\ \A k : [worker EXCEPT !.pc = "close", !.key = k].key = k
          /\ [worker EXCEPT !.pc = "drain"].pc = "drain"
          /\ [worker EXCEPT !.pc = "going"].pc = "going"
      BY DEF TypeOK
    <3>3. \/ worker'.pc \in {"drain", "going"}
          \/ worker'.key = Head(dqClose) /\ dqClose # <<>>
      BY <3>1, <3>2
    <3> QED
      BY <2>1, <3>3
  <2>4. CASE WorkerDrain
    <3>1. \/ worker' = [worker EXCEPT !.pc = "ended", !.last = FALSE]
          \/ worker' = [pc |-> "close", key |-> Head(dqClose), last |-> TRUE] /\ dqClose # <<>>
      BY <2>4 DEF WorkerDrain
    <3>2. CASE worker' = [worker EXCEPT !.pc = "ended", !.last = FALSE]
      BY <3>2 DEF TypeOK
    <3>3. CASE worker' = [pc |-> "close", key |-> Head(dqClose), last |-> TRUE]
      BY <3>3, <3>1, <2>1
    <3> QED
      BY <3>1, <3>2, <3>3
  <2>5. CASE WorkerWait \/ WorkerClose \/ WorkerDestroy
    BY <2>5 DEF WorkerWait, WorkerClose, WorkerDestroy, TypeOK
  <2>6. CASE WorkerNotify
    BY <2>6 DEF WorkerNotify, TypeOK
  <2> QED
    BY <2>2, <2>3, <2>4, <2>5, <2>6 DEF Worker
<1>2. CASE WorkerNotify
  BY <1>1, <1>2 DEF WorkerNotify, SignalCon, Making, TypeOK
<1>3. CASE UNCHANGED <<at, key>>
  BY <1>1, <1>3 DEF Making
<1> QED
  BY <1>2, <1>3 DEF Worker, WorkerTop, WorkerLook, WorkerDrain, WorkerWait, WorkerClose,
                    WorkerDestroy

LEMMA KeyedConnector ==
    ASSUME TypeOK, Keyed, Connector \/ ConRefused
    PROVE  Keyed'
<1> USE Distinct DEF Goto
<1>1. CASE ConBegin \/ ConCheck \/ ConWait \/ ConGiveUp \/ ConTimer \/ ConTold
  <2>1. /\ UNCHANGED <<key, worker>>
        /\ at' \in {[at EXCEPT !["con"] = pc] :
                        pc \in {"check", "going", "wait", "ended", "login"}}
        /\ at["con"] \in {"begun", "check", "going", "dial", "timer", "told"}
    BY <1>1 DEF ConBegin, ConCheck, ConWait, ConGiveUp, ConTimer, ConTold
  <2> QED
    BY <2>1, KeyedMove DEF TypeOK, Making
<1>2. CASE ConRefused
  BY <1>2 DEF ConRefused, control, Keyed, Making
<1>3. ASSUME NEW s \in Sock, ConConnect(s) PROVE Keyed'
  BY <1>3 DEF ConConnect, Keyed, Making, TypeOK
<1>4. CASE ConTooLate \/ ConUnregistered \/ ConMap
  <2>1. /\ key' = [key EXCEPT !["con"] = None] /\ UNCHANGED worker
        /\ at' \in {[at EXCEPT !["con"] = pc] : pc \in {"check", "timer"}}
    BY <1>4 DEF ConTooLate, ConUnregistered, ConMap
  <2> QED
    BY <2>1 DEF Keyed, Making, TypeOK
<1>5. CASE ConEnter
  BY <1>5 DEF ConEnter, Keyed, Making, TypeOK
<1>6. CASE ConLogin
  <2>1. /\ UNCHANGED <<key, worker>> /\ at["con"] = "login"
        /\ at' \in {[at EXCEPT !["con"] = pc] : pc \in {"told", "unreg"}}
    BY <1>6 DEF ConLogin, AskToClose
  <2> QED
    BY <2>1, KeyedMove DEF TypeOK, Making
<1>7. CASE ReqClose("con")
  BY <1>7, KeyedReqClose
<1> QED
  BY <1>1, <1>2, <1>3, <1>4, <1>5, <1>6, <1>7 DEF Connector

\* What the timer, the application and the selector's threads do to where
\* they are, but for closing.
LEMMA OthersMove ==
    ASSUME TypeOK
    PROVE  /\ Timeout =>
                /\ at' = at \/ at' = [at EXCEPT !["tmr"] = "unreg"]
                /\ at["tmr"] = "idle"
           /\ SendPacket =>
                /\ at' = at \/ at' = [at EXCEPT !["snd"] = "unreg"]
                /\ at["snd"] = "idle"
           /\ \A s \in Sock : RecvData(s) =>
                /\ at' \in {[at EXCEPT ![s] = pc] :
                                pc \in {"packet", "answer", "quote", "broken", "unreg", "rereg",
                                        "idle"}}
                /\ at[s] \in {"packet", "answer", "quote", "broken", "rereg", "idle"}
           /\ \A s \in Sock : PeerFails(s) => at' = at
<1>1. Timeout => /\ at' = at \/ at' = [at EXCEPT !["tmr"] = "unreg"]
                 /\ at["tmr"] = "idle"
  BY DEF Timeout, AskToClose, TimesFree
<1>2. SendPacket => /\ at' = at \/ at' = [at EXCEPT !["snd"] = "unreg"]
                    /\ at["snd"] = "idle"
  BY DEF SendPacket, AskToClose
<1>3. ASSUME NEW s \in Sock, RecvData(s)
      PROVE  /\ at' \in {[at EXCEPT ![s] = pc] :
                             pc \in {"packet", "answer", "quote", "broken", "unreg", "rereg",
                                     "idle"}}
             /\ at[s] \in {"packet", "answer", "quote", "broken", "rereg", "idle"}
  BY <1>3 DEF RecvData, IoPick, IoBroken, IoPacket, IoAnswer, IoQuote, IoRereg, Goto, AskToClose
<1>4. \A s \in Sock : PeerFails(s) => at' = at
  BY DEF PeerFails, control
<1> QED
  BY <1>1, <1>2, <1>3, <1>4

\* They leave alone whatever the baton is made of.
LEMMA OthersFrame ==
    ASSUME \/ Timeout \/ SendPacket
           \/ \E s \in Sock : RecvData(s) \/ PeerFails(s)
    PROVE  UNCHANGED <<main, key, worker, dqClose, mapRegisted, open, timer>>
<1>1. CASE Timeout \/ SendPacket
  BY <1>1 DEF Timeout, SendPacket, tables, link
<1>2. ASSUME NEW s \in Sock, RecvData(s)
      PROVE  UNCHANGED <<main, key, worker, dqClose, mapRegisted, open, timer>>
  BY <1>2 DEF RecvData, IoPick, IoBroken, IoPacket, IoAnswer, IoQuote, IoRereg, tables, net, link
<1>3. ASSUME NEW s \in Sock, PeerFails(s)
      PROVE  UNCHANGED <<main, key, worker, dqClose, mapRegisted, open, timer>>
  BY <1>3 DEF PeerFails, control, tables, link
<1> QED
  BY <1>1, <1>2, <1>3

LEMMA KeyedOthers ==
    ASSUME TypeOK, Keyed,
           \/ Timeout \/ SendPacket
           \/ \E s \in Sock : RecvData(s) \/ PeerFails(s)
    PROVE  Keyed'
<1> USE Distinct
<1>1. UNCHANGED <<key, worker>>
  BY OthersFrame
<1>2. CASE UNCHANGED at
  BY <1>1, <1>2 DEF Keyed, Making
<1>3. CASE Timeout
  BY <1>1, <1>2, <1>3, OthersMove, KeyedMove DEF TypeOK
<1>4. CASE SendPacket
  BY <1>1, <1>2, <1>4, OthersMove, KeyedMove DEF TypeOK
<1>5. ASSUME NEW s \in Sock, RecvData(s)
      PROVE  Keyed'
  BY <1>1, <1>5, OthersMove, KeyedMove DEF TypeOK
<1> QED
  BY <1>2, <1>3, <1>4, <1>5, OthersMove

LEMMA KeyedMain == ASSUME TypeOK, Keyed, Baton, Main \/ StopCon PROVE Keyed'
<1> USE Distinct
<1>1. CASE UNCHANGED <<at, key>> /\ worker'.pc # "close"
  BY <1>1 DEF Keyed, Making
<1>2. CASE UNCHANGED <<at, key, worker>>
  BY <1>2 DEF Keyed, Making
<1>3. CASE StartCon \/ StartNotify \/ StopCon
  <2>1. /\ UNCHANGED <<key, worker>>
        /\ \/ at' = at
           \/ at' = [at EXCEPT !["con"] = "begun"]
           \/ at' = [at EXCEPT !["con"] = "dial"] /\ at["con"] = "wait"
    <3>1. at["con"] # "wait" => [at EXCEPT !["con"] = at["con"]] = at
      BY DEF TypeOK
    <3> QED
      BY <1>3, <3>1 DEF StartCon, StartNotify, StopCon, Goto, SignalCon
  <2>2. StartCon => ~Making /\ at["con"] # "enque"
    BY DEF StartCon, Baton, Starting, Asked
  <2>3. StartNotify \/ StopCon => at' # [at EXCEPT !["con"] = "begun"] \/ at' = at
    <3>1. at["con"] # "wait" => [at EXCEPT !["con"] = at["con"]] = at
      BY DEF TypeOK
    <3> QED
      BY <3>1 DEF StartNotify, StopCon, SignalCon, TypeOK
  <2> QED
    BY <1>2, <1>3, <2>1, <2>2, <2>3, KeyedMove DEF TypeOK, Making
<1>4. CASE StartWorker \/ StopWorker
  BY <1>1, <1>2, <1>4 DEF StartWorker, StopWorker, WorkerTo, SignalWorker, TypeOK
<1> QED
  BY <1>2, <1>3, <1>4 DEF Main, StartSynced, StopJoined, StopEach, StopDestroy, StopDone

LEMMA KeyedStep ==
    ASSUME TypeOK, Keyed, Baton, [Next]_vars
    PROVE  Keyed'
<1>1. CASE UNCHANGED vars
  BY <1>1 DEF vars, control, Keyed, Making
<1> QED
  BY <1>1, KeyedWorker, KeyedConnector, KeyedOthers, KeyedReqClose, KeyedMain, Distinct
     DEF Next, Timer, Io

---------------------------------------------------------------------------
(* The baton. *)

\* A step by which nobody gets hold of it.
LEMMA BatonQuiet ==
    ASSUME TypeOK, Baton,
           Starting' => Starting, Dialling' => Dialling, Making' => Making,
           mapRegisted' \subseteq mapRegisted,
           \A a \in Actor : at'[a] = "enque" => at[a] = "enque",
           dqClose' = dqClose \/ dqClose' = <<>>,
           Serving' => Serving
    PROVE  Baton'
<1>1. Registered' => Registered
  BY DEF Registered
<1>2. Asked' => Asked
  BY DEF Asked
<1>3. Queued' => Queued /\ dqClose' = dqClose
  BY DEF Queued
<1>4. Len(dqClose') <= 1
  BY DEF Baton
<1>5. /\ (\A s, t \in mapRegisted : s = t)'
      /\ (\A a, b \in Actor : at[a] = "enque" /\ at[b] = "enque" => a = b)'
  BY DEF Baton
<1> QED
  BY <1>1, <1>2, <1>3, <1>4, <1>5 DEF Baton

\* ReqClose(): the table hands the baton to the thread, the thread to the queue.
LEMMA BatonReqClose ==
    ASSUME TypeOK, Baton, NEW a \in Actor, ReqClose(a)
    PROVE  Baton'
<1>1. ret[a] \notin {"enque", "enter", "map", "dial"}
  BY DEF TypeOK
<1>2. CASE UnRegisterAio(a) /\ mapRegisted = {}
  <2>1. at' = [at EXCEPT ![a] = ret[a]] /\ UNCHANGED <<main, mapRegisted, dqClose, worker>>
    BY <1>2 DEF UnRegisterAio, Goto
  <2> QED
    BY <1>1, <2>1, BatonQuiet DEF TypeOK, Starting, Dialling, Making, Serving, Stopping
<1>3. CASE UnRegisterAio(a) /\ mapRegisted # {}
  <2>1. /\ at' = [at EXCEPT ![a] = "enque"] /\ UNCHANGED <<main, dqClose, worker>>
        /\ \E s \in mapRegisted : mapRegisted' = mapRegisted \ {s}
    BY <1>3 DEF UnRegisterAio, Goto
  <2>2. Registered /\ ~Starting /\ ~Dialling /\ ~Making /\ ~Asked /\ ~Queued /\ ~Serving
    BY <1>3 DEF Registered, Baton
  <2>3. mapRegisted' = {}
    BY <2>1 DEF Baton
  <2>4. ~(Starting \/ Dialling \/ Making \/ Registered \/ Queued \/ Serving)'
    BY <2>1, <2>2, <2>3, Distinct
       DEF Starting, Dialling, Making, Registered, Queued, Serving, Stopping, TypeOK
  <2>5. \A b \in Actor : at'[b] = "enque" => b = a
    BY <2>1, <2>2 DEF Asked, TypeOK
  <2>6. Len(dqClose') <= 1
    BY <2>1 DEF Baton
  <2> QED
    BY <2>3, <2>4, <2>5, <2>6 DEF Baton
<1>4. CASE Enque(a)
  <2>1. /\ at' = [at EXCEPT ![a] = ret[a]] /\ UNCHANGED <<main, mapRegisted>>
        /\ dqClose' = Append(dqClose, key[a])
        /\ worker' = worker \/ worker' = [worker EXCEPT !.pc = "look"]
        /\ at[a] = "enque"
    BY <1>4 DEF Enque, Goto, SignalWorker
  <2>2. Asked /\ ~Starting /\ ~Dialling /\ ~Making /\ ~Registered /\ ~Queued /\ ~Serving
    BY <2>1 DEF Asked, Baton
  <2>3. ~(Starting \/ Dialling \/ Making \/ Registered \/ Serving)'
    BY <1>1, <2>1, <2>2
       DEF Starting, Dialling, Making, Registered, Serving, Stopping, TypeOK
  <2>4. \A b \in Actor : at'[b] # "enque"
    BY <1>1, <2>1 DEF Baton, TypeOK
  <2>5. Len(dqClose') = 1
    <3>1. dqClose = <<>>
      BY <2>2 DEF Queued
    <3>2. Len(<<>>) = 0
      OBVIOUS
    <3> QED
      BY <2>1, <3>1, <3>2 DEF TypeOK
  <2>6. (\A s, t \in mapRegisted : s = t)'
    BY <2>1 DEF Baton
  <2> QED
    BY <2>3, <2>4, <2>5, <2>6 DEF Baton, Asked
<1> QED
  BY <1>2, <1>3, <1>4 DEF ReqClose

\* The queue hands it to the worker, the worker to the connection thread.
LEMMA BatonWorker == ASSUME TypeOK, Baton, Worker PROVE Baton'
<1>1. CASE UNCHANGED <<main, at, mapRegisted, dqClose>> /\ (Serving' => Serving)
  BY <1>1, BatonQuiet DEF Starting, Dialling, Making, Serving, Stopping
<1>2. CASE WorkerTop \/ WorkerWait \/ WorkerClose \/ WorkerDestroy
  <2>1. UNCHANGED <<main, at, mapRegisted, dqClose>>
    BY <1>2 DEF WorkerTop, WorkerWait, WorkerClose, WorkerDestroy, CloseSocket, tables
  <2>2. Serving' => Serving
    BY <1>2 DEF WorkerTop, WorkerWait, WorkerClose, WorkerDestroy, WorkerTo, Serving, TypeOK
  <2> QED
    BY <1>1, <2>1, <2>2
<1>3. CASE WorkerLook \/ WorkerDrain
  <2>1. UNCHANGED <<main, at, mapRegisted>>
    BY <1>3 DEF WorkerLook, WorkerDrain
  <2>2. CASE dqClose' = dqClose /\ ~Serving'
    BY <1>1, <2>1, <2>2
  <2>3. CASE dqClose # <<>> /\ dqClose' = Tail(dqClose)
    <3>1. dqClose' = <<>>
      BY <2>3 DEF Baton, TypeOK
    <3>2. Queued /\ ~Starting /\ ~Dialling /\ ~Making /\ ~Registered /\ ~Asked
      BY <2>3 DEF Queued, Baton
    <3>3. ~(Starting \/ Dialling \/ Making \/ Registered \/ Asked \/ Queued)'
      BY <2>1, <3>1, <3>2
         DEF Starting, Dialling, Making, Registered, Asked, Queued, Stopping
    <3>4. Len(dqClose') <= 1
      BY <3>1
    <3> QED
      BY <2>1, <3>3, <3>4 DEF Baton
  <2>4. (dqClose' = dqClose /\ ~Serving') \/ (dqClose # <<>> /\ dqClose' = Tail(dqClose))
    <3>1. CASE WorkerLook
      BY <3>1 DEF WorkerLook, WorkerTo, Serving, TypeOK
    <3>2. CASE WorkerDrain
      BY <3>2 DEF WorkerDrain, Serving, TypeOK
    <3> QED
      BY <1>3, <3>1, <3>2
  <2> QED
    BY <2>2, <2>3, <2>4
<1>4. CASE WorkerNotify
  <2>1. /\ UNCHANGED <<main, mapRegisted, dqClose>> /\ ~Serving'
        /\ \/ at' = at
           \/ at' = [at EXCEPT !["con"] = "dial"]
    <3>1. at["con"] # "wait" => [at EXCEPT !["con"] = at["con"]] = at
      BY DEF TypeOK
    <3>2. UNCHANGED <<main, mapRegisted, dqClose>> /\ ~Serving'
      BY <1>4 DEF WorkerNotify, Serving, tables, TypeOK
    <3> QED
      BY <1>4, <3>1, <3>2 DEF WorkerNotify, SignalCon
  <2>2. ~Starting /\ ~Dialling /\ ~Making /\ ~Registered /\ ~Asked /\ ~Queued
    BY <1>4 DEF WorkerNotify, Serving, Baton
  <2>3. ~(Starting \/ Making \/ Registered \/ Asked \/ Queued)'
    BY <2>1, <2>2, Distinct DEF Starting, Making, Registered, Asked, Queued, TypeOK
  <2> QED
    BY <2>1, <2>3 DEF Baton, Asked
<1> QED
  BY <1>2, <1>3, <1>4 DEF Worker

\* The connection thread hands it to the table.
LEMMA BatonConnector ==
    ASSUME TypeOK, Baton, Connector \/ ConRefused
    PROVE  Baton'
<1> USE Distinct
<1>1. ASSUME UNCHANGED <<main, mapRegisted, dqClose, worker>>,
             NEW pc \in {"check", "going", "wait", "ended", "login", "told", "unreg"},
             at' = [at EXCEPT !["con"] = pc]
      PROVE  Baton'
  BY <1>1, BatonQuiet DEF Starting, Dialling, Making, Serving, Stopping, TypeOK
<1>2. CASE ConBegin \/ ConCheck \/ ConWait \/ ConGiveUp \/ ConTooLate \/ ConUnregistered
           \/ ConTimer \/ ConLogin \/ ConTold
  <2>1. UNCHANGED <<main, mapRegisted, dqClose, worker>>
    BY <1>2 DEF ConBegin, ConCheck, ConWait, ConGiveUp, ConTooLate, ConUnregistered, ConTimer,
                ConLogin, ConTold, tables
  <2>2. \E pc \in {"check", "going", "wait", "ended", "login", "told", "unreg"} :
            at' = [at EXCEPT !["con"] = pc]
    BY <1>2 DEF ConBegin, ConCheck, ConWait, ConGiveUp, ConTooLate, ConUnregistered, ConTimer,
                ConLogin, ConTold, Goto, AskToClose
  <2> QED
    BY <1>1, <2>1, <2>2
<1>3. CASE ConRefused
  <2>1. UNCHANGED <<main, at, mapRegisted, dqClose, worker>>
    BY <1>3 DEF ConRefused, control, tables
  <2> QED
    BY <2>1, BatonQuiet DEF Starting, Dialling, Making, Serving, Stopping
<1>4. ASSUME NEW s \in Sock, ConConnect(s) PROVE Baton'
  <2>1. /\ UNCHANGED <<main, mapRegisted, dqClose, worker>>
        /\ at' = [at EXCEPT !["con"] = "enter"]
    BY <1>4 DEF ConConnect, Goto, tables
  <2>2. Dialling
    BY <1>4 DEF ConConnect, Dialling, EndCon
  <2>3. ~Starting /\ ~Registered /\ ~Asked /\ ~Queued /\ ~Serving
    BY <2>2 DEF Baton
  <2>4. ~(Starting \/ Dialling \/ Registered \/ Asked \/ Queued \/ Serving)'
    BY <2>1, <2>3 DEF Starting, Dialling, Registered, Asked, Queued, Serving, TypeOK
  <2> QED
    BY <2>1, <2>4 DEF Baton, Asked
<1>5. CASE ConEnter
  <2>1. UNCHANGED <<main, mapRegisted, dqClose, worker>> /\ at' = [at EXCEPT !["con"] = "map"]
    BY <1>5 DEF ConEnter, Goto
  <2> QED
    BY <1>5, <2>1, BatonQuiet
       DEF ConEnter, Starting, Dialling, Making, Serving, Stopping, TypeOK
<1>6. CASE ConMap
  <2>1. /\ UNCHANGED <<main, dqClose, worker>> /\ at' = [at EXCEPT !["con"] = "timer"]
        /\ mapRegisted' = mapRegisted \cup {key["con"]}
    BY <1>6 DEF ConMap, Goto
  <2>2. ~Starting /\ ~Registered /\ ~Asked /\ ~Queued /\ ~Serving
    BY <1>6 DEF ConMap, Making, Baton
  <2>3. ~(Starting \/ Dialling \/ Making \/ Asked \/ Queued \/ Serving)'
    BY <2>1, <2>2 DEF Starting, Dialling, Making, Asked, Queued, Serving, TypeOK
  <2>4. mapRegisted' = {key["con"]}
    BY <2>1, <2>2 DEF Registered
  <2> QED
    BY <2>1, <2>3, <2>4 DEF Baton, Asked
<1>7. CASE ReqClose("con")
  BY <1>7, BatonReqClose
<1> QED
  BY <1>2, <1>3, <1>4, <1>5, <1>6, <1>7 DEF Connector

LEMMA BatonOthers ==
    ASSUME TypeOK, Baton,
           \/ Timeout \/ SendPacket
           \/ \E s \in Sock : RecvData(s) \/ PeerFails(s)
    PROVE  Baton'
<1>1. UNCHANGED <<main, worker, dqClose, mapRegisted>>
  BY OthersFrame
<1>2. /\ \A a \in Actor : at'[a] = "enque" => at[a] = "enque"
      /\ at'["con"] = at["con"]
  <2>1. \/ at' = at
        \/ \E a \in Actor \ {"con"},
              pc \in {"packet", "answer", "quote", "broken", "unreg", "rereg", "idle"} :
               at' = [at EXCEPT ![a] = pc]
    BY OthersMove, Distinct
  <2> QED
    BY <2>1, Distinct DEF TypeOK
<1> QED
  BY <1>1, <1>2, BatonQuiet DEF Starting, Dialling, Making, Serving, Stopping

\* Start() hands it to the connection thread; Stop() gives it to nobody.
LEMMA BatonMain == ASSUME TypeOK, Baton, Main \/ StopCon PROVE Baton'
<1> USE Distinct
<1>1. at["con"] # "wait" => [at EXCEPT !["con"] = at["con"]] = at
  BY DEF TypeOK
<1>2. CASE StartCon
  <2>1. /\ Starting /\ UNCHANGED <<mapRegisted, dqClose, worker>>
        /\ at' = [at EXCEPT !["con"] = "begun"]
    BY <1>2 DEF StartCon, Starting, Goto, tables
  <2> QED
    BY <2>1, BatonQuiet DEF Dialling, Making, Serving, TypeOK
<1>3. CASE StartSynced \/ StartWorker
  <2>1. /\ UNCHANGED <<at, mapRegisted, dqClose>>
        /\ Starting' => Starting
        /\ ~Stopping
        /\ Serving' => Serving
    BY <1>3 DEF StartSynced, StartWorker, Starting, Stopping, Serving, MainTo, WorkerTo, tables,
                TypeOK
  <2> QED
    BY <2>1, BatonQuiet DEF Dialling, Making
<1>4. CASE StartNotify
  <2>1. /\ Starting /\ main' = "begin" /\ UNCHANGED <<mapRegisted, dqClose, worker>>
        /\ \/ at' = at
           \/ at' = [at EXCEPT !["con"] = "dial"]
    BY <1>1, <1>4 DEF StartNotify, Starting, MainTo, SignalCon, tables
  <2>2. ~Dialling /\ ~Making /\ ~Registered /\ ~Asked /\ ~Queued /\ ~Serving
    BY <2>1 DEF Baton
  <2>3. ~(Starting \/ Making \/ Registered \/ Asked \/ Queued \/ Serving)'
    BY <2>1, <2>2 DEF Starting, Making, Registered, Asked, Queued, Serving, TypeOK
  <2> QED
    BY <2>1, <2>3 DEF Baton, Asked
<1>5. CASE StopCon
  <2>1. /\ main' = "joinCon" /\ UNCHANGED <<mapRegisted, dqClose, worker>>
        /\ \/ at' = at
           \/ at' = [at EXCEPT !["con"] = "dial"]
    BY <1>1, <1>5 DEF StopCon, MainTo, SignalCon, tables
  <2> QED
    BY <2>1, BatonQuiet DEF Starting, Dialling, Making, Serving, Stopping, TypeOK
<1>6. CASE StopJoined \/ (\E s \in Sock : StopEach(s)) \/ StopDestroy \/ StopWorker \/ StopDone
  <2>1. /\ main' \in {"each", "destroy", "joinWorker", "done"} /\ UNCHANGED <<at, dqClose>>
        /\ mapRegisted' \subseteq mapRegisted
        /\ worker' = worker \/ worker' = [worker EXCEPT !.pc = "look"]
    BY <1>6 DEF StopJoined, StopEach, StopDestroy, StopWorker, StopDone, MainTo, SignalWorker,
                tables
  <2> QED
    BY <2>1, BatonQuiet DEF Starting, Dialling, Making, Serving, Stopping, TypeOK
<1> QED
  BY <1>2, <1>3, <1>4, <1>5, <1>6 DEF Main

LEMMA BatonStep ==
    ASSUME TypeOK, Baton, [Next]_vars
    PROVE  Baton'
<1>1. CASE UNCHANGED vars
  BY <1>1, BatonQuiet
     DEF vars, control, tables, Starting, Dialling, Making, Serving, Stopping
<1> QED
  BY <1>1, BatonWorker, BatonConnector, BatonOthers, BatonReqClose, BatonMain, Distinct
     DEF Next, Timer, Io

---------------------------------------------------------------------------
(* No stage meets a closed socket. *)

\* A step that closes nothing, and takes in hand what was in hand or opens.
LEMMA OpenedFrame ==
    ASSUME Opened, main' # "done" => main # "done", open \subseteq open',
           mapRegisted' \subseteq mapRegisted, UNCHANGED <<key, dqClose>>,
           worker'.pc = "close" => worker.pc = "close" /\ worker'.key = worker.key
    PROVE  Opened'
BY DEF Opened

LEMMA OpenedReqClose ==
    ASSUME TypeOK, Keyed, Opened, NEW a \in Actor, ReqClose(a)
    PROVE  Opened'
<1>1. UNCHANGED <<main, open>>
  BY DEF ReqClose, UnRegisterAio, Enque, net
<1>2. CASE UnRegisterAio(a)
  <2>1. /\ UNCHANGED <<worker, dqClose>> /\ mapRegisted' \subseteq mapRegisted
        /\ \/ key' = key
           \/ \E s \in mapRegisted : key' = [key EXCEPT ![a] = s]
    BY <1>2 DEF UnRegisterAio
  <2> QED
    BY <1>1, <2>1 DEF Opened, TypeOK
<1>3. CASE Enque(a)
  <2>1. /\ UNCHANGED mapRegisted /\ key' = [key EXCEPT ![a] = None]
        /\ dqClose' = Append(dqClose, key[a]) /\ at[a] = "enque"
        /\ worker' = worker \/ worker' = [worker EXCEPT !.pc = "look"]
    BY <1>3 DEF Enque, SignalWorker
  <2>2. key[a] # None /\ key[a] \in Sock
    BY <2>1 DEF Keyed, TypeOK
  <2>3. \A i \in DOMAIN dqClose' :
            \/ dqClose'[i] = key[a]
            \/ \E j \in DOMAIN dqClose : dqClose'[i] = dqClose[j]
    BY <2>1, <2>2 DEF TypeOK
  <2>4. worker'.pc = "close" => worker.pc = "close" /\ worker'.key = worker.key
    BY <2>1 DEF TypeOK
  <2> QED
    BY <1>1, <2>1, <2>2, <2>3, <2>4 DEF Opened, TypeOK
<1> QED
  BY <1>2, <1>3 DEF ReqClose

LEMMA OpenedWorker ==
    ASSUME TypeOK, Keyed, Baton, Opened, Worker
    PROVE  Opened'
<1>1. UNCHANGED <<main, key, mapRegisted>>
  BY DEF Worker, WorkerTop, WorkerLook, WorkerWait, WorkerDrain, WorkerClose, WorkerDestroy,
         WorkerNotify, tables
<1>2. CASE WorkerTop \/ WorkerWait \/ WorkerDestroy
  <2>1. UNCHANGED <<open, dqClose>>
    BY <1>2 DEF WorkerTop, WorkerWait, WorkerDestroy, tables, net
  <2>2. worker'.pc # "close"
    BY <1>2 DEF WorkerTop, WorkerWait, WorkerDestroy, WorkerTo, TypeOK
  <2> QED
    BY <1>1, <2>1, <2>2, OpenedFrame
<1>3. CASE WorkerNotify
  <2>1. UNCHANGED <<open, dqClose>> /\ worker'.pc # "close"
    BY <1>3 DEF WorkerNotify, tables, net, TypeOK
  <2> QED
    BY <1>1, <2>1, OpenedFrame
<1>4. CASE WorkerLook \/ WorkerDrain
  <2>1. UNCHANGED open
    BY <1>4 DEF WorkerLook, WorkerDrain, net
  <2>2. \/ dqClose' = dqClose /\ worker'.pc # "close"
        \/ dqClose # <<>> /\ dqClose' = Tail(dqClose) /\ worker'.key = Head(dqClose)
    <3>1. CASE WorkerLook
      <4>1. /\ \A k : [worker EXCEPT !.pc = "close", !.key = k].key = k
            /\ [worker EXCEPT !.pc = "drain"].pc = "drain"
            /\ [worker EXCEPT !.pc = "going"].pc = "going"
        BY DEF TypeOK
      <4> QED
        BY <3>1, <4>1 DEF WorkerLook, WorkerTo
    <3>2. CASE WorkerDrain
      <4>1. [worker EXCEPT !.pc = "ended", !.last = FALSE].pc # "close"
        BY DEF TypeOK
      <4> QED
        <5>1. \/ dqClose' = dqClose /\ worker' = [worker EXCEPT !.pc = "ended", !.last = FALSE]
              \/ /\ dqClose # <<>> /\ dqClose' = Tail(dqClose)
                 /\ worker' = [pc |-> "close", key |-> Head(dqClose), last |-> TRUE]
          BY <3>2 DEF WorkerDrain
        <5>2. CASE dqClose' = dqClose /\ worker' = [worker EXCEPT !.pc = "ended", !.last = FALSE]
          BY <4>1, <5>2, Zenon
        <5>3. CASE /\ dqClose # <<>> /\ dqClose' = Tail(dqClose)
                   /\ worker' = [pc |-> "close", key |-> Head(dqClose), last |-> TRUE]
          BY <5>3
        <5> QED
          BY <5>1, <5>2, <5>3
    <3> QED
      BY <1>4, <3>1, <3>2
  <2>3. CASE dqClose' = dqClose /\ worker'.pc # "close"
    BY <1>1, <2>1, <2>3, OpenedFrame
  <2>4. CASE dqClose # <<>> /\ dqClose' = Tail(dqClose) /\ worker'.key = Head(dqClose)
    <3>1. DOMAIN dqClose' = {} /\ 1 \in DOMAIN dqClose /\ Head(dqClose) = dqClose[1]
      BY <2>4 DEF Baton, TypeOK
    <3> QED
      BY <1>1, <2>1, <2>4, <3>1 DEF Opened
  <2> QED
    BY <2>2, <2>3, <2>4
<1>5. CASE WorkerClose
  <2>1. UNCHANGED dqClose /\ worker'.pc # "close"
    BY <1>5 DEF WorkerClose, WorkerTo, TypeOK
  <2>2. ~Making /\ ~Registered /\ ~Asked /\ ~Queued
    BY <1>5 DEF WorkerClose, Serving, Baton
  <2>3. \A a \in Actor : key[a] = None
    BY <2>2 DEF Keyed, Asked
  <2>4. DOMAIN dqClose = {}
    BY <2>2 DEF Queued
  <2> QED
    BY <1>1, <2>1, <2>2, <2>3, <2>4 DEF Opened, Registered
<1> QED
  BY <1>2, <1>3, <1>4, <1>5 DEF Worker

LEMMA OpenedConnector ==
    ASSUME TypeOK, Keyed, Baton, Opened, Connector \/ ConRefused
    PROVE  Opened'
<1> USE Distinct
<1>1. CASE ConBegin \/ ConCheck \/ ConWait \/ ConGiveUp \/ ConEnter \/ ConTimer \/ ConTold
  <2>1. UNCHANGED <<main, key, worker, dqClose, mapRegisted, open>>
    BY <1>1 DEF ConBegin, ConCheck, ConWait, ConGiveUp, ConEnter, ConTimer, ConTold, tables, net
  <2> QED
    BY <2>1, OpenedFrame
<1>2. CASE ConRefused \/ ConLogin
  <2>1. UNCHANGED <<main, key, worker, dqClose, mapRegisted, open>>
    BY <1>2 DEF ConRefused, ConLogin, control, tables, net
  <2> QED
    BY <2>1, OpenedFrame
<1>3. ASSUME NEW s \in Sock, ConConnect(s) PROVE Opened'
  BY <1>3 DEF ConConnect, Opened, tables, TypeOK
<1>4. CASE ConTooLate
  BY <1>4 DEF ConTooLate, Opened, tables, net, TypeOK
<1>5. CASE ConUnregistered
  <2>1. /\ UNCHANGED <<main, worker, dqClose, mapRegisted>>
        /\ open' = open \ {key["con"]} /\ key' = [key EXCEPT !["con"] = None]
    BY <1>5 DEF ConUnregistered, CloseSocket
  <2>2. ~Registered /\ ~Asked /\ ~Queued /\ ~Serving
    BY <1>5 DEF ConUnregistered, Making, Baton
  <2>3. \A a \in Actor \ {"con"} : key[a] = None
    BY <2>2 DEF Keyed, Asked
  <2>4. DOMAIN dqClose = {}
    BY <2>2 DEF Queued
  <2> QED
    BY <2>1, <2>2, <2>3, <2>4 DEF Opened, Registered, Serving, TypeOK
<1>6. CASE ConMap
  <2>1. key["con"] # None
    BY <1>6 DEF ConMap, Keyed, Making
  <2> QED
    BY <1>6, <2>1 DEF ConMap, Opened, net, TypeOK
<1>7. CASE ReqClose("con")
  BY <1>7, OpenedReqClose
<1> QED
  BY <1>1, <1>2, <1>3, <1>4, <1>5, <1>6, <1>7 DEF Connector

LEMMA OpenedMain ==
    ASSUME TypeOK, Keyed, Baton, Opened, Main \/ StopCon
    PROVE  Opened'
<1>1. CASE StartCon \/ StartSynced \/ StartNotify \/ StartWorker \/ StopCon \/ StopJoined
           \/ StopDestroy \/ StopWorker
  <2>1. UNCHANGED <<key, dqClose, mapRegisted, open>>
    BY <1>1 DEF StartCon, StartSynced, StartNotify, StartWorker, StopCon, StopJoined, StopDestroy,
                StopWorker, tables, net
  <2>2. main # "done"
    BY <1>1 DEF StartCon, StartSynced, StartNotify, StartWorker, StopCon, StopJoined, StopDestroy,
                StopWorker
  <2>3. worker' = worker \/ \E pc \in {"top", "look"} : worker' = [worker EXCEPT !.pc = pc]
    BY <1>1 DEF StartCon, StartSynced, StartNotify, StartWorker, StopCon, StopJoined, StopDestroy,
                StopWorker, SignalWorker, WorkerTo
  <2>4. worker'.pc = "close" => worker.pc = "close" /\ worker'.key = worker.key
    BY <2>3 DEF TypeOK
  <2> QED
    BY <2>1, <2>2, <2>4, OpenedFrame
<1>2. ASSUME NEW s \in Sock, StopEach(s) PROVE Opened'
  <2>1. /\ UNCHANGED <<key, worker, dqClose>> /\ s \in mapRegisted
        /\ mapRegisted' = mapRegisted \ {s} /\ open' = open \ {s} /\ main = "each"
    BY <1>2 DEF StopEach, CloseSocket
  <2>2. ~Making /\ ~Asked /\ ~Queued /\ ~Serving
    BY <2>1 DEF Registered, Baton
  <2>3. (\A a \in Actor : key[a] = None) /\ DOMAIN dqClose = {}
    BY <2>2 DEF Keyed, Asked, Queued
  <2> QED
    BY <2>1, <2>2, <2>3 DEF Opened, Serving
<1>3. CASE StopDone
  BY <1>3 DEF StopDone, MainTo, Opened
<1> QED
  BY <1>1, <1>2, <1>3 DEF Main

LEMMA OpenedStep ==
    ASSUME TypeOK, Keyed, Baton, Opened, [Next]_vars
    PROVE  Opened'
<1>1. CASE UNCHANGED vars
  BY <1>1, OpenedFrame DEF vars, control, tables, net
<1>2. CASE \/ Timeout \/ SendPacket
           \/ \E s \in Sock : RecvData(s) \/ PeerFails(s)
  BY <1>2, OthersFrame, OpenedFrame
<1> QED
  BY <1>1, <1>2, OpenedWorker, OpenedConnector, OpenedReqClose, OpenedMain, Distinct
     DEF Next, Timer, Io

---------------------------------------------------------------------------
(* A connection has its timer. *)

LEMMA WatchingFrame ==
    ASSUME Watching, mapRegisted' \subseteq mapRegisted, timer => timer',
           Stopping => Stopping', at'["con"] # "timer" => at["con"] # "timer"
    PROVE  Watching'
BY DEF Watching, Registered

LEMMA WatchingReqClose ==
    ASSUME TypeOK, Baton, Watching, NEW a \in Actor, ReqClose(a)
    PROVE  Watching'
<1>1. CASE UnRegisterAio(a)
  <2>1. CASE mapRegisted = {}
    BY <1>1, <2>1 DEF UnRegisterAio, Watching, Registered
  <2>2. CASE mapRegisted # {}
    <3>1. /\ UNCHANGED <<main, timer>> /\ at' = [at EXCEPT ![a] = "enque"] /\ at[a] = "unreg"
          /\ mapRegisted' \subseteq mapRegisted
      BY <1>1, <2>2 DEF UnRegisterAio, Goto
    <3> QED
      BY <3>1, WatchingFrame, Distinct DEF Stopping, TypeOK
  <2> QED
    BY <2>1, <2>2
<1>2. CASE Enque(a)
  <2>1. mapRegisted = {}
    BY <1>2 DEF Enque, Asked, Registered, Baton
  <2> QED
    BY <1>2, <2>1 DEF Enque, Watching, Registered
<1> QED
  BY <1>1, <1>2 DEF ReqClose

LEMMA WatchingWorker ==
    ASSUME TypeOK, Baton, Watching, Worker
    PROVE  Watching'
<1>1. CASE UNCHANGED <<main, at, mapRegisted, timer>>
  BY <1>1, WatchingFrame DEF Stopping
<1>2. CASE Serving
  <2>1. mapRegisted = {} /\ UNCHANGED mapRegisted
    BY <1>2 DEF Registered, Baton, Worker, WorkerTop, WorkerLook, WorkerWait, WorkerDrain,
                WorkerClose, WorkerDestroy, WorkerNotify, tables
  <2> QED
    BY <2>1 DEF Watching, Registered
<1>3. CASE WorkerTop \/ WorkerLook \/ WorkerWait \/ WorkerDrain
  BY <1>1, <1>3 DEF WorkerTop, WorkerLook, WorkerWait, WorkerDrain, tables, link
<1> QED
  BY <1>2, <1>3 DEF Worker, Serving, WorkerClose, WorkerDestroy, WorkerNotify

LEMMA WatchingConnector ==
    ASSUME TypeOK, Baton, Watching, Connector \/ ConRefused
    PROVE  Watching'
<1> USE Distinct
<1>1. CASE ConBegin \/ ConCheck \/ ConWait \/ ConGiveUp \/ ConTooLate \/ ConEnter
           \/ ConUnregistered \/ ConLogin \/ ConTold \/ ConRefused
  <2>1. UNCHANGED <<main, mapRegisted, timer>> /\ at["con"] # "timer"
    BY <1>1 DEF ConBegin, ConCheck, ConWait, ConGiveUp, ConTooLate, ConEnter, ConUnregistered,
                ConLogin, ConTold, ConRefused, control, tables, link
  <2> QED
    BY <2>1, WatchingFrame DEF Stopping
<1>2. ASSUME NEW s \in Sock, ConConnect(s) PROVE Watching'
  <2>1. UNCHANGED <<main, mapRegisted, timer>> /\ at["con"] # "timer"
    BY <1>2 DEF ConConnect, tables, link
  <2> QED
    BY <2>1, WatchingFrame DEF Stopping
<1>3. CASE ConMap
  BY <1>3 DEF ConMap, Goto, Watching, TypeOK
<1>4. CASE ConTimer
  BY <1>4 DEF ConTimer, Watching
<1>5. CASE ReqClose("con")
  BY <1>5, WatchingReqClose
<1> QED
  BY <1>1, <1>2, <1>3, <1>4, <1>5 DEF Connector

LEMMA WatchingOthers ==
    ASSUME TypeOK, Watching,
           \/ Timeout \/ SendPacket
           \/ \E s \in Sock : RecvData(s) \/ PeerFails(s)
    PROVE  Watching'
<1>1. UNCHANGED <<main, mapRegisted, timer>>
  BY OthersFrame
<1>2. at'["con"] = at["con"]
  <2>1. \/ at' = at
        \/ \E a \in Actor \ {"con"},
              pc \in {"packet", "answer", "quote", "broken", "unreg", "rereg", "idle"} :
               at' = [at EXCEPT ![a] = pc]
    BY OthersMove, Distinct
  <2> QED
    BY <2>1, Distinct DEF TypeOK
<1> QED
  BY <1>1, <1>2, WatchingFrame DEF Stopping

LEMMA WatchingMain ==
    ASSUME TypeOK, Baton, Watching, Main \/ StopCon
    PROVE  Watching'
<1> USE Distinct
<1>1. CASE Starting
  <2>1. mapRegisted = {} /\ UNCHANGED mapRegisted
    BY <1>1 DEF Registered, Baton, Starting, Main, StartCon, StartSynced, StartNotify, StartWorker,
                StopCon, StopJoined, StopEach, StopDestroy, StopWorker, StopDone, tables
  <2> QED
    BY <2>1 DEF Watching, Registered
<1>2. CASE StartWorker
  BY <1>2, WatchingFrame DEF StartWorker, MainTo, Stopping, tables, link
<1>3. CASE Stopping'
  BY <1>3 DEF Watching
<1>4. CASE StopCon \/ StopJoined \/ (\E s \in Sock : StopEach(s)) \/ StopDestroy \/ StopWorker
           \/ StopDone
  BY <1>3, <1>4 DEF StopCon, StopJoined, StopEach, StopDestroy, StopWorker, StopDone, MainTo,
                    Stopping
<1> QED
  BY <1>1, <1>2, <1>4 DEF Main, Starting, StartCon, StartSynced, StartNotify

LEMMA WatchingStep ==
    ASSUME TypeOK, Baton, Watching, [Next]_vars
    PROVE  Watching'
<1>1. CASE UNCHANGED vars
  BY <1>1, WatchingFrame DEF vars, control, tables, link, Stopping
<1> QED
  BY <1>1, WatchingWorker, WatchingConnector, WatchingOthers, WatchingReqClose, WatchingMain,
     Distinct
     DEF Next, Timer, Io

---------------------------------------------------------------------------
(* The invariant, and what it says. *)

LEMMA IInvInit == ASSUME Init PROVE IInv
<1> USE Distinct DEF Init
<1>1. TypeOK
  BY TypeInit
<1>2. Keyed
  BY DEF Keyed, Making
<1>3. Counted
  BY Limits DEF Counted
<1>4. Baton
  <2>1. ~Dialling /\ ~Making /\ ~Registered /\ ~Asked /\ ~Queued /\ ~Serving
    BY DEF Dialling, Making, Registered, Asked, Queued, Serving
  <2>2. Len(dqClose) <= 1
    OBVIOUS
  <2> QED
    BY <2>1, <2>2 DEF Baton, Asked
<1>5. Opened
  BY DEF Opened
<1>6. Watching
  BY DEF Watching, Registered
<1> QED
  BY <1>1, <1>2, <1>3, <1>4, <1>5, <1>6 DEF IInv

LEMMA IInvStep == IInv /\ [Next]_vars => IInv'
BY TypeStep, KeyedStep, CountedStep, BatonStep, OpenedStep, WatchingStep DEF IInv

LEMMA Invariance == Spec => []IInv
BY IInvInit, IInvStep, PTL DEF Spec

LEMMA OneEngaged ==
    ASSUME TypeOK, Keyed, Baton
    PROVE  /\ \A x, y \in Engaged : x = y
           /\ Dialling => Engaged = {}
<1> DEFINE Listed == {dqClose[i] : i \in DOMAIN dqClose}
           Held == {key[a] : a \in Actor} \ {None}
           Closing == IF worker.pc = "close" THEN {worker.key} ELSE {}
<1>1. Engaged = mapRegisted \cup Listed \cup Held \cup Closing
  BY DEF Engaged
<1>2. /\ mapRegisted # {} => Registered
      /\ Listed # {} => Queued
      /\ Held # {} => Asked \/ Making
      /\ Closing # {} => Serving
  <2>1. Held # {} => Asked \/ Making
    BY DEF Keyed, Asked
  <2>2. Listed # {} => Queued
    BY DEF Queued
  <2> QED
    BY <2>1, <2>2 DEF Registered, Serving
<1>3. \A x, y \in Listed : x = y
  <2>1. \A i \in DOMAIN dqClose : i = 1
    BY DEF Baton, TypeOK
  <2> QED
    BY <2>1
<1>4. \A x, y \in Held : x = y
  <2>1. \A a, b \in Actor : key[a] # None /\ key[b] # None => a = b
    <3>1. \A a, b \in Actor : at[a] = "enque" /\ at[b] = "enque" => a = b
      BY DEF Baton
    <3>2. Making => \A a \in Actor : at[a] # "enque"
      BY DEF Baton, Asked
    <3> QED
      BY <3>1, <3>2 DEF Keyed
  <2> QED
    BY <2>1
<1>5. \A x, y \in mapRegisted : x = y
  BY DEF Baton
<1> HIDE DEF Listed, Held
<1>6. \A x, y \in Closing : x = y
  OBVIOUS
<1> HIDE DEF Closing
<1>7. \A x, y \in Engaged : x = y
  <2>1. Engaged \in {mapRegisted, Listed, Held, Closing}
    BY <1>1, <1>2 DEF Baton
  <2> QED
    BY <2>1, <1>3, <1>4, <1>5, <1>6
<1>8. Dialling => Engaged = {}
  BY <1>1, <1>2 DEF Baton
<1> QED
  BY <1>7, <1>8

LEMMA IInvOneLink == ASSUME IInv PROVE OneLink
<1>1. Cardinality(Engaged) <= 1
  <2>1. CASE Engaged = {}
    BY <2>1, FS_EmptySet
  <2>2. CASE Engaged # {}
    <3>1. PICK x \in Engaged : Engaged = {x}
      BY <2>2, OneEngaged DEF IInv
    <3> QED
      BY <3>1, FS_Singleton
  <2> QED
    BY <2>1, <2>2
<1>2. main # "done" => Engaged \subseteq open
  BY DEF IInv, Opened, Engaged
<1>3. Dialling => Engaged = {}
  BY OneEngaged DEF IInv
<1> QED
  BY <1>1, <1>2, <1>3 DEF OneLink, Dialling

\* Only the timer's own step takes it to ask.
LEMMA WhoAsks ==
    ASSUME TypeOK, Next, at["tmr"] = "idle", at'["tmr"] = "unreg"
    PROVE  Timeout
<1> USE Distinct
<1>1. CASE at' = at
  BY <1>1
<1>2. ASSUME NEW a \in Actor \ {"tmr"}, NEW pc, at' = [at EXCEPT ![a] = pc]
      PROVE  FALSE
  BY <1>2 DEF TypeOK
<1>3. ASSUME NEW a \in Actor, ReqClose(a) PROVE FALSE
  <2>1. at[a] \in {"unreg", "enque"} /\ \E pc : at' = [at EXCEPT ![a] = pc]
    BY <1>3 DEF ReqClose, UnRegisterAio, Enque, Goto
  <2> QED
    BY <1>2, <2>1
<1>4. ~Worker
  BY <1>1, <1>2 DEF Worker, WorkerTop, WorkerLook, WorkerWait, WorkerDrain, WorkerClose,
                    WorkerDestroy, WorkerNotify, SignalCon
<1>5. ~Connector /\ ~ConRefused
  <2>1. ~ConRefused
    BY <1>1 DEF ConRefused, control
  <2>2. ~ \E s \in Sock : ConConnect(s)
    BY <1>2 DEF ConConnect, Goto
  <2> QED
    BY <1>2, <1>3, <2>1, <2>2
       DEF Connector, ConBegin, ConCheck, ConWait, ConGiveUp, ConTooLate, ConEnter,
           ConUnregistered, ConMap, ConTimer, ConLogin, ConTold, Goto, AskToClose
<1>6. ~Main /\ ~StopCon
  BY <1>1, <1>2 DEF Main, StartCon, StartSynced, StartNotify, StartWorker, StopCon, StopJoined,
                    StopEach, StopDestroy, StopWorker, StopDone, Goto, SignalCon
<1>7. ~SendPacket
  BY <1>1, <1>2, OthersMove
<1>8. ASSUME NEW s \in Sock, Io(s) \/ PeerFails(s) PROVE FALSE
  BY <1>1, <1>2, <1>3, <1>8, OthersMove DEF Io
<1> QED
  BY <1>3, <1>4, <1>5, <1>6, <1>7, <1>8 DEF Next, Timer

LEMMA PatientStep ==
    ASSUME IInv, Next, at["tmr"] = "idle", at'["tmr"] = "unreg"
    PROVE  \/ unheard.hellos >= HelloReSend
           \/ ~Reachable(handler)
           \/ CheckService /\ unheard.timeouts >= QuoteLimit
<1>1. Timeout
  BY WhoAsks DEF IInv
<1>2. \/ noAlive >= 1 /\ sended >= HelloReSend
      \/ ~Reachable(handler)
      \/ CheckService /\ noQuote >= QuoteLimit
  BY <1>1 DEF Timeout
<1> QED
  BY <1>2, Limits DEF IInv, Counted, TypeOK

\* Whatever the threads do, the variables keep their types: above all the
\* counts of the handler stay within the limits, and a thread that gives a
\* socket to the queue or the selector has one.
THEOREM TypeCorrect == Spec => []TypeOK
BY Invariance, PTL DEF IInv

\* CConnector makes no second connection while one is registered, asked to be
\* closed or being closed, and ReqClose(), CloseProcess() and Stop() meet only
\* the sockets they were meant for, whichever threads ask to close at once.
THEOREM OneLinkCorrect == Spec => []OneLink
BY Invariance, IInvOneLink, PTL

\* A connection whose OnConnect() is over has its timer, although DestroyTimer()
\* for the one before comes from another thread than CreateTimer().
THEOREM SupervisedCorrect == Spec => []Supervised
<1>1. IInv => Supervised
  BY DEF IInv, Watching, Registered, Supervised
<1> QED
  BY <1>1, Invariance, PTL

\* HandleTimeout() gives up a connection only for the reasons its limits name.
THEOREM PatientCorrect == Spec => Patient
<1>1. IInv /\ [Next]_vars =>
          [at["tmr"] = "idle" /\ at'["tmr"] = "unreg" =>
              \/ unheard.hellos >= HelloReSend
              \/ ~Reachable(handler)
              \/ CheckService /\ unheard.timeouts >= QuoteLimit]_vars
  BY PatientStep
<1> QED
  BY <1>1, Invariance, PTL DEF Spec, Patient
=============================================================================
