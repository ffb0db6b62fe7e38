----------------------------- MODULE ClientLink -----------------------------
(***************************************************************************)
(* The client's end of a connection: CConnector, CProtocolCommClient and   *)
(* CProtocolCommClientImp, with the heartbeat of the sampling interface    *)
(* (CProcessInterfaceZC) and the timer thread that drives it.              *)
(*                                                                         *)
(* Threads: "con" makes the connection, "tmr" runs the timers, "snd" sends *)
(* for the application, a socket names the selector thread that reads it;  *)
(* the closing worker and the caller of Start() and Stop() have variables  *)
(* of their own.  A section under one mutex is one action.  A mutex that   *)
(* is held over several actions is told from where its owner is:           *)
(* m_condMutexConnect, m_csTimes (with m_csZC), m_csComm, and              *)
(* m_condMutexWorker.  One PROCESS object serves all connections, and a    *)
(* number of a socket is used again once it is closed.                     *)
(*                                                                         *)
(* Left out: an exception out of OnConnect().  Connector.cpp:214 would     *)
(* close the socket and dial again, even if it is registered by then.      *)
(***************************************************************************)
EXTENDS Integers, Sequences, FiniteSets

CONSTANTS Sock,          \* numbers of sockets
          None,
          HelloReSend,   \* ulHelloReSend
          QuoteLimit,    \* timeouts without a service packet; 4 in the code
          CheckService,  \* nNeedCheckServicePkt
          MaxBreaks,     \* bound on what goes wrong with the peer or the net
          Paused,        \* a thread that reads or sends is done when its pause is over
          Stops          \* Stop() may be called

Caller == {"con", "tmr", "snd"}
Actor == Caller \cup Sock

ASSUME ClientLinkAssumption ==
    /\ IsFiniteSet(Sock) /\ Sock # {}
    /\ Sock \cap Caller = {} /\ None \notin Actor
    /\ HelloReSend \in Nat /\ QuoteLimit \in Nat /\ MaxBreaks \in Nat
    /\ CheckService \in BOOLEAN /\ Paused \in BOOLEAN
    /\ Stops \in BOOLEAN

VARIABLES
    main,         \* where Start() and then Stop() are
    at,           \* where a thread is
    key,          \* the registration a thread that asks to close has taken
    ret,          \* where a thread goes on that has asked to close
    worker,       \* the worker: where it is, its key, whether it has been told to end
    dqClose,      \* m_dqClose
    mapRead,      \* m_mapRegisterRead: sockets the selector watches
    mapRegisted,  \* m_mapRegisted
    handler,      \* SocketID() of m_pProcessHandler
    m_nConnState, \* whether the application is told there is a connection
    timer,        \* whether m_mapTimers has the timer of the handler
    noAlive,      \* m_uiCountNoAlive, of which only counts whether it is 0
    sended,       \* m_uiCountSended
    noQuote,      \* m_uiCountNoQuote
    open,         \* sockets open on this side
    peer,         \* the other side of an open socket
    breaks,       \* how much has gone wrong so far
    lost,         \* whether RegisterAio() has failed, after which nobody connects again
    unheard       \* hellos, and timeouts, since the last packet that answers them

control == <<main, at, key, ret, worker>>
tables == <<dqClose, mapRead, mapRegisted>>
counts == <<noAlive, sended, noQuote, unheard>>
net == <<open, peer, breaks, lost>>
link == <<handler, m_nConnState, timer>>
vars == <<control, tables, counts, net, link>>

Init ==
    /\ main = "start"
    /\ at = [a \in Actor |-> IF a = "con" THEN "off" ELSE "idle"]
    /\ key = [a \in Actor |-> None] /\ ret = [a \in Actor |-> "idle"]
    /\ worker = [pc |-> "off", key |-> None, last |-> FALSE]
    /\ dqClose = <<>> /\ mapRead = {} /\ mapRegisted = {}
    /\ handler = None /\ m_nConnState = FALSE /\ timer = FALSE
    /\ noAlive = 0 /\ sended = 0 /\ noQuote = 0
    /\ unheard = [hellos |-> 0, timeouts |-> 0]
    /\ open = {} /\ peer = [s \in Sock |-> "none"] /\ breaks = 0 /\ lost = FALSE

\* What Stop() has begun, told from where it is.
Stopping == main \in {"joinCon", "each", "destroy", "joinWorker", "done"}
EndCon == Stopping
EndWorker == main \in {"joinWorker", "done"}

ConMutexFree == at["con"] \in {"off", "begun", "wait", "ended"}
TimesFree == at["tmr"] = "idle"
CommFree == main \notin {"each", "destroy"}
WorkerMutexFree == worker.pc \notin {"going", "drain"} /\ ~worker.last

Goto(a, pc) == at' = [at EXCEPT ![a] = pc]

\* Signal() on m_condMutexConnect: a thread that does not wait misses it.
SignalCon == at' = [at EXCEPT !["con"] = IF @ = "wait" THEN "dial" ELSE @]

SignalWorker == IF worker.pc = "wait" THEN [worker EXCEPT !.pc = "look"] ELSE worker

Reachable(s) == s \in open /\ peer[s] # "gone"

-----------------------------------------------------------------------------
(* Closing a connection: ReqClose() and the worker.                        *)

AskToClose(a, back) ==
    /\ at' = [at EXCEPT ![a] = "unreg"]
    /\ ret' = [ret EXCEPT ![a] = back]

\* A timer whose callback has failed is erased when the callback returns.
Erase(a) == timer' = (timer /\ a # "tmr")

\* A request that takes the registration and leaves it in the table.
UnRegisterAioKeeps(a) ==
    /\ at[a] = "unreg" /\ CommFree
    /\ \/ \E s \in mapRegisted : key' = [key EXCEPT ![a] = s] /\ Goto(a, "enque")
       \/ mapRegisted = {} /\ Goto(a, ret[a]) /\ UNCHANGED key
    /\ UNCHANGED <<main, ret, worker, tables, counts, net, link>>

\* UnRegisterAio() looks the registration up by the object, which all
\* connections share.
UnRegisterAio(a) ==
    /\ at[a] = "unreg" /\ CommFree
    /\ \/ \E s \in mapRegisted :
            /\ mapRegisted' = mapRegisted \ {s}
            /\ key' = [key EXCEPT ![a] = s]
            /\ Goto(a, "enque")
            /\ UNCHANGED timer
       \/ /\ mapRegisted = {}
          /\ Goto(a, ret[a])
          /\ Erase(a)
          /\ UNCHANGED <<mapRegisted, key>>
    /\ UNCHANGED <<main, ret, worker, dqClose, mapRead, handler, m_nConnState, counts, net>>

Enque(a) ==
    /\ at[a] = "enque" /\ WorkerMutexFree
    /\ dqClose' = Append(dqClose, key[a])
    /\ worker' = SignalWorker
    /\ key' = [key EXCEPT ![a] = None]
    /\ Goto(a, ret[a]) /\ Erase(a)
    /\ UNCHANGED <<main, ret, mapRead, mapRegisted, handler, m_nConnState, counts, net>>

WorkerTo(pc) == worker' = [worker EXCEPT !.pc = pc]

WorkerTop ==
    /\ worker.pc = "top"
    /\ WorkerTo(IF EndWorker THEN "ended" ELSE "look")
    /\ UNCHANGED <<main, at, key, ret, tables, counts, net, link>>

\* It takes the next request, or keeps the mutex until it waits; told to end it serves
\* what is queued and keeps the mutex meanwhile.
WorkerLook ==
    /\ worker.pc = "look"
    /\ \/ /\ EndWorker /\ WorkerTo("drain") /\ UNCHANGED dqClose
       \/ /\ ~EndWorker /\ dqClose = <<>> /\ WorkerTo("going") /\ UNCHANGED dqClose
       \/ /\ ~EndWorker /\ dqClose # <<>>
          /\ worker' = [worker EXCEPT !.pc = "close", !.key = Head(dqClose)]
          /\ dqClose' = Tail(dqClose)
    /\ UNCHANGED <<main, at, key, ret, mapRead, mapRegisted, counts, net, link>>

WorkerWait ==
    /\ worker.pc = "going" /\ WorkerTo("wait")
    /\ UNCHANGED <<main, at, key, ret, tables, counts, net, link>>

WorkerDrain ==
    /\ worker.pc = "drain"
    /\ \/ /\ dqClose = <<>> /\ UNCHANGED dqClose
          /\ worker' = [worker EXCEPT !.pc = "ended", !.last = FALSE]
       \/ /\ dqClose # <<>> /\ dqClose' = Tail(dqClose)
          /\ worker' = [pc |-> "close", key |-> Head(dqClose), last |-> TRUE]
    /\ UNCHANGED <<main, at, key, ret, mapRead, mapRegisted, counts, net, link>>

CloseSocket(s) ==
    /\ mapRead' = mapRead \ {s}
    /\ open' = open \ {s}
    /\ peer' = [peer EXCEPT ![s] = "none"]

\* Handle(), some seconds after the request: the selector and the socket.
WorkerClose ==
    /\ worker.pc = "close" /\ CloseSocket(worker.key)
    /\ Paused /\ ~worker.last => \A a \in Sock \cup {"snd"} : at[a] = "idle"
    /\ WorkerTo("destroy")
    /\ UNCHANGED <<main, at, key, ret, dqClose, mapRegisted, counts, breaks, lost, link>>

\* CloseProcess(): OnClose() destroys the timer.
WorkerDestroy ==
    /\ worker.pc = "destroy" /\ TimesFree
    /\ timer' = FALSE
    /\ WorkerTo("notify")
    /\ UNCHANGED <<main, at, key, ret, tables, counts, net, handler, m_nConnState>>

\* CloseProcess(): NotifyConnect(), unless the client is stopping.
WorkerNotify ==
    /\ worker.pc = "notify"
    /\ \/ ~Stopping /\ ConMutexFree /\ SignalCon
       \/ Stopping /\ UNCHANGED at
    /\ worker' = [worker EXCEPT !.pc = IF worker.last THEN "drain" ELSE "top", !.key = None]
    /\ UNCHANGED <<main, key, ret, tables, counts, net, link>>

-----------------------------------------------------------------------------
(* The connection thread.                                                  *)

ConBegin ==
    /\ at["con"] = "begun" /\ Goto("con", "check")
    /\ UNCHANGED <<main, key, ret, worker, tables, counts, net, link>>

\* while(!m_bEndThread), the mutex held.
ConCheck ==
    /\ at["con"] = "check" /\ Goto("con", IF EndCon THEN "ended" ELSE "going")
    /\ UNCHANGED <<main, key, ret, worker, tables, counts, net, link>>

ConWait ==
    /\ at["con"] = "going" /\ Goto("con", "wait")
    /\ UNCHANGED <<main, key, ret, worker, tables, counts, net, link>>

ConGiveUp ==
    /\ at["con"] = "dial" /\ EndCon /\ Goto("con", "check")
    /\ UNCHANGED <<main, key, ret, worker, tables, counts, net, link>>

\* connect() fails, and OnConnect() is told so with its flag.
ConRefused ==
    /\ at["con"] = "dial" /\ ~EndCon /\ m_nConnState
    /\ m_nConnState' = FALSE
    /\ UNCHANGED <<control, tables, counts, net, handler, timer>>

ConConnect(s) ==
    /\ at["con"] = "dial" /\ ~EndCon /\ s \notin open
    /\ open' = open \cup {s}
    /\ peer' = [peer EXCEPT ![s] = "up"]
    /\ key' = [key EXCEPT !["con"] = s]
    /\ Goto("con", "enter")
    /\ UNCHANGED <<main, ret, worker, tables, counts, breaks, lost, link>>

\* OnConnect() of a client that is stopping forgets the socket.
ConTooLate ==
    /\ at["con"] = "enter" /\ Stopping
    /\ key' = [key EXCEPT !["con"] = None]
    /\ Goto("con", "check")
    /\ UNCHANGED <<main, ret, worker, tables, counts, net, link>>

\* The handler gets the socket, and the selector watches it.
ConEnter ==
    /\ at["con"] = "enter" /\ ~Stopping
    /\ handler' = key["con"]
    /\ mapRead' = mapRead \cup {key["con"]}
    /\ Goto("con", "map")
    /\ UNCHANGED <<main, key, ret, worker, dqClose, mapRegisted, counts, net, m_nConnState, timer>>

\* RegisterAio() fails: the socket is closed, and ThreadEntry() does not look
\* at what OnConnect() returns.
ConUnregistered ==
    /\ at["con"] = "enter" /\ ~Stopping
    /\ breaks < MaxBreaks /\ breaks' = breaks + 1
    /\ handler' = key["con"] /\ CloseSocket(key["con"])
    /\ lost' = TRUE
    /\ key' = [key EXCEPT !["con"] = None]
    /\ Goto("con", "check")
    /\ UNCHANGED <<main, ret, worker, dqClose, mapRegisted, counts, m_nConnState, timer>>

ConMap ==
    /\ at["con"] = "map" /\ CommFree
    /\ mapRegisted' = mapRegisted \cup {key["con"]}
    /\ key' = [key EXCEPT !["con"] = None]
    /\ Goto("con", "timer")
    /\ UNCHANGED <<main, ret, worker, dqClose, mapRead, counts, net, link>>

\* A handler that makes no timer, as that of the KC interface.
ConNoTimer ==
    /\ at["con"] = "timer" /\ Goto("con", "login")
    /\ UNCHANGED <<main, key, ret, worker, tables, counts, net, link>>

\* The handler's OnConnect(): CreateTimer() leaves a timer it finds alone.
ConTimer ==
    /\ at["con"] = "timer" /\ TimesFree
    /\ timer' = TRUE
    /\ Goto("con", "login")
    /\ UNCHANGED <<main, key, ret, worker, tables, counts, net, handler, m_nConnState>>

\* send(): all of it, or not all, after which the peer has lost the boundary
\* of the packets and makes nothing of what follows.
Send(s) ==
    /\ Reachable(s)
    /\ \/ UNCHANGED <<peer, breaks>>
       \/ /\ breaks < MaxBreaks /\ peer[s] = "up"
          /\ peer' = [peer EXCEPT ![s] = "silent"] /\ breaks' = breaks + 1

\* The handler's OnConnect(): the login.
ConLogin ==
    /\ at["con"] = "login"
    /\ \/ Send(handler) /\ Goto("con", "told") /\ UNCHANGED ret
       \/ ~Reachable(handler) /\ AskToClose("con", "told") /\ UNCHANGED <<peer, breaks>>
    /\ UNCHANGED <<main, key, worker, tables, counts, open, lost, link>>

ConTold ==
    /\ at["con"] = "told"
    /\ m_nConnState' = TRUE
    /\ Goto("con", "check")
    /\ UNCHANGED <<main, key, ret, worker, tables, counts, net, handler, timer>>

-----------------------------------------------------------------------------
(* The heartbeat: HandleTimeout() and OnPacket().                          *)

Least(m, n) == IF m < n THEN m ELSE n

\* SendHello() fails, or the timer has run out of hellos, or of patience with
\* a peer that sends no service packets; else it sends a hello if nothing came.
Timeout ==
    LET due == noAlive >= 1
        over == due /\ sended >= HelloReSend
        hello == due /\ ~over
        quiet == CheckService /\ noQuote >= QuoteLimit
        failed == hello /\ ~Reachable(handler)
        close == \/ over \/ failed
    IN  /\ timer /\ TimesFree
        /\ noAlive' = 1
        /\ sended' = IF hello THEN sended + 1 ELSE 0
        /\ noQuote' = (IF noQuote >= QuoteLimit THEN 0 ELSE noQuote) + 1
        /\ unheard' = [hellos |-> IF over THEN 0 ELSE IF hello THEN unheard.hellos + 1
                                                               ELSE unheard.hellos,
                       timeouts |-> Least(unheard.timeouts + 1, QuoteLimit)]
        /\ IF hello /\ ~failed THEN Send(handler) ELSE UNCHANGED <<peer, breaks>>
        /\ \/ (close \/ quiet) /\ AskToClose("tmr", "idle")
           \/ ~close /\ UNCHANGED <<at, ret>>
        /\ UNCHANGED <<main, key, worker, tables, open, lost, link>>

\* The selector hands the socket to a thread when there is a packet to read,
\* or the end of the connection.
IoPick(s) ==
    /\ at[s] = "idle" /\ s \in mapRead
    /\ \/ Reachable(s) /\ peer[s] = "up" /\ Goto(s, "packet")
       \/ ~Reachable(s) /\ Goto(s, "broken")
    /\ mapRead' = mapRead \ {s}
    /\ UNCHANGED <<main, key, ret, worker, dqClose, mapRegisted, counts, net, link>>

\* RecvData() finds the connection broken, or closed on this side meanwhile.
IoBroken(s) ==
    /\ \/ at[s] = "broken"
       \/ at[s] = "packet" /\ s \notin open
    /\ AskToClose(s, "idle")
    /\ UNCHANGED <<main, key, worker, tables, counts, net, link>>

\* A packet that the count of silent intervals does not hear of.
HeardInVain == UNCHANGED noAlive /\ unheard' = [unheard EXCEPT !.hellos = 0]

\* OnPacket(): a section under m_csZC, which the timer thread holds while it asks to
\* close.
Heard == noAlive' = 0 /\ unheard' = [unheard EXCEPT !.hellos = 0]

\* An answer to a hello; an answer to a login; a login refused; a packet for the
\* application.
IoPacket(s) ==
    /\ at[s] = "packet" /\ s \in open /\ TimesFree
    /\ Heard
    /\ \/ \E pc \in {"rereg", "answer", "quote"} : Goto(s, pc) /\ UNCHANGED <<ret, breaks>>
       \/ breaks < MaxBreaks /\ breaks' = breaks + 1 /\ AskToClose(s, "rereg")
    /\ UNCHANGED <<main, key, worker, tables, sended, noQuote, open, peer, lost, link>>

\* OnLoginRsp() answers with a subscription.
IoAnswer(s) ==
    /\ at[s] = "answer"
    /\ \/ Send(handler) /\ Goto(s, "rereg") /\ UNCHANGED ret
       \/ ~Reachable(handler) /\ AskToClose(s, "rereg") /\ UNCHANGED <<peer, breaks>>
    /\ UNCHANGED <<main, key, worker, tables, counts, open, lost, link>>

\* A packet for the application that its own count does not hear of.
Overheard(s) ==
    /\ at[s] = "quote" /\ TimesFree
    /\ unheard' = [unheard EXCEPT !.timeouts = 0]
    /\ Goto(s, "rereg")
    /\ UNCHANGED <<main, key, ret, worker, tables, noAlive, sended, noQuote, net, link>>

\* The second section of OnPacket(), for the packets of the application.
IoQuote(s) ==
    /\ at[s] = "quote" /\ TimesFree
    /\ noQuote' = 0 /\ unheard' = [unheard EXCEPT !.timeouts = 0]
    /\ Goto(s, "rereg")
    /\ UNCHANGED <<main, key, ret, worker, tables, noAlive, sended, net, link>>

\* RecvData() registers the socket again if it is still in the table.
IoRereg(s) ==
    /\ at[s] = "rereg" /\ CommFree
    /\ mapRead' = mapRead \cup ({s} \cap mapRegisted)
    /\ Goto(s, "idle")
    /\ UNCHANGED <<main, key, ret, worker, dqClose, mapRegisted, counts, net, link>>

-----------------------------------------------------------------------------
(* The application's SendPacket(), and the peer.                           *)

\* m_nConnState says yes from the first connection on, until a connect() fails.
SendPacket ==
    /\ at["snd"] = "idle" /\ m_nConnState /\ handler # None
    /\ \/ Send(handler) /\ UNCHANGED <<at, ret>>
       \/ ~Reachable(handler) /\ AskToClose("snd", "idle") /\ UNCHANGED <<peer, breaks>>
    /\ UNCHANGED <<main, key, worker, tables, counts, open, lost, link>>

PeerFails(s) ==
    /\ breaks < MaxBreaks /\ breaks' = breaks + 1
    /\ \/ peer[s] \in {"up", "silent"} /\ peer' = [peer EXCEPT ![s] = "gone"]
       \/ peer[s] = "up" /\ peer' = [peer EXCEPT ![s] = "silent"]
    /\ UNCHANGED <<control, tables, counts, open, lost, link>>

-----------------------------------------------------------------------------
(* Start() and Stop().                                                     *)

MainTo(pc) == main' = pc

StartCon ==
    /\ main = "start" /\ MainTo("P") /\ Goto("con", "begun")
    /\ UNCHANGED <<key, ret, worker, tables, counts, net, link>>

\* A Start() that does not wait for the thread.
StartUnsynced ==
    /\ main = "P" /\ MainTo("notify")
    /\ UNCHANGED <<at, key, ret, worker, tables, counts, net, link>>

\* P(): the thread has the mutex and V()s.
StartSynced ==
    /\ main = "P" /\ at["con"] # "begun" /\ MainTo("notify")
    /\ UNCHANGED <<at, key, ret, worker, tables, counts, net, link>>

StartNotify ==
    /\ main = "notify" /\ ConMutexFree
    /\ SignalCon /\ MainTo("begin")
    /\ UNCHANGED <<key, ret, worker, tables, counts, net, link>>

StartWorker ==
    /\ main = "begin" /\ WorkerTo("top") /\ MainTo("run")
    /\ UNCHANGED <<at, key, ret, tables, counts, net, link>>

\* The stage and m_bEndThread are set, and End() signals without the mutex.
StopCon ==
    /\ Stops /\ main = "run"
    /\ SignalCon /\ MainTo("joinCon")
    /\ UNCHANGED <<key, ret, worker, tables, counts, net, link>>

StopJoined ==
    /\ main = "joinCon" /\ at["con"] = "ended" /\ MainTo("each")
    /\ UNCHANGED <<at, key, ret, worker, tables, counts, net, link>>

\* What is registered is closed, m_csComm held.
StopEach(s) ==
    /\ main = "each" /\ s \in mapRegisted
    /\ CloseSocket(s) /\ mapRegisted' = mapRegisted \ {s}
    /\ MainTo("destroy")
    /\ UNCHANGED <<at, key, ret, worker, dqClose, counts, breaks, lost, link>>

StopDestroy ==
    /\ main = "destroy" /\ TimesFree
    /\ timer' = FALSE
    /\ MainTo("each")
    /\ UNCHANGED <<at, key, ret, worker, tables, counts, net, handler, m_nConnState>>

StopWorker ==
    /\ main = "each" /\ mapRegisted = {}
    /\ MainTo("joinWorker") /\ worker' = SignalWorker
    /\ UNCHANGED <<at, key, ret, tables, counts, net, link>>

\* CProtocolCommClientImp::Stop() closes the handler's socket, again or not.
StopDone ==
    /\ main = "joinWorker" /\ worker.pc = "ended"
    /\ MainTo("done")
    /\ IF handler = None THEN UNCHANGED <<open, peer>>
       ELSE /\ open' = open \ {handler}
            /\ peer' = [peer EXCEPT ![handler] = "none"]
    /\ UNCHANGED <<at, key, ret, worker, tables, counts, breaks, lost, link>>

-----------------------------------------------------------------------------
ReqClose(a) == UnRegisterAio(a) \/ Enque(a)

Worker ==
    \/ WorkerTop \/ WorkerLook \/ WorkerWait \/ WorkerDrain
    \/ WorkerClose \/ WorkerDestroy \/ WorkerNotify

Connector ==
    \/ ConBegin \/ ConCheck \/ ConWait \/ ConGiveUp \/ ConTooLate
    \/ (\E s \in Sock : ConConnect(s)) \/ ConEnter \/ ConUnregistered \/ ConMap
    \/ ConTimer \/ ConLogin \/ ConTold \/ ReqClose("con")

Timer == Timeout \/ ReqClose("tmr")

\* RecvData(), with OnPacket() in it.
RecvData(s) ==
    IoPick(s) \/ IoBroken(s) \/ IoPacket(s) \/ IoAnswer(s) \/ IoQuote(s) \/ IoRereg(s)

Io(s) == RecvData(s) \/ ReqClose(s)

Main ==
    \/ StartCon \/ StartSynced \/ StartNotify \/ StartWorker
    \/ StopJoined \/ (\E s \in Sock : StopEach(s)) \/ StopDestroy \/ StopWorker \/ StopDone

Next ==
    \/ Worker \/ Connector \/ ConRefused
    \/ Timer \/ SendPacket \/ ReqClose("snd")
    \/ \E s \in Sock : Io(s) \/ PeerFails(s)
    \/ Main \/ StopCon

Spec == Init /\ [][Next]_vars

FairSpec ==
    /\ Spec
    /\ WF_vars(Worker) /\ SF_vars(WorkerClose)
    /\ WF_vars(Connector) /\ WF_vars(Timer) /\ WF_vars(ReqClose("snd"))
    /\ \A s \in Sock : WF_vars(Io(s))
    /\ WF_vars(Main)

-----------------------------------------------------------------------------
\* Where the threads may be, and the bounds of the counts.
TypeOK ==
    /\ main \in {"start", "P", "notify", "begin", "run", "joinCon", "each", "destroy",
                "joinWorker", "done"}
    /\ at \in [Actor -> {"off", "begun", "check", "going", "wait", "dial", "enter", "map",
                         "timer", "login", "told", "ended", "idle", "unreg", "enque",
                         "packet", "answer", "quote", "broken", "rereg"}]
    /\ key \in [Actor -> Sock \cup {None}]
    /\ ret \in [Actor -> {"idle", "told", "rereg"}]
    /\ worker \in [pc : {"off", "top", "look", "going", "wait", "drain", "close", "destroy",
                          "notify", "ended"},
                   key : Sock \cup {None}, last : BOOLEAN]
    /\ dqClose \in Seq(Sock) /\ mapRead \subseteq Sock /\ mapRegisted \subseteq Sock
    /\ handler \in Sock \cup {None} /\ m_nConnState \in BOOLEAN /\ timer \in BOOLEAN
    /\ noAlive \in 0 .. 1 /\ sended \in 0 .. HelloReSend
    /\ noQuote \in 0 .. QuoteLimit + 1
    /\ unheard \in [hellos : 0 .. HelloReSend, timeouts : 0 .. QuoteLimit]
    /\ open \subseteq Sock /\ peer \in [Sock -> {"none", "up", "silent", "gone"}]
    /\ breaks \in 0 .. MaxBreaks /\ lost \in BOOLEAN

\* Sockets that are registered, on their way there, or waiting to be closed.
Engaged ==
    mapRegisted \cup {dqClose[i] : i \in DOMAIN dqClose}
        \cup ({key[a] : a \in Actor} \ {None})
        \cup (IF worker.pc = "close" THEN {worker.key} ELSE {})

\* There is never a second connection under way while one is registered, asked
\* to be closed or being closed, and none of these stages meets a socket that
\* has been closed, and whose number may be another's, whoever asked first.
OneLink ==
    /\ Cardinality(Engaged) <= 1
    /\ main # "done" => Engaged \subseteq open
    /\ at["con"] = "dial" /\ ~Stopping => Engaged = {}

\* A connection that is left to itself has its timer, whatever became of the
\* timer of the one before, which may outlive it: a dead peer will be noticed.
Supervised ==
    at["con"] \in {"check", "going", "wait"} /\ mapRegisted # {} /\ ~Stopping => timer

\* The timer asks to close only a connection that cannot be written to, after as many
\* hellos in a row as HelloReSend says and no packet since the first of
\* them, or after QuoteLimit timeouts without a packet for the application.
Patient ==
    [][at["tmr"] = "idle" /\ at'["tmr"] = "unreg" =>
          \/ unheard.hellos >= HelloReSend
          \/ ~Reachable(handler)
          \/ CheckService /\ unheard.timeouts >= QuoteLimit]_vars

Up == \E s \in mapRegisted : Reachable(s) /\ peer[s] = "up"

\* Whatever breaks a connection, and whenever it does, even before it is in the tables:
\* there is one to a peer that answers again, as long as the client runs.
UpAgain == []<>(Up \/ Stopping \/ lost)

=============================================================================
