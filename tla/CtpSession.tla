----------------------------- MODULE CtpSession -----------------------------
(***************************************************************************)
(* The sessions of the server with the exchange: MyCTPTrade logs in to a   *)
(* trade front and queries the instruments, MyCTPQuote logs in to a quote  *)
(* front and subscribes to them, and TradeManager::InitCTP() starts both,  *)
(* again every few seconds as long as one of them is not logged in.        *)
(*                                                                         *)
(* Each start makes a new API, a connection with a thread of its own that  *)
(* calls back; the earlier ones stay alive.  All the APIs of a side call   *)
(* the same object, which sends its requests with the latest.  The API and *)
(* the exchange are external: they connect, answer, refuse and lose        *)
(* connections as they like.  The exchange has instruments (Listed), and   *)
(* no query is answered without one: the code does nothing about such an   *)
(* answer (MyCTPTrade.cpp:184), and m_bQryIns stays set.                   *)
(***************************************************************************)
EXTENDS SequencesExt, Integers

CONSTANTS
    Listed,      \* the instruments of the exchange, in the order of its answers
    Filtered,    \* those whose names MyCTPTrade filters out
    LoginLimit,  \* what loginNum may reach, 20 in the code
    MaxFaults,   \* bound: losses of a connection, logins and queries that are refused,
                 \* turns of the login loop that come before the answers
    None         \* nobody

Side == {"trade", "quote"}

Api == Side \X (1 .. LoginLimit + 1)

Valid == ToSet(Listed) \ Filtered

ASSUME CtpSessionAssumption ==
    /\ Listed \in Seq(ToSet(Listed)) /\ Listed # <<>>
    /\ LoginLimit \in Nat /\ MaxFaults \in Nat /\ None \notin Api

VARIABLES
    main,            \* where InitCTP() is
    loginNum,        \* loginNum
    m_reqApi,        \* m_reqApi of each side, 0 if there is none yet
    m_bLoginSuccessed,
    m_bQryIns, m_bQryInsOK,
    mapInstrument,   \* m_mapInstrument of MyCTPTrade
    mapSubscribed,   \* m_mapInstrument of MyCTPQuote
    m_getInstru,     \* the API whose thread has the mutex of MyCTPTrade
    m_mutex,         \* the same for MyCTPQuote
    thread,          \* where the thread of each API is
    \* External: each connection, the logins asked for, the answers to a query that are
    \* to come, the APIs whose last request was refused, the instruments whose quotes
    \* are sent, the calls on their way to each thread.
    session, asked, answers, denied, subscribed, calls, faults

flags == <<m_bQryIns, m_bQryInsOK>>
maps == <<mapInstrument, mapSubscribed>>
mutexes == <<m_getInstru, m_mutex>>
external == <<session, asked, answers, denied, subscribed, calls, faults>>
vars == <<main, loginNum, m_reqApi, m_bLoginSuccessed, flags, maps, mutexes, thread, external>>

Init ==
    /\ main = "trade" /\ loginNum = 0
    /\ m_reqApi = [s \in Side |-> 0]
    /\ m_bLoginSuccessed = [s \in Side |-> FALSE]
    /\ m_bQryIns = FALSE /\ m_bQryInsOK = FALSE
    /\ mapInstrument = {} /\ mapSubscribed = {}
    /\ m_getInstru = None /\ m_mutex = None
    /\ thread = [a \in Api |-> "idle"]
    /\ session = [a \in Api |-> "none"] /\ asked = {} /\ denied = {}
    /\ answers = [a \in Api |-> <<>>] /\ subscribed = [a \in Api |-> {}]
    /\ calls = [a \in Api |-> <<>>] /\ faults = 0

Latest(s) == <<s, m_reqApi[s]>>

Fault == faults < MaxFaults /\ faults' = faults + 1

-----------------------------------------------------------------------------
(* TradeManager::InitCTP().                                                *)

StartTrade ==
    /\ main = "trade"
    /\ main' = IF m_bLoginSuccessed["trade"] THEN "quote" ELSE "reset"
    /\ UNCHANGED <<loginNum, m_reqApi, m_bLoginSuccessed, flags, maps, mutexes, thread, external>>

\* MyCTPTrade::Init(), first the flags.
InitTrade ==
    /\ main = "reset" /\ main' = "createTrade"
    /\ m_bQryIns' = FALSE /\ m_bQryInsOK' = FALSE
    /\ UNCHANGED <<loginNum, m_reqApi, m_bLoginSuccessed, maps, mutexes, thread, external>>

CreateApi(s) ==
    /\ m_reqApi' = [m_reqApi EXCEPT ![s] = @ + 1]
    /\ session' = [session EXCEPT ![<<s, m_reqApi[s] + 1>>] = "down"]
    /\ UNCHANGED <<loginNum, m_bLoginSuccessed, flags, maps, mutexes, thread, asked, answers,
                   denied, subscribed, calls, faults>>

CreateTrade == main = "createTrade" /\ main' = "quote" /\ CreateApi("trade")

StartQuote ==
    /\ main = "quote"
    /\ main' = IF m_bLoginSuccessed["quote"] THEN "sleep" ELSE "createQuote"
    /\ UNCHANGED <<loginNum, m_reqApi, m_bLoginSuccessed, flags, maps, mutexes, thread, external>>

\* MyCTPQuote::Init().
CreateQuote == main = "createQuote" /\ main' = "sleep" /\ CreateApi("quote")

\* After Sleep(): the trade side never takes its flag back, so that both flags are
\* read as they are when the second is read.  That an answer takes longer than the
\* sleep is a fault, unless there was a refusal to wait for.
CheckLogin ==
    /\ main = "sleep" /\ loginNum' = loginNum + 1
    /\ IF \A s \in Side : m_bLoginSuccessed[s] THEN main' = "success" /\ UNCHANGED faults
       ELSE /\ main' = IF loginNum + 1 > LoginLimit THEN "givenUp" ELSE "trade"
            /\ IF denied = {} THEN Fault ELSE UNCHANGED faults
    /\ UNCHANGED <<m_reqApi, m_bLoginSuccessed, flags, maps, mutexes, thread,
                   session, asked, answers, denied, subscribed, calls>>

InitCTP == StartTrade \/ InitTrade \/ CreateTrade \/ StartQuote \/ CreateQuote \/ CheckLogin

-----------------------------------------------------------------------------
(* Calls to the latest API.  What they return is not looked at.            *)

ReqUserLogin(s) ==
    asked' = IF session[Latest(s)] \in {"connected", "up"} THEN asked \cup {Latest(s)} ELSE asked

\* A query while one is under way is refused.
ReqQryInstrument ==
    LET a == Latest("trade") IN
    answers' = IF session[a] = "up" /\ answers[a] = <<>> THEN [answers EXCEPT ![a] = Listed] ELSE answers

SubscribeMarketData ==
    LET a == Latest("quote") IN
    subscribed' = IF session[a] = "up" THEN [subscribed EXCEPT ![a] = @ \cup mapSubscribed] ELSE subscribed

-----------------------------------------------------------------------------
(* The calls back, one at a time in each thread.                           *)

\* The thread of a has the next call of this name to do.
Called(a, name) == thread[a] = "idle" /\ calls[a] # <<>> /\ Head(calls[a])[1] = name

Take(a) == calls' = [calls EXCEPT ![a] = Tail(@)]

Goto(a, place) == thread' = [thread EXCEPT ![a] = place]

OnFrontConnected(a) ==
    /\ Called(a, "OnFrontConnected") /\ Take(a)
    /\ ReqUserLogin(a[1])
    /\ UNCHANGED <<main, loginNum, m_reqApi, m_bLoginSuccessed, flags, maps, mutexes, thread,
                   session, answers, denied, subscribed, faults>>

\* A disconnection nobody takes notice of.
DisconnectedUnnoticed(a) ==
    /\ Called(a, "OnFrontDisconnected") /\ Take(a)
    /\ UNCHANGED <<main, loginNum, m_reqApi, m_bLoginSuccessed, flags, maps, mutexes, thread,
                   session, asked, answers, denied, subscribed, faults>>

\* The trade side takes no notice.
OnFrontDisconnected(a) ==
    /\ Called(a, "OnFrontDisconnected") /\ Take(a)
    /\ m_bLoginSuccessed' = IF a[1] = "quote" THEN [m_bLoginSuccessed EXCEPT !["quote"] = FALSE]
                            ELSE m_bLoginSuccessed
    /\ UNCHANGED <<main, loginNum, m_reqApi, flags, maps, mutexes, thread,
                   session, asked, answers, denied, subscribed, faults>>

\* A refused login is logged.
OnLoginRefused(a) ==
    /\ Called(a, "loginRefused") /\ Take(a)
    /\ UNCHANGED <<main, loginNum, m_reqApi, m_bLoginSuccessed, flags, maps, mutexes, thread,
                   session, asked, answers, denied, subscribed, faults>>

\* MyCTPTrade::OnRspUserLogin() up to its query.
OnTradeLogin(a) ==
    /\ a[1] = "trade" /\ Called(a, "OnRspUserLogin") /\ Take(a)
    /\ ReqQryInstrument
    /\ Goto(a, "setFlag")
    /\ UNCHANGED <<main, loginNum, m_reqApi, m_bLoginSuccessed, flags, maps, mutexes,
                   session, asked, denied, subscribed, faults>>

\* MyCTPQuote::OnRspUserLogin(), the first exchange; what it returns is the thread's
\* local Qry, which decides whether the list matters at all.
OnQuoteLogin(a) ==
    /\ a[1] = "quote" /\ Called(a, "OnRspUserLogin") /\ Take(a)
    /\ m_bQryIns' = FALSE
    /\ Goto(a, IF m_bQryIns THEN "exchangeOnly" ELSE "exchange")
    /\ UNCHANGED <<main, loginNum, m_reqApi, m_bLoginSuccessed, m_bQryInsOK, maps, mutexes,
                   session, asked, answers, denied, subscribed, faults>>

\* The list is left to the query.
ExchangeOnly(a) ==
    /\ thread[a] \in {"exchange", "exchangeOnly"}
    /\ m_bQryInsOK' = TRUE
    /\ Goto(a, "setFlag")
    /\ UNCHANGED <<main, loginNum, m_reqApi, m_bLoginSuccessed, m_bQryIns, maps, mutexes, external>>

\* The second exchange.
ExchangeOK(a) ==
    /\ thread[a] \in {"exchange", "exchangeOnly"}
    /\ m_bQryInsOK' = TRUE
    /\ Goto(a, IF m_bQryInsOK /\ thread[a] = "exchange" THEN "finish" ELSE "setFlag")
    /\ UNCHANGED <<main, loginNum, m_reqApi, m_bLoginSuccessed, m_bQryIns, maps, mutexes, external>>

SetLoginSuccessed(a) ==
    /\ thread[a] = "setFlag" /\ Goto(a, "idle")
    /\ m_bLoginSuccessed' = [m_bLoginSuccessed EXCEPT ![a[1]] = TRUE]
    /\ UNCHANGED <<main, loginNum, m_reqApi, flags, maps, mutexes, external>>

Inserted(i) == IF i \in Valid THEN mapInstrument \cup {i} ELSE mapInstrument

\* One instrument of the answer; with the last one the mutex is kept.
OnRspQryInstrument(a) ==
    /\ Called(a, "OnRspQryInstrument") /\ Take(a)
    /\ m_getInstru = None
    /\ LET i == Head(calls[a])[2]  bIsLast == Head(calls[a])[3] IN
        /\ mapInstrument' = Inserted(i)
        /\ IF bIsLast THEN /\ m_bQryInsOK' = TRUE /\ m_bQryIns' = FALSE
                           /\ m_getInstru' = a /\ Goto(a, "finish")
           ELSE UNCHANGED <<flags, m_getInstru, thread>>
    /\ UNCHANGED <<main, loginNum, m_reqApi, m_bLoginSuccessed, mapSubscribed, m_mutex,
                   session, asked, answers, denied, subscribed, faults>>

OnQueryRefused(a) ==
    /\ Called(a, "queryRefused") /\ Take(a)
    /\ m_getInstru = None /\ m_bQryIns' = FALSE
    /\ UNCHANGED <<main, loginNum, m_reqApi, m_bLoginSuccessed, m_bQryInsOK, maps, mutexes, thread,
                   session, asked, answers, denied, subscribed, faults>>

\* A list that is copied under its mutex, which the trade side's thread already has.
FinishLocked(a) ==
    /\ thread[a] = "finish" /\ m_mutex = None /\ m_getInstru = None
    /\ m_mutex' = a /\ mapSubscribed' = mapInstrument
    /\ Goto(a, "subscribe")
    /\ UNCHANGED <<main, loginNum, m_reqApi, m_bLoginSuccessed, flags, mapInstrument, m_getInstru, external>>

\* MyCTPQuote::FinishQryInstrument(), in the thread of either side: under m_mutex, and
\* without m_getInstru, the list is copied, then subscribed to.
FinishQryInstrument(a) ==
    /\ thread[a] = "finish" /\ m_mutex = None
    /\ m_mutex' = a /\ mapSubscribed' = mapInstrument
    /\ Goto(a, "subscribe")
    /\ UNCHANGED <<main, loginNum, m_reqApi, m_bLoginSuccessed, flags, mapInstrument, m_getInstru, external>>

Subscribe(a) ==
    /\ thread[a] = "subscribe" /\ SubscribeMarketData
    /\ m_mutex' = None /\ m_getInstru' = IF m_getInstru = a THEN None ELSE m_getInstru
    /\ Goto(a, IF a[1] = "quote" THEN "setFlag" ELSE "idle")
    /\ UNCHANGED <<main, loginNum, m_reqApi, m_bLoginSuccessed, flags, maps,
                   session, asked, answers, denied, calls, faults>>

ApiThread(a) ==
    \/ OnFrontConnected(a) \/ OnFrontDisconnected(a) \/ OnLoginRefused(a)
    \/ OnTradeLogin(a) \/ OnQuoteLogin(a) \/ ExchangeOK(a) \/ SetLoginSuccessed(a)
    \/ OnRspQryInstrument(a) \/ OnQueryRefused(a) \/ FinishQryInstrument(a) \/ Subscribe(a)

-----------------------------------------------------------------------------
(* External: the API and the exchange.                                     *)

server == <<main, loginNum, m_reqApi, m_bLoginSuccessed, flags, maps, mutexes, thread>>

Call(a, call) == calls' = [calls EXCEPT ![a] = Append(@, call)]

\* The front of the trade side does not answer before InitCTP() has started both.
Connect(a) ==
    /\ session[a] = "down" /\ m_reqApi["quote"] > 0
    /\ session' = [session EXCEPT ![a] = "connected"]
    /\ Call(a, <<"OnFrontConnected">>)
    /\ UNCHANGED <<server, asked, answers, denied, subscribed, faults>>

AnswerLogin(a) ==
    /\ a \in asked /\ asked' = asked \ {a} /\ denied' = denied \ {a}
    /\ session' = [session EXCEPT ![a] = "up"]
    /\ Call(a, <<"OnRspUserLogin">>)
    /\ UNCHANGED <<server, answers, subscribed, faults>>

AnswerQuery(a) ==
    /\ answers[a] # <<>> /\ answers' = [answers EXCEPT ![a] = Tail(@)]
    /\ Call(a, <<"OnRspQryInstrument", Head(answers[a]), Len(answers[a]) = 1>>)
    /\ UNCHANGED <<server, session, asked, denied, subscribed, faults>>

RefuseLogin(a) ==
    /\ Fault /\ a \in asked /\ asked' = asked \ {a} /\ denied' = denied \cup {a}
    /\ Call(a, <<"loginRefused">>)
    /\ UNCHANGED <<server, session, answers, subscribed>>

RefuseQuery(a) ==
    /\ Fault /\ answers[a] # <<>> /\ answers' = [answers EXCEPT ![a] = <<>>]
    /\ denied' = denied \cup {a}
    /\ Call(a, <<"queryRefused">>)
    /\ UNCHANGED <<server, session, asked, subscribed>>

LoseConnection(a) ==
    /\ Fault /\ session[a] \in {"connected", "up"}
    /\ session' = [session EXCEPT ![a] = "down"] /\ asked' = asked \ {a}
    /\ answers' = [answers EXCEPT ![a] = <<>>] /\ subscribed' = [subscribed EXCEPT ![a] = {}]
    /\ Call(a, <<"OnFrontDisconnected">>)
    /\ UNCHANGED <<server, denied>>

Answer(a) == Connect(a) \/ AnswerLogin(a) \/ AnswerQuery(a)

Next ==
    \/ InitCTP
    \/ \E a \in Api : \/ ApiThread(a) \/ Answer(a)
                      \/ RefuseLogin(a) \/ RefuseQuery(a) \/ LoseConnection(a)

Spec == Init /\ [][Next]_vars

\* The threads go on, and the fronts answer as often as they do not fail: the API
\* connects again by itself.
Fairness == WF_vars(InitCTP) /\ \A a \in Api : WF_vars(ApiThread(a)) /\ WF_vars(Answer(a))

FairSpec == Spec /\ Fairness
-----------------------------------------------------------------------------
Calls == {<<"OnFrontConnected">>, <<"OnFrontDisconnected">>, <<"OnRspUserLogin">>,
          <<"loginRefused">>, <<"queryRefused">>}
         \cup ({"OnRspQryInstrument"} \X ToSet(Listed) \X BOOLEAN)

TypeOK ==
    /\ main \in {"trade", "reset", "createTrade", "quote", "createQuote", "sleep", "success", "givenUp"}
    /\ loginNum \in 0 .. LoginLimit + 1
    /\ m_reqApi \in [Side -> 0 .. LoginLimit + 1]
    /\ m_bLoginSuccessed \in [Side -> BOOLEAN]
    /\ m_bQryIns \in BOOLEAN /\ m_bQryInsOK \in BOOLEAN
    /\ mapInstrument \subseteq Valid /\ mapSubscribed \subseteq Valid
    /\ m_getInstru \in Api \cup {None} /\ m_mutex \in Api \cup {None}
    /\ thread \in [Api -> {"idle", "exchange", "exchangeOnly", "finish", "subscribe", "setFlag"}]
    /\ session \in [Api -> {"none", "down", "connected", "up"}]
    /\ asked \subseteq Api /\ denied \subseteq Api
    /\ calls \in [Api -> Seq(Calls)] /\ faults \in 0 .. MaxFaults
    /\ answers \in [Api -> Seq(ToSet(Listed))] /\ subscribed \in [Api -> SUBSET Valid]

\* The flag that tells the quote side from one that must be started again is right,
\* but for a loss whose call is still to come, whichever API logs in or is lost.
FlagRight ==
    m_bLoginSuccessed["quote"] =>
        \E n \in 1 .. LoginLimit + 1 :
            \/ session[<<"quote", n>>] = "up"
            \/ <<"OnFrontDisconnected">> \in ToSet(calls[<<"quote", n>>])

Refused == \E s \in Side : Latest(s) \in denied

WholeSubscribed == \E a \in Api : subscribed[a] = Valid

\* A server that has reported success gets the quotes of every instrument in the end,
\* whatever it lost on the way, unless its last login or query was refused.
WholeInTheEnd == main = "success" ~> WholeSubscribed \/ Refused

Ready == \A s \in Side : m_reqApi[s] > 0 /\ session[Latest(s)] = "up"

\* A list that is complete is subscribed to while both sides are logged in, in whatever
\* order they log in, the list is completed, and the login loop starts them again: no
\* login leaves the subscription to a query that leaves it to the login.
ListSubscribed == Ready /\ mapInstrument = Valid ~> WholeSubscribed \/ ~Ready \/ Refused
=============================================================================
