-------------------------- MODULE CtpSessionProofs --------------------------
(***************************************************************************)
(* Theorems about CtpSession, for any instruments, any limit of the login  *)
(* loop and any number of faults.                                          *)
(***************************************************************************)
EXTENDS CtpSession, SequenceTheorems, TLAPS

-----------------------------------------------------------------------------
(* Types.                                                                  *)

\* TypeOK in two parts.
FlagsOK ==
    /\ m_bLoginSuccessed \in [Side -> BOOLEAN]
    /\ m_bQryIns \in BOOLEAN /\ m_bQryInsOK \in BOOLEAN

StateOK ==
    /\ main \in {"trade", "reset", "createTrade", "quote", "createQuote", "sleep", "success", "givenUp"}
    /\ loginNum \in 0 .. LoginLimit + 1
    /\ m_reqApi \in [Side -> 0 .. LoginLimit + 1]
    /\ mapInstrument \subseteq Valid /\ mapSubscribed \subseteq Valid
    /\ m_getInstru \in Api \cup {None} /\ m_mutex \in Api \cup {None}
    /\ thread \in [Api -> {"idle", "exchange", "exchangeOnly", "finish", "subscribe", "setFlag"}]
    /\ session \in [Api -> {"none", "down", "connected", "up"}]
    /\ asked \subseteq Api /\ denied \subseteq Api
    /\ calls \in [Api -> Seq(Calls)] /\ faults \in 0 .. MaxFaults
    /\ answers \in [Api -> Seq(ToSet(Listed))] /\ subscribed \in [Api -> SUBSET Valid]

LEMMA Limits == LoginLimit \in Nat /\ MaxFaults \in Nat /\ None \notin Api
BY CtpSessionAssumption, Zenon DEF CtpSessionAssumption

LEMMA Parts == TypeOK <=> FlagsOK /\ StateOK
BY Zenon DEF TypeOK, FlagsOK, StateOK

\* The sides that are logged in, for the flags themselves are Boolean functions.
LoggedIn == {s \in Side : m_bLoginSuccessed[s]}

\* Each turn of the login loop makes one API of each side at most.
Counted ==
    /\ loginNum = LoginLimit + 1 => main \in {"success", "givenUp"}
    /\ m_reqApi["trade"] <= IF main \in {"quote", "createQuote", "sleep"} THEN loginNum + 1 ELSE loginNum
    /\ m_reqApi["quote"] <= IF main = "sleep" THEN loginNum + 1 ELSE loginNum

BothStarted == \A s \in Side : m_reqApi[s] > 0

\* Nothing is called back and nobody is logged in before both sides have an API.
Started ==
    /\ \A a \in Api : \/ session[a] \in {"connected", "up"} \/ calls[a] # <<>>
                      \/ thread[a] # "idle" \/ a \in asked \/ answers[a] # <<>>
                      \/ a[1] \in LoggedIn
                      => BothStarted
    /\ m_reqApi["quote"] > 0 \/ main \in {"quote", "createQuote", "sleep"} => m_reqApi["trade"] > 0

Typed == FlagsOK /\ StateOK /\ Counted /\ Started

LEMMA LoggedInSame == UNCHANGED m_bLoginSuccessed => LoggedIn' = LoggedIn
BY Zenon DEF LoggedIn

LEMMA LoggedInSet ==
    ASSUME FlagsOK, NEW s \in Side, m_bLoginSuccessed' = [m_bLoginSuccessed EXCEPT ![s] = TRUE]
    PROVE  FlagsOK' => LoggedIn' = LoggedIn \cup {s}
BY Zenon DEF FlagsOK, LoggedIn

LEMMA LoggedInReset ==
    ASSUME FlagsOK, NEW s \in Side, m_bLoginSuccessed' = [m_bLoginSuccessed EXCEPT ![s] = FALSE]
    PROVE  LoggedIn' = LoggedIn \ {s}
BY Zenon DEF FlagsOK, LoggedIn

\* The next call of a thread is a call, and what follows it are calls.
LEMMA TakeTyped ==
    ASSUME StateOK, NEW a \in Api, calls[a] # <<>>, Take(a)
    PROVE  /\ calls' \in [Api -> Seq(Calls)]
           /\ Head(calls[a]) \in Calls
           /\ \A b \in Api : calls'[b] # <<>> => calls[b] # <<>>
<1>1. calls \in [Api -> Seq(Calls)] BY DEF StateOK
<1>2. calls[a] \in Seq(Calls) BY <1>1
<1>3. Head(calls[a]) \in Calls /\ Tail(calls[a]) \in Seq(Calls) BY <1>2, HeadTailProperties
<1>4. QED BY <1>1, <1>3 DEF Take

\* A call that comes is put last.
LEMMA CallTyped ==
    ASSUME StateOK, NEW a \in Api, NEW c \in Calls, Call(a, c)
    PROVE  /\ calls' \in [Api -> Seq(Calls)]
           /\ \A b \in Api : b # a => calls'[b] = calls[b]
           /\ calls'[a] = Append(calls[a], c)
<1>1. calls \in [Api -> Seq(Calls)] BY DEF StateOK
<1>2. Append(calls[a], c) \in Seq(Calls) BY <1>1, AppendProperties
<1>3. QED BY <1>1, <1>2 DEF Call

LEMMA LatestIsApi ==
    ASSUME StateOK, NEW s \in Side, m_reqApi[s] > 0
    PROVE  Latest(s) \in Api
<1>1. m_reqApi[s] \in 1 .. LoginLimit + 1 BY Limits DEF StateOK
<1>2. QED BY <1>1 DEF Latest, Api

LEMMA TypedInit == Init => Typed
<1> SUFFICES ASSUME Init PROVE Typed OBVIOUS
<1>1. 0 \in 0 .. LoginLimit + 1 /\ 0 \in 0 .. MaxFaults BY Limits
<1>2. FlagsOK BY DEF Init, FlagsOK
<1>3. StateOK
  <2>1. <<>> \in Seq(Calls) /\ <<>> \in Seq(ToSet(Listed)) OBVIOUS
  <2>2. QED BY <1>1, <2>1 DEF Init, StateOK
<1>4. Counted BY Limits DEF Init, Counted, Side
<1>5. Started
  <2>1. \A s \in Side : ~m_bLoginSuccessed[s] BY Zenon DEF Init
  <2>2. LoggedIn = {} BY <2>1, Zenon DEF LoggedIn
  <2>3. m_reqApi["quote"] = 0 BY DEF Init, Side
  <2>4. QED BY <2>2, <2>3 DEF Init, Started, BothStarted
<1>6. QED BY <1>2, <1>3, <1>4, <1>5 DEF Typed

LEMMA TypedInitCTP == Typed /\ InitCTP => Typed'
<1> SUFFICES ASSUME Typed, InitCTP PROVE Typed' OBVIOUS
<1>1. FlagsOK /\ StateOK /\ Counted /\ Started BY DEF Typed
<1> USE Limits DEF flags, maps, mutexes, external
<1>2. CASE StartTrade
  <2>1. /\ main = "trade" /\ main' \in {"quote", "reset"}
        /\ UNCHANGED <<loginNum, m_reqApi, m_bLoginSuccessed, flags, maps, mutexes, thread, external>>
    BY <1>2, Zenon DEF StartTrade
  <2>a. LoggedIn' = LoggedIn BY <2>1, LoggedInSame
  <2>b. main' = "quote" => "trade" \in LoggedIn
    <3>1. "trade" \in Side BY DEF Side
    <3>2. ~m_bLoginSuccessed["trade"] => main' = "reset" BY <1>2, Zenon DEF StartTrade
    <3>3. m_bLoginSuccessed["trade"] => "trade" \in LoggedIn BY <3>1, Zenon DEF LoggedIn
    <3>4. "reset" # "quote" OBVIOUS
    <3>5. QED BY <3>2, <3>3, <3>4, Zenon
  <2>2. FlagsOK' BY <1>1, <2>1, Zenon DEF FlagsOK
  <2>3. StateOK' BY <1>1, <2>1 DEF StateOK
  <2>4. Counted' BY <1>1, <2>1 DEF StateOK, Counted, Side
  <2>5. main' = "quote" => m_reqApi["trade"] > 0
    <3>1. <<"trade", 1>> \in Api BY DEF Api, Side
    <3>2. "trade" \in LoggedIn => \A s \in Side : m_reqApi[s] > 0
      BY <1>1, <3>1 DEF Started, BothStarted
    <3>3. QED BY <2>b, <3>2 DEF Side
  <2>6. Started' BY <1>1, <2>1, <2>5, <2>a DEF Started, BothStarted
  <2>7. QED BY <2>2, <2>3, <2>4, <2>6 DEF Typed
<1>3. CASE InitTrade
  <2>1. /\ main = "reset" /\ main' = "createTrade" /\ m_bQryIns' = FALSE /\ m_bQryInsOK' = FALSE
        /\ UNCHANGED <<loginNum, m_reqApi, m_bLoginSuccessed, maps, mutexes, thread, external>>
    BY <1>3, Zenon DEF InitTrade
  <2>2. FlagsOK' BY <1>1, <2>1, Zenon DEF FlagsOK
  <2>3. StateOK' BY <1>1, <2>1 DEF StateOK
  <2>4. Counted' BY <1>1, <2>1 DEF StateOK, Counted, Side
  <2>a. LoggedIn' = LoggedIn BY <2>1, LoggedInSame
  <2>5. Started' BY <1>1, <2>1, <2>a DEF Started, BothStarted
  <2>6. QED BY <2>2, <2>3, <2>4, <2>5 DEF Typed
<1>4. CASE CreateTrade
  <2>1. /\ main = "createTrade" /\ main' = "quote" /\ CreateApi("trade")
    BY <1>4 DEF CreateTrade
  <2>2. FlagsOK' BY <1>1, <2>1, Zenon DEF FlagsOK, CreateApi
  <2>3. m_reqApi'["trade"] \in 1 .. LoginLimit + 1 /\ m_reqApi'["quote"] = m_reqApi["quote"]
    BY <1>1, <2>1 DEF StateOK, Counted, Side, CreateApi
  <2>a. m_reqApi' \in [Side -> 0 .. LoginLimit + 1]
    BY <1>1, <2>1, <2>3 DEF StateOK, Side, CreateApi
  <2>b. session' \in [Api -> {"none", "down", "connected", "up"}]
    BY <1>1, <2>1 DEF StateOK, CreateApi
  <2>c. UNCHANGED <<loginNum, maps, mutexes, thread, asked, answers, denied, subscribed, calls, faults>>
    BY <2>1, Zenon DEF CreateApi
  <2>4. StateOK' BY <1>1, <2>1, <2>a, <2>b, <2>c DEF StateOK
  <2>5. Counted' BY <1>1, <2>1, <2>3 DEF StateOK, Counted, Side, CreateApi
  <2>d. LoggedIn' = LoggedIn BY <2>1, LoggedInSame DEF CreateApi
  <2>e. \A a \in Api : session'[a] \in {"connected", "up"} => session[a] \in {"connected", "up"}
    BY <1>1, <2>1 DEF StateOK, CreateApi
  <2>f. \A s \in Side : m_reqApi[s] > 0 => m_reqApi'[s] > 0
    BY <1>1, <2>3 DEF StateOK, Side
  <2>6. Started' BY <1>1, <2>1, <2>3, <2>a, <2>c, <2>d, <2>e, <2>f DEF Started, BothStarted, Side
  <2>7. QED BY <2>2, <2>4, <2>5, <2>6 DEF Typed
<1>5. CASE StartQuote
  <2>1. /\ main = "quote" /\ main' \in {"sleep", "createQuote"}
        /\ UNCHANGED <<loginNum, m_reqApi, m_bLoginSuccessed, flags, maps, mutexes, thread, external>>
    BY <1>5, Zenon DEF StartQuote
  <2>2. FlagsOK' BY <1>1, <2>1, Zenon DEF FlagsOK
  <2>3. StateOK' BY <1>1, <2>1 DEF StateOK
  <2>4. Counted' BY <1>1, <2>1 DEF StateOK, Counted, Side
  <2>a. LoggedIn' = LoggedIn BY <2>1, LoggedInSame
  <2>5. Started' BY <1>1, <2>1, <2>a DEF Started, BothStarted
  <2>6. QED BY <2>2, <2>3, <2>4, <2>5 DEF Typed
<1>6. CASE CreateQuote
  <2>1. /\ main = "createQuote" /\ main' = "sleep" /\ CreateApi("quote")
    BY <1>6 DEF CreateQuote
  <2>2. FlagsOK' BY <1>1, <2>1, Zenon DEF FlagsOK, CreateApi
  <2>3. m_reqApi'["quote"] \in 1 .. LoginLimit + 1 /\ m_reqApi'["trade"] = m_reqApi["trade"]
    BY <1>1, <2>1 DEF StateOK, Counted, Side, CreateApi
  <2>a. m_reqApi' \in [Side -> 0 .. LoginLimit + 1]
    BY <1>1, <2>1, <2>3 DEF StateOK, Side, CreateApi
  <2>b. session' \in [Api -> {"none", "down", "connected", "up"}]
    BY <1>1, <2>1 DEF StateOK, CreateApi
  <2>c. UNCHANGED <<loginNum, maps, mutexes, thread, asked, answers, denied, subscribed, calls, faults>>
    BY <2>1, Zenon DEF CreateApi
  <2>4. StateOK' BY <1>1, <2>1, <2>a, <2>b, <2>c DEF StateOK
  <2>5. Counted' BY <1>1, <2>1, <2>3 DEF StateOK, Counted, Side, CreateApi
  <2>d. LoggedIn' = LoggedIn BY <2>1, LoggedInSame DEF CreateApi
  <2>e. \A a \in Api : session'[a] \in {"connected", "up"} => session[a] \in {"connected", "up"}
    BY <1>1, <2>1 DEF StateOK, CreateApi
  <2>f. \A s \in Side : m_reqApi[s] > 0 => m_reqApi'[s] > 0
    BY <1>1, <2>3 DEF StateOK, Side
  <2>6. Started' BY <1>1, <2>1, <2>3, <2>a, <2>c, <2>d, <2>e, <2>f DEF Started, BothStarted, Side
  <2>7. QED BY <2>2, <2>4, <2>5, <2>6 DEF Typed
<1>7. CASE CheckLogin
  <2>1. /\ main = "sleep" /\ loginNum' = loginNum + 1
        /\ \/ main' = "success"
           \/ main' = IF loginNum + 1 > LoginLimit THEN "givenUp" ELSE "trade"
        /\ faults' = faults \/ Fault
        /\ UNCHANGED <<m_reqApi, m_bLoginSuccessed, flags, maps, mutexes, thread,
                       session, asked, answers, denied, subscribed, calls>>
    BY <1>7, Zenon DEF CheckLogin
  <2>2. FlagsOK' BY <1>1, <2>1, Zenon DEF FlagsOK
  <2>3. faults' \in 0 .. MaxFaults BY <1>1, <2>1 DEF StateOK, Fault
  <2>4. StateOK' BY <1>1, <2>1, <2>3 DEF StateOK, Counted
  <2>5. Counted' BY <1>1, <2>1 DEF StateOK, Counted, Side
  <2>a. LoggedIn' = LoggedIn BY <2>1, LoggedInSame
  <2>6. Started' BY <1>1, <2>1, <2>a DEF Started, BothStarted
  <2>7. QED BY <2>2, <2>4, <2>5, <2>6 DEF Typed
<1>8. QED BY <1>2, <1>3, <1>4, <1>5, <1>6, <1>7 DEF InitCTP

\* A step that makes no API, once there is one on both sides.
LEMMA StartedStep ==
    ASSUME Counted, BothStarted, UNCHANGED <<main, loginNum, m_reqApi>>
    PROVE  Counted' /\ Started' /\ BothStarted'
BY DEF Counted, Started, BothStarted, Side

\* What a call back needs: an API of the one side and of the other.
LEMMA ThreadStarted ==
    ASSUME Typed, NEW a \in Api, calls[a] # <<>> \/ thread[a] # "idle"
    PROVE  BothStarted /\ Latest("trade") \in Api /\ Latest("quote") \in Api
<1>1. BothStarted BY DEF Typed, Started
<1>2. "trade" \in Side /\ "quote" \in Side BY DEF Side
<1>3. m_reqApi["trade"] > 0 /\ m_reqApi["quote"] > 0 BY <1>1, <1>2 DEF BothStarted
<1>4. QED BY <1>1, <1>2, <1>3, LatestIsApi DEF Typed

LEMMA TypedThread == ASSUME Typed, NEW a \in Api, ApiThread(a) PROVE Typed'
<1>1. FlagsOK /\ StateOK /\ Counted BY DEF Typed
<1>2. a[1] \in Side BY DEF Api
<1> USE Limits DEF flags, maps, mutexes, external
<1>3. CASE OnFrontConnected(a)
  <2>1. /\ calls[a] # <<>> /\ Take(a) /\ ReqUserLogin(a[1])
        /\ UNCHANGED <<main, loginNum, m_reqApi, m_bLoginSuccessed, flags, maps, mutexes, thread,
                       session, answers, denied, subscribed, faults>>
    BY <1>3, Zenon DEF OnFrontConnected, Called
  <2>2. calls' \in [Api -> Seq(Calls)] BY <1>1, <2>1, TakeTyped
  <2>3. BothStarted /\ Latest(a[1]) \in Api BY <1>1, <1>2, <2>1, ThreadStarted, LatestIsApi DEF BothStarted
  <2>4. asked' \subseteq Api BY <1>1, <2>1, <2>3 DEF StateOK, ReqUserLogin
  <2>5. FlagsOK' BY <1>1, <2>1, Zenon DEF FlagsOK
  <2>6. StateOK' BY <1>1, <2>1, <2>2, <2>4 DEF StateOK
  <2>7. QED BY <1>1, <2>1, <2>3, <2>5, <2>6, StartedStep DEF Typed
<1>4. CASE OnFrontDisconnected(a)
  <2>1. /\ calls[a] # <<>> /\ Take(a)
        /\ \/ m_bLoginSuccessed' = m_bLoginSuccessed
           \/ m_bLoginSuccessed' = [m_bLoginSuccessed EXCEPT !["quote"] = FALSE]
        /\ UNCHANGED <<main, loginNum, m_reqApi, flags, maps, mutexes, thread,
                       session, asked, answers, denied, subscribed, faults>>
    BY <1>4, Zenon DEF OnFrontDisconnected, Called
  <2>2. calls' \in [Api -> Seq(Calls)] BY <1>1, <2>1, TakeTyped
  <2>3. BothStarted BY <2>1, ThreadStarted
  <2>4. m_bLoginSuccessed' \in [Side -> BOOLEAN] BY <1>1, <2>1, Zenon DEF FlagsOK
  <2>5. FlagsOK' BY <1>1, <2>1, <2>4, Zenon DEF FlagsOK
  <2>6. StateOK' BY <1>1, <2>1, <2>2 DEF StateOK
  <2>7. QED BY <1>1, <2>1, <2>3, <2>5, <2>6, StartedStep DEF Typed
<1>5. CASE OnLoginRefused(a)
  <2>1. /\ calls[a] # <<>> /\ Take(a)
        /\ UNCHANGED <<main, loginNum, m_reqApi, m_bLoginSuccessed, flags, maps, mutexes, thread,
                       session, asked, answers, denied, subscribed, faults>>
    BY <1>5, Zenon DEF OnLoginRefused, Called
  <2>2. calls' \in [Api -> Seq(Calls)] BY <1>1, <2>1, TakeTyped
  <2>3. BothStarted BY <2>1, ThreadStarted
  <2>5. FlagsOK' BY <1>1, <2>1, Zenon DEF FlagsOK
  <2>6. StateOK' BY <1>1, <2>1, <2>2 DEF StateOK
  <2>7. QED BY <1>1, <2>1, <2>3, <2>5, <2>6, StartedStep DEF Typed
<1>6. CASE OnTradeLogin(a)
  <2>1. /\ calls[a] # <<>> /\ Take(a) /\ ReqQryInstrument /\ Goto(a, "setFlag")
        /\ UNCHANGED <<main, loginNum, m_reqApi, m_bLoginSuccessed, flags, maps, mutexes,
                       session, asked, denied, subscribed, faults>>
    BY <1>6, Zenon DEF OnTradeLogin, Called
  <2>2. calls' \in [Api -> Seq(Calls)] BY <1>1, <2>1, TakeTyped
  <2>3. BothStarted BY <2>1, ThreadStarted
  <2>4. answers' \in [Api -> Seq(ToSet(Listed))] BY <1>1, <2>1, CtpSessionAssumption DEF StateOK, ReqQryInstrument
  <2>a. thread' \in [Api -> {"idle", "exchange", "exchangeOnly", "finish", "subscribe", "setFlag"}]
    BY <1>1, <2>1 DEF StateOK, Goto
  <2>5. FlagsOK' BY <1>1, <2>1, Zenon DEF FlagsOK
  <2>6. StateOK' BY <1>1, <2>1, <2>2, <2>4, <2>a DEF StateOK
  <2>7. QED BY <1>1, <2>1, <2>3, <2>5, <2>6, StartedStep DEF Typed
<1>7. CASE OnQuoteLogin(a)
  <2>1. /\ calls[a] # <<>> /\ Take(a) /\ m_bQryIns' = FALSE
        /\ Goto(a, "exchangeOnly") \/ Goto(a, "exchange")
        /\ UNCHANGED <<main, loginNum, m_reqApi, m_bLoginSuccessed, m_bQryInsOK, maps, mutexes,
                       session, asked, answers, denied, subscribed, faults>>
    BY <1>7, Zenon DEF OnQuoteLogin, Called
  <2>2. calls' \in [Api -> Seq(Calls)] BY <1>1, <2>1, TakeTyped
  <2>3. BothStarted BY <2>1, ThreadStarted
  <2>4. thread' \in [Api -> {"idle", "exchange", "exchangeOnly", "finish", "subscribe", "setFlag"}]
    BY <1>1, <2>1 DEF StateOK, Goto
  <2>5. FlagsOK' BY <1>1, <2>1, Zenon DEF FlagsOK
  <2>6. StateOK' BY <1>1, <2>1, <2>2, <2>4 DEF StateOK
  <2>7. QED BY <1>1, <2>1, <2>3, <2>5, <2>6, StartedStep DEF Typed
<1>8. CASE ExchangeOK(a)
  <2>1. /\ thread[a] \in {"exchange", "exchangeOnly"} /\ m_bQryInsOK' = TRUE
        /\ Goto(a, "finish") \/ Goto(a, "setFlag")
        /\ UNCHANGED <<main, loginNum, m_reqApi, m_bLoginSuccessed, m_bQryIns, maps, mutexes, external>>
    BY <1>8, Zenon DEF ExchangeOK
  <2>3. BothStarted BY <2>1, ThreadStarted
  <2>4. thread' \in [Api -> {"idle", "exchange", "exchangeOnly", "finish", "subscribe", "setFlag"}]
    BY <1>1, <2>1 DEF StateOK, Goto
  <2>5. FlagsOK' BY <1>1, <2>1, Zenon DEF FlagsOK
  <2>6. StateOK' BY <1>1, <2>1, <2>4 DEF StateOK
  <2>7. QED BY <1>1, <2>1, <2>3, <2>5, <2>6, StartedStep DEF Typed
<1>9. CASE SetLoginSuccessed(a)
  <2>1. /\ thread[a] = "setFlag" /\ Goto(a, "idle")
        /\ m_bLoginSuccessed' = [m_bLoginSuccessed EXCEPT ![a[1]] = TRUE]
        /\ UNCHANGED <<main, loginNum, m_reqApi, flags, maps, mutexes, external>>
    BY <1>9, Zenon DEF SetLoginSuccessed
  <2>3. BothStarted BY <2>1, ThreadStarted
  <2>4. thread' \in [Api -> {"idle", "exchange", "exchangeOnly", "finish", "subscribe", "setFlag"}]
    BY <1>1, <2>1 DEF StateOK, Goto
  <2>a. m_bLoginSuccessed' \in [Side -> BOOLEAN] BY <1>1, <1>2, <2>1, Zenon DEF FlagsOK
  <2>5. FlagsOK' BY <1>1, <2>1, <2>a, Zenon DEF FlagsOK
  <2>6. StateOK' BY <1>1, <2>1, <2>4 DEF StateOK
  <2>7. QED BY <1>1, <2>1, <2>3, <2>5, <2>6, StartedStep DEF Typed
<1>10. CASE OnRspQryInstrument(a)
  <2>1. /\ calls[a] # <<>> /\ Take(a) /\ mapInstrument' = Inserted(Head(calls[a])[2])
        /\ \/ m_bQryInsOK' = TRUE /\ m_bQryIns' = FALSE /\ m_getInstru' = a /\ Goto(a, "finish")
           \/ UNCHANGED <<flags, m_getInstru, thread>>
        /\ UNCHANGED <<main, loginNum, m_reqApi, m_bLoginSuccessed, mapSubscribed, m_mutex,
                       session, asked, answers, denied, subscribed, faults>>
    BY <1>10, Zenon DEF OnRspQryInstrument, Called
  <2>2. calls' \in [Api -> Seq(Calls)] BY <1>1, <2>1, TakeTyped
  <2>3. BothStarted BY <2>1, ThreadStarted
  <2>4. mapInstrument' \subseteq Valid BY <1>1, <2>1 DEF StateOK, Inserted
  <2>a. thread' \in [Api -> {"idle", "exchange", "exchangeOnly", "finish", "subscribe", "setFlag"}]
    BY <1>1, <2>1 DEF StateOK, Goto
  <2>b. m_getInstru' \in Api \cup {None} BY <1>1, <2>1 DEF StateOK
  <2>5. FlagsOK' BY <1>1, <2>1, Zenon DEF FlagsOK
  <2>c. UNCHANGED <<main, loginNum, m_reqApi, mapSubscribed, m_mutex, session, asked, answers, denied,
                    subscribed, faults>>
    BY <2>1, Zenon
  <2>6. StateOK' BY <1>1, <2>c, <2>2, <2>4, <2>a, <2>b DEF StateOK
  <2>7. QED BY <1>1, <2>1, <2>3, <2>5, <2>6, StartedStep DEF Typed
<1>11. CASE OnQueryRefused(a)
  <2>1. /\ calls[a] # <<>> /\ Take(a) /\ m_bQryIns' = FALSE
        /\ UNCHANGED <<main, loginNum, m_reqApi, m_bLoginSuccessed, m_bQryInsOK, maps, mutexes, thread,
                       session, asked, answers, denied, subscribed, faults>>
    BY <1>11, Zenon DEF OnQueryRefused, Called
  <2>2. calls' \in [Api -> Seq(Calls)] BY <1>1, <2>1, TakeTyped
  <2>3. BothStarted BY <2>1, ThreadStarted
  <2>5. FlagsOK' BY <1>1, <2>1, Zenon DEF FlagsOK
  <2>6. StateOK' BY <1>1, <2>1, <2>2 DEF StateOK
  <2>7. QED BY <1>1, <2>1, <2>3, <2>5, <2>6, StartedStep DEF Typed
<1>12. CASE FinishQryInstrument(a)
  <2>1. /\ thread[a] = "finish" /\ m_mutex' = a /\ mapSubscribed' = mapInstrument /\ Goto(a, "subscribe")
        /\ UNCHANGED <<main, loginNum, m_reqApi, m_bLoginSuccessed, flags, mapInstrument, m_getInstru, external>>
    BY <1>12, Zenon DEF FinishQryInstrument
  <2>3. BothStarted BY <2>1, ThreadStarted
  <2>4. thread' \in [Api -> {"idle", "exchange", "exchangeOnly", "finish", "subscribe", "setFlag"}]
    BY <1>1, <2>1 DEF StateOK, Goto
  <2>5. FlagsOK' BY <1>1, <2>1, Zenon DEF FlagsOK
  <2>6. StateOK' BY <1>1, <2>1, <2>4 DEF StateOK
  <2>7. QED BY <1>1, <2>1, <2>3, <2>5, <2>6, StartedStep DEF Typed
<1>13. CASE Subscribe(a)
  <2>1. /\ thread[a] = "subscribe" /\ SubscribeMarketData
        /\ m_mutex' = None /\ m_getInstru' \in {None, m_getInstru}
        /\ Goto(a, "setFlag") \/ Goto(a, "idle")
        /\ UNCHANGED <<main, loginNum, m_reqApi, m_bLoginSuccessed, flags, maps,
                       session, asked, answers, denied, calls, faults>>
    BY <1>13 DEF Subscribe
  <2>3. BothStarted BY <2>1, ThreadStarted
  <2>4. thread' \in [Api -> {"idle", "exchange", "exchangeOnly", "finish", "subscribe", "setFlag"}]
    BY <1>1, <2>1 DEF StateOK, Goto
  <2>a. subscribed' \in [Api -> SUBSET Valid] BY <1>1, <2>1 DEF StateOK, SubscribeMarketData
  <2>b. m_getInstru' \in Api \cup {None} BY <1>1, <2>1 DEF StateOK
  <2>5. FlagsOK' BY <1>1, <2>1, Zenon DEF FlagsOK
  <2>6. StateOK' BY <1>1, <2>1, <2>4, <2>a, <2>b DEF StateOK
  <2>7. QED BY <1>1, <2>1, <2>3, <2>5, <2>6, StartedStep DEF Typed
<1>14. QED BY <1>3, <1>4, <1>5, <1>6, <1>7, <1>8, <1>9, <1>10, <1>11, <1>12, <1>13 DEF ApiThread

\* A step of the fronts: the connections, the requests under way, the answers to come and
\* the calls keep their types, the server is left alone.
LEMMA FrontStep ==
    ASSUME Typed, UNCHANGED server, BothStarted,
           session' \in [Api -> {"none", "down", "connected", "up"}],
           asked' \subseteq Api, denied' \subseteq Api, faults' \in 0 .. MaxFaults,
           calls' \in [Api -> Seq(Calls)],
           answers' \in [Api -> Seq(ToSet(Listed))], subscribed' \in [Api -> SUBSET Valid]
    PROVE  Typed'
<1>1. FlagsOK /\ StateOK /\ Counted BY DEF Typed
<1>2. UNCHANGED <<main, loginNum, m_reqApi, m_bLoginSuccessed, m_bQryIns, m_bQryInsOK,
                  mapInstrument, mapSubscribed, m_getInstru, m_mutex, thread>>
  BY Zenon DEF server, flags, maps, mutexes
<1>3. FlagsOK' BY <1>1, <1>2, Zenon DEF FlagsOK
<1>4. StateOK' BY <1>1, <1>2 DEF StateOK
<1>5. QED BY <1>1, <1>2, <1>3, <1>4, StartedStep DEF Typed

\* What is called back with an answer to a query is a call.
LEMMA AnswerIsCall ==
    ASSUME answers \in [Api -> Seq(ToSet(Listed))], NEW a \in Api, answers[a] # <<>>
    PROVE  <<"OnRspQryInstrument", Head(answers[a]), Len(answers[a]) = 1>> \in Calls
<1>1. Head(answers[a]) \in ToSet(Listed)
  <2>1. answers[a] \in Seq(ToSet(Listed)) OBVIOUS
  <2>2. QED BY <2>1, HeadTailProperties
<1>2. ASSUME NEW i \in ToSet(Listed), NEW last \in BOOLEAN
      PROVE  <<"OnRspQryInstrument", i, last>> \in Calls
  BY <1>2 DEF Calls
<1>3. (Len(answers[a]) = 1) \in BOOLEAN BY Zenon
<1>4. QED BY <1>1, <1>2, <1>3, Zenon

LEMMA FaultTyped == StateOK /\ (Fault \/ UNCHANGED faults) => faults' \in 0 .. MaxFaults
BY Limits DEF StateOK, Fault

LEMMA TypedFront ==
    ASSUME Typed, NEW a \in Api,
           Answer(a) \/ RefuseLogin(a) \/ RefuseQuery(a) \/ LoseConnection(a)
    PROVE  Typed'
<1>1. FlagsOK /\ StateOK /\ Counted /\ Started BY DEF Typed
<1>2. /\ session \in [Api -> {"none", "down", "connected", "up"}]
      /\ asked \subseteq Api /\ denied \subseteq Api
      /\ answers \in [Api -> Seq(ToSet(Listed))] /\ subscribed \in [Api -> SUBSET Valid]
  BY <1>1 DEF StateOK
<1>3. /\ session[a] \in {"connected", "up"} => BothStarted
      /\ a \in asked => BothStarted
      /\ answers[a] # <<>> => BothStarted
  BY <1>1 DEF Started
<1>4. \A c \in Calls : Call(a, c) => calls' \in [Api -> Seq(Calls)] BY <1>1, CallTyped
<1>5. CASE Connect(a)
  <2>1. /\ m_reqApi["quote"] > 0 /\ session' = [session EXCEPT ![a] = "connected"]
        /\ Call(a, <<"OnFrontConnected">>)
        /\ UNCHANGED <<server, asked, answers, denied, subscribed, faults>>
    BY <1>5, Zenon DEF Connect
  <2>2. BothStarted BY <1>1, <2>1 DEF Started, BothStarted, Side
  <2>3. calls' \in [Api -> Seq(Calls)] BY <1>4, <2>1 DEF Calls
  <2>4. faults' \in 0 .. MaxFaults BY <1>1, <2>1, FaultTyped
  <2>5. QED BY <1>2, <2>1, <2>2, <2>3, <2>4, FrontStep
<1>6. CASE AnswerLogin(a)
  <2>1. /\ a \in asked /\ asked' = asked \ {a} /\ denied' = denied \ {a}
        /\ session' = [session EXCEPT ![a] = "up"] /\ Call(a, <<"OnRspUserLogin">>)
        /\ UNCHANGED <<server, answers, subscribed, faults>>
    BY <1>6, Zenon DEF AnswerLogin
  <2>3. calls' \in [Api -> Seq(Calls)] BY <1>4, <2>1 DEF Calls
  <2>4. faults' \in 0 .. MaxFaults BY <1>1, <2>1, FaultTyped
  <2>5. QED BY <1>2, <1>3, <2>1, <2>3, <2>4, FrontStep
<1>7. CASE AnswerQuery(a)
  <2>1. /\ answers[a] # <<>> /\ answers' = [answers EXCEPT ![a] = Tail(@)]
        /\ Call(a, <<"OnRspQryInstrument", Head(answers[a]), Len(answers[a]) = 1>>)
        /\ UNCHANGED <<server, session, asked, denied, subscribed, faults>>
    BY <1>7, Zenon DEF AnswerQuery
  <2>2. answers[a] \in Seq(ToSet(Listed)) BY <1>2
  <2>3. Head(answers[a]) \in ToSet(Listed) /\ Tail(answers[a]) \in Seq(ToSet(Listed))
    BY <2>1, <2>2, HeadTailProperties
  <2>5. <<"OnRspQryInstrument", Head(answers[a]), Len(answers[a]) = 1>> \in Calls
    BY <1>2, <2>1, AnswerIsCall
  <2>6. calls' \in [Api -> Seq(Calls)] BY <1>4, <2>1, <2>5, Zenon
  <2>7. answers' \in [Api -> Seq(ToSet(Listed))] BY <1>2, <2>1, <2>3
  <2>8. faults' \in 0 .. MaxFaults BY <1>1, <2>1, FaultTyped
  <2>9. BothStarted BY <1>3, <2>1
  <2>10. QED BY <1>2, <2>1, <2>6, <2>7, <2>8, <2>9, FrontStep
<1>8. CASE RefuseLogin(a)
  <2>1. /\ Fault /\ a \in asked /\ asked' = asked \ {a} /\ denied' = denied \cup {a}
        /\ Call(a, <<"loginRefused">>)
        /\ UNCHANGED <<server, session, answers, subscribed>>
    BY <1>8, Zenon DEF RefuseLogin
  <2>3. calls' \in [Api -> Seq(Calls)] BY <1>4, <2>1 DEF Calls
  <2>4. faults' \in 0 .. MaxFaults BY <1>1, <2>1, FaultTyped
  <2>5. QED BY <1>2, <1>3, <2>1, <2>3, <2>4, FrontStep
<1>9. CASE RefuseQuery(a)
  <2>1. /\ Fault /\ answers[a] # <<>> /\ answers' = [answers EXCEPT ![a] = <<>>]
        /\ denied' = denied \cup {a} /\ Call(a, <<"queryRefused">>)
        /\ UNCHANGED <<server, session, asked, subscribed>>
    BY <1>9, Zenon DEF RefuseQuery
  <2>2. answers' \in [Api -> Seq(ToSet(Listed))] BY <1>2, <2>1
  <2>3. calls' \in [Api -> Seq(Calls)] BY <1>4, <2>1 DEF Calls
  <2>4. faults' \in 0 .. MaxFaults BY <1>1, <2>1, FaultTyped
  <2>5. QED BY <1>2, <1>3, <2>1, <2>2, <2>3, <2>4, FrontStep
<1>10. CASE LoseConnection(a)
  <2>1. /\ Fault /\ session[a] \in {"connected", "up"} /\ asked' = asked \ {a}
        /\ session' = [session EXCEPT ![a] = "down"]
        /\ answers' = [answers EXCEPT ![a] = <<>>] /\ subscribed' = [subscribed EXCEPT ![a] = {}]
        /\ Call(a, <<"OnFrontDisconnected">>)
        /\ UNCHANGED <<server, denied>>
    BY <1>10, Zenon DEF LoseConnection
  <2>2. answers' \in [Api -> Seq(ToSet(Listed))] BY <1>2, <2>1
  <2>a. subscribed' \in [Api -> SUBSET Valid] BY <1>2, <2>1
  <2>3. calls' \in [Api -> Seq(Calls)] BY <1>4, <2>1 DEF Calls
  <2>4. faults' \in 0 .. MaxFaults BY <1>1, <2>1, FaultTyped
  <2>5. QED BY <1>2, <1>3, <2>1, <2>2, <2>a, <2>3, <2>4, FrontStep
<1>11. QED BY <1>5, <1>6, <1>7, <1>8, <1>9, <1>10 DEF Answer

LEMMA TypedStutter == Typed /\ UNCHANGED vars => Typed'
<1> SUFFICES ASSUME Typed, UNCHANGED vars PROVE Typed' OBVIOUS
<1>1. FlagsOK /\ StateOK /\ Counted /\ Started BY DEF Typed
<1>2. UNCHANGED <<main, loginNum, m_reqApi, m_bLoginSuccessed, m_bQryIns, m_bQryInsOK,
                  mapInstrument, mapSubscribed, m_getInstru, m_mutex, thread,
                  session, asked, answers, denied, subscribed, calls, faults>>
  BY Zenon DEF vars, flags, maps, mutexes, external
<1>3. FlagsOK' BY <1>1, <1>2, Zenon DEF FlagsOK
<1>4. StateOK' BY <1>1, <1>2 DEF StateOK
<1>5. LoggedIn' = LoggedIn BY <1>2, LoggedInSame
<1>6. Counted' /\ Started' BY <1>1, <1>2, <1>5 DEF Counted, Started, BothStarted
<1>7. QED BY <1>3, <1>4, <1>6 DEF Typed

LEMMA TypedNext == Typed /\ [Next]_vars => Typed'
BY TypedInitCTP, TypedThread, TypedFront, TypedStutter DEF Next

\* The login loop never asks for more APIs than there are numbers for, no request is made
\* with an API that is not there, and the two maps hold valid instruments only.
THEOREM TypeCorrect == Spec => []TypeOK
<1>1. Spec => []Typed BY TypedInit, TypedNext, PTL DEF Spec
<1>2. Typed => TypeOK BY Parts DEF Typed
<1>3. QED BY <1>1, <1>2, PTL

-----------------------------------------------------------------------------
(* The flag of the quote side.                                             *)

Login == <<"OnRspUserLogin">>
Lost == <<"OnFrontDisconnected">>

\* The connection is logged in, or its thread has still to be told of its loss.
Standing(a) == session[a] = "up" \/ Lost \in ToSet(calls[a])

\* Every answered login is followed by a loss.
LossFollows(s) == \A k \in DOMAIN s : s[k] = Login => \E j \in DOMAIN s : j > k /\ s[j] = Lost

\* An API that is not made yet has no connection, nor has it a login to be answered.
NotYet ==
    /\ \A a \in Api : a[2] > m_reqApi[a[1]] => session[a] = "none"
    /\ \A a \in asked : session[a] # "none"

\* A quote thread that handles its login still stands.
Busy == \A a \in Api : a[1] = "quote" /\ thread[a] # "idle" => Standing(a)

\* A login whose connection is not logged in any more was lost after it.
Ordered == \A a \in Api : session[a] = "up" \/ LossFollows(calls[a])

\* Nothing is queried with a quote API.
QuoteAsks ==
    \A a \in Api : a[1] = "quote" =>
        answers[a] = <<>> /\ \A k \in DOMAIN calls[a] : calls[a][k][1] # "OnRspQryInstrument"

\* FlagRight, with the set of the sides that are logged in.
Right == "quote" \in LoggedIn => \E a \in Api : a[1] = "quote" /\ Standing(a)

FlagInv == NotYet /\ Busy /\ Ordered /\ QuoteAsks /\ Right

\* The first of some calls and those that follow it.
LEMMA FirstCall ==
    ASSUME NEW s \in Seq(Calls), s # <<>>
    PROVE  /\ Tail(s) \in Seq(Calls) /\ Head(s) = s[1] /\ 1 \in DOMAIN s
           /\ \A k \in DOMAIN Tail(s) : k + 1 \in DOMAIN s /\ Tail(s)[k] = s[k + 1]
           /\ \A k \in DOMAIN s : k # 1 => k - 1 \in DOMAIN Tail(s) /\ Tail(s)[k - 1] = s[k]
OBVIOUS

\* A call that is put last.
LEMMA LastCall ==
    ASSUME NEW s \in Seq(Calls), NEW c \in Calls
    PROVE  /\ \A k \in DOMAIN s : k \in DOMAIN Append(s, c) /\ Append(s, c)[k] = s[k]
           /\ \A k \in DOMAIN Append(s, c) : k \in DOMAIN s \/ k = Len(s) + 1
           /\ Append(s, c)[Len(s) + 1] = c /\ Len(s) + 1 \in DOMAIN Append(s, c)
           /\ \A k \in DOMAIN s : k < Len(s) + 1
OBVIOUS

\* The next call taken: a loss that is still to come stays so unless it is the next, and
\* a login that is next has a loss behind it.
LEMMA TakeCall ==
    ASSUME NEW s \in Seq(Calls), s # <<>>
    PROVE  /\ Lost \in ToSet(s) /\ Head(s) # Lost => Lost \in ToSet(Tail(s))
           /\ LossFollows(s) => LossFollows(Tail(s))
           /\ LossFollows(s) /\ Head(s) = Login => Lost \in ToSet(Tail(s))
<1>1. Login # Lost BY DEF Login, Lost
<1>2. Tail(s) \in Seq(Calls) BY FirstCall
<1>3. \A k \in DOMAIN s : k \in Nat OBVIOUS
<1>4. Lost \in ToSet(s) /\ Head(s) # Lost => Lost \in ToSet(Tail(s))
  <2> SUFFICES ASSUME Lost \in ToSet(s), Head(s) # Lost PROVE Lost \in ToSet(Tail(s)) OBVIOUS
  <2>1. PICK k \in DOMAIN s : s[k] = Lost BY DEF ToSet
  <2>2. k - 1 \in DOMAIN Tail(s) /\ Tail(s)[k - 1] = Lost BY <2>1, FirstCall
  <2>3. QED BY <2>2 DEF ToSet
<1>5. LossFollows(s) => LossFollows(Tail(s))
  <2> SUFFICES ASSUME LossFollows(s), NEW k \in DOMAIN Tail(s), Tail(s)[k] = Login
               PROVE  \E j \in DOMAIN Tail(s) : j > k /\ Tail(s)[j] = Lost
    BY DEF LossFollows
  <2>1. k \in Nat /\ k > 0 BY <1>2
  <2>2. PICK j \in DOMAIN s : j > k + 1 /\ s[j] = Lost BY FirstCall DEF LossFollows
  <2>3. j - 1 \in DOMAIN Tail(s) /\ Tail(s)[j - 1] = Lost BY <1>3, <2>1, <2>2, FirstCall
  <2>4. j - 1 > k BY <1>3, <2>1, <2>2
  <2>5. QED BY <2>3, <2>4
<1>6. LossFollows(s) /\ Head(s) = Login => Lost \in ToSet(Tail(s))
  <2> SUFFICES ASSUME LossFollows(s), Head(s) = Login PROVE Lost \in ToSet(Tail(s)) OBVIOUS
  <2>1. PICK j \in DOMAIN s : j > 1 /\ s[j] = Lost BY FirstCall DEF LossFollows
  <2>2. j - 1 \in DOMAIN Tail(s) /\ Tail(s)[j - 1] = Lost BY <1>3, <2>1, FirstCall
  <2>3. QED BY <2>2 DEF ToSet
<1>7. QED BY <1>4, <1>5, <1>6

\* A call that is put last takes no loss away, and a loss that is put last follows all.
LEMMA PutCall ==
    ASSUME NEW s \in Seq(Calls), NEW c \in Calls
    PROVE  /\ Lost \in ToSet(s) => Lost \in ToSet(Append(s, c))
           /\ c = Lost => Lost \in ToSet(Append(s, c)) /\ LossFollows(Append(s, c))
           /\ c # Login /\ LossFollows(s) => LossFollows(Append(s, c))
<1>1. Login # Lost BY DEF Login, Lost
<1>2. Lost \in ToSet(s) => Lost \in ToSet(Append(s, c)) BY LastCall DEF ToSet
<1>3. c = Lost => Lost \in ToSet(Append(s, c)) BY LastCall DEF ToSet
<1>4. c = Lost => LossFollows(Append(s, c)) BY <1>1, LastCall DEF LossFollows
<1>5. c # Login /\ LossFollows(s) => LossFollows(Append(s, c)) BY LastCall DEF LossFollows
<1>6. QED BY <1>2, <1>3, <1>4, <1>5

LEMMA FlagInit == Init => FlagInv
<1> SUFFICES ASSUME Init PROVE FlagInv OBVIOUS
<1>1. \A s \in Side : ~m_bLoginSuccessed[s] BY Zenon DEF Init
<1>2. LoggedIn = {} BY <1>1, Zenon DEF LoggedIn
<1>3. NotYet /\ Busy /\ QuoteAsks BY DEF Init, NotYet, Busy, QuoteAsks
<1>4. Ordered BY DEF Init, Ordered, LossFollows
<1>5. QED BY <1>2, <1>3, <1>4 DEF FlagInv, Right

\* InitCTP() makes APIs that nothing is connected with, and leaves all others alone.
LEMMA FlagInitCTP == Typed /\ FlagInv /\ InitCTP => FlagInv'
<1> SUFFICES ASSUME Typed, FlagInv, InitCTP PROVE FlagInv' OBVIOUS
<1>1. StateOK /\ NotYet /\ Busy /\ Ordered /\ QuoteAsks /\ Right BY DEF Typed, FlagInv
<1>2. UNCHANGED <<thread, calls, asked, answers, m_bLoginSuccessed>>
  BY Zenon DEF InitCTP, StartTrade, InitTrade, CreateTrade, CreateApi, StartQuote, CreateQuote, CheckLogin, external
<1>3. LoggedIn' = LoggedIn BY <1>2, LoggedInSame
<1>4. \/ UNCHANGED <<session, m_reqApi>>
      \/ \E s \in Side : CreateApi(s)
  <2>1. "trade" \in Side /\ "quote" \in Side BY DEF Side
  <2>2. QED BY <2>1, Zenon DEF InitCTP, StartTrade, InitTrade, CreateTrade, StartQuote, CreateQuote, CheckLogin, external
<1>5. CASE UNCHANGED <<session, m_reqApi>>
  BY <1>1, <1>2, <1>3, <1>5 DEF FlagInv, NotYet, Busy, Ordered, QuoteAsks, Right, Standing
<1>6. CASE \E s \in Side : CreateApi(s)
  <2>1. PICK s \in Side : CreateApi(s) BY <1>6
  <2>2. m_reqApi \in [Side -> Nat] /\ session \in [Api -> {"none", "down", "connected", "up"}]
    BY <1>1, Limits DEF StateOK
  <2>3. m_reqApi' = [m_reqApi EXCEPT ![s] = @ + 1]
        /\ session' = [session EXCEPT ![<<s, m_reqApi[s] + 1>>] = "down"]
    BY <2>1 DEF CreateApi
  <2>4. \A a \in Api : /\ a[1] \in Side /\ a[2] \in Nat /\ a = <<a[1], a[2]>>
    BY Limits DEF Api
  <2>5. \A a \in Api : session'[a] = session[a] \/ (a[1] = s /\ a[2] = m_reqApi[s] + 1 /\ session'[a] = "down")
    BY <2>2, <2>3, <2>4
  <2>6. \A a \in Api : a[2] > m_reqApi[a[1]] => session[a] = "none" BY <1>1 DEF NotYet
  <2>7. \A a \in Api : a[1] = s /\ a[2] = m_reqApi[s] + 1 => session[a] = "none"
    BY <2>2, <2>4, <2>6
  <2>8. \A a \in Api : m_reqApi'[a[1]] >= m_reqApi[a[1]] /\ (a[1] = s => m_reqApi'[a[1]] = m_reqApi[s] + 1)
    BY <2>2, <2>3, <2>4
  <2>9. \A a \in Api : a[2] > m_reqApi'[a[1]] => session'[a] = "none"
    BY <2>2, <2>3, <2>4, <2>5, <2>6, <2>8
  <2>10. \A a \in asked' : session'[a] # "none"
    BY <1>1, <1>2, <2>5 DEF NotYet, StateOK
  <2>11. \A a \in Api : session[a] = "up" => session'[a] = "up" BY <2>5, <2>7
  <2>12. \A a \in Api : Standing(a) => Standing(a)' BY <1>2, <2>11 DEF Standing
  <2>13. NotYet' BY <2>9, <2>10 DEF NotYet
  <2>14. Busy' BY <1>1, <1>2, <2>12 DEF Busy
  <2>15. Ordered' BY <1>1, <1>2, <2>11 DEF Ordered
  <2>16. QuoteAsks' BY <1>1, <1>2 DEF QuoteAsks
  <2>17. Right' BY <1>1, <1>3, <2>12 DEF Right
  <2>18. QED BY <2>13, <2>14, <2>15, <2>16, <2>17 DEF FlagInv
<1>7. QED BY <1>4, <1>5, <1>6

\* A call back that is not of a loss: what stands stays, what follows stays so.
LEMMA TakeKeeps ==
    ASSUME Typed, FlagInv, NEW a \in Api, calls[a] # <<>>, Take(a), UNCHANGED session
    PROVE  /\ Ordered'
           /\ \A b \in Api : b # a \/ Head(calls[a]) # Lost => (Standing(b) => Standing(b)')
           /\ Head(calls[a]) = Login => Standing(a)'
           /\ \A b \in Api : b[1] = "quote" =>
                \A k \in DOMAIN calls'[b] : calls'[b][k][1] # "OnRspQryInstrument"
<1>1. StateOK /\ NotYet /\ Busy /\ Ordered /\ QuoteAsks /\ Right BY DEF Typed, FlagInv
<1>2. calls \in [Api -> Seq(Calls)] BY <1>1 DEF StateOK
<1>3. /\ calls'[a] = Tail(calls[a])
      /\ \A b \in Api : b # a => calls'[b] = calls[b]
  BY <1>2 DEF Take
<1>4. calls[a] \in Seq(Calls) BY <1>2
<1>5. Ordered' BY <1>1, <1>3, <1>4, TakeCall DEF Ordered
<1>6. \A b \in Api : b # a \/ Head(calls[a]) # Lost => (Standing(b) => Standing(b)')
  BY <1>3, <1>4, TakeCall DEF Standing
<1>7. Head(calls[a]) = Login => Standing(a)' BY <1>1, <1>3, <1>4, TakeCall DEF Standing, Ordered
<1>8. \A b \in Api : b[1] = "quote" =>
        \A k \in DOMAIN calls'[b] : calls'[b][k][1] # "OnRspQryInstrument"
  <2> SUFFICES ASSUME NEW b \in Api, b[1] = "quote", NEW k \in DOMAIN calls'[b]
               PROVE  calls'[b][k][1] # "OnRspQryInstrument"
    OBVIOUS
  <2>1. \A j \in DOMAIN calls[b] : calls[b][j][1] # "OnRspQryInstrument" BY <1>1 DEF QuoteAsks
  <2>2. CASE b # a BY <1>3, <2>1, <2>2
  <2>3. CASE b = a
    <3>1. k + 1 \in DOMAIN calls[a] /\ calls'[b][k] = calls[a][k + 1] BY <1>3, <1>4, <2>3, FirstCall
    <3>2. QED BY <2>1, <2>3, <3>1
  <2>4. QED BY <2>2, <2>3
<1>9. QED BY <1>5, <1>6, <1>7, <1>8

\* A call with a name other than that of a loss is not one.
LEMMA NamedCall ==
    ASSUME StateOK, NEW a \in Api, NEW name, Called(a, name)
    PROVE  /\ calls[a] # <<>> /\ thread[a] = "idle"
           /\ Head(calls[a]) \in Calls /\ Head(calls[a])[1] = name
           /\ name # "OnFrontDisconnected" => Head(calls[a]) # Lost
           /\ name = "OnRspUserLogin" => Head(calls[a]) = Login
<1>1. calls[a] # <<>> /\ thread[a] = "idle" /\ Head(calls[a])[1] = name BY DEF Called
<1>2. calls[a] \in Seq(Calls) BY DEF StateOK
<1>3. Head(calls[a]) \in Calls BY <1>1, <1>2, HeadTailProperties
<1>4. name # "OnFrontDisconnected" => Head(calls[a]) # Lost BY <1>1 DEF Lost
<1>5. name = "OnRspUserLogin" => Head(calls[a]) = Login BY <1>1, <1>3 DEF Calls, Login
<1>6. QED BY <1>1, <1>3, <1>4, <1>5

\* A step of a thread that takes a call of anything but a loss, and that only begins to
\* handle a login when it takes one.
LEMMA TakeStep ==
    ASSUME Typed, FlagInv, NEW a \in Api, calls[a] # <<>>, Head(calls[a]) # Lost, Take(a),
           UNCHANGED <<m_reqApi, session, m_bLoginSuccessed>>,
           \A b \in asked' : session[b] # "none",
           \A b \in Api : b[1] = "quote" => answers'[b] = answers[b],
           \A b \in Api : b[1] = "quote" =>
                thread'[b] = thread[b] \/ (b = a /\ Head(calls[a]) = Login)
    PROVE  FlagInv'
<1>1. StateOK /\ NotYet /\ Busy /\ Ordered /\ QuoteAsks /\ Right BY DEF Typed, FlagInv
<1>2. /\ Ordered'
      /\ \A b \in Api : Standing(b) => Standing(b)'
      /\ Head(calls[a]) = Login => Standing(a)'
      /\ \A b \in Api : b[1] = "quote" =>
           \A k \in DOMAIN calls'[b] : calls'[b][k][1] # "OnRspQryInstrument"
  BY TakeKeeps
<1>3. NotYet' BY <1>1 DEF NotYet
<1>4. Busy' BY <1>1, <1>2 DEF Busy
<1>5. QuoteAsks' BY <1>1, <1>2 DEF QuoteAsks
<1>6. LoggedIn' = LoggedIn BY LoggedInSame
<1>7. Right' BY <1>1, <1>2, <1>6 DEF Right
<1>8. QED BY <1>2, <1>3, <1>4, <1>5, <1>7 DEF FlagInv

\* A step of a thread in the middle of a call.
LEMMA MiddleStep ==
    ASSUME Typed, FlagInv, NEW a \in Api, thread[a] # "idle",
           UNCHANGED <<m_reqApi, session, asked, answers, calls>>,
           \A b \in Api : b # a => thread'[b] = thread[b],
           LoggedIn' \subseteq LoggedIn \cup (IF thread[a] = "setFlag" THEN {a[1]} ELSE {})
    PROVE  FlagInv'
<1>1. StateOK /\ NotYet /\ Busy /\ Ordered /\ QuoteAsks /\ Right BY DEF Typed, FlagInv
<1>2. \A b \in Api : Standing(b)' <=> Standing(b) BY DEF Standing
<1>3. NotYet' /\ QuoteAsks' BY <1>1 DEF NotYet, QuoteAsks
<1>4. Busy' BY <1>1, <1>2 DEF Busy
<1>5. Ordered' BY <1>1 DEF Ordered
<1>6. Right' BY <1>1, <1>2 DEF Right, Busy
<1>7. QED BY <1>3, <1>4, <1>5, <1>6 DEF FlagInv

LEMMA FlagThread == ASSUME Typed, FlagInv, NEW a \in Api, ApiThread(a) PROVE FlagInv'
<1>1. /\ StateOK /\ FlagsOK /\ NotYet /\ Busy /\ Ordered /\ QuoteAsks /\ Right
      /\ thread \in [Api -> {"idle", "exchange", "exchangeOnly", "finish", "subscribe", "setFlag"}]
  BY DEF Typed, FlagInv, StateOK
<1>2. a[1] \in Side BY DEF Api
<1>3. \A place : Goto(a, place) => \A b \in Api : b # a => thread'[b] = thread[b] BY <1>1 DEF Goto
<1>4. \A b \in asked : session[b] # "none" BY <1>1 DEF NotYet
<1> USE DEF flags, maps, mutexes, external
<1>5. CASE OnFrontConnected(a)
  <2>1. /\ Called(a, "OnFrontConnected") /\ Take(a) /\ ReqUserLogin(a[1])
        /\ UNCHANGED <<m_reqApi, m_bLoginSuccessed, thread, session, answers>>
    BY <1>5, Zenon DEF OnFrontConnected
  <2>2. calls[a] # <<>> /\ Head(calls[a]) # Lost BY <1>1, <2>1, NamedCall
  <2>3. \A b \in asked' : session[b] # "none" BY <1>4, <2>1 DEF ReqUserLogin
  <2>4. QED BY <2>1, <2>2, <2>3, TakeStep
<1>6. CASE OnFrontDisconnected(a)
  <2>1. /\ Called(a, "OnFrontDisconnected") /\ Take(a)
        /\ UNCHANGED <<m_reqApi, thread, session, asked, answers>>
    BY <1>6, Zenon DEF OnFrontDisconnected
  <2>2. calls[a] # <<>> /\ thread[a] = "idle" BY <1>1, <2>1, NamedCall
  <2>3. /\ Ordered'
        /\ \A b \in Api : b # a => (Standing(b) => Standing(b)')
        /\ \A b \in Api : b[1] = "quote" =>
             \A k \in DOMAIN calls'[b] : calls'[b][k][1] # "OnRspQryInstrument"
    BY <2>1, <2>2, TakeKeeps
  <2>4. NotYet' BY <1>1, <2>1 DEF NotYet
  <2>5. QuoteAsks' BY <1>1, <2>1, <2>3 DEF QuoteAsks
  <2>6. Busy' BY <1>1, <2>1, <2>2, <2>3 DEF Busy
  <2>7. IF a[1] = "quote" THEN "quote" \notin LoggedIn' ELSE LoggedIn' = LoggedIn
    <3>1. CASE a[1] = "quote"
      <4>1. m_bLoginSuccessed' = [m_bLoginSuccessed EXCEPT !["quote"] = FALSE]
        BY <1>6, <3>1, Zenon DEF OnFrontDisconnected
      <4>2. "quote" \in Side BY DEF Side
      <4>3. LoggedIn' = LoggedIn \ {"quote"} BY <1>1, <4>1, <4>2, LoggedInReset
      <4>4. QED BY <3>1, <4>3
    <3>2. CASE a[1] # "quote"
      <4>1. m_bLoginSuccessed' = m_bLoginSuccessed BY <1>6, <3>2, Zenon DEF OnFrontDisconnected
      <4>2. QED BY <3>2, <4>1, LoggedInSame
    <3>3. QED BY <3>1, <3>2
  <2>8. Right' BY <1>1, <2>3, <2>7 DEF Right
  <2>9. QED BY <2>3, <2>4, <2>5, <2>6, <2>8 DEF FlagInv
<1>7. CASE OnLoginRefused(a)
  <2>1. /\ Called(a, "loginRefused") /\ Take(a)
        /\ UNCHANGED <<m_reqApi, m_bLoginSuccessed, thread, session, asked, answers>>
    BY <1>7, Zenon DEF OnLoginRefused
  <2>2. calls[a] # <<>> /\ Head(calls[a]) # Lost BY <1>1, <2>1, NamedCall
  <2>3. QED BY <1>4, <2>1, <2>2, TakeStep
<1>8. CASE OnTradeLogin(a)
  <2>1. /\ a[1] = "trade" /\ Called(a, "OnRspUserLogin") /\ Take(a)
        /\ ReqQryInstrument /\ Goto(a, "setFlag")
        /\ UNCHANGED <<m_reqApi, m_bLoginSuccessed, session, asked>>
    BY <1>8, Zenon DEF OnTradeLogin
  <2>2. calls[a] # <<>> /\ Head(calls[a]) # Lost BY <1>1, <2>1, NamedCall
  <2>3. \A b \in Api : b[1] = "quote" => answers'[b] = answers[b]
    BY <1>1, <2>1 DEF ReqQryInstrument, Latest, StateOK
  <2>4. \A b \in Api : b[1] = "quote" => thread'[b] = thread[b] BY <1>3, <2>1
  <2>5. QED BY <1>4, <2>1, <2>2, <2>3, <2>4, TakeStep
<1>9. CASE OnQuoteLogin(a)
  <2>1. /\ Called(a, "OnRspUserLogin") /\ Take(a)
        /\ \E place : Goto(a, place)
        /\ UNCHANGED <<m_reqApi, m_bLoginSuccessed, session, asked, answers>>
    BY <1>9, Zenon DEF OnQuoteLogin
  <2>2. calls[a] # <<>> /\ Head(calls[a]) # Lost /\ Head(calls[a]) = Login BY <1>1, <2>1, NamedCall
  <2>3. \A b \in Api : b # a => thread'[b] = thread[b] BY <1>3, <2>1
  <2>4. QED BY <1>4, <2>1, <2>2, <2>3, TakeStep
<1>10. CASE ExchangeOK(a)
  <2>1. /\ thread[a] \in {"exchange", "exchangeOnly"} /\ \E place : Goto(a, place)
        /\ UNCHANGED <<m_reqApi, m_bLoginSuccessed, session, asked, answers, calls>>
    BY <1>10, Zenon DEF ExchangeOK
  <2>2. \A b \in Api : b # a => thread'[b] = thread[b] BY <1>3, <2>1
  <2>3. QED BY <2>1, <2>2, LoggedInSame, MiddleStep
<1>11. CASE SetLoginSuccessed(a)
  <2>1. /\ thread[a] = "setFlag" /\ Goto(a, "idle")
        /\ m_bLoginSuccessed' = [m_bLoginSuccessed EXCEPT ![a[1]] = TRUE]
        /\ UNCHANGED <<m_reqApi, session, asked, answers, calls>>
    BY <1>11, Zenon DEF SetLoginSuccessed
  <2>2. \A b \in Api : b # a => thread'[b] = thread[b] BY <1>3, <2>1
  <2>3. FlagsOK' BY TypedThread DEF Typed
  <2>4. LoggedIn' = LoggedIn \cup {a[1]} BY <1>1, <1>2, <2>1, <2>3, LoggedInSet
  <2>5. QED BY <2>1, <2>2, <2>4, MiddleStep
<1>12. CASE OnRspQryInstrument(a)
  <2>1. /\ Called(a, "OnRspQryInstrument") /\ Take(a)
        /\ UNCHANGED thread \/ \E place : Goto(a, place)
        /\ UNCHANGED <<m_reqApi, m_bLoginSuccessed, session, asked, answers>>
    BY <1>12, Zenon DEF OnRspQryInstrument
  <2>2. calls[a] # <<>> /\ Head(calls[a]) # Lost /\ Head(calls[a])[1] = "OnRspQryInstrument"
    BY <1>1, <2>1, NamedCall
  <2>3. calls[a] \in Seq(Calls) BY <1>1 DEF StateOK
  <2>4. Head(calls[a]) = calls[a][1] /\ 1 \in DOMAIN calls[a] BY <2>2, <2>3, FirstCall
  <2>5. a[1] # "quote" BY <1>1, <2>2, <2>4 DEF QuoteAsks
  <2>6. \A b \in Api : b[1] = "quote" => thread'[b] = thread[b] BY <1>3, <2>1, <2>5
  <2>7. QED BY <1>4, <2>1, <2>2, <2>6, TakeStep
<1>13. CASE OnQueryRefused(a)
  <2>1. /\ Called(a, "queryRefused") /\ Take(a)
        /\ UNCHANGED <<m_reqApi, m_bLoginSuccessed, thread, session, asked, answers>>
    BY <1>13, Zenon DEF OnQueryRefused
  <2>2. calls[a] # <<>> /\ Head(calls[a]) # Lost BY <1>1, <2>1, NamedCall
  <2>3. QED BY <1>4, <2>1, <2>2, TakeStep
<1>14. CASE FinishQryInstrument(a)
  <2>1. /\ thread[a] = "finish" /\ Goto(a, "subscribe")
        /\ UNCHANGED <<m_reqApi, m_bLoginSuccessed, session, asked, answers, calls>>
    BY <1>14, Zenon DEF FinishQryInstrument
  <2>2. \A b \in Api : b # a => thread'[b] = thread[b] BY <1>3, <2>1
  <2>3. QED BY <2>1, <2>2, LoggedInSame, MiddleStep
<1>15. CASE Subscribe(a)
  <2>1. /\ thread[a] = "subscribe" /\ \E place : Goto(a, place)
        /\ UNCHANGED <<m_reqApi, m_bLoginSuccessed, session, asked, answers, calls>>
    BY <1>15, Zenon DEF Subscribe
  <2>2. \A b \in Api : b # a => thread'[b] = thread[b] BY <1>3, <2>1
  <2>3. QED BY <2>1, <2>2, LoggedInSame, MiddleStep
<1>16. QED BY <1>5, <1>6, <1>7, <1>8, <1>9, <1>10, <1>11, <1>12, <1>13, <1>14, <1>15 DEF ApiThread

\* A call from the fronts: a connection that was logged in and is not any more is the
\* one whose loss is told, and a login is told when the connection is logged in.
LEMMA FrontFlag ==
    ASSUME Typed, FlagInv, NEW a \in Api, NEW c \in Calls, Call(a, c),
           UNCHANGED <<m_reqApi, m_bLoginSuccessed, thread>>,
           session[a] = "up" /\ session'[a] # "up" => c = Lost,
           c = Login => session'[a] = "up",
           c[1] = "OnRspQryInstrument" => a[1] # "quote",
           session'[a] = "none" <=> session[a] = "none",
           \A b \in Api : b # a => session'[b] = session[b],
           asked' \subseteq asked,
           \A b \in Api : b[1] = "quote" => answers'[b] = answers[b]
    PROVE  FlagInv'
<1>1. StateOK /\ NotYet /\ Busy /\ Ordered /\ QuoteAsks /\ Right BY DEF Typed, FlagInv
<1>2. calls[a] \in Seq(Calls) BY <1>1 DEF StateOK
<1>3. calls'[a] = Append(calls[a], c) /\ \A b \in Api : b # a => calls'[b] = calls[b]
  BY <1>1, CallTyped
<1>4. \A b \in Api : Standing(b) => Standing(b)' BY <1>2, <1>3, PutCall DEF Standing
<1>5. Ordered' BY <1>1, <1>2, <1>3, PutCall DEF Ordered
<1>6. NotYet' BY <1>1 DEF NotYet, StateOK
<1>7. Busy' BY <1>1, <1>4 DEF Busy
<1>8. QuoteAsks'
  <2> SUFFICES ASSUME NEW b \in Api, b[1] = "quote"
               PROVE  answers'[b] = <<>> /\ \A k \in DOMAIN calls'[b] : calls'[b][k][1] # "OnRspQryInstrument"
    BY DEF QuoteAsks
  <2>1. answers[b] = <<>> /\ \A k \in DOMAIN calls[b] : calls[b][k][1] # "OnRspQryInstrument"
    BY <1>1 DEF QuoteAsks
  <2>2. CASE b # a BY <1>3, <2>1, <2>2
  <2>3. CASE b = a BY <1>2, <1>3, <2>1, <2>3, LastCall
  <2>4. QED BY <2>2, <2>3
<1>9. LoggedIn' = LoggedIn BY LoggedInSame
<1>10. Right' BY <1>1, <1>4, <1>9 DEF Right
<1>11. QED BY <1>5, <1>6, <1>7, <1>8, <1>10 DEF FlagInv

LEMMA FlagFront ==
    ASSUME Typed, FlagInv, NEW a \in Api,
           Answer(a) \/ RefuseLogin(a) \/ RefuseQuery(a) \/ LoseConnection(a)
    PROVE  FlagInv'
<1>1. /\ session \in [Api -> {"none", "down", "connected", "up"}]
      /\ asked \subseteq Api /\ answers \in [Api -> Seq(ToSet(Listed))]
  BY DEF Typed, StateOK
<1>2. a \in asked => session[a] # "none" BY DEF FlagInv, NotYet
<1>3. a[1] = "quote" => answers[a] = <<>> BY DEF FlagInv, QuoteAsks
<1>4. /\ <<"OnFrontConnected">> \in Calls /\ <<"OnFrontConnected">> \notin {Login, Lost}
      /\ <<"loginRefused">> \in Calls /\ <<"loginRefused">> \notin {Login, Lost}
      /\ <<"queryRefused">> \in Calls /\ <<"queryRefused">> \notin {Login, Lost}
      /\ Login \in Calls /\ Lost \in Calls /\ Lost # Login
      /\ \A c \in {<<"OnFrontConnected">>, <<"loginRefused">>, <<"queryRefused">>, Login, Lost} :
           c[1] # "OnRspQryInstrument"
  BY DEF Calls, Login, Lost
<1>5. UNCHANGED server => UNCHANGED <<m_reqApi, m_bLoginSuccessed, thread>> BY Zenon DEF server
<1>6. CASE Connect(a)
  <2>1. /\ session[a] = "down" /\ session' = [session EXCEPT ![a] = "connected"]
        /\ Call(a, <<"OnFrontConnected">>)
        /\ UNCHANGED <<m_reqApi, m_bLoginSuccessed, thread, asked, answers>>
    BY <1>5, <1>6, Zenon DEF Connect
  <2>2. session'[a] = "connected" /\ \A b \in Api : b # a => session'[b] = session[b] BY <1>1, <2>1
  <2>3. QED BY <1>4, <2>1, <2>2, FrontFlag
<1>7. CASE AnswerLogin(a)
  <2>1. /\ a \in asked /\ asked' = asked \ {a} /\ session' = [session EXCEPT ![a] = "up"]
        /\ Call(a, Login)
        /\ UNCHANGED <<m_reqApi, m_bLoginSuccessed, thread, answers>>
    BY <1>5, <1>7, Zenon DEF AnswerLogin, Login
  <2>2. session'[a] = "up" /\ \A b \in Api : b # a => session'[b] = session[b] BY <1>1, <2>1
  <2>3. QED BY <1>2, <1>4, <2>1, <2>2, FrontFlag
<1>8. CASE AnswerQuery(a)
  <2> DEFINE c == <<"OnRspQryInstrument", Head(answers[a]), Len(answers[a]) = 1>>
  <2>1. /\ answers[a] # <<>> /\ answers' = [answers EXCEPT ![a] = Tail(@)] /\ Call(a, c)
        /\ UNCHANGED <<m_reqApi, m_bLoginSuccessed, thread, session, asked>>
    BY <1>5, <1>8, Zenon DEF AnswerQuery
  <2>2. c \in Calls BY <1>1, <2>1, AnswerIsCall
  <2>3. c # Login BY DEF Login
  <2>4. a[1] # "quote" BY <1>3, <2>1
  <2>5. \A b \in Api : b[1] = "quote" => answers'[b] = answers[b] BY <1>1, <2>1, <2>4
  <2> HIDE DEF c
  <2>6. QED BY <2>1, <2>2, <2>3, <2>4, <2>5, FrontFlag
<1>9. CASE RefuseLogin(a)
  <2>1. /\ a \in asked /\ asked' = asked \ {a} /\ Call(a, <<"loginRefused">>)
        /\ UNCHANGED <<m_reqApi, m_bLoginSuccessed, thread, session, answers>>
    BY <1>5, <1>9, Zenon DEF RefuseLogin
  <2>2. QED BY <1>4, <2>1, FrontFlag
<1>10. CASE RefuseQuery(a)
  <2>1. /\ answers[a] # <<>> /\ answers' = [answers EXCEPT ![a] = <<>>] /\ Call(a, <<"queryRefused">>)
        /\ UNCHANGED <<m_reqApi, m_bLoginSuccessed, thread, session, asked>>
    BY <1>5, <1>10, Zenon DEF RefuseQuery
  <2>2. \A b \in Api : b[1] = "quote" => answers'[b] = answers[b] BY <1>1, <1>3, <2>1
  <2>3. QED BY <1>4, <2>1, <2>2, FrontFlag
<1>11. CASE LoseConnection(a)
  <2>1. /\ session[a] \in {"connected", "up"} /\ session' = [session EXCEPT ![a] = "down"]
        /\ asked' = asked \ {a} /\ answers' = [answers EXCEPT ![a] = <<>>] /\ Call(a, Lost)
        /\ UNCHANGED <<m_reqApi, m_bLoginSuccessed, thread>>
    BY <1>5, <1>11, Zenon DEF LoseConnection, Lost
  <2>2. session'[a] = "down" /\ \A b \in Api : b # a => session'[b] = session[b] BY <1>1, <2>1
  <2>3. \A b \in Api : b[1] = "quote" => answers'[b] = answers[b] BY <1>1, <1>3, <2>1
  <2>4. QED BY <1>4, <2>1, <2>2, <2>3, FrontFlag
<1>12. QED BY <1>6, <1>7, <1>8, <1>9, <1>10, <1>11 DEF Answer

LEMMA FlagStutter == FlagInv /\ UNCHANGED vars => FlagInv'
<1> SUFFICES ASSUME FlagInv, UNCHANGED vars PROVE FlagInv' OBVIOUS
<1>1. UNCHANGED <<m_reqApi, m_bLoginSuccessed, thread, session, asked, answers, calls>>
  BY Zenon DEF vars, external
<1>2. LoggedIn' = LoggedIn BY <1>1, LoggedInSame
<1>3. QED BY <1>1, <1>2 DEF FlagInv, NotYet, Busy, Ordered, QuoteAsks, Right, Standing

LEMMA FlagNext == Typed /\ FlagInv /\ [Next]_vars => FlagInv'
BY FlagInitCTP, FlagThread, FlagFront, FlagStutter DEF Next

LEMMA RightIsFlagRight == FlagsOK /\ Right => FlagRight
<1> SUFFICES ASSUME FlagsOK, Right, m_bLoginSuccessed["quote"]
             PROVE  \E n \in 1 .. LoginLimit + 1 :
                        \/ session[<<"quote", n>>] = "up"
                        \/ <<"OnFrontDisconnected">> \in ToSet(calls[<<"quote", n>>])
  BY Zenon DEF FlagRight
<1>1. "quote" \in Side BY DEF Side
<1>2. "quote" \in LoggedIn BY <1>1, Zenon DEF LoggedIn
<1>3. PICK a \in Api : a[1] = "quote" /\ Standing(a) BY <1>2 DEF Right
<1>4. a[2] \in 1 .. LoginLimit + 1 /\ a = <<"quote", a[2]>> BY <1>3 DEF Api
<1>5. QED BY <1>3, <1>4 DEF Standing, Lost

\* A server that takes its quote side for logged in has a quote connection that is, or
\* one whose loss its thread has still to be told of: the loop of TradeManager::InitCTP()
\* and any number of losses, in any order, leave no flag set for good.
THEOREM FlagIsRight == Spec => []FlagRight
<1>1. Init => Typed /\ FlagInv BY TypedInit, FlagInit
<1>2. Typed /\ FlagInv /\ [Next]_vars => Typed' /\ FlagInv' BY TypedNext, FlagNext
<1>3. Typed /\ FlagInv => FlagRight BY RightIsFlagRight DEF Typed, FlagInv
<1>4. QED BY <1>1, <1>2, <1>3, PTL DEF Spec
=============================================================================
