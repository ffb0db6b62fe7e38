--------------------------- MODULE AlarmsProofs ---------------------------
(* Theorems about Alarms, for any items, conditions and times to keep.     *)
EXTENDS Alarms, TLAPS

LEMMA NotNone ==
    /\ \A w \in Waiting : w # None
    /\ \A s \in Says : s # None
    /\ \A r \in Reports : r # None
BY NoneAssumption, Zenon

LEMMA Constant ==
    /\ \A c \in Cond : ItemOf[c] \in Item
    /\ \A c \in Cond, v \in Value : Match[c][v] \in Nat
    /\ \A c \in Cond : Keep[c] \in Nat
BY AlarmsAssumption DEF AlarmsAssumption

LEMMA InReport ==
    ASSUME TypeOK, ~Free
    PROVE  /\ rep \in Reports
           /\ rep.item \in Item /\ rep.val \in Value /\ rep.todo \subseteq Cond
           /\ rep.say \in Says \cup {None}
BY DEF TypeOK, Free, Reports

LEMMA OlderType ==
    ASSUME NEW a \in Nat, NEW c \in Cond
    PROVE  Older(a, c) \in Nat /\ Older(a, c) >= a
BY Constant DEF Older

---------------------------------------------------------------------------
(* Types. *)

LEMMA TypeInit == Init => TypeOK
BY DEF Init, TypeOK

LEMMA TypeRegistration ==
    ASSUME TypeOK,
           \/ \E i \in Item : Register(i) \/ CreateCondition(i)
           \/ \E I \in SUBSET items : UnRegister(I)
           \/ \E i \in Item, v \in Value : Report(i, v)
    PROVE  TypeOK'
<1>1. ASSUME NEW i \in Item, Register(i) PROVE TypeOK'
  BY <1>1 DEF TypeOK, Register, data
<1>2. ASSUME NEW i \in Item, CreateCondition(i) PROVE TypeOK'
  BY <1>2 DEF TypeOK, CreateCondition, data
<1>3. ASSUME NEW I \in SUBSET items, UnRegister(I) PROVE TypeOK'
  BY <1>3 DEF TypeOK, UnRegister
<1>4. ASSUME NEW i \in Item, NEW v \in Value, Report(i, v) PROVE TypeOK'
  <2>1. rep' \in Reports
    BY <1>4 DEF TypeOK, Report, Reports
  <2> QED
    BY <1>4, <2>1 DEF TypeOK, Report, data
<1> QED
  BY <1>1, <1>2, <1>3, <1>4

\* What OnDataChange() writes into the report.
LEMMA SaysType ==
    ASSUME TypeOK, ~Free, NEW c \in Cond, NEW k \in Kinds, Say(c, k)
    PROVE  /\ rep' \in Reports
           /\ rep'.say = [cond |-> c, kind |-> k] /\ rep'.say \in Says
BY InReport DEF Say, Reports, Says

LEMMA HushType ==
    ASSUME TypeOK, ~Free, NEW c \in Cond, Hush(c)
    PROVE  rep' \in Reports /\ rep'.say = rep.say
BY InReport DEF Hush, Reports

LEMMA TypeData ==
    ASSUME TypeOK, NEW c \in Cond, OnDataChange(c)
    PROVE  TypeOK'
<1> DEFINE g == Match[c][rep.val]
<1> USE DEF Kinds
<1>1. ~Free /\ g \in Nat /\ ItemOf[c] \in Item
  BY InReport, Constant DEF OnDataChange
<1>2. CASE AlmNew(c, g)
  <2>1. rep' \in Reports
    BY <1>1, <1>2, SaysType, HushType DEF AlmNew
  <2>2. grade' \in [Cond -> Nat] /\ age' \in [Cond -> Nat] /\ open' \in [Cond -> Nat]
    BY <1>1, <1>2 DEF AlmNew, Active, Table, TypeOK
  <2>3. pend' \in [Item -> Waiting \cup {None}]
    BY <1>1, <1>2 DEF AlmNew, Table, TypeOK, Waiting
  <2> QED
    BY <2>1, <2>2, <2>3 DEF TypeOK, OnDataChange
<1>3. CASE AlmChg(c, g)
  <2>1. rep' \in Reports
    BY <1>1, <1>3, SaysType, HushType DEF AlmChg
  <2>2. grade' \in [Cond -> Nat] /\ age' \in [Cond -> Nat] /\ open' \in [Cond -> Nat]
    BY <1>1, <1>3 DEF AlmChg, Active, Table, TypeOK
  <2>3. pend' \in [Item -> Waiting \cup {None}]
    BY <1>1, <1>3 DEF AlmChg, Table, TypeOK, Waiting, NoConfirm
  <2> QED
    BY <2>1, <2>2, <2>3 DEF TypeOK, OnDataChange
<1>4. CASE AlmEnd(c, g)
  <2>1. rep' \in Reports
    BY <1>1, <1>4, SaysType, HushType DEF AlmEnd
  <2>2. grade' \in [Cond -> Nat] /\ age' \in [Cond -> Nat] /\ open' \in [Cond -> Nat]
    BY <1>1, <1>4 DEF AlmEnd, Active, Table, TypeOK
  <2>3. pend' \in [Item -> Waiting \cup {None}]
    BY <1>1, <1>4 DEF AlmEnd, Table, TypeOK
  <2> QED
    BY <2>1, <2>2, <2>3 DEF TypeOK, OnDataChange
<1>5. CASE AlmSame(c, g)
  BY <1>1, <1>5, HushType DEF AlmSame, data, TypeOK, OnDataChange
<1> QED
  BY <1>2, <1>3, <1>4, <1>5 DEF OnDataChange

LEMMA TypeNotify == ASSUME TypeOK, Notify PROVE TypeOK'
<1>1. /\ rep \in Reports
      /\ rep.say \in Says
  BY InReport DEF Notify
<1>2. rep' \in Reports
  BY <1>1 DEF Notify, Reports
<1>3. rep.say.cond \in Cond /\ Weight(rep.say.kind) \in Int
  BY <1>1 DEF Says, Kinds, Weight
<1>4. told' \in [Cond -> Int]
  BY <1>3 DEF Notify, TypeOK
<1> QED
  BY <1>2, <1>4 DEF TypeOK, Notify, data

LEMMA TypeTimer ==
    ASSUME TypeOK, TimerMove \/ TimerNotify \/ Tick
    PROVE  TypeOK'
<1>1. CASE TimerMove
  <2>1. open' \in [Cond -> Nat]
    <3>1. ASSUME NEW c \in Cond, ItemOf[c] \in Due PROVE pend[ItemOf[c]].grade \in Nat
      BY <3>1, Constant DEF Due, TypeOK, Waiting
    <3> QED
      BY <1>1, <3>1 DEF TimerMove, TypeOK
  <2>2. pend' \in [Item -> Waiting \cup {None}]
    BY <1>1 DEF TimerMove, TypeOK
  <2>3. vAlm' \subseteq Cond
    BY <1>1 DEF TimerMove
  <2> QED
    BY <1>1, <2>1, <2>2, <2>3 DEF TimerMove, TypeOK
<1>2. CASE TimerNotify
  BY <1>2 DEF TimerNotify, TypeOK, data
<1>3. CASE Tick
  <2>1. age' \in [Cond -> Nat]
    BY <1>3, OlderType DEF Tick, TypeOK
  <2>2. ASSUME NEW i \in Item PROVE pend'[i] \in Waiting \cup {None}
    <3>1. CASE pend[i] = None
      BY <1>3, <3>1 DEF Tick
    <3>2. CASE pend[i] # None
      <4>1. pend[i] \in Waiting
        BY <3>2 DEF TypeOK
      <4>2. Older(pend[i].age, pend[i].cond) \in Nat
        BY <4>1, OlderType DEF Waiting
      <4>3. pend'[i] = [pend[i] EXCEPT !.age = Older(pend[i].age, pend[i].cond)]
        BY <1>3, <3>2 DEF Tick
      <4> QED
        BY <4>1, <4>2, <4>3 DEF Waiting
    <3> QED
      BY <3>1, <3>2
  <2>3. pend' \in [Item -> Waiting \cup {None}]
    <3>1. pend' = [i \in Item |-> pend'[i]]
      BY <1>3 DEF Tick
    <3> QED
      BY <2>2, <3>1
  <2> QED
    BY <1>3, <2>1, <2>3 DEF Tick, TypeOK
<1> QED
  BY <1>1, <1>2, <1>3

LEMMA TypeStep == TypeOK /\ [Next]_vars => TypeOK'
<1> SUFFICES ASSUME TypeOK, [Next]_vars PROVE TypeOK'
  OBVIOUS
<1>1. CASE UNCHANGED vars
  BY <1>1 DEF vars, data, TypeOK
<1>2. CASE ReportDone
  BY <1>2 DEF ReportDone, data, TypeOK
<1> QED
  BY <1>1, <1>2, TypeRegistration, TypeData, TypeNotify, TypeTimer DEF Next, Reporting

\* Every reachable state has the types of the module.
THEOREM TypeCorrect == Spec => []TypeOK
<1> QED
  BY TypeInit, TypeStep, PTL DEF Spec

---------------------------------------------------------------------------
(* The truth of the table. *)

\* Honest and Balanced of one condition.
Told(c) ==
    /\ grade[c] # 0 => \/ open[c] = 0 /\ Waits(c)
                       \/ open[c] = grade[c] /\ age[c] >= Keep[c] /\ pend[ItemOf[c]] = None
    /\ grade[c] = 0 => open[c] = 0 /\ pend[ItemOf[c]] = None

Even(c) == told[c] + Underway(c) = IF open[c] # 0 THEN 1 ELSE 0

LEMMA HonestIs == Honest <=> \A c \in Sound : Told(c)
BY DEF Honest, Told

LEMMA BalancedIs == Balanced <=> \A c \in Sound : Even(c)
BY DEF Balanced, Even

\* What a step may not touch, for the condition to be as honest as before.
LEMMA ToldSame ==
    ASSUME NEW c \in Cond, Told(c),
           grade'[c] = grade[c], age'[c] = age[c], open'[c] = open[c],
           pend'[ItemOf[c]] = pend[ItemOf[c]]
    PROVE  Told(c)'
BY DEF Told, Waits

LEMMA SoundShrinks ==
    ASSUME dropped \subseteq dropped'
    PROVE  \A c \in Sound' : c \in Sound /\ c \in Cond /\ c \notin dropped'
BY DEF Sound, Alone

LEMMA DroppedGrows == [Next]_vars => dropped \subseteq dropped'
BY DEF Next, Reporting, Register, CreateCondition, UnRegister, Report, OnDataChange,
       Notify, ReportDone, TimerMove, TimerNotify, Tick, vars

LEMMA Apart ==
    ASSUME NEW c \in Sound, NEW d \in Cond, d # c
    PROVE  ItemOf[d] # ItemOf[c]
BY DEF Sound, Alone

LEMMA HonestInit == Init => Honest /\ Balanced
<1> SUFFICES ASSUME Init, NEW c \in Sound PROVE Told(c) /\ Even(c)
  BY HonestIs, BalancedIs
<1>1. c \in Cond /\ ItemOf[c] \in Item
  BY Constant DEF Sound
<1>2. Told(c)
  BY <1>1 DEF Init, Told
<1>3. Underway(c) = 0
  BY DEF Init, Underway, Free
<1>4. told[c] = 0 /\ open[c] = 0
  BY <1>1 DEF Init
<1> QED
  BY <1>2, <1>3, <1>4 DEF Even

\* A report on another condition.
LEMMA ToldOther ==
    ASSUME TypeOK, NEW c \in Sound, NEW d \in Cond, d # c, OnDataChange(d), Told(c)
    PROVE  /\ Told(c)'
           /\ open'[c] = open[c]
<1> DEFINE g == Match[d][rep.val]
<1>1. /\ c \in Cond /\ ItemOf[c] \in Item /\ ItemOf[d] \in Item
      /\ ItemOf[d] # ItemOf[c]
  BY Apart, Constant DEF Sound
<1>2. grade'[c] = grade[c] /\ age'[c] = age[c] /\ open'[c] = open[c]
  BY <1>1 DEF OnDataChange, AlmNew, AlmChg, AlmEnd, AlmSame, Active, Table, data, TypeOK
<1>3. pend'[ItemOf[c]] = pend[ItemOf[c]]
  BY <1>1 DEF OnDataChange, AlmNew, AlmChg, AlmEnd, AlmSame, Table, data, TypeOK
<1> QED
  BY <1>1, <1>2, <1>3, ToldSame

\* A report on the condition itself.
LEMMA ToldOwn ==
    ASSUME TypeOK, NEW c \in Sound, OnDataChange(c), Told(c)
    PROVE  /\ Told(c)'
           /\ \/ /\ rep'.say = None
                 /\ open'[c] # 0 <=> open[c] # 0
              \/ \E k \in Kinds :
                    /\ rep'.say = [cond |-> c, kind |-> k] /\ rep'.say # None
                    /\ (IF open[c] # 0 THEN 1 ELSE 0) + Weight(k)
                         = IF open'[c] # 0 THEN 1 ELSE 0
<1> DEFINE g == Match[c][rep.val]
           i == ItemOf[c]
<1>1. /\ c \in Cond /\ i \in Item /\ Keep[c] \in Nat /\ g \in Nat
      /\ ~Free /\ rep.say = None
      /\ grade[c] \in Nat /\ age[c] \in Nat /\ open[c] \in Nat
      /\ pend[i] \in Waiting \cup {None}
  BY InReport, Constant DEF Sound, OnDataChange, TypeOK
<1> HIDE DEF g, i
<1>2. ASSUME NEW h \in Nat, NEW a \in Nat, Active(c, h, a)
      PROVE  grade'[c] = h /\ age'[c] = a
  BY <1>1, <1>2 DEF Active, TypeOK
<1>3. ASSUME NEW h \in Nat, Table(c, h)
      PROVE  open'[c] = h /\ pend'[i] = pend[i]
  BY <1>1, <1>3 DEF Table, TypeOK
<1>4. ASSUME NEW k \in Kinds, Say(c, k)
      PROVE  rep'.say = [cond |-> c, kind |-> k] /\ rep'.say # None
  BY <1>1, <1>4, SaysType, NotNone
<1>5. ASSUME Hush(c) PROVE rep'.say = None
  BY <1>1, <1>5, HushType
<1>6. CASE AlmNew(c, g)
  <2>1. /\ grade[c] = 0 /\ g # 0 /\ open[c] = 0 /\ pend[i] = None
        /\ grade'[c] = g /\ age'[c] = 0
    BY <1>1, <1>2, <1>6 DEF AlmNew, Told, i
  <2>2. CASE Keep[c] > 0
    <3>1. /\ pend'[i] = [cond |-> c, grade |-> g, age |-> 0]
          /\ open' = open /\ rep'.say = None
      BY <1>1, <1>5, <1>6, <2>2 DEF AlmNew, TypeOK, i
    <3> QED
      BY <2>1, <3>1 DEF Told, Waits, i
  <2>3. CASE ~(Keep[c] > 0)
    <3>1. Table(c, g) /\ Say(c, "new")
      BY <1>6, <2>3 DEF AlmNew
    <3>2. /\ open'[c] = g /\ pend'[i] = None
          /\ rep'.say = [cond |-> c, kind |-> "new"] /\ rep'.say # None
      BY <1>1, <1>3, <1>4, <2>1, <3>1 DEF Kinds
    <3>3. Told(c)'
      BY <1>1, <2>1, <2>3, <3>2 DEF Told, i
    <3> QED
      BY <2>1, <3>2, <3>3 DEF Kinds, Weight
  <2> QED
    BY <2>2, <2>3
<1>7. CASE AlmChg(c, g)
  <2>1. /\ grade[c] # 0 /\ g # 0
        /\ grade'[c] = g /\ age'[c] = age[c]
    BY <1>1, <1>2, <1>7 DEF AlmChg
  <2>2. CASE NoConfirm(c)
    <3>1. open[c] = 0 /\ pend[i] = [cond |-> c, grade |-> grade[c], age |-> age[c]]
      BY <2>1, <2>2 DEF Told, Waits, NoConfirm, i
    <3>2. /\ pend'[i] = [pend[i] EXCEPT !.grade = g]
          /\ open' = open /\ rep'.say = None
      BY <1>1, <1>5, <1>7, <2>2 DEF AlmChg, TypeOK, i
    <3>3. pend'[i] = [cond |-> c, grade |-> g, age |-> age[c]]
      BY <3>1, <3>2
    <3> QED
      BY <2>1, <3>1, <3>2, <3>3 DEF Told, Waits, i
  <2>3. CASE ~NoConfirm(c)
    <3>1. Table(c, g) /\ Say(c, "chg") /\ pend[i] = None
      BY <1>7, <2>3 DEF AlmChg, NoConfirm, i
    <3>2. [cond |-> c, grade |-> grade[c], age |-> age[c]] \in Waiting
      BY <1>1, <2>1 DEF Waiting
    <3>3. open[c] = grade[c] /\ age[c] >= Keep[c]
      BY <2>1, <3>1, <3>2, NotNone DEF Told, Waits, i
    <3>4. /\ open'[c] = g /\ pend'[i] = None
          /\ rep'.say = [cond |-> c, kind |-> "chg"] /\ rep'.say # None
      BY <1>1, <1>3, <1>4, <3>1 DEF Kinds
    <3>5. Told(c)'
      BY <2>1, <3>3, <3>4 DEF Told, i
    <3> QED
      BY <2>1, <3>3, <3>4, <3>5 DEF Kinds, Weight
  <2> QED
    BY <2>2, <2>3
<1>8. CASE AlmEnd(c, g)
  <2>1. /\ grade[c] # 0
        /\ grade'[c] = 0 /\ age'[c] = 0
    BY <1>1, <1>2, <1>8 DEF AlmEnd
  <2>2. CASE NoConfirm(c)
    <3>1. open[c] = 0
      BY <2>1, <2>2 DEF Told, NoConfirm
    <3>2. pend'[i] = None /\ open' = open /\ rep'.say = None
      BY <1>1, <1>5, <1>8, <2>2 DEF AlmEnd, TypeOK, i
    <3> QED
      BY <2>1, <3>1, <3>2 DEF Told, i
  <2>3. CASE ~NoConfirm(c)
    <3>1. Table(c, 0) /\ Say(c, "end") /\ pend[i] = None
      BY <1>8, <2>3 DEF AlmEnd, NoConfirm, i
    <3>2. [cond |-> c, grade |-> grade[c], age |-> age[c]] \in Waiting
      BY <1>1, <2>1 DEF Waiting
    <3>3. open[c] = grade[c]
      BY <2>1, <3>1, <3>2, NotNone DEF Told, Waits, i
    <3>4. /\ open'[c] = 0 /\ pend'[i] = None
          /\ rep'.say = [cond |-> c, kind |-> "end"] /\ rep'.say # None
      BY <1>1, <1>3, <1>4, <3>1 DEF Kinds
    <3>5. Told(c)'
      BY <2>1, <3>4 DEF Told, i
    <3> QED
      BY <2>1, <3>3, <3>4, <3>5 DEF Kinds, Weight
  <2> QED
    BY <2>2, <2>3
<1>9. CASE AlmSame(c, g)
  <2>1. UNCHANGED data /\ rep'.say = None
    BY <1>5, <1>9 DEF AlmSame
  <2> QED
    BY <1>1, <2>1, ToldSame DEF data
<1> QED
  BY <1>6, <1>7, <1>8, <1>9 DEF OnDataChange, g

LEMMA HonestData ==
    ASSUME TypeOK, Honest, NEW d \in Cond, OnDataChange(d)
    PROVE  Honest'
<1> SUFFICES ASSUME NEW c \in Sound' PROVE Told(c)'
  BY DEF Honest, Told
<1>1. c \in Sound /\ Told(c)
  BY HonestIs, SoundShrinks DEF OnDataChange
<1> QED
  BY <1>1, ToldOwn, ToldOther

LEMMA HonestTimer ==
    ASSUME TypeOK, Honest, NEW c \in Sound, TimerMove
    PROVE  /\ Told(c)'
           /\ open[c] = 0 /\ open'[c] # 0 <=> c \in vAlm'
           /\ open[c] # 0 => open'[c] = open[c]
<1> DEFINE i == ItemOf[c]
<1>1. /\ c \in Cond /\ i \in Item /\ Told(c) /\ grade[c] \in Nat
  BY HonestIs, Constant DEF Sound, TypeOK
<1>2. grade' = grade /\ age' = age
  BY DEF TimerMove
<1> HIDE DEF i
<1>3. CASE i \in Due
  <2>1. pend[i] # None
    BY <1>3 DEF Due
  <2>2. /\ grade[c] # 0 /\ open[c] = 0
        /\ pend[i] = [cond |-> c, grade |-> grade[c], age |-> age[c]]
    BY <1>1, <2>1 DEF Told, Waits, i
  <2>3. age[c] >= Keep[c]
    BY <1>3, <2>2 DEF Due
  <2>4. c \in vAlm' /\ open'[c] = grade[c] /\ pend'[i] = None
    BY <1>1, <1>3, <2>2 DEF TimerMove, i
  <2> QED
    BY <1>2, <2>2, <2>3, <2>4 DEF Told, i
<1>4. CASE i \notin Due
  <2>1. c \notin vAlm' /\ open'[c] = open[c] /\ pend'[i] = pend[i]
    BY <1>1, <1>4 DEF TimerMove, i
  <2>2. Told(c)'
    BY <1>1, <1>2, <2>1, ToldSame DEF i
  <2> QED
    BY <2>1, <2>2
<1> QED
  BY <1>3, <1>4

LEMMA HonestTick ==
    ASSUME TypeOK, NEW c \in Sound, Told(c), Tick
    PROVE  Told(c)'
<1> DEFINE i == ItemOf[c]
<1>1. /\ c \in Cond /\ i \in Item /\ Keep[c] \in Nat /\ age[c] \in Nat
      /\ Older(age[c], c) >= age[c] /\ Older(age[c], c) \in Nat
  BY Constant, OlderType DEF Sound, TypeOK
<1>2. /\ grade' = grade /\ open' = open
      /\ age'[c] = IF grade[c] = 0 THEN age[c] ELSE Older(age[c], c)
      /\ pend'[i] = IF pend[i] = None THEN None
                    ELSE [pend[i] EXCEPT !.age = Older(pend[i].age, pend[i].cond)]
  BY <1>1 DEF Tick
<1> HIDE DEF i
<1>3. CASE pend[i] = None /\ ~Waits(c)
  BY <1>1, <1>2, <1>3 DEF Told, i
<1>4. CASE pend[i] # None
  <2>1. /\ grade[c] # 0 /\ open[c] = 0
        /\ pend[i] = [cond |-> c, grade |-> grade[c], age |-> age[c]]
    BY <1>4 DEF Told, Waits, i
  <2>2. pend'[i] = [cond |-> c, grade |-> grade[c], age |-> Older(age[c], c)]
    BY <1>2, <1>4, <2>1
  <2> QED
    BY <1>2, <2>1, <2>2 DEF Told, Waits, i
<1>5. CASE grade[c] = 0
  BY <1>2, <1>5 DEF Told, Waits, i
<1>6. ASSUME grade[c] # 0 PROVE ~(pend[i] = None /\ Waits(c))
  <2>1. [cond |-> c, grade |-> grade[c], age |-> age[c]] \in Waiting
    BY <1>1, <1>6 DEF Waiting, TypeOK
  <2> QED
    BY <2>1, NotNone DEF Waits, i
<1> QED
  BY <1>3, <1>4, <1>5, <1>6

LEMMA HonestStep == TypeOK /\ Honest /\ [Next]_vars => Honest'
<1> SUFFICES ASSUME TypeOK, Honest, [Next]_vars, NEW c \in Sound' PROVE Told(c)'
  BY DEF Honest, Told
<1>1. c \in Sound /\ c \in Cond /\ c \notin dropped' /\ Told(c)
  BY HonestIs, DroppedGrows, SoundShrinks
<1>2. CASE UNCHANGED data
  BY <1>1, <1>2, ToldSame DEF data
<1>3. ASSUME NEW I \in SUBSET items, UnRegister(I) PROVE Told(c)'
  <2>1. grade'[c] = grade[c] /\ UNCHANGED <<open, pend>>
    BY <1>1, <1>3 DEF UnRegister
  <2>2. grade[c] # 0 => age'[c] = age[c]
    BY <1>1, <1>3 DEF UnRegister
  <2> QED
    BY <1>1, <2>1, <2>2 DEF Told, Waits
<1>4. ASSUME NEW d \in Cond, OnDataChange(d) PROVE Told(c)'
  BY <1>1, <1>4, ToldOwn, ToldOther
<1>5. CASE TimerMove
  BY <1>1, <1>5, HonestTimer
<1>6. CASE Tick
  BY <1>1, <1>6, HonestTick
<1> QED
  BY <1>2, <1>3, <1>4, <1>5, <1>6
     DEF Next, Reporting, Register, CreateCondition, Report, Notify, ReportDone,
         TimerNotify, vars

\* In every reachable state a condition that is alone on its item and was not
\* deleted while active waits or stands in the table, with its grade, exactly
\* while it is active, and stands there only when it has been kept long enough
\* (OnDataChange(), OnAlmNotify(), OnAlmConfirmTimeout()).
THEOREM HonestCorrect == Spec => []Honest
<1>1. Init => TypeOK /\ Honest
  BY TypeInit, HonestInit
<1>2. TypeOK /\ Honest /\ [Next]_vars => (TypeOK /\ Honest)'
  BY TypeStep, HonestStep
<1> QED
  BY <1>1, <1>2, PTL DEF Spec

---------------------------------------------------------------------------
(* The subscriber. *)

\* The two parts of Underway.
Moved(c) == IF c \in vAlm THEN 1 ELSE 0
Saying(c) == IF ~Free /\ rep.say # None /\ rep.say.cond = c THEN Weight(rep.say.kind) ELSE 0

LEMMA WeightType == \A k \in Kinds : Weight(k) \in Int
BY DEF Kinds, Weight

LEMMA UnderwayType ==
    ASSUME TypeOK, NEW c \in Cond
    PROVE  Moved(c) \in Int /\ Saying(c) \in Int /\ told[c] \in Int
<1>1. ASSUME ~Free, rep.say # None PROVE Weight(rep.say.kind) \in Int
  <2>1. rep.say.kind \in Kinds
    BY <1>1, InReport DEF Says
  <2> QED
    BY <2>1, WeightType
<1> QED
  BY <1>1 DEF Moved, Saying, TypeOK

LEMMA UnderwayIs ==
    ASSUME NEW c
    PROVE  /\ Underway(c) = Moved(c) + Saying(c)
           /\ Underway(c)' = Moved(c)' + Saying(c)'
           /\ Moved(c)' \in Int
<1>1. Underway(c) = Moved(c) + Saying(c) /\ Underway(c)' = Moved(c)' + Saying(c)'
  BY Zenon DEF Underway, Moved, Saying
<1>2. Moved(c)' \in Int
  BY DEF Moved
<1> QED
  BY <1>1, <1>2

\* Nothing was being said before a condition is looked at, and then only of it.
LEMMA SayingData ==
    ASSUME TypeOK, NEW c \in Cond, NEW d \in Cond, OnDataChange(d)
    PROVE  /\ Saying(c) = 0 /\ ~Free'
           /\ d # c => Saying(c)' = 0
<1>1. ~Free /\ rep.say = None
  BY DEF OnDataChange
<1>2. Hush(d) \/ \E k \in Kinds : Say(d, k)
  BY DEF OnDataChange, AlmNew, AlmChg, AlmEnd, AlmSame, Kinds
<1>3. rep' \in Reports /\ (rep'.say = None \/ rep'.say.cond = d)
  <2>1. CASE Hush(d)
    BY <1>1, <2>1, HushType
  <2>2. ASSUME NEW k \in Kinds, Say(d, k) PROVE rep' \in Reports /\ rep'.say.cond = d
    <3>1. rep' \in Reports /\ rep'.say = [cond |-> d, kind |-> k]
      BY <1>1, <2>2, SaysType
    <3> QED
      BY <3>1
  <2> QED
    BY <1>2, <2>1, <2>2
<1> QED
  BY <1>1, <1>3, NotNone DEF Saying, Free

LEMMA EvenData ==
    ASSUME TypeOK, NEW c \in Sound, Told(c), Even(c), NEW d \in Cond, OnDataChange(d)
    PROVE  Even(c)'
<1>1. /\ c \in Cond /\ told' = told /\ Moved(c)' = Moved(c)
      /\ Saying(c) = 0 /\ ~Free'
  BY SayingData DEF Sound, OnDataChange, Moved
<1>3. /\ Underway(c) = Moved(c) + Saying(c) /\ Underway(c)' = Moved(c)' + Saying(c)'
      /\ Moved(c) \in Int /\ told[c] \in Int
  BY <1>1, UnderwayType, UnderwayIs
<1>4. told[c] + Moved(c) = IF open[c] # 0 THEN 1 ELSE 0
  BY <1>1, <1>3 DEF Even
<1>5. CASE d # c
  <2>1. open'[c] = open[c] /\ Saying(c)' = 0
    BY <1>1, <1>5, ToldOther, SayingData
  <2> QED
    BY <1>1, <1>3, <1>4, <2>1 DEF Even
<1>6. CASE d = c
  <2>1. CASE rep'.say = None /\ (open'[c] # 0 <=> open[c] # 0)
    <3>1. Saying(c)' = 0
      BY <2>1 DEF Saying
    <3> QED
      BY <1>1, <1>3, <1>4, <2>1, <3>1 DEF Even
  <2>2. ASSUME NEW k \in Kinds,
               rep'.say = [cond |-> c, kind |-> k], rep'.say # None,
               (IF open[c] # 0 THEN 1 ELSE 0) + Weight(k) = IF open'[c] # 0 THEN 1 ELSE 0
        PROVE  Even(c)'
    <3>1. Saying(c)' = Weight(k)
      BY <1>1, <2>2 DEF Saying
    <3> QED
      BY <1>1, <1>3, <1>4, <2>2, <3>1, WeightType DEF Even
  <2> QED
    BY <1>6, <2>1, <2>2, ToldOwn
<1> QED
  BY <1>5, <1>6

LEMMA EvenNotify ==
    ASSUME TypeOK, NEW c \in Sound, Even(c), Notify
    PROVE  Even(c)'
<1>1. /\ c \in Cond /\ ~Free /\ rep.say \in Says /\ rep.say # None /\ rep \in Reports
      /\ UNCHANGED <<open, vAlm, dropped>>
  BY InReport DEF Sound, Notify, data
<1>2. rep.say.cond \in Cond /\ Weight(rep.say.kind) \in Int
  BY <1>1, WeightType DEF Says
<1>3. Saying(c)' = 0
  BY <1>1 DEF Notify, Saying, Reports
<1>5. /\ Underway(c) = Moved(c) + Saying(c) /\ Underway(c)' = Moved(c)' + Saying(c)'
      /\ Moved(c) \in Int /\ Saying(c) \in Int /\ told[c] \in Int /\ Moved(c)' = Moved(c)
  BY <1>1, UnderwayType, UnderwayIs DEF Moved
<1>6. told'[c] = told[c] + Saying(c)
  <2>1. CASE rep.say.cond = c
    <3>1. Saying(c) = Weight(rep.say.kind)
      BY <1>1, <2>1 DEF Saying
    <3>2. told' = [told EXCEPT ![c] = told[c] + Weight(rep.say.kind)]
      BY <1>1, <2>1 DEF Notify
    <3> QED
      BY <1>1, <3>1, <3>2 DEF TypeOK
  <2>2. CASE rep.say.cond # c
    <3>1. Saying(c) = 0
      BY <2>2 DEF Saying
    <3>2. told'[c] = told[c]
      BY <1>1, <1>2, <2>2 DEF Notify, TypeOK
    <3> QED
      BY <1>5, <3>1, <3>2
  <2> QED
    BY <2>1, <2>2
<1> QED
  BY <1>1, <1>3, <1>5, <1>6 DEF Even

LEMMA EvenTimer ==
    ASSUME TypeOK, Honest, NEW c \in Sound, Even(c), TimerMove \/ TimerNotify
    PROVE  Even(c)'
<1>1. c \in Cond /\ rep' = rep /\ dropped' = dropped
  BY DEF Sound, TimerMove, TimerNotify
<1>2. Saying(c)' = Saying(c)
  BY <1>1 DEF Saying, Free
<1>4. /\ Underway(c) = Moved(c) + Saying(c) /\ Underway(c)' = Moved(c)' + Saying(c)'
      /\ Moved(c) \in Int /\ Saying(c) \in Int /\ told[c] \in Int
  BY <1>1, UnderwayType, UnderwayIs
<1>5. CASE TimerMove
  <2>1. told' = told /\ Moved(c) = 0 /\ Saying(c) = 0
    BY <1>5 DEF TimerMove, Moved, Saying
  <2>2. Moved(c)' = IF c \in vAlm' THEN 1 ELSE 0
    BY DEF Moved
  <2>3. /\ open[c] = 0 /\ open'[c] # 0 <=> c \in vAlm'
        /\ open[c] # 0 => open'[c] = open[c]
    BY <1>5, HonestTimer, HonestIs
  <2> QED
    BY <1>2, <1>4, <2>1, <2>2, <2>3 DEF Even
<1>6. CASE TimerNotify
  <2>1. open' = open /\ Moved(c)' = 0
    BY <1>6 DEF TimerNotify, data, Moved
  <2>2. told'[c] = told[c] + Moved(c)
    BY <1>1, <1>4, <1>6 DEF TimerNotify, Moved
  <2> QED
    BY <1>2, <1>4, <2>1, <2>2 DEF Even
<1> QED
  BY <1>5, <1>6

LEMMA EvenSame ==
    ASSUME NEW c, Even(c), told'[c] = told[c], open'[c] = open[c], vAlm' = vAlm,
           Saying(c)' = Saying(c)
    PROVE  Even(c)'
BY DEF Even, Underway, Saying

LEMMA BalancedStep == TypeOK /\ Honest /\ Balanced /\ [Next]_vars => Balanced'
<1> SUFFICES ASSUME TypeOK, Honest, Balanced, [Next]_vars, NEW c \in Sound' PROVE Even(c)'
  BY DEF Balanced, Even
<1>1. c \in Sound /\ c \in Cond /\ Told(c) /\ Even(c)
  BY HonestIs, BalancedIs, DroppedGrows, SoundShrinks
<1>2. CASE UNCHANGED <<open, told, vAlm, rep>>
  BY <1>1, <1>2, EvenSame DEF Saying, Free
<1>3. ASSUME NEW i \in Item, NEW v \in Value, Report(i, v) PROVE Even(c)'
  <2>1. rep'.say = None /\ Free
    BY <1>3 DEF Report
  <2>2. Saying(c)' = Saying(c)
    BY <2>1 DEF Saying
  <2> QED
    BY <1>1, <1>3, <2>2, EvenSame DEF Report, data
<1>4. CASE ReportDone
  <2>1. Saying(c)' = Saying(c)
    BY <1>4 DEF ReportDone, Saying, Free
  <2> QED
    BY <1>1, <1>4, <2>1, EvenSame DEF ReportDone, data
<1>5. ASSUME NEW d \in Cond, OnDataChange(d) PROVE Even(c)'
  BY <1>1, <1>5, EvenData
<1>6. CASE Notify
  BY <1>1, <1>6, EvenNotify
<1>7. CASE TimerMove \/ TimerNotify
  BY <1>1, <1>7, EvenTimer
<1> QED
  BY <1>2, <1>3, <1>4, <1>5, <1>6, <1>7
     DEF Next, Reporting, Register, CreateCondition, UnRegister, Tick, data, vars

\* In every reachable state the openings and endings the subscriber was told
\* of, or is about to be, differ by the alarm that is open (OnAlmNotify(),
\* OnAlmConfirmTimeout()).
THEOREM BalancedCorrect == Spec => []Balanced
<1>1. Init => TypeOK /\ Honest /\ Balanced
  BY TypeInit, HonestInit
<1>2. TypeOK /\ Honest /\ Balanced /\ [Next]_vars => (TypeOK /\ Honest /\ Balanced)'
  BY TypeStep, HonestStep, BalancedStep
<1> QED
  BY <1>1, <1>2, PTL DEF Spec
===========================================================================
