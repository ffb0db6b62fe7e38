------------------------------ MODULE Alarms ------------------------------
(* The alarm table of CNetMgr (NetMgr.cpp) and the conditions that feed it *)
(* (Condition.h).  Modules register items and report their values; each    *)
(* condition watches one item and raises, changes or ends an alarm; an     *)
(* alarm with a time to keep waits in m_mapAlmNoConfirm until the timer    *)
(* "AlmConfirm" finds it old enough; what enters or leaves the table is    *)
(* told to the subscriber.                                                 *)
(*                                                                         *)
(* Threads: any number of callers of Report(), Register() and              *)
(* UnRegister...(), which m_mutexNetMgr serialises, and the thread of the  *)
(* timer, which tells its alarms after it has released that mutex.         *)
(*                                                                         *)
(* An alarm takes the number of its condition into a string (Condition.h:  *)
(* 614), which makes one character of it: two conditions of one item here  *)
(* have numbers that differ in their lowest eight bits.  The code compares *)
(* sub-conditions by address (Condition.h:631), the module by grade: those *)
(* of one condition have different grades.                                 *)
EXTENDS Integers, FiniteSets

CONSTANTS
    Item,       \* instances of monitored items (m_sOidIns)
    Cond,       \* condition instances (m_sCondID with m_sCondInstID)
    ItemOf,     \* the item a condition instance watches (m_sCondInstID)
    Value,      \* values an item is reported with
    Match,      \* Match[c][v]: grade of the first matching sub-condition, 0 if none
    Keep,       \* Keep[c]: seconds an alarm waits for its confirmation
    None        \* no alarm, no report

ASSUME AlarmsAssumption ==
    /\ ItemOf \in [Cond -> Item]
    /\ Match \in [Cond -> [Value -> Nat]]
    /\ Keep \in [Cond -> Nat]

VARIABLES
    items,      \* m_mapItems: the registered items
    creating,   \* items whose Register() is between its two critical sections
    made,       \* m_mapCond: the condition instances that exist
    grade,      \* m_pActiveSubCond of each condition: its grade, 0 if inactive
    age,        \* time since m_tmLastActive of each condition, at most Keep
    pend,       \* m_mapAlmNoConfirm: by item, the alarm that waits
    open,       \* m_vAlarmTbl: grade of the condition's latest row, 0 if it has none
    rep,        \* the Report() that holds m_mutexNetMgr
    vAlm,       \* alarms the timer has moved and not yet told
    told,       \* openings minus endings the subscriber was told of
    dropped     \* conditions that were deleted while active

data == <<grade, age, pend, open>>
vars == <<items, creating, made, data, rep, vAlm, told, dropped>>

Kinds == {"new", "chg", "end"}
Waiting == [cond : Cond, grade : Nat \ {0}, age : Nat]
Says == [cond : Cond, kind : Kinds]
Reports == [item : Item, val : Value, todo : SUBSET Cond, say : Says \cup {None}]

ASSUME NoneAssumption == None \notin Waiting \cup Says \cup Reports

TypeOK ==
    /\ items \subseteq Item
    /\ creating \subseteq Item
    /\ made \subseteq Cond
    /\ grade \in [Cond -> Nat]
    /\ age \in [Cond -> Nat]
    /\ pend \in [Item -> Waiting \cup {None}]
    /\ open \in [Cond -> Nat]
    /\ rep \in Reports \cup {None}
    /\ vAlm \subseteq Cond
    /\ told \in [Cond -> Int]
    /\ dropped \subseteq Cond

Init ==
    /\ items = {} /\ creating = {} /\ made = {}
    /\ grade = [c \in Cond |-> 0]
    /\ age = [c \in Cond |-> 0]
    /\ pend = [i \in Item |-> None]
    /\ open = [c \in Cond |-> 0]
    /\ rep = None
    /\ vAlm = {}
    /\ told = [c \in Cond |-> 0]
    /\ dropped = {}

Free == rep = None          \* m_mutexNetMgr can be taken

\* A condition that shares its item with none and was never deleted while
\* active: of these the table and the subscriber are promised the truth, and
\* for these "told" counts.
Alone(c) == \A d \in Cond : ItemOf[d] = ItemOf[c] => d = c
Sound == {c \in Cond : Alone(c)} \ dropped

---------------------------------------------------------------------------
(* Registration. *)

\* Register(), first critical section: the item.
Register(i) ==
    /\ Free /\ i \notin items
    /\ items' = items \cup {i}
    /\ creating' = creating \cup {i}
    /\ UNCHANGED <<made, data, rep, vAlm, told, dropped>>

\* Register(), second critical section: CreateCondition() makes whatever
\* condition has its item now and does not exist yet.
CreateCondition(i) ==
    /\ Free /\ i \in creating
    /\ creating' = creating \ {i}
    /\ made' = made \cup {c \in Cond : ItemOf[c] \in items}
    /\ UNCHANGED <<items, data, rep, vAlm, told, dropped>>

\* UnRegisterNmo(), UnRegisterModule(): the items and the conditions on them
\* are deleted.  The table and the waiting alarms stay as they are.
UnRegister(I) ==
    LET gone == {c \in made : ItemOf[c] \in I}
    IN  /\ Free
        /\ items' = items \ I
        /\ made' = made \ gone
        /\ grade' = [c \in Cond |-> IF c \in gone THEN 0 ELSE grade[c]]
        /\ age' = [c \in Cond |-> IF c \in gone THEN 0 ELSE age[c]]
        /\ dropped' = dropped \cup {c \in gone : grade[c] # 0}
        /\ UNCHANGED <<creating, pend, open, rep, vAlm, told>>

---------------------------------------------------------------------------
(* Report(): the item takes the value, then each condition on it looks.    *)
(* The mutex is recursive and held to the end, callbacks included.         *)

Report(i, v) ==
    /\ Free /\ i \in items
    /\ rep' = [item |-> i, val |-> v, say |-> None,
               todo |-> {c \in made : ItemOf[c] = i}]
    /\ UNCHANGED <<items, creating, made, data, vAlm, told, dropped>>

Active(c, g, a) ==
    /\ grade' = [grade EXCEPT ![c] = g]
    /\ age' = [age EXCEPT ![c] = a]

Say(c, kind) == rep' = [rep EXCEPT !.todo = @ \ {c}, !.say = [cond |-> c, kind |-> kind]]
Hush(c) == rep' = [rep EXCEPT !.todo = @ \ {c}]

\* A waiting alarm of the condition's item, whichever condition it is of.
NoConfirm(c) == pend[ItemOf[c]] # None

Table(c, g) ==
    /\ open' = [open EXCEPT ![c] = g]
    /\ UNCHANGED pend

\* AlmNew() that tells an alarm which has to wait.
AlmNewTold(c, g) ==
    /\ grade[c] = 0 /\ g # 0
    /\ Active(c, g, 0)
    /\ IF Keep[c] > 0
       THEN /\ pend' = [pend EXCEPT ![ItemOf[c]] = [cond |-> c, grade |-> g, age |-> 0]]
            /\ UNCHANGED open
       ELSE Table(c, g)
    /\ Say(c, "new")

\* The condition becomes true: the alarm waits, or enters the table at once.
AlmNew(c, g) ==
    /\ grade[c] = 0 /\ g # 0
    /\ Active(c, g, 0)
    /\ IF Keep[c] > 0
       THEN /\ pend' = [pend EXCEPT ![ItemOf[c]] = [cond |-> c, grade |-> g, age |-> 0]]
            /\ Hush(c)
            /\ UNCHANGED open
       ELSE Table(c, g) /\ Say(c, "new")

\* AlmChg() that begins the wait again.
AlmChgAnew(c, g) ==
    /\ grade[c] # 0 /\ g # 0 /\ g # grade[c]
    /\ Active(c, g, age[c])
    /\ IF NoConfirm(c)
       THEN /\ pend' = [pend EXCEPT ![ItemOf[c]].grade = g, ![ItemOf[c]].age = 0]
            /\ Hush(c)
            /\ UNCHANGED open
       ELSE Table(c, g) /\ Say(c, "chg")

\* Another sub-condition matches.
AlmChg(c, g) ==
    /\ grade[c] # 0 /\ g # 0 /\ g # grade[c]
    /\ Active(c, g, age[c])
    /\ IF NoConfirm(c)
       THEN /\ pend' = [pend EXCEPT ![ItemOf[c]].grade = g]
            /\ Hush(c)
            /\ UNCHANGED open
       ELSE Table(c, g) /\ Say(c, "chg")

\* AlmEnd() that leaves a waiting alarm.
AlmEndLeaves(c, g) ==
    /\ grade[c] # 0 /\ g = 0
    /\ Active(c, 0, 0)
    /\ Table(c, 0)
    /\ IF NoConfirm(c) THEN Hush(c) ELSE Say(c, "end")

\* No sub-condition matches any more.
AlmEnd(c, g) ==
    /\ grade[c] # 0 /\ g = 0
    /\ Active(c, 0, 0)
    /\ IF NoConfirm(c)
       THEN /\ pend' = [pend EXCEPT ![ItemOf[c]] = None]
            /\ Hush(c)
            /\ UNCHANGED open
       ELSE Table(c, 0) /\ Say(c, "end")

AlmSame(c, g) ==
    /\ g = grade[c]
    /\ Hush(c)
    /\ UNCHANGED data

\* CCondition::OnDataChange() with the table's part of OnAlmNotify().
OnDataChange(c) ==
    /\ ~Free /\ rep.say = None /\ c \in rep.todo
    /\ LET g == Match[c][rep.val]
       IN  AlmNew(c, g) \/ AlmChg(c, g) \/ AlmEnd(c, g) \/ AlmSame(c, g)
    /\ UNCHANGED <<items, creating, made, vAlm, told, dropped>>

Weight(kind) == CASE kind = "new" -> 1 [] kind = "chg" -> 0 [] kind = "end" -> -1

\* OnAlmNotify(), the subscriber, under m_MutexSubscrib.
Notify ==
    /\ ~Free /\ rep.say # None
    /\ LET s == rep.say
       IN  told' = IF s.cond \in Sound
                   THEN [told EXCEPT ![s.cond] = @ + Weight(s.kind)] ELSE told
    /\ rep' = [rep EXCEPT !.say = None]
    /\ UNCHANGED <<items, creating, made, data, vAlm, dropped>>

ReportDone ==
    /\ ~Free /\ rep.say = None /\ rep.todo = {}
    /\ rep' = None
    /\ UNCHANGED <<items, creating, made, data, vAlm, told, dropped>>

---------------------------------------------------------------------------
(* The timer: OnAlmConfirmTimeout(). *)

Due == {i \in Item : pend[i] # None /\ pend[i].age >= Keep[pend[i].cond]}

\* Under m_mutexNetMgr: alarms old enough move into the table and into vAlm.
TimerMove ==
    /\ Free /\ vAlm = {} /\ Due # {}
    /\ LET moved == {c \in Cond : ItemOf[c] \in Due /\ pend[ItemOf[c]].cond = c}
       IN  /\ open' = [c \in Cond |-> IF c \in moved THEN pend[ItemOf[c]].grade
                                                     ELSE open[c]]
           /\ vAlm' = moved
    /\ pend' = [i \in Item |-> IF i \in Due THEN None ELSE pend[i]]
    /\ UNCHANGED <<items, creating, made, grade, age, rep, told, dropped>>

\* Under m_MutexSubscrib only: whatever was reported since may be told first.
TimerNotify ==
    /\ vAlm # {}
    /\ told' = [c \in Cond |-> IF c \in vAlm \cap Sound THEN told[c] + 1 ELSE told[c]]
    /\ vAlm' = {}
    /\ UNCHANGED <<items, creating, made, data, rep, dropped>>

\* Time: time(0) against m_tmLastActive.
Older(a, c) == IF a < Keep[c] THEN a + 1 ELSE a
Tick ==
    /\ age' = [c \in Cond |-> IF grade[c] = 0 THEN age[c] ELSE Older(age[c], c)]
    /\ pend' = [i \in Item |-> IF pend[i] = None THEN None
                  ELSE [pend[i] EXCEPT !.age = Older(@, pend[i].cond)]]
    /\ <<age, pend>>' # <<age, pend>>
    /\ UNCHANGED <<items, creating, made, grade, open, rep, vAlm, told, dropped>>

---------------------------------------------------------------------------
Reporting ==
    \/ \E c \in Cond : OnDataChange(c)
    \/ Notify
    \/ ReportDone

Next ==
    \/ \E i \in Item : Register(i) \/ CreateCondition(i)
    \/ \E I \in SUBSET items : I # {} /\ UnRegister(I)
    \/ \E i \in Item, v \in Value : Report(i, v)
    \/ Reporting
    \/ TimerMove
    \/ TimerNotify
    \/ Tick

Spec == Init /\ [][Next]_vars

\* A Report() runs to its end, time passes, and the timer, which comes back
\* every two seconds, gets the mutex some time.
FairSpec ==
    /\ Spec
    /\ WF_vars(Reporting) /\ WF_vars(Tick)
    /\ SF_vars(TimerMove) /\ WF_vars(TimerNotify)

---------------------------------------------------------------------------
(* What the table promises. *)

\* The condition's alarm waits: with its grade, and as old as the condition.
Waits(c) == pend[ItemOf[c]] = [cond |-> c, grade |-> grade[c], age |-> age[c]]

\* The table tells the truth: a condition that is true either waits, with
\* nothing in the table, or stands in the table
\* with its present grade and has been true for all the time it had to be; a
\* condition that is false has no row and nothing waits that would make one
\* (OnAlmNotify(), OnAlmConfirmTimeout() and OnDataChange() together).
Honest ==
    \A c \in Sound :
        /\ grade[c] # 0 => \/ open[c] = 0 /\ Waits(c)
                           \/ open[c] = grade[c] /\ age[c] >= Keep[c]
                                /\ pend[ItemOf[c]] = None
        /\ grade[c] = 0 => open[c] = 0 /\ pend[ItemOf[c]] = None

Underway(c) ==
    (IF c \in vAlm THEN 1 ELSE 0)
    + (IF ~Free /\ rep.say # None /\ rep.say.cond = c THEN Weight(rep.say.kind) ELSE 0)

\* The subscriber misses nothing and hears nothing twice: the openings and the
\* endings it was told of, with those about to be told, differ by exactly the
\* alarm that is open, in whichever order the two threads told them.
Balanced ==
    \A c \in Sound :
        told[c] + Underway(c) = IF open[c] # 0 THEN 1 ELSE 0

\* A condition that stays true is announced: from when it becomes true it is
\* either told, or false again, or deleted.
Announced ==
    \A c \in Cond : Alone(c) =>
        ((c \in made /\ grade[c] # 0) ~> (told[c] = 1 \/ grade[c] = 0 \/ c \in dropped))
===========================================================================
