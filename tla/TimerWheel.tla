------------------------------ MODULE TimerWheel ------------------------------
(***************************************************************************)
(* TimerWheel of GameServer: the sink of a periodic event.  OnEvent takes  *)
(* the entities that are due out of the ordered set, calls their timers    *)
(* one after the other and arms the periodic ones again.  A timer that is  *)
(* called may add and delete timers, itself too.                           *)
(*                                                                         *)
(* Time is GetTickCount, which starts over after Wrap ticks.  The entities *)
(* of one moment are ordered by their addresses, so an entity gets any     *)
(* address that is free.  The build is one without assertions: with them,  *)
(* OnEvent aborts if a timer is due in the very tick it is called in.      *)
(***************************************************************************)
EXTENDS Naturals, Sequences, SequencesExt

CONSTANTS Timers,       \* the objects that implement ITimer
          Address,      \* addresses of entities: numbers
          Wrap,         \* number of ticks after which GetTickCount starts over
          MaxTick,      \* bound: ticks that pass
          FirstTicks,   \* what GetTickCount may say at first
          Delays,       \* arguments when of AddTimer
          Intervals     \* arguments interval of AddTimer

ASSUME TimerAssumption ==
    /\ Address \subseteq Nat /\ Wrap \in Nat \ {0} /\ MaxTick \in Nat
    /\ FirstTicks \subseteq 0 .. Wrap - 1
    /\ Delays \subseteq Nat /\ Intervals \subseteq Nat

VARIABLES
    now,         \* time; GetTickCount says now % Wrap
    allTimers,   \* _allTimers: pairs of a tick and an address
    heap,        \* the entities that exist
    expired,     \* expiredTimes from iter on: addresses
    nowTick,     \* the time whose tick is nowTick of OnEvent
    tpc,         \* "idle", or OnEvent before or in a call of OnTimer
    silent,      \* history: timers deleted while no copy of them waited, and not added since
    twice,       \* history: timers added while a copy of them waited
    early,       \* history: OnTimer was called before a time in the first round of ticks
    loud         \* history: timers called although they were silent

timerVars == <<now, allTimers, heap, expired, nowTick, tpc, silent, twice, early, loud>>

\* An entity; due is the time that when stands for.
Entity == [timer : Timers, when : 0 .. Wrap - 1, interval : Intervals, due : Nat]

NoEntities == [a \in {} |-> a]

TimerInit ==
    /\ now \in FirstTicks
    /\ allTimers = {} /\ heap = NoEntities
    /\ expired = <<>> /\ nowTick = 0 /\ tpc = "idle"
    /\ silent = {} /\ twice = {} /\ early = FALSE /\ loud = {}

Tick == now % Wrap
At(when, a) == [when |-> when, ent |-> a]

\* The order of the set.
Before(x, y) == x.when < y.when \/ (x.when = y.when /\ x.ent < y.ent)

Held == {x.ent : x \in allTimers}

\* Mutant: the search begins where OnEvent ends.
MutHolder(t) == {x \in allTimers : heap[x.ent].timer = t /\ x.when >= Tick}

Holder(t) == {x \in allTimers : heap[x.ent].timer = t}
First(S) == CHOOSE x \in S : \A y \in S \ {x} : Before(x, y)
Rank(S, x) == Cardinality({y \in S : Before(y, x)})
Nth(S, i) == CHOOSE x \in S : Rank(S, x) = i - 1

Without(h, a) == [b \in DOMAIN h \ {a} |-> h[b]]

-------------------------------------------------------------------------------
TickPasses ==
    /\ now < MaxTick
    /\ now' = now + 1
    /\ UNCHANGED <<allTimers, heap, expired, nowTick, tpc, silent, twice, early, loud>>

\* The application adds and deletes timers between events and in OnTimer.
AppRuns == tpc \in {"idle", "timer"}

\* A copy of the timer waits to be called by OnEvent, or is being called.
Copied(t) == \E a \in ToSet(expired) : heap[a].timer = t

\* AddTimer(timer, when, interval): refused if the set holds one of that timer.
AddTimer(t, when, interval) ==
    /\ AppRuns /\ Holder(t) = {}
    /\ \E a \in Address \ DOMAIN heap :
          /\ heap' = [b \in DOMAIN heap \cup {a} |->
                        IF b = a THEN [timer |-> t, when |-> (Tick + when) % Wrap,
                                       interval |-> interval, due |-> now + when]
                        ELSE heap[b]]
          /\ allTimers' = allTimers \cup {At((Tick + when) % Wrap, a)}
    /\ silent' = silent \ {t}
    /\ twice' = IF Copied(t) THEN twice \cup {t} ELSE twice
    /\ UNCHANGED <<now, expired, nowTick, tpc, early, loud>>

\* DelTimer(timer): the first entity of the timer leaves the set.
DelTimer(t) ==
    /\ AppRuns
    /\ IF Holder(t) = {}
       THEN UNCHANGED <<allTimers, heap>>
       ELSE /\ allTimers' = allTimers \ {First(Holder(t))}
            /\ heap' = Without(heap, First(Holder(t)).ent)
    /\ silent' = IF Copied(t) THEN silent ELSE silent \cup {t}
    /\ UNCHANGED <<now, expired, nowTick, tpc, twice, early, loud>>

\* Mutant: the copies stay in the set.
MutErase(due) == allTimers

Erase(due) == allTimers \ due

\* Mutant: the sentry is one tick late.
MutDue == {x \in allTimers : x.when + 1 < Tick}

\* Everything below the sentry (nowTick, NULL).
Due == {x \in allTimers : x.when < Tick}

OnEvent ==
    /\ tpc = "idle"
    /\ nowTick' = now
    /\ expired' = [i \in 1 .. Cardinality(Due) |-> Nth(Due, i).ent]
    /\ allTimers' = Erase(Due)
    /\ tpc' = "next"
    /\ UNCHANGED <<now, heap, silent, twice, early, loud>>

OnEventDone ==
    /\ tpc = "next" /\ expired = <<>>
    /\ tpc' = "idle" /\ nowTick' = 0
    /\ UNCHANGED <<now, allTimers, heap, expired, silent, twice, early, loud>>

\* iter->second->_timer->OnTimer(nowTick) is called ...
CallOnTimer ==
    /\ tpc = "next" /\ expired # <<>>
    /\ LET e == heap[Head(expired)] IN
          /\ early' = (early \/ (now < e.due /\ e.due < Wrap))
          /\ loud' = loud \cup ({e.timer} \cap silent)
    /\ tpc' = "timer"
    /\ UNCHANGED <<now, allTimers, heap, expired, nowTick, silent, twice>>

\* Mutant: the interval counts from the start of the clock.
MutNextWhen(interval) == interval % Wrap

NextWhen(interval) == (nowTick + interval) % Wrap

\* ... and returns: the entity is armed again, or deleted.
OnTimerReturns ==
    /\ tpc = "timer"
    /\ LET a == Head(expired)
           e == heap[a]
       IN IF e.interval = 0
          THEN heap' = Without(heap, a) /\ UNCHANGED allTimers
          ELSE /\ heap' = [heap EXCEPT ![a].when = NextWhen(e.interval),
                                       ![a].due = nowTick + e.interval]
               /\ allTimers' = allTimers \cup {At(NextWhen(e.interval), a)}
    /\ expired' = Tail(expired)
    /\ tpc' = "next"
    /\ UNCHANGED <<now, nowTick, silent, twice, early, loud>>

\* The thread that calls the sink: the event is set again and again, and every OnTimer
\* returns.
TimerStep == OnEvent \/ OnEventDone \/ CallOnTimer \/ OnTimerReturns

TimerNext ==
    \/ TickPasses
    \/ \E t \in Timers, w \in Delays, i \in Intervals : AddTimer(t, w, i)
    \/ \E t \in Timers : DelTimer(t)
    \/ TimerStep

TimerSpec == TimerInit /\ [][TimerNext]_timerVars

TimerFairness == WF_timerVars(TimerStep)

-------------------------------------------------------------------------------
(* Properties *)

\* Whatever the timers add and delete while OnEvent walks its copies, every entity is in
\* one place, the set or the rest of the copies, and in no other: none is called or
\* deleted after its deletion, none is lost.
EntitiesOwned ==
    /\ heap \in [DOMAIN heap -> Entity]
    /\ DOMAIN heap = Held \cup ToSet(expired)
    /\ Held \cap ToSet(expired) = {} /\ IsInjective(expired)
    /\ \A x \in allTimers : x.when = heap[x.ent].when
    /\ Cardinality(Held) = Cardinality(allTimers)

\* No timer is called before its time, up to the tick at which the clock starts over: the
\* time of a timer that is added shortly before lies behind the clock.
NeverEarly == ~early

\* A timer that is deleted between two events, or by the OnTimer of another timer while
\* no copy of it waits, is not called before it is added again: its owner may delete it.
\* A timer that was once added while a copy of it waited, by its own OnTimer or by that of
\* a timer called before it, has had two entities, and DelTimer deletes one.
DeletedIsSilent == loud \subseteq twice

\* A timer whose time is over is called, or deleted, before the clock starts over.
DueFires ==
    \A a \in Address :
        (a \in Held /\ heap[a].due < now /\ now < Wrap) ~> (a \notin Held \/ now >= Wrap)
===============================================================================
