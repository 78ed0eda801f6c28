---------------------------- MODULE SilentWindow ----------------------------
(***************************************************************************)
(* The daily silent window, rs/src/silent.rs, and the settings row it is   *)
(* kept in: what the panel and the API accept, which minutes of the day    *)
(* the loop and the lock notices treat as silent, and when a window that   *)
(* is open ends.  The clock runs on without jumps; daylight saving is not  *)
(* modelled.                                                               *)
(***************************************************************************)
EXTENDS Integers, TLAPS

CONSTANTS
  Hours,   \* the hours that are typed, those out of range included
  Minutes  \* the minutes that are typed

ASSUME TypedAssumption == Hours \subseteq Nat /\ Minutes \subseteq Nat

VARIABLES
  setting, \* the row silent_window: the minutes a window starts and ends at, or Empty
  minute   \* the minute of the day

vars == <<setting, minute>>

Day == 1440
Empty == [start_min |-> 0, end_min |-> 0]

-----------------------------------------------------------------------------
(* SilentWindow's functions.                                               *)

InRange(h, m) == h <= 23 /\ m <= 59

Window(sh, sm, eh, em) == [start_min |-> sh * 60 + sm, end_min |-> eh * 60 + em]

IsEmpty(w) == w.start_min = w.end_min

\* Mutant: a window that crosses midnight ends at midnight.
ContainsToMidnight(w, t) ==
  /\ ~IsEmpty(w)
  /\ IF w.start_min < w.end_min THEN w.start_min <= t /\ t < w.end_min ELSE t >= w.start_min

Contains(w, t) ==
  /\ ~IsEmpty(w)
  /\ IF w.start_min < w.end_min
     THEN w.start_min <= t /\ t < w.end_min
     ELSE t >= w.start_min \/ t < w.end_min

\* Mutant: the minutes to an end on the next day are not counted past midnight.
UntilEndSameDay(w, t) == IF t < w.end_min THEN w.end_min - t ELSE Day - t

\* The minutes next_end adds to the time it is asked at.
UntilEnd(w, t) ==
  IF IsEmpty(w) THEN 0
  ELSE IF w.start_min < w.end_min
       THEN IF t < w.end_min THEN w.end_min - t ELSE Day - t + w.end_min
       ELSE IF t >= w.start_min THEN Day - t + w.end_min
            ELSE IF t < w.end_min THEN w.end_min - t ELSE 0

-----------------------------------------------------------------------------

\* A new database is given the window 01:00-06:00.
Init == setting = Window(1, 0, 6, 0) /\ minute = 0

\* The panel's settings form and PATCH /settings refuse what does not parse.
Save(sh, sm, eh, em) ==
  /\ InRange(sh, sm) /\ InRange(eh, em)
  /\ setting' = Window(sh, sm, eh, em)
  /\ UNCHANGED minute

TurnOff == setting' = Empty /\ UNCHANGED minute

Tick == minute' = (minute + 1) % Day /\ UNCHANGED setting

Next ==
  \/ \E sh, eh \in Hours, sm, em \in Minutes : Save(sh, sm, eh, em)
  \/ TurnOff
  \/ Tick

Spec == Init /\ [][Next]_vars

-----------------------------------------------------------------------------

Silent == Contains(setting, minute)

\* SilentWindow's fields hold minutes of the day, 0..=1439.
TypeOK == setting \in [start_min: 0..(Day - 1), end_min: 0..(Day - 1)] /\ minute \in 0..(Day - 1)

\* While a window is open next_end names the first minute after it: every minute until then is
\* silent, that one is not.
EndsWhenItSays ==
  Silent =>
    LET n == UntilEnd(setting, minute)
    IN /\ n \in 1..(Day - 1)
       /\ \A k \in 0..(n - 1) : Contains(setting, (minute + k) % Day)
       /\ ~Contains(setting, (minute + n) % Day)

\* As the clock runs, silence begins at the minute set as the start and ends at the one set as the
\* end, and at no other: across midnight, and for windows that start or end there.
TurnsAtItsEnds ==
  [][minute' # minute =>
       /\ ~Silent /\ Silent' => minute' = setting.start_min
       /\ Silent /\ ~Silent' => minute' = setting.end_min]_vars

-----------------------------------------------------------------------------
(* Proofs.                                                                 *)

\* The fields stay minutes of the day.
THEOREM TypeCorrect == Spec => []TypeOK
<1>1. Init => TypeOK
  BY DEF Init, TypeOK, Window, Day
<1>2. TypeOK /\ [Next]_vars => TypeOK'
  <2> SUFFICES ASSUME TypeOK, [Next]_vars PROVE TypeOK'
    OBVIOUS
  <2>1. ASSUME NEW sh \in Hours, NEW eh \in Hours, NEW sm \in Minutes, NEW em \in Minutes,
               Save(sh, sm, eh, em)
        PROVE TypeOK'
    <3>1. sh \in Nat /\ eh \in Nat /\ sm \in Nat /\ em \in Nat
      BY TypedAssumption
    <3>2. sh * 60 + sm \in 0..(Day - 1) /\ eh * 60 + em \in 0..(Day - 1)
      BY <2>1, <3>1 DEF Save, InRange, Day
    <3> QED
      BY <2>1, <3>2 DEF Save, Window, TypeOK
  <2>2. CASE TurnOff
    BY <2>2 DEF TurnOff, TypeOK, Empty, Day
  <2>3. CASE Tick
    BY <2>3 DEF Tick, TypeOK, Day
  <2>4. CASE UNCHANGED vars
    BY <2>4 DEF vars, TypeOK
  <2> QED
    BY <2>1, <2>2, <2>3, <2>4 DEF Next
<1> QED
  BY <1>1, <1>2, PTL DEF Spec

\* The clock's arithmetic, for times up to a day ahead.
LEMMA Wraps ==
  \A a \in Nat : a < Day + Day => a % Day = IF a < Day THEN a ELSE a - Day
BY DEF Day

\* What next_end adds is right for every window and every minute inside it.
LEMMA UntilEndIsRight ==
  ASSUME NEW w, w \in [start_min: 0..(Day - 1), end_min: 0..(Day - 1)],
         NEW t, t \in 0..(Day - 1),
         Contains(w, t)
  PROVE /\ UntilEnd(w, t) \in 1..(Day - 1)
        /\ \A k \in 0..(UntilEnd(w, t) - 1) : Contains(w, (t + k) % Day)
        /\ ~Contains(w, (t + UntilEnd(w, t)) % Day)
<1>1. PICK s \in Int, e \in Int :
        /\ s = w.start_min /\ e = w.end_min /\ s # e
        /\ s >= 0 /\ s < Day /\ e >= 0 /\ e < Day
  <2>1. w.start_min \in 0..(Day - 1) /\ w.end_min \in 0..(Day - 1) /\ w.start_min # w.end_min
    BY DEF Contains, IsEmpty
  <2>2. \A m \in 0..(Day - 1) : m \in Int /\ m >= 0 /\ m < Day
    BY DEF Day
  <2> QED
    BY <2>1, <2>2
<1>2. t \in Int /\ t >= 0 /\ t < Day /\ Day = 1440
  BY DEF Day
<1>3. PICK n \in Int : n = UntilEnd(w, t)
  BY <1>1, <1>2 DEF UntilEnd
<1>4. \/ s <= t /\ t < e /\ n = e - t
      \/ e < s /\ s <= t /\ n = Day - t + e
      \/ e < s /\ t < e /\ n = e - t
  BY <1>1, <1>2, <1>3 DEF Contains, UntilEnd, IsEmpty
<1>5. n >= 1 /\ n < Day /\ t + n < Day + Day
  BY <1>1, <1>2, <1>4
<1>6. ASSUME NEW k \in 0..(n - 1) PROVE Contains(w, (t + k) % Day)
  <2>1. PICK a \in Int : a = t + k /\ a >= t /\ a < t + n
    BY <1>2
  <2>2. a % Day = IF a < Day THEN a ELSE a - Day
    BY <2>1, <1>2, <1>5, Wraps
  <2>3. \/ s < e /\ s <= a % Day /\ a % Day < e
        \/ e < s /\ (s <= a % Day \/ a % Day < e)
    BY <2>1, <2>2, <1>1, <1>2, <1>4
  <2> QED
    BY <1>1, <2>1, <2>3 DEF Contains, IsEmpty
<1>7. (t + n) % Day = e
  <2>1. (t + n) % Day = IF t + n < Day THEN t + n ELSE t + n - Day
    BY <1>2, <1>5, Wraps
  <2> QED
    BY <1>1, <1>2, <1>4, <2>1
<1>8. ~Contains(w, e)
  BY <1>1 DEF Contains, IsEmpty
<1>9. n \in 1..(Day - 1)
  BY <1>2, <1>5
<1> QED
  BY <1>3, <1>6, <1>7, <1>8, <1>9

\* next_end names the first minute after the open window.
THEOREM OpenWindowEnds == Spec => []EndsWhenItSays
<1>1. TypeOK => EndsWhenItSays
  BY UntilEndIsRight DEF TypeOK, EndsWhenItSays, Silent
<1> QED
  BY <1>1, TypeCorrect, PTL

\* Silence begins and ends at the minutes set.
THEOREM SilenceTurnsAtItsEnds == Spec => TurnsAtItsEnds
<1> DEFINE Turn == minute' # minute =>
                     /\ ~Silent /\ Silent' => minute' = setting.start_min
                     /\ Silent /\ ~Silent' => minute' = setting.end_min
<1>1. TypeOK /\ [Next]_vars => [Turn]_vars
  <2> SUFFICES ASSUME TypeOK, Next, minute' # minute PROVE Turn
    BY DEF vars
  <2>1. Tick
    BY DEF Next, Save, TurnOff
  <2>2. setting' = setting /\ minute' = IF minute = Day - 1 THEN 0 ELSE minute + 1
    BY <2>1 DEF Tick, TypeOK, Day
  <2>3. PICK s \in Int, e \in Int :
          /\ s = setting.start_min /\ e = setting.end_min
          /\ s >= 0 /\ s < Day /\ e >= 0 /\ e < Day
    <3>1. setting.start_min \in 0..(Day - 1) /\ setting.end_min \in 0..(Day - 1)
      BY DEF TypeOK
    <3>2. \A m \in 0..(Day - 1) : m \in Int /\ m >= 0 /\ m < Day
      BY DEF Day
    <3> QED
      BY <3>1, <3>2
  <2>4. PICK t \in Int, u \in Int :
          /\ t = minute /\ u = minute' /\ t >= 0 /\ t < Day /\ Day = 1440
          /\ u = IF t = Day - 1 THEN 0 ELSE t + 1
    BY <2>2 DEF TypeOK, Day
  <2>5. Silent <=> s # e /\ IF s < e THEN s <= t /\ t < e ELSE t >= s \/ t < e
    BY <2>3, <2>4 DEF Silent, Contains, IsEmpty
  <2>6. Silent' <=> s # e /\ IF s < e THEN s <= u /\ u < e ELSE u >= s \/ u < e
    BY <2>2, <2>3, <2>4 DEF Silent, Contains, IsEmpty
  <2>7. /\ ~Silent /\ Silent' => u = s
        /\ Silent /\ ~Silent' => u = e
    BY <2>3, <2>4, <2>5, <2>6
  <2> QED
    BY <2>3, <2>4, <2>7
<1> QED
  BY <1>1, TypeCorrect, PTL DEF Spec, TurnsAtItsEnds
=============================================================================
