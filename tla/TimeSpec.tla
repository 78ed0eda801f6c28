------------------------------ MODULE TimeSpec ------------------------------
(***************************************************************************)
(* The time rule of a watch, rs/src/time_spec.rs: how the rules a user     *)
(* types, or the JSON an API client sends, become a TimeSpec, what hour    *)
(* buckets it selects, and what auto-locking and the way back to text make *)
(* of it.                                                                  *)
(*                                                                         *)
(* A date is its day number, an hour bucket is date * 24 + hour.  A typed  *)
(* rule is a record and not a string: the words for "all", a date, a date  *)
(* with an hour range, an hour range for every day, anything else.         *)
(***************************************************************************)
EXTENDS Integers, SequencesExt

CONSTANTS
  Dates,       \* the dates rules mention
  FromHours,   \* the hours a range may begin with, as typed or sent
  ToHours,     \* the hours a range may end with
  DayHours,    \* the hours of a daily_hours request
  MaxSpan,     \* compile_mask refuses longer intervals: 24 * 366 * 5
  MaxRules     \* bound: how many rules one input has

ASSUME DatesAssumption == IsFiniteSet(Dates) /\ Dates \subseteq Nat /\ Dates # {}
ASSUME HoursAssumption == FromHours \cup ToHours \cup DayHours \subseteq Nat

VARIABLE input \* what the user or client has written so far

-----------------------------------------------------------------------------
(* Values.                                                                 *)

AllHours == [type |-> "all"]
Rejected == [type |-> "rejected"]
Hours(H) == IF H = 0..23 THEN AllHours ELSE [type |-> "daily_hours", hours |-> H]
Intervals(v) == [type |-> "intervals", intervals |-> v]

Interval(sd, sh, ed, eh) ==
  [start_date |-> sd, start_hour |-> sh, end_date |-> ed, end_hour |-> eh]

\* The first bucket of an interval and the first one after it.
Bounds(i) ==
  <<i.start_date * 24 + i.start_hour,
    IF i.end_hour = 24 THEN i.end_date * 24 + 24 ELSE i.end_date * 24 + i.end_hour>>

\* Mutant: midnight is left as hour 0 of the next day.
FromBoundsAtZero(b) == Interval(b[1] \div 24, b[1] % 24, b[2] \div 24, b[2] % 24)

\* An interval that ends at midnight is written as ending at 24 of the day before.
FromBounds(b) ==
  IF b[2] % 24 = 0
  THEN Interval(b[1] \div 24, b[1] % 24, b[2] \div 24 - 1, 24)
  ELSE Interval(b[1] \div 24, b[1] % 24, b[2] \div 24, b[2] % 24)

Earlier(a, b) == a[1] < b[1] \/ (a[1] = b[1] /\ a[2] < b[2])

\* Mutant: intervals that only touch are not joined.
JoinOverlapping(merged, b) ==
  IF merged # <<>> /\ b[1] < Last(merged)[2]
  THEN [merged EXCEPT ![Len(merged)] = <<@[1], Max({@[2], b[2]})>>]
  ELSE Append(merged, b)

\* The loop of normalize_intervals: an interval that begins by the end of the last joins it.
Join(merged, b) ==
  IF merged # <<>> /\ b[1] <= Last(merged)[2]
  THEN [merged EXCEPT ![Len(merged)] = <<@[1], Max({@[2], b[2]})>>]
  ELSE Append(merged, b)

Sorted(S) ==
  CHOOSE s \in [1..Cardinality(S) -> S] : \A m, n \in DOMAIN s : m < n => Earlier(s[m], s[n])

Merged(sorted) ==
  LET merged[n \in 0..Len(sorted)] == IF n = 0 THEN <<>> ELSE Join(merged[n - 1], sorted[n])
  IN merged[Len(sorted)]

NormalizeIntervals(S) ==
  LET merged == Merged(Sorted({b \in {Bounds(i) : i \in S} : b[1] < b[2]}))
  IN [n \in DOMAIN merged |-> FromBounds(merged[n])]

-----------------------------------------------------------------------------
(* Reading text and JSON.                                                  *)

\* parse_hour_range: whole hours, 24 only as an end, not empty.
GoodRange(r) == r.from < 24 /\ r.to <= 24 /\ r.from # r.to

Readable(r) == r.rule \in {"all", "day"} \/ (r.rule \in {"dated", "daily"} /\ GoodRange(r))

\* Mutant: a range past midnight ends on the day it begins.
DatedSameDay(r) ==
  IF r.rule = "day" THEN Interval(r.date, 0, r.date, 24) ELSE Interval(r.date, r.from, r.date, r.to)

\* A range that ends by its beginning runs on past midnight.
Dated(r) ==
  IF r.rule = "day" THEN Interval(r.date, 0, r.date, 24)
  ELSE IF r.to # 24 /\ r.to <= r.from THEN Interval(r.date, r.from, r.date + 1, r.to)
  ELSE Interval(r.date, r.from, r.date, r.to)

DailyHours(r) ==
  IF r.to <= r.from THEN (r.from..23) \cup (0..(r.to - 1)) ELSE r.from..(r.to - 1)

Parse(rules) ==
  LET Of(kinds) == {r \in ToSet(rules) : r.rule \in kinds}
      daily == UNION {DailyHours(r) : r \in Of({"daily"})}
      dated == {Dated(r) : r \in Of({"day", "dated"})}
  IN IF \E r \in ToSet(rules) : ~Readable(r) THEN Rejected
     ELSE IF rules = <<>> \/ Of({"all"}) # {} THEN AllHours
     ELSE IF daily # {} /\ dated # {} THEN Rejected
     ELSE IF daily # {} THEN Hours(daily)
     ELSE Intervals(NormalizeIntervals(dated))

\* Numbers of a JSON request are cut to eight bits before they are looked at.
U8(n) == n % 256

FromJson(v) ==
  LET Cut(i) == [i EXCEPT !.start_hour = U8(@), !.end_hour = U8(@)]
      hours == {h \in {U8(n) : n \in v.hours} : h < 24}
      sent == {Cut(i) : i \in ToSet(v.intervals)}
      Bad(i) == i.start_hour > 23 \/ i.end_hour > 24 \/ Bounds(i)[1] >= Bounds(i)[2]
  IN CASE v.type = "all" -> AllHours
       [] v.type = "daily_hours" -> IF hours = {} THEN Rejected ELSE Hours(hours)
       [] v.type = "intervals" ->
            IF sent = {} \/ \E i \in sent : Bad(i) THEN Rejected
            ELSE Intervals(NormalizeIntervals(sent))

ToJson(spec) ==
  [type |-> spec.type,
   hours |-> IF spec.type = "daily_hours" THEN spec.hours ELSE {},
   intervals |-> IF spec.type = "intervals" THEN spec.intervals ELSE <<>>]

Read == IF input.form = "text" THEN Parse(input.rules) ELSE FromJson(input.body)

-----------------------------------------------------------------------------
(* What a TimeSpec is used for.                                            *)

TooWide == [type |-> "too_wide"]

\* compile_mask: the buckets of the loop's mask, or none for a range of more than five years.
CompileMask(spec) ==
  IF spec.type # "intervals" THEN spec
  ELSE LET bounds == {Bounds(i) : i \in ToSet(spec.intervals)}
       IN IF \E b \in bounds : b[2] - b[1] > MaxSpan THEN TooWide
          ELSE [type |-> "intervals", keys |-> UNION {b[1]..(b[2] - 1) : b \in bounds}]

InMask(mask, k) ==
  \/ mask.type = "all"
  \/ mask.type = "daily_hours" /\ (k % 24) \in mask.hours
  \/ mask.type = "intervals" /\ k \in mask.keys

NoRange == <<>>

\* The hours [lo, hi) of a date that auto-locking asks Gofer for.
HourRange(spec, date) ==
  LET on == {i \in ToSet(spec.intervals) : i.start_date <= date /\ date <= i.end_date}
      First(i) == IF date = i.start_date THEN i.start_hour ELSE 0
      End(i) == IF date = i.end_date THEN i.end_hour ELSE 24
  IN CASE spec.type = "all" -> NoRange
       [] spec.type = "daily_hours" -> <<Min(spec.hours), Max(spec.hours) + 1>>
       [] spec.type = "intervals" ->
            IF on = {} THEN NoRange
            ELSE <<Min({First(i) : i \in on}), Max({End(i) : i \in on})>>

AllDatesPast(spec, today) ==
  spec.type = "intervals" /\ \A i \in ToSet(spec.intervals) : i.end_date < today

\* Mutant: the last hour is taken for the end.
AsRuleToLast(d, range) ==
  IF range = <<0, 24>> THEN [rule |-> "day", date |-> d]
  ELSE [rule |-> "dated", date |-> d, from |-> range[1], to |-> range[2] - 1]

AsRule(d, range) ==
  IF range = <<0, 24>> THEN [rule |-> "day", date |-> d]
  ELSE [rule |-> "dated", date |-> d, from |-> range[1], to |-> range[2]]

\* to_input: back to rules, runs of hours or one range for each date.
ToInput(spec) ==
  LET Run(s, e) == [rule |-> "daily", from |-> s, to |-> e]
      runs == {Run(s, e) : s \in 0..23, e \in 1..24}
      Whole(r) == /\ r.from < r.to /\ r.from..(r.to - 1) \subseteq spec.hours
                  /\ r.from - 1 \notin spec.hours /\ r.to \notin spec.hours
      dates == UNION {i.start_date..i.end_date : i \in ToSet(spec.intervals)}
  IN CASE spec.type = "all" -> <<>>
       [] spec.type = "daily_hours" -> SetToSeq({r \in runs : Whole(r)})
       [] spec.type = "intervals" -> SetToSeq({AsRule(d, HourRange(spec, d)) : d \in dates})

-----------------------------------------------------------------------------
(* Inputs: rules typed one after another, or a JSON body built up.         *)

Body(type) == [type |-> type, hours |-> {}, intervals |-> <<>>]

Init ==
  input \in {[form |-> "text", rules |-> <<>>]}
            \cup {[form |-> "json", body |-> Body(t)] : t \in {"all", "daily_hours", "intervals"}}

Rules ==
  {[rule |-> "all"], [rule |-> "other"]}
    \cup {[rule |-> "day", date |-> d] : d \in Dates}
    \cup [rule: {"dated"}, date: Dates, from: FromHours, to: ToHours]
    \cup [rule: {"daily"}, from: FromHours, to: ToHours]

TypeRule(r) ==
  /\ input.form = "text" /\ Len(input.rules) < MaxRules
  /\ input' = [input EXCEPT !.rules = Append(@, r)]

SendHour(h) ==
  /\ input.form = "json" /\ input.body.type = "daily_hours" /\ h \notin input.body.hours
  /\ input' = [input EXCEPT !.body.hours = @ \cup {h}]

SendInterval(i) ==
  /\ input.form = "json" /\ input.body.type = "intervals" /\ Len(input.body.intervals) < MaxRules
  /\ input' = [input EXCEPT !.body.intervals = Append(@, i)]

Next ==
  \/ \E r \in Rules : TypeRule(r)
  \/ \E h \in DayHours : SendHour(h)
  \/ \E sd, ed \in Dates, sh \in FromHours, eh \in ToHours : SendInterval(Interval(sd, sh, ed, eh))

Spec == Init /\ [][Next]_input

-----------------------------------------------------------------------------
(* Properties.                                                             *)

Window == 0..((Max(Dates) + 2) * 24 - 1)

\* The hours a rule speaks of, said hour by hour: a range covers so many hours from its first one.
Length(r) == IF r.to > r.from THEN r.to - r.from ELSE 24 + r.to - r.from

Says(r, k) ==
  \/ r.rule = "all"
  \/ r.rule = "day" /\ k \div 24 = r.date
  \/ r.rule = "dated" /\ k - (r.date * 24 + r.from) \in 0..(Length(r) - 1)
  \/ r.rule = "daily" /\ (k - r.from) % 24 < Length(r)

Asked(k) ==
  \/ input.form = "text" /\ (input.rules = <<>> \/ \E r \in ToSet(input.rules) : Says(r, k))
  \/ /\ input.form = "json"
     /\ \/ input.body.type = "all"
        \/ input.body.type = "daily_hours" /\ k % 24 \in input.body.hours
        \/ /\ input.body.type = "intervals"
           /\ \E i \in ToSet(input.body.intervals) : Bounds(i)[1] <= k /\ k < Bounds(i)[2]

Watched(spec) == LET mask == CompileMask(spec) IN {k \in Window : InMask(mask, k)}

Usable(spec) == CompileMask(spec).type \in {"all", "daily_hours", "intervals"}

\* No number of a JSON body is so large that it loses its upper bits.
Uncut ==
  input.form = "json" =>
    /\ input.body.hours \subseteq 0..255
    /\ \A i \in ToSet(input.body.intervals) : {i.start_hour, i.end_hour} \subseteq 0..255

\* The loop watches exactly the hours the user asked for: through parsing, merging of overlapping
\* and adjacent intervals, ranges past midnight, the row the rule is stored in and read back from
\* in every round, and the compiled mask.
WatchesWhatIsAsked ==
  Usable(Read) /\ Uncut => Watched(FromJson(ToJson(Read))) = {k \in Window : Asked(k)}

\* Two inputs that mean the same give the same TimeSpec, so that they share a filter_key and one
\* watch: the intervals are the maximal runs of the hours watched, in order, and a daily rule never
\* names all hours.
OneSpellingPerMeaning ==
  LET watched == Watched(Read)
      begins == {k \in watched : k - 1 \notin watched}
      ends == {k + 1 : k \in {j \in watched : j + 1 \notin watched}}
      runs == {b \in begins \X ends : b[1] < b[2] /\ b[1]..(b[2] - 1) \subseteq watched}
  IN /\ Usable(Read) /\ Read.type = "intervals" =>
          [n \in DOMAIN Read.intervals |-> Bounds(Read.intervals[n])] = Sorted(runs)
     /\ Read.type = "daily_hours" => Read.hours # {} /\ Read.hours # 0..23

\* Gofer is asked for the smallest range that holds every hour watched on that date: no new show
\* falls outside it, and its ends are watched hours.
RangeHoldsWatchedHours ==
  Usable(Read) /\ Read.type # "all" =>
    LET watched == Watched(Read)
    IN \A d \in 0..(Max(Dates) + 1) :
         LET hours == {h \in 0..23 : d * 24 + h \in watched}
         IN HourRange(Read, d) = IF hours = {} THEN NoRange ELSE <<Min(hours), Max(hours) + 1>>

\* A watch is over when no hour from today's midnight on is watched, and not before.
OverWhenNothingIsLeft ==
  Usable(Read) /\ Read.type = "intervals" =>
    \A today \in Dates : AllDatesPast(Read, today) <=> \A k \in Watched(Read) : k < today * 24

\* Opening the edit form of a watch and saving it unchanged changes nothing: parse reads the text
\* to_input writes back as the same TimeSpec (time_spec.rs:441), as long as the hours of each date
\* are one run.  A date with a gap is written as the range around it and loses the gap.
OneRun(hours) == \A a, b \in hours : a..b \subseteq hours

TextMeansTheSame ==
  LET HoursOf(d) == {k % 24 : k \in {j \in Watched(Read) : j \div 24 = d}}
  IN Usable(Read) /\ (Read.type = "intervals" => \A d \in 0..(Max(Dates) + 1) : OneRun(HoursOf(d)))
       => Parse(ToInput(Read)) = Read

=============================================================================
