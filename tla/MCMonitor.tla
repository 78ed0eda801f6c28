------------------------------ MODULE MCMonitor ------------------------------
(***************************************************************************)
(* Instances of Monitor for TLC: one movie, one or two hours, and listings *)
(* that gain, lose and swap shows.                                         *)
(***************************************************************************)
EXTENDS Monitor

Seventh == 7       \* bucket keys: 07:00 and 19:00 of day 0
Nineteenth == 19

At(show, key) == [movie |-> 1, key |-> key, show |-> show]

MCMovies == {1}
MCKeys == {Seventh, Nineteenth}
MCImax == {2}

AnyTime == [type |-> "all", hours |-> {}, keys |-> {}]
TooWide == [type |-> "too_wide", hours |-> {}, keys |-> {}]

All == [movie |-> 1, mask |-> AnyTime, imax_only |-> FALSE]
Imax == [movie |-> 1, mask |-> AnyTime, imax_only |-> TRUE]
Uncompilable == [movie |-> 1, mask |-> TooWide, imax_only |-> FALSE]

\* Nothing, one plain show, a plain and an IMAX show in the hour.
Growing == {<<>>, <<At(1, Seventh)>>, <<At(2, Seventh), At(1, Seventh)>>}
OneOrNone == {<<>>, <<At(1, Seventh)>>}
Static == {<<At(1, Seventh)>>}

AnyFilter == {All, Imax, Uncompilable}
JustAll == {All}

=============================================================================
