---------------------------- MODULE AlertLedger -----------------------------
(***************************************************************************)
(* What the monitoring promises of its alerts, without the loop.  For      *)
(* every (watch, cinema) pair there is at most one baseline.  It changes   *)
(* by commits, which are counted, and by being dropped.  An alert tells    *)
(* what the newest commit added to the one before it: it is never raised   *)
(* of a first baseline, of a commit that was overwritten, or twice.        *)
(*                                                                         *)
(* Nothing promises that an alert is raised: a crash between the commit    *)
(* and the alert loses it.                                                 *)
(***************************************************************************)
EXTENDS Naturals

CONSTANTS
  Pairs,      \* what has a baseline: a watch and a cinema
  Values,     \* what a baseline may hold
  NoBaseline

VARIABLES
  baseline,   \* pair -> its baseline or NoBaseline
  commits,    \* pair -> how often its baseline was written
  alerted     \* the alerts so far: pairs and the number of the commit they tell

vars == <<baseline, commits, alerted>>

Init ==
  /\ baseline = [p \in Pairs |-> NoBaseline]
  /\ commits = [p \in Pairs |-> 0]
  /\ alerted = {}

\* A listing differs from the baselines of some pairs, and replaces them at once.
Commit(S) ==
  /\ baseline' \in [Pairs -> Values \cup {NoBaseline}]
  /\ \A p \in S : baseline'[p] # NoBaseline
  /\ \A p \in Pairs \ S : baseline'[p] = baseline[p]
  /\ commits' = [p \in Pairs |-> IF p \in S THEN commits[p] + 1 ELSE commits[p]]
  /\ UNCHANGED alerted

\* What a watch looks for has changed, or the watch has gone.
Drop(S) ==
  /\ baseline' = [p \in Pairs |-> IF p \in S THEN NoBaseline ELSE baseline[p]]
  /\ UNCHANGED <<commits, alerted>>

Alert(S) ==
  /\ \A p \in S : commits[p] >= 2 /\ <<p, commits[p]>> \notin alerted
  /\ alerted' = alerted \cup {<<p, commits[p]>> : p \in S}
  /\ UNCHANGED <<baseline, commits>>

Next == \E S \in SUBSET Pairs : Commit(S) \/ Drop(S) \/ Alert(S)

Spec == Init /\ [][Next]_vars
=============================================================================
