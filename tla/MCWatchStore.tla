---------------------------- MODULE MCWatchStore ----------------------------
(* Instances of WatchStore for TLC: which requests are sent.               *)
EXTENDS WatchStore, TLC

CONSTANTS w1, w2, m1, m2, c1, c2, wx, autolock

Edit(movie, cinemas, enabled, auto) ==
  [movie |-> movie, cinemas |-> cinemas, enabled |-> enabled, auto_lock |-> auto]

Create(movie, cinemas, auto, notify) ==
  [movie |-> movie, cinemas |-> cinemas, auto_lock |-> auto, notify |-> notify]

MCChannels == <<wx, autolock>>

\* Two filters, with and without auto-locking; a blank entry is dropped.
MCSpecs == {Create(m1, {c1, Blank}, FALSE, <<wx>>), Create(m1, {c2}, TRUE, <<>>)}

\* Edits from one filter to the other, of the movie alone, of the auto-lock flag alone.
MCPatches ==
  {Edit(Keep, {c1}, Keep, Keep), Edit(m1, {c2}, Keep, Keep), Edit(m2, Keep, Keep, Keep),
   Edit(Keep, Keep, Keep, TRUE)}

IdSymmetry == Permutations(Ids)
=============================================================================
