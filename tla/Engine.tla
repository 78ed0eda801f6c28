------------------------------- MODULE Engine -------------------------------
(***************************************************************************)
(* The hour-bucket diff engine, rs/src/engine.rs: how a fetched listing    *)
(* becomes hour buckets, what of it a watch sees, and what the engine      *)
(* reports when it compares a listing with the baseline kept for a         *)
(* (watch, cinema) pair.                                                   *)
(*                                                                         *)
(* A show is a number; equal numbers are shows with equal (tm, th, tp,     *)
(* is_imax).  The code keeps the shows of a bucket in a list sorted by all *)
(* four, so that the list is determined by how often each show is in it:   *)
(* here it is that bag.  A bucket key is date_id * 24 + hour, as in        *)
(* time_spec::bucket_key.  A payload lists each movie once.  Counts are    *)
(* u16 in the code: an hour of one cinema never lists 65536 shows, so no   *)
(* wrap-around is modelled.                                                *)
(***************************************************************************)
EXTENDS Naturals, Sequences, FiniteSets, Bags

CONSTANTS
  Movies,      \* movie ids
  Keys,        \* bucket keys (date_id * 24 + hour) that listings mention
  ImaxShows    \* the shows whose hall or type says IMAX

ASSUME KeysAreNumbers == Keys \subseteq Nat

-----------------------------------------------------------------------------
(* Snapshots: CinemaSnapshot::from_payload.                                *)

\* The shows of movie m in bucket k, counted and kept.  An entry whose date or time cannot be
\* parsed has a key outside Keys and lands in no bucket.
BucketOf(payload, m, k) ==
  LET mine == {i \in DOMAIN payload : payload[i].movie = m /\ payload[i].key = k}
      Listed(S) == {i \in mine : payload[i].show \in S}
      Shows(S) == [s \in {payload[i].show : i \in Listed(S)} |-> Cardinality(Listed({s}))]
  IN [total |-> Cardinality(Listed(Nat)), imax |-> Cardinality(Listed(ImaxShows)),
      total_shows |-> Shows(Nat), imax_shows |-> Shows(ImaxShows)]

FromPayload(payload) == [m \in Movies |-> [k \in Keys |-> BucketOf(payload, m, k)]]

-----------------------------------------------------------------------------
(* What a watch sees: the compiled filter applied to a snapshot.           *)

\* A filter is [movie, mask, imax_only].  A time range of more than five
\* years is accepted by the API and refused by compile_mask.
Compiles(filter) == filter.mask.type # "too_wide"

InMask(mask, k) ==
  \/ mask.type = "all"
  \/ mask.type = "daily_hours" /\ (k % 24) \in mask.hours
  \/ mask.type = "intervals" /\ k \in mask.keys

Count(filter, b) == IF filter.imax_only THEN b.imax ELSE b.total
ShowsIn(filter, b) == IF filter.imax_only THEN b.imax_shows ELSE b.total_shows

\* Only buckets inside the mask that hold a show the watch counts.
Current(filter, snap) ==
  LET buckets == snap[filter.movie]
      hit == {k \in Keys : InMask(filter.mask, k) /\ Count(filter, buckets[k]) > 0}
  IN [k \in hit |-> [count |-> Count(filter, buckets[k]),
                     shows |-> ShowsIn(filter, buckets[k])]]

-----------------------------------------------------------------------------
(* The comparison: evaluate_cinema and multiset_added.                     *)

\* multiset_added: what is left of `current` when equal shows of `previous` are used up.
MultisetAdded(current, previous) == current (-) previous

\* The bucket's count rose above what the baseline holds for it.
Grown(cur, old, k) ==
  cur[k].count > (IF k \in DOMAIN old THEN old[k].count ELSE 0)

\* A state that was never written (or no longer parses) reads as this one.
BlankState == [initialized |-> FALSE, buckets |-> <<>>]

NewState(filter, snap) == [initialized |-> TRUE, buckets |-> Current(filter, snap)]

\* Mutant: only a report is worth a write, so a baseline never shrinks.
EvaluateCinemaTold(filter, snap, prev) ==
  LET cur == Current(filter, snap)
      old == prev.buckets
      New(k) == MultisetAdded(cur[k].shows, IF k \in DOMAIN old THEN old[k].shows ELSE EmptyBag)
      told == {k \in DOMAIN cur : prev.initialized /\ Grown(cur, old, k) /\ New(k) # EmptyBag}
  IN [state |-> NewState(filter, snap),
      initialized |-> ~prev.initialized,
      added |-> [k \in told |-> New(k)],
      state_changed |-> ~prev.initialized \/ told # {}]

\* added maps each bucket that is reported to the shows reported for it.
EvaluateCinema(filter, snap, prev) ==
  LET cur == Current(filter, snap)
      old == prev.buckets
      New(k) == MultisetAdded(cur[k].shows, IF k \in DOMAIN old THEN old[k].shows ELSE EmptyBag)
      told == {k \in DOMAIN cur : prev.initialized /\ Grown(cur, old, k) /\ New(k) # EmptyBag}
  IN [state |-> NewState(filter, snap),
      initialized |-> ~prev.initialized,
      added |-> [k \in told |-> New(k)],
      state_changed |-> ~prev.initialized \/ old # cur]
=============================================================================
