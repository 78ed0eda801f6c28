----------------------------- MODULE WatchStore -----------------------------
(***************************************************************************)
(* The watch rows and what hangs on them, as the handlers of the API and   *)
(* of the panel change them: creation with reuse, edits with merging,      *)
(* toggles, channel bindings and subscriptions (rs/src/db.rs, server/api.rs*)
(* and server/web.rs).                                                     *)
(*                                                                         *)
(* Every SQL statement outside a transaction, and every transaction, is    *)
(* one step; what a handler has read stays in its record until it writes.  *)
(* A filter is a movie, which stands for movie_id, time_spec and           *)
(* imax_only together, and a set of cinemas.  Everything that references a *)
(* watch is deleted with it, so that the rows of all tables that belong to *)
(* a watch are fields of its record.                                       *)
(***************************************************************************)
EXTENDS Naturals, FiniteSets, SequencesExt

CONSTANTS
  Ids,         \* watch ids, none of them drawn twice
  Movies,      \* the part of a filter besides the cinemas
  Cinemas,
  Blank,       \* a cinema entry of white space
  Users,
  Channels,    \* notification channels, in a fixed order
  AutoLock,    \* the channel autolock-local
  Handlers,    \* requests handled at the same time
  Specs,       \* creation requests: [movie, cinemas, auto_lock, notify]
  Patches,     \* edits: [movie, cinemas, enabled, auto_lock], a field may be Keep
  Keep,
  MaxRequests, \* bound: requests in a behaviour
  MaxFaults    \* bound: failing statements and requests cut off

VARIABLES
  watches, \* the row of a watch with all that references it, or None
  drawn,   \* ids given out so far
  op,      \* what each handler is doing
  requests,
  faults,
  \* history, read by properties only
  overlapped, \* watches that two requests have been at work on at the same time
  cut         \* watches a request left before it got to their AUTO LOCK channel

vars == <<watches, drawn, op, requests, faults, overlapped, cut>>

\* The id of a channel is its key, and that of the autolock channel is in every database.
ASSUME ChannelsAssumption ==
  /\ Channels \in Seq(Range(Channels)) /\ IsInjective(Channels)
  /\ AutoLock \in Range(Channels)

\* What requests may hold: blank cinemas too, and channels there are.
ASSUME RequestsAssumption ==
  /\ Specs \subseteq [movie : Movies, cinemas : SUBSET (Cinemas \cup {Blank}), auto_lock : BOOLEAN,
                     notify : Seq(Range(Channels))]
  /\ Patches \subseteq [movie : Movies \cup {Keep}, cinemas : {Keep} \cup SUBSET (Cinemas \cup {Blank}),
                       enabled : BOOLEAN \cup {Keep}, auto_lock : BOOLEAN \cup {Keep}]
  /\ Keep \notin BOOLEAN

-----------------------------------------------------------------------------
(* Rows.                                                                   *)

Key(movie, cinemas) == [movie |-> movie, cinemas |-> cinemas]

Unbound == [on |-> FALSE, stored |-> FALSE, own |-> FALSE]

\* A new row: enabled, no channel bound, nobody subscribed, no baseline and no lock state.
NewRow(movie, cinemas, auto_lock) ==
  [filter_key |-> Key(movie, cinemas), movie |-> movie, cinemas |-> cinemas, enabled |-> TRUE,
   auto_lock |-> auto_lock, channels |-> [c \in Range(Channels) |-> Unbound], users |-> {},
   known |-> FALSE]

\* No row of this id: it is not drawn yet or deleted.
None == [gone |-> TRUE]

Exists(w) == watches[w] # None
Rows == {w \in Ids : Exists(w)}
WithKey(key) == {w \in Rows : watches[w].filter_key = key}

\* Blank entries are dropped on creation only.
Trimmed(cinemas) == cinemas \ {Blank}

-----------------------------------------------------------------------------
(* Handlers.  A handler works through a queue of jobs on one watch.        *)

Idle == [at |-> "idle"]

SetJob(c, on, strict) == [do |-> "set", channel |-> c, on |-> on, strict |-> strict]
BindJob(c) == [do |-> "bind", channel |-> c, strict |-> FALSE]
UpdateJob(patch, strict) == [do |-> "update", patch |-> patch, strict |-> strict]

AutoLockPatch(on) == [movie |-> Keep, cinemas |-> Keep, enabled |-> Keep, auto_lock |-> on]

Working(w, jobs) == IF jobs = <<>> THEN Idle ELSE [at |-> "jobs", id |-> w, jobs |-> jobs]

Job(h) == Head(op[h].jobs)
Later(h) == Tail(op[h].jobs)

\* An error ends a handler that propagates it and is passed over by one that does not.
Fail(h) == op' = [op EXCEPT ![h] = IF Job(h).strict THEN Idle ELSE Working(op[h].id, Later(h))]

Done(h) == op' = [op EXCEPT ![h] = Working(op[h].id, Later(h))]

Begin(h, work) ==
  /\ op[h] = Idle /\ requests < MaxRequests
  /\ op' = [op EXCEPT ![h] = work]
  /\ requests' = requests + 1

Init ==
  /\ watches = [w \in Ids |-> None]
  /\ drawn = {}
  /\ op = [h \in Handlers |-> Idle]
  /\ requests = 0 /\ faults = 0
  /\ overlapped = {} /\ cut = {}

-----------------------------------------------------------------------------
(* Creation.                                                               *)

PostWatch(h, spec) ==
  /\ spec.cinemas # {}
  /\ Begin(h, [at |-> "find", spec |-> [spec EXCEPT !.cinemas = Trimmed(@)]])
  /\ UNCHANGED <<watches, drawn>>

Notify(spec) == [n \in DOMAIN spec.notify |-> SetJob(spec.notify[n], TRUE, FALSE)]

\* Mutant: a creation only sets the flag.
FollowNotify(spec) == Notify(spec)

\* The autolock channel is bound after the row is written, the channels of the request last.
Follow(spec) == IF spec.auto_lock THEN <<SetJob(AutoLock, TRUE, FALSE)>> \o Notify(spec) ELSE Notify(spec)

FindExisting(h) ==
  /\ op[h].at = "find"
  /\ LET found == WithKey(Key(op[h].spec.movie, op[h].spec.cinemas))
     IN op' = [op EXCEPT ![h] =
                 IF found = {} THEN [@ EXCEPT !.at = "insert"]
                 ELSE [at |-> "reuse", id |-> CHOOSE w \in found : TRUE, spec |-> @.spec]]
  /\ UNCHANGED <<watches, drawn, requests>>

\* A repeated creation may turn auto-locking on and never off.
Reuse(h) ==
  /\ op[h].at = "reuse"
  /\ watches' = IF op[h].spec.auto_lock /\ Exists(op[h].id)
                THEN [watches EXCEPT ![op[h].id].auto_lock = TRUE] ELSE watches
  /\ op' = [op EXCEPT ![h] = Working(@.id, Follow(@.spec))]
  /\ UNCHANGED <<drawn, requests>>

\* filter_key is UNIQUE: the insert fails when another creation was faster.
Insert(h) ==
  /\ op[h].at = "insert"
  /\ LET spec == op[h].spec
     IN \/ /\ WithKey(Key(spec.movie, spec.cinemas)) # {}
           /\ op' = [op EXCEPT ![h] = Idle]
           /\ UNCHANGED <<watches, drawn>>
        \/ /\ WithKey(Key(spec.movie, spec.cinemas)) = {}
           /\ \E w \in Ids \ drawn :
                /\ watches' = [watches EXCEPT ![w] = NewRow(spec.movie, spec.cinemas, spec.auto_lock)]
                /\ drawn' = drawn \cup {w}
                /\ op' = [op EXCEPT ![h] = Working(w, Follow(spec))]
  /\ UNCHANGED requests

-----------------------------------------------------------------------------
(* Requests on a watch that exists or did when its page was opened.        *)

PatchWatch(h, w, patch) ==
  /\ Begin(h, Working(w, <<UpdateJob(patch, TRUE)>>))
  /\ UNCHANGED <<watches, drawn>>

\* Each channel in turn; for the autolock channel the row comes first.
PutJobs(chosen) ==
  LET sets == [n \in DOMAIN Channels |-> SetJob(Channels[n], Channels[n] \in chosen, TRUE)]
      place == CHOOSE n \in DOMAIN Channels : Channels[n] = AutoLock
  IN InsertAt(sets, place, UpdateJob(AutoLockPatch(AutoLock \in chosen), TRUE))

PutChannels(h, w, chosen) ==
  /\ Begin(h, Working(w, PutJobs(chosen)))
  /\ UNCHANGED <<watches, drawn>>

\* The panel's channel button reads whether the channel is bound, and enabled for everyone, and asks
\* for the opposite; a failing read counts as a no.
ToggleChannel(h, w, c) ==
  /\ \E seen \in BOOLEAN :
       LET next == ~(seen /\ Exists(w) /\ watches[w].channels[c].on)
           set == <<SetJob(c, next, FALSE)>>
       IN Begin(h, Working(w, IF c = AutoLock
                              THEN <<UpdateJob(AutoLockPatch(next), FALSE)>> \o set ELSE set))
  /\ UNCHANGED <<watches, drawn>>

\* Saving a channel's own configuration binds it too.
ConfigureChannel(h, w, c) ==
  /\ LET bind == <<BindJob(c)>>
     IN Begin(h, Working(w, IF c = AutoLock
                            THEN <<UpdateJob(AutoLockPatch(TRUE), FALSE)>> \o bind ELSE bind))
  /\ UNCHANGED <<watches, drawn>>

\* The panel's enable button reads the row and writes the opposite later.
ToggleWatch(h, w) ==
  /\ Exists(w)
  /\ Begin(h, [at |-> "toggle", id |-> w, enabled |-> ~watches[w].enabled])
  /\ UNCHANGED <<watches, drawn>>

SetWatchEnabled(h) ==
  /\ op[h].at = "toggle"
  /\ watches' = IF Exists(op[h].id)
                THEN [watches EXCEPT ![op[h].id].enabled = op[h].enabled] ELSE watches
  /\ op' = [op EXCEPT ![h] = Idle]
  /\ UNCHANGED <<drawn, requests>>

-----------------------------------------------------------------------------
(* Channel jobs.                                                           *)

\* Mutant: unbinding deletes the row.
TurnedAfresh(binding, on) == [on |-> on, stored |-> on, own |-> on /\ binding.own]

\* Unbinding keeps the row with its configuration.
Turned(binding, on) == [binding EXCEPT !.on = on, !.stored = @ \/ on]

\* Binding a watch that is gone breaks a foreign key.
SetWatchChannel(h) ==
  /\ op[h].at = "jobs" /\ Job(h).do = "set"
  /\ LET w == op[h].id
         c == Job(h).channel
     IN \/ /\ Exists(w)
           /\ watches' = [watches EXCEPT ![w].channels[c] =
                            Turned(@, Job(h).on)]
           /\ Done(h)
        \/ ~Exists(w) /\ ~Job(h).on /\ Done(h) /\ UNCHANGED watches
        \/ ~Exists(w) /\ Job(h).on /\ Fail(h) /\ UNCHANGED watches
  /\ UNCHANGED <<drawn, requests>>

BindWatchChannel(h) ==
  /\ op[h].at = "jobs" /\ Job(h).do = "bind"
  /\ LET w == op[h].id
     IN \/ /\ Exists(w)
           /\ watches' = [watches EXCEPT ![w].channels[Job(h).channel] =
                            [on |-> TRUE, stored |-> TRUE, own |-> TRUE]]
           /\ Done(h)
        \/ ~Exists(w) /\ Fail(h) /\ UNCHANGED watches
  /\ UNCHANGED <<drawn, requests>>

-----------------------------------------------------------------------------
(* update_watch.                                                           *)

ReadRow(h) ==
  /\ op[h].at = "jobs" /\ Job(h).do = "update"
  /\ \/ ~Exists(op[h].id) /\ Fail(h)
     \/ /\ Exists(op[h].id)
        /\ LET row == watches[op[h].id]
           IN op' = [op EXCEPT ![h] =
                       [at |-> "cinemas", id |-> @.id, jobs |-> @.jobs,
                        old |-> [movie |-> row.movie, enabled |-> row.enabled,
                                 filter_key |-> row.filter_key]]]
  /\ UNCHANGED <<watches, drawn, requests>>

\* Mutant: the auto-lock flag is read like a field that is always sent.
OrSent(field, old) == field

Or(field, old) == IF field = Keep THEN old ELSE field

\* The row as it is to be, from the row and the cinemas that were read.
Wanted(patch, old, cinemas) ==
  [movie |-> Or(patch.movie, old.movie), cinemas |-> Or(patch.cinemas, cinemas),
   enabled |-> Or(patch.enabled, old.enabled)]

\* Mutant: only the part besides the cinemas is compared.
FilterChangedButCinemas(new, old) == new.movie # old.filter_key.movie

FilterChanged(new, old) == Key(new.movie, new.cinemas) # old.filter_key

ReadCinemas(h) ==
  /\ op[h].at = "cinemas"
  /\ LET cinemas == IF Exists(op[h].id) THEN watches[op[h].id].cinemas ELSE {}
         new == Wanted(Job(h).patch, op[h].old, cinemas)
         changed == FilterChanged(new, op[h].old)
     IN op' = [op EXCEPT ![h] =
                 [at |-> IF changed THEN "target" ELSE "write", id |-> @.id, jobs |-> @.jobs,
                  new |-> new, changed |-> changed]]
  /\ UNCHANGED <<watches, drawn, requests>>

LookForTarget(h) ==
  /\ op[h].at = "target"
  /\ LET found == WithKey(Key(op[h].new.movie, op[h].new.cinemas)) \ {op[h].id}
     IN op' = [op EXCEPT ![h] =
                 IF found = {} THEN [@ EXCEPT !.at = "write"]
                 ELSE [at |-> "merge", id |-> @.id, jobs |-> @.jobs,
                       into |-> CHOOSE w \in found : TRUE]]
  /\ UNCHANGED <<watches, drawn, requests>>

\* A binding the target has stays as it is; one it lacks is copied without its configuration.
MergedChannels(from, to) ==
  [c \in DOMAIN to |-> IF to[c].stored THEN to[c] ELSE [from[c] EXCEPT !.own = FALSE]]

\* Mutant: the subscribers stay behind.
MergedUsersLeft(from, to) == to

MergedUsers(from, to) == from \cup to

HasCopies(row) == row.users # {} \/ \E c \in DOMAIN row.channels : row.channels[c].stored

\* merge_watch_into: the subscribers and channels move to the target and the row goes.
MergeWatchInto(h) ==
  /\ op[h].at = "merge"
  /\ LET from == op[h].id
         to == op[h].into
     IN \/ /\ Exists(from) /\ Exists(to)
           /\ watches' = [watches EXCEPT
                ![to].users = MergedUsers(watches[from].users, @),
                ![to].channels = MergedChannels(watches[from].channels, @),
                ![from] = None]
           /\ Done(h)
        \/ /\ Exists(from) /\ ~Exists(to) /\ ~HasCopies(watches[from])
           /\ watches' = [watches EXCEPT ![from] = None]
           /\ Done(h)
        \/ /\ Exists(from) /\ ~Exists(to) /\ HasCopies(watches[from])
           /\ Fail(h) /\ UNCHANGED watches
        \/ ~Exists(from) /\ Done(h) /\ UNCHANGED watches
  /\ UNCHANGED <<drawn, requests>>

\* The row an edit writes; its baseline goes when the filter was seen to change.
Written(row, new, changed, auto) ==
  [row EXCEPT !.movie = new.movie, !.enabled = new.enabled,
              !.filter_key = Key(new.movie, new.cinemas), !.auto_lock = Or(auto, @),
              !.cinemas = IF changed THEN new.cinemas ELSE @, !.known = @ /\ ~changed]

\* The transaction of update_watch; the autolock channel follows in a statement of its own.
WriteRow(h) ==
  /\ op[h].at = "write"
  /\ LET w == op[h].id
         new == op[h].new
         key == Key(new.movie, new.cinemas)
         auto == Job(h).patch.auto_lock
         jobs == IF auto = Keep THEN Later(h) ELSE <<SetJob(AutoLock, auto, FALSE)>> \o Later(h)
     IN \/ /\ Exists(w) /\ WithKey(key) \subseteq {w}
           /\ watches' = [watches EXCEPT ![w] = Written(@, new, op[h].changed, auto)]
           /\ op' = [op EXCEPT ![h] = Working(w, jobs)]
        \/ /\ Exists(w) /\ ~WithKey(key) \subseteq {w}
           /\ Fail(h) /\ UNCHANGED watches
        \/ /\ ~Exists(w) /\ op[h].changed /\ new.cinemas # {}
           /\ Fail(h) /\ UNCHANGED watches
        \/ /\ ~Exists(w) /\ ~(op[h].changed /\ new.cinemas # {})
           /\ op' = [op EXCEPT ![h] = Working(w, jobs)]
           /\ UNCHANGED watches
  /\ UNCHANGED <<drawn, requests>>

-----------------------------------------------------------------------------
(* Single statements.                                                      *)

DeleteWatch(w) ==
  /\ Exists(w) /\ requests < MaxRequests
  /\ watches' = [watches EXCEPT ![w] = None]
  /\ requests' = requests + 1
  /\ UNCHANGED <<drawn, op>>

Subscribe(u, w) ==
  /\ Exists(w) /\ u \notin watches[w].users /\ requests < MaxRequests
  /\ watches' = [watches EXCEPT ![w].users = @ \cup {u}]
  /\ requests' = requests + 1
  /\ UNCHANGED <<drawn, op>>

\* The monitoring loop stores the baseline of a round.
SaveState(w) ==
  /\ Exists(w) /\ ~watches[w].known
  /\ watches' = [watches EXCEPT ![w].known = TRUE]
  /\ UNCHANGED <<drawn, op, requests>>

-----------------------------------------------------------------------------
(* Failing statements, and requests whose client leaves or which a crash   *)
(* ends: nothing is written, and what was written before stays.            *)

\* A creation that finds its watch binds the channels although the flag was not written.
StatementFails(h) ==
  \/ op[h].at \in {"find", "insert", "toggle"} /\ op' = [op EXCEPT ![h] = Idle]
  \/ op[h].at = "reuse" /\ op' = [op EXCEPT ![h] = Working(@.id, Follow(@.spec))]
  \/ op[h].at \in {"jobs", "cinemas", "target", "merge", "write"} /\ Fail(h)

CutOff(h) == op[h] # Idle /\ op' = [op EXCEPT ![h] = Idle]

\* A handler that has yet to bind or unbind the AUTO LOCK channel.
Unsettled(o) ==
  /\ "jobs" \in DOMAIN o
  /\ \E n \in DOMAIN o.jobs : o.jobs[n].do # "update" /\ o.jobs[n].channel = AutoLock

Fault(h) ==
  /\ faults < MaxFaults /\ faults' = faults + 1
  /\ StatementFails(h) \/ CutOff(h)
  /\ cut' = cut \cup IF Unsettled(op[h]) THEN {op[h].id} ELSE {}
  /\ UNCHANGED <<watches, drawn, requests>>

-----------------------------------------------------------------------------

Request(h) ==
  \/ \E spec \in Specs : PostWatch(h, spec)
  \/ \E w \in drawn :
       \/ \E patch \in Patches : PatchWatch(h, w, patch)
       \/ \E chosen \in SUBSET Range(Channels) : PutChannels(h, w, chosen)
       \/ \E c \in Range(Channels) : ToggleChannel(h, w, c) \/ ConfigureChannel(h, w, c)
       \/ ToggleWatch(h, w)

Proceed(h) ==
  \/ FindExisting(h) \/ Reuse(h) \/ Insert(h)
  \/ SetWatchEnabled(h) \/ SetWatchChannel(h) \/ BindWatchChannel(h)
  \/ ReadRow(h) \/ ReadCinemas(h) \/ LookForTarget(h) \/ MergeWatchInto(h) \/ WriteRow(h)

WorksOn(h, w) == op[h] # Idle /\ "id" \in DOMAIN op[h] /\ op[h].id = w

Overlap == {w \in Ids : \E g, h \in Handlers : g # h /\ WorksOn(g, w) /\ WorksOn(h, w)}

Ordinary ==
  /\ \/ \E h \in Handlers : Request(h) \/ Proceed(h)
     \/ \E w \in Ids : DeleteWatch(w) \/ SaveState(w) \/ \E u \in Users : Subscribe(u, w)
  /\ UNCHANGED <<faults, cut>>

Next ==
  /\ Ordinary \/ \E h \in Handlers : Fault(h)
  /\ overlapped' = overlapped \cup Overlap'

Spec == Init /\ [][Next]_vars

-----------------------------------------------------------------------------
(* Properties.                                                             *)

\* Rows have their columns' kinds and no two share a filter_key.
TypeOK ==
  /\ drawn \subseteq Ids /\ Rows \subseteq drawn
  /\ \A w \in Rows :
       /\ watches[w].movie \in Movies /\ watches[w].cinemas \subseteq Cinemas \cup {Blank}
       /\ watches[w].enabled \in BOOLEAN /\ watches[w].auto_lock \in BOOLEAN
       /\ watches[w].users \subseteq Users /\ WithKey(watches[w].filter_key) = {w}

\* A subscriber of a watch stays, and one of a watch that an edit makes disappear follows the very
\* watch it was merged into, whatever is deleted meanwhile and whichever statement fails: only a
\* request to delete loses a subscriber.
EditsLoseNobody ==
  [][op' # op =>
       \A w \in Rows : \A u \in watches[w].users :
         \/ watches'[w] # None /\ u \in watches'[w].users
         \/ \E h \in Handlers : /\ op[h].at = "merge" /\ op[h].id = w
                               /\ watches'[op[h].into] # None
                               /\ u \in watches'[op[h].into].users]_vars

\* The filter_key of a watch, by which requests find it, names the filter that is polled for it, so
\* that equal filters share one watch (docs/SERVER.md:42): whatever creations, edits and merges of
\* others interleave.  Two edits of the same watch that overlap break it, each writing its half.
KeyNamesFilter ==
  \A w \in Rows \ overlapped : watches[w].filter_key = Key(watches[w].movie, watches[w].cinemas)

\* A watch that is given another filter starts from a silent baseline, also when the loop has
\* stored one since the edit looked.
NewFilterForgets ==
  [][\A w \in Rows \ overlapped : watches'[w] # None /\ watches'[w].filter_key # watches[w].filter_key
                                    => ~watches'[w].known]_vars

\* A binding's own configuration outlives unbinding and binding again, edits of the watch and
\* switching it off: only a merge or a deletion takes it.
OwnConfigurationKept ==
  [][\A w \in Rows, c \in Range(Channels) :
       watches[w].channels[c].own /\ watches'[w] # None => watches'[w].channels[c].own]_vars

\* A watch that locks by itself has its AUTO LOCK channel bound (docs/SERVER.md:280) once the
\* requests on it are through, although five handlers write the flag and the binding in two
\* statements.  Two requests at once break it, and so does one that fails or is cut off between the
\* two: nobody is told of the second failing (db.rs:659, 700, 789).
AutoLockHasItsChannel ==
  \A w \in Rows \ (overlapped \cup cut) :
    watches[w].auto_lock /\ (\A h \in Handlers : ~WorksOn(h, w)) => watches[w].channels[AutoLock].on
=============================================================================
