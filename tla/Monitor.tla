------------------------------ MODULE Monitor -------------------------------
(***************************************************************************)
(* The monitoring loop (rs/src/server/monitor.rs) with the database rows   *)
(* it reads and writes, the handlers that change those rows while a round  *)
(* is under way, the wake-up permit, and the tasks that deliver triggers.  *)
(*                                                                         *)
(* Every await of the loop is a step boundary, so that the handlers, the   *)
(* clock and the listings move between any two of its steps.  A database   *)
(* statement or transaction is one step.  Rows a handler writes are seen   *)
(* by the loop before the handler gets to notify_one.                      *)
(***************************************************************************)
EXTENDS Engine, TLC

CONSTANTS
  Watches,     \* ids a watch may get; an id is never used twice
  Cinemas,
  Filters,     \* what a watch may be asked to watch: [movie, mask, imax_only]
  Payloads,    \* what a cinema may list
  NoState,     \* no watch_state row
  MaxListings, \* bound: how often a listing changes
  MaxEdits,    \* bound: how often a watch is created, edited or toggled
  MaxDeletes,  \* bound: how often a watch is deleted or merged away
  MaxPauses,   \* bound: how often monitor_enabled is written
  MaxTurns,    \* bound: how often the silent window opens or closes
  MaxErrors,   \* bound: how many fetches fail
  MaxDrops,    \* bound: how many handlers stop between their write and their answer
  MaxCrashes   \* bound: how often the process is killed and started again

ASSUME NoStateIsNoBaseline ==
  NoState \notin {NewState(f, FromPayload(p)) : f \in Filters, p \in Payloads}

ASSUME PayloadsAreListings == Payloads \subseteq Seq([movie: Movies, key: Nat, show: Nat])
ASSUME FiltersNameMovies == \A f \in Filters : f.movie \in Movies

VARIABLES
  \* the world
  listing,          \* cinema -> what Maoyan serves for it now
  in_window,        \* the clock is inside the configured silent window
  \* the database
  watches,          \* watch -> its row, Unborn or Gone
  watch_state,      \* watch -> cinema -> baseline or NoState
  monitor_enabled,
  \* shared memory of the process
  health,           \* HealthState: paused, silent, health_ok
  wake,             \* the permit of AppState.wake is stored
  pending,          \* how many handlers have written the database and not answered
  tasks,            \* spawned trigger deliveries
  \* the loop's own state
  pc, seen, unread, reading, loaded, fetch, todo, out, issues, health_prev,
  \* history, read by properties only
  origin,           \* watch -> cinema -> [n: commits so far, under: the filter the baseline was
                    \* built with, if there is one, overtaken: by an edit of that filter]
  alerts,           \* every trigger raised since the beginning
  owed,             \* (watch, cinema) pairs whose baseline rose and whose trigger is not raised yet
  quiet_rounds,     \* rounds that began to fetch since the last pause, while paused
  alarmed,          \* the health alarm was sent in the present run of unhealthy rounds
  dropped,          \* a handler has stopped short of its wake-up since the loop read the settings
  used              \* how much of each bound is used up

world == <<listing, in_window>>
db == <<watches, watch_state, monitor_enabled>>
shared == <<health, wake, pending, tasks>>
loop == <<pc, seen, unread, reading, loaded, fetch, todo, out, issues, health_prev>>
history == <<origin, alerts, owed, quiet_rounds, alarmed, dropped>>
vars == <<world, db, shared, loop, history, used>>

-----------------------------------------------------------------------------
(* Values.                                                                 *)

Row == [row: {"stored"}, filter: Filters, cinemas: SUBSET Cinemas, enabled: BOOLEAN]
Unborn == [row |-> "unborn"]
Gone == [row |-> "gone"]
Exists(w) == watches[w] \notin {Unborn, Gone}
Baselines == {NewState(f, FromPayload(p)) : f \in Filters, p \in Payloads}

\* Handlers between their write and their answer, counted by what is left to do.
NoneWaiting == [edit |-> 0, pause |-> 0, resume |-> 0]

NotLoaded == [row |-> "none"]
NotPolled == [result |-> "none"]
Awaited == [result |-> "awaited"]
Failed == [result |-> "error"]
Fetched(p) == [result |-> "ok", snap |-> FromPayload(p)]
NoOutcome == [watch |-> "none"]
Unbuilt == [n |-> 0, under |-> {}, overtaken |-> FALSE]

\* filter_key is UNIQUE: no two rows have the same movie, cinemas, time and IMAX.
Taken(f, cs) == \E w \in Watches : Exists(w) /\ watches[w].filter = f /\ watches[w].cinemas = cs

Spend(what) == used' = [used EXCEPT ![what] = @ + 1]

NothingLoaded == [w \in Watches |-> NotLoaded]
NothingPolled == [c \in Cinemas |-> NotPolled]
NothingSeen == [paused |-> FALSE, silent |-> FALSE]

\* What one pass of the loop holds in local variables is gone at its end.
ForgetRound ==
  /\ loaded' = NothingLoaded
  /\ fetch' = NothingPolled
  /\ issues' = FALSE

FreshProcess ==
  /\ health' = [paused |-> FALSE, silent |-> FALSE, health_ok |-> TRUE]
  /\ wake' = FALSE
  /\ pending' = NoneWaiting
  /\ tasks' = {}
  /\ pc' = "settings"
  /\ seen' = NothingSeen
  /\ unread' = {}
  /\ reading' = {}
  /\ todo' = {}
  /\ out' = NoOutcome
  /\ ForgetRound
  /\ health_prev' = TRUE

Init ==
  /\ listing \in [Cinemas -> Payloads]
  /\ in_window = FALSE
  /\ watches = [w \in Watches |-> Unborn]
  /\ watch_state = [w \in Watches |-> [c \in Cinemas |-> NoState]]
  /\ monitor_enabled = TRUE
  /\ health = [paused |-> FALSE, silent |-> FALSE, health_ok |-> TRUE]
  /\ wake = FALSE
  /\ pending = NoneWaiting
  /\ tasks = {}
  /\ pc = "settings"
  /\ seen = NothingSeen
  /\ unread = {}
  /\ reading = {}
  /\ loaded = NothingLoaded
  /\ fetch = NothingPolled
  /\ todo = {}
  /\ out = NoOutcome
  /\ issues = FALSE
  /\ health_prev = TRUE
  /\ origin = [w \in Watches |-> [c \in Cinemas |-> Unbuilt]]
  /\ alerts = {}
  /\ owed = {}
  /\ quiet_rounds = 0
  /\ alarmed = FALSE
  /\ dropped = FALSE
  /\ used = [listing |-> 0, edit |-> 0, delete |-> 0, pause |-> 0, turn |-> 0,
             error |-> 0, drop |-> 0, crash |-> 0]

-----------------------------------------------------------------------------
(* The loop: settings and the health flags.                                *)

\* Mutant: the loop trusts the flag the handlers set and spares itself the query.
ReadCachedFlag ==
  /\ pc = "settings"
  /\ seen' = [paused |-> health.paused, silent |-> in_window]
  /\ pc' = "flags"
  /\ UNCHANGED <<world, db, shared, unread, reading, loaded, fetch, todo, out, issues,
                 health_prev, history, used>>

\* Settings::load, and the clock read that follows it.
ReadSettings ==
  /\ pc = "settings"
  /\ seen' = [paused |-> ~monitor_enabled, silent |-> in_window]
  /\ pc' = "flags"
  /\ dropped' = FALSE
  /\ UNCHANGED <<world, db, shared, unread, reading, loaded, fetch, todo, out, issues,
                 health_prev, origin, alerts, owed, quiet_rounds, alarmed, used>>

\* Mutant: a pause is published, its end is left to the handlers.
PublishPauseOnly ==
  /\ pc = "flags"
  /\ health' = [health EXCEPT !.paused = @ \/ seen.paused, !.silent = seen.silent]
  /\ pc' = IF seen.paused \/ seen.silent THEN "asleep" ELSE "rows"
  /\ seen' = NothingSeen
  /\ UNCHANGED <<world, db, wake, pending, tasks, unread, reading, loaded, fetch, todo,
                 out, issues, health_prev, history, used>>

\* The flags are published; a paused or silent loop goes back to sleep.
PublishFlags ==
  /\ pc = "flags"
  /\ health' = [health EXCEPT !.paused = seen.paused, !.silent = seen.silent]
  /\ pc' = IF seen.paused \/ seen.silent THEN "asleep" ELSE "rows"
  /\ seen' = NothingSeen
  /\ UNCHANGED <<world, db, wake, pending, tasks, unread, reading, loaded, fetch, todo,
                 out, issues, health_prev, history, used>>

-----------------------------------------------------------------------------
(* The loop: load_monitor_watches, which is several statements and no      *)
(* transaction: the enabled rows, then each row's cinemas, then its state. *)

LoadRows ==
  /\ pc = "rows"
  /\ LET enabled == {w \in Watches : Exists(w) /\ watches[w].enabled}
     IN /\ unread' = enabled
        /\ loaded' = [w \in Watches |->
             IF w \in enabled
             THEN [row |-> "loaded", filter |-> watches[w].filter, cinemas |-> {},
                   state |-> [c \in Cinemas |-> NoState],
                   origin |-> [c \in Cinemas |-> Unbuilt]]
             ELSE NotLoaded]
  /\ pc' = "load"
  /\ UNCHANGED <<world, db, shared, seen, reading, fetch, todo, out, issues, health_prev,
                 history, used>>

LoadCinemas(w) ==
  /\ pc = "load" /\ reading = {} /\ w \in unread
  /\ unread' = unread \ {w}
  /\ reading' = {w}
  /\ loaded' = [loaded EXCEPT ![w].cinemas = IF Exists(w) THEN watches[w].cinemas ELSE {}]
  /\ UNCHANGED <<world, db, shared, pc, seen, fetch, todo, out, issues, health_prev, history,
                 used>>

LoadState(w) ==
  /\ pc = "load" /\ w \in reading
  /\ reading' = {}
  /\ loaded' = [loaded EXCEPT ![w].state = watch_state[w], ![w].origin = origin[w]]
  /\ UNCHANGED <<world, db, shared, pc, seen, unread, fetch, todo, out, issues, health_prev,
                 history, used>>

Active == {w \in Watches : loaded[w] # NotLoaded /\ loaded[w].cinemas # {}}

\* Nothing to poll: the round counts as healthy and the loop sleeps.
NothingActive ==
  /\ pc = "load" /\ unread = {} /\ reading = {} /\ Active = {}
  /\ health' = [health EXCEPT !.health_ok = TRUE]
  /\ pc' = "asleep"
  /\ ForgetRound
  /\ UNCHANGED <<world, db, wake, pending, tasks, seen, unread, reading, todo, out,
                 health_prev, history, used>>

\* build_poll_plan: every cinema of an active watch is polled once.
PlanRound ==
  /\ pc = "load" /\ unread = {} /\ reading = {} /\ Active # {}
  /\ fetch' = [c \in Cinemas |->
                 IF \E w \in Active : c \in loaded[w].cinemas THEN Awaited ELSE NotPolled]
  /\ todo' = Active
  /\ pc' = "fetch"
  /\ quiet_rounds' = IF monitor_enabled THEN quiet_rounds ELSE quiet_rounds + 1
  /\ UNCHANGED <<world, db, shared, seen, unread, reading, loaded, out, issues, health_prev,
                 origin, alerts, owed, alarmed, dropped, used>>

-----------------------------------------------------------------------------
(* The loop: fetch_many.  Cinemas answer in any order and fail apart.      *)

FetchOk(c) ==
  /\ pc = "fetch" /\ fetch[c] = Awaited
  /\ fetch' = [fetch EXCEPT ![c] = Fetched(listing[c])]
  /\ UNCHANGED <<world, db, shared, pc, seen, unread, reading, loaded, todo, out, issues,
                 health_prev, history, used>>

FetchError(c) ==
  /\ pc = "fetch" /\ fetch[c] = Awaited
  /\ used.error < MaxErrors
  /\ fetch' = [fetch EXCEPT ![c] = Failed]
  /\ Spend("error")
  /\ UNCHANGED <<world, db, shared, pc, seen, unread, reading, loaded, todo, out, issues,
                 health_prev, history>>

FetchesJoined ==
  /\ pc = "fetch" /\ \A c \in Cinemas : fetch[c] # Awaited
  /\ issues' = (\E c \in Cinemas : fetch[c] = Failed)
  /\ pc' = "eval"
  /\ UNCHANGED <<world, db, shared, seen, unread, reading, loaded, fetch, todo, out,
                 health_prev, history, used>>

-----------------------------------------------------------------------------
(* The loop: one watch of the round, against what was loaded of it.        *)

Answered(w) == {c \in loaded[w].cinemas : fetch[c].result = "ok"}
Prev(w, c) == IF loaded[w].state[c] = NoState THEN BlankState ELSE loaded[w].state[c]
Outcome(w) == [c \in Answered(w) |->
                 EvaluateCinema(loaded[w].filter, fetch[c].snap, Prev(w, c))]

\* The listing of some bucket holds more shows than the stored baseline does,
\* told without the engine's own bookkeeping (for the history).
RoseAbove(old, new) ==
  \E k \in DOMAIN new.buckets :
    new.buckets[k].count > (IF k \in DOMAIN old.buckets THEN old.buckets[k].count ELSE 0)

\* A commit: the baseline was built with the filter the round has read, whatever
\* the row says by now (for the history).
Committed(w, past) ==
  [n |-> past.n + 1, under |-> {loaded[w].filter},
   overtaken |-> Exists(w) /\ watches[w].filter # loaded[w].filter]

\* compile_watch refuses the row: a health issue, and on to the next watch.
SkipUncompilable(w) ==
  /\ pc = "eval" /\ w \in todo /\ ~Compiles(loaded[w].filter)
  /\ issues' = TRUE
  /\ todo' = todo \ {w}
  /\ UNCHANGED <<world, db, shared, pc, seen, unread, reading, loaded, fetch, out,
                 health_prev, history, used>>

\* Mutant: the delta is told from the trigger, the write is forgotten for it.
SaveUnlessTriggered(w) ==
  /\ pc = "eval" /\ w \in todo /\ Compiles(loaded[w].filter)
  /\ LET outcome == Outcome(w)
         told == [c \in DOMAIN outcome |-> DOMAIN outcome[c].added]
         changed == {c \in DOMAIN outcome : outcome[c].state_changed /\ told[c] = {}}
     IN /\ watch_state' = [watch_state EXCEPT ![w] =
             [c \in Cinemas |-> IF c \in changed THEN outcome[c].state ELSE @[c]]]
        /\ origin' = [origin EXCEPT ![w] = [c \in Cinemas |->
             IF c \in changed THEN Committed(w, @[c]) ELSE @[c]]]
        /\ out' = [watch |-> w, told |-> told]
  /\ pc' = "report"
  /\ UNCHANGED <<world, watches, monitor_enabled, shared, seen, unread, reading, loaded, fetch,
                 todo, issues, health_prev, alerts, owed, quiet_rounds, alarmed, dropped, used>>

\* save_watch_states: one transaction over the changed cinemas.  Nothing to
\* write is no statement at all; a row to write for a watch that has gone
\* breaks the foreign key, and the `?` ends the loop for good.
SaveStates(w) ==
  /\ pc = "eval" /\ w \in todo /\ Compiles(loaded[w].filter)
  /\ LET outcome == Outcome(w)
         changed == {c \in DOMAIN outcome : outcome[c].state_changed}
     IN \/ /\ changed = {} \/ Exists(w)
           /\ watch_state' = [watch_state EXCEPT ![w] =
                [c \in Cinemas |-> IF c \in changed THEN outcome[c].state ELSE @[c]]]
           /\ out' = [watch |-> w, told |-> [c \in DOMAIN outcome |-> DOMAIN outcome[c].added]]
           /\ pc' = "report"
           /\ origin' = [origin EXCEPT ![w] = [c \in Cinemas |->
                IF c \in changed THEN Committed(w, @[c]) ELSE @[c]]]
           /\ owed' = owed \cup {<<w, c>> : c \in {d \in changed :
                /\ watch_state[w][d] # NoState
                /\ RoseAbove(watch_state[w][d], outcome[d].state)}}
        \/ /\ changed # {} /\ ~Exists(w)
           /\ pc' = "dead"
           /\ UNCHANGED <<watch_state, out, origin, owed>>
  /\ UNCHANGED <<world, watches, monitor_enabled, shared, seen, unread, reading, loaded, fetch,
                 todo, issues, health_prev, alerts, quiet_rounds, alarmed, dropped, used>>

\* What the round reports for its watch: one entry per cinema that grew.
Triggers ==
  {[watch |-> out.watch, cinema |-> c, keys |-> out.told[c],
    base |-> loaded[out.watch].origin[c], under |-> loaded[out.watch].filter] :
     c \in {d \in DOMAIN out.told : out.told[d] # {}}}

\* Mutant: a watch whose fetches partly failed reports nothing.
ReportCompleteOnly ==
  /\ pc = "report"
  /\ LET told == IF \E c \in Cinemas : fetch[c] = Failed THEN {} ELSE Triggers
     IN /\ tasks' = IF told = {} THEN tasks ELSE tasks \cup {told}
        /\ alerts' = alerts \cup told
        /\ owed' = owed \ {<<t.watch, t.cinema>> : t \in told}
  /\ todo' = todo \ {out.watch}
  /\ out' = NoOutcome
  /\ pc' = "eval"
  /\ UNCHANGED <<world, db, health, wake, pending, seen, unread, reading, loaded, fetch, issues,
                 health_prev, origin, quiet_rounds, alarmed, dropped, used>>

\* Status, event and the spawned delivery of everything that grew.
Report ==
  /\ pc = "report"
  /\ tasks' = IF Triggers = {} THEN tasks ELSE tasks \cup {Triggers}
  /\ alerts' = alerts \cup Triggers
  /\ owed' = owed \ {<<t.watch, t.cinema>> : t \in Triggers}
  /\ todo' = todo \ {out.watch}
  /\ out' = NoOutcome
  /\ pc' = "eval"
  /\ UNCHANGED <<world, db, health, wake, pending, seen, unread, reading, loaded, fetch, issues,
                 health_prev, origin, quiet_rounds, alarmed, dropped, used>>

-----------------------------------------------------------------------------
(* The loop: the end of a round, and sleep_or_wake.                        *)

\* Mutant: the comparison with the last round is forgotten.
EndRoundForgetful ==
  /\ pc = "eval" /\ todo = {}
  /\ health' = [health EXCEPT !.health_ok = ~issues]
  /\ alarmed' = (issues /\ alarmed)
  /\ health_prev' = ~issues
  /\ pc' = "asleep"
  /\ ForgetRound
  /\ UNCHANGED <<world, db, wake, pending, tasks, seen, unread, reading, todo, out,
                 origin, alerts, owed, quiet_rounds, dropped, used>>

\* The health flag, and the alarm when the round before was healthy.
EndRound ==
  /\ pc = "eval" /\ todo = {}
  /\ health' = [health EXCEPT !.health_ok = ~issues]
  /\ alarmed' = (issues /\ (health_prev \/ alarmed))
  /\ health_prev' = ~issues
  /\ pc' = "asleep"
  /\ ForgetRound
  /\ UNCHANGED <<world, db, wake, pending, tasks, seen, unread, reading, todo, out,
                 origin, alerts, owed, quiet_rounds, dropped, used>>

\* The sleep runs out; a stored permit stays stored.
TimerFires ==
  /\ pc = "asleep"
  /\ pc' = "settings"
  /\ UNCHANGED <<world, db, shared, seen, unread, reading, loaded, fetch, todo, out, issues,
                 health_prev, history, used>>

\* wake.notified() takes the permit.
Notified ==
  /\ pc = "asleep" /\ wake
  /\ wake' = FALSE
  /\ pc' = "settings"
  /\ UNCHANGED <<world, db, health, pending, tasks, seen, unread, reading, loaded, fetch, todo,
                 out, issues, health_prev, history, used>>

-----------------------------------------------------------------------------
(* The spawned task: dispatch_trigger.  It reads the channels when it gets *)
(* to run, and asks neither monitor_enabled nor the silent window.         *)

DispatchTrigger(t) ==
  /\ t \in tasks
  /\ tasks' = tasks \ {t}
  /\ UNCHANGED <<world, db, health, wake, pending, loop, history, used>>

-----------------------------------------------------------------------------
(* Handlers: a committed write, then (Finish...) the flag and notify_one.  *)

CreateWatch(w, f, cs) ==
  /\ used.edit < MaxEdits
  /\ watches[w] = Unborn /\ cs # {} /\ ~Taken(f, cs)
  /\ watches' = [watches EXCEPT ![w] =
       [row |-> "stored", filter |-> f, cinemas |-> cs, enabled |-> TRUE]]
  /\ pending' = [pending EXCEPT !.edit = @ + 1]
  /\ Spend("edit")
  /\ UNCHANGED <<world, watch_state, monitor_enabled, health, wake, tasks, loop, history>>

\* Mutant: the baselines are blanked where their rows should go.
EditBlankingBaseline(w, f, cs, on) ==
  /\ used.edit < MaxEdits
  /\ Exists(w) /\ ~Taken(f, cs)
  /\ watches' = [watches EXCEPT ![w].filter = f, ![w].cinemas = cs, ![w].enabled = on]
  /\ watch_state' = [watch_state EXCEPT ![w] = [c \in Cinemas |-> BlankState]]
  /\ origin' = [origin EXCEPT ![w] = [c \in Cinemas |-> [@[c] EXCEPT !.under = {}]]]
  /\ pending' = [pending EXCEPT !.edit = @ + 1]
  /\ Spend("edit")
  /\ UNCHANGED <<world, monitor_enabled, health, wake, tasks, loop, alerts, owed, quiet_rounds,
                 alarmed, dropped>>

\* Mutant: the new filter is written beside the old baselines.
EditKeepingBaseline(w, f, cs, on) ==
  /\ used.edit < MaxEdits
  /\ Exists(w) /\ ~Taken(f, cs)
  /\ watches' = [watches EXCEPT ![w].filter = f, ![w].cinemas = cs, ![w].enabled = on]
  /\ pending' = [pending EXCEPT !.edit = @ + 1]
  /\ Spend("edit")
  /\ UNCHANGED <<world, watch_state, monitor_enabled, health, wake, tasks, loop, history>>

\* The transaction of update_watch when the filter key changes and no other row
\* has the new one (a row that does swallows this one: DeleteWatch).
EditFilter(w, f, cs, on) ==
  /\ used.edit < MaxEdits
  /\ Exists(w) /\ ~Taken(f, cs)
  /\ watches' = [watches EXCEPT ![w].filter = f, ![w].cinemas = cs, ![w].enabled = on]
  /\ watch_state' = [watch_state EXCEPT ![w] = [c \in Cinemas |-> NoState]]
  /\ origin' = [origin EXCEPT ![w] = [c \in Cinemas |-> [@[c] EXCEPT !.under = {}]]]
  /\ pending' = [pending EXCEPT !.edit = @ + 1]
  /\ Spend("edit")
  /\ UNCHANGED <<world, monitor_enabled, health, wake, tasks, loop, alerts, owed, quiet_rounds,
                 alarmed, dropped>>

SetWatchEnabled(w) ==
  /\ used.edit < MaxEdits
  /\ Exists(w)
  /\ watches' = [watches EXCEPT ![w].enabled = ~@]
  /\ pending' = [pending EXCEPT !.edit = @ + 1]
  /\ Spend("edit")
  /\ UNCHANGED <<world, watch_state, monitor_enabled, health, wake, tasks, loop, history>>

\* delete_watch, and the end of merge_watch_into: the row goes, and the
\* foreign keys take its cinemas and its state with it.
DeleteWatch(w) ==
  /\ used.delete < MaxDeletes
  /\ Exists(w)
  /\ watches' = [watches EXCEPT ![w] = Gone]
  /\ watch_state' = [watch_state EXCEPT ![w] = [c \in Cinemas |-> NoState]]
  /\ origin' = [origin EXCEPT ![w] = [c \in Cinemas |-> [@[c] EXCEPT !.under = {}]]]
  /\ pending' = [pending EXCEPT !.edit = @ + 1]
  /\ Spend("delete")
  /\ UNCHANGED <<world, monitor_enabled, health, wake, tasks, loop, alerts, owed, quiet_rounds,
                 alarmed, dropped>>

\* set_service_paused and action_monitor_toggle.  The panel's handler goes on also
\* when the row could not be written.
SetPaused(paused) ==
  /\ used.pause < MaxPauses
  /\ monitor_enabled' \in {~paused, monitor_enabled}
  /\ pending' = [pending EXCEPT ![IF paused THEN "pause" ELSE "resume"] = @ + 1]
  /\ quiet_rounds' = IF monitor_enabled THEN 0 ELSE quiet_rounds
  /\ Spend("pause")
  /\ UNCHANGED <<world, watches, watch_state, health, wake, tasks, loop, origin, alerts, owed,
                 alarmed, dropped>>

\* patch_settings writes the same key and leaves the flag to the loop.
PatchMonitorEnabled(on) ==
  /\ used.pause < MaxPauses
  /\ monitor_enabled' = on
  /\ pending' = [pending EXCEPT !.edit = @ + 1]
  /\ quiet_rounds' = IF monitor_enabled THEN 0 ELSE quiet_rounds
  /\ Spend("pause")
  /\ UNCHANGED <<world, watches, watch_state, health, wake, tasks, loop, origin, alerts, owed,
                 alarmed, dropped>>

\* Mutant: the flag is set and the loop is not woken.
FinishPauseSilently(h) ==
  /\ pending[h] > 0
  /\ health' = [health EXCEPT !.paused = (h = "pause")]
  /\ pending' = [pending EXCEPT ![h] = @ - 1]
  /\ UNCHANGED <<world, db, wake, tasks, loop, history, used>>

FinishPause(h) ==
  /\ pending[h] > 0
  /\ health' = [health EXCEPT !.paused = (h = "pause")]
  /\ wake' = TRUE
  /\ pending' = [pending EXCEPT ![h] = @ - 1]
  /\ UNCHANGED <<world, db, tasks, loop, history, used>>

\* A handler whose client has left is dropped at the await of its write, which is
\* committed: neither the flag nor the wake-up follows.
DropHandler(h) ==
  /\ used.drop < MaxDrops
  /\ pending[h] > 0
  /\ pending' = [pending EXCEPT ![h] = @ - 1]
  /\ dropped' = TRUE
  /\ Spend("drop")
  /\ UNCHANGED <<world, db, health, wake, tasks, loop, origin, alerts, owed, quiet_rounds,
                 alarmed>>

FinishEdit ==
  /\ pending.edit > 0
  /\ wake' = TRUE
  /\ pending' = [pending EXCEPT !.edit = @ - 1]
  /\ UNCHANGED <<world, db, health, tasks, loop, history, used>>

-----------------------------------------------------------------------------
(* The world: listings, the clock, and the process being killed.           *)

ListingChanges(c, p) ==
  /\ used.listing < MaxListings
  /\ listing[c] # p
  /\ listing' = [listing EXCEPT ![c] = p]
  /\ Spend("listing")
  /\ UNCHANGED <<in_window, db, shared, loop, history>>

WindowTurns ==
  /\ used.turn < MaxTurns
  /\ in_window' = ~in_window
  /\ Spend("turn")
  /\ UNCHANGED <<listing, db, shared, loop, history>>

\* The process dies and is started again on the same database.
Restart ==
  /\ used.crash < MaxCrashes
  /\ FreshProcess
  /\ owed' = {}
  /\ alarmed' = FALSE
  /\ Spend("crash")
  /\ UNCHANGED <<world, db, origin, alerts, quiet_rounds, dropped>>

-----------------------------------------------------------------------------
Loop ==
  \/ ReadSettings \/ PublishFlags
  \/ LoadRows \/ NothingActive \/ PlanRound
  \/ \E w \in Watches : LoadCinemas(w) \/ LoadState(w)
  \/ \E c \in Cinemas : FetchOk(c) \/ FetchError(c)
  \/ FetchesJoined
  \/ \E w \in Watches : SkipUncompilable(w) \/ SaveStates(w)
  \/ Report \/ EndRound
  \/ TimerFires \/ Notified

Handlers ==
  \/ \E w \in Watches, f \in Filters, cs \in SUBSET Cinemas :
       CreateWatch(w, f, cs) \/ \E on \in BOOLEAN : EditFilter(w, f, cs, on)
  \/ \E w \in Watches : SetWatchEnabled(w) \/ DeleteWatch(w)
  \/ \E b \in BOOLEAN : SetPaused(b) \/ PatchMonitorEnabled(b)
  \/ \E h \in {"pause", "resume"} : FinishPause(h)
  \/ FinishEdit
  \/ \E h \in {"edit", "pause", "resume"} : DropHandler(h)

World ==
  \/ \E c \in Cinemas, p \in Payloads : ListingChanges(c, p)
  \/ WindowTurns
  \/ Restart

Next == Loop \/ Handlers \/ World \/ \E t \in tasks : DispatchTrigger(t)

Spec == Init /\ [][Next]_vars

\* tokio keeps polling ready tasks, every await of the loop ends (fetches and
\* sleeps have time limits), and a handler that has written goes on to answer
\* unless it is dropped.
Fairness ==
  /\ WF_vars(Loop)
  /\ WF_vars(\E h \in {"pause", "resume"} : FinishPause(h))
  /\ WF_vars(FinishEdit)
  /\ WF_vars(\E t \in tasks : DispatchTrigger(t))

FairSpec == Spec /\ Fairness

-----------------------------------------------------------------------------
(* The type invariant.                                                     *)

Origins == [n: Nat, under: SUBSET Filters, overtaken: BOOLEAN]
StoredStates == [Cinemas -> Baselines \cup {NoState}]
LoadedRow == [row: {"loaded"}, filter: Filters, cinemas: SUBSET Cinemas,
              state: StoredStates, origin: [Cinemas -> Origins]]
FetchResults == {NotPolled, Awaited, Failed} \cup {Fetched(p) : p \in Payloads}

\* What is loaded of a watch, the baselines in the database and the answers of a
\* round are of the kinds the loop expects (monitor.rs, HealthState and the tables
\* it uses).
TypeOK ==
  /\ listing \in [Cinemas -> Payloads]
  /\ in_window \in BOOLEAN
  /\ watches \in [Watches -> Row \cup {Unborn, Gone}]
  /\ watch_state \in [Watches -> StoredStates]
  /\ monitor_enabled \in BOOLEAN
  /\ health \in [paused: BOOLEAN, silent: BOOLEAN, health_ok: BOOLEAN]
  /\ wake \in BOOLEAN
  /\ pending \in [edit: Nat, pause: Nat, resume: Nat]
  /\ pc \in {"settings", "flags", "rows", "load", "fetch", "eval", "report", "asleep", "dead"}
  /\ seen \in [paused: BOOLEAN, silent: BOOLEAN]
  /\ unread \subseteq Watches
  /\ reading \subseteq Watches
  /\ loaded \in [Watches -> LoadedRow \cup {NotLoaded}]
  /\ fetch \in [Cinemas -> FetchResults]
  /\ todo \subseteq Watches
  /\ issues \in BOOLEAN
  /\ health_prev \in BOOLEAN
  /\ origin \in [Watches -> [Cinemas -> Origins]]
  /\ dropped \in BOOLEAN

-----------------------------------------------------------------------------
(* Alerts.                                                                 *)

\* A show that appears next to a stored baseline is never lost by the loop: when
\* save_watch_states has replaced a baseline by one that holds more shows in some
\* hour, the trigger of that cinema is raised before the loop does anything else.
\* (A crash between the two loses it: the code saves first.)
RiseAccounted ==
  owed # {} => /\ pc = "report"
               /\ \A pair \in owed : pair[1] = out.watch /\ out.told[pair[2]] # {}

\* No increase is alerted twice, however rounds, edits and restarts interleave:
\* the loop never raises a trigger for a baseline of a (watch, cinema) pair for
\* which it has raised one before.
AlertedOnce ==
  [][Report => \A t \in Triggers : ~\E u \in alerts :
       u.watch = t.watch /\ u.cinema = t.cinema /\ u.base.n = t.base.n]_vars

\* The loop, the handlers and the restarts keep the promise of AlertLedger: an
\* alert tells what the newest commit of a baseline added to an older one, and
\* nothing but a commit or an edit touches a baseline.
Promise == INSTANCE AlertLedger WITH
  Pairs <- Watches \X Cinemas,
  Values <- Baselines,
  NoBaseline <- NoState,
  baseline <- [p \in Watches \X Cinemas |-> watch_state[p[1]][p[2]]],
  commits <- [p \in Watches \X Cinemas |-> origin[p[1]][p[2]].n],
  alerted <- {<<<<t.watch, t.cinema>>, t.base.n + 1>> : t \in alerts}

AlertsAsPromised == Promise!Spec

\* The first round after a change of the filter is to be silent (README.md:36; the
\* event of the edit, api.rs:363, says the baseline was cleared).  It is, wherever
\* between the reads of a round the edit falls, but for one case that the code does
\* not cover: a round that was under way at the edit stores a baseline of the old
\* filter (overtaken), and the next round compares with it.  Short of that, a trigger
\* compares with a baseline that was built with its own filter.
BaselineOfItsFilter ==
  \A t \in alerts : t.base.overtaken \/ t.base.under \subseteq {t.under}

-----------------------------------------------------------------------------
(* Pausing.                                                                *)

\* When the loop sleeps on with no wake-up stored and no handler is about to
\* answer, what it has read, and what the panel shows, is what the database says:
\* no pause or resume, from whichever of the three handlers, is slept through.  A
\* handler dropped after its write wakes nobody: what it wrote is slept through until
\* the loop looks at the settings again, and no longer.
InSync ==
  ~wake /\ pending = NoneWaiting /\ ~dropped =>
    /\ pc = "flags" => seen.paused = ~monitor_enabled
    /\ pc \notin {"settings", "flags"} => health.paused = ~monitor_enabled

\* A pause is honoured from the next look at the settings on: at most the one
\* round that had looked already still begins to poll.
AtMostOneQuietRound == quiet_rounds <= 1

-----------------------------------------------------------------------------
(* Health, and the life of the loop.                                       *)

\* The panel never sits on a failed round that was not announced: a loop that
\* sleeps with health_ok down has sent the alarm since the last round that polled
\* its cinemas without a failure.
OutageAlarmed == pc = "asleep" /\ ~health.health_ok => alarmed

\* mod.rs says of wake that a change of a watch makes the loop reread the settings
\* and plan the next round: the loop outlives whatever the handlers do.
LoopSurvives == pc # "dead"

-----------------------------------------------------------------------------
(* Liveness.                                                               *)

Settled(w, c) ==
  Exists(w) /\ watches[w].enabled /\ Compiles(watches[w].filter) /\ c \in watches[w].cinemas
  => watch_state[w][c] = NewState(watches[w].filter, FromPayload(listing[c]))

\* Once the monitor stays enabled, outside the silent window and alive, every
\* watched cinema's baseline comes to hold what the cinema lists and stays so.
CatchesUp ==
  <>[](monitor_enabled /\ ~in_window /\ pc # "dead")
    => <>[](\A w \in Watches, c \in Cinemas : Settled(w, c))

\* The panel's pause flag comes to agree with the database, in both directions,
\* whatever order the handlers' late writes of the flag arrive in.
FlagConverges ==
  \A on \in BOOLEAN :
    <>[](monitor_enabled = on /\ pc # "dead") => <>[](health.paused = ~on)
=============================================================================
