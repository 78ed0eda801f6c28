# ticket_tracker in TLA+

A verification project for `ticket_tracker` (the Rust service under `rs/`): what
its monitoring loop, its pause switch, its watch rows, its notifications, its
automatic ticket locking, its login and its self-update guarantee when handlers,
callbacks, timeouts, lost answers, crashes and restarts interleave, and what its
time rules mean. Modules are checked with TLC on small instances; the properties
that matter most are proved with TLAPS for every value of the constants.

## 1. The system

One process (`tt-server`, single-instance lock in `server/mod.rs`) runs a tokio
runtime, one SQLite database, one monitoring loop, and an axum server with the
JSON API (`server/api.rs`) and the panel (`server/web.rs`).

| component | state | operations | talks to |
|---|---|---|---|
| diff engine (`engine.rs`, mask of `time_spec.rs`) | none (pure) | `from_payload`, `compile_watch`, `evaluate_cinema`, `multiset_added` | called by the loop |
| monitoring loop (`server/monitor.rs`) | locals of a round, `health_prev` | settings, load, fetch, evaluate, save, report, health, sleep | database, `HealthState`, `wake`, spawns deliveries |
| watch rows (`db.rs`, handlers in `api.rs`, `web.rs`) | `watches`, `watch_cinemas`, `watch_state`, `watch_channels`, `subscriptions` | create or reuse, update, merge, toggle, bind, configure, subscribe, delete | `wake` |
| pause (`set_service_paused`, `action_monitor_toggle`, `patch_settings`) | setting `monitor_enabled`, flag `health.paused` | pause, resume, toggle | loop |
| delivery (`server/dispatcher.rs`, `notify.rs`) | tasks in memory | `dispatch_trigger`, `dispatch_lock_result`, `test_channel`, the senders | channels, bindings, receivers |
| automatic locking (`dispatcher.rs`, `api.rs`, `lock.rs`) | `lock_state` rows, `lock_inflight` marks | submit, callback, expiry | Gofer (external) |
| silent window (`silent.rs`) | setting `silent_window` | `parse`, `contains`, `next_end` | loop, delivery |
| time specification (`time_spec.rs`) | none (pure) | parse, normalise, store, mask, hour range, expiry, text | watch rows, loop, locking |
| panel login (`auth.rs`, setup and login in `web.rs`) | password hash and session secret, in the database and in memory, `setup_lock` | load, reset, setup, login, session test | settings |
| self update (`update.rs`) | files beside the executable | download, verify, probe, back up, rename, restart | process, launchd |
| settings (`db.rs`, `patch_settings`, `action_settings`) | table `settings` | read, write key by key | everything |
| service control (`service.rs`, `service_*` in `api.rs`) | `stopping`, pid file | status, stop, clean-up | process |
| Maoyan client, pages, assets, presets, users | HTTP, rendering, CRUD | | |

What is hard about it: the loop holds rows, baselines and listings in locals over
many awaits while handlers rewrite or delete those rows; pause is a database value,
a flag and a wake-up written in separate steps by several handlers; an edit reads
its row before its transaction and may merge two watches; Gofer's callbacks race the
answers of the submissions they belong to, expire, repeat and overtake one another;
a receiver may take a message and its answer be lost; a handler is dropped when its
client goes away, at any await; an install is a series of file operations with a
crash possible between any two. `PROJECT.json` lists these hazards at their lines
with the properties for them.

What each component must keep true:

* engine and loop: no increase lost or alerted twice; a first round under a new
  filter is silent; baselines catch up with listings.
* pause and health: never slept through; the panel agrees with the database in the
  end; an outage is announced.
* watch rows: one watch per filter, its key names what is polled; an edit loses
  nobody; `auto_lock` comes with its channel.
* delivery: sent means taken; nobody outside the watch's channels; no channel waits
  for another.
* locking: no leaked mark, nothing settled submitted, notices that are true.
* time rules: watched is what was asked, one spelling per meaning.
* login: one first password; the environment's password wins; a reset ends sessions.
* update: the binary in place always runs; a success ends in the new version.

## 2. Modules

| module | models | built on |
|---|---|---|
| `Engine` | `engine.rs`: listings, masks, comparison with a baseline | |
| `Monitor`, `MCMonitor` | the loop, the rows it uses, the handlers that change them, the wake-up permit, spawned deliveries, restarts | `Engine`, `AlertLedger` |
| `AlertLedger` | what the monitoring promises of its alerts, without the loop | |
| `MonitorProofs` | theorems about `Monitor`, and that it implements `AlertLedger` | `Monitor` |
| `AutoLock`, `MCAutoLock`, `AutoLockProofs` | the submission task, Gofer, the callback handler, the rows and marks they share | |
| `Delivery`, `DeliveryProofs` | the fan-out of an event to channels, the senders, edits of channels and bindings, crashes | |
| `WatchStore`, `MCWatchStore`, `WatchStoreProofs` | every statement of the handlers that write watch rows | |
| `TimeSpec`, `TimeSpecProofs` | `time_spec.rs`: from what is typed or sent to the mask, and back | |
| `SilentWindow` | `silent.rs` and the setting it is kept in, with its theorems | |
| `Auth`, `AuthProofs` | password, secret, setup under its mutex, login, sessions | |
| `Update`, `UpdateProofs` | installs step by step, helper, launchd, exit and crash | |

In every module a SQL statement or a transaction is one step, an await is a step
boundary, and a comment starting with "Mutant" marks an operator that is no part of
the specification: it is a plausible bug, kept to show that the property beside it
notices.

**Engine.** A show is a number (its sort key), a bucket key is `date_id * 24 + hour`,
a payload is a list of `[movie, key, show]`. `BucketOf` counts and sorts as
`from_payload` does, `InMask` and `Current` apply the compiled filter. The shows of a
bucket are a bag, and `MultisetAdded` is the difference of bags that the comment on
`multiset_added` promises; `EvaluateCinema` returns the new state, the reported shows
and `state_changed`.

**Monitor.** `pc` follows `run`: `settings` (`ReadSettings`), `flags`
(`PublishFlags`), `rows` and `load` (`load_monitor_watches`: rows, then cinemas, then
state of each row, as separate statements), `fetch` (`FetchOk`, `FetchError` in any
order), `eval` (per watch `SkipUncompilable` or `SaveStates`), `report` (events and
the spawned delivery), and `asleep`. `SaveStates` ends in `dead` when the row has
gone: the insert breaks the foreign key and the `?` leaves `run`. A handler is two
steps: the committed write, counted in `pending`, and `FinishPause` or `FinishEdit`,
which writes the flag (pause handlers only) and stores the permit of `wake`. Between
the two it may be dropped (`DropHandler`), and the panel's pause handler takes the
second also when the first wrote nothing (`SetPaused`). Merging a
watch away is `DeleteWatch`, as far as the loop can tell. `Restart` kills the process
anywhere. `FetchError` covers HTTP errors, undecodable answers and a panicking task.

**AlertLedger** knows baselines, commits and alerts only. `Commit` replaces some
baselines, `Drop` forgets some, `Alert` tells of a newest commit that has one before
it and was not told. Under the mapping `Promise` in `Monitor` (a pair is a watch and
a cinema, the commits are `origin[w][c].n`) every step of the loop, the handlers and
the restarts is one of these or a stutter.

**AutoLock.** One watch. A task goes `raised`, `open` (its copy of `auto_lock` and
`lock_max_retries` is read), then per cinema `waiting`, `check`, `insert`, `post`,
`sent` or `refused`, `done`: the row is read in `ReadLockState`, the mark tested and
set in two critical sections, and `SubmitFailed` releases it, also when Gofer has
taken the job and only the answer is late. A callback goes `lookup` (the watch is
read, the mark released), `read` (duplicate and late-failure checks), `write` and, for
a failure, `reread`: `record_lock_failure` reads its row in a second statement, and the
notice (`told`) is made from that. Both reads of `lock_state` are `if let Ok(Some(ls))`:
one that fails (`LockStateUnread`, `RowUnread`) is taken for a row that is not there.
`FailureRecorded` follows the SQL: the first failure inserts `failed` with one try
whatever the limit. `Abandon` ends a callback at any step, on an error or when its
client leaves. Gofer is external: it may call back early and again, in any
order, with an `event_id` or without, or never.

**Delivery.** One watch. An event's task reads the settings, the channels
(`watch_channels`) and the bindings in three statements, each of which may fail, then
opens one `delivery` per channel. A delivery is `posting`, then `taken` or `missed`
by its receiver, then done or, for a webhook, paused for the next of its three tries:
an error and a lost answer look alike. `log` is the line the panel shows. Of an
address only its presence is kept. Handlers edit channels and bindings at any time,
also delete the watch; a deleted channel reads like a disabled one.

**WatchStore.** A handler works through jobs on one watch (`op`): creation
(`FindExisting`, then `Reuse` or `Insert`, then its bindings), `PatchWatch`
(`ReadRow`, `ReadCinemas`, `LookForTarget`, then the transaction `MergeWatchInto` or
`WriteRow`), `PutChannels`, `ToggleChannel`, `ConfigureChannel`, `ToggleWatch`; what it
has read stays in its record until it writes. `PutJobs` is the loop of
`put_watch_channels`: each channel in turn, the row before the binding for the
autolock channel. UNIQUE and foreign keys are the guards
of the writes and the failures beside them. Besides, any statement may fail
(`StatementFails`: `?` ends the request, `let _ =` passes it over), and a request may be
cut off between any two, by its client or a crash (`CutOff`). The movie of a filter stands for
`movie_id`, `time_spec` and `imax_only` together.

**TimeSpec.** A date is a day number and a rule a record; `input` grows by one rule or
interval at a time, and the properties compare the operators (`Parse`, `FromJson`,
`NormalizeIntervals`, `CompileMask`, `HourRange`, `AllDatesPast`, `ToInput`) with
definitions that say hour by hour what was asked. `Sorted` is the sort of
`normalize_intervals` and `Merged` its loop, as a recursive function over the intervals
seen so far.

**SilentWindow.** The clock runs minute by minute while windows are saved and removed.

**Auth.** `memory` is `AuthState`, `stored` the two rows. A setup goes `waiting`,
`hashing`, `hashed`, `stored`, `set`, `rotated`, `persisted`, `won`, holding
`setup_lock` in between; `Disconnect` drops it at any await, `Crash` ends everything,
`Start` loads with or without `TT_ADMIN_PASSWORD`.

**Update.** A file is what it holds (`old`, `new`, `dud`, `part`). An install holds a
descriptor that follows its file through a rename, so that a late write of one
install reaches the file another has put in place.

History variables, read by properties only: in `Monitor` `origin` (the commits of a
baseline, the filter it was built with, and whether an edit had overtaken its round),
`alerts`, `owed`, `quiet_rounds`, `alarmed`, `dropped` (a handler was, since the loop
read the settings); in `AutoLock` `answered`, `barred`, `counted` (the limit a row was
last counted against); in `Delivery` `inForce`; in
`WatchStore` `overlapped` (watches two requests worked on at once) and `cut` (watches a
request left with work on their AUTO LOCK channel to do); in `Auth` `cut`
(a reset or a setup cut off between two writes and not mended); in `Update` `shared`
(two installs have used the temporary file at once).

## 3. Runs

| run | bounds | shows |
|---|---|---|
| `monitor_alerts` | 1 watch, 2 cinemas, listings change twice, 2 creations or edits, 1 failed fetch, 1 restart | `TypeOK`, `RiseAccounted`, `OutageAlarmed`, and that `Monitor` implements `AlertLedger` (`AlertsAsPromised`, which contains `AlertedOnce`) |
| `monitor_pause` | 1 cinema, 3 pauses or resumes, 1 creation or edit, 1 deletion, 1 dropped handler, the window turns twice | `InSync`, `AtMostOneQuietRound`, `FlagConverges` |
| `monitor_catchup` | 3 filters (one IMAX only, one that does not compile), 2 edits, 1 listing change, 1 failed fetch, the window turns twice | `BaselineOfItsFilter`, `CatchesUp` |
| `autolock_safe` | 2 events, 1 cinema, 2 callbacks, limits 0 and 2, 1 edit, 1 expiry, 1 restart, 1 row that cannot be read; events and callbacks are symmetric | `TypeOK`, `MarksBacked`, `SettledStaysQuiet`, `LateFailureIgnored`, `RetryPromiseHolds` |
| `delivery_fanout` | a lock result or a test, a webhook, Gofer and a mail address, 2 edits, 1 crash | `TypeOK`, `SentIsTaken`, `OnlyChosen`, `NobodyHeldUp` |
| `watchstore_races` | 2 handlers, 2 ids, 2 movies, 2 cinemas, 1 user, 4 requests, 1 statement that fails or request cut off; ids are symmetric | `TypeOK` (with one row per key), `KeyNamesFilter`, `AutoLockHasItsChannel`, `NewFilterForgets`, `EditsLoseNobody`, `OwnConfigurationKept` |
| `timespec_rules` | 3 rules or intervals over 2 days, hours at and beside midnight and out of range | `WatchesWhatIsAsked`, `OneSpellingPerMeaning`, `RangeHoldsWatchedHours`, `OverWhenNothingIsLeft`, `TextMeansTheSame` |
| `silentwindow_day` | every minute of a day, windows that end at, before and after midnight | `EndsWhenItSays`, `TurnsAtItsEnds` |
| `auth_safe` | 2 passwords, 3 setups, 4 starts | `TypeOK`, `EnvPasswordInForce`, `WinnersPassword`, `FirstPasswordStands`, `ResetEndsOldSessions`, `SetupOnlyWithoutHash`, `SetupAnswered` |
| `update_installs` | 2 installs at a time, any number in a row | `BinaryWorks`, `RestartsIntoNew` |
| `monitor_dies` | 1 deletion | violated: `LoopSurvives` |
| `autolock_unheard` | 2 events, 2 callbacks | violated: `SuccessHeard` |

The bounds are the numbers of outside events; loops and handlers run as long as they
like. Two listing changes give an increase before and after a decrease; two edits
create a watch and then edit it; two cinemas are needed for a round that fails in
part; three pauses let a pause, a resume and a pause overlap; two callbacks and two
events are the smallest race of a success with a failure, and of a job with its
successor. Bounds of one on faults place the fault anywhere. `monitor_pause`
creates its watch and leaves its filter alone, because a pause does not look at what the
rows say: an edit would matter there by its wake-up only, which the creation has too. `monitor_catchup` has one watch and one cinema: what a failing cinema does to
the others is seen by `RiseAccounted`, with two. Four requests create two
watches and let two edits, or an edit and a deletion, overlap; with five, and no
fault, the result is the same and the run twelve times as long. Events of `Delivery` meet in the
rows alone, so that one at a time with two edits (unbind and bind again between its
reads) covers them; the run has no trigger because every behaviour of a trigger is
one of a lock result outside the silent window. `auth_safe` has a third setup to wait
behind a winner and a loser.

The deadlock check is off where the modelled system really stops: the loop dead after
a deletion (`monitor_pause`), or every bounded event used up and every task ended.

What the code does not keep is shown by two runs that TLC refutes; `PROJECT.json`
quotes the line each contradicts:

* `monitor_dies`: a watch deleted or merged during its round ends the loop until the
  process restarts (`monitor.rs:246`).
* `autolock_unheard`: an early failure and the final success of one job carry the same
  event id, the success is taken for a duplicate (`api.rs:946`).

## 4. Fairness

* `Monitor`: weak fairness for the loop as a whole, for handlers that have written and
  not yet answered (unless they are dropped first), and for spawned deliveries. tokio polls ready tasks; each fetch
  has a time limit and a bounded number of attempts (`maoyan.rs`), and each sleep
  ends. Nothing is assumed of listings, the clock, or handlers that have not begun.
  `CatchesUp` assumes that the monitor stays enabled, outside its silent window and
  alive from some time on; a failing fetch is retried by the next round, and the bound
  on failures stands for "not for ever". `FlagConverges` assumes only that the last
  value of `monitor_enabled` stays.
* `Delivery`: weak fairness for each task and for each channel whose requests have a
  time limit (webhooks 15 s and three tries, Gofer 3 s). None for mail:
  `notify_results_email` waits for `msmtp` without one.
* `Auth`: weak fairness for loading and for each setup, strong fairness for taking
  `setup_lock`, because tokio's mutex serves its waiters in order.
* `Update`: weak fairness for the steps of an install, the timer of `schedule_exit`,
  and the helper or launchd once the process has gone.

The other modules state safety only.

## 5. Proofs

All theorems hold for any values of the constants and bounds.

`MonitorProofs`:

* `TypeCorrect`: `[]TypeOK`, with `LoadInv` (the watches being read and evaluated
  are loaded ones, one is read at a time, nothing is left to do between rounds).
* `PauseNeverSleptThrough`: `[]InSync`, which is inductive given types: a write of
  `monitor_enabled` leaves its handler pending, its last step stores the permit, and
  only a loop that goes on to the settings takes it. A handler that is dropped in
  between marks the state (`dropped`) until the loop next reads the settings, and
  nothing is promised of it until then.
* `OneRoundAfterPause`: `[]AtMostOneQuietRound`, through `QuietInv`: after the one
  quiet round has begun, the loop is never past the settings with leave to poll.
* `OutagesAnnounced`: `[]OutageAlarmed`, through `AlarmInv`: what the loop remembers
  and what the panel shows as unhealthy was announced.
* `IncreasesAlertedOnce`: `AlertedOnce`, through `Ledger`: every alert was raised from
  a commit older than the stored one (`AlertsArePast`), what is loaded is no newer
  than what is stored (`LoadedIsPast`) but newer than every alert of a watch still to
  be reported (`AlertsPrecedeLoad`), and what is about to be reported has been written
  since it was loaded (`ReportIsWritten`). The last one rests on the engine lemma
  `ReportedIsWritten`: a bucket that grew differs from the baseline, since counts are
  numbers.
* `TriggersCompareLikeWithLike`: `[]BaselineOfItsFilter`, through `Filtered`: a stored
  baseline was built with the filter its row has, unless an edit had overtaken the round
  that stored it (`RowsOrigin`), and one the round has read, or will read while it loads,
  with the filter it loaded (`LoadedOrigin`), with the same exception; an edit between
  the two reads forgets the baseline, which is what keeps the second part. The exception
  is the case of section 6, and it is all there is: no order of the separate reads of
  rows, cinemas and states adds another.

The same module proves `AlertsKeepThePromise`, that `Monitor` implements `AlertLedger`.
The initial states map to its initial state; `SaveStates` maps to `Commit` of the changed
cinemas, the edits and deletions to `Drop`, `Report` to `Alert`, everything else to a
stutter. The step for `Report` needs the invariants above and that nothing but the
loop commits, so that what is loaded when a watch is reported is one commit behind.

It also proves `NoRiseLost`, that is `[]RiseAccounted`, through `Rises`:
what is stored for a watch still to be reported is what the round loaded of it or has
been dropped (`LoadedIsStored`), so a rise over the one is a rise over the other, and
what rose is what is about to be reported (`RisesAreTold`). Under it are facts about
the engine: `count` is the size of the bag of shows (`Counted`, by a bijection between
the entries of a bucket and the copies in its bag), and a bag with more elements than
another keeps some when the other is taken away (`LargerBagAdds`), so that a bucket
whose count rose always has shows to report (`RiseIsReported`).

`AutoLockProofs`: `TypeCorrect`, `MarksAlwaysBacked`, `SettledNeverSubmitted`,
`LateFailuresIgnored`, and `AnnouncedRetriesAreFree`, that is `RetryPromiseHolds`: a row
that is `failed` when the notice reads it again has fewer tries than the limit it was
last counted against (`counted`, 1 being excepted), whoever counted it: no row is no
tries, no handler counts up to less than one, and a success keeps the tries but is
`ok`. The second and third hold of rows that could be read: the fault that keeps a row
from being read takes its cinema off `barred` or its callback's `late` down.

`SilentWindow`: `TypeCorrect`; `OpenWindowEnds` and `SilenceTurnsAtItsEnds`, from case
lemmas about a window that does and one that does not cross midnight.

`DeliveryProofs`: `TypeCorrect` (with: no receiver is tried more than three times),
`SentWasTaken`, `ReachesOnlyChosen`, for any events, channels and edits. The invariant
says that nothing is sent before the fan-out, that a receiver takes no more than was
tried and a waiting channel has a try left, and that whom a task has chosen, or would
choose now, was in force since its event was raised.

`WatchStoreProofs`, for any handlers, watches and requests at once:

* `KeysAreUnique` and `KeysNameFilters`, through `Fresh`: while nobody else works on a
  watch, what an edit has read of its filter is still so, and an edit that found the
  filter unchanged writes the key that is there. `Fresh` needs that every id a handler
  works on was drawn, since ids are never drawn twice, and that two handlers on one
  watch are known to overlap.
* `SubscribersStay`, `BaselinesForgotten`, `ConfigurationsStay`, from what any step
  keeps of a row (`AllKept`). Only a merge takes a row away during a handler's step, and
  it leaves its subscribers at the row it merges into (`HandedOn`). The last needs that who has a configuration has a row to
  keep it in, because a merge copies only bindings the target lacks.
* `TypesCorrect`: `[]TypeOK`, through `Typed`: rows, and the record of a handler at
  every stage (`Ops`), have their types. The queues of jobs are sequences of jobs,
  whatever the request.
* `ChannelWithFlag`: `[]AutoLockHasItsChannel`, through `Locks`. Of a watch that no two
  requests were at work on, and none left with work on its AUTO LOCK channel, the flag is up only if the channel is bound or somebody's
  next job binds it (`Locked`). That stays so because nobody unbinds the channel while
  the flag is up (`Lawful`): in every queue an unbinding follows the edit that takes the flag
  back or another unbinding (`InOrder`), and that edit cannot fail on the way, since it leaves the
  filter alone and so looks for no other row (`~o.changed`). An edit that fails is the
  end of a strict queue only, and a merge leaves the target the bindings it had.

`TimeSpecProofs`, for any dates and hours and inputs of any length. The state only grows,
and its invariant is that it is typed (`InputsTyped`); the work is in what the operators
make of such an input:

* The loop of `normalize_intervals` (`MergedApart`): after each interval the merged ones
  are apart (the next begins after the last has ended, with an hour between) and cover
  what was covered, because the intervals come sorted (`JoinKeepsApart`). Induction over
  the intervals is by the least counterexample: `LeastOf` and `InductiveSet`, from the
  library's `WFMin`.
* Intervals apart are the maximal runs of the hours they cover, in order
  (`ApartAreRuns`), and a set of pairs can be listed in order in one way (`CanBeListed`,
  by counting who comes before; `ListedOnce`, by the first place where two lists differ).
  So hours have one spelling (`NormalOnce`), which is `MeaningsAreSpeltOnce`.
* `Parse` and `FromJson` return a TimeSpec in normal form that selects the hours the
  rules and numbers speak of (`ParseMeans`, `FromJsonMeans`), and storing and reading
  it changes nothing (`StoredAndRead`): `AskedIsWatched`.
* `RangesHoldAll` and `OverInTime`: the hours of a date in an interval go from `First` to
  `End` (`OnDate`), and no normalised interval ends at hour 0 (`CanonicalForms`).
* `TextGivesItBack`: the rules `to_input` writes speak of the same hours (`RuleOfRun`,
  `RunAround`), and a TimeSpec is known by its hours (`SoundOnce`).

`AuthProofs`: `TypeCorrect` (with: past `setup_lock` is who holds it),
`EnvironmentWins`, `WinnerChose`, `FirstStands`: a setup past its insert chose the
stored password, and a process that serves has what is stored unless a setup was
dropped in between. `NoSetupOverHash`: a stored password the process does not know is
about to be told it, or its request was dropped. `SessionsEndWithTheirPassword`:
secrets are drawn in order, and every session of the stored secret, or of the
process's, was opened by the stored password unless a reset is under way or was cut
off; before a password is stored there are no sessions.

`UpdateProofs`: `TypeCorrect` and `BinaryAlwaysWorks`, for any number of installs. The
invariant says what each install's descriptor points at and that, while no two have
used the temporary file at once, a probed file is a whole one.

Assumptions: `KeysAreNumbers` (bucket keys are naturals), `NoStateIsNoBaseline` (the
null value is not a baseline), `PayloadsAreListings` and `FiltersNameMovies` (what
listings and filters are made of), `LimitsAreNumbers`, `TypedAssumption` (hours and
minutes are naturals), `DatesAssumption` and `HoursAssumption` (the dates rules mention
are finitely many naturals, at least one, and hours are naturals), `AuthAssumption` (no password is the null value),
`ChannelsAssumption` (no channel is listed twice and there is an autolock channel: a
migration inserts it), `RequestsAssumption` (requests hold movies, cinemas,
flags and channels, and a missing field is neither `true` nor `false`).

Model-checked only: the liveness properties (`CatchesUp`, `FlagConverges`,
`NobodyHeldUp`, `SetupAnswered`, `RestartsIntoNew`), which are out of the prover's
reach. Every safety property the runs check is a theorem too.

## 6. What is excepted, and what is not modelled

Several promises hold only short of a case the code does not cover. The property then
names the case, through a history variable or a condition, and the case is a known
limit of the code:

| case | where | property that excepts it |
|---|---|---|
| a round under way when a filter is edited writes a baseline of the old filter back, and the next round compares with it: it may alert of shows that only the new filter lets through, although the first round is to be silent (`README.md:36`) and the edit's event says the baseline was cleared (`api.rs:363`) | `monitor.rs:246` | `BaselineOfItsFilter` (`overtaken`) |
| a pause or resume whose handler is dropped after its write wakes nobody and leaves the flag: the loop sleeps until its timer | `api.rs:1208`, `web.rs:1994` | `InSync` (`dropped`) |
| a round under way when the service is paused still notifies and locks | `dispatcher.rs:23` | `AtMostOneQuietRound` counts rounds, not deliveries |
| a round without active watches raises `health_ok` and leaves `health_prev`: the panel falls again without a new alarm | `monitor.rs:76` | `OutageAlarmed` counts the alarm sent before |
| a task that read the row before a success was recorded submits again; two tasks pass the mark's test together | `dispatcher.rs:356` | `SettledStaysQuiet` (settled throughout) |
| a row of `lock_state` that cannot be read is taken for none: a settled cinema is submitted again, a late failure written over a success | `dispatcher.rs:356`, `api.rs:945` | `SettledStaysQuiet`, `LateFailureIgnored` (the row was read) |
| a failure read before a concurrent success overwrites it; only the last event id is remembered, so that one event may count twice | `api.rs:945` | `LateFailureIgnored` (locked throughout) |
| with `lock_max_retries` 1 the first failure promises a retry that never comes | `db.rs:970` | `RetryPromiseHolds` (limit not 1) |
| the notice of a failure is made from the row as it is read again: after a success in between it promises a retry nobody needs, and a limit edited since is not looked at | `db.rs:987`, `api.rs:981` | `RetryPromiseHolds` (not `ok`, against `counted`) |
| the flag is written and the binding of its channel fails, or the request is cut off before it: nobody is told, and `auto_lock` stays on with its channel unbound | `db.rs:659`, `db.rs:700`, `db.rs:789`, `api.rs:414` | `AutoLockHasItsChannel` (`cut`) |
| two edits of one watch at once each write half a filter; a toggle between an edit's read and write is lost | `db.rs:707`, `db.rs:725` | `KeyNamesFilter`, `NewFilterForgets`, `AutoLockHasItsChannel` (`overlapped`) |
| a merge drops the configuration of the bindings it moves; a creation may bind `autolock-local` without `auto_lock`; blank or empty cinema lists pass | `db.rs:809`, `api.rs:267`, `db.rs:622` | `OwnConfigurationKept` speaks of the watches that stay, `AutoLockHasItsChannel` of one direction |
| separate ranges of one date are written back as the range around them; JSON hours are cut to eight bits before the range test | `time_spec.rs:469`, `time_spec.rs:402` | `TextMeansTheSame` (`OneRun`); the cut is modelled (`U8`), and `WatchesWhatIsAsked` speaks of numbers that lose nothing by it (`Uncut`) |
| a crash between the two writes of a reset keeps the old secret | `auth.rs:87` | `ResetEndsOldSessions` (`cut`) |
| a setup dropped during its insert leaves a hash the process does not know | `web.rs:1796` | `SetupOnlyWithoutHash` (`cut`) |
| two installs write the same temporary file; a failed copy to the backup is ignored | `update.rs:111`, `update.rs:130` | `BinaryWorks`, `RestartsIntoNew` (`shared`); the backup has no property |
| a webhook may show an event twice, a failed read of the bindings falls back on the channel's own address, and what was raised before the silent window is sent within it | `notify.rs:105`, `dispatcher.rs:65`, `dispatcher.rs:23` | `SentIsTaken`, `OnlyChosen` promise neither |

Not modelled:

* Database errors of the loop other than the broken foreign key; they would end it at
  the same `?`. Those of the handlers are modelled where the code goes on after them.
  Metrics, poll samples, statuses, event texts, the counters of
  `HealthState`.
* Counts are not wrapped at 16 bits: an hour of one cinema has far fewer shows. A
  payload that lists a movie twice (the last entry wins in the code).
* Mini-programme channels, which are counted and sent nothing; `notify_discord_async`.
* `patch_settings` as a sequence of writes that may stop at a bad value: the keys are
  independent and `monitor_enabled` is the last. Its last write and the wake-up after it
  are two steps of `Monitor`.
* Hazards that are modelled and that no property would notice going wrong: a mark older
  than 600 s gives way to a new submission (`dispatcher.rs:367`, `CheckInflight`), and
  two clicks on a toggle that count as one (`web.rs:2416`).
* Instance lock, pid file and signals (`service.rs`): they are the operating system's;
  a stop is a `Restart`, `Crash` or `Gone` of the other modules.
* Maoyan's wire format, cookies and the same-origin test, checksum texts, rendering,
  assets, presets, users and the WeChat login, which is a stub.

## 7. Plan

1. The subscriptions of channels and `delete_channel` in `WatchStore`.
2. The composition of `Monitor` and `AutoLock`: a trigger of a round, its submission
   and its callback under one pause switch.
