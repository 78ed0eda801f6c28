---------------------------- MODULE MonitorProofs ----------------------------
(***************************************************************************)
(* Proofs about Monitor, for any watches, cinemas, filters and listings:   *)
(* its own invariants, and that it implements AlertLedger.                 *)
(***************************************************************************)
EXTENDS Monitor, FiniteSetTheorems, TLAPS

-----------------------------------------------------------------------------
(* Types.                                                                  *)

\* The loop works on watches it has loaded, and forgets them between rounds.
LoadInv ==
  /\ pc # "load" => unread = {} /\ reading = {}
  /\ pc \notin {"fetch", "eval", "report", "dead"} => todo = {}
  /\ \A w \in unread \cup reading \cup todo : loaded[w] # NotLoaded
  /\ \A v, w \in reading : v = w

Typed == TypeOK /\ LoadInv

LEMMA InitTyped == Init => Typed
<1> SUFFICES ASSUME Init PROVE Typed
  OBVIOUS
<1>1. TypeOK
  BY DEF Init, TypeOK, NoneWaiting, NothingSeen, NothingLoaded, NothingPolled, StoredStates,
         Unbuilt, Origins, FetchResults
<1>2. LoadInv
  BY DEF Init, LoadInv
<1> QED
  BY <1>1, <1>2 DEF Typed

\* The answer of a cinema that was fetched is a snapshot of a listing.
LEMMA FetchedSnap ==
  ASSUME NEW r \in FetchResults, r.result = "ok"
  PROVE  \E p \in Payloads : r.snap = FromPayload(p)
  BY DEF FetchResults, NotPolled, Awaited, Failed, Fetched

\* The engine's new state is the baseline of the listing under the filter.
LEMMA EvaluatedState ==
  ASSUME NEW f \in Filters, NEW p \in Payloads, NEW prev
  PROVE  EvaluateCinema(f, FromPayload(p), prev).state \in Baselines
  BY DEF EvaluateCinema, Baselines

LEMMA LoopHeadTyped ==
  ASSUME Typed, ReadSettings \/ PublishFlags \/ TimerFires \/ Notified
  PROVE  Typed'
<1> USE DEF world, db, shared, history
<1>1. TypeOK'
  <2>1. CASE ReadSettings
    BY <2>1 DEF Typed, TypeOK, ReadSettings
  <2>2. CASE PublishFlags
    <3>1. health' \in [paused: BOOLEAN, silent: BOOLEAN, health_ok: BOOLEAN]
      BY <2>2 DEF Typed, TypeOK, PublishFlags
    <3> QED
      BY <2>2, <3>1 DEF Typed, TypeOK, PublishFlags, NothingSeen
  <2>3. CASE TimerFires \/ Notified
    BY <2>3 DEF Typed, TypeOK, TimerFires, Notified
  <2> QED
    BY <2>1, <2>2, <2>3
<1>2. LoadInv'
  BY DEF Typed, LoadInv, ReadSettings, PublishFlags, TimerFires, Notified
<1> QED
  BY <1>1, <1>2 DEF Typed

LEMMA LoadTyped ==
  ASSUME Typed, \/ LoadRows \/ NothingActive \/ PlanRound
                \/ \E w \in Watches : LoadCinemas(w) \/ LoadState(w)
  PROVE  Typed'
<1> USE DEF world, db, shared, history
<1>1. CASE LoadRows
  <2>1. \A w \in Watches : Exists(w) => watches[w] \in Row
    BY DEF Typed, TypeOK, Exists
  <2>2. loaded' \in [Watches -> LoadedRow \cup {NotLoaded}]
    BY <1>1, <2>1 DEF LoadRows, LoadedRow, StoredStates, Origins, Unbuilt, Row
  <2>3. TypeOK'
    BY <1>1, <2>2 DEF Typed, TypeOK, LoadRows
  <2>4. LoadInv'
    BY <1>1 DEF Typed, TypeOK, LoadInv, LoadRows, NotLoaded
  <2> QED
    BY <2>3, <2>4 DEF Typed
<1>2. CASE NothingActive
  <2>1. TypeOK'
    BY <1>2 DEF Typed, TypeOK, NothingActive, ForgetRound, NothingLoaded, NothingPolled,
                FetchResults
  <2>2. LoadInv'
    BY <1>2 DEF Typed, LoadInv, NothingActive
  <2> QED
    BY <2>1, <2>2 DEF Typed
<1>3. CASE PlanRound
  <2>1. TypeOK'
    BY <1>3 DEF Typed, TypeOK, PlanRound, FetchResults, Active
  <2>2. LoadInv'
    BY <1>3 DEF Typed, LoadInv, PlanRound, Active
  <2> QED
    BY <2>1, <2>2 DEF Typed
<1>4. ASSUME NEW w \in Watches, LoadCinemas(w)
      PROVE  Typed'
  <2>1. loaded[w] \in LoadedRow
    BY <1>4 DEF Typed, TypeOK, LoadInv, LoadCinemas
  <2> DEFINE cs == IF Exists(w) THEN watches[w].cinemas ELSE {}
  <2>2. cs \in SUBSET Cinemas
    BY DEF Typed, TypeOK, Exists, Row
  <2>3. loaded' = [loaded EXCEPT ![w] = [loaded[w] EXCEPT !.cinemas = cs]]
    BY <1>4 DEF Typed, TypeOK, LoadCinemas
  <2> HIDE DEF cs
  <2>4. [loaded[w] EXCEPT !.cinemas = cs] \in LoadedRow
    BY <2>1, <2>2 DEF LoadedRow
  <2>5. TypeOK'
    <3>1. loaded' \in [Watches -> LoadedRow \cup {NotLoaded}]
      BY <2>3, <2>4 DEF Typed, TypeOK
    <3> QED
      BY <1>4, <3>1 DEF Typed, TypeOK, LoadCinemas
  <2>6. [loaded[w] EXCEPT !.cinemas = cs] # NotLoaded
    BY <2>4 DEF LoadedRow, NotLoaded
  <2>7. LoadInv'
    BY <1>4, <2>3, <2>6 DEF Typed, TypeOK, LoadInv, LoadCinemas
  <2> QED
    BY <2>5, <2>7 DEF Typed
<1>5. ASSUME NEW w \in Watches, LoadState(w)
      PROVE  Typed'
  <2>1. loaded[w] \in LoadedRow
    BY <1>5 DEF Typed, TypeOK, LoadInv, LoadState
  <2> DEFINE row == [loaded[w] EXCEPT !.state = watch_state[w], !.origin = origin[w]]
  <2>2. loaded' = [loaded EXCEPT ![w] = row]
    BY <1>5 DEF Typed, TypeOK, LoadState
  <2>3. row \in LoadedRow
    BY <2>1 DEF Typed, TypeOK, LoadedRow
  <2> HIDE DEF row
  <2>4. TypeOK'
    <3>1. loaded' \in [Watches -> LoadedRow \cup {NotLoaded}]
      BY <2>2, <2>3 DEF Typed, TypeOK
    <3> QED
      BY <1>5, <3>1 DEF Typed, TypeOK, LoadState
  <2>5. row # NotLoaded
    BY <2>3 DEF LoadedRow, NotLoaded
  <2>6. LoadInv'
    BY <1>5, <2>2, <2>5 DEF Typed, TypeOK, LoadInv, LoadState
  <2> QED
    BY <2>4, <2>6 DEF Typed
<1> QED
  BY <1>1, <1>2, <1>3, <1>4, <1>5

LEMMA FetchTyped ==
  ASSUME Typed, FetchesJoined \/ \E c \in Cinemas : FetchOk(c) \/ FetchError(c)
  PROVE  Typed'
<1> USE DEF world, db, shared, history
<1>1. fetch' \in [Cinemas -> FetchResults]
  BY DEF Typed, TypeOK, FetchesJoined, FetchOk, FetchError, FetchResults
<1>2. TypeOK'
  BY <1>1 DEF Typed, TypeOK, FetchesJoined, FetchOk, FetchError
<1>3. LoadInv'
  BY DEF Typed, LoadInv, FetchesJoined, FetchOk, FetchError
<1> QED
  BY <1>2, <1>3 DEF Typed

LEMMA EvalTyped ==
  ASSUME Typed, \/ Report \/ EndRound
                \/ \E w \in Watches : SkipUncompilable(w) \/ SaveStates(w)
  PROVE  Typed'
<1> USE DEF world, db, shared, history
<1>1. CASE Report
  <2>1. TypeOK'
    BY <1>1 DEF Typed, TypeOK, Report
  <2>2. LoadInv'
    BY <1>1 DEF Typed, LoadInv, Report
  <2> QED
    BY <2>1, <2>2 DEF Typed
<1>2. CASE EndRound
  <2>1. TypeOK'
    BY <1>2 DEF Typed, TypeOK, EndRound, ForgetRound, NothingLoaded, NothingPolled, FetchResults
  <2>2. LoadInv'
    BY <1>2 DEF Typed, LoadInv, EndRound
  <2> QED
    BY <2>1, <2>2 DEF Typed
<1>3. ASSUME NEW w \in Watches, SkipUncompilable(w)
      PROVE  Typed'
  <2>1. TypeOK'
    BY <1>3 DEF Typed, TypeOK, SkipUncompilable
  <2>2. LoadInv'
    BY <1>3 DEF Typed, LoadInv, SkipUncompilable
  <2> QED
    BY <2>1, <2>2 DEF Typed
<1>4. ASSUME NEW w \in Watches, SaveStates(w)
      PROVE  Typed'
  <2>1. loaded[w] \in LoadedRow
    BY <1>4 DEF Typed, TypeOK, LoadInv, SaveStates
  <2>2. ASSUME NEW c \in Answered(w)
        PROVE  Outcome(w)[c].state \in Baselines
    <3>1. c \in Cinemas /\ fetch[c] \in FetchResults /\ fetch[c].result = "ok"
      BY <2>1 DEF Typed, TypeOK, Answered, LoadedRow
    <3>2. PICK p \in Payloads : fetch[c].snap = FromPayload(p)
      BY <3>1, FetchedSnap
    <3>3. loaded[w].filter \in Filters
      BY <2>1 DEF LoadedRow
    <3>4. Outcome(w)[c] = EvaluateCinema(loaded[w].filter, FromPayload(p), Prev(w, c))
      BY <3>2 DEF Outcome
    <3> QED
      BY <3>3, <3>4, EvaluatedState
  <2>3. DOMAIN Outcome(w) = Answered(w)
    BY DEF Outcome
  <2>4. watch_state' \in [Watches -> StoredStates]
    <3> DEFINE changed == {c \in DOMAIN Outcome(w) : Outcome(w)[c].state_changed}
               new == [c \in Cinemas |-> IF c \in changed THEN Outcome(w)[c].state
                                         ELSE watch_state[w][c]]
    <3>1. watch_state' = watch_state \/ watch_state' = [watch_state EXCEPT ![w] = new]
      BY <1>4 DEF Typed, TypeOK, SaveStates
    <3>2. new \in StoredStates
      BY <2>2, <2>3 DEF Typed, TypeOK, StoredStates
    <3> HIDE DEF new
    <3> QED
      BY <3>1, <3>2 DEF Typed, TypeOK
  <2>5. origin' \in [Watches -> [Cinemas -> Origins]]
    <3> DEFINE changed == {c \in DOMAIN Outcome(w) : Outcome(w)[c].state_changed}
               new == [c \in Cinemas |->
                         IF c \in changed
                         THEN Committed(w, origin[w][c])
                         ELSE origin[w][c]]
    <3>1. origin' = origin \/ origin' = [origin EXCEPT ![w] = new]
      BY <1>4 DEF Typed, TypeOK, SaveStates
    <3>2. ASSUME NEW c \in Cinemas
          PROVE  Committed(w, origin[w][c]) \in Origins
      <4>1. origin[w][c] \in Origins /\ loaded[w].filter \in Filters
        BY <2>1 DEF Typed, TypeOK, LoadedRow
      <4> QED
        BY <4>1 DEF Committed, Origins
    <3>3. new \in [Cinemas -> Origins]
      BY <3>2 DEF Typed, TypeOK
    <3> HIDE DEF new
    <3> QED
      BY <3>1, <3>3 DEF Typed, TypeOK
  <2>6. pc' \in {"report", "dead"}
    BY <1>4 DEF SaveStates
  <2>7. TypeOK'
    BY <1>4, <2>4, <2>5, <2>6 DEF Typed, TypeOK, SaveStates
  <2>8. LoadInv'
    BY <1>4, <2>6 DEF Typed, LoadInv, SaveStates
  <2> QED
    BY <2>7, <2>8 DEF Typed
<1> QED
  BY <1>1, <1>2, <1>3, <1>4

\* The handlers that clear the baselines of a watch.
LEMMA ClearedTyped ==
  ASSUME Typed, NEW w \in Watches,
         watch_state' = [watch_state EXCEPT ![w] = [c \in Cinemas |-> NoState]],
         origin' = [origin EXCEPT ![w] = [c \in Cinemas |-> [@[c] EXCEPT !.under = {}]]],
         pending' = [pending EXCEPT !.edit = @ + 1]
  PROVE  /\ watch_state' \in [Watches -> StoredStates]
         /\ origin' \in [Watches -> [Cinemas -> Origins]]
         /\ pending' \in [edit: Nat, pause: Nat, resume: Nat]
<1>1. watch_state' \in [Watches -> StoredStates]
  BY DEF Typed, TypeOK, StoredStates
<1>2. origin' \in [Watches -> [Cinemas -> Origins]]
  <2> DEFINE new == [c \in Cinemas |-> [origin[w][c] EXCEPT !.under = {}]]
  <2>1. new \in [Cinemas -> Origins]
    <3>1. ASSUME NEW c \in Cinemas
          PROVE  [origin[w][c] EXCEPT !.under = {}] \in Origins
      <4>1. origin[w][c] \in Origins
        BY DEF Typed, TypeOK
      <4> QED
        BY <4>1 DEF Origins
    <3> QED
      BY <3>1
  <2>2. origin' = [origin EXCEPT ![w] = new]
    BY DEF Typed, TypeOK
  <2> HIDE DEF new
  <2> QED
    BY <2>1, <2>2 DEF Typed, TypeOK
<1>3. pending' \in [edit: Nat, pause: Nat, resume: Nat]
  BY DEF Typed, TypeOK
<1> QED
  BY <1>1, <1>2, <1>3

LEMMA HandlersTyped == ASSUME Typed, Handlers PROVE Typed'
<1> USE DEF world, loop, history
<1>1. ASSUME NEW w \in Watches, NEW f \in Filters, NEW cs \in SUBSET Cinemas,
             CreateWatch(w, f, cs)
      PROVE  Typed'
  <2>1. [row |-> "stored", filter |-> f, cinemas |-> cs, enabled |-> TRUE] \in Row
    BY DEF Row
  <2>2. pending' \in [edit: Nat, pause: Nat, resume: Nat]
    BY <1>1 DEF Typed, TypeOK, CreateWatch
  <2>3. TypeOK'
    BY <1>1, <2>1, <2>2 DEF Typed, TypeOK, CreateWatch
  <2>4. LoadInv'
    BY <1>1 DEF Typed, LoadInv, CreateWatch
  <2> QED
    BY <2>3, <2>4 DEF Typed
<1>2. ASSUME NEW w \in Watches, NEW f \in Filters, NEW cs \in SUBSET Cinemas,
             NEW on \in BOOLEAN, EditFilter(w, f, cs, on)
      PROVE  Typed'
  <2> DEFINE row == [watches[w] EXCEPT !.filter = f, !.cinemas = cs, !.enabled = on]
  <2>1. watches[w] \in Row
    BY <1>2 DEF Typed, TypeOK, EditFilter, Exists
  <2>2. row \in Row
    BY <2>1 DEF Row
  <2>3. watches' = [watches EXCEPT ![w] = row]
    BY <1>2, <2>1 DEF Typed, TypeOK, EditFilter
  <2> HIDE DEF row
  <2>4. watches' \in [Watches -> Row \cup {Unborn, Gone}]
    BY <2>2, <2>3 DEF Typed, TypeOK
  <2>5. /\ watch_state' \in [Watches -> StoredStates]
        /\ origin' \in [Watches -> [Cinemas -> Origins]]
        /\ pending' \in [edit: Nat, pause: Nat, resume: Nat]
    BY <1>2, ClearedTyped DEF EditFilter
  <2>6. /\ UNCHANGED <<listing, in_window, monitor_enabled, health, wake, dropped>>
        /\ UNCHANGED loop
    BY <1>2 DEF EditFilter
  <2>7. TypeOK'
    BY <2>4, <2>5, <2>6 DEF Typed, TypeOK
  <2>8. LoadInv'
    BY <1>2 DEF Typed, LoadInv, EditFilter
  <2> QED
    BY <2>7, <2>8 DEF Typed
<1>3. ASSUME NEW w \in Watches, SetWatchEnabled(w)
      PROVE  Typed'
  <2> DEFINE row == [watches[w] EXCEPT !.enabled = ~watches[w].enabled]
  <2>1. watches[w] \in Row
    BY <1>3 DEF Typed, TypeOK, SetWatchEnabled, Exists
  <2>2. row \in Row
    BY <2>1 DEF Row
  <2>3. watches' = [watches EXCEPT ![w] = row]
    BY <1>3, <2>1 DEF Typed, TypeOK, SetWatchEnabled
  <2> HIDE DEF row
  <2>4. watches' \in [Watches -> Row \cup {Unborn, Gone}]
    BY <2>2, <2>3 DEF Typed, TypeOK
  <2>5. pending' \in [edit: Nat, pause: Nat, resume: Nat]
    BY <1>3 DEF Typed, TypeOK, SetWatchEnabled
  <2>6. TypeOK'
    BY <1>3, <2>4, <2>5 DEF Typed, TypeOK, SetWatchEnabled
  <2>7. LoadInv'
    BY <1>3 DEF Typed, LoadInv, SetWatchEnabled
  <2> QED
    BY <2>6, <2>7 DEF Typed
<1>4. ASSUME NEW w \in Watches, DeleteWatch(w)
      PROVE  Typed'
  <2>1. /\ watch_state' \in [Watches -> StoredStates]
        /\ origin' \in [Watches -> [Cinemas -> Origins]]
        /\ pending' \in [edit: Nat, pause: Nat, resume: Nat]
    BY <1>4, ClearedTyped DEF DeleteWatch
  <2>2. watches' \in [Watches -> Row \cup {Unborn, Gone}]
    BY <1>4 DEF Typed, TypeOK, DeleteWatch
  <2>3. /\ UNCHANGED <<listing, in_window, monitor_enabled, health, wake, dropped>>
        /\ UNCHANGED loop
    BY <1>4 DEF DeleteWatch
  <2>4. TypeOK'
    BY <2>1, <2>2, <2>3 DEF Typed, TypeOK
  <2>5. LoadInv'
    BY <1>4 DEF Typed, LoadInv, DeleteWatch
  <2> QED
    BY <2>4, <2>5 DEF Typed
<1>5. ASSUME NEW b \in BOOLEAN, SetPaused(b) \/ PatchMonitorEnabled(b)
      PROVE  Typed'
  <2>1. pending' \in [edit: Nat, pause: Nat, resume: Nat]
    BY <1>5 DEF Typed, TypeOK, SetPaused, PatchMonitorEnabled
  <2>2. monitor_enabled' \in BOOLEAN
    <3>1. monitor_enabled \in BOOLEAN
      BY DEF Typed, TypeOK
    <3>2. CASE SetPaused(b)
      <4>1. monitor_enabled' = ~b \/ monitor_enabled' = monitor_enabled
        BY <3>2 DEF SetPaused
      <4> QED
        BY <3>1, <4>1
    <3>3. CASE PatchMonitorEnabled(b)
      BY <3>3 DEF PatchMonitorEnabled
    <3> QED
      BY <1>5, <3>2, <3>3
  <2>3. /\ UNCHANGED <<listing, in_window, watches, watch_state, health, wake, origin, dropped>>
        /\ UNCHANGED loop
    BY <1>5 DEF SetPaused, PatchMonitorEnabled
  <2>4. TypeOK'
    BY <2>1, <2>2, <2>3 DEF Typed, TypeOK
  <2>5. LoadInv'
    BY <1>5 DEF Typed, LoadInv, SetPaused, PatchMonitorEnabled
  <2> QED
    BY <2>4, <2>5 DEF Typed
<1>6. ASSUME NEW h \in {"pause", "resume"}, FinishPause(h)
      PROVE  Typed'
  <2>1. pending' \in [edit: Nat, pause: Nat, resume: Nat]
    BY <1>6 DEF Typed, TypeOK, FinishPause
  <2>2. health' \in [paused: BOOLEAN, silent: BOOLEAN, health_ok: BOOLEAN]
    BY <1>6 DEF Typed, TypeOK, FinishPause
  <2>3. TypeOK'
    BY <1>6, <2>1, <2>2 DEF Typed, TypeOK, FinishPause, db
  <2>4. LoadInv'
    BY <1>6 DEF Typed, LoadInv, FinishPause
  <2> QED
    BY <2>3, <2>4 DEF Typed
<1>7. ASSUME FinishEdit
      PROVE  Typed'
  <2>1. pending' \in [edit: Nat, pause: Nat, resume: Nat]
    BY <1>7 DEF Typed, TypeOK, FinishEdit
  <2>2. TypeOK'
    BY <1>7, <2>1 DEF Typed, TypeOK, FinishEdit, db
  <2>3. LoadInv'
    BY <1>7 DEF Typed, LoadInv, FinishEdit
  <2> QED
    BY <2>2, <2>3 DEF Typed
<1>8. ASSUME NEW h \in {"edit", "pause", "resume"}, DropHandler(h)
      PROVE  Typed'
  <2>1. pending' \in [edit: Nat, pause: Nat, resume: Nat]
    BY <1>8 DEF Typed, TypeOK, DropHandler
  <2>2. TypeOK'
    BY <1>8, <2>1 DEF Typed, TypeOK, DropHandler, db
  <2>3. LoadInv'
    BY <1>8 DEF Typed, LoadInv, DropHandler
  <2> QED
    BY <2>2, <2>3 DEF Typed
<1> QED
  BY <1>1, <1>2, <1>3, <1>4, <1>5, <1>6, <1>7, <1>8 DEF Handlers

LEMMA OthersTyped ==
  ASSUME Typed, World \/ UNCHANGED vars \/ \E t \in tasks : DispatchTrigger(t)
  PROVE  Typed'
<1> USE DEF db, shared, loop, history
<1>1. ASSUME NEW c \in Cinemas, NEW p \in Payloads, ListingChanges(c, p)
      PROVE  Typed'
  BY <1>1 DEF Typed, TypeOK, LoadInv, ListingChanges
<1>2. ASSUME WindowTurns
      PROVE  Typed'
  BY <1>2 DEF Typed, TypeOK, LoadInv, WindowTurns
<1>3. ASSUME Restart
      PROVE  Typed'
  <2>1. TypeOK'
    BY <1>3 DEF Typed, TypeOK, Restart, FreshProcess, ForgetRound, world, NoneWaiting,
                NothingSeen, NothingLoaded, NothingPolled, FetchResults
  <2>2. LoadInv'
    BY <1>3 DEF LoadInv, Restart, FreshProcess
  <2> QED
    BY <2>1, <2>2 DEF Typed
<1>4. ASSUME NEW t \in tasks, DispatchTrigger(t)
      PROVE  Typed'
  BY <1>4 DEF Typed, TypeOK, LoadInv, DispatchTrigger, world
<1>5. ASSUME UNCHANGED vars
      PROVE  Typed'
  BY <1>5 DEF Typed, TypeOK, LoadInv, vars, world
<1> QED
  BY <1>1, <1>2, <1>3, <1>4, <1>5 DEF World

LEMMA TypedKept == ASSUME Typed, [Next]_vars PROVE Typed'
<1>1. ASSUME Loop
      PROVE  Typed'
  BY <1>1, LoopHeadTyped, LoadTyped, FetchTyped, EvalTyped DEF Loop
<1> QED
  BY <1>1, HandlersTyped, OthersTyped DEF Next

\* What the loop has loaded, the stored baselines and the fetched listings are of
\* the loop's kinds in every state, whatever the handlers do in between.
THEOREM TypeCorrect == Spec => []TypeOK
<1>1. Typed => TypeOK
  BY DEF Typed
<1> QED
  BY InitTyped, TypedKept, <1>1, PTL DEF Spec

-----------------------------------------------------------------------------
(* Pause and resume.                                                       *)

\* InSync is inductive: a step that changes monitor_enabled leaves its handler
\* pending, the handler's last step stores the permit or is the drop that is noted,
\* and only a loop that goes on to read the settings takes the one or forgets the other.
LEMMA InSyncKept == ASSUME Typed, InSync, [Next]_vars PROVE InSync'
<1> USE DEF history, world, db, NoneWaiting
<1>1. ASSUME Loop
      PROVE  InSync'
  <2>1. UNCHANGED <<monitor_enabled, pending>>
    BY <1>1 DEF Loop, ReadSettings, PublishFlags, LoadRows, NothingActive, PlanRound, LoadCinemas,
                LoadState, FetchOk, FetchError, FetchesJoined, SkipUncompilable, SaveStates,
                Report, EndRound, TimerFires, Notified, shared
  <2>2. CASE ReadSettings
    BY <2>1, <2>2 DEF InSync, ReadSettings
  <2>3. CASE PublishFlags
    BY <2>1, <2>3 DEF Typed, TypeOK, InSync, PublishFlags
  <2>4. CASE TimerFires \/ Notified
    BY <2>4 DEF InSync, TimerFires, Notified
  <2>5. CASE pc \notin {"settings", "flags"} /\ pc' \notin {"settings", "flags"}
             /\ wake' = wake /\ health'.paused = health.paused /\ dropped' = dropped
    BY <2>1, <2>5 DEF InSync
  <2>6. ReadSettings \/ PublishFlags \/ TimerFires \/ Notified
        \/ (pc \notin {"settings", "flags"} /\ pc' \notin {"settings", "flags"}
            /\ wake' = wake /\ health'.paused = health.paused /\ dropped' = dropped)
    BY <1>1 DEF Typed, TypeOK, Loop, LoadRows, NothingActive, PlanRound, LoadCinemas,
                LoadState, FetchOk, FetchError, FetchesJoined, SkipUncompilable, SaveStates,
                Report, EndRound, shared
  <2> QED
    BY <2>2, <2>3, <2>4, <2>5, <2>6
<1>2. ASSUME Handlers
      PROVE  wake' \/ pending' # NoneWaiting \/ dropped'
  <2>1. ASSUME NEW h \in {"edit", "pause", "resume"}, pending' = [pending EXCEPT ![h] = @ + 1]
        PROVE  pending' # NoneWaiting
    <3>1. pending[h] \in Nat
      BY DEF Typed, TypeOK
    <3>2. pending'[h] = pending[h] + 1
      BY <2>1 DEF Typed, TypeOK
    <3>3. pending'[h] # 0
      BY <3>1, <3>2
    <3> QED
      BY <3>3
  <2>2. \/ wake' \/ dropped'
        \/ \E h \in {"edit", "pause", "resume"} : pending' = [pending EXCEPT ![h] = @ + 1]
    BY <1>2 DEF Handlers, CreateWatch, EditFilter, SetWatchEnabled, DeleteWatch, SetPaused,
                PatchMonitorEnabled, FinishPause, FinishEdit, DropHandler
  <2> QED
    BY <2>1, <2>2
<1>3. ASSUME Restart
      PROVE  InSync'
  BY <1>3 DEF InSync, Restart, FreshProcess
<1>4. ASSUME \/ UNCHANGED vars \/ WindowTurns
             \/ \E c \in Cinemas, p \in Payloads : ListingChanges(c, p)
             \/ \E t \in tasks : DispatchTrigger(t)
      PROVE  InSync'
  BY <1>4 DEF InSync, WindowTurns, ListingChanges, DispatchTrigger, vars, shared, loop
<1> QED
  BY <1>1, <1>2, <1>3, <1>4 DEF Next, World, InSync

\* No pause and no resume is slept through, for any watches, listings and number
\* of handlers at work, of which any may be dropped after its write: what such a one
\* wrote is unknown to the loop only until it looks at the settings again.
THEOREM PauseNeverSleptThrough == Spec => []InSync
<1>1. Init => Typed /\ InSync
  BY InitTyped DEF Init, InSync
<1>2. Typed /\ InSync /\ [Next]_vars => (Typed /\ InSync)'
  BY TypedKept, InSyncKept
<1> QED
  BY <1>1, <1>2, PTL DEF Spec

\* The loop is on its way to poll, whatever the database says by now.
WillPoll == pc \in {"rows", "load"} \/ (pc = "flags" /\ ~seen.paused)

\* Once the one quiet round has begun, the loop looks at the settings before the next.
QuietInv ==
  /\ quiet_rounds \in {0, 1}
  /\ ~monitor_enabled /\ quiet_rounds = 1 => ~WillPoll

LEMMA QuietKept == ASSUME Typed, QuietInv, [Next]_vars PROVE QuietInv'
<1> USE DEF history, world, db
<1>1. CASE ReadSettings
  BY <1>1 DEF QuietInv, WillPoll, ReadSettings
<1>2. CASE PublishFlags
  BY <1>2 DEF QuietInv, WillPoll, PublishFlags
<1>3. CASE PlanRound
  BY <1>3 DEF Typed, TypeOK, QuietInv, WillPoll, PlanRound
<1>4. CASE \E b \in BOOLEAN : SetPaused(b) \/ PatchMonitorEnabled(b)
  <2>1. UNCHANGED <<pc, seen>> /\ quiet_rounds' = IF monitor_enabled THEN 0 ELSE quiet_rounds
    BY <1>4 DEF SetPaused, PatchMonitorEnabled, loop
  <2> QED
    BY <2>1 DEF QuietInv, WillPoll
<1>5. CASE Restart
  BY <1>5 DEF QuietInv, WillPoll, Restart, FreshProcess
<1>6. ASSUME UNCHANGED <<quiet_rounds, monitor_enabled>>, WillPoll' => WillPoll
      PROVE  QuietInv'
  BY <1>6 DEF QuietInv
<1>7. CASE \/ LoadRows \/ NothingActive \/ FetchesJoined \/ Report \/ EndRound \/ TimerFires
           \/ Notified
           \/ \E w \in Watches : LoadCinemas(w) \/ LoadState(w) \/ SkipUncompilable(w)
           \/ \E c \in Cinemas : FetchOk(c) \/ FetchError(c)
  <2>1. UNCHANGED <<quiet_rounds, monitor_enabled>> /\ (WillPoll' => WillPoll)
    BY <1>7 DEF LoadRows, NothingActive, FetchesJoined, Report, EndRound, TimerFires, Notified,
                LoadCinemas, LoadState, SkipUncompilable, FetchOk, FetchError, WillPoll
  <2> QED
    BY <1>6, <2>1
<1>8. CASE \E w \in Watches : SaveStates(w)
  <2>1. UNCHANGED <<quiet_rounds, monitor_enabled>> /\ pc' \in {"report", "dead"}
    BY <1>8 DEF SaveStates
  <2> QED
    BY <1>6, <2>1 DEF WillPoll
<1>9. CASE \/ UNCHANGED vars \/ WindowTurns \/ FinishEdit
           \/ (\E w \in Watches, f \in Filters, cs \in SUBSET Cinemas :
                 CreateWatch(w, f, cs) \/ \E on \in BOOLEAN : EditFilter(w, f, cs, on))
           \/ (\E w \in Watches : SetWatchEnabled(w) \/ DeleteWatch(w))
           \/ (\E h \in {"pause", "resume"} : FinishPause(h))
           \/ (\E h \in {"edit", "pause", "resume"} : DropHandler(h))
           \/ (\E c \in Cinemas, p \in Payloads : ListingChanges(c, p))
           \/ \E t \in tasks : DispatchTrigger(t)
  <2>1. UNCHANGED <<quiet_rounds, monitor_enabled, pc, seen>>
    BY <1>9 DEF CreateWatch, EditFilter, SetWatchEnabled, DeleteWatch, FinishPause, FinishEdit,
                DropHandler, WindowTurns, ListingChanges, DispatchTrigger, vars, loop
  <2> QED
    BY <1>6, <2>1 DEF WillPoll
<1> QED
  BY <1>1, <1>2, <1>3, <1>4, <1>5, <1>7, <1>8, <1>9 DEF Next, Loop, Handlers, World

\* A pause stops the polling after at most the round whose settings had been read,
\* whichever handler made it and however rounds, edits and restarts fall.
THEOREM OneRoundAfterPause == Spec => []AtMostOneQuietRound
<1>1. Init => Typed /\ QuietInv
  BY InitTyped DEF Init, QuietInv
<1>2. Typed /\ QuietInv /\ [Next]_vars => (Typed /\ QuietInv)'
  BY TypedKept, QuietKept
<1>3. QuietInv => AtMostOneQuietRound
  BY DEF QuietInv, AtMostOneQuietRound
<1> QED
  BY <1>1, <1>2, <1>3, PTL DEF Spec

-----------------------------------------------------------------------------
(* The health alarm.                                                       *)

\* Whatever is unhealthy, on the panel or in the loop's memory, was announced.
AlarmInv == (~health_prev => alarmed) /\ (~health.health_ok => alarmed)

LEMMA AlarmKept == ASSUME Typed, AlarmInv, [Next]_vars PROVE AlarmInv'
<1> USE DEF history, shared
<1>1. CASE EndRound
  <2>1. health'.health_ok = ~issues /\ health_prev' = ~issues
    BY <1>1 DEF Typed, TypeOK, EndRound
  <2>2. alarmed' = (issues /\ (health_prev \/ alarmed))
    BY <1>1 DEF EndRound
  <2> QED
    BY <2>1, <2>2 DEF AlarmInv
<1>2. CASE Restart
  BY <1>2 DEF AlarmInv, Restart, FreshProcess
<1>3. ASSUME UNCHANGED <<health_prev, alarmed>>,
             health'.health_ok = health.health_ok \/ health'.health_ok
      PROVE  AlarmInv'
  BY <1>3 DEF AlarmInv
<1>4. CASE NothingActive
  <2>1. UNCHANGED <<health_prev, alarmed>> /\ health'.health_ok
    BY <1>4 DEF Typed, TypeOK, NothingActive
  <2> QED
    BY <1>3, <2>1
<1>5. CASE PublishFlags \/ \E h \in {"pause", "resume"} : FinishPause(h)
  <2>1. UNCHANGED <<health_prev, alarmed>> /\ health'.health_ok = health.health_ok
    BY <1>5 DEF Typed, TypeOK, PublishFlags, FinishPause, loop
  <2> QED
    BY <1>3, <2>1
<1>6. CASE \/ ReadSettings \/ LoadRows \/ PlanRound \/ FetchesJoined \/ Report \/ TimerFires
           \/ Notified
           \/ (\E w \in Watches : LoadCinemas(w) \/ LoadState(w) \/ SkipUncompilable(w)
                                  \/ SaveStates(w))
           \/ (\E c \in Cinemas : FetchOk(c) \/ FetchError(c))
  <2>1. UNCHANGED <<health_prev, alarmed, health>>
    BY <1>6 DEF ReadSettings, LoadRows, PlanRound, FetchesJoined, Report, TimerFires, Notified,
                LoadCinemas, LoadState, SkipUncompilable, SaveStates, FetchOk, FetchError
  <2> QED
    BY <1>3, <2>1
<1>7. CASE \/ UNCHANGED vars \/ WindowTurns \/ FinishEdit
           \/ (\E w \in Watches, f \in Filters, cs \in SUBSET Cinemas :
                 CreateWatch(w, f, cs) \/ \E on \in BOOLEAN : EditFilter(w, f, cs, on))
           \/ (\E w \in Watches : SetWatchEnabled(w) \/ DeleteWatch(w))
           \/ (\E b \in BOOLEAN : SetPaused(b) \/ PatchMonitorEnabled(b))
           \/ (\E h \in {"edit", "pause", "resume"} : DropHandler(h))
           \/ (\E c \in Cinemas, p \in Payloads : ListingChanges(c, p))
           \/ \E t \in tasks : DispatchTrigger(t)
  <2>1. UNCHANGED <<health_prev, alarmed, health>>
    BY <1>7 DEF CreateWatch, EditFilter, SetWatchEnabled, DeleteWatch, FinishEdit, SetPaused,
                PatchMonitorEnabled, DropHandler, WindowTurns, ListingChanges, DispatchTrigger,
                vars, loop
  <2> QED
    BY <1>3, <2>1
<1> QED
  BY <1>1, <1>2, <1>4, <1>5, <1>6, <1>7 DEF Next, Loop, Handlers, World

\* No outage the panel shows goes unannounced, whatever rounds, empty rounds,
\* wake-ups and restarts lie between its first failure and now.
THEOREM OutagesAnnounced == Spec => []OutageAlarmed
<1>1. Init => Typed /\ AlarmInv
  BY InitTyped DEF Init, AlarmInv
<1>2. Typed /\ AlarmInv /\ [Next]_vars => (Typed /\ AlarmInv)'
  BY TypedKept, AlarmKept
<1>3. AlarmInv => OutageAlarmed
  BY DEF AlarmInv, OutageAlarmed
<1> QED
  BY <1>1, <1>2, <1>3, PTL DEF Spec

-----------------------------------------------------------------------------
(* Alerts.                                                                 *)

\* A bucket counts shows of a list.
LEMMA CountsAreNumbers ==
  ASSUME NEW f \in Filters, NEW p \in Payloads, NEW k \in DOMAIN Current(f, FromPayload(p))
  PROVE  Current(f, FromPayload(p))[k].count \in Nat
<1> DEFINE Listed(m, S) ==
      Cardinality({i \in DOMAIN p : (p[i].movie = m /\ p[i].key = k) /\ p[i].show \in S})
<1>1. ASSUME NEW m, NEW S
      PROVE  Listed(m, S) \in Nat
  <2>1. p \in Seq([movie: Movies, key: Nat, show: Nat])
    BY PayloadsAreListings
  <2>2. DOMAIN p = 1..Len(p) /\ Len(p) \in Nat
    BY <2>1
  <2>3. IsFiniteSet(DOMAIN p)
    BY <2>2, FS_Interval
  <2>4. {i \in DOMAIN p : (p[i].movie = m /\ p[i].key = k) /\ p[i].show \in S} \subseteq DOMAIN p
    OBVIOUS
  <2>5. IsFiniteSet({i \in DOMAIN p : (p[i].movie = m /\ p[i].key = k) /\ p[i].show \in S})
    BY <2>3, <2>4, FS_Subset
  <2> QED
    BY <2>5, FS_CardinalityType
<1>2. k \in Keys /\ f.movie \in Movies
  BY FiltersNameMovies DEF Current
<1>3. FromPayload(p)[f.movie][k] = BucketOf(p, f.movie, k)
  BY <1>2 DEF FromPayload
<1>4. Current(f, FromPayload(p))[k].count = Count(f, BucketOf(p, f.movie, k))
  BY <1>3 DEF Current
<1>5. /\ BucketOf(p, f.movie, k).total = Listed(f.movie, Nat)
      /\ BucketOf(p, f.movie, k).imax = Listed(f.movie, ImaxShows)
  BY DEF BucketOf
<1> HIDE DEF Listed
<1> QED
  BY <1>1, <1>4, <1>5 DEF Count

\* What is reported is also written: a bucket that grew differs from the baseline.
LEMMA ReportedIsWritten ==
  ASSUME NEW f \in Filters, NEW p \in Payloads, NEW prev,
         DOMAIN EvaluateCinema(f, FromPayload(p), prev).added # {}
  PROVE  EvaluateCinema(f, FromPayload(p), prev).state_changed
<1> DEFINE cur == Current(f, FromPayload(p))
           old == prev.buckets
<1>1. PICK k \in DOMAIN cur : prev.initialized /\ Grown(cur, old, k)
  BY DEF EvaluateCinema
<1>2. old # cur
  <2> SUFFICES ASSUME old = cur PROVE FALSE
    OBVIOUS
  <2>1. cur[k].count \in Nat
    BY CountsAreNumbers
  <2>2. cur[k].count > cur[k].count
    BY <1>1 DEF Grown
  <2> HIDE DEF cur, old
  <2> QED
    BY <2>1, <2>2
<1>3. EvaluateCinema(f, FromPayload(p), prev).state_changed = (~prev.initialized \/ old # cur)
  BY DEF EvaluateCinema
<1> QED
  BY <1>2, <1>3

\* The watches whose loaded state the present round can still report from.
Reportable(w) ==
  w \in todo \/ (pc = "load" /\ loaded[w] # NotLoaded /\ w \notin unread \cup reading)

\* Every alert was raised from an older commit than the one stored now ...
AlertsArePast ==
  \A t \in alerts : /\ t.watch \in Watches /\ t.cinema \in Cinemas /\ t.base.n \in Nat
                     /\ t.base.n < origin[t.watch][t.cinema].n

\* ... what is loaded is no newer than what is stored ...
LoadedIsPast ==
  \A w \in Watches, c \in Cinemas :
    loaded[w] # NotLoaded => loaded[w].origin[c].n <= origin[w][c].n

\* ... but newer than every alert of a watch that is still to be reported ...
AlertsPrecedeLoad ==
  \A t \in alerts : Reportable(t.watch) => t.base.n < loaded[t.watch].origin[t.cinema].n

\* ... and what is about to be reported has been written since it was loaded.
ReportIsWritten ==
  pc = "report" =>
    /\ out.watch \in todo
    /\ \A c \in DOMAIN out.told :
         out.told[c] # {} => /\ c \in Cinemas
                             /\ loaded[out.watch].origin[c].n < origin[out.watch][c].n

Ledger == AlertsArePast /\ LoadedIsPast /\ AlertsPrecedeLoad /\ ReportIsWritten

LEMMA InitLedger == Init => Ledger
  BY DEF Init, Ledger, AlertsArePast, LoadedIsPast, AlertsPrecedeLoad, ReportIsWritten,
         NothingLoaded

\* Commits are numbers, in the database and where they are loaded.
LEMMA CommitsAreNumbers ==
  ASSUME Typed, NEW w \in Watches, NEW c \in Cinemas
  PROVE  /\ origin[w][c].n \in Nat
         /\ loaded[w] # NotLoaded => loaded[w].origin[c].n \in Nat
<1>1. origin[w][c] \in Origins
  BY DEF Typed, TypeOK
<1>2. loaded[w] # NotLoaded => loaded[w].origin[c] \in Origins
  BY DEF Typed, TypeOK, LoadedRow
<1> QED
  BY <1>1, <1>2 DEF Origins

\* Most steps leave the commits, the loaded rows and the alerts alone.
LEMMA LedgerUntouched ==
  ASSUME Typed, Ledger, UNCHANGED <<alerts, loaded, out>>,
         \A w \in Watches, c \in Cinemas : origin'[w][c].n = origin[w][c].n,
         \A w \in Watches : Reportable(w)' => Reportable(w),
         pc' = "report" => pc = "report" /\ todo' = todo
  PROVE  Ledger'
<1>1. AlertsArePast'
  BY DEF Ledger, AlertsArePast
<1>2. LoadedIsPast'
  BY DEF Ledger, LoadedIsPast
<1>3. AlertsPrecedeLoad'
  BY DEF Ledger, AlertsArePast, AlertsPrecedeLoad
<1>4. ReportIsWritten'
  <2> SUFFICES ASSUME pc' = "report" PROVE ReportIsWritten'
    BY DEF ReportIsWritten
  <2>1. out.watch \in todo /\ out.watch \in Watches
    BY DEF Ledger, ReportIsWritten, Typed, TypeOK
  <2> QED
    BY <2>1 DEF Ledger, ReportIsWritten
<1> QED
  BY <1>1, <1>2, <1>3, <1>4 DEF Ledger

\* When the loop forgets what it has loaded, nothing is reportable.
LEMMA LedgerForgotten ==
  ASSUME Ledger, UNCHANGED <<alerts, origin>>, loaded' = NothingLoaded, todo' = {},
         pc' # "report"
  PROVE  Ledger'
<1>1. \A w \in Watches : loaded'[w] = NotLoaded
  BY DEF NothingLoaded
<1>2. AlertsArePast' /\ LoadedIsPast'
  BY <1>1 DEF Ledger, AlertsArePast, LoadedIsPast
<1>3. AlertsPrecedeLoad'
  BY <1>1 DEF Ledger, AlertsArePast, AlertsPrecedeLoad, Reportable
<1>4. ReportIsWritten'
  BY DEF ReportIsWritten
<1> QED
  BY <1>2, <1>3, <1>4 DEF Ledger

LEMMA LoadLedger ==
  ASSUME Typed, Ledger, LoadRows \/ PlanRound \/ \E w \in Watches : LoadCinemas(w) \/ LoadState(w)
  PROVE  Ledger'
<1>1. CASE LoadRows
  <2>1. UNCHANGED <<alerts, origin>> /\ pc' = "load" /\ todo' = {}
    BY <1>1 DEF LoadRows, history, Typed, LoadInv
  <2>2. \A w \in Watches : loaded'[w] # NotLoaded =>
           w \in unread' /\ loaded'[w].origin = [c \in Cinemas |-> Unbuilt]
    BY <1>1 DEF LoadRows
  <2>3. AlertsArePast' /\ ReportIsWritten'
    BY <2>1 DEF Ledger, AlertsArePast, ReportIsWritten
  <2>4. LoadedIsPast'
    <3> SUFFICES ASSUME NEW w \in Watches, NEW c \in Cinemas, loaded'[w] # NotLoaded
                 PROVE  loaded'[w].origin[c].n <= origin'[w][c].n
      BY DEF LoadedIsPast
    <3>1. loaded'[w].origin[c].n = 0
      BY <2>2 DEF Unbuilt
    <3>2. origin'[w][c].n \in Nat
      BY <2>1, CommitsAreNumbers
    <3> QED
      BY <3>1, <3>2
  <2>5. AlertsPrecedeLoad'
    BY <2>1, <2>2 DEF Ledger, AlertsArePast, AlertsPrecedeLoad, Reportable
  <2> QED
    BY <2>3, <2>4, <2>5 DEF Ledger
<1>2. CASE PlanRound
  <2>1. UNCHANGED <<alerts, loaded, out, origin>> /\ pc' = "fetch"
    BY <1>2 DEF PlanRound
  <2>2. \A w \in Watches : Reportable(w)' => Reportable(w)
    BY <1>2, <2>1 DEF PlanRound, Reportable, Active
  <2> QED
    BY <2>1, <2>2, LedgerUntouched
<1>3. ASSUME NEW w \in Watches, LoadCinemas(w)
      PROVE  Ledger'
  <2>1. UNCHANGED <<alerts, origin, out, todo, pc>> /\ pc = "load"
    BY <1>3 DEF LoadCinemas, history
  <2>2. loaded[w] \in LoadedRow
    BY <1>3 DEF Typed, TypeOK, LoadInv, LoadCinemas
  <2>3. /\ \A v \in Watches : v # w => loaded'[v] = loaded[v]
        /\ loaded'[w].origin = loaded[w].origin
    BY <1>3, <2>2 DEF LoadCinemas, Typed, TypeOK, LoadedRow
  <2>4. loaded[w] # NotLoaded
    BY <2>2 DEF LoadedRow, NotLoaded
  <2>5. LoadedIsPast'
    BY <2>1, <2>3, <2>4 DEF Ledger, LoadedIsPast
  <2>6. \A v \in Watches : Reportable(v)' => v # w /\ Reportable(v)
    BY <1>3, <2>1, <2>3 DEF LoadCinemas, Reportable, Typed, LoadInv
  <2>7. AlertsPrecedeLoad'
    BY <2>1, <2>3, <2>6 DEF Ledger, AlertsArePast, AlertsPrecedeLoad
  <2>8. AlertsArePast' /\ ReportIsWritten'
    BY <2>1 DEF Ledger, AlertsArePast, ReportIsWritten
  <2> QED
    BY <2>5, <2>7, <2>8 DEF Ledger
<1>4. ASSUME NEW w \in Watches, LoadState(w)
      PROVE  Ledger'
  <2>1. UNCHANGED <<alerts, origin, out, todo, pc>> /\ pc = "load"
    BY <1>4 DEF LoadState, history
  <2>2. loaded[w] \in LoadedRow
    BY <1>4 DEF Typed, TypeOK, LoadInv, LoadState
  <2>3. /\ \A v \in Watches : v # w => loaded'[v] = loaded[v]
        /\ loaded'[w].origin = origin[w]
    BY <1>4, <2>2 DEF LoadState, Typed, TypeOK, LoadedRow
  <2>4. \A c \in Cinemas : origin[w][c].n \in Nat
    BY CommitsAreNumbers
  <2>5. LoadedIsPast'
    BY <2>1, <2>3, <2>4 DEF Ledger, LoadedIsPast
  <2>6. \A v \in Watches : Reportable(v)' => v = w \/ Reportable(v)
    BY <1>4, <2>1, <2>3 DEF LoadState, Reportable, Typed, LoadInv
  <2>7. AlertsPrecedeLoad'
    BY <2>1, <2>3, <2>6 DEF Ledger, AlertsArePast, AlertsPrecedeLoad
  <2>8. AlertsArePast' /\ ReportIsWritten'
    BY <2>1 DEF Ledger, AlertsArePast, ReportIsWritten
  <2> QED
    BY <2>5, <2>7, <2>8 DEF Ledger
<1> QED
  BY <1>1, <1>2, <1>3, <1>4

LEMMA SaveLedger ==
  ASSUME Typed, Ledger, NEW w \in Watches, SaveStates(w)
  PROVE  Ledger'
<1>1. UNCHANGED <<alerts, loaded, todo>> /\ pc = "eval" /\ w \in todo
  BY DEF SaveStates
<1>2. loaded[w] \in LoadedRow
  BY <1>1 DEF Typed, TypeOK, LoadInv
<1>3. \A v \in Watches : Reportable(v)' => Reportable(v)
  BY <1>1 DEF SaveStates, Reportable
<1>4. CASE pc' = "dead"
  <2>1. UNCHANGED <<out, origin>>
    BY <1>4 DEF SaveStates
  <2> QED
    BY <1>1, <1>3, <1>4, <2>1, LedgerUntouched
<1>5. CASE pc' # "dead"
  <2> DEFINE changed == {c \in DOMAIN Outcome(w) : Outcome(w)[c].state_changed}
  <2>1. /\ origin' = [origin EXCEPT ![w] = [c \in Cinemas |->
               IF c \in changed THEN Committed(w, origin[w][c]) ELSE origin[w][c]]]
        /\ out' = [watch |-> w, told |-> [c \in DOMAIN Outcome(w) |-> DOMAIN Outcome(w)[c].added]]
        /\ pc' = "report"
    BY <1>5 DEF SaveStates, Typed, TypeOK
  <2> HIDE DEF changed
  <2>2. \A c \in Cinemas : origin'[w][c].n = IF c \in changed THEN origin[w][c].n + 1
                                                             ELSE origin[w][c].n
    BY <2>1 DEF Typed, TypeOK, Committed
  <2>3. \A v \in Watches : v # w => origin'[v] = origin[v]
    BY <2>1 DEF Typed, TypeOK
  <2>4. ASSUME NEW v \in Watches, NEW c \in Cinemas
        PROVE  /\ origin[v][c].n \in Nat
               /\ origin'[v][c].n \in Nat
               /\ origin[v][c].n <= origin'[v][c].n
    BY <2>2, <2>3, CommitsAreNumbers
  <2>5. AlertsArePast'
    BY <1>1, <2>4 DEF Ledger, AlertsArePast
  <2>6. LoadedIsPast'
    <3> SUFFICES ASSUME NEW v \in Watches, NEW c \in Cinemas, loaded[v] # NotLoaded
                 PROVE  loaded[v].origin[c].n <= origin'[v][c].n
      BY <1>1 DEF LoadedIsPast
    <3>1. loaded[v].origin[c].n <= origin[v][c].n /\ loaded[v].origin[c].n \in Nat
      BY CommitsAreNumbers DEF Ledger, LoadedIsPast
    <3> QED
      BY <3>1, <2>4
  <2>7. AlertsPrecedeLoad'
    BY <1>1, <1>3 DEF Ledger, AlertsArePast, AlertsPrecedeLoad
  <2>8. ReportIsWritten'
    <3>1. ASSUME NEW c \in DOMAIN Outcome(w), DOMAIN Outcome(w)[c].added # {}
          PROVE  c \in Cinemas /\ c \in changed
      <4>1. c \in Answered(w)
        BY DEF Outcome
      <4>2. c \in Cinemas /\ fetch[c] \in FetchResults /\ fetch[c].result = "ok"
        BY <1>2, <4>1 DEF Typed, TypeOK, Answered, LoadedRow
      <4>3. PICK p \in Payloads : fetch[c].snap = FromPayload(p)
        BY <4>2, FetchedSnap
      <4>4. loaded[w].filter \in Filters
        BY <1>2 DEF LoadedRow
      <4>5. Outcome(w)[c] = EvaluateCinema(loaded[w].filter, FromPayload(p), Prev(w, c))
        BY <4>1, <4>3 DEF Outcome
      <4>6. Outcome(w)[c].state_changed
        BY <3>1, <4>4, <4>5, ReportedIsWritten
      <4> QED
        BY <4>2, <4>6 DEF changed
    <3>2. ASSUME NEW c \in DOMAIN Outcome(w), DOMAIN Outcome(w)[c].added # {}
          PROVE  c \in Cinemas /\ loaded[w].origin[c].n < origin'[w][c].n
      <4>1. c \in Cinemas /\ origin'[w][c].n = origin[w][c].n + 1
        BY <2>2, <3>1, <3>2
      <4>2. loaded[w] # NotLoaded
        BY <1>2 DEF LoadedRow, NotLoaded
      <4>3. loaded[w].origin[c].n <= origin[w][c].n
        BY <4>1, <4>2 DEF Ledger, LoadedIsPast
      <4>4. loaded[w].origin[c].n \in Nat /\ origin[w][c].n \in Nat
        BY <4>1, <4>2, CommitsAreNumbers
      <4> QED
        BY <4>1, <4>3, <4>4
    <3> QED
      BY <1>1, <2>1, <3>2 DEF ReportIsWritten
  <2> QED
    BY <2>5, <2>6, <2>7, <2>8 DEF Ledger
<1> QED
  BY <1>4, <1>5

\* A new alert is based on the commit that was loaded.
LEMMA TriggerBase ==
  ASSUME Typed, Ledger, pc = "report", NEW t \in Triggers
  PROVE  /\ t.watch = out.watch /\ t.watch \in Watches /\ t.cinema \in Cinemas
         /\ t.base = loaded[out.watch].origin[t.cinema] /\ t.base.n \in Nat
         /\ t.base.n < origin[t.watch][t.cinema].n
<1>1. out.watch \in todo /\ out.watch \in Watches /\ loaded[out.watch] # NotLoaded
  BY DEF Ledger, ReportIsWritten, Typed, TypeOK, LoadInv
<1>2. PICK c \in DOMAIN out.told :
        /\ out.told[c] # {}
        /\ t = [watch |-> out.watch, cinema |-> c, keys |-> out.told[c],
                base |-> loaded[out.watch].origin[c], under |-> loaded[out.watch].filter]
  BY DEF Triggers
<1>3. c \in Cinemas /\ loaded[out.watch].origin[c].n < origin[out.watch][c].n
  BY <1>2 DEF Ledger, ReportIsWritten
<1>4. loaded[out.watch].origin[c].n \in Nat
  BY <1>1, <1>3, CommitsAreNumbers
<1> QED
  BY <1>1, <1>2, <1>3, <1>4

LEMMA ReportLedger == ASSUME Typed, Ledger, Report PROVE Ledger'
<1>1. /\ UNCHANGED <<loaded, origin>> /\ pc = "report" /\ pc' = "eval"
      /\ alerts' = alerts \cup Triggers /\ todo' = todo \ {out.watch}
  BY DEF Report
<1>2. \A t \in Triggers : /\ t.watch = out.watch /\ t.watch \in Watches /\ t.cinema \in Cinemas
                           /\ t.base.n \in Nat
                           /\ t.base.n < origin[t.watch][t.cinema].n
  BY <1>1, TriggerBase
<1>3. AlertsArePast'
  BY <1>1, <1>2 DEF Ledger, AlertsArePast
<1>4. LoadedIsPast' /\ ReportIsWritten'
  BY <1>1 DEF Ledger, LoadedIsPast, ReportIsWritten
<1>5. AlertsPrecedeLoad'
  BY <1>1, <1>2 DEF Ledger, AlertsPrecedeLoad, Reportable
<1> QED
  BY <1>3, <1>4, <1>5 DEF Ledger

LEMMA LedgerKept == ASSUME Typed, Ledger, [Next]_vars PROVE Ledger'
<1>1. CASE ReadSettings \/ PublishFlags \/ TimerFires \/ Notified
  <2>1. /\ UNCHANGED <<alerts, loaded, out, origin, todo>>
        /\ pc' # "load" /\ pc' # "report"
    BY <1>1 DEF ReadSettings, PublishFlags, TimerFires, Notified, history
  <2>2. \A w \in Watches : Reportable(w)' => Reportable(w)
    BY <2>1 DEF Reportable
  <2> QED
    BY <2>1, <2>2, LedgerUntouched
<1>2. CASE \/ FetchesJoined
           \/ \E c \in Cinemas : FetchOk(c) \/ FetchError(c)
           \/ \E w \in Watches : SkipUncompilable(w)
  <2>1. /\ UNCHANGED <<alerts, loaded, out, origin>> /\ todo' \subseteq todo
        /\ pc' # "load" /\ pc' # "report"
    BY <1>2 DEF FetchesJoined, FetchOk, FetchError, SkipUncompilable, history
  <2>2. \A w \in Watches : Reportable(w)' => Reportable(w)
    BY <2>1 DEF Reportable
  <2> QED
    BY <2>1, <2>2, LedgerUntouched
<1>3. CASE NothingActive \/ EndRound
  <2>1. UNCHANGED <<alerts, origin>> /\ loaded' = NothingLoaded /\ pc' = "asleep"
    BY <1>3 DEF NothingActive, EndRound, ForgetRound, history
  <2>2. todo' = {}
    BY <1>3 DEF NothingActive, EndRound, Typed, LoadInv
  <2> QED
    BY <2>1, <2>2, LedgerForgotten
<1>4. CASE Handlers \/ UNCHANGED vars \/ WindowTurns
           \/ (\E c \in Cinemas, p \in Payloads : ListingChanges(c, p))
           \/ \E t \in tasks : DispatchTrigger(t)
  <2>1. UNCHANGED <<alerts, loop>>
    BY <1>4 DEF Handlers, CreateWatch, EditFilter, SetWatchEnabled, DeleteWatch, SetPaused,
                PatchMonitorEnabled, FinishPause, FinishEdit, DropHandler, WindowTurns, ListingChanges,
                DispatchTrigger, history, vars
  <2>2. ASSUME NEW w \in Watches, NEW c \in Cinemas
        PROVE  origin'[w][c].n = origin[w][c].n
    <3>1. \/ origin' = origin
          \/ \E v \in Watches :
               origin' = [origin EXCEPT ![v] = [d \in Cinemas |-> [origin[v][d] EXCEPT !.under = {}]]]
      BY <1>4 DEF Handlers, CreateWatch, EditFilter, SetWatchEnabled, DeleteWatch, SetPaused,
                  PatchMonitorEnabled, FinishPause, FinishEdit, DropHandler, WindowTurns, ListingChanges,
                  DispatchTrigger, history, vars, Typed, TypeOK
    <3>2. origin'[w][c] = origin[w][c] \/ origin'[w][c] = [origin[w][c] EXCEPT !.under = {}]
      <4>1. CASE origin' = origin
        BY <4>1
      <4>2. ASSUME NEW v \in Watches,
                   origin' = [origin EXCEPT ![v] =
                                [d \in Cinemas |-> [origin[v][d] EXCEPT !.under = {}]]]
            PROVE  origin'[w][c] \in {origin[w][c], [origin[w][c] EXCEPT !.under = {}]}
        <5>1. origin'[w] = IF w = v THEN [d \in Cinemas |-> [origin[w][d] EXCEPT !.under = {}]]
                                    ELSE origin[w]
          BY <4>2 DEF Typed, TypeOK
        <5> QED
          BY <5>1
      <4> QED
        BY <3>1, <4>1, <4>2
    <3>3. origin[w][c] \in Origins
      BY DEF Typed, TypeOK
    <3>4. [origin[w][c] EXCEPT !.under = {}].n = origin[w][c].n
      BY <3>3 DEF Origins
    <3> QED
      BY <3>2, <3>4
  <2>3. UNCHANGED <<loaded, out, pc, todo>> /\ \A w \in Watches : Reportable(w)' => Reportable(w)
    BY <2>1 DEF loop, Reportable
  <2> QED
    BY <2>1, <2>2, <2>3, LedgerUntouched
<1>5. CASE Restart
  <2>1. /\ UNCHANGED <<alerts, origin>> /\ loaded' = NothingLoaded /\ todo' = {}
        /\ pc' = "settings"
    BY <1>5 DEF Restart, FreshProcess, ForgetRound
  <2> QED
    BY <2>1, LedgerForgotten
<1> QED
  BY <1>1, <1>2, <1>3, <1>4, <1>5, LoadLedger, SaveLedger, ReportLedger DEF Next, Loop, World

\* No increase is alerted twice, for any watches, cinemas, filters and listings and
\* any interleaving of rounds, edits, deletions and restarts: a trigger is raised
\* from the commit the round loaded, that commit has been overwritten by then, and
\* no later round can load it again.
THEOREM IncreasesAlertedOnce == Spec => AlertedOnce
<1>1. Init => Typed /\ Ledger
  BY InitTyped, InitLedger
<1>2. Typed /\ Ledger /\ [Next]_vars => (Typed /\ Ledger)'
  BY TypedKept, LedgerKept
<1>3. ASSUME Typed, Ledger
      PROVE  [Report => \A t \in Triggers : ~\E u \in alerts :
                u.watch = t.watch /\ u.cinema = t.cinema /\ u.base.n = t.base.n]_vars
  <2> SUFFICES ASSUME Report, NEW t \in Triggers, NEW u \in alerts,
                      u.watch = t.watch, u.cinema = t.cinema, u.base.n = t.base.n
               PROVE  FALSE
    OBVIOUS
  <2>1. /\ t.watch = out.watch /\ t.base = loaded[out.watch].origin[t.cinema] /\ t.base.n \in Nat
    BY <1>3, TriggerBase DEF Report
  <2>2. out.watch \in todo
    BY <1>3 DEF Report, Ledger, ReportIsWritten
  <2>3. u.base.n < loaded[u.watch].origin[u.cinema].n
    BY <1>3, <2>1, <2>2 DEF Ledger, AlertsPrecedeLoad, Reportable
  <2> QED
    BY <2>1, <2>3
<1> QED
  BY <1>1, <1>2, <1>3, PTL DEF Spec, AlertedOnce

-----------------------------------------------------------------------------
(* The filters of the baselines that triggers compare with.                *)

BuiltWith(o, filters) == o.overtaken \/ o.under \subseteq filters

\* A stored baseline was built with the filter its row has now, or was overtaken.
RowsOrigin ==
  \A w \in Watches, c \in Cinemas :
    BuiltWith(origin[w][c], IF Exists(w) THEN {watches[w].filter} ELSE {})

\* So was one the round has read, or is about to read, with the filter it loaded.
LoadedOrigin ==
  \A w \in Watches, c \in Cinemas : loaded[w] # NotLoaded =>
    /\ BuiltWith(loaded[w].origin[c], {loaded[w].filter})
    /\ pc = "load" => BuiltWith(origin[w][c], {loaded[w].filter})

Filtered == RowsOrigin /\ LoadedOrigin /\ BaselineOfItsFilter

LEMMA InitFiltered == Init => Filtered
  BY DEF Init, Filtered, RowsOrigin, LoadedOrigin, BaselineOfItsFilter, BuiltWith, Unbuilt,
         NothingLoaded, NotLoaded

\* Steps that write no row and no baseline, and read none.
LEMMA FilteredUntouched ==
  ASSUME Filtered, UNCHANGED <<watches, origin, alerts>>,
         loaded' = NothingLoaded \/ UNCHANGED loaded, pc' = "load" => pc = "load"
  PROVE  Filtered'
<1>1. RowsOrigin' /\ BaselineOfItsFilter'
  BY DEF Filtered, RowsOrigin, BaselineOfItsFilter, Exists
<1>2. LoadedOrigin'
  BY DEF Filtered, LoadedOrigin, NothingLoaded
<1> QED
  BY <1>1, <1>2 DEF Filtered

LEMMA LoadFiltered ==
  ASSUME Typed, Filtered, LoadRows \/ \E w \in Watches : LoadCinemas(w) \/ LoadState(w)
  PROVE  Filtered'
<1>1. UNCHANGED <<watches, origin, alerts>>
  BY DEF LoadRows, LoadCinemas, LoadState, db, history
<1>2. RowsOrigin' /\ BaselineOfItsFilter'
  BY <1>1 DEF Filtered, RowsOrigin, BaselineOfItsFilter, Exists
<1>3. CASE LoadRows
  <2>1. \A w \in Watches : loaded'[w] # NotLoaded =>
           /\ Exists(w) /\ loaded'[w].filter = watches[w].filter
           /\ loaded'[w].origin = [c \in Cinemas |-> Unbuilt]
    BY <1>3 DEF LoadRows
  <2>2. LoadedOrigin'
    BY <1>1, <2>1 DEF Filtered, RowsOrigin, LoadedOrigin, BuiltWith, Unbuilt
  <2> QED
    BY <1>2, <2>2 DEF Filtered
<1>4. ASSUME NEW w \in Watches, LoadCinemas(w) \/ LoadState(w)
      PROVE  Filtered'
  <2>1. pc = "load" /\ loaded[w] # NotLoaded /\ loaded[w] \in LoadedRow
    BY <1>4 DEF LoadCinemas, LoadState, Typed, TypeOK, LoadInv
  <2>2. /\ \A v \in Watches : v # w => loaded'[v] = loaded[v]
        /\ loaded'[w].filter = loaded[w].filter
        /\ loaded'[w].origin = loaded[w].origin \/ loaded'[w].origin = origin[w]
    BY <1>4, <2>1 DEF LoadCinemas, LoadState, Typed, TypeOK, LoadedRow
  <2>3. LoadedOrigin'
    BY <1>1, <2>1, <2>2 DEF Filtered, LoadedOrigin
  <2> QED
    BY <1>2, <2>3 DEF Filtered
<1> QED
  BY <1>3, <1>4

LEMMA SaveFiltered ==
  ASSUME Typed, Filtered, NEW w \in Watches, SaveStates(w)
  PROVE  Filtered'
<1>1. UNCHANGED <<watches, alerts, loaded>> /\ pc' # "load"
  BY DEF SaveStates
<1>2. \A v \in Watches, c \in Cinemas :
        \/ origin'[v][c] = origin[v][c]
        \/ v = w /\ Exists(w) /\ origin'[v][c] = Committed(w, origin[w][c])
  <2> DEFINE changed == {c \in DOMAIN Outcome(w) : Outcome(w)[c].state_changed}
  <2>1. \/ origin' = origin
        \/ /\ changed = {} \/ Exists(w)
           /\ origin' = [origin EXCEPT ![w] = [c \in Cinemas |->
                IF c \in changed THEN Committed(w, origin[w][c]) ELSE origin[w][c]]]
    BY DEF SaveStates, Typed, TypeOK
  <2> HIDE DEF changed
  <2> QED
    BY <2>1 DEF Typed, TypeOK
<1>3. RowsOrigin'
  <2> SUFFICES ASSUME NEW v \in Watches, NEW c \in Cinemas
               PROVE  BuiltWith(origin'[v][c], IF Exists(v) THEN {watches[v].filter} ELSE {})
    BY <1>1 DEF RowsOrigin, BuiltWith, Exists
  <2>1. CASE origin'[v][c] = origin[v][c]
    BY <2>1 DEF Filtered, RowsOrigin, BuiltWith
  <2>2. CASE v = w /\ Exists(w) /\ origin'[v][c] = Committed(w, origin[w][c])
    <3>1. PICK o : o = [n |-> origin[w][c].n + 1, under |-> {loaded[w].filter},
                        overtaken |-> Exists(w) /\ watches[w].filter # loaded[w].filter]
      OBVIOUS
    <3>2. origin'[v][c] = o
      BY <2>2, <3>1 DEF Committed
    <3>3. o.overtaken \/ o.under \subseteq {watches[v].filter}
      BY <2>2, <3>1
    <3> QED
      BY <2>2, <3>2, <3>3 DEF BuiltWith
  <2> QED
    BY <1>2, <2>1, <2>2
<1>4. LoadedOrigin' /\ BaselineOfItsFilter'
  BY <1>1 DEF Filtered, LoadedOrigin, BaselineOfItsFilter
<1> QED
  BY <1>3, <1>4 DEF Filtered

LEMMA ReportFiltered == ASSUME Typed, Ledger, Filtered, Report PROVE Filtered'
<1>1. /\ UNCHANGED <<watches, origin, loaded>> /\ pc = "report" /\ pc' = "eval"
      /\ alerts' = alerts \cup Triggers
  BY DEF Report, db
<1>2. out.watch \in Watches /\ loaded[out.watch] # NotLoaded
  BY <1>1 DEF Ledger, ReportIsWritten, Typed, TypeOK, LoadInv
<1>3. ASSUME NEW t \in Triggers
      PROVE  BuiltWith(t.base, {t.under})
  <2>1. t.cinema \in Cinemas /\ t.base = loaded[out.watch].origin[t.cinema]
    BY <1>1, TriggerBase
  <2>2. t.under = loaded[out.watch].filter
    BY DEF Triggers
  <2> QED
    BY <1>2, <2>1, <2>2 DEF Filtered, LoadedOrigin
<1>4. RowsOrigin' /\ LoadedOrigin'
  BY <1>1 DEF Filtered, RowsOrigin, LoadedOrigin, Exists
<1>5. BaselineOfItsFilter'
  BY <1>1, <1>3 DEF Filtered, BaselineOfItsFilter, BuiltWith
<1> QED
  BY <1>4, <1>5 DEF Filtered

\* An edit and a deletion forget the baselines of the row they touch; the others
\* change no filter.
LEMMA HandlersFiltered == ASSUME Typed, Filtered, Handlers PROVE Filtered'
<1>1. UNCHANGED <<alerts, loaded, pc>>
  <2>1. ASSUME NEW w \in Watches, NEW f \in Filters, NEW cs \in SUBSET Cinemas,
               NEW on \in BOOLEAN, CreateWatch(w, f, cs) \/ EditFilter(w, f, cs, on)
        PROVE  UNCHANGED <<alerts, loaded, pc>>
    BY <2>1 DEF CreateWatch, EditFilter, loop, history
  <2>2. CASE \/ \E w \in Watches : SetWatchEnabled(w) \/ DeleteWatch(w)
             \/ \E b \in BOOLEAN : SetPaused(b) \/ PatchMonitorEnabled(b)
             \/ \E h \in {"pause", "resume"} : FinishPause(h)
             \/ FinishEdit
             \/ \E h \in {"edit", "pause", "resume"} : DropHandler(h)
    BY <2>2 DEF SetWatchEnabled, DeleteWatch, SetPaused, PatchMonitorEnabled, FinishPause,
                FinishEdit, DropHandler, loop, history
  <2> QED
    BY <2>1, <2>2 DEF Handlers
<1>2. BaselineOfItsFilter'
  BY <1>1 DEF Filtered, BaselineOfItsFilter
<1>3. ASSUME NEW w \in Watches, RowsOrigin',
             \A v \in Watches, c \in Cinemas :
               \/ origin'[v][c] = origin[v][c]
               \/ v = w /\ origin'[v][c].under = {}
      PROVE  Filtered'
  <2>1. LoadedOrigin'
    BY <1>1, <1>3 DEF Filtered, LoadedOrigin, BuiltWith
  <2> QED
    BY <1>2, <1>3, <2>1 DEF Filtered
<1>4. ASSUME NEW w \in Watches,
             \/ \E f \in Filters, cs \in SUBSET Cinemas, on \in BOOLEAN : EditFilter(w, f, cs, on)
             \/ DeleteWatch(w)
      PROVE  Filtered'
  <2>1. \A v \in Watches, c \in Cinemas :
          IF v = w THEN origin'[v][c].under = {} ELSE origin'[v][c] = origin[v][c]
    <3>1. origin' = [origin EXCEPT ![w] = [c \in Cinemas |-> [origin[w][c] EXCEPT !.under = {}]]]
      <4>1. CASE DeleteWatch(w)
        BY <4>1 DEF DeleteWatch, Typed, TypeOK
      <4>2. ASSUME NEW f \in Filters, NEW cs \in SUBSET Cinemas, NEW on \in BOOLEAN,
                   EditFilter(w, f, cs, on)
            PROVE  origin' = [origin EXCEPT ![w] =
                     [c \in Cinemas |-> [origin[w][c] EXCEPT !.under = {}]]]
        BY <4>2 DEF EditFilter, Typed, TypeOK
      <4> QED
        BY <1>4, <4>1, <4>2
    <3>2. origin \in [Watches -> [Cinemas -> Origins]]
      BY DEF Typed, TypeOK
    <3> QED
      BY <3>1, <3>2 DEF Origins
  <2>2. \A v \in Watches : v # w => watches'[v] = watches[v]
    <3>1. PICK row : watches' = [watches EXCEPT ![w] = row]
      <4>1. CASE DeleteWatch(w)
        BY <4>1 DEF DeleteWatch
      <4>2. ASSUME NEW f \in Filters, NEW cs \in SUBSET Cinemas, NEW on \in BOOLEAN,
                   EditFilter(w, f, cs, on)
            PROVE  \E row : watches' = [watches EXCEPT ![w] = row]
        <5> WITNESS [watches[w] EXCEPT !.filter = f, !.cinemas = cs, !.enabled = on]
        <5> QED
          BY <4>2 DEF EditFilter, Typed, TypeOK
      <4> QED
        BY <1>4, <4>1, <4>2
    <3> QED
      BY <3>1 DEF Typed, TypeOK
  <2>3. RowsOrigin'
    BY <2>1, <2>2 DEF Filtered, RowsOrigin, BuiltWith, Exists
  <2> QED
    BY <1>3, <2>1, <2>3
<1>5. ASSUME NEW w \in Watches,
             \/ \E f \in Filters, cs \in SUBSET Cinemas : CreateWatch(w, f, cs)
             \/ SetWatchEnabled(w)
      PROVE  Filtered'
  <2>1. UNCHANGED origin
    BY <1>5 DEF CreateWatch, SetWatchEnabled, history
  <2>2. \A v \in Watches : Exists(v) => watches[v] \in Row
    BY DEF Typed, TypeOK, Exists
  <2>3. \A v \in Watches : Exists(v) => Exists(v)' /\ watches'[v].filter = watches[v].filter
    <3>1. CASE SetWatchEnabled(w)
      <4> DEFINE row == [watches[w] EXCEPT !.enabled = ~watches[w].enabled]
      <4>1. watches[w] \in Row
        BY <2>2, <3>1 DEF SetWatchEnabled
      <4>2. watches' = [watches EXCEPT ![w] = row]
        BY <3>1, <4>1 DEF SetWatchEnabled, Typed, TypeOK
      <4>3. row \in Row /\ row.filter = watches[w].filter
        BY <4>1 DEF Row
      <4>4. row \notin {Unborn, Gone}
        BY <4>3 DEF Row, Unborn, Gone
      <4> HIDE DEF row
      <4>5. \A v \in Watches : watches'[v] = IF v = w THEN row ELSE watches[v]
        BY <4>2 DEF Typed, TypeOK
      <4> QED
        BY <4>3, <4>4, <4>5 DEF Exists
    <3>2. ASSUME NEW f \in Filters, NEW cs \in SUBSET Cinemas, CreateWatch(w, f, cs)
          PROVE  \A v \in Watches : Exists(v) => watches'[v] = watches[v]
      BY <3>2 DEF CreateWatch, Typed, TypeOK, Exists
    <3> QED
      BY <1>5, <3>1, <3>2 DEF Exists
  <2>4. RowsOrigin'
    BY <2>1, <2>3 DEF Filtered, RowsOrigin, BuiltWith
  <2> QED
    BY <1>3, <2>1, <2>4
<1>6. CASE UNCHANGED <<watches, origin>>
  BY <1>1, <1>6, FilteredUntouched
<1>7. CASE \/ \E b \in BOOLEAN : SetPaused(b) \/ PatchMonitorEnabled(b)
           \/ \E h \in {"pause", "resume"} : FinishPause(h)
           \/ FinishEdit
           \/ \E h \in {"edit", "pause", "resume"} : DropHandler(h)
  BY <1>6, <1>7 DEF SetPaused, PatchMonitorEnabled, FinishPause, FinishEdit, DropHandler, db,
                    history
<1> QED
  BY <1>4, <1>5, <1>7 DEF Handlers

LEMMA FilteredKept == ASSUME Typed, Ledger, Filtered, [Next]_vars PROVE Filtered'
<1>1. CASE \/ ReadSettings \/ PublishFlags \/ TimerFires \/ Notified
           \/ NothingActive \/ PlanRound \/ FetchesJoined \/ EndRound
           \/ \E c \in Cinemas : FetchOk(c) \/ FetchError(c)
           \/ \E w \in Watches : SkipUncompilable(w)
  <2>1. /\ UNCHANGED <<watches, origin, alerts>> /\ pc' # "load"
        /\ loaded' = NothingLoaded \/ UNCHANGED loaded
    BY <1>1 DEF ReadSettings, PublishFlags, TimerFires, Notified, NothingActive, PlanRound,
                FetchesJoined, EndRound, FetchOk, FetchError, SkipUncompilable, ForgetRound,
                db, history
  <2> QED
    BY <2>1, FilteredUntouched
<1>2. CASE World \/ UNCHANGED vars \/ \E t \in tasks : DispatchTrigger(t)
  <2>1. /\ UNCHANGED <<watches, origin, alerts>>
        /\ pc' = "load" => pc = "load"
        /\ loaded' = NothingLoaded \/ UNCHANGED loaded
    BY <1>2 DEF World, ListingChanges, WindowTurns, Restart, FreshProcess, ForgetRound,
                DispatchTrigger, db, loop, history, vars
  <2> QED
    BY <2>1, FilteredUntouched
<1> QED
  BY <1>1, <1>2, LoadFiltered, SaveFiltered, ReportFiltered, HandlersFiltered DEF Next, Loop

\* A trigger compares the listing of one filter with a baseline built with another
\* only if the round that stored that baseline was under way at the edit, for any
\* watches, cinemas, filters and listings: an edit forgets the baselines with the old
\* filter, so any other that a round still reads is either of the filter it has
\* loaded or gone.
THEOREM TriggersCompareLikeWithLike == Spec => []BaselineOfItsFilter
<1>1. Init => Typed /\ Ledger /\ Filtered
  BY InitTyped, InitLedger, InitFiltered
<1>2. Typed /\ Ledger /\ Filtered /\ [Next]_vars => (Typed /\ Ledger /\ Filtered)'
  BY TypedKept, LedgerKept, FilteredKept
<1>3. Filtered => BaselineOfItsFilter
  BY DEF Filtered
<1> QED
  BY <1>1, <1>2, <1>3, PTL DEF Spec

-----------------------------------------------------------------------------
(* Monitor implements AlertLedger: the baselines of AlertLedger are the    *)
(* rows of watch_state, its commits are the writes of save_watch_states,   *)
(* and its alerts are the triggers of the loop.  Then: no rise of a        *)
(* baseline is lost by the loop.                                           *)

-----------------------------------------------------------------------------
(* The loop is the only one that commits: what it has loaded of a watch is *)
(* as new as what is stored, until it commits to it itself.                *)

Reporting(w) == pc = "report" /\ w = out.watch

LoadedIsCurrent ==
  \A w \in Watches, c \in Cinemas :
    Reportable(w) /\ ~Reporting(w) => loaded[w].origin[c].n = origin[w][c].n

\* Whatever is a baseline has been committed.
StatesCommitted ==
  \A w \in Watches, c \in Cinemas :
    /\ watch_state[w][c] # NoState => origin[w][c].n > 0
    /\ loaded[w] # NotLoaded /\ loaded[w].state[c] # NoState => loaded[w].origin[c].n > 0

\* What is about to be reported is the newest commit, and not the first.
ReportIsNewest ==
  pc = "report" =>
    \A c \in DOMAIN out.told : out.told[c] # {} =>
      /\ origin[out.watch][c].n = loaded[out.watch].origin[c].n + 1
      /\ loaded[out.watch].origin[c].n > 0

Newest == LoadedIsCurrent /\ StatesCommitted /\ ReportIsNewest

LEMMA InitNewest == Init => Newest
  BY DEF Init, Newest, LoadedIsCurrent, StatesCommitted, ReportIsNewest, NothingLoaded,
         Reportable, NotLoaded

\* Most steps leave the commits and the loaded rows alone, and at most drop baselines.
LEMMA NewestUntouched ==
  ASSUME Newest, UNCHANGED <<loaded, out>>,
         \A w \in Watches, c \in Cinemas :
           /\ origin'[w][c].n = origin[w][c].n
           /\ watch_state'[w][c] \in {watch_state[w][c], NoState},
         \A w \in Watches : Reportable(w)' => Reportable(w),
         pc' = "report" <=> pc = "report",
         pc = "report" => /\ out.watch \in Watches
                           /\ \A c \in DOMAIN out.told : out.told[c] # {} => c \in Cinemas
  PROVE  Newest'
<1>1. LoadedIsCurrent'
  BY DEF Newest, LoadedIsCurrent, Reporting
<1>2. StatesCommitted'
  BY DEF Newest, StatesCommitted
<1>3. ReportIsNewest'
  BY DEF Newest, ReportIsNewest
<1> QED
  BY <1>1, <1>2, <1>3 DEF Newest

\* When the loop forgets what it has loaded, nothing is reportable.
LEMMA NewestForgotten ==
  ASSUME Newest, UNCHANGED <<watch_state, origin>>, loaded' = NothingLoaded, todo' = {},
         pc' # "report"
  PROVE  Newest'
<1>1. \A w \in Watches : loaded'[w] = NotLoaded
  BY DEF NothingLoaded
<1>2. LoadedIsCurrent'
  BY <1>1 DEF LoadedIsCurrent, Reportable
<1>3. StatesCommitted'
  BY <1>1 DEF Newest, StatesCommitted
<1>4. ReportIsNewest'
  BY DEF ReportIsNewest
<1> QED
  BY <1>2, <1>3, <1>4 DEF Newest

LEMMA LoadNewest ==
  ASSUME Typed, Newest, LoadRows \/ PlanRound \/ \E w \in Watches : LoadCinemas(w) \/ LoadState(w)
  PROVE  Newest'
<1>0. UNCHANGED <<watch_state, origin>> /\ pc # "report" /\ pc' # "report"
  BY DEF LoadRows, PlanRound, LoadCinemas, LoadState, db, history
<1>1. ReportIsNewest'
  BY <1>0 DEF ReportIsNewest
<1>2. CASE LoadRows
  <2>1. pc' = "load" /\ todo' = {}
    BY <1>2 DEF LoadRows, Typed, LoadInv
  <2>2. \A w \in Watches : loaded'[w] # NotLoaded =>
           w \in unread' /\ loaded'[w].state = [c \in Cinemas |-> NoState]
    BY <1>2 DEF LoadRows
  <2>3. LoadedIsCurrent'
    BY <2>1, <2>2 DEF LoadedIsCurrent, Reportable
  <2>4. StatesCommitted'
    BY <1>0, <2>2 DEF Newest, StatesCommitted
  <2> QED
    BY <1>1, <2>3, <2>4 DEF Newest
<1>3. CASE PlanRound
  <2>1. UNCHANGED loaded /\ \A w \in Watches : Reportable(w)' => Reportable(w)
    BY <1>3 DEF PlanRound, Reportable, Active
  <2>2. LoadedIsCurrent'
    BY <1>0, <2>1 DEF Newest, LoadedIsCurrent, Reporting
  <2>3. StatesCommitted'
    BY <1>0, <2>1 DEF Newest, StatesCommitted
  <2> QED
    BY <1>1, <2>2, <2>3 DEF Newest
<1>4. ASSUME NEW w \in Watches, LoadCinemas(w)
      PROVE  Newest'
  <2>1. loaded[w] \in LoadedRow
    BY <1>4 DEF Typed, TypeOK, LoadInv, LoadCinemas
  <2>2. /\ \A v \in Watches : v # w => loaded'[v] = loaded[v]
        /\ loaded'[w].origin = loaded[w].origin
        /\ loaded'[w].state = loaded[w].state
        /\ loaded[w] # NotLoaded
    BY <1>4, <2>1 DEF LoadCinemas, Typed, TypeOK, LoadedRow, NotLoaded
  <2>3. \A v \in Watches : Reportable(v)' => v # w /\ Reportable(v)
    BY <1>4, <2>2 DEF LoadCinemas, Reportable, Typed, LoadInv
  <2>4. LoadedIsCurrent'
    BY <1>0, <2>2, <2>3 DEF Newest, LoadedIsCurrent, Reporting
  <2>5. StatesCommitted'
    BY <1>0, <2>2 DEF Newest, StatesCommitted
  <2> QED
    BY <1>1, <2>4, <2>5 DEF Newest
<1>5. ASSUME NEW w \in Watches, LoadState(w)
      PROVE  Newest'
  <2>1. loaded[w] \in LoadedRow
    BY <1>5 DEF Typed, TypeOK, LoadInv, LoadState
  <2>2. /\ \A v \in Watches : v # w => loaded'[v] = loaded[v]
        /\ loaded'[w].origin = origin[w]
        /\ loaded'[w].state = watch_state[w]
    BY <1>5, <2>1 DEF LoadState, Typed, TypeOK, LoadedRow
  <2>3. \A v \in Watches : Reportable(v)' => v = w \/ Reportable(v)
    BY <1>5, <2>2 DEF LoadState, Reportable, Typed, LoadInv
  <2>4. LoadedIsCurrent'
    BY <1>0, <2>2, <2>3 DEF Newest, LoadedIsCurrent, Reporting
  <2>5. StatesCommitted'
    BY <1>0, <2>2 DEF Newest, StatesCommitted
  <2> QED
    BY <1>1, <2>4, <2>5 DEF Newest
<1> QED
  BY <1>2, <1>3, <1>4, <1>5

-----------------------------------------------------------------------------
(* The commit.                                                             *)

Changed(w) == {c \in DOMAIN Outcome(w) : Outcome(w)[c].state_changed}

\* A commit is of watched cinemas, and writes baselines.
LEMMA ChangedStates ==
  ASSUME Typed, NEW w \in Watches, loaded[w] \in LoadedRow, NEW c \in DOMAIN Outcome(w)
  PROVE  c \in Cinemas /\ Outcome(w)[c].state \in Baselines
<1>1. c \in Answered(w)
  BY DEF Outcome
<1>2. c \in Cinemas /\ fetch[c] \in FetchResults /\ fetch[c].result = "ok"
  BY <1>1 DEF Typed, TypeOK, Answered, LoadedRow
<1>3. PICK p \in Payloads : fetch[c].snap = FromPayload(p)
  BY <1>2, FetchedSnap
<1>4. Outcome(w)[c] = EvaluateCinema(loaded[w].filter, FromPayload(p), Prev(w, c))
  BY <1>1, <1>3 DEF Outcome
<1> QED
  BY <1>2, <1>4, EvaluatedState DEF LoadedRow

\* What is told of a cinema is committed, and compares with a baseline.
LEMMA ToldIsChanged ==
  ASSUME Typed, NEW w \in Watches, loaded[w] \in LoadedRow, NEW c \in DOMAIN Outcome(w),
         DOMAIN Outcome(w)[c].added # {}
  PROVE  c \in Changed(w) /\ loaded[w].state[c] # NoState
<1>1. c \in Answered(w)
  BY DEF Outcome
<1>2. c \in Cinemas /\ fetch[c] \in FetchResults /\ fetch[c].result = "ok"
  BY <1>1 DEF Typed, TypeOK, Answered, LoadedRow
<1>3. PICK p \in Payloads : fetch[c].snap = FromPayload(p)
  BY <1>2, FetchedSnap
<1>4. Outcome(w)[c] = EvaluateCinema(loaded[w].filter, FromPayload(p), Prev(w, c))
  BY <1>1, <1>3 DEF Outcome
<1>5. c \in Changed(w)
  BY <1>4, ReportedIsWritten DEF Changed, LoadedRow
<1>6. Prev(w, c).initialized
  BY <1>4 DEF EvaluateCinema
<1>7. loaded[w].state[c] # NoState
  BY <1>6 DEF Prev, BlankState
<1> QED
  BY <1>5, <1>7

\* The write of save_watch_states, when it is made.
LEMMA SaveCommits ==
  ASSUME Typed, NEW w \in Watches, SaveStates(w), pc' # "dead"
  PROVE  /\ Changed(w) \subseteq Cinemas
         /\ \A v \in Watches, c \in Cinemas :
              /\ origin'[v][c].n = IF v = w /\ c \in Changed(w) THEN origin[v][c].n + 1
                                                                ELSE origin[v][c].n
              /\ watch_state'[v][c] = IF v = w /\ c \in Changed(w) THEN Outcome(w)[c].state
                                                                   ELSE watch_state[v][c]
         /\ out' = [watch |-> w, told |-> [c \in DOMAIN Outcome(w) |-> DOMAIN Outcome(w)[c].added]]
         /\ pc' = "report"
<1>1. loaded[w] \in LoadedRow
  BY DEF SaveStates, Typed, TypeOK, LoadInv
<1>2. Changed(w) \subseteq Cinemas
  BY <1>1, ChangedStates DEF Changed
<1>3. /\ origin' = [origin EXCEPT ![w] = [c \in Cinemas |->
             IF c \in Changed(w) THEN Committed(w, origin[w][c]) ELSE origin[w][c]]]
      /\ watch_state' = [watch_state EXCEPT ![w] = [c \in Cinemas |->
             IF c \in Changed(w) THEN Outcome(w)[c].state ELSE watch_state[w][c]]]
      /\ out' = [watch |-> w, told |-> [c \in DOMAIN Outcome(w) |-> DOMAIN Outcome(w)[c].added]]
      /\ pc' = "report"
  BY DEF SaveStates, Changed, Typed, TypeOK
<1>4. ASSUME NEW v \in Watches, NEW c \in Cinemas
      PROVE  /\ origin'[v][c].n = IF v = w /\ c \in Changed(w) THEN origin[v][c].n + 1
                                                               ELSE origin[v][c].n
             /\ watch_state'[v][c] = IF v = w /\ c \in Changed(w) THEN Outcome(w)[c].state
                                                                  ELSE watch_state[v][c]
  BY <1>3 DEF Typed, TypeOK, StoredStates, Committed
<1> QED
  BY <1>2, <1>3, <1>4

LEMMA SaveNewest ==
  ASSUME Typed, Newest, NEW w \in Watches, SaveStates(w)
  PROVE  Newest'
<1>1. UNCHANGED <<loaded, todo, unread, reading>> /\ pc = "eval" /\ w \in todo
  BY DEF SaveStates
<1>2. loaded[w] \in LoadedRow /\ loaded[w] # NotLoaded
  BY <1>1 DEF Typed, TypeOK, LoadInv
<1>3. \A v \in Watches : Reportable(v)' => Reportable(v)
  BY <1>1 DEF SaveStates, Reportable
<1>4. CASE pc' = "dead"
  <2>1. UNCHANGED <<out, origin, watch_state>>
    BY <1>4 DEF SaveStates
  <2> QED
    BY <1>1, <1>3, <1>4, <2>1, NewestUntouched
<1>5. CASE pc' # "dead"
  <2>1. LoadedIsCurrent'
    BY <1>1, <1>3, <1>5, SaveCommits DEF Newest, LoadedIsCurrent, Reporting
  <2>2. StatesCommitted'
    <3> SUFFICES ASSUME NEW v \in Watches, NEW c \in Cinemas, watch_state'[v][c] # NoState
                 PROVE  origin'[v][c].n > 0
      BY <1>1 DEF Newest, StatesCommitted
    <3>1. origin[v][c].n \in Nat
      BY CommitsAreNumbers
    <3> QED
      BY <1>5, <3>1, SaveCommits DEF Newest, StatesCommitted
  <2>3. ReportIsNewest'
    <3> SUFFICES ASSUME NEW c \in DOMAIN out'.told, out'.told[c] # {}
                 PROVE  /\ origin'[out'.watch][c].n = loaded'[out'.watch].origin[c].n + 1
                        /\ loaded'[out'.watch].origin[c].n > 0
      BY DEF ReportIsNewest
    <3>1. /\ out'.watch = w /\ c \in DOMAIN Outcome(w)
          /\ DOMAIN Outcome(w)[c].added # {}
      BY <1>5, SaveCommits
    <3>2. c \in Changed(w) /\ loaded[w].state[c] # NoState
      BY <1>2, <3>1, ToldIsChanged
    <3>3. c \in Cinemas /\ origin'[w][c].n = origin[w][c].n + 1
      BY <1>5, <3>2, SaveCommits
    <3>4. loaded[w].origin[c].n = origin[w][c].n
      BY <1>1, <3>3 DEF Newest, LoadedIsCurrent, Reportable, Reporting
    <3>5. loaded[w].origin[c].n > 0
      BY <1>2, <3>2, <3>3 DEF Newest, StatesCommitted
    <3> QED
      BY <1>1, <3>1, <3>3, <3>4, <3>5
  <2> QED
    BY <2>1, <2>2, <2>3 DEF Newest
<1> QED
  BY <1>4, <1>5

-----------------------------------------------------------------------------
(* Every other step.                                                       *)

\* The handlers drop the baselines of one watch, or touch none; the commits stay.
LEMMA HandlersDrop ==
  ASSUME Typed, Handlers
  PROVE  /\ \/ UNCHANGED watch_state
            \/ \E v \in Watches :
                 watch_state' = [watch_state EXCEPT ![v] = [c \in Cinemas |-> NoState]]
         /\ \A w \in Watches, c \in Cinemas : origin'[w][c].n = origin[w][c].n
         /\ UNCHANGED <<alerts, loop>>
<1>1. UNCHANGED <<alerts, loop>>
  BY DEF Handlers, CreateWatch, EditFilter, SetWatchEnabled, DeleteWatch, SetPaused,
         PatchMonitorEnabled, FinishPause, FinishEdit, DropHandler, history
<1>2. \/ UNCHANGED <<watch_state, origin>>
      \/ \E v \in Watches :
           /\ watch_state' = [watch_state EXCEPT ![v] = [c \in Cinemas |-> NoState]]
           /\ origin' = [origin EXCEPT ![v] = [d \in Cinemas |-> [origin[v][d] EXCEPT !.under = {}]]]
  BY DEF Handlers, CreateWatch, EditFilter, SetWatchEnabled, DeleteWatch, SetPaused,
         PatchMonitorEnabled, FinishPause, FinishEdit, DropHandler, history, db, Typed, TypeOK
<1>3. ASSUME NEW w \in Watches, NEW c \in Cinemas
      PROVE  origin'[w][c].n = origin[w][c].n
  <2>1. origin[w][c] \in Origins
    BY DEF Typed, TypeOK
  <2>2. [origin[w][c] EXCEPT !.under = {}].n = origin[w][c].n
    BY <2>1 DEF Origins
  <2>3. CASE origin' = origin
    BY <2>3
  <2>4. ASSUME NEW v \in Watches,
               origin' = [origin EXCEPT ![v] = [d \in Cinemas |-> [origin[v][d] EXCEPT !.under = {}]]]
        PROVE  origin'[w][c].n = origin[w][c].n
    <3>1. origin'[w] = IF w = v THEN [d \in Cinemas |-> [origin[w][d] EXCEPT !.under = {}]]
                                ELSE origin[w]
      BY <2>4 DEF Typed, TypeOK
    <3> QED
      BY <2>2, <3>1
  <2> QED
    BY <1>2, <2>3, <2>4
<1> QED
  BY <1>1, <1>2, <1>3

\* The steps that touch neither baselines nor commits nor alerts.
Silent ==
  \/ ReadSettings \/ PublishFlags \/ TimerFires \/ Notified
  \/ LoadRows \/ NothingActive \/ PlanRound \/ FetchesJoined \/ EndRound
  \/ \E w \in Watches : LoadCinemas(w) \/ LoadState(w) \/ SkipUncompilable(w)
  \/ \E c \in Cinemas : FetchOk(c) \/ FetchError(c)
  \/ World \/ \E t \in tasks : DispatchTrigger(t)

LEMMA SilentSteps == ASSUME Silent PROVE UNCHANGED <<watch_state, origin, alerts>>
<1>1. CASE ReadSettings \/ PublishFlags \/ TimerFires \/ Notified \/ LoadRows \/ NothingActive
  BY <1>1 DEF ReadSettings, PublishFlags, TimerFires, Notified, LoadRows, NothingActive,
              db, history
<1>2. CASE \/ PlanRound \/ FetchesJoined \/ EndRound
           \/ \E w \in Watches : LoadCinemas(w) \/ LoadState(w) \/ SkipUncompilable(w)
           \/ \E c \in Cinemas : FetchOk(c) \/ FetchError(c)
  BY <1>2 DEF PlanRound, FetchesJoined, EndRound, LoadCinemas, LoadState, SkipUncompilable,
              FetchOk, FetchError, db, history
<1>3. CASE World \/ \E t \in tasks : DispatchTrigger(t)
  BY <1>3 DEF World, ListingChanges, WindowTurns, Restart, DispatchTrigger, db, history
<1> QED
  BY <1>1, <1>2, <1>3 DEF Silent

\* There are no other steps than these.
LEMMA StepKinds ==
  ASSUME [Next]_vars
  PROVE  \/ Silent \/ Handlers \/ Report \/ UNCHANGED vars
         \/ \E w \in Watches : SaveStates(w)
  BY DEF Next, Loop, Silent

LEMMA NewestKept == ASSUME Typed, Ledger, Newest, [Next]_vars PROVE Newest'
<1>0. pc = "report" => /\ out.watch \in Watches
                        /\ \A c \in DOMAIN out.told : out.told[c] # {} => c \in Cinemas
  BY DEF Ledger, ReportIsWritten, Typed, TypeOK
<1>1. CASE \/ ReadSettings \/ PublishFlags \/ TimerFires \/ Notified \/ FetchesJoined
           \/ \E c \in Cinemas : FetchOk(c) \/ FetchError(c)
           \/ \E w \in Watches : SkipUncompilable(w)
  <2>1. UNCHANGED <<loaded, out, origin, watch_state>> /\ pc # "report" /\ pc' # "report"
    BY <1>1 DEF ReadSettings, PublishFlags, TimerFires, Notified, FetchesJoined, FetchOk,
                FetchError, SkipUncompilable, db, history
  <2>2. todo' \subseteq todo /\ pc' # "load"
    BY <1>1 DEF ReadSettings, PublishFlags, TimerFires, Notified, FetchesJoined, FetchOk,
                FetchError, SkipUncompilable
  <2>3. \A w \in Watches : Reportable(w)' => Reportable(w)
    BY <2>2 DEF Reportable
  <2> QED
    BY <2>1, <2>3, NewestUntouched
<1>2. CASE NothingActive \/ EndRound
  <2>1. UNCHANGED <<watch_state, origin>> /\ loaded' = NothingLoaded /\ pc' = "asleep"
    BY <1>2 DEF NothingActive, EndRound, ForgetRound, db, history
  <2>2. todo' = {}
    BY <1>2 DEF NothingActive, EndRound, Typed, LoadInv
  <2> QED
    BY <2>1, <2>2, NewestForgotten
<1>3. CASE Restart
  <2>1. UNCHANGED <<watch_state, origin>> /\ loaded' = NothingLoaded /\ todo' = {} /\ pc' = "settings"
    BY <1>3 DEF Restart, FreshProcess, ForgetRound, db
  <2> QED
    BY <2>1, NewestForgotten
<1>4. CASE \/ UNCHANGED vars \/ WindowTurns \/ \E t \in tasks : DispatchTrigger(t)
           \/ \E c \in Cinemas, p \in Payloads : ListingChanges(c, p)
  <2>1. UNCHANGED <<loop, origin, watch_state>>
    BY <1>4 DEF WindowTurns, DispatchTrigger, ListingChanges, db, history, vars
  <2>2. UNCHANGED <<loaded, out, pc>> /\ \A w \in Watches : Reportable(w)' => Reportable(w)
    BY <2>1 DEF loop, Reportable
  <2> QED
    BY <1>0, <2>1, <2>2, NewestUntouched
<1>5. CASE Handlers
  <2>1. ASSUME NEW w \in Watches, NEW c \in Cinemas
        PROVE  watch_state'[w][c] \in {watch_state[w][c], NoState}
    <3>1. CASE UNCHANGED watch_state
      BY <3>1
    <3>2. ASSUME NEW v \in Watches,
                 watch_state' = [watch_state EXCEPT ![v] = [d \in Cinemas |-> NoState]]
          PROVE  watch_state'[w][c] \in {watch_state[w][c], NoState}
      BY <3>2 DEF Typed, TypeOK, StoredStates
    <3> QED
      BY <1>5, <3>1, <3>2, HandlersDrop
  <2>2. \A w \in Watches, c \in Cinemas : origin'[w][c].n = origin[w][c].n
    BY <1>5, HandlersDrop
  <2>3. UNCHANGED <<loaded, out, pc>> /\ \A w \in Watches : Reportable(w)' => Reportable(w)
    BY <1>5, HandlersDrop DEF loop, Reportable
  <2> QED
    BY <1>0, <2>1, <2>2, <2>3, NewestUntouched
<1>6. CASE Report
  <2>1. /\ UNCHANGED <<loaded, origin, watch_state>> /\ pc = "report" /\ pc' = "eval"
        /\ todo' = todo \ {out.watch}
    BY <1>6 DEF Report, db
  <2>2. \A w \in Watches : Reportable(w)' => Reportable(w) /\ ~Reporting(w)
    BY <2>1 DEF Reportable, Reporting
  <2>3. LoadedIsCurrent' /\ StatesCommitted' /\ ReportIsNewest'
    BY <2>1, <2>2 DEF Newest, LoadedIsCurrent, StatesCommitted, ReportIsNewest
  <2> QED
    BY <2>3 DEF Newest
<1>7. CASE LoadRows \/ PlanRound \/ \E w \in Watches : LoadCinemas(w) \/ LoadState(w)
  BY <1>7, LoadNewest
<1>8. CASE \E w \in Watches : SaveStates(w)
  BY <1>8, SaveNewest
<1> QED
  BY <1>1, <1>2, <1>3, <1>4, <1>5, <1>6, <1>7, <1>8 DEF Next, Loop, World

-----------------------------------------------------------------------------
(* The refinement.                                                         *)

LedgerPairs == Watches \X Cinemas
Base == [p \in LedgerPairs |-> watch_state[p[1]][p[2]]]
Commits == [p \in LedgerPairs |-> origin[p[1]][p[2]].n]
Alerted == {<<<<t.watch, t.cinema>>, t.base.n + 1>> : t \in alerts}

LEMMA InitPromised == Init => Promise!Init
  BY DEF Init, Promise!Init, Unbuilt

\* The baselines are of the kind AlertLedger asks for.
LEMMA BaseTyped == ASSUME TypeOK PROVE Base \in [LedgerPairs -> Baselines \cup {NoState}]
  BY DEF TypeOK, StoredStates, Base, LedgerPairs

\* No stored baseline is the mark of a missing one.
LEMMA BaselinesAreStates == NoState \notin Baselines
  BY NoStateIsNoBaseline DEF Baselines

\* save_watch_states is a commit of the changed cinemas, or ends the loop.
LEMMA SavePromised ==
  ASSUME Typed, Typed', NEW w \in Watches, SaveStates(w), pc' # "dead"
  PROVE  \E S \in SUBSET LedgerPairs : Promise!Commit(S)
<1>0. SUFFICES ASSUME NEW S, S = {w} \X Changed(w)
               PROVE  \E R \in SUBSET LedgerPairs : Promise!Commit(R)
  OBVIOUS
<1>1. /\ Changed(w) \subseteq Cinemas
      /\ \A v \in Watches, c \in Cinemas :
           /\ origin'[v][c].n = IF v = w /\ c \in Changed(w) THEN origin[v][c].n + 1
                                                             ELSE origin[v][c].n
           /\ watch_state'[v][c] = IF v = w /\ c \in Changed(w) THEN Outcome(w)[c].state
                                                                ELSE watch_state[v][c]
  BY SaveCommits
<1>2. \A p \in LedgerPairs : p \in S <=> p[1] = w /\ p[2] \in Changed(w)
  BY <1>0 DEF LedgerPairs
<1>3. Base' \in [LedgerPairs -> Baselines \cup {NoState}]
  BY BaseTyped DEF Typed, TypeOK, StoredStates, Base, LedgerPairs
<1>4. ASSUME NEW p \in S PROVE Base'[p] # NoState
  <2>1. p[1] = w /\ p[2] \in Changed(w) /\ p \in LedgerPairs
    BY <1>0, <1>1 DEF LedgerPairs
  <2>2. Base'[p] = Outcome(w)[p[2]].state
    BY <1>1, <2>1 DEF Base, LedgerPairs
  <2>3. loaded[w] \in LoadedRow
    BY DEF SaveStates, Typed, TypeOK, LoadInv
  <2>4. Outcome(w)[p[2]].state \in Baselines
    BY <2>1, <2>3, ChangedStates DEF Changed
  <2> QED
    BY <2>2, <2>4, BaselinesAreStates
<1>5. ASSUME NEW p \in LedgerPairs \ S PROVE Base'[p] = Base[p]
  BY <1>1, <1>2 DEF Base, LedgerPairs
<1>6. Commits' = [p \in LedgerPairs |-> IF p \in S THEN Commits[p] + 1 ELSE Commits[p]]
  BY <1>1, <1>2 DEF Commits, LedgerPairs
<1>7. UNCHANGED alerts
  BY DEF SaveStates
<1>8. S \in SUBSET LedgerPairs
  BY <1>0, <1>1 DEF LedgerPairs
<1>9. Promise!Commit(S)
  BY <1>3, <1>4, <1>5, <1>6, <1>7 DEF Promise!Commit, Base, Commits, LedgerPairs
<1> QED
  BY <1>8, <1>9

\* The handlers drop the baselines of a watch, or none.
LEMMA HandlersPromised ==
  ASSUME Typed, Handlers
  PROVE  \E S \in SUBSET LedgerPairs : Promise!Drop(S)
<1>1. Commits' = Commits /\ Alerted' = Alerted
  BY HandlersDrop DEF Commits, Alerted, LedgerPairs
<1>2. CASE UNCHANGED watch_state
  <2>1. Base' = [p \in LedgerPairs |-> IF p \in {} THEN NoState ELSE Base[p]]
    BY <1>2 DEF Base
  <2>2. Promise!Drop({})
    BY <1>1, <2>1 DEF Promise!Drop, Base, Commits, Alerted, LedgerPairs
  <2> QED
    BY <2>2
<1>3. ASSUME NEW v \in Watches,
             watch_state' = [watch_state EXCEPT ![v] = [c \in Cinemas |-> NoState]]
      PROVE  \E S \in SUBSET LedgerPairs : Promise!Drop(S)
  <2> DEFINE S == {v} \X Cinemas
  <2>1. ASSUME NEW p \in LedgerPairs
        PROVE  watch_state'[p[1]][p[2]] = IF p \in S THEN NoState ELSE watch_state[p[1]][p[2]]
    BY <1>3 DEF Typed, TypeOK, StoredStates, LedgerPairs
  <2>2. Base' = [p \in LedgerPairs |-> IF p \in S THEN NoState ELSE Base[p]]
    BY <2>1 DEF Base
  <2>3. S \in SUBSET LedgerPairs
    BY DEF LedgerPairs
  <2> HIDE DEF S
  <2>4. Promise!Drop(S)
    BY <1>1, <2>2 DEF Promise!Drop, Base, Commits, Alerted, LedgerPairs
  <2> QED
    BY <2>3, <2>4
<1> QED
  BY <1>2, <1>3, HandlersDrop

\* Report is an alert of the cinemas that grew: each tells the newest commit.
LEMMA ReportPromised ==
  ASSUME Typed, Ledger, Newest, Report
  PROVE  \E S \in SUBSET LedgerPairs : Promise!Alert(S)
<1>0. SUFFICES ASSUME NEW S, S = {<<t.watch, t.cinema>> : t \in Triggers}
               PROVE  \E R \in SUBSET LedgerPairs : Promise!Alert(R)
  OBVIOUS
<1>1. /\ UNCHANGED <<origin, watch_state>> /\ pc = "report" /\ alerts' = alerts \cup Triggers
  BY DEF Report, db
<1>2. ASSUME NEW t \in Triggers
      PROVE  /\ t.watch = out.watch /\ t.watch \in Watches /\ t.cinema \in Cinemas
             /\ t.base.n \in Nat /\ t.base.n > 0
             /\ t.base = loaded[out.watch].origin[t.cinema]
             /\ Commits[<<t.watch, t.cinema>>] = t.base.n + 1
  <2>1. /\ t.watch = out.watch /\ t.watch \in Watches /\ t.cinema \in Cinemas
        /\ t.base = loaded[out.watch].origin[t.cinema] /\ t.base.n \in Nat
    BY <1>1, TriggerBase
  <2>2. t.cinema \in DOMAIN out.told /\ out.told[t.cinema] # {}
    BY DEF Triggers
  <2>3. /\ origin[out.watch][t.cinema].n = loaded[out.watch].origin[t.cinema].n + 1
        /\ loaded[out.watch].origin[t.cinema].n > 0
    BY <1>1, <2>2 DEF Newest, ReportIsNewest
  <2>4. Commits[<<t.watch, t.cinema>>] = origin[t.watch][t.cinema].n
    BY <2>1 DEF Commits, LedgerPairs
  <2> QED
    BY <2>1, <2>3, <2>4
<1>3. ASSUME NEW t \in Triggers
      PROVE  <<<<t.watch, t.cinema>>, t.base.n + 1>> \notin Alerted
  <2> SUFFICES ASSUME NEW u \in alerts,
                      <<<<t.watch, t.cinema>>, t.base.n + 1>> = <<<<u.watch, u.cinema>>, u.base.n + 1>>
               PROVE  FALSE
    BY DEF Alerted
  <2>1. u.watch = t.watch /\ u.cinema = t.cinema /\ u.base.n + 1 = t.base.n + 1
    OBVIOUS
  <2>2. u.base.n \in Nat /\ t.base.n \in Nat
    BY <1>2 DEF Ledger, AlertsArePast
  <2>3. out.watch \in todo
    BY <1>1 DEF Ledger, ReportIsWritten
  <2>4. u.base.n < loaded[u.watch].origin[u.cinema].n
    BY <1>2, <2>1, <2>3 DEF Ledger, AlertsPrecedeLoad, Reportable
  <2>5. u.base.n < t.base.n
    BY <1>2, <2>1, <2>4
  <2> QED
    BY <2>1, <2>2, <2>5
<1>4. \A p \in S : Commits[p] >= 2 /\ <<p, Commits[p]>> \notin Alerted
  BY <1>0, <1>2, <1>3
<1>5. Alerted' = Alerted \cup {<<p, Commits[p]>> : p \in S}
  <2>1. Alerted' = Alerted \cup {<<<<t.watch, t.cinema>>, t.base.n + 1>> : t \in Triggers}
    BY <1>1 DEF Alerted
  <2>2. {<<<<t.watch, t.cinema>>, t.base.n + 1>> : t \in Triggers} = {<<p, Commits[p]>> : p \in S}
    BY <1>0, <1>2
  <2> QED
    BY <2>1, <2>2
<1>6. S \in SUBSET LedgerPairs
  BY <1>0, <1>2 DEF LedgerPairs
<1>7. Base' = Base /\ Commits' = Commits
  BY <1>1 DEF Base, Commits
<1>8. Promise!Alert(S)
  BY <1>4, <1>5, <1>7 DEF Promise!Alert, Base, Commits, Alerted, LedgerPairs
<1> QED
  BY <1>6, <1>8

\* Every step of the monitoring is a step of the ledger, or none.
LEMMA StepPromised ==
  ASSUME Typed, Typed', Ledger, Newest, [Next]_vars
  PROVE  [Promise!Next]_Promise!vars
<1>1. CASE Silent \/ UNCHANGED vars
  <2>1. UNCHANGED <<watch_state, origin, alerts>>
    BY <1>1, SilentSteps DEF vars, db, history
  <2> QED
    BY <2>1 DEF Promise!vars
<1>2. CASE Handlers
  BY <1>2, HandlersPromised DEF Promise!Next, LedgerPairs
<1>3. CASE Report
  BY <1>3, ReportPromised DEF Promise!Next, LedgerPairs
<1>4. ASSUME NEW w \in Watches, SaveStates(w)
      PROVE  [Promise!Next]_Promise!vars
  <2>1. CASE pc' = "dead"
    <3>1. UNCHANGED <<watch_state, origin, alerts>>
      BY <1>4, <2>1 DEF SaveStates
    <3> QED
      BY <3>1 DEF Promise!vars
  <2>2. CASE pc' # "dead"
    BY <1>4, <2>2, SavePromised DEF Promise!Next, LedgerPairs
  <2> QED
    BY <2>1, <2>2
<1> QED
  BY <1>1, <1>2, <1>3, <1>4, StepKinds

\* Monitor implements AlertLedger, for any watches, cinemas, filters and listings,
\* through every edit, deletion, failed fetch and restart: an alert tells what the
\* newest commit added to an older baseline, and no commit is alerted twice.
THEOREM AlertsKeepThePromise == Spec => AlertsAsPromised
<1>1. Init => Typed /\ Ledger /\ Newest /\ Promise!Init
  BY InitTyped, InitLedger, InitNewest, InitPromised
<1>2. Typed /\ Ledger /\ Newest /\ [Next]_vars => (Typed /\ Ledger /\ Newest)'
  BY TypedKept, LedgerKept, NewestKept
<1>3. Typed /\ Typed' /\ Ledger /\ Newest /\ [Next]_vars => [Promise!Next]_Promise!vars
  BY StepPromised
<1> QED
  BY <1>1, <1>2, <1>3, PTL DEF Spec, AlertsAsPromised, Promise!Spec

-----------------------------------------------------------------------------
(* Counting: a bag that grew holds something the other does not.           *)

\* A finite set fits into every finite set that is no smaller.
LEMMA FitsInto ==
  ASSUME NEW S, NEW T, IsFiniteSet(S), IsFiniteSet(T), Cardinality(S) <= Cardinality(T)
  PROVE  Injection(S, T) # {}
<1>1. /\ Cardinality(S) \in Nat /\ Cardinality(T) \in Nat
      /\ ExistsBijection(1..Cardinality(S), S) /\ ExistsBijection(1..Cardinality(T), T)
  BY FS_CardinalityType
<1>2. PICK nth \in Bijection(1..Cardinality(S), S) : TRUE
  BY <1>1 DEF ExistsBijection
<1>3. PICK place \in Bijection(1..Cardinality(T), T) : TRUE
  BY <1>1 DEF ExistsBijection
<1> DEFINE index == [s \in S |-> CHOOSE i \in 1..Cardinality(S) : nth[i] = s]
           fit == [s \in S |-> place[index[s]]]
<1>4. \A s \in S : index[s] \in 1..Cardinality(S) /\ nth[index[s]] = s
  BY <1>2 DEF Bijection, Surjection
<1>5. \A s \in S : index[s] \in 1..Cardinality(T)
  BY <1>1, <1>4
<1> HIDE DEF index
<1>6. fit \in [S -> T]
  BY <1>3, <1>5 DEF Bijection, Injection
<1>7. \A r, s \in S : fit[r] = fit[s] => r = s
  BY <1>3, <1>4, <1>5 DEF Bijection, Injection, IsInjective
<1> QED
  BY <1>6, <1>7 DEF Injection, IsInjective

\* What has no more of any kind has no more in all.
LEMMA KindsBoundWhole ==
  ASSUME NEW A, NEW B, NEW f, NEW g, IsFiniteSet(A), IsFiniteSet(B),
         \A i \in A : Cardinality({j \in A : f[j] = f[i]}) <= Cardinality({j \in B : g[j] = f[i]})
  PROVE  Cardinality(A) <= Cardinality(B)
<1> DEFINE Of(s) == {j \in A : f[j] = s}
           To(s) == {j \in B : g[j] = s}
           fit == [s \in {f[i] : i \in A} |-> CHOOSE h : h \in Injection(Of(s), To(s))]
           whole == [i \in A |-> fit[f[i]][i]]
<1>1. ASSUME NEW i \in A
      PROVE  fit[f[i]] \in Injection(Of(f[i]), To(f[i]))
  <2>1. IsFiniteSet(Of(f[i])) /\ IsFiniteSet(To(f[i]))
    BY FS_Subset
  <2>2. Cardinality(Of(f[i])) <= Cardinality(To(f[i]))
    OBVIOUS
  <2> HIDE DEF Of, To
  <2>3. Injection(Of(f[i]), To(f[i])) # {}
    BY <2>1, <2>2, FitsInto
  <2> QED
    BY <2>3
<1> HIDE DEF fit
<1>2. ASSUME NEW i \in A
      PROVE  whole[i] \in B /\ g[whole[i]] = f[i]
  <2>1. i \in Of(f[i]) /\ fit[f[i]] \in [Of(f[i]) -> To(f[i])]
    BY <1>1 DEF Injection
  <2>2. fit[f[i]][i] \in To(f[i])
    BY <2>1
  <2> QED
    BY <2>2
<1>3. ASSUME NEW i \in A, NEW j \in A, whole[i] = whole[j]
      PROVE  i = j
  <2>1. f[i] = f[j]
    BY <1>2, <1>3
  <2>2. i \in Of(f[i]) /\ j \in Of(f[i]) /\ fit[f[i]][i] = fit[f[i]][j]
    BY <1>3, <2>1
  <2> QED
    BY <1>1, <2>2 DEF Injection, IsInjective
<1>4. whole \in Injection(A, B)
  BY <1>2, <1>3 DEF Injection, IsInjective
<1> QED
  BY <1>4, FS_Injection

\* How often each show is in a part of a listing.
BagOfShows(A, show) == [s \in {show[i] : i \in A} |-> Cardinality({i \in A : show[i] = s})]

\* A larger bag minus a smaller one is not empty, whatever the two hold.
LEMMA LargerBagAdds ==
  ASSUME NEW A, NEW B, NEW f, NEW g, IsFiniteSet(A), IsFiniteSet(B),
         Cardinality(A) > Cardinality(B)
  PROVE  MultisetAdded(BagOfShows(A, f), BagOfShows(B, g)) # EmptyBag
<1>1. PICK i \in A : ~(Cardinality({j \in A : f[j] = f[i]}) <= Cardinality({j \in B : g[j] = f[i]}))
  <2>1. Cardinality(A) \in Nat /\ Cardinality(B) \in Nat
    BY FS_CardinalityType
  <2>2. ~(Cardinality(A) <= Cardinality(B))
    BY <2>1
  <2>3. CASE \A i \in A : Cardinality({j \in A : f[j] = f[i]}) <= Cardinality({j \in B : g[j] = f[i]})
    <3>1. Cardinality(A) <= Cardinality(B)
      BY <2>3, KindsBoundWhole
    <3> QED
      BY <2>2, <3>1
  <2> QED
    BY <2>3
<1> DEFINE ofA == {j \in A : f[j] = f[i]}
           ofB == {j \in B : g[j] = f[i]}
<1>2. /\ IsFiniteSet(ofA) /\ IsFiniteSet(ofB)
  BY FS_Subset
<1>3. Cardinality(ofA) \in Nat /\ Cardinality(ofB) \in Nat
  <2> HIDE DEF ofA, ofB
  <2> QED
    BY <1>2, FS_CardinalityType
<1>4. BagOfShows(A, f)[f[i]] = Cardinality(ofA) /\ f[i] \in DOMAIN BagOfShows(A, f)
  BY DEF BagOfShows
<1>5. CASE f[i] \in DOMAIN BagOfShows(B, g)
  <2>1. BagOfShows(B, g)[f[i]] = Cardinality(ofB)
    BY <1>5 DEF BagOfShows
  <2>2. BagOfShows(A, f)[f[i]] - BagOfShows(B, g)[f[i]] > 0
    BY <1>1, <1>3, <1>4, <2>1
  <2>3. f[i] \in DOMAIN MultisetAdded(BagOfShows(A, f), BagOfShows(B, g))
    BY <1>4, <1>5, <2>2 DEF MultisetAdded, (-)
  <2> QED
    BY <2>3 DEF EmptyBag, SetToBag
<1>6. CASE f[i] \notin DOMAIN BagOfShows(B, g)
  <2>1. ofA # {}
    OBVIOUS
  <2>2. Cardinality(ofA) > 0
    <3> HIDE DEF ofA
    <3> QED
      BY <1>2, <1>3, <2>1, FS_EmptySet
  <2>3. f[i] \in DOMAIN MultisetAdded(BagOfShows(A, f), BagOfShows(B, g))
    BY <1>4, <1>6, <2>2 DEF MultisetAdded, (-)
  <2> QED
    BY <2>3 DEF EmptyBag, SetToBag
<1> QED
  BY <1>5, <1>6

\* The entries of a listing that a filter counts in an hour.
Counted(f, p, k) ==
  {i \in DOMAIN p : /\ p[i].movie = f.movie /\ p[i].key = k
                    /\ p[i].show \in IF f.imax_only THEN ImaxShows ELSE Nat}
ShowOf(p) == [i \in DOMAIN p |-> p[i].show]

\* What a watch sees of an hour is the number and the bag of the entries it counts.
LEMMA CurrentCounts ==
  ASSUME NEW f \in Filters, NEW p \in Payloads, NEW k \in DOMAIN Current(f, FromPayload(p))
  PROVE  /\ IsFiniteSet(Counted(f, p, k))
         /\ Current(f, FromPayload(p))[k].count = Cardinality(Counted(f, p, k))
         /\ Current(f, FromPayload(p))[k].shows = BagOfShows(Counted(f, p, k), ShowOf(p))
         /\ Cardinality(Counted(f, p, k)) \in Nat /\ Cardinality(Counted(f, p, k)) > 0
<1>1. IsFiniteSet(Counted(f, p, k))
  <2>1. DOMAIN p = 1..Len(p) /\ Len(p) \in Nat
    BY PayloadsAreListings
  <2>2. Counted(f, p, k) \subseteq DOMAIN p
    BY DEF Counted
  <2>3. IsFiniteSet(DOMAIN p)
    BY <2>1, FS_Interval
  <2> QED
    BY <2>2, <2>3, FS_Subset
<1>2. k \in Keys /\ f.movie \in Movies /\ Count(f, FromPayload(p)[f.movie][k]) > 0
  BY FiltersNameMovies DEF Current
<1>3. FromPayload(p)[f.movie][k] = BucketOf(p, f.movie, k)
  BY <1>2 DEF FromPayload
<1> DEFINE mine == {i \in DOMAIN p : p[i].movie = f.movie /\ p[i].key = k}
           Listed(S) == {i \in mine : p[i].show \in S}
           Shows(S) == [s \in {p[i].show : i \in Listed(S)} |-> Cardinality(Listed({s}))]
           which == IF f.imax_only THEN ImaxShows ELSE Nat
<1>4. BucketOf(p, f.movie, k) =
        [total |-> Cardinality(Listed(Nat)), imax |-> Cardinality(Listed(ImaxShows)),
         total_shows |-> Shows(Nat), imax_shows |-> Shows(ImaxShows)]
  BY DEF BucketOf
<1>5. Listed(which) = Counted(f, p, k)
  BY DEF Counted
<1>6. /\ Count(f, BucketOf(p, f.movie, k)) = Cardinality(Listed(which))
      /\ ShowsIn(f, BucketOf(p, f.movie, k)) = Shows(which)
  <2> HIDE DEF Listed, Shows
  <2> QED
    BY <1>4 DEF Count, ShowsIn
<1>7. Shows(which) = BagOfShows(Counted(f, p, k), ShowOf(p))
  <2>1. {p[i].show : i \in Listed(which)} = {ShowOf(p)[i] : i \in Counted(f, p, k)}
    BY DEF Counted, ShowOf
  <2>2. ASSUME NEW s \in {p[i].show : i \in Listed(which)}
        PROVE  Listed({s}) = {i \in Counted(f, p, k) : ShowOf(p)[i] = s}
    BY DEF Counted, ShowOf
  <2> HIDE DEF Listed
  <2> QED
    BY <2>1, <2>2 DEF BagOfShows
<1>8. /\ Current(f, FromPayload(p))[k].count = Count(f, BucketOf(p, f.movie, k))
      /\ Current(f, FromPayload(p))[k].shows = ShowsIn(f, BucketOf(p, f.movie, k))
  BY <1>3 DEF Current
<1> HIDE DEF Listed, Shows
<1>9. Cardinality(Counted(f, p, k)) \in Nat
  BY <1>1, FS_CardinalityType
<1> QED
  BY <1>1, <1>2, <1>3, <1>5, <1>6, <1>7, <1>8, <1>9

\* A baseline that rises over another, whatever listing and filter that one was made
\* from, is reported: in an hour whose count grew there is a show to name.
LEMMA RiseIsReported ==
  ASSUME NEW f \in Filters, NEW p \in Payloads, NEW prev \in Baselines,
         RoseAbove(prev, EvaluateCinema(f, FromPayload(p), prev).state)
  PROVE  DOMAIN EvaluateCinema(f, FromPayload(p), prev).added # {}
<1> DEFINE cur == Current(f, FromPayload(p))
<1>1. PICK g \in Filters, q \in Payloads : prev = NewState(g, FromPayload(q))
  BY DEF Baselines
<1> DEFINE old == Current(g, FromPayload(q))
           was(k) == IF k \in DOMAIN old THEN old[k].count ELSE 0
           New(k) == MultisetAdded(cur[k].shows, IF k \in DOMAIN old THEN old[k].shows ELSE EmptyBag)
<1>2. prev.initialized /\ prev.buckets = old
  BY <1>1 DEF NewState
<1>3. EvaluateCinema(f, FromPayload(p), prev).state.buckets = cur
  BY DEF EvaluateCinema, NewState
<1>4. PICK k \in DOMAIN cur : cur[k].count > was(k)
  BY <1>2, <1>3 DEF RoseAbove
<1>5. /\ IsFiniteSet(Counted(f, p, k)) /\ Cardinality(Counted(f, p, k)) > was(k)
      /\ cur[k].shows = BagOfShows(Counted(f, p, k), ShowOf(p))
  BY <1>4, CurrentCounts
<1>6. New(k) # EmptyBag
  <2>1. CASE k \in DOMAIN old
    <3>1. /\ IsFiniteSet(Counted(g, q, k)) /\ was(k) = Cardinality(Counted(g, q, k))
          /\ old[k].shows = BagOfShows(Counted(g, q, k), ShowOf(q))
      BY <2>1, CurrentCounts
    <3> HIDE DEF cur, old
    <3>2. New(k) = MultisetAdded(BagOfShows(Counted(f, p, k), ShowOf(p)),
                                 BagOfShows(Counted(g, q, k), ShowOf(q)))
      BY <1>5, <2>1, <3>1
    <3> HIDE DEF New, was
    <3> QED
      BY <1>5, <3>1, <3>2, LargerBagAdds
  <2>2. CASE k \notin DOMAIN old
    <3>1. BagOfShows({}, ShowOf(q)) = EmptyBag
      BY DEF BagOfShows, EmptyBag, SetToBag
    <3>2. IsFiniteSet({}) /\ Cardinality({}) = 0
      BY FS_EmptySet
    <3> HIDE DEF cur, old
    <3>3. /\ New(k) = MultisetAdded(BagOfShows(Counted(f, p, k), ShowOf(p)),
                                    BagOfShows({}, ShowOf(q)))
          /\ was(k) = Cardinality({})
      BY <1>5, <2>2, <3>1, <3>2
    <3> HIDE DEF New, was
    <3> QED
      BY <1>5, <3>2, <3>3, LargerBagAdds
  <2> QED
    BY <2>1, <2>2
<1>7. k \in DOMAIN EvaluateCinema(f, FromPayload(p), prev).added
  <2>1. Grown(cur, prev.buckets, k)
    BY <1>2, <1>4 DEF Grown
  <2> HIDE DEF cur, old
  <2> QED
    BY <1>2, <1>4, <1>6, <2>1 DEF EvaluateCinema, cur
<1> QED
  BY <1>7

-----------------------------------------------------------------------------
(* Rises.                                                                  *)

\* What is stored for a watch that is still to be reported is what was loaded of
\* it, or has been dropped since: a rise over one is a rise over the other.
LoadedIsStored ==
  \A w \in Watches, c \in Cinemas :
    Reportable(w) /\ ~Reporting(w) => watch_state[w][c] \in {NoState, loaded[w].state[c]}

\* What rose is what is about to be reported.
RisesAreTold ==
  owed # {} =>
    /\ pc = "report"
    /\ \A pair \in owed :
         \E c \in DOMAIN out.told : pair = <<out.watch, c>> /\ out.told[c] # {}

Rises == LoadedIsStored /\ RisesAreTold

LEMMA InitRises == Init => Rises
  BY DEF Init, Rises, LoadedIsStored, RisesAreTold, NothingLoaded, Reportable, NotLoaded

\* Most steps at most drop baselines, and make no watch reportable.
LEMMA StoredUntouched ==
  ASSUME Typed, Rises,
         \A w \in Watches : Reportable(w)' => UNCHANGED loaded[w] /\ Reportable(w),
         pc # "report", pc' # "report",
         \A w \in Watches, c \in Cinemas : watch_state'[w][c] \in {watch_state[w][c], NoState},
         UNCHANGED owed \/ owed' = {}
  PROVE  Rises'
<1>1. LoadedIsStored'
  BY DEF Rises, LoadedIsStored, Reporting
<1>2. owed = {}
  BY DEF Rises, RisesAreTold
<1>3. RisesAreTold'
  BY <1>2 DEF RisesAreTold
<1> QED
  BY <1>1, <1>3 DEF Rises

LEMMA LoadRises ==
  ASSUME Typed, Rises, LoadRows \/ PlanRound \/ \E w \in Watches : LoadCinemas(w) \/ LoadState(w)
  PROVE  Rises'
<1>0. UNCHANGED <<watch_state, owed>> /\ pc # "report" /\ pc' # "report"
  BY DEF LoadRows, PlanRound, LoadCinemas, LoadState, db, history
<1>1. CASE LoadRows
  <2>1. \A w \in Watches : ~Reportable(w)'
    BY <1>1 DEF LoadRows, Reportable, Typed, LoadInv
  <2> QED
    BY <1>0, <2>1, StoredUntouched
<1>2. CASE PlanRound
  <2>1. UNCHANGED loaded /\ \A w \in Watches : Reportable(w)' => Reportable(w)
    BY <1>2 DEF PlanRound, Reportable, Active
  <2> QED
    BY <1>0, <2>1, StoredUntouched
<1>3. ASSUME NEW w \in Watches, LoadCinemas(w)
      PROVE  Rises'
  <2>1. \A v \in Watches : v # w => loaded'[v] = loaded[v]
    BY <1>3 DEF LoadCinemas, Typed, TypeOK
  <2>2. \A v \in Watches : Reportable(v)' => v # w /\ Reportable(v)
    BY <1>3, <2>1 DEF LoadCinemas, Reportable, Typed, LoadInv
  <2> QED
    BY <1>0, <2>1, <2>2, StoredUntouched
<1>4. ASSUME NEW w \in Watches, LoadState(w)
      PROVE  Rises'
  <2>1. loaded[w] \in LoadedRow
    BY <1>4 DEF Typed, TypeOK, LoadInv, LoadState
  <2>2. (\A v \in Watches : v # w => loaded'[v] = loaded[v]) /\ loaded'[w].state = watch_state[w]
    BY <1>4, <2>1 DEF LoadState, Typed, TypeOK, LoadedRow
  <2>3. \A v \in Watches : Reportable(v)' => v = w \/ Reportable(v)
    BY <1>4, <2>2 DEF LoadState, Reportable, Typed, LoadInv
  <2>4. LoadedIsStored'
    BY <1>0, <2>2, <2>3 DEF Rises, LoadedIsStored, Reporting
  <2>5. RisesAreTold'
    BY <1>0 DEF Rises, RisesAreTold
  <2> QED
    BY <2>4, <2>5 DEF Rises
<1> QED
  BY <1>1, <1>2, <1>3, <1>4

\* A baseline that rises by a commit is told of in the report that follows.
LEMMA CommittedRise ==
  ASSUME Typed, LoadedIsStored, NEW w \in Watches, SaveStates(w), NEW c \in Changed(w),
         watch_state[w][c] # NoState, RoseAbove(watch_state[w][c], Outcome(w)[c].state)
  PROVE  DOMAIN Outcome(w)[c].added # {}
<1>1. loaded[w] \in LoadedRow /\ w \in todo /\ pc = "eval"
  BY DEF SaveStates, Typed, TypeOK, LoadInv
<1>2. c \in Answered(w)
  BY DEF Changed, Outcome
<1>3. c \in Cinemas /\ fetch[c] \in FetchResults /\ fetch[c].result = "ok"
  BY <1>1, <1>2 DEF Typed, TypeOK, Answered, LoadedRow
<1>4. PICK p \in Payloads : fetch[c].snap = FromPayload(p)
  BY <1>3, FetchedSnap
<1>5. watch_state[w][c] = loaded[w].state[c]
  BY <1>1, <1>3 DEF LoadedIsStored, Reportable, Reporting
<1>6. Prev(w, c) = watch_state[w][c]
  BY <1>5 DEF Prev
<1>7. watch_state[w][c] \in Baselines
  BY <1>3 DEF Typed, TypeOK, StoredStates
<1>8. Outcome(w)[c] = EvaluateCinema(loaded[w].filter, FromPayload(p), watch_state[w][c])
  BY <1>2, <1>4, <1>6 DEF Outcome
<1> QED
  BY <1>1, <1>7, <1>8, RiseIsReported DEF LoadedRow

LEMMA SaveRises ==
  ASSUME Typed, Rises, NEW w \in Watches, SaveStates(w)
  PROVE  Rises'
<1>1. /\ UNCHANGED <<loaded, todo, unread, reading>> /\ pc = "eval" /\ w \in todo
      /\ pc' \in {"report", "dead"}
  BY DEF SaveStates
<1>2. \A v \in Watches : Reportable(v)' => Reportable(v)
  BY <1>1 DEF Reportable
<1>3. CASE pc' = "dead"
  <2>1. UNCHANGED <<owed, watch_state>>
    BY <1>3 DEF SaveStates
  <2> QED
    BY <1>1, <1>2, <1>3, <2>1, StoredUntouched
<1>4. CASE pc' # "dead"
  <2>1. LoadedIsStored'
    BY <1>1, <1>2, <1>4, SaveCommits DEF Rises, LoadedIsStored, Reporting
  <2>2. owed' = owed \cup {<<w, c>> : c \in {d \in Changed(w) :
                  /\ watch_state[w][d] # NoState
                  /\ RoseAbove(watch_state[w][d], Outcome(w)[d].state)}}
    BY <1>4 DEF SaveStates, Changed
  <2>3. owed = {}
    BY <1>1 DEF Rises, RisesAreTold
  <2>4. RisesAreTold'
    <3> SUFFICES ASSUME NEW c \in Changed(w), watch_state[w][c] # NoState,
                        RoseAbove(watch_state[w][c], Outcome(w)[c].state)
                 PROVE  \E d \in DOMAIN out'.told :
                          <<w, c>> = <<out'.watch, d>> /\ out'.told[d] # {}
      BY <1>1, <1>4, <2>2, <2>3 DEF RisesAreTold
    <3>1. DOMAIN Outcome(w)[c].added # {}
      BY CommittedRise DEF Rises
    <3>2. c \in DOMAIN Outcome(w)
      BY DEF Changed
    <3> QED
      BY <1>4, <3>1, <3>2, SaveCommits
  <2> QED
    BY <2>1, <2>4 DEF Rises
<1> QED
  BY <1>3, <1>4

LEMMA ReportRises == ASSUME Typed, Rises, Report PROVE Rises'
<1>1. /\ UNCHANGED <<loaded, watch_state>> /\ pc = "report" /\ pc' = "eval"
      /\ todo' = todo \ {out.watch}
      /\ owed' = owed \ {<<t.watch, t.cinema>> : t \in Triggers}
  BY DEF Report, db
<1>2. \A w \in Watches : Reportable(w)' => Reportable(w) /\ ~Reporting(w)
  BY <1>1 DEF Reportable, Reporting
<1>3. LoadedIsStored'
  BY <1>1, <1>2 DEF Rises, LoadedIsStored
<1>4. ASSUME NEW pair \in owed
      PROVE  pair \in {<<t.watch, t.cinema>> : t \in Triggers}
  <2>1. PICK c \in DOMAIN out.told : pair = <<out.watch, c>> /\ out.told[c] # {}
    BY <1>1 DEF Rises, RisesAreTold
  <2> DEFINE t == [watch |-> out.watch, cinema |-> c, keys |-> out.told[c],
                   base |-> loaded[out.watch].origin[c], under |-> loaded[out.watch].filter]
  <2>2. t \in Triggers /\ t.watch = out.watch /\ t.cinema = c
    BY <2>1 DEF Triggers
  <2> HIDE DEF t
  <2> QED
    BY <2>1, <2>2
<1>5. RisesAreTold'
  BY <1>1, <1>4 DEF RisesAreTold
<1> QED
  BY <1>3, <1>5 DEF Rises

LEMMA RisesKept == ASSUME Typed, Rises, [Next]_vars PROVE Rises'
<1>1. CASE \/ ReadSettings \/ PublishFlags \/ TimerFires \/ Notified \/ FetchesJoined
           \/ NothingActive \/ EndRound \/ Restart
           \/ \E c \in Cinemas : FetchOk(c) \/ FetchError(c)
           \/ \E w \in Watches : SkipUncompilable(w)
  <2>1. /\ UNCHANGED watch_state /\ pc' # "report" /\ owed' \in {owed, {}}
    BY <1>1 DEF ReadSettings, PublishFlags, TimerFires, Notified, FetchesJoined, NothingActive,
                EndRound, Restart, FreshProcess, FetchOk, FetchError, SkipUncompilable, db, history
  <2>2. /\ pc' # "load" /\ todo' \subseteq todo
        /\ UNCHANGED loaded \/ todo' = {}
    BY <1>1 DEF ReadSettings, PublishFlags, TimerFires, Notified, FetchesJoined, NothingActive,
                EndRound, Restart, FreshProcess, FetchOk, FetchError, SkipUncompilable,
                Typed, LoadInv
  <2>3. \A w \in Watches : Reportable(w)' => UNCHANGED loaded[w] /\ Reportable(w)
    BY <2>2 DEF Reportable
  <2>4. pc # "report" \/ Restart
    BY <1>1 DEF ReadSettings, PublishFlags, TimerFires, Notified, FetchesJoined, NothingActive,
                EndRound, FetchOk, FetchError, SkipUncompilable
  <2>5. CASE Restart
    <3>1. owed' = {} /\ todo' = {}
      BY <2>5 DEF Restart, FreshProcess
    <3> QED
      BY <2>2, <3>1 DEF Rises, LoadedIsStored, RisesAreTold, Reportable
  <2> QED
    BY <2>1, <2>3, <2>4, <2>5, StoredUntouched
<1>2. CASE \/ UNCHANGED vars \/ WindowTurns \/ \E t \in tasks : DispatchTrigger(t)
           \/ \E c \in Cinemas, p \in Payloads : ListingChanges(c, p)
  <2>1. UNCHANGED <<pc, todo, unread, reading, loaded, out, owed, watch_state>>
    BY <1>2 DEF WindowTurns, DispatchTrigger, ListingChanges, db, history, loop, vars
  <2> QED
    BY <2>1 DEF Rises, LoadedIsStored, RisesAreTold, Reportable, Reporting
<1>3. CASE Handlers
  <2>1. UNCHANGED <<pc, todo, unread, reading, loaded, out>>
    BY <1>3, HandlersDrop DEF loop
  <2>2. UNCHANGED owed
    BY <1>3 DEF Handlers, CreateWatch, EditFilter, SetWatchEnabled, DeleteWatch, SetPaused,
                PatchMonitorEnabled, FinishPause, FinishEdit, DropHandler, history
  <2>3. ASSUME NEW w \in Watches, NEW c \in Cinemas
        PROVE  watch_state'[w][c] \in {watch_state[w][c], NoState}
    <3>1. CASE UNCHANGED watch_state
      BY <3>1
    <3>2. ASSUME NEW v \in Watches,
                 watch_state' = [watch_state EXCEPT ![v] = [d \in Cinemas |-> NoState]]
          PROVE  watch_state'[w][c] \in {watch_state[w][c], NoState}
      BY <3>2 DEF Typed, TypeOK, StoredStates
    <3> QED
      BY <1>3, <3>1, <3>2, HandlersDrop
  <2>4. LoadedIsStored'
    BY <2>1, <2>3 DEF Rises, LoadedIsStored, Reportable, Reporting
  <2>5. RisesAreTold'
    BY <2>1, <2>2 DEF Rises, RisesAreTold
  <2> QED
    BY <2>4, <2>5 DEF Rises
<1>4. CASE LoadRows \/ PlanRound \/ \E w \in Watches : LoadCinemas(w) \/ LoadState(w)
  BY <1>4, LoadRises
<1>5. CASE \E w \in Watches : SaveStates(w)
  BY <1>5, SaveRises
<1>6. CASE Report
  BY <1>6, ReportRises
<1> QED
  BY <1>1, <1>2, <1>3, <1>4, <1>5, <1>6 DEF Next, Loop, World

\* No rise of a stored baseline is lost by the loop, for any watches, cinemas, filters
\* and listings: what the round compares with is what it overwrites, or was dropped,
\* and an hour whose count grew always has a show to tell of, so that the trigger of
\* the cinema is raised before the loop does anything else.
THEOREM NoRiseLost == Spec => []RiseAccounted
<1>1. Init => Typed /\ Rises
  BY InitTyped, InitRises
<1>2. Typed /\ Rises /\ [Next]_vars => (Typed /\ Rises)'
  BY TypedKept, RisesKept
<1>3. Rises => RiseAccounted
  BY DEF Rises, RisesAreTold, RiseAccounted
<1> QED
  BY <1>1, <1>2, <1>3, PTL DEF Spec
=============================================================================
