------------------------------ MODULE AutoLock ------------------------------
(***************************************************************************)
(* Automatic ticket locking for one watch: the task each trigger event     *)
(* spawns (dispatcher.rs, maybe_dispatch_autolock), the external Gofer     *)
(* service it submits to, and the handler of Gofer's callbacks (api.rs,    *)
(* agent_lock_result), with the lock_state rows and the in-memory          *)
(* in-flight marks they share.  Watches share none of these: every key is  *)
(* watch_id:cinema_id.                                                     *)
(*                                                                         *)
(* Gofer is external.  It may take a job although the answer to the POST   *)
(* is lost, and it calls back any number of times per job, in any order,   *)
(* with any result, naming the event or not, or never: the handler is      *)
(* written for an early and a final call for the same event_id.            *)
(***************************************************************************)
EXTENDS Naturals, FiniteSets

CONSTANTS
  Events,       \* trigger events raised for the watch
  Cinemas,
  Calls,        \* callbacks Gofer makes; their number is the bound on them
  Limits,       \* values lock_max_retries may be set to
  MaxEdits,     \* bound: how often the watch is edited or deleted
  MaxExpiries,  \* bound: how often an in-flight mark outlives its 600 s
  MaxCrashes,   \* bound: how often the process is killed and started again
  MaxFaults     \* bound: how often a row of lock_state cannot be read

ASSUME LimitsAreNumbers == Limits \subseteq Nat

VARIABLES
  watch,        \* [exists, auto_lock, lock_max_retries]
  lock_state,   \* cinema -> its row of lock_state; status "none" is no row
  inflight,     \* cinema -> "none", "fresh" (under 600 s old) or "expired"
  gate,         \* event -> "unraised", "raised", "open" or "closed"
  limit,        \* event -> lock_max_retries as its task read it
  stage,        \* event -> cinema -> how far the task has got with it
  accepted,     \* jobs <<event, cinema>> Gofer has taken
  call,         \* callback -> the handler serving it
  \* history, read by properties only
  answered,     \* jobs for which a callback has released the mark
  barred,       \* event -> cinemas that were settled when its task began and still are,
                \* and whose row the task could read
  counted,      \* cinema -> the limit its row was last counted against
  used          \* how much of each bound is used up

tasks == <<gate, limit, stage>>
history == <<answered, barred, counted>>
vars == <<watch, lock_state, inflight, tasks, accepted, call, history, used>>

-----------------------------------------------------------------------------
(* Values.                                                                 *)

Results == {"Ok", "DryRun", "Error"}   \* Error stands for the four failures
NoRow == [status |-> "none", tries |-> 0, last_event_id |-> {}]
NoRows == [c \in Cinemas |-> NoRow]
NoMarks == [c \in Cinemas |-> "none"]
Untouched == [c \in Cinemas |-> "off"]
Idle(k) == call[k].at \in {"unused", "done"}

AtLeastOne(n) == IF n < 1 THEN 1 ELSE n
IsSettled(row) == row.status \in {"ok", "exhausted"}

Spend(what) == used' = [used EXCEPT ![what] = @ + 1]

Init ==
  /\ watch \in [exists: {TRUE}, auto_lock: {TRUE}, lock_max_retries: Limits]
  /\ lock_state = NoRows
  /\ inflight = NoMarks
  /\ gate = [e \in Events |-> "unraised"]
  /\ limit = [e \in Events |-> 1]
  /\ stage = [e \in Events |-> Untouched]
  /\ accepted = {}
  /\ \E e \in Events, c \in Cinemas :
       call = [k \in Calls |-> [at |-> "unused", event |-> e, named |-> TRUE, cinema |-> c,
                                result |-> "Ok", limit |-> 1, late |-> FALSE,
                                told |-> "nothing"]]
  /\ answered = {}
  /\ barred = [e \in Events |-> {}]
  /\ counted = [c \in Cinemas |-> 1]
  /\ used = [edit |-> 0, expiry |-> 0, crash |-> 0, fault |-> 0]

-----------------------------------------------------------------------------
(* The task of an event.                                                   *)

\* The monitor spawns the task with the cinemas that grew.
Trigger(e, cs) ==
  /\ gate[e] = "unraised" /\ cs # {}
  /\ gate' = [gate EXCEPT ![e] = "raised"]
  /\ stage' = [stage EXCEPT ![e] = [c \in Cinemas |-> IF c \in cs THEN "waiting" ELSE "off"]]
  /\ UNCHANGED <<watch, lock_state, inflight, limit, accepted, call, history, used>>

\* get_watch: the task goes on with this copy of the row whatever becomes of it.
Open(e) ==
  /\ gate[e] = "raised" /\ watch.exists /\ watch.auto_lock
  /\ gate' = [gate EXCEPT ![e] = "open"]
  /\ limit' = [limit EXCEPT ![e] = AtLeastOne(watch.lock_max_retries)]
  /\ barred' = [barred EXCEPT ![e] = {c \in Cinemas : IsSettled(lock_state[c])}]
  /\ UNCHANGED <<watch, lock_state, inflight, stage, accepted, call, answered, counted, used>>

\* No such watch, auto_lock off, settings unreadable or no Gofer URL.
Close(e) ==
  /\ gate[e] = "raised"
  /\ gate' = [gate EXCEPT ![e] = "closed"]
  /\ stage' = [stage EXCEPT ![e] = Untouched]
  /\ UNCHANGED <<watch, lock_state, inflight, limit, accepted, call, history, used>>

\* Mutant: only a success is looked for, spent retries are not.
HoldsBackOk(row, n) == row.status = "ok"

\* The rows no submission is made for.
HoldsBack(row, n) ==
  \/ row.status \in {"ok", "exhausted"}
  \/ row.status = "failed" /\ row.tries >= n

\* The task serves one cinema after the other.
Turn(e, c) ==
  /\ gate[e] = "open" /\ stage[e][c] = "waiting"
  /\ \A d \in Cinemas : stage[e][d] \in {"off", "waiting", "done"}

ReadLockState(e, c) ==
  /\ Turn(e, c)
  /\ stage' = [stage EXCEPT ![e][c] =
                 IF HoldsBack(lock_state[c], limit[e]) THEN "done" ELSE "check"]
  /\ UNCHANGED <<watch, lock_state, inflight, gate, limit, accepted, call, history, used>>

\* A row that cannot be read holds nothing back.
LockStateUnread(e, c) ==
  /\ Turn(e, c) /\ used.fault < MaxFaults
  /\ stage' = [stage EXCEPT ![e][c] = "check"]
  /\ barred' = [barred EXCEPT ![e] = @ \ {c}]
  /\ Spend("fault")
  /\ UNCHANGED <<watch, lock_state, inflight, gate, limit, accepted, call, answered, counted>>

\* The first critical section: a mark younger than 600 s turns the task away.
CheckInflight(e, c) ==
  /\ stage[e][c] = "check"
  /\ \/ /\ inflight[c] = "fresh"
        /\ stage' = [stage EXCEPT ![e][c] = "done"]
        /\ UNCHANGED inflight
     \/ /\ inflight[c] # "fresh"
        /\ stage' = [stage EXCEPT ![e][c] = "insert"]
        /\ inflight' = [inflight EXCEPT ![c] = "none"]
  /\ UNCHANGED <<watch, lock_state, gate, limit, accepted, call, history, used>>

\* The second critical section: the mark is set, over any other.
MarkInflight(e, c) ==
  /\ stage[e][c] = "insert"
  /\ stage' = [stage EXCEPT ![e][c] = "post"]
  /\ inflight' = [inflight EXCEPT ![c] = "fresh"]
  /\ UNCHANGED <<watch, lock_state, gate, limit, accepted, call, history, used>>

\* The POST reaches Gofer, which queues the job.
GoferAccepts(e, c) ==
  /\ stage[e][c] = "post"
  /\ stage' = [stage EXCEPT ![e][c] = "sent"]
  /\ accepted' = accepted \cup {<<e, c>>}
  /\ UNCHANGED <<watch, lock_state, inflight, gate, limit, call, history, used>>

\* Gofer is not reached, or answers with an error status.
GoferRefuses(e, c) ==
  /\ stage[e][c] = "post"
  /\ stage' = [stage EXCEPT ![e][c] = "refused"]
  /\ UNCHANGED <<watch, lock_state, inflight, gate, limit, accepted, call, history, used>>

\* A 2xx answer within the 3 s.
Submitted(e, c) ==
  /\ stage[e][c] = "sent"
  /\ stage' = [stage EXCEPT ![e][c] = "done"]
  /\ UNCHANGED <<watch, lock_state, inflight, gate, limit, accepted, call, history, used>>

\* Mutant: the mark of a failed submission is left to expire.
SubmitFailedKeepingMark(e, c) ==
  /\ stage[e][c] \in {"sent", "refused"}
  /\ stage' = [stage EXCEPT ![e][c] = "done"]
  /\ UNCHANGED <<watch, lock_state, inflight, gate, limit, accepted, call, history, used>>

\* An error status, no connection, or no answer in time: the mark is released,
\* also when Gofer has the job and only the answer was late.
SubmitFailed(e, c) ==
  /\ stage[e][c] \in {"sent", "refused"}
  /\ stage' = [stage EXCEPT ![e][c] = "done"]
  /\ inflight' = [inflight EXCEPT ![c] = "none"]
  /\ UNCHANGED <<watch, lock_state, gate, limit, accepted, call, history, used>>

-----------------------------------------------------------------------------
(* The callback handler.                                                   *)

\* What a handler held is gone when it ends, but for the notice it gave.
Served(k) == [call[k] EXCEPT !.at = "done", !.named = TRUE, !.result = "Ok", !.limit = 1,
                             !.late = FALSE]

\* Gofer calls back about a job it has taken; the event_id is optional.
CallBack(k, e, named, c, result) ==
  /\ call[k].at = "unused" /\ <<e, c>> \in accepted
  /\ call' = [call EXCEPT ![k] = [at |-> "lookup", event |-> e, named |-> named, cinema |-> c,
                                  result |-> result, limit |-> 1, late |-> FALSE,
                                  told |-> "nothing"]]
  /\ UNCHANGED <<watch, lock_state, inflight, tasks, accepted, history, used>>

\* get_watch; 404 without one.  Otherwise the mark goes, whosever it is.
LookUpWatch(k) ==
  /\ call[k].at = "lookup"
  /\ LET c == call[k].cinema
     IN \/ /\ ~watch.exists
           /\ call' = [call EXCEPT ![k] = Served(k)]
           /\ UNCHANGED <<inflight, answered>>
        \/ /\ watch.exists
           /\ call' = [call EXCEPT ![k] =
                [@ EXCEPT !.at = "read", !.limit = AtLeastOne(watch.lock_max_retries),
                          !.late = (lock_state[c].status = "ok")]]
           /\ inflight' = [inflight EXCEPT ![c] = "none"]
           /\ answered' = answered \cup {<<call[k].event, c>>}
  /\ UNCHANGED <<watch, lock_state, tasks, accepted, barred, counted, used>>

\* The event_id of a callback as the column takes it: {} is NULL.
EventId(k) == IF call[k].named THEN {call[k].event} ELSE {}

\* A call that names an event, the last one of its row.
Duplicate(k, row) == call[k].named /\ row.last_event_id = EventId(k)

\* Mutant: the status is not looked at, only the event id.
ReadRowForDuplicate(k) ==
  /\ call[k].at = "read"
  /\ LET row == lock_state[call[k].cinema]
     IN call' = [call EXCEPT ![k] =
                   IF Duplicate(k, row) THEN Served(k) ELSE [@ EXCEPT !.at = "write"]]
  /\ UNCHANGED <<watch, lock_state, inflight, tasks, accepted, history, used>>

\* The row is read: a call for its last event is a duplicate, anything but a
\* success on an ok row is ignored.
ReadRow(k) ==
  /\ call[k].at = "read"
  /\ LET row == lock_state[call[k].cinema]
         ignored == row.status = "ok" /\ call[k].result # "Ok"
     IN call' = [call EXCEPT ![k] =
                   IF Duplicate(k, row) \/ ignored THEN Served(k) ELSE [@ EXCEPT !.at = "write"]]
  /\ UNCHANGED <<watch, lock_state, inflight, tasks, accepted, history, used>>

\* A row that cannot be read makes no call a duplicate or too late.
RowUnread(k) ==
  /\ call[k].at = "read" /\ used.fault < MaxFaults
  /\ call' = [call EXCEPT ![k].at = "write", ![k].late = FALSE]
  /\ Spend("fault")
  /\ UNCHANGED <<watch, lock_state, inflight, tasks, accepted, history>>

\* mark_lock_ok keeps the tries of a row that is there.
MarkedOk(row, id) == [row EXCEPT !.status = "ok", !.last_event_id = id]

\* Mutant: tries are counted down, as if the column held what is left.
FailureCountedDown(row, id, n) ==
  [status |-> IF row.status # "none" /\ row.tries + 1 >= n THEN "exhausted" ELSE "failed",
   tries |-> row.tries - 1,
   last_event_id |-> id]

\* Mutant: the retries are used up one failure too late.
FailureRecordedLate(row, id, n) ==
  [status |-> IF row.status # "none" /\ row.tries + 1 > n THEN "exhausted" ELSE "failed",
   tries |-> row.tries + 1,
   last_event_id |-> id]

\* record_lock_failure: the first failure is 'failed' whatever the limit.
FailureRecorded(row, id, n) ==
  [status |-> IF row.status # "none" /\ row.tries + 1 >= n THEN "exhausted" ELSE "failed",
   tries |-> row.tries + 1,
   last_event_id |-> id]

\* Rows that stop being ok free the callbacks that came for an ok row, rows
\* that stop being settled free the tasks that began with them settled.
Unbar(rows) ==
  barred' = [e \in Events |-> {c \in barred[e] : IsSettled(rows[c])}]
Belated(rows, k) == call[k].late /\ rows[call[k].cinema].status = "ok"

\* One statement.  A dry run writes nothing; a watch that has gone since makes
\* the insert break its foreign key, and the call is answered with a 500.
WriteResult(k) ==
  /\ call[k].at = "write"
  /\ LET c == call[k].cinema
         row == lock_state[c]
         written == watch.exists /\ call[k].result # "DryRun"
         fails == written /\ call[k].result = "Error"
         rows == [lock_state EXCEPT ![c] =
           IF ~written THEN row
           ELSE IF fails THEN FailureRecorded(row, EventId(k), call[k].limit)
           ELSE MarkedOk(row, EventId(k))]
     IN /\ lock_state' = rows
        /\ counted' = IF fails THEN [counted EXCEPT ![c] = call[k].limit] ELSE counted
        /\ call' = [j \in Calls |->
             IF j # k THEN [call[j] EXCEPT !.late = Belated(rows, j)]
             ELSE IF fails THEN [call[k] EXCEPT !.at = "reread", !.late = FALSE]
             ELSE Served(k)]
        /\ Unbar(rows)
  /\ UNCHANGED <<watch, inflight, tasks, accepted, answered, used>>

\* Only a row that is exhausted ends the tries; one that was locked since does not.
Note(row) == IF row.status = "exhausted" THEN "no more" ELSE "again"

\* record_lock_failure reads its row again, and the notice is made from that; no
\* row is a 500 and no notice.
RereadRow(k) ==
  /\ call[k].at = "reread"
  /\ LET row == lock_state[call[k].cinema]
     IN call' = [call EXCEPT ![k] =
                   [Served(k) EXCEPT !.told = IF row.status = "none" THEN @ ELSE Note(row)]]
  /\ UNCHANGED <<watch, lock_state, inflight, tasks, accepted, history, used>>

\* A statement fails, which is a 500, or the client goes and the handler is dropped.
Abandon(k) ==
  /\ ~Idle(k)
  /\ call' = [call EXCEPT ![k] = Served(k)]
  /\ UNCHANGED <<watch, lock_state, inflight, tasks, accepted, history, used>>

-----------------------------------------------------------------------------
(* The handlers of the watch, the clock, and the process being killed.     *)

ForgetRows ==
  /\ lock_state' = NoRows
  /\ call' = [k \in Calls |-> [call[k] EXCEPT !.late = FALSE]]
  /\ barred' = [e \in Events |-> {}]
  /\ counted' = [c \in Cinemas |-> 1]

\* update_watch with another filter key: the rows go, the marks stay.
EditFilter ==
  /\ used.edit < MaxEdits /\ watch.exists
  /\ ForgetRows
  /\ Spend("edit")
  /\ UNCHANGED <<watch, inflight, tasks, accepted, answered>>

\* update_watch with the filter as it was, or the binding of autolock-local.
EditLock(on, n) ==
  /\ used.edit < MaxEdits /\ watch.exists
  /\ watch' = [watch EXCEPT !.auto_lock = on, !.lock_max_retries = n]
  /\ watch' # watch
  /\ Spend("edit")
  /\ UNCHANGED <<lock_state, inflight, tasks, accepted, call, history>>

\* delete_watch: lock_state goes by its foreign key.
DeleteWatch ==
  /\ used.edit < MaxEdits /\ watch.exists
  /\ watch' = [watch EXCEPT !.exists = FALSE]
  /\ ForgetRows
  /\ Spend("edit")
  /\ UNCHANGED <<inflight, tasks, accepted, answered>>

\* 600 s pass without an answer.
Expire(c) ==
  /\ used.expiry < MaxExpiries /\ inflight[c] = "fresh"
  /\ inflight' = [inflight EXCEPT ![c] = "expired"]
  /\ Spend("expiry")
  /\ UNCHANGED <<watch, lock_state, tasks, accepted, call, history>>

\* Marks, tasks and half-served calls die with the process; rows and Gofer's
\* jobs do not.
Restart ==
  /\ used.crash < MaxCrashes
  /\ inflight' = NoMarks
  /\ gate' = [e \in Events |-> IF gate[e] = "unraised" THEN "unraised" ELSE "closed"]
  /\ stage' = [e \in Events |-> Untouched]
  /\ call' = [k \in Calls |-> IF Idle(k) THEN call[k] ELSE Served(k)]
  /\ Spend("crash")
  /\ UNCHANGED <<watch, lock_state, limit, accepted, history>>

-----------------------------------------------------------------------------
Task ==
  \/ \E e \in Events, cs \in SUBSET Cinemas : Trigger(e, cs)
  \/ \E e \in Events : Open(e) \/ Close(e)
  \/ \E e \in Events, c \in Cinemas :
       \/ ReadLockState(e, c) \/ LockStateUnread(e, c) \/ CheckInflight(e, c) \/ MarkInflight(e, c)
       \/ GoferAccepts(e, c) \/ GoferRefuses(e, c)
       \/ Submitted(e, c) \/ SubmitFailed(e, c)

Callback ==
  \/ \E k \in Calls, e \in Events, named \in BOOLEAN, c \in Cinemas, r \in Results :
       CallBack(k, e, named, c, r)
  \/ \E k \in Calls :
       \/ LookUpWatch(k) \/ ReadRow(k) \/ RowUnread(k) \/ WriteResult(k) \/ RereadRow(k)
       \/ Abandon(k)

Elsewhere ==
  \/ EditFilter \/ DeleteWatch \/ Restart
  \/ \E on \in BOOLEAN, n \in Limits : EditLock(on, n)
  \/ \E c \in Cinemas : Expire(c)

Next == Task \/ Callback \/ Elsewhere

Spec == Init /\ [][Next]_vars

-----------------------------------------------------------------------------
(* Properties.                                                             *)

Rows == [status: {"none", "ok", "failed", "exhausted"}, tries: Nat,
         last_event_id: SUBSET Events]
Stages == {"off", "waiting", "check", "insert", "post", "sent", "refused", "done"}
Places == {"unused", "lookup", "read", "write", "reread", "done"}
Handlers == [at: Places, event: Events, named: BOOLEAN, cinema: Cinemas, result: Results,
             limit: Nat, late: BOOLEAN, told: {"nothing", "again", "no more"}]

\* Rows, marks, tasks and callback handlers hold values of the code's own kinds.
TypeOK ==
  /\ watch \in [exists: BOOLEAN, auto_lock: BOOLEAN, lock_max_retries: Nat]
  /\ lock_state \in [Cinemas -> Rows]
  /\ inflight \in [Cinemas -> {"none", "fresh", "expired"}]
  /\ gate \in [Events -> {"unraised", "raised", "open", "closed"}]
  /\ limit \in [Events -> Nat]
  /\ stage \in [Events -> [Cinemas -> Stages]]
  /\ accepted \subseteq Events \X Cinemas
  /\ call \in [Calls -> Handlers]
  /\ answered \subseteq Events \X Cinemas
  /\ barred \in [Events -> SUBSET Cinemas]
  /\ counted \in [Cinemas -> Nat]

\* A mark that keeps a cinema from being submitted is never a leak: some task is
\* between setting it and hearing from Gofer, or Gofer has a job for the cinema
\* whose answer has not come in (lock_inflight, across timeouts, callbacks that
\* overtake the answer to the POST, edits and restarts).
MarksBacked ==
  \A c \in Cinemas : inflight[c] # "none" =>
    \E e \in Events : \/ stage[e][c] \in {"post", "sent", "refused"}
                      \/ <<e, c>> \in accepted \ answered

\* What the rows do guarantee about submitting again: a task that began when the
\* cinema was locked or out of retries, and is still so, never submits it, unless it
\* could not read the row (maybe_dispatch_autolock goes on as if there were none).
SettledStaysQuiet ==
  \A e \in Events : \A c \in barred[e] :
    stage[e][c] \notin {"check", "insert", "post", "sent", "refused"}

\* What the handler does guarantee about late failures: one that came in when the
\* cinema was locked, and is still so, is never on its way to the row, unless the
\* handler could not read the row (agent_lock_result goes on as if there were none).
LateFailureIgnored ==
  \A k \in Calls : call[k].at = "write" /\ call[k].late => call[k].result = "Ok"

\* Who is told that a failure will be tried again (the notice of agent_lock_result) is
\* told the truth although the notice is made from a row that is read after the
\* failure was written: whatever other callbacks, edits and deletions come in between,
\* that row does not hold the next submission back.  Excepted are a success in between,
\* a limit edited since the row was last counted, and the limit 1, which the insert of
\* a first failure does not look at.
RetryPromiseHolds ==
  [][\A k \in Calls :
       call[k].told = "nothing" /\ call'[k].told = "again" =>
         LET c == call[k].cinema
         IN \/ lock_state[c].status = "ok" \/ counted[c] = 1
            \/ ~HoldsBack(lock_state[c], counted[c])]_vars

\* docs/SERVER.md: a success that Gofer reports is known, so that the cinema is not
\* locked again: the handler of the call ends with an ok row.
SuccessHeard ==
  [][\A k \in Calls :
       ReadRow(k) /\ watch.exists /\ call[k].result = "Ok" /\ call'[k].at = "done" =>
         lock_state[call[k].cinema].status = "ok"]_vars
=============================================================================
