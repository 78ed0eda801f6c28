--------------------------- MODULE AutoLockProofs ---------------------------
(***************************************************************************)
(* Proofs about AutoLock, for any number of events, cinemas and callbacks. *)
(***************************************************************************)
EXTENDS AutoLock, TLAPS

-----------------------------------------------------------------------------
(* Types.                                                                  *)

\* What the two statements of the callback handler write are rows.
LEMMA RowsAreWritten ==
  ASSUME NEW row \in Rows, NEW id \in SUBSET Events, NEW n \in Nat
  PROVE  MarkedOk(row, id) \in Rows /\ FailureRecorded(row, id, n) \in Rows
<1>1. row.tries \in Nat
  BY DEF Rows
<1>2. MarkedOk(row, id) \in Rows
  BY DEF Rows, MarkedOk
<1>3. FailureRecorded(row, id, n) \in Rows
  BY <1>1 DEF Rows, FailureRecorded
<1> QED
  BY <1>2, <1>3

\* A task moves one cinema to another stage.
LEMMA StageMoves ==
  ASSUME stage \in [Events -> [Cinemas -> Stages]],
         NEW e \in Events, NEW c \in Cinemas, NEW s \in Stages
  PROVE  [stage EXCEPT ![e][c] = s] \in [Events -> [Cinemas -> Stages]]
  OBVIOUS

\* A mark is set or released.
LEMMA MarkMoves ==
  ASSUME inflight \in [Cinemas -> {"none", "fresh", "expired"}],
         NEW c \in Cinemas, NEW m \in {"none", "fresh", "expired"}
  PROVE  [inflight EXCEPT ![c] = m] \in [Cinemas -> {"none", "fresh", "expired"}]
  OBVIOUS

\* What is left of a handler that has ended.
LEMMA ServedHandler ==
  ASSUME TypeOK, NEW k \in Calls
  PROVE  /\ Served(k) \in Handlers
         /\ Served(k).at = "done" /\ Served(k).late = FALSE /\ Served(k).limit = 1
         /\ Served(k).event = call[k].event /\ Served(k).cinema = call[k].cinema
         /\ Served(k).told = call[k].told
  BY DEF TypeOK, Handlers, Places, Results, Served

\* A step of the handler of k that writes no row: where it goes on, and what it
\* takes along.
LEMMA HandlerMoves ==
  ASSUME TypeOK, NEW k \in Calls,
         LookUpWatch(k) \/ ReadRow(k) \/ RowUnread(k) \/ RereadRow(k) \/ Abandon(k)
  PROVE  \E h \in Handlers :
           LET row == lock_state[call[k].cinema]
           IN /\ call' = [call EXCEPT ![k] = h]
              /\ h.event = call[k].event /\ h.cinema = call[k].cinema
              /\ h.at \notin {"unused", "lookup"}
              /\ h.limit \in {1, call[k].limit, AtLeastOne(watch.lock_max_retries)}
              /\ h.late => call[k].late \/ row.status = "ok"
              /\ h.at = "write" /\ h.late /\ row.status = "ok" => h.result = "Ok"
              /\ h.told = "again" => \/ call[k].told = "again"
                                    \/ row.status \notin {"none", "exhausted"}
<1> DEFINE row == lock_state[call[k].cinema]
<1>1. call[k] \in Handlers /\ row \in Rows
  BY DEF TypeOK, Handlers
<1>2. CASE call' = [call EXCEPT ![k] = Served(k)]
  BY <1>2, ServedHandler
<1>3. CASE LookUpWatch(k) /\ watch.exists
  <2>1. PICK n, late :
          /\ n = AtLeastOne(watch.lock_max_retries) /\ late = (row.status = "ok")
          /\ call' = [call EXCEPT ![k] = [call[k] EXCEPT !.at = "read", !.limit = n, !.late = late]]
    BY <1>3 DEF TypeOK, LookUpWatch
  <2>2. n \in Nat /\ late \in BOOLEAN
    BY <2>1 DEF TypeOK, AtLeastOne
  <2>3. PICK h : h = [call[k] EXCEPT !.at = "read", !.limit = n, !.late = late]
    OBVIOUS
  <2>4. /\ h \in Handlers /\ h.at = "read" /\ h.limit = n /\ h.late = late
        /\ h.event = call[k].event /\ h.cinema = call[k].cinema /\ h.told = call[k].told
    BY <1>1, <2>2, <2>3 DEF Handlers, Places
  <2> QED
    BY <2>1, <2>3, <2>4
<1>4. CASE ReadRow(k) /\ call' # [call EXCEPT ![k] = Served(k)]
  <2>1. /\ row.status = "ok" => call[k].result = "Ok"
        /\ call' = [call EXCEPT ![k] = [call[k] EXCEPT !.at = "write"]]
    BY <1>4 DEF TypeOK, ReadRow
  <2>2. PICK h : h = [call[k] EXCEPT !.at = "write"]
    OBVIOUS
  <2>3. /\ h \in Handlers /\ h.at = "write" /\ h.limit = call[k].limit /\ h.late = call[k].late
        /\ h.event = call[k].event /\ h.cinema = call[k].cinema /\ h.told = call[k].told
        /\ h.result = call[k].result
    BY <1>1, <2>2 DEF Handlers, Places
  <2> QED
    BY <2>1, <2>2, <2>3
<1>5. CASE RowUnread(k)
  <2>1. PICK h : h = [call[k] EXCEPT !.at = "write", !.late = FALSE]
    OBVIOUS
  <2>2. call' = [call EXCEPT ![k] = h]
    BY <1>5, <2>1 DEF TypeOK, RowUnread
  <2>3. /\ h \in Handlers /\ h.at = "write" /\ h.limit = call[k].limit /\ h.late = FALSE
        /\ h.event = call[k].event /\ h.cinema = call[k].cinema /\ h.told = call[k].told
    BY <1>1, <2>1 DEF Handlers, Places
  <2> QED
    BY <2>2, <2>3
<1>6. CASE RereadRow(k)
  <2>1. PICK t : t = IF row.status = "none" THEN Served(k).told ELSE Note(row)
    OBVIOUS
  <2>2. PICK h : h = [Served(k) EXCEPT !.told = t]
    OBVIOUS
  <2>3. call' = [call EXCEPT ![k] = h]
    BY <1>6, <2>1, <2>2 DEF TypeOK, RereadRow
  <2>4. /\ t \in {"nothing", "again", "no more"}
        /\ t = "again" => call[k].told = "again" \/ row.status \notin {"none", "exhausted"}
    BY <1>1, <2>1, ServedHandler DEF Note, Handlers
  <2>5. /\ h \in Handlers /\ h.at = "done" /\ h.limit = 1 /\ h.late = FALSE
        /\ h.event = call[k].event /\ h.cinema = call[k].cinema /\ h.told = t
    BY <2>2, <2>4, ServedHandler DEF Handlers, Places
  <2> QED
    BY <2>3, <2>4, <2>5
<1> QED
  BY <1>2, <1>3, <1>4, <1>5, <1>6 DEF LookUpWatch, Abandon

\* The step that writes the result of k: what becomes of the rows and the handlers.
LEMMA WriteMoves ==
  ASSUME TypeOK, NEW k \in Calls, WriteResult(k)
  PROVE  LET c == call[k].cinema
             row == lock_state[c]
         IN /\ c \in Cinemas /\ row \in Rows /\ call[k].limit \in Nat
            /\ lock_state' \in [Cinemas -> Rows] /\ counted' \in [Cinemas -> Nat]
            /\ \A d \in Cinemas : d # c => lock_state'[d] = lock_state[d] /\ counted'[d] = counted[d]
            /\ \/ lock_state' = lock_state /\ counted' = counted
               \/ lock_state'[c].status = "ok" /\ counted' = counted
               \/ \E id \in SUBSET Events :
                    /\ lock_state'[c] = FailureRecorded(row, id, call[k].limit)
                    /\ counted'[c] = call[k].limit
            /\ \A j \in Calls :
                 /\ call'[j] \in Handlers
                 /\ call'[j].event = call[j].event /\ call'[j].cinema = call[j].cinema
                 /\ call'[j].told = call[j].told /\ call'[j].limit \in {1, call[j].limit}
                 /\ call'[j].at \in {"lookup", "write"} =>
                      /\ call'[j].at = call[j].at /\ call'[j].result = call[j].result
                 /\ call'[j].late => call[j].late /\ lock_state'[call[j].cinema].status = "ok"
<1> DEFINE c == call[k].cinema
           row == lock_state[c]
           written == watch.exists /\ call[k].result # "DryRun"
           fails == written /\ call[k].result = "Error"
<1>1. c \in Cinemas /\ row \in Rows /\ call[k].limit \in Nat /\ call[k] \in Handlers
  BY DEF TypeOK, Handlers
<1>2. PICK id : id = EventId(k) /\ id \in SUBSET Events
  <2>1. EventId(k) \in SUBSET Events
    <3>1. call[k].event \in Events
      BY <1>1 DEF Handlers
    <3> QED
      BY <3>1 DEF EventId
  <2> QED
    BY <2>1
<1>3. PICK new : new = IF ~written THEN row
                       ELSE IF fails THEN FailureRecorded(row, id, call[k].limit)
                       ELSE MarkedOk(row, id)
  OBVIOUS
<1>4. new \in Rows
  BY <1>1, <1>2, <1>3, RowsAreWritten
<1>5. /\ lock_state' = [lock_state EXCEPT ![c] = new]
      /\ counted' = IF fails THEN [counted EXCEPT ![c] = call[k].limit] ELSE counted
  BY <1>2, <1>3 DEF WriteResult
<1>6. /\ lock_state' \in [Cinemas -> Rows] /\ counted' \in [Cinemas -> Nat]
      /\ \A d \in Cinemas : d # c => lock_state'[d] = lock_state[d] /\ counted'[d] = counted[d]
  BY <1>1, <1>4, <1>5 DEF TypeOK
<1>7. \/ lock_state' = lock_state /\ counted' = counted
      \/ lock_state'[c].status = "ok" /\ counted' = counted
      \/ \E i \in SUBSET Events :
           /\ lock_state'[c] = FailureRecorded(row, i, call[k].limit)
           /\ counted'[c] = call[k].limit
  <2>1. CASE ~written
    BY <1>1, <1>3, <1>5, <2>1 DEF TypeOK
  <2>2. CASE fails
    BY <1>1, <1>2, <1>3, <1>5, <2>2 DEF TypeOK
  <2>3. CASE written /\ ~fails
    <3>1. MarkedOk(row, id).status = "ok"
      BY <1>1 DEF MarkedOk, Rows
    <3> QED
      BY <1>1, <1>3, <1>5, <2>3, <3>1 DEF TypeOK
  <2> QED
    BY <2>1, <2>2, <2>3
<1>8. ASSUME NEW j \in Calls
      PROVE  /\ call'[j] \in Handlers
             /\ call'[j].event = call[j].event /\ call'[j].cinema = call[j].cinema
             /\ call'[j].told = call[j].told /\ call'[j].limit \in {1, call[j].limit}
             /\ call'[j].at \in {"lookup", "write"} =>
                  /\ call'[j].at = call[j].at /\ call'[j].result = call[j].result
             /\ call'[j].late => call[j].late /\ lock_state'[call[j].cinema].status = "ok"
  <2>1. call[j] \in Handlers
    BY DEF TypeOK
  <2>2. CASE j # k
    <3>1. PICK late : late = Belated(lock_state', j)
      OBVIOUS
    <3>2. call'[j] = [call[j] EXCEPT !.late = late]
      BY <1>2, <1>3, <1>5, <2>2, <3>1 DEF WriteResult
    <3>3. late \in BOOLEAN /\ (late => call[j].late /\ lock_state'[call[j].cinema].status = "ok")
      BY <2>1, <3>1 DEF Belated, Handlers
    <3> QED
      BY <2>1, <3>2, <3>3 DEF Handlers
  <2>3. CASE j = k /\ fails
    <3>1. call'[j] = [call[j] EXCEPT !.at = "reread", !.late = FALSE]
      BY <2>3 DEF WriteResult
    <3> QED
      BY <2>1, <3>1 DEF Handlers, Places
  <2>4. CASE j = k /\ ~fails
    <3>1. call'[j] = Served(j)
      BY <2>4 DEF WriteResult
    <3> QED
      BY <3>1, ServedHandler
  <2> QED
    BY <2>2, <2>3, <2>4
<1> QED
  BY <1>1, <1>6, <1>7, <1>8

\* An edit of the filter and a deletion forget the rows, and let the handlers go on.
LEMMA ForgetMoves ==
  ASSUME TypeOK, EditFilter \/ DeleteWatch
  PROVE  /\ lock_state' = NoRows /\ call' \in [Calls -> Handlers]
         /\ \A j \in Calls :
              /\ call'[j].at = call[j].at /\ call'[j].event = call[j].event
              /\ call'[j].cinema = call[j].cinema /\ call'[j].limit = call[j].limit
              /\ call'[j].told = call[j].told /\ call'[j].late = FALSE
<1>1. lock_state' = NoRows /\ call' = [j \in Calls |-> [call[j] EXCEPT !.late = FALSE]]
  BY DEF EditFilter, DeleteWatch, ForgetRows
<1>2. ASSUME NEW h \in Handlers
      PROVE  LET g == [h EXCEPT !.late = FALSE]
             IN /\ g \in Handlers /\ g.at = h.at /\ g.event = h.event /\ g.cinema = h.cinema
                /\ g.limit = h.limit /\ g.told = h.told /\ g.late = FALSE
  BY DEF Handlers
<1>3. \A j \in Calls : call[j] \in Handlers
  BY DEF TypeOK
<1> QED
  BY <1>1, <1>2, <1>3

LEMMA InitType == Init => TypeOK
<1> SUFFICES ASSUME Init PROVE TypeOK
  OBVIOUS
<1>1. watch \in [exists: BOOLEAN, auto_lock: BOOLEAN, lock_max_retries: Nat]
  BY LimitsAreNumbers DEF Init
<1>2. lock_state \in [Cinemas -> Rows]
  BY DEF Init, NoRows, NoRow, Rows
<1>3. call \in [Calls -> Handlers]
  BY DEF Init, Handlers, Places, Results
<1> QED
  BY <1>1, <1>2, <1>3 DEF Init, TypeOK, NoMarks, Untouched, Stages

LEMMA TaskType == ASSUME TypeOK, Task PROVE TypeOK'
<1>1. ASSUME NEW e \in Events, NEW cs \in SUBSET Cinemas, Trigger(e, cs)
      PROVE  TypeOK'
  BY <1>1 DEF TypeOK, Trigger, history, Stages
<1>2. ASSUME NEW e \in Events, Open(e)
      PROVE  TypeOK'
  BY <1>2 DEF TypeOK, Open, AtLeastOne, IsSettled
<1>3. ASSUME NEW e \in Events, Close(e)
      PROVE  TypeOK'
  BY <1>3 DEF TypeOK, Close, history, Untouched, Stages
<1>4. ASSUME NEW e \in Events, NEW c \in Cinemas,
             \/ ReadLockState(e, c) \/ LockStateUnread(e, c) \/ GoferRefuses(e, c)
             \/ Submitted(e, c)
      PROVE  TypeOK'
  <2>1. stage' \in [Events -> [Cinemas -> Stages]]
    <3>1. \E s \in Stages : stage' = [stage EXCEPT ![e][c] = s]
      BY <1>4 DEF Stages, ReadLockState, LockStateUnread, GoferRefuses, Submitted
    <3> QED
      BY <3>1, StageMoves DEF TypeOK
  <2> QED
    BY <1>4, <2>1 DEF TypeOK, ReadLockState, LockStateUnread, GoferRefuses, Submitted, history
<1>5. ASSUME NEW e \in Events, NEW c \in Cinemas, CheckInflight(e, c)
      PROVE  TypeOK'
  <2>1. stage' \in [Events -> [Cinemas -> Stages]]
    <3>1. \E s \in Stages : stage' = [stage EXCEPT ![e][c] = s]
      BY <1>5 DEF Stages, CheckInflight
    <3> QED
      BY <3>1, StageMoves DEF TypeOK
  <2>2. inflight' \in [Cinemas -> {"none", "fresh", "expired"}]
    BY <1>5, MarkMoves DEF TypeOK, CheckInflight
  <2> QED
    BY <1>5, <2>1, <2>2 DEF TypeOK, CheckInflight, history
<1>6. ASSUME NEW e \in Events, NEW c \in Cinemas,
             MarkInflight(e, c) \/ SubmitFailed(e, c)
      PROVE  TypeOK'
  <2>1. stage' \in [Events -> [Cinemas -> Stages]]
    <3>1. \E s \in Stages : stage' = [stage EXCEPT ![e][c] = s]
      BY <1>6 DEF Stages, MarkInflight, SubmitFailed
    <3> QED
      BY <3>1, StageMoves DEF TypeOK
  <2>2. inflight' \in [Cinemas -> {"none", "fresh", "expired"}]
    BY <1>6, MarkMoves DEF TypeOK, MarkInflight, SubmitFailed
  <2> QED
    BY <1>6, <2>1, <2>2 DEF TypeOK, MarkInflight, SubmitFailed, history
<1>7. ASSUME NEW e \in Events, NEW c \in Cinemas, GoferAccepts(e, c)
      PROVE  TypeOK'
  <2>1. stage' \in [Events -> [Cinemas -> Stages]]
    <3>1. \E s \in Stages : stage' = [stage EXCEPT ![e][c] = s]
      BY <1>7 DEF Stages, GoferAccepts
    <3> QED
      BY <3>1, StageMoves DEF TypeOK
  <2> QED
    BY <1>7, <2>1 DEF TypeOK, GoferAccepts, history
<1> QED
  BY <1>1, <1>2, <1>3, <1>4, <1>5, <1>6, <1>7 DEF Task

LEMMA CallbackType == ASSUME TypeOK, Callback PROVE TypeOK'
<1>1. ASSUME NEW k \in Calls, NEW e \in Events, NEW named \in BOOLEAN, NEW c \in Cinemas,
             NEW r \in Results, CallBack(k, e, named, c, r)
      PROVE  TypeOK'
  BY <1>1 DEF TypeOK, CallBack, Handlers, Places, history, tasks
<1>2. ASSUME NEW k \in Calls,
             LookUpWatch(k) \/ ReadRow(k) \/ RowUnread(k) \/ RereadRow(k) \/ Abandon(k)
      PROVE  TypeOK'
  <2>1. call' \in [Calls -> Handlers]
    BY <1>2, HandlerMoves DEF TypeOK
  <2>2. inflight' \in [Cinemas -> {"none", "fresh", "expired"}] /\ answered' \subseteq Events \X Cinemas
    <3>1. call[k].event \in Events /\ call[k].cinema \in Cinemas
      BY DEF TypeOK, Handlers
    <3>2. \/ UNCHANGED <<inflight, answered>>
          \/ /\ inflight' = [inflight EXCEPT ![call[k].cinema] = "none"]
             /\ answered' = answered \cup {<<call[k].event, call[k].cinema>>}
      <4>1. CASE LookUpWatch(k)
        BY <4>1 DEF LookUpWatch
      <4>2. CASE ReadRow(k) \/ RowUnread(k) \/ RereadRow(k) \/ Abandon(k)
        BY <4>2 DEF ReadRow, RowUnread, RereadRow, Abandon, history
      <4> QED
        BY <1>2, <4>1, <4>2
    <3>3. inflight' \in [Cinemas -> {"none", "fresh", "expired"}]
      BY <3>1, <3>2, MarkMoves DEF TypeOK
    <3>4. <<call[k].event, call[k].cinema>> \in Events \X Cinemas
      BY <3>1
    <3>5. answered \subseteq Events \X Cinemas
      BY DEF TypeOK
    <3> QED
      BY <3>2, <3>3, <3>4, <3>5
  <2>3. UNCHANGED <<watch, lock_state, tasks, accepted, barred, counted>>
    BY <1>2 DEF LookUpWatch, ReadRow, RowUnread, RereadRow, Abandon, history
  <2> QED
    BY <2>1, <2>2, <2>3 DEF TypeOK, tasks
<1>3. ASSUME NEW k \in Calls, WriteResult(k)
      PROVE  TypeOK'
  <2>1. lock_state' \in [Cinemas -> Rows] /\ counted' \in [Cinemas -> Nat]
    BY <1>3, WriteMoves
  <2>2. call' \in [Calls -> Handlers]
    <3>1. \A j \in Calls : call'[j] \in Handlers
      BY <1>3, WriteMoves
    <3> QED
      BY <1>3, <3>1 DEF WriteResult
  <2>3. barred' \in [Events -> SUBSET Cinemas]
    BY <1>3 DEF TypeOK, WriteResult, Unbar
  <2>4. UNCHANGED <<watch, inflight, tasks, accepted, answered>>
    BY <1>3 DEF WriteResult
  <2> QED
    BY <2>1, <2>2, <2>3, <2>4 DEF TypeOK, tasks
<1> QED
  BY <1>1, <1>2, <1>3 DEF Callback

LEMMA ElsewhereType == ASSUME TypeOK, Elsewhere PROVE TypeOK'
<1>1. ASSUME EditFilter \/ DeleteWatch
      PROVE  TypeOK'
  <2>1. lock_state' \in [Cinemas -> Rows]
    BY <1>1 DEF EditFilter, DeleteWatch, ForgetRows, NoRows, NoRow, Rows
  <2>2. call' \in [Calls -> Handlers]
    BY <1>1, ForgetMoves
  <2>3. barred' \in [Events -> SUBSET Cinemas] /\ counted' \in [Cinemas -> Nat]
    BY <1>1 DEF EditFilter, DeleteWatch, ForgetRows
  <2> QED
    BY <1>1, <2>1, <2>2, <2>3 DEF TypeOK, EditFilter, DeleteWatch, ForgetRows, tasks
<1>2. ASSUME Restart
      PROVE  TypeOK'
  <2>1. call' \in [Calls -> Handlers]
    BY <1>2, ServedHandler DEF TypeOK, Restart
  <2> QED
    BY <1>2, <2>1 DEF TypeOK, Restart, NoMarks, Untouched, Stages, history
<1>3. ASSUME NEW on \in BOOLEAN, NEW n \in Limits, EditLock(on, n)
      PROVE  TypeOK'
  BY <1>3, LimitsAreNumbers DEF TypeOK, EditLock, tasks, history
<1>4. ASSUME NEW c \in Cinemas, Expire(c)
      PROVE  TypeOK'
  BY <1>4 DEF TypeOK, Expire, tasks, history
<1> QED
  BY <1>1, <1>2, <1>3, <1>4 DEF Elsewhere

LEMMA StutterType == ASSUME TypeOK, UNCHANGED vars PROVE TypeOK'
  BY DEF TypeOK, vars, tasks, history

LEMMA TypeKept == ASSUME TypeOK, [Next]_vars PROVE TypeOK'
  BY TaskType, CallbackType, ElsewhereType, StutterType DEF Next

\* Whatever tasks, callbacks, edits and restarts do, every row, mark, task and
\* callback handler stays of its kind.
THEOREM TypeCorrect == Spec => []TypeOK
  BY InitType, TypeKept, PTL DEF Spec

-----------------------------------------------------------------------------
(* Tasks.                                                                  *)

\* A task is past its first look at a row only when it has opened.
TasksInOrder ==
  \A e \in Events : gate[e] # "open" => \A c \in Cinemas : stage[e][c] \in {"off", "waiting"}

LEMMA InitOrder == Init => TasksInOrder
  BY DEF Init, TasksInOrder, Untouched

LEMMA OrderKept == ASSUME TypeOK, TasksInOrder, [Next]_vars PROVE TasksInOrder'
<1>1. ASSUME NEW e \in Events, NEW cs \in SUBSET Cinemas, Trigger(e, cs)
      PROVE  TasksInOrder'
  BY <1>1 DEF TypeOK, TasksInOrder, Trigger
<1>2. ASSUME NEW e \in Events, Open(e) \/ Close(e)
      PROVE  TasksInOrder'
  BY <1>2 DEF TypeOK, TasksInOrder, Open, Close, Untouched
<1>3. ASSUME NEW e \in Events, NEW c \in Cinemas,
             \/ ReadLockState(e, c) \/ LockStateUnread(e, c) \/ CheckInflight(e, c)
             \/ MarkInflight(e, c) \/ GoferAccepts(e, c) \/ GoferRefuses(e, c)
             \/ Submitted(e, c) \/ SubmitFailed(e, c)
      PROVE  TasksInOrder'
  <2>1. UNCHANGED gate /\ gate[e] = "open"
    BY <1>3 DEF TasksInOrder, Turn, ReadLockState, LockStateUnread, CheckInflight,
                MarkInflight, GoferAccepts, GoferRefuses, Submitted, SubmitFailed
  <2>2. \A d \in Events : d # e => stage'[d] = stage[d]
    BY <1>3 DEF TypeOK, ReadLockState, LockStateUnread, CheckInflight, MarkInflight,
                GoferAccepts, GoferRefuses, Submitted, SubmitFailed
  <2> QED
    BY <2>1, <2>2 DEF TasksInOrder
<1>4. ASSUME Callback \/ EditFilter \/ DeleteWatch \/ UNCHANGED vars
      PROVE  TasksInOrder'
  BY <1>4 DEF TasksInOrder, Callback, CallBack, LookUpWatch, ReadRow, RowUnread, WriteResult,
              RereadRow, Abandon, EditFilter, DeleteWatch, vars, tasks
<1>5. ASSUME Restart
      PROVE  TasksInOrder'
  BY <1>5 DEF TasksInOrder, Restart, Untouched
<1>6. ASSUME NEW on \in BOOLEAN, NEW n \in Limits, EditLock(on, n)
      PROVE  TasksInOrder'
  BY <1>6 DEF TasksInOrder, EditLock, tasks
<1>7. ASSUME NEW c \in Cinemas, Expire(c)
      PROVE  TasksInOrder'
  BY <1>7 DEF TasksInOrder, Expire, tasks
<1> QED
  BY <1>1, <1>2, <1>3, <1>4, <1>5, <1>6, <1>7 DEF Next, Task, Elsewhere

-----------------------------------------------------------------------------
(* Marks.                                                                  *)

\* A job is at Gofer only after its POST, and each event posts a cinema once.
JobsFollowPosts ==
  \A e \in Events, c \in Cinemas :
    gate[e] = "unraised" \/ stage[e][c] \in {"waiting", "check", "insert", "post"}
      => <<e, c>> \notin accepted

\* Gofer answers and calls back for jobs it has.
AnswersFollowJobs ==
  /\ answered \subseteq accepted
  /\ \A k \in Calls : call[k].at = "lookup" => <<call[k].event, call[k].cinema>> \in accepted

\* What backs a mark is not the wait for the answer to the POST: a callback may
\* have overtaken it.
Backed(c) ==
  \E e \in Events : \/ stage[e][c] \in {"post", "refused"}
                    \/ <<e, c>> \in accepted \ answered
MarksOwed == \A c \in Cinemas : inflight[c] # "none" => Backed(c)

MarksInv == JobsFollowPosts /\ AnswersFollowJobs /\ MarksOwed

LEMMA InitMarks == Init => MarksInv
  BY DEF Init, MarksInv, JobsFollowPosts, AnswersFollowJobs, MarksOwed, NoMarks

\* A step of a task that leaves the marks, Gofer and the callbacks alone and
\* does not end a POST keeps every mark backed.
LEMMA QuietTaskMarks ==
  ASSUME TypeOK, MarksInv, NEW e \in Events, NEW c \in Cinemas,
         \/ ReadLockState(e, c) \/ LockStateUnread(e, c)
         \/ CheckInflight(e, c) \/ MarkInflight(e, c)
  PROVE  MarksInv'
<1> USE DEF history
<1>1. UNCHANGED <<gate, accepted, call, answered>>
  BY DEF ReadLockState, LockStateUnread, CheckInflight, MarkInflight
<1>2. \A d \in Events, x \in Cinemas : <<d, x>> # <<e, c>> => stage'[d][x] = stage[d][x]
  BY DEF TypeOK, ReadLockState, LockStateUnread, CheckInflight, MarkInflight
<1>3. stage[e][c] \in {"waiting", "check", "insert"}
  BY DEF Turn, ReadLockState, LockStateUnread, CheckInflight, MarkInflight
<1>4. JobsFollowPosts'
  BY <1>1, <1>2, <1>3 DEF MarksInv, JobsFollowPosts
<1>5. AnswersFollowJobs'
  BY <1>1 DEF MarksInv, AnswersFollowJobs
<1>6. ASSUME NEW x \in Cinemas, inflight'[x] # "none"
      PROVE  Backed(x)'
  <2>1. CASE x = c /\ MarkInflight(e, c)
    BY <2>1 DEF TypeOK, MarkInflight, Backed
  <2>2. CASE inflight'[x] = inflight[x]
    BY <1>1, <1>2, <1>3, <1>6, <2>2 DEF MarksInv, MarksOwed, Backed
  <2>3. inflight'[x] = inflight[x] \/ (x = c /\ MarkInflight(e, c))
    BY <1>6 DEF TypeOK, ReadLockState, LockStateUnread, CheckInflight, MarkInflight
  <2> QED
    BY <2>1, <2>2, <2>3
<1> QED
  BY <1>4, <1>5, <1>6 DEF MarksInv, MarksOwed

\* The POST and its answer.
LEMMA PostMarks ==
  ASSUME TypeOK, TasksInOrder, MarksInv, NEW e \in Events, NEW c \in Cinemas,
         \/ GoferAccepts(e, c) \/ GoferRefuses(e, c) \/ Submitted(e, c) \/ SubmitFailed(e, c)
  PROVE  MarksInv'
<1> USE DEF history
<1>1. UNCHANGED <<gate, call, answered>>
  BY DEF GoferAccepts, GoferRefuses, Submitted, SubmitFailed
<1>2. \A d \in Events, x \in Cinemas : <<d, x>> # <<e, c>> => stage'[d][x] = stage[d][x]
  BY DEF TypeOK, GoferAccepts, GoferRefuses, Submitted, SubmitFailed
<1>3. stage'[e][c] \in {"sent", "refused", "done"}
  BY DEF TypeOK, GoferAccepts, GoferRefuses, Submitted, SubmitFailed
<1>4. accepted' = accepted \/ (GoferAccepts(e, c) /\ accepted' = accepted \cup {<<e, c>>})
  BY DEF GoferAccepts, GoferRefuses, Submitted, SubmitFailed
<1>5. JobsFollowPosts'
  <2>1. gate[e] # "unraised"
    BY DEF TasksInOrder, GoferAccepts, GoferRefuses, Submitted, SubmitFailed
  <2> QED
    BY <1>1, <1>2, <1>3, <1>4, <2>1 DEF MarksInv, JobsFollowPosts
<1>6. AnswersFollowJobs'
  BY <1>1, <1>4 DEF MarksInv, AnswersFollowJobs
<1>7. ASSUME NEW x \in Cinemas, inflight'[x] # "none"
      PROVE  Backed(x)'
  <2>1. inflight[x] # "none"
    BY <1>7 DEF TypeOK, GoferAccepts, GoferRefuses, Submitted, SubmitFailed
  <2>2. PICK d \in Events : \/ stage[d][x] \in {"post", "refused"}
                            \/ <<d, x>> \in accepted \ answered
    BY <2>1 DEF MarksInv, MarksOwed, Backed
  <2>3. CASE <<d, x>> \in accepted \ answered
    BY <1>1, <1>4, <2>3 DEF Backed
  <2>4. CASE <<d, x>> # <<e, c>>
    BY <1>1, <1>2, <1>4, <2>2, <2>4 DEF Backed
  <2>5. CASE <<d, x>> = <<e, c>> /\ stage[d][x] \in {"post", "refused"}
    <3>1. CASE GoferAccepts(e, c)
      <4>1. <<e, c>> \notin answered
        BY <3>1 DEF MarksInv, JobsFollowPosts, AnswersFollowJobs, GoferAccepts
      <4> QED
        BY <1>1, <2>5, <3>1, <4>1 DEF Backed, GoferAccepts
    <3>2. CASE GoferRefuses(e, c)
      BY <2>5, <3>2 DEF TypeOK, Backed, GoferRefuses
    <3>3. CASE Submitted(e, c)
      BY <2>5, <3>3 DEF Submitted
    <3>4. CASE SubmitFailed(e, c)
      BY <1>7, <2>5, <3>4 DEF TypeOK, SubmitFailed
    <3> QED
      BY <3>1, <3>2, <3>3, <3>4
  <2> QED
    BY <2>2, <2>3, <2>4, <2>5
<1> QED
  BY <1>5, <1>6, <1>7 DEF MarksInv, MarksOwed

\* A callback that finds the watch releases the mark of its cinema and answers
\* its own job; the others change neither marks nor jobs.
LEMMA CallbackMarks ==
  ASSUME TypeOK, MarksInv, Callback
  PROVE  MarksInv'
<1> USE DEF history, tasks
<1>1. ASSUME NEW k \in Calls, NEW e \in Events, NEW named \in BOOLEAN, NEW c \in Cinemas,
             NEW r \in Results, CallBack(k, e, named, c, r)
      PROVE  MarksInv'
  BY <1>1 DEF TypeOK, CallBack, MarksInv, JobsFollowPosts, AnswersFollowJobs, MarksOwed, Backed
<1>2. ASSUME NEW k \in Calls,
             \/ LookUpWatch(k) \/ ReadRow(k) \/ RowUnread(k) \/ WriteResult(k)
             \/ RereadRow(k) \/ Abandon(k)
      PROVE  MarksInv'
  <2> DEFINE e == call[k].event
             c == call[k].cinema
  <2>1. e \in Events /\ c \in Cinemas
    BY DEF TypeOK, Handlers
  <2>2. UNCHANGED <<stage, gate, accepted>>
    BY <1>2 DEF LookUpWatch, ReadRow, RowUnread, WriteResult, RereadRow, Abandon
  <2>3. ASSUME NEW j \in Calls, call'[j].at = "lookup"
        PROVE  /\ call[j].at = "lookup"
               /\ call'[j].event = call[j].event /\ call'[j].cinema = call[j].cinema
    <3>1. CASE WriteResult(k)
      BY <2>3, <3>1, WriteMoves
    <3>2. CASE ~WriteResult(k)
      BY <1>2, <2>3, <3>2, HandlerMoves DEF TypeOK
    <3> QED
      BY <3>1, <3>2
  <2>4. \/ UNCHANGED <<inflight, answered>>
        \/ /\ inflight' = [inflight EXCEPT ![c] = "none"]
           /\ answered' = answered \cup {<<e, c>>}
           /\ call[k].at = "lookup"
    BY <1>2 DEF LookUpWatch, ReadRow, RowUnread, WriteResult, RereadRow, Abandon
  <2>5. call[k].at = "lookup" => <<e, c>> \in accepted
    BY DEF MarksInv, AnswersFollowJobs
  <2>6. JobsFollowPosts'
    BY <2>2 DEF MarksInv, JobsFollowPosts
  <2>7. AnswersFollowJobs'
    BY <2>2, <2>3, <2>4, <2>5 DEF MarksInv, AnswersFollowJobs
  <2>8. ASSUME NEW x \in Cinemas, inflight'[x] # "none"
        PROVE  Backed(x)'
    <3>1. inflight[x] # "none"
      BY <2>4, <2>8 DEF TypeOK
    <3>2. \A d \in Events : <<d, x>> \in answered' => <<d, x>> \in answered
      BY <2>1, <2>4, <2>8 DEF TypeOK
    <3> QED
      BY <2>2, <3>1, <3>2 DEF MarksInv, MarksOwed, Backed
  <2> QED
    BY <2>6, <2>7, <2>8 DEF MarksInv, MarksOwed
<1> QED
  BY <1>1, <1>2 DEF Callback

LEMMA ElsewhereMarks ==
  ASSUME TypeOK, MarksInv, Elsewhere \/ UNCHANGED vars
  PROVE  MarksInv'
<1> USE DEF history, tasks
<1>1. CASE EditFilter \/ DeleteWatch
  <2>1. \A j \in Calls : /\ call'[j].at = call[j].at
                         /\ call'[j].event = call[j].event /\ call'[j].cinema = call[j].cinema
    BY <1>1, ForgetMoves
  <2>2. UNCHANGED <<inflight, gate, stage, accepted, answered>>
    BY <1>1 DEF EditFilter, DeleteWatch, ForgetRows
  <2> QED
    BY <2>1, <2>2 DEF MarksInv, JobsFollowPosts, AnswersFollowJobs, MarksOwed, Backed
<1>2. CASE Restart
  <2>1. \A j \in Calls : call'[j].at = "lookup" => call'[j] = call[j]
    BY <1>2, ServedHandler DEF Restart
  <2>2. JobsFollowPosts'
    BY <1>2 DEF TypeOK, MarksInv, JobsFollowPosts, Restart, Untouched
  <2>3. AnswersFollowJobs'
    BY <1>2, <2>1 DEF MarksInv, AnswersFollowJobs, Restart
  <2>4. MarksOwed'
    BY <1>2 DEF MarksOwed, Restart, NoMarks
  <2> QED
    BY <2>2, <2>3, <2>4 DEF MarksInv
<1>3. CASE \E on \in BOOLEAN, n \in Limits : EditLock(on, n)
  BY <1>3 DEF EditLock, MarksInv, JobsFollowPosts, AnswersFollowJobs, MarksOwed, Backed
<1>4. CASE \E c \in Cinemas : Expire(c)
  <2>1. \A x \in Cinemas : inflight'[x] # "none" => inflight[x] # "none"
    BY <1>4 DEF TypeOK, Expire
  <2>2. UNCHANGED <<gate, stage, accepted, answered, call>>
    BY <1>4 DEF Expire
  <2> QED
    BY <2>1, <2>2 DEF MarksInv, JobsFollowPosts, AnswersFollowJobs, MarksOwed, Backed
<1>5. CASE UNCHANGED vars
  BY <1>5 DEF vars, MarksInv, JobsFollowPosts, AnswersFollowJobs, MarksOwed, Backed
<1> QED
  BY <1>1, <1>2, <1>3, <1>4, <1>5 DEF Elsewhere

LEMMA MarksKept == ASSUME TypeOK, TasksInOrder, MarksInv, [Next]_vars PROVE MarksInv'
<1> USE DEF history
<1>1. ASSUME NEW e \in Events, NEW cs \in SUBSET Cinemas, Trigger(e, cs)
      PROVE  MarksInv'
  <2>1. UNCHANGED <<inflight, accepted, answered, call>>
    BY <1>1 DEF Trigger
  <2>2. JobsFollowPosts'
    BY <1>1, <2>1 DEF TypeOK, MarksInv, JobsFollowPosts, Trigger
  <2>3. AnswersFollowJobs'
    BY <2>1 DEF MarksInv, AnswersFollowJobs
  <2>4. ASSUME NEW x \in Cinemas, Backed(x)
        PROVE  Backed(x)'
    <3>1. stage[e][x] \in {"off", "waiting"}
      BY <1>1 DEF TasksInOrder, Trigger
    <3>2. \A d \in Events : d # e => stage'[d] = stage[d]
      BY <1>1 DEF TypeOK, Trigger
    <3> QED
      BY <2>1, <2>4, <3>1, <3>2 DEF Backed
  <2> QED
    BY <2>1, <2>2, <2>3, <2>4 DEF MarksInv, MarksOwed
<1>2. ASSUME NEW e \in Events, Open(e)
      PROVE  MarksInv'
  BY <1>2 DEF TypeOK, Open, MarksInv, JobsFollowPosts, AnswersFollowJobs, MarksOwed, Backed
<1>3. ASSUME NEW e \in Events, Close(e)
      PROVE  MarksInv'
  <2>1. UNCHANGED <<inflight, accepted, answered, call>>
    BY <1>3 DEF Close
  <2>2. JobsFollowPosts'
    BY <1>3, <2>1 DEF TypeOK, MarksInv, JobsFollowPosts, Close, Untouched
  <2>3. AnswersFollowJobs'
    BY <2>1 DEF MarksInv, AnswersFollowJobs
  <2>4. ASSUME NEW x \in Cinemas, Backed(x)
        PROVE  Backed(x)'
    <3>1. stage[e][x] \in {"off", "waiting"}
      BY <1>3 DEF TasksInOrder, Close
    <3>2. \A d \in Events : d # e => stage'[d] = stage[d]
      BY <1>3 DEF TypeOK, Close
    <3> QED
      BY <2>1, <2>4, <3>1, <3>2 DEF Backed
  <2> QED
    BY <2>1, <2>2, <2>3, <2>4 DEF MarksInv, MarksOwed
<1> QED
  BY <1>1, <1>2, <1>3, QuietTaskMarks, PostMarks, CallbackMarks, ElsewhereMarks DEF Next, Task

\* No leak of an in-flight mark, for any number of events, cinemas and callbacks.
THEOREM MarksAlwaysBacked == Spec => []MarksBacked
<1>1. Init => TypeOK /\ TasksInOrder /\ MarksInv
  BY InitType, InitOrder, InitMarks
<1>2. TypeOK /\ TasksInOrder /\ MarksInv /\ [Next]_vars => (TypeOK /\ TasksInOrder /\ MarksInv)'
  BY TypeKept, OrderKept, MarksKept
<1>3. MarksInv => MarksBacked
  BY DEF MarksInv, MarksOwed, Backed, MarksBacked
<1> QED
  BY <1>1, <1>2, <1>3, PTL DEF Spec

-----------------------------------------------------------------------------
(* Settled rows.                                                           *)

\* A barred cinema is settled, and no task is at work on one.
BarredInv ==
  \A e \in Events : \A c \in barred[e] :
    IsSettled(lock_state[c]) /\ stage[e][c] \in {"off", "waiting", "done"}

LEMMA InitBarred == Init => BarredInv
  BY DEF Init, BarredInv

LEMMA BarredKept == ASSUME TypeOK, TasksInOrder, BarredInv, [Next]_vars PROVE BarredInv'
<1> USE DEF history, tasks
<1>1. ASSUME NEW e \in Events, NEW cs \in SUBSET Cinemas, Trigger(e, cs)
      PROVE  BarredInv'
  BY <1>1 DEF TypeOK, BarredInv, Trigger
<1>2. ASSUME NEW e \in Events, Open(e)
      PROVE  BarredInv'
  BY <1>2 DEF TypeOK, TasksInOrder, BarredInv, Open
<1>3. ASSUME NEW e \in Events, Close(e)
      PROVE  BarredInv'
  BY <1>3 DEF TypeOK, BarredInv, Close, Untouched
<1>4. ASSUME NEW e \in Events, NEW c \in Cinemas, ReadLockState(e, c) \/ LockStateUnread(e, c)
      PROVE  BarredInv'
  <2>1. lock_state' = lock_state /\ \A d \in Events : barred'[d] \subseteq barred[d]
    BY <1>4 DEF TypeOK, ReadLockState, LockStateUnread
  <2>2. \A d \in Events, x \in Cinemas : <<d, x>> # <<e, c>> => stage'[d][x] = stage[d][x]
    BY <1>4 DEF TypeOK, ReadLockState, LockStateUnread
  <2>3. c \in barred'[e] => IsSettled(lock_state[c]) /\ stage'[e][c] = "done"
    <3>1. CASE ReadLockState(e, c)
      BY <3>1 DEF TypeOK, BarredInv, ReadLockState, IsSettled, HoldsBack
    <3>2. CASE LockStateUnread(e, c)
      BY <3>2 DEF TypeOK, LockStateUnread
    <3> QED
      BY <1>4, <3>1, <3>2
  <2>4. \A d \in Events : barred[d] \subseteq Cinemas
    BY DEF TypeOK
  <2> QED
    BY <2>1, <2>2, <2>3, <2>4 DEF BarredInv
<1>5. ASSUME NEW e \in Events, NEW c \in Cinemas,
             \/ CheckInflight(e, c) \/ MarkInflight(e, c) \/ GoferAccepts(e, c)
             \/ GoferRefuses(e, c) \/ Submitted(e, c) \/ SubmitFailed(e, c)
      PROVE  BarredInv'
  <2>1. UNCHANGED <<barred, lock_state>>
    BY <1>5 DEF CheckInflight, MarkInflight, GoferAccepts, GoferRefuses, Submitted, SubmitFailed
  <2>2. \A d \in Events, x \in Cinemas : <<d, x>> # <<e, c>> => stage'[d][x] = stage[d][x]
    BY <1>5 DEF TypeOK, CheckInflight, MarkInflight, GoferAccepts, GoferRefuses, Submitted,
                SubmitFailed
  <2>3. c \notin barred[e]
    BY <1>5 DEF BarredInv, CheckInflight, MarkInflight, GoferAccepts, GoferRefuses, Submitted,
                SubmitFailed
  <2>4. \A d \in Events : barred[d] \subseteq Cinemas
    BY DEF TypeOK
  <2> QED
    BY <2>1, <2>2, <2>3, <2>4 DEF BarredInv
<1>6. ASSUME NEW k \in Calls, WriteResult(k)
      PROVE  BarredInv'
  BY <1>6 DEF TypeOK, BarredInv, WriteResult, Unbar
<1>7. ASSUME EditFilter \/ DeleteWatch
      PROVE  BarredInv'
  BY <1>7 DEF BarredInv, EditFilter, DeleteWatch, ForgetRows
<1>8. ASSUME Restart
      PROVE  BarredInv'
  BY <1>8 DEF TypeOK, BarredInv, Restart, Untouched
<1>9. ASSUME UNCHANGED <<stage, lock_state, barred>>
      PROVE  BarredInv'
  BY <1>9 DEF BarredInv
<1>10. ASSUME \/ \E k \in Calls, e \in Events, named \in BOOLEAN, c \in Cinemas, r \in Results :
                   CallBack(k, e, named, c, r)
              \/ \E k \in Calls : LookUpWatch(k) \/ ReadRow(k) \/ RowUnread(k) \/ RereadRow(k)
                                 \/ Abandon(k)
       PROVE  UNCHANGED <<stage, lock_state, barred>>
  BY <1>10 DEF CallBack, LookUpWatch, ReadRow, RowUnread, RereadRow, Abandon
<1>11. ASSUME \/ \E on \in BOOLEAN, n \in Limits : EditLock(on, n)
              \/ \E c \in Cinemas : Expire(c)
              \/ UNCHANGED vars
       PROVE  UNCHANGED <<stage, lock_state, barred>>
  BY <1>11 DEF EditLock, Expire, vars
<1> QED
  BY <1>1, <1>2, <1>3, <1>4, <1>5, <1>6, <1>7, <1>8, <1>9, <1>10, <1>11
  DEF Next, Task, Callback, Elsewhere

\* For any number of events, cinemas and callbacks: what was locked or out of
\* retries when an event's task began, and still is, the task never submits, unless
\* it could not read the row.
THEOREM SettledNeverSubmitted == Spec => []SettledStaysQuiet
<1>1. Init => TypeOK /\ TasksInOrder /\ BarredInv
  BY InitType, InitOrder, InitBarred
<1>2. TypeOK /\ TasksInOrder /\ BarredInv /\ [Next]_vars => (TypeOK /\ TasksInOrder /\ BarredInv)'
  BY TypeKept, OrderKept, BarredKept
<1>3. BarredInv => SettledStaysQuiet
  BY DEF BarredInv, SettledStaysQuiet
<1> QED
  BY <1>1, <1>2, <1>3, PTL DEF Spec

-----------------------------------------------------------------------------
(* Belated callbacks.                                                      *)

\* The cinema of a belated callback is locked, and no failure among them is about
\* to be written.
LateInv ==
  \A k \in Calls : call[k].late =>
    /\ lock_state[call[k].cinema].status = "ok"
    /\ call[k].at = "write" => call[k].result = "Ok"

LEMMA InitLate == Init => LateInv
  BY DEF Init, LateInv

LEMMA LateKept == ASSUME TypeOK, LateInv, [Next]_vars PROVE LateInv'
<1> USE DEF history, tasks
<1>1. ASSUME UNCHANGED <<call, lock_state>>
      PROVE  LateInv'
  BY <1>1 DEF LateInv
<1>2. ASSUME \/ Task \/ UNCHANGED vars
             \/ \E on \in BOOLEAN, n \in Limits : EditLock(on, n)
             \/ \E c \in Cinemas : Expire(c)
      PROVE  UNCHANGED <<call, lock_state>>
  BY <1>2 DEF Task, Trigger, Open, Close, ReadLockState, LockStateUnread, CheckInflight,
              MarkInflight, GoferAccepts, GoferRefuses, Submitted, SubmitFailed, EditLock, Expire,
              vars
<1>3. ASSUME NEW k \in Calls, NEW e \in Events, NEW named \in BOOLEAN, NEW c \in Cinemas,
             NEW r \in Results, CallBack(k, e, named, c, r)
      PROVE  LateInv'
  BY <1>3 DEF TypeOK, LateInv, CallBack
<1>4. ASSUME NEW k \in Calls,
             LookUpWatch(k) \/ ReadRow(k) \/ RowUnread(k) \/ RereadRow(k) \/ Abandon(k)
      PROVE  LateInv'
  <2>1. lock_state' = lock_state
    BY <1>4 DEF LookUpWatch, ReadRow, RowUnread, RereadRow, Abandon
  <2>2. \A j \in Calls : j # k => call'[j] = call[j]
    BY <1>4, HandlerMoves DEF TypeOK
  <2>3. call'[k].late => /\ lock_state[call'[k].cinema].status = "ok"
                         /\ call'[k].at = "write" => call'[k].result = "Ok"
    BY <1>4, HandlerMoves DEF TypeOK, LateInv
  <2> QED
    BY <2>1, <2>2, <2>3 DEF LateInv
<1>5. ASSUME NEW k \in Calls, WriteResult(k)
      PROVE  LateInv'
  <2>1. ASSUME NEW j \in Calls, call'[j].late
        PROVE  /\ lock_state'[call'[j].cinema].status = "ok"
               /\ call'[j].at = "write" => call'[j].result = "Ok"
    BY <1>5, <2>1, WriteMoves DEF LateInv
  <2> QED
    BY <2>1 DEF LateInv
<1>6. ASSUME EditFilter \/ DeleteWatch
      PROVE  LateInv'
  <2>1. \A j \in Calls : call'[j].late = FALSE
    BY <1>6, ForgetMoves
  <2> QED
    BY <2>1 DEF LateInv
<1>7. ASSUME Restart
      PROVE  LateInv'
  <2>1. \A j \in Calls : call'[j] = call[j] \/ call'[j].late = FALSE
    BY <1>7, ServedHandler DEF Restart
  <2> QED
    BY <1>7, <2>1 DEF LateInv, Restart
<1> QED
  BY <1>1, <1>2, <1>3, <1>4, <1>5, <1>6, <1>7 DEF Next, Callback, Elsewhere

\* For any number of callbacks: a failure that comes in while the cinema is locked
\* never reaches the row as long as the cinema stays locked, unless its handler could
\* not read the row.
THEOREM LateFailuresIgnored == Spec => []LateFailureIgnored
<1>1. Init => TypeOK /\ LateInv
  BY InitType, InitLate
<1>2. TypeOK /\ LateInv /\ [Next]_vars => (TypeOK /\ LateInv)'
  BY TypeKept, LateKept
<1>3. LateInv => LateFailureIgnored
  BY DEF LateInv, LateFailureIgnored
<1> QED
  BY <1>1, <1>2, <1>3, PTL DEF Spec

-----------------------------------------------------------------------------
(* What a notice of a failure promises.                                    *)

\* No row is no tries, every handler counts up to at least one, and a row that is
\* failed has tries left of the limit it was last counted against.
CountInv ==
  /\ \A c \in Cinemas : lock_state[c].status = "none" => lock_state[c].tries = 0
  /\ \A k \in Calls : call[k].limit >= 1
  /\ \A c \in Cinemas : lock_state[c].status = "failed" /\ counted[c] # 1 =>
                          lock_state[c].tries < counted[c]

LEMMA InitCount == Init => CountInv
  BY DEF Init, CountInv, NoRows, NoRow

\* A failure that is counted up to n leaves tries, or is not a failed row.
LEMMA TriesLeft ==
  ASSUME NEW row \in Rows, row.status = "none" => row.tries = 0, NEW id, NEW n \in Nat, n > 1,
         FailureRecorded(row, id, n).status = "failed"
  PROVE  FailureRecorded(row, id, n).tries < n
<1>1. row.tries \in Nat /\ FailureRecorded(row, id, n).tries = row.tries + 1
  BY DEF Rows, FailureRecorded
<1>2. row.status = "none" \/ row.tries + 1 < n
  BY <1>1 DEF FailureRecorded
<1> QED
  BY <1>1, <1>2

LEMMA CountKept == ASSUME TypeOK, CountInv, [Next]_vars PROVE CountInv'
<1> USE DEF history, tasks
<1>1. ASSUME UNCHANGED <<call, lock_state, counted>>
      PROVE  CountInv'
  BY <1>1 DEF CountInv
<1>2. ASSUME \/ Task \/ UNCHANGED vars
             \/ \E on \in BOOLEAN, n \in Limits : EditLock(on, n)
             \/ \E c \in Cinemas : Expire(c)
      PROVE  UNCHANGED <<call, lock_state, counted>>
  BY <1>2 DEF Task, Trigger, Open, Close, ReadLockState, LockStateUnread, CheckInflight,
              MarkInflight, GoferAccepts, GoferRefuses, Submitted, SubmitFailed, EditLock, Expire,
              vars
<1>3. ASSUME UNCHANGED <<lock_state, counted>>, \A j \in Calls : call'[j].limit >= 1
      PROVE  CountInv'
  BY <1>3 DEF CountInv
<1>4. ASSUME NEW k \in Calls, NEW e \in Events, NEW named \in BOOLEAN, NEW c \in Cinemas,
             NEW r \in Results, CallBack(k, e, named, c, r)
      PROVE  CountInv'
  <2>1. \A j \in Calls : call'[j].limit >= 1
    BY <1>4 DEF TypeOK, CountInv, CallBack
  <2> QED
    BY <1>3, <1>4, <2>1 DEF CallBack
<1>5. ASSUME NEW k \in Calls,
             LookUpWatch(k) \/ ReadRow(k) \/ RowUnread(k) \/ RereadRow(k) \/ Abandon(k)
      PROVE  CountInv'
  <2>1. AtLeastOne(watch.lock_max_retries) >= 1
    BY DEF TypeOK, AtLeastOne
  <2>2. \A j \in Calls : call'[j].limit \in {1, call[j].limit, AtLeastOne(watch.lock_max_retries)}
    BY <1>5, HandlerMoves DEF TypeOK
  <2>3. \A j \in Calls : call'[j].limit >= 1
    BY <2>1, <2>2 DEF CountInv
  <2>4. UNCHANGED <<lock_state, counted>>
    BY <1>5 DEF LookUpWatch, ReadRow, RowUnread, RereadRow, Abandon
  <2> QED
    BY <1>3, <2>3, <2>4
<1>6. ASSUME NEW k \in Calls, WriteResult(k)
      PROVE  CountInv'
  <2> DEFINE x == call[k].cinema
             row == lock_state[x]
  <2>1. \A j \in Calls : call'[j].limit >= 1
    <3>1. \A j \in Calls : call'[j].limit \in {1, call[j].limit}
      BY <1>6, WriteMoves
    <3> QED
      BY <3>1 DEF CountInv
  <2>2. /\ x \in Cinemas /\ row \in Rows /\ call[k].limit \in Nat /\ call[k].limit >= 1
        /\ \A d \in Cinemas : d # x => lock_state'[d] = lock_state[d] /\ counted'[d] = counted[d]
    BY <1>6, WriteMoves DEF CountInv
  <2>3. CASE lock_state' = lock_state /\ counted' = counted
    BY <1>3, <2>1, <2>3
  <2>4. CASE lock_state'[x].status = "ok" /\ counted' = counted
    BY <2>1, <2>2, <2>4 DEF CountInv
  <2>5. CASE \E id \in SUBSET Events : /\ lock_state'[x] = FailureRecorded(row, id, call[k].limit)
                                       /\ counted'[x] = call[k].limit
    <3>1. PICK id \in SUBSET Events : /\ lock_state'[x] = FailureRecorded(row, id, call[k].limit)
                                      /\ counted'[x] = call[k].limit
      BY <2>5
    <3>2. lock_state'[x].status # "none"
      BY <3>1 DEF FailureRecorded
    <3>3. lock_state'[x].status = "failed" /\ counted'[x] # 1 => lock_state'[x].tries < counted'[x]
      <4> SUFFICES ASSUME lock_state'[x].status = "failed", counted'[x] # 1
                   PROVE  lock_state'[x].tries < counted'[x]
        OBVIOUS
      <4>1. call[k].limit > 1
        BY <2>2, <3>1
      <4>2. row.status = "none" => row.tries = 0
        BY <2>2 DEF CountInv
      <4> QED
        BY <2>2, <3>1, <4>1, <4>2, TriesLeft
    <3> QED
      BY <2>1, <2>2, <3>2, <3>3 DEF CountInv
  <2> QED
    BY <1>6, <2>3, <2>4, <2>5, WriteMoves
<1>7. ASSUME EditFilter \/ DeleteWatch
      PROVE  CountInv'
  <2>1. lock_state' = NoRows /\ \A j \in Calls : call'[j].limit = call[j].limit
    BY <1>7, ForgetMoves
  <2> QED
    BY <2>1 DEF CountInv, NoRows, NoRow
<1>8. ASSUME Restart
      PROVE  CountInv'
  <2>1. \A j \in Calls : call'[j] = call[j] \/ call'[j].limit = 1
    BY <1>8, ServedHandler DEF Restart
  <2>2. \A j \in Calls : call'[j].limit >= 1
    BY <2>1 DEF CountInv
  <2> QED
    BY <1>3, <1>8, <2>2 DEF Restart
<1> QED
  BY <1>1, <1>2, <1>4, <1>5, <1>6, <1>7, <1>8 DEF Next, Callback, Elsewhere

\* Only the handler that has read its row again tells of one more try.
LEMMA WhoTells ==
  ASSUME TypeOK, [Next]_vars, NEW k \in Calls,
         call[k].told = "nothing", call'[k].told = "again"
  PROVE  lock_state[call[k].cinema].status \notin {"none", "exhausted"}
<1> USE DEF history, tasks
<1>1. CASE \/ Task \/ UNCHANGED vars
           \/ \E on \in BOOLEAN, n \in Limits : EditLock(on, n)
           \/ \E c \in Cinemas : Expire(c)
  <2>1. call' = call
    BY <1>1 DEF Task, Trigger, Open, Close, ReadLockState, LockStateUnread, CheckInflight,
                MarkInflight, GoferAccepts, GoferRefuses, Submitted, SubmitFailed, EditLock, Expire,
                vars
  <2> QED
    BY <2>1
<1>2. CASE \E j \in Calls, e \in Events, named \in BOOLEAN, c \in Cinemas, r \in Results :
             CallBack(j, e, named, c, r)
  BY <1>2 DEF TypeOK, CallBack
<1>3. CASE \E j \in Calls :
             LookUpWatch(j) \/ ReadRow(j) \/ RowUnread(j) \/ RereadRow(j) \/ Abandon(j)
  BY <1>3, HandlerMoves DEF TypeOK
<1>4. CASE \E j \in Calls : WriteResult(j)
  BY <1>4, WriteMoves
<1>5. CASE EditFilter \/ DeleteWatch
  BY <1>5, ForgetMoves
<1>6. CASE Restart
  BY <1>6, ServedHandler DEF Restart
<1> QED
  BY <1>1, <1>2, <1>3, <1>4, <1>5, <1>6 DEF Next, Callback, Elsewhere

\* For every limit but 1, and any order of events, callbacks, edits and deletions: a
\* failure that is announced as one to be tried again is announced from a row that was
\* locked since, or that does not hold the next submission back.
THEOREM AnnouncedRetriesAreFree == Spec => RetryPromiseHolds
<1>1. Init => TypeOK /\ CountInv
  BY InitType, InitCount
<1>2. TypeOK /\ CountInv /\ [Next]_vars => (TypeOK /\ CountInv)'
  BY TypeKept, CountKept
<1>3. ASSUME TypeOK, CountInv, [Next]_vars
      PROVE  [\A k \in Calls :
                call[k].told = "nothing" /\ call'[k].told = "again" =>
                  LET c == call[k].cinema
                  IN \/ lock_state[c].status = "ok" \/ counted[c] = 1
                     \/ ~HoldsBack(lock_state[c], counted[c])]_vars
  <2> SUFFICES ASSUME NEW k \in Calls, call[k].told = "nothing", call'[k].told = "again",
                      lock_state[call[k].cinema].status # "ok", counted[call[k].cinema] # 1
               PROVE  ~HoldsBack(lock_state[call[k].cinema], counted[call[k].cinema])
    OBVIOUS
  <2> DEFINE c == call[k].cinema
  <2>1. c \in Cinemas /\ lock_state[c] \in Rows /\ counted[c] \in Nat
    BY <1>3 DEF TypeOK, Handlers
  <2>2. lock_state[c].status = "failed"
    BY <1>3, <2>1, WhoTells DEF Rows
  <2>3. lock_state[c].tries \in Nat /\ lock_state[c].tries < counted[c]
    BY <1>3, <2>1, <2>2 DEF CountInv, Rows
  <2> QED
    BY <2>1, <2>2, <2>3 DEF HoldsBack
<1> QED
  BY <1>1, <1>2, <1>3, PTL DEF Spec, RetryPromiseHolds
=============================================================================
