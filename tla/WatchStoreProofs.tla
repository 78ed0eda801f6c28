-------------------------- MODULE WatchStoreProofs --------------------------
(***************************************************************************)
(* Proofs about WatchStore, for any watches, channels, users, requests and *)
(* handlers at the same time: one row per key, which names the filter that *)
(* is polled; what an edit does to subscribers and baselines; whose        *)
(* configuration a binding keeps; the types of rows and handlers; and that *)
(* a watch which locks by itself has its channel bound.                    *)
(***************************************************************************)
EXTENDS WatchStore, SequenceTheorems, TLAPS

Fields == {"filter_key", "movie", "cinemas", "enabled", "auto_lock", "channels", "users", "known"}

\* The stages of a handler at work on a watch.
Busy == {"reuse", "toggle", "jobs", "cinemas", "target", "write", "merge"}

-----------------------------------------------------------------------------
(* The invariant, by its parts.                                            *)

\* A row has its columns, and whoever has a configuration has a row to keep it in.
RowOK(r) ==
  /\ Fields \subseteq DOMAIN r
  /\ DOMAIN r.channels = Range(Channels)
  /\ \A c \in Range(Channels) :
       /\ {"on", "stored", "own"} \subseteq DOMAIN r.channels[c]
       /\ r.channels[c].own => r.channels[c].stored

\* A handler at work has the id of a watch that was drawn, and merges it into another.
OpOK(o) ==
  /\ "at" \in DOMAIN o
  /\ o.at \in Busy => "id" \in DOMAIN o /\ o.id \in drawn
  /\ o.at \in {"target", "write"} => {"new", "changed"} \subseteq DOMAIN o
  /\ o.at = "merge" => o.into \in Ids /\ o.into # o.id

\* What an edit has read of the filter of a watch nobody else is at work on is still so.
Fresh(o) ==
  o.at \in Busy /\ o.id \in Rows \ overlapped =>
    /\ o.at = "cinemas" => o.old.filter_key = watches[o.id].filter_key
    /\ o.at = "target" => o.changed
    /\ o.at = "write" /\ ~o.changed
         => Key(o.new.movie, o.new.cinemas) = watches[o.id].filter_key

StoreOK ==
  /\ DOMAIN watches = Ids /\ DOMAIN op = Handlers
  /\ drawn \subseteq Ids /\ Rows \subseteq drawn
  /\ \A w \in Rows : RowOK(watches[w])
  /\ \A h \in Handlers : OpOK(op[h])
  /\ Overlap \subseteq overlapped

\* filter_key is UNIQUE.
OneRowPerKey ==
  \A v, w \in Rows : watches[v].filter_key = watches[w].filter_key => v = w

AllFresh == \A h \in Handlers : Fresh(op[h])

Inv == StoreOK /\ OneRowPerKey /\ AllFresh /\ KeyNamesFilter

-----------------------------------------------------------------------------
(* What a step does to the rows.                                           *)

\* A row is not the absence of one.
LEMMA RowsExist ==
  ASSUME NEW r, Fields \subseteq DOMAIN r
  PROVE  r # None
  BY DEF Fields, None

\* Rows may go or change, but keep their key, filter and form, and none comes.
KeysStay ==
  /\ DOMAIN watches' = Ids /\ Rows' \subseteq Rows
  /\ \A w \in Rows' :
       /\ RowOK(watches'[w])
       /\ watches'[w].filter_key = watches[w].filter_key
       /\ watches'[w].movie = watches[w].movie /\ watches'[w].cinemas = watches[w].cinemas

\* A step that leaves the rows alone.
LEMMA RowsAlone ==
  ASSUME StoreOK, UNCHANGED watches
  PROVE  KeysStay
  BY DEF StoreOK, KeysStay, Rows, Exists

\* A step that deletes a row.
LEMMA RowGoes ==
  ASSUME StoreOK, NEW w, watches' = [watches EXCEPT ![w] = None]
  PROVE  KeysStay
  BY DEF StoreOK, KeysStay, Rows, Exists

\* A step that rewrites columns of a row besides its filter.
LEMMA RowChanges ==
  ASSUME StoreOK, NEW w \in Rows, NEW x, RowOK(x), x.filter_key = watches[w].filter_key,
         x.movie = watches[w].movie, x.cinemas = watches[w].cinemas,
         watches' = [watches EXCEPT ![w] = x]
  PROVE  KeysStay
<1>1. \A v \in Ids \ {w} : watches'[v] = watches[v]
  BY DEF StoreOK
<1>2. w \in Ids /\ watches'[w] = x /\ DOMAIN watches' = Ids
  BY DEF StoreOK, Rows
<1> QED
  BY <1>1, <1>2 DEF StoreOK, KeysStay, Rows, Exists

-----------------------------------------------------------------------------
(* What a step does to a handler.                                          *)

\* An idle handler and one with jobs on a watch that was drawn are well formed.
LEMMA RestOK ==
  ASSUME NEW w \in drawn, NEW jobs
  PROVE  /\ OpOK(Idle) /\ Fresh(Idle)
         /\ OpOK(Working(w, jobs)) /\ Fresh(Working(w, jobs))
<1>1. OpOK(Idle) /\ Fresh(Idle)
  BY DEF OpOK, Fresh, Idle, Busy
<1>2. LET o == [at |-> "jobs", id |-> w, jobs |-> jobs] IN OpOK(o) /\ Fresh(o)
  BY DEF OpOK, Fresh, Busy
<1> QED
  BY <1>1, <1>2 DEF Working

\* A step that keeps the keys, of a handler that goes on to what is well formed and fresh.
LEMMA KeysStayInv ==
  ASSUME Inv, KeysStay, UNCHANGED drawn, overlapped' = overlapped \cup Overlap',
         NEW h \in Handlers, NEW o, op' = [op EXCEPT ![h] = o], OpOK(o), Fresh(o)
  PROVE  Inv'
<1> USE DEF Inv
<1>0. /\ DOMAIN op' = Handlers /\ op'[h] = o
      /\ \A g \in Handlers \ {h} : op'[g] = op[g]
  BY DEF StoreOK
<1>1. StoreOK'
  BY <1>0 DEF StoreOK, KeysStay, OpOK
<1>2. OneRowPerKey'
  BY DEF OneRowPerKey, KeysStay
<1>3. KeyNamesFilter'
  BY DEF KeyNamesFilter, KeysStay
<1>4. ASSUME NEW q, Fresh(q) PROVE Fresh(q)'
  BY <1>4 DEF Fresh, KeysStay
<1>5. AllFresh'
  BY <1>0, <1>4 DEF AllFresh
<1> QED
  BY <1>1, <1>2, <1>3, <1>5

\* A step of no handler that keeps the keys.
LEMMA OtherKeysStayInv ==
  ASSUME Inv, KeysStay, UNCHANGED <<drawn, op>>, overlapped' = overlapped \cup Overlap'
  PROVE  Inv'
<1> USE DEF Inv
<1>1. StoreOK'
  BY DEF StoreOK, KeysStay, OpOK
<1>2. OneRowPerKey' /\ KeyNamesFilter' /\ AllFresh'
  BY DEF OneRowPerKey, KeyNamesFilter, AllFresh, Fresh, KeysStay
<1> QED
  BY <1>1, <1>2

-----------------------------------------------------------------------------
(* Requests.                                                               *)

\* A request finds its handler idle and leaves it well formed.
LEMMA RequestInv ==
  ASSUME Inv, NEW h \in Handlers, Request(h), overlapped' = overlapped \cup Overlap'
  PROVE  Inv'
<1>0. UNCHANGED <<watches, drawn>>
  BY DEF Request, PostWatch, PatchWatch, PutChannels, ToggleChannel, ConfigureChannel, ToggleWatch
<1>k. KeysStay
  BY <1>0, RowsAlone DEF Inv
<1>b. ASSUME NEW o, Begin(h, o), OpOK(o), Fresh(o) PROVE Inv'
  BY <1>0, <1>b, <1>k, KeysStayInv DEF Begin
<1>w. ASSUME NEW w \in drawn, NEW jobs, Begin(h, Working(w, jobs)) PROVE Inv'
  BY <1>b, <1>w, RestOK
<1>1. ASSUME NEW spec \in Specs, PostWatch(h, spec) PROVE Inv'
  <2> DEFINE o == [at |-> "find", spec |-> [spec EXCEPT !.cinemas = Trimmed(@)]]
  <2>1. OpOK(o) /\ Fresh(o)
    BY DEF OpOK, Fresh, Busy
  <2>2. Begin(h, o)
    BY <1>1 DEF PostWatch
  <2> HIDE DEF o
  <2> QED
    BY <1>b, <2>1, <2>2
<1>2. ASSUME NEW w \in drawn, NEW patch \in Patches, PatchWatch(h, w, patch) PROVE Inv'
  BY <1>2, <1>w DEF PatchWatch
<1>3. ASSUME NEW w \in drawn, NEW chosen \in SUBSET Range(Channels), PutChannels(h, w, chosen) PROVE Inv'
  BY <1>3, <1>w DEF PutChannels
<1>4. ASSUME NEW w \in drawn, NEW c \in Range(Channels), ToggleChannel(h, w, c) PROVE Inv'
  BY <1>4, <1>w DEF ToggleChannel
<1>5. ASSUME NEW w \in drawn, NEW c \in Range(Channels), ConfigureChannel(h, w, c) PROVE Inv'
  BY <1>5, <1>w DEF ConfigureChannel
<1>6. ASSUME NEW w \in drawn, ToggleWatch(h, w) PROVE Inv'
  <2> DEFINE o == [at |-> "toggle", id |-> w, enabled |-> ~watches[w].enabled]
  <2>1. OpOK(o) /\ Fresh(o)
    BY DEF OpOK, Fresh, Busy
  <2>2. Begin(h, o)
    BY <1>6 DEF ToggleWatch
  <2> HIDE DEF o
  <2> QED
    BY <1>b, <2>1, <2>2
<1> QED
  BY <1>1, <1>2, <1>3, <1>4, <1>5, <1>6 DEF Request

-----------------------------------------------------------------------------
(* Steps of a handler that keep the keys.                                  *)

\* Failing and finishing a job.
LEMMA JobEnds ==
  ASSUME Inv, NEW h \in Handlers, op[h].at \in Busy, Fail(h) \/ Done(h),
         KeysStay, UNCHANGED drawn, overlapped' = overlapped \cup Overlap'
  PROVE  Inv'
<1>1. op[h].id \in drawn
  BY DEF Inv, StoreOK, OpOK
<1>2. PICK o : op' = [op EXCEPT ![h] = o] /\ OpOK(o) /\ Fresh(o)
  BY <1>1, RestOK DEF Fail, Done
<1> QED
  BY <1>2, KeysStayInv

\* Channel jobs write a binding of the row.
LEMMA BindingChanges ==
  ASSUME StoreOK, NEW w \in Rows, NEW c, NEW b,
         c \in Range(Channels) => {"on", "stored", "own"} \subseteq DOMAIN b /\ (b.own => b.stored),
         watches' = [watches EXCEPT ![w].channels[c] = b]
  PROVE  KeysStay
<1> DEFINE x == [watches[w] EXCEPT !.channels = [watches[w].channels EXCEPT ![c] = b]]
<1>1. w \in Ids /\ RowOK(watches[w])
  BY DEF StoreOK, Rows
<1>2. watches' = [watches EXCEPT ![w] = x]
  BY <1>1
<1>3. /\ DOMAIN x = DOMAIN watches[w]
      /\ x.channels = [watches[w].channels EXCEPT ![c] = b]
      /\ x.filter_key = watches[w].filter_key /\ x.movie = watches[w].movie
      /\ x.cinemas = watches[w].cinemas
  BY <1>1 DEF RowOK, Fields
<1> HIDE DEF x
<1>4. RowOK(x)
  BY <1>1, <1>3 DEF RowOK
<1> QED
  BY <1>2, <1>3, <1>4, RowChanges

\* set_watch_channel and bind_watch_channel.
LEMMA ChannelInv ==
  ASSUME Inv, NEW h \in Handlers, SetWatchChannel(h) \/ BindWatchChannel(h),
         overlapped' = overlapped \cup Overlap'
  PROVE  Inv'
<1>0. op[h].at \in Busy /\ op[h].at = "jobs" /\ UNCHANGED drawn /\ (Fail(h) \/ Done(h))
  BY DEF SetWatchChannel, BindWatchChannel, Busy
<1>1. CASE UNCHANGED watches
  BY <1>0, <1>1, JobEnds, RowsAlone DEF Inv
<1>2. ASSUME Exists(op[h].id), NEW c, NEW b,
             c \in Range(Channels) => {"on", "stored", "own"} \subseteq DOMAIN b /\ (b.own => b.stored),
             watches' = [watches EXCEPT ![op[h].id].channels[c] = b]
      PROVE  Inv'
  <2>1. op[h].id \in Rows
    BY <1>0, <1>2 DEF Inv, StoreOK, OpOK, Rows
  <2> QED
    BY <1>0, <1>2, <2>1, BindingChanges, JobEnds DEF Inv
<1>3. CASE SetWatchChannel(h) /\ Exists(op[h].id)
  <2> DEFINE c == Job(h).channel
             b == Turned(watches[op[h].id].channels[c], Job(h).on)
  <2>1. op[h].id \in Rows
    BY <1>0, <1>3 DEF Inv, StoreOK, OpOK, Rows
  <2>2. c \in Range(Channels) => {"on", "stored", "own"} \subseteq DOMAIN b /\ (b.own => b.stored)
    BY <2>1 DEF Inv, StoreOK, RowOK, Turned
  <2>3. watches' = [watches EXCEPT ![op[h].id].channels[c] = b]
    BY <1>3 DEF SetWatchChannel
  <2> HIDE DEF c, b
  <2> QED
    BY <1>2, <1>3, <2>2, <2>3
<1>4. CASE BindWatchChannel(h) /\ Exists(op[h].id)
  <2> DEFINE c == Job(h).channel
             b == [on |-> TRUE, stored |-> TRUE, own |-> TRUE]
  <2>3. watches' = [watches EXCEPT ![op[h].id].channels[c] = b]
    BY <1>4 DEF BindWatchChannel
  <2>2. {"on", "stored", "own"} \subseteq DOMAIN b /\ (b.own => b.stored)
    OBVIOUS
  <2> HIDE DEF c, b
  <2> QED
    BY <1>2, <1>4, <2>2, <2>3
<1> QED
  BY <1>1, <1>3, <1>4 DEF SetWatchChannel, BindWatchChannel

\* Reading what there is, of a creation and of an edit.
LEMMA ReadInv ==
  ASSUME Inv, NEW h \in Handlers,
         FindExisting(h) \/ ReadRow(h) \/ ReadCinemas(h) \/ LookForTarget(h),
         overlapped' = overlapped \cup Overlap'
  PROVE  Inv'
<1>0. UNCHANGED <<watches, drawn>> /\ OpOK(op[h]) /\ Fresh(op[h])
  BY DEF FindExisting, ReadRow, ReadCinemas, LookForTarget, Inv, StoreOK, AllFresh
<1>k. KeysStay
  BY <1>0, RowsAlone DEF Inv
<1>o. ASSUME NEW o, op' = [op EXCEPT ![h] = o], OpOK(o), Fresh(o) PROVE Inv'
  BY <1>0, <1>k, <1>o, KeysStayInv
<1>1. CASE FindExisting(h)
  <2> DEFINE found == WithKey(Key(op[h].spec.movie, op[h].spec.cinemas))
  <2>1. CASE found = {}
    <3> DEFINE o == [op[h] EXCEPT !.at = "insert"]
    <3>1. op' = [op EXCEPT ![h] = o]
      BY <1>1, <2>1 DEF FindExisting, Inv, StoreOK
    <3>2. o.at = "insert" /\ "at" \in DOMAIN o
      BY <1>0 DEF OpOK
    <3>3. OpOK(o) /\ Fresh(o)
      BY <3>2 DEF OpOK, Fresh, Busy
    <3> HIDE DEF o
    <3> QED
      BY <3>1, <3>3, <1>o
  <2>2. CASE found # {}
    <3> DEFINE o == [at |-> "reuse", id |-> CHOOSE w \in found : TRUE, spec |-> op[h].spec]
    <3>1. op' = [op EXCEPT ![h] = o]
      BY <1>1, <2>2 DEF FindExisting, Inv, StoreOK
    <3>2. (CHOOSE w \in found : TRUE) \in drawn
      BY <2>2 DEF WithKey, Inv, StoreOK
    <3>3. OpOK(o) /\ Fresh(o)
      BY <3>2 DEF OpOK, Fresh, Busy
    <3> HIDE DEF o
    <3> QED
      BY <3>1, <3>3, <1>o
  <2> QED
    BY <2>1, <2>2
<1>2. CASE ReadRow(h)
  <2>0. op[h].at = "jobs" /\ op[h].at \in Busy
    BY <1>2 DEF ReadRow, Busy
  <2>1. CASE Fail(h)
    BY <1>0, <1>k, <2>0, <2>1, JobEnds
  <2>2. CASE ~Fail(h)
    <3> DEFINE row == watches[op[h].id]
               o == [at |-> "cinemas", id |-> op[h].id, jobs |-> op[h].jobs,
                     old |-> [movie |-> row.movie, enabled |-> row.enabled,
                              filter_key |-> row.filter_key]]
    <3>1. op' = [op EXCEPT ![h] = o]
      BY <1>2, <2>2 DEF ReadRow, Inv, StoreOK
    <3>2. op[h].id \in drawn
      BY <1>0, <2>0 DEF OpOK
    <3>3. OpOK(o) /\ Fresh(o)
      BY <3>2 DEF OpOK, Fresh, Busy
    <3> HIDE DEF o
    <3> QED
      BY <3>1, <3>3, <1>o
  <2> QED
    BY <2>1, <2>2
<1>3. CASE ReadCinemas(h)
  <2> DEFINE cinemas == IF Exists(op[h].id) THEN watches[op[h].id].cinemas ELSE {}
             new == Wanted(Job(h).patch, op[h].old, cinemas)
             changed == FilterChanged(new, op[h].old)
             o == [at |-> IF changed THEN "target" ELSE "write", id |-> op[h].id,
                   jobs |-> op[h].jobs, new |-> new, changed |-> changed]
  <2>1. op' = [op EXCEPT ![h] = o] /\ op[h].at = "cinemas"
    BY <1>3 DEF ReadCinemas, Inv, StoreOK
  <2>2. op[h].id \in drawn
    BY <1>0, <2>1 DEF OpOK, Busy
  <2>3. op[h].id \in Rows \ overlapped => op[h].old.filter_key = watches[op[h].id].filter_key
    BY <1>0, <2>1 DEF Fresh, Busy
  <2>4. ~changed => Key(new.movie, new.cinemas) = op[h].old.filter_key
    BY DEF FilterChanged
  <2>5. /\ "at" \in DOMAIN o /\ "id" \in DOMAIN o /\ {"new", "changed"} \subseteq DOMAIN o
        /\ o.id = op[h].id /\ o.new = new /\ o.changed = changed
        /\ o.at = IF changed THEN "target" ELSE "write"
    OBVIOUS
  <2> HIDE DEF o, changed, new
  <2>6. OpOK(o)
    BY <2>2, <2>5 DEF OpOK
  <2>7. Fresh(o)
    BY <2>3, <2>4, <2>5 DEF Fresh
  <2> QED
    BY <2>1, <2>6, <2>7, <1>o
<1>4. CASE LookForTarget(h)
  <2> DEFINE found == WithKey(Key(op[h].new.movie, op[h].new.cinemas)) \ {op[h].id}
  <2>0. op[h].at = "target" /\ op[h].id \in drawn
    BY <1>0, <1>4 DEF LookForTarget, OpOK, Busy
  <2>1. CASE found = {}
    <3> DEFINE o == [op[h] EXCEPT !.at = "write"]
    <3>1. op' = [op EXCEPT ![h] = o]
      BY <1>4, <2>1 DEF LookForTarget, Inv, StoreOK
    <3>2. /\ DOMAIN o = DOMAIN op[h] /\ {"at", "id", "new", "changed"} \subseteq DOMAIN op[h]
          /\ o.at = "write" /\ o.id = op[h].id /\ o.changed = op[h].changed
      BY <1>0, <2>0 DEF OpOK, Busy
    <3> HIDE DEF o
    <3>3. OpOK(o) /\ Fresh(o)
      BY <1>0, <2>0, <3>2 DEF OpOK, Fresh, Busy
    <3> QED
      BY <3>1, <3>3, <1>o
  <2>2. CASE found # {}
    <3> DEFINE o == [at |-> "merge", id |-> op[h].id, jobs |-> op[h].jobs,
                     into |-> CHOOSE w \in found : TRUE]
    <3>1. op' = [op EXCEPT ![h] = o]
      BY <1>4, <2>2 DEF LookForTarget, Inv, StoreOK
    <3>2. /\ (CHOOSE w \in found : TRUE) \in Ids
          /\ (CHOOSE w \in found : TRUE) # op[h].id
      BY <2>2 DEF WithKey, Rows
    <3>3. OpOK(o) /\ Fresh(o)
      BY <2>0, <3>2 DEF OpOK, Fresh, Busy
    <3> HIDE DEF o
    <3> QED
      BY <3>1, <3>3, <1>o
  <2> QED
    BY <2>1, <2>2
<1> QED
  BY <1>1, <1>2, <1>3, <1>4

\* Turning a flag of the row.
LEMMA FlagInv ==
  ASSUME Inv, NEW h \in Handlers, Reuse(h) \/ SetWatchEnabled(h),
         overlapped' = overlapped \cup Overlap'
  PROVE  Inv'
<1>0. op[h].at \in Busy /\ op[h].id \in drawn /\ UNCHANGED drawn
  BY DEF Reuse, SetWatchEnabled, Busy, Inv, StoreOK, OpOK
<1>1. PICK o : op' = [op EXCEPT ![h] = o] /\ OpOK(o) /\ Fresh(o)
  <2>1. CASE Reuse(h)
    BY <1>0, <2>1, RestOK DEF Reuse, Inv, StoreOK
  <2>2. CASE SetWatchEnabled(h)
    BY <1>0, <2>2, RestOK DEF SetWatchEnabled
  <2> QED
    BY <2>1, <2>2
<1>2. KeysStay
  <2>1. CASE UNCHANGED watches
    BY <2>1, RowsAlone DEF Inv
  <2>2. ASSUME NEW w \in Rows, NEW x, NEW f \in {"enabled", "auto_lock"},
               x = [watches[w] EXCEPT ![f] = x[f]], watches' = [watches EXCEPT ![w] = x]
        PROVE  KeysStay
    <3>1. RowOK(watches[w])
      BY DEF Inv, StoreOK
    <3>2. /\ DOMAIN x = DOMAIN watches[w] /\ x.channels = watches[w].channels
          /\ x.filter_key = watches[w].filter_key /\ x.movie = watches[w].movie
          /\ x.cinemas = watches[w].cinemas
      BY <2>2, <3>1 DEF RowOK, Fields
    <3>3. RowOK(x)
      BY <3>1, <3>2 DEF RowOK
    <3> QED
      BY <2>2, <3>2, <3>3, RowChanges DEF Inv
  <2>3. CASE Reuse(h) /\ watches' # watches
    <3> DEFINE x == [watches[op[h].id] EXCEPT !.auto_lock = TRUE]
    <3>1. op[h].id \in Rows /\ watches' = [watches EXCEPT ![op[h].id].auto_lock = TRUE]
      BY <1>0, <2>3 DEF Reuse, Rows, Inv, StoreOK
    <3>2. watches' = [watches EXCEPT ![op[h].id] = x] /\ x = [watches[op[h].id] EXCEPT !["auto_lock"] = x["auto_lock"]]
      BY <3>1 DEF Inv, StoreOK, RowOK, Fields
    <3> HIDE DEF x
    <3> QED
      BY <3>1, <3>2, <2>2
  <2>4. CASE SetWatchEnabled(h) /\ watches' # watches
    <3> DEFINE x == [watches[op[h].id] EXCEPT !.enabled = op[h].enabled]
    <3>1. op[h].id \in Rows /\ watches' = [watches EXCEPT ![op[h].id].enabled = op[h].enabled]
      BY <1>0, <2>4 DEF SetWatchEnabled, Rows, Inv, StoreOK
    <3>2. watches' = [watches EXCEPT ![op[h].id] = x] /\ x = [watches[op[h].id] EXCEPT !["enabled"] = x["enabled"]]
      BY <3>1 DEF Inv, StoreOK, RowOK, Fields
    <3> HIDE DEF x
    <3> QED
      BY <3>1, <3>2, <2>2
  <2> QED
    BY <2>1, <2>3, <2>4
<1> QED
  BY <1>0, <1>1, <1>2, KeysStayInv

\* A merge deletes a row and adds to the columns of another.
LEMMA MergeInv ==
  ASSUME Inv, NEW h \in Handlers, MergeWatchInto(h), overlapped' = overlapped \cup Overlap'
  PROVE  Inv'
<1> DEFINE from == op[h].id
           to == op[h].into
<1>0. /\ op[h].at = "merge" /\ op[h].at \in Busy /\ UNCHANGED drawn
      /\ from \in drawn /\ to \in Ids /\ to # from /\ (Fail(h) \/ Done(h))
  BY DEF MergeWatchInto, Busy, Inv, StoreOK, OpOK
<1>1. KeysStay
  <2>1. CASE UNCHANGED watches
    BY <2>1, RowsAlone DEF Inv
  <2>2. CASE watches' = [watches EXCEPT ![from] = None]
    BY <2>2, RowGoes DEF Inv
  <2>3. CASE /\ Exists(from) /\ Exists(to)
             /\ watches' = [watches EXCEPT
                  ![to].users = MergedUsers(watches[from].users, @),
                  ![to].channels = MergedChannels(watches[from].channels, @),
                  ![from] = None]
    <3> DEFINE channels == MergedChannels(watches[from].channels, watches[to].channels)
               x == [watches[to] EXCEPT !.users = MergedUsers(watches[from].users, @),
                                        !.channels = channels]
    <3>1. RowOK(watches[from]) /\ RowOK(watches[to]) /\ from \in Ids
      BY <1>0, <2>3 DEF Inv, StoreOK, Rows
    <3>2. watches' = [watches EXCEPT ![to] = x, ![from] = None]
      BY <1>0, <2>3, <3>1 DEF RowOK, Fields, Inv, StoreOK
    <3>3. /\ DOMAIN x = DOMAIN watches[to] /\ x.channels = channels
          /\ x.filter_key = watches[to].filter_key /\ x.movie = watches[to].movie
          /\ x.cinemas = watches[to].cinemas
      BY <3>1 DEF RowOK, Fields
    <3>4. /\ DOMAIN channels = Range(Channels)
          /\ \A c \in Range(Channels) : /\ {"on", "stored", "own"} \subseteq DOMAIN channels[c]
                                        /\ channels[c].own => channels[c].stored
      BY <3>1 DEF MergedChannels, RowOK
    <3> HIDE DEF x, channels
    <3>5. RowOK(x)
      BY <3>1, <3>3, <3>4 DEF RowOK
    <3>6. /\ DOMAIN watches' = Ids /\ watches'[from] = None /\ watches'[to] = x
          /\ \A w \in Ids \ {from, to} : watches'[w] = watches[w]
      BY <1>0, <3>1, <3>2 DEF Inv, StoreOK
    <3> QED
      BY <1>0, <2>3, <3>3, <3>5, <3>6 DEF KeysStay, Rows, Exists, Inv, StoreOK
  <2> QED
    BY <2>1, <2>2, <2>3 DEF MergeWatchInto
<1> QED
  BY <1>0, <1>1, JobEnds

-----------------------------------------------------------------------------
(* Steps that set a key.                                                   *)

\* An insert adds a row under a key nobody has, with an id nobody works on.
LEMMA InsertInv ==
  ASSUME Inv, NEW h \in Handlers, Insert(h), overlapped' = overlapped \cup Overlap'
  PROVE  Inv'
<1> DEFINE spec == op[h].spec
           key == Key(spec.movie, spec.cinemas)
<1>1. CASE WithKey(key) # {}
  <2>1. op' = [op EXCEPT ![h] = Idle] /\ UNCHANGED <<watches, drawn>>
    BY <1>1 DEF Insert
  <2>2. OpOK(Idle) /\ Fresh(Idle)
    BY DEF OpOK, Fresh, Idle, Busy
  <2> QED
    BY <2>1, <2>2, RowsAlone, KeysStayInv DEF Inv
<1>2. CASE WithKey(key) = {}
  <2> DEFINE row == NewRow(spec.movie, spec.cinemas, spec.auto_lock)
  <2>1. PICK w \in Ids \ drawn :
          /\ watches' = [watches EXCEPT ![w] = row]
          /\ drawn' = drawn \cup {w}
          /\ op' = [op EXCEPT ![h] = Working(w, Follow(spec))]
    BY <1>2 DEF Insert
  <2>2. /\ RowOK(row) /\ row # None /\ row.filter_key = key
        /\ row.movie = spec.movie /\ row.cinemas = spec.cinemas
    <3>1. Fields \subseteq DOMAIN row /\ row.filter_key = key
          /\ row.movie = spec.movie /\ row.cinemas = spec.cinemas
          /\ row.channels = [c \in Range(Channels) |-> Unbound]
      BY DEF NewRow, Fields
    <3> HIDE DEF row
    <3>2. RowOK(row)
      BY <3>1 DEF RowOK, Unbound
    <3> QED
      BY <3>1, <3>2, RowsExist
  <2> HIDE DEF row
  <2>3. /\ DOMAIN watches' = Ids /\ watches'[w] = row
        /\ \A v \in Ids \ {w} : watches'[v] = watches[v]
        /\ w \notin Rows /\ Rows' = Rows \cup {w}
    BY <2>1, <2>2 DEF Inv, StoreOK, Rows, Exists
  <2>o. PICK o : o = Working(w, Follow(spec))
    OBVIOUS
  <2>4. /\ DOMAIN op' = Handlers /\ op'[h] = o
        /\ \A g \in Handlers \ {h} : op'[g] = op[g]
    BY <2>1, <2>o DEF Inv, StoreOK
  <2>5. OpOK(o)' /\ Fresh(o)'
    <3>1. "at" \in DOMAIN o /\ (o.at = "idle" \/ (o.at = "jobs" /\ "id" \in DOMAIN o /\ o.id = w))
      BY <2>o DEF Working, Idle
    <3> QED
      BY <2>1, <3>1 DEF OpOK, Fresh, Busy
  <2>6. StoreOK'
    <3>1. \A g \in Handlers : OpOK(op[g])'
      BY <2>1, <2>4, <2>5 DEF Inv, StoreOK, OpOK
    <3>2. \A v \in Rows' : RowOK(watches[v])'
      BY <2>2, <2>3 DEF Inv, StoreOK, RowOK, Rows
    <3> QED
      BY <2>1, <2>3, <2>4, <3>1, <3>2 DEF Inv, StoreOK
  <2>7. OneRowPerKey'
    BY <1>2, <2>2, <2>3 DEF Inv, OneRowPerKey, WithKey, Rows
  <2>8. KeyNamesFilter'
    BY <2>2, <2>3 DEF Inv, KeyNamesFilter, Rows
  <2>9. ASSUME NEW g \in Handlers \ {h} PROVE Fresh(op[g])'
    <3>1. op[g].at \in Busy => op[g].id # w
      BY <2>1 DEF Inv, StoreOK, OpOK
    <3>2. Fresh(op[g])
      BY DEF Inv, AllFresh
    <3> QED
      BY <2>3, <2>4, <3>1, <3>2 DEF Fresh, Rows
  <2> QED
    BY <2>4, <2>5, <2>6, <2>7, <2>8, <2>9 DEF Inv, AllFresh
<1> QED
  BY <1>1, <1>2

\* It has its form, and its key is the old one unless the edit knows that it changes the filter.
LEMMA WrittenOK ==
  ASSUME Inv, NEW h \in Handlers, op[h].at = "write", op[h].id \in Rows
  PROVE  LET w == op[h].id
             r == Written(watches[w], op[h].new, op[h].changed, Job(h).patch.auto_lock)
         IN  /\ RowOK(r) /\ r.filter_key = Key(op[h].new.movie, op[h].new.cinemas)
             /\ r.users = watches[w].users /\ r.channels = watches[w].channels
             /\ op[h].changed => ~r.known
             /\ w \notin overlapped => r.filter_key = Key(r.movie, r.cinemas)
             /\ w \notin overlapped /\ ~op[h].changed => r.filter_key = watches[w].filter_key
<1> DEFINE w == op[h].id
           r == Written(watches[w], op[h].new, op[h].changed, Job(h).patch.auto_lock)
<1>1. RowOK(watches[w])
  BY DEF Inv, StoreOK
<1>2. /\ DOMAIN r = DOMAIN watches[w] /\ r.channels = watches[w].channels /\ r.users = watches[w].users
      /\ r.movie = op[h].new.movie /\ r.filter_key = Key(op[h].new.movie, op[h].new.cinemas)
      /\ r.cinemas = IF op[h].changed THEN op[h].new.cinemas ELSE watches[w].cinemas
      /\ op[h].changed => ~r.known
  BY <1>1 DEF RowOK, Fields, Written
<1> HIDE DEF r
<1>3. RowOK(r)
  BY <1>1, <1>2 DEF RowOK
<1>4. w \notin overlapped /\ ~op[h].changed => r.filter_key = watches[w].filter_key
  BY <1>2 DEF Inv, AllFresh, Fresh, Busy
<1>5. w \notin overlapped => watches[w].filter_key = Key(watches[w].movie, watches[w].cinemas)
  BY DEF Inv, KeyNamesFilter
<1>6. w \notin overlapped => r.filter_key = Key(r.movie, r.cinemas)
  BY <1>2, <1>4, <1>5 DEF Key
<1> QED
  BY <1>2, <1>3, <1>4, <1>6 DEF r

\* The transaction of an edit.
LEMMA WriteInv ==
  ASSUME Inv, NEW h \in Handlers, WriteRow(h), overlapped' = overlapped \cup Overlap'
  PROVE  Inv'
<1> DEFINE w == op[h].id
           key == Key(op[h].new.movie, op[h].new.cinemas)
           row == Written(watches[w], op[h].new, op[h].changed, Job(h).patch.auto_lock)
<1>0. op[h].at = "write" /\ op[h].at \in Busy /\ UNCHANGED drawn /\ w \in drawn
  BY DEF WriteRow, Busy, Inv, StoreOK, OpOK
<1>w. PICK o : op' = [op EXCEPT ![h] = o] /\ OpOK(o) /\ Fresh(o)
  BY <1>0, RestOK DEF WriteRow, Fail
<1>1. CASE UNCHANGED watches
  BY <1>0, <1>w, <1>1, RowsAlone, KeysStayInv DEF Inv
<1>2. CASE watches' # watches
  <2>1. /\ w \in Rows /\ WithKey(key) \subseteq {w}
        /\ watches' = [watches EXCEPT ![w] = row]
    <3>1. w \in Rows /\ WithKey(key) \subseteq {w}
      BY <1>0, <1>2 DEF WriteRow, Inv, StoreOK, Rows
    <3>2. watches' = [watches EXCEPT ![w] = row]
      BY <1>2 DEF WriteRow
    <3> QED
      BY <3>1, <3>2
  <2>2. /\ RowOK(row) /\ row.filter_key = key /\ row # None
        /\ w \notin overlapped => row.filter_key = Key(row.movie, row.cinemas)
    <3>1. RowOK(row)
      BY <1>0, <2>1, WrittenOK
    <3>2. row # None
      BY <3>1, RowsExist DEF RowOK
    <3> QED
      BY <1>0, <2>1, <3>1, <3>2, WrittenOK
  <2> HIDE DEF row
  <2>3. /\ DOMAIN watches' = Ids /\ watches'[w] = row /\ Rows' = Rows
        /\ \A v \in Ids \ {w} : watches'[v] = watches[v]
    BY <2>1, <2>2 DEF Inv, StoreOK, Rows, Exists
  <2>4. /\ DOMAIN op' = Handlers /\ op'[h] = o
        /\ \A g \in Handlers \ {h} : op'[g] = op[g]
    BY <1>w DEF Inv, StoreOK
  <2>5. StoreOK'
    <3>1. \A g \in Handlers : OpOK(op[g])'
      BY <1>0, <1>w, <2>4 DEF Inv, StoreOK, OpOK
    <3>2. \A v \in Rows' : RowOK(watches[v])'
      BY <2>2, <2>3 DEF Inv, StoreOK, RowOK, Rows
    <3> QED
      BY <1>0, <2>3, <2>4, <3>1, <3>2 DEF Inv, StoreOK
  <2>6. OneRowPerKey'
    BY <2>1, <2>2, <2>3 DEF Inv, OneRowPerKey, WithKey, Rows
  <2>7. KeyNamesFilter'
    BY <2>2, <2>3 DEF Inv, KeyNamesFilter, Rows
  <2>8. ASSUME NEW g \in Handlers \ {h} PROVE Fresh(op[g])'
    <3>1. op[g].at \in Busy /\ op[g].id = w => w \in overlapped
      <4>1. ASSUME NEW q \in Handlers, op[q].at \in Busy, op[q].id = w PROVE WorksOn(q, w)
        BY <4>1 DEF WorksOn, Idle, Busy, Inv, StoreOK, OpOK
      <4> QED
        BY <1>0, <2>1, <4>1 DEF Overlap, Inv, StoreOK, Rows
    <3>2. Fresh(op[g])
      BY DEF Inv, AllFresh
    <3> QED
      BY <2>3, <2>4, <3>1, <3>2 DEF Fresh, Rows
  <2>9. Fresh(o)'
    <3>1. o = Idle \/ o.at = "jobs"
      BY <1>0, <1>w DEF WriteRow, Fail, Working, Inv, StoreOK
    <3> QED
      BY <3>1 DEF Fresh, Idle, Busy
  <2> QED
    BY <2>4, <2>5, <2>6, <2>7, <2>8, <2>9 DEF Inv, AllFresh
<1> QED
  BY <1>1, <1>2

-----------------------------------------------------------------------------
(* Single statements, and all steps.                                       *)

\* Deleting, subscribing, storing a baseline.
LEMMA StatementInv ==
  ASSUME Inv, NEW w \in Ids, DeleteWatch(w) \/ SaveState(w) \/ (\E u \in Users : Subscribe(u, w)),
         overlapped' = overlapped \cup Overlap'
  PROVE  Inv'
<1>0. UNCHANGED <<drawn, op>> /\ w \in Rows /\ RowOK(watches[w])
  BY DEF DeleteWatch, SaveState, Subscribe, Rows, Inv, StoreOK
<1>1. CASE DeleteWatch(w)
  BY <1>0, <1>1, RowGoes, OtherKeysStayInv DEF DeleteWatch, Inv
<1>2. CASE SaveState(w)
  <2> DEFINE x == [watches[w] EXCEPT !.known = TRUE]
  <2>1. watches' = [watches EXCEPT ![w] = x]
    BY <1>2 DEF SaveState, Inv, StoreOK
  <2>2. /\ DOMAIN x = DOMAIN watches[w] /\ x.channels = watches[w].channels
        /\ x.filter_key = watches[w].filter_key /\ x.movie = watches[w].movie
        /\ x.cinemas = watches[w].cinemas
    BY <1>0 DEF RowOK, Fields
  <2> HIDE DEF x
  <2>3. RowOK(x)
    BY <1>0, <2>2 DEF RowOK
  <2> QED
    BY <1>0, <2>1, <2>2, <2>3, RowChanges, OtherKeysStayInv DEF Inv
<1>3. ASSUME NEW u \in Users, Subscribe(u, w) PROVE Inv'
  <2> DEFINE x == [watches[w] EXCEPT !.users = @ \cup {u}]
  <2>1. watches' = [watches EXCEPT ![w] = x]
    BY <1>3 DEF Subscribe, Inv, StoreOK
  <2>2. /\ DOMAIN x = DOMAIN watches[w] /\ x.channels = watches[w].channels
        /\ x.filter_key = watches[w].filter_key /\ x.movie = watches[w].movie
        /\ x.cinemas = watches[w].cinemas
    BY <1>0 DEF RowOK, Fields
  <2> HIDE DEF x
  <2>3. RowOK(x)
    BY <1>0, <2>2 DEF RowOK
  <2> QED
    BY <1>0, <2>1, <2>2, <2>3, RowChanges, OtherKeysStayInv DEF Inv
<1> QED
  BY <1>1, <1>2, <1>3

\* A handler whose statement fails, or which is dropped.
LEMMA FaultInv ==
  ASSUME Inv, NEW h \in Handlers, Fault(h), overlapped' = overlapped \cup Overlap'
  PROVE  Inv'
<1>0. UNCHANGED <<watches, drawn>> /\ OpOK(op[h])
  BY DEF Fault, Inv, StoreOK
<1>k. KeysStay
  BY <1>0, RowsAlone DEF Inv
<1>1. CASE op' = [op EXCEPT ![h] = Idle]
  <2>1. OpOK(Idle) /\ Fresh(Idle)
    BY DEF OpOK, Fresh, Idle, Busy
  <2> QED
    BY <1>0, <1>1, <1>k, <2>1, KeysStayInv
<1>2. CASE op[h].at = "reuse" /\ op' = [op EXCEPT ![h] = Working(@.id, Follow(@.spec))]
  <2>1. PICK jobs : jobs = Follow(op[h].spec)
    OBVIOUS
  <2>2. op[h].id \in drawn
    BY <1>0, <1>2 DEF OpOK, Busy
  <2>3. op' = [op EXCEPT ![h] = Working(op[h].id, jobs)]
    BY <1>2, <2>1 DEF Inv, StoreOK
  <2> QED
    BY <1>0, <1>k, <2>2, <2>3, RestOK, KeysStayInv
<1>3. CASE op[h].at \in {"jobs", "cinemas", "target", "merge", "write"} /\ Fail(h)
  BY <1>0, <1>3, <1>k, JobEnds DEF Busy
<1> QED
  BY <1>1, <1>2, <1>3 DEF Fault, StatementFails, CutOff

\* The invariant holds initially.
LEMMA InitInv == Init => Inv
<1> SUFFICES ASSUME Init PROVE Inv
  OBVIOUS
<1>1. Rows = {} /\ \A h \in Handlers : op[h] = Idle
  BY DEF Init, Rows, Exists
<1>2. OpOK(Idle) /\ Fresh(Idle)
  BY DEF OpOK, Fresh, Idle, Busy
<1>3. Overlap = {}
  BY <1>1 DEF Overlap, WorksOn
<1> QED
  BY <1>1, <1>2, <1>3 DEF Init, Inv, StoreOK, OneRowPerKey, AllFresh, KeyNamesFilter

\* Every step keeps it.
LEMMA StepInv == Inv /\ [Next]_vars => Inv'
<1> SUFFICES ASSUME Inv, [Next]_vars PROVE Inv'
  OBVIOUS
<1>1. CASE UNCHANGED vars
  BY <1>1 DEF vars, Inv, StoreOK, OneRowPerKey, AllFresh, KeyNamesFilter, Rows, Exists, RowOK, OpOK,
              Fresh, Overlap, WorksOn
<1>2. ASSUME NEW h \in Handlers, Request(h) \/ Proceed(h), overlapped' = overlapped \cup Overlap'
      PROVE  Inv'
  BY <1>2, RequestInv, ReadInv, FlagInv, MergeInv, InsertInv, WriteInv, ChannelInv DEF Proceed
<1> QED
  BY <1>1, <1>2, StatementInv, FaultInv DEF Next, Ordinary

\* The invariant holds throughout.
LEMMA Invariant == Spec => []Inv
  BY InitInv, StepInv, PTL DEF Spec

-----------------------------------------------------------------------------
(* Theorems.                                                               *)

\* No two rows share a filter_key, however creations, edits and merges race (db.rs:635).
THEOREM KeysAreUnique == Spec => []OneRowPerKey
<1>1. Inv => OneRowPerKey
  BY DEF Inv
<1> QED
  BY <1>1, Invariant, PTL

\* The key of a watch names what is polled for it, short of two edits at once (db.rs:707).
THEOREM KeysNameFilters == Spec => []KeyNamesFilter
<1>1. Inv => KeyNamesFilter
  BY DEF Inv
<1> QED
  BY <1>1, Invariant, PTL

-----------------------------------------------------------------------------
(* What a step keeps of a row.                                             *)

\* What row r inherits from row q of the same watch w.
Inherits(w, q, r) ==
  /\ q.users \subseteq r.users
  /\ \A c \in Range(Channels) : q.channels[c].own => r.channels[c].own
  /\ w \notin overlapped /\ r.filter_key # q.filter_key => ~r.known

\* A handler merges watch w into one that has all its subscribers then.
HandedOn(w) ==
  \E h \in Handlers : /\ op[h].at = "merge" /\ op[h].id = w
                      /\ op[h].into \in Rows' /\ watches[w].users \subseteq watches'[op[h].into].users

\* A row that stays inherits from itself; the subscribers of one that goes in the course of a
\* handler's work are on the one it is merged into.
RowKept(w) ==
  /\ w \in Rows' => Inherits(w, watches[w], watches'[w])
  /\ w \notin Rows' => op' = op \/ watches[w].users = {} \/ HandedOn(w)

AllKept == \A w \in Rows : RowKept(w)

\* A step that leaves the rows alone.
LEMMA NothingLost ==
  ASSUME UNCHANGED watches
  PROVE  AllKept
  BY DEF AllKept, RowKept, Inherits, Rows, Exists

\* A step that writes a row.
LEMMA OneRowWritten ==
  ASSUME StoreOK, NEW w \in Ids, NEW r, r # None, watches' = [watches EXCEPT ![w] = r],
         w \in Rows => Inherits(w, watches[w], r)
  PROVE  AllKept
<1>1. watches'[w] = r /\ \A v \in Ids \ {w} : watches'[v] = watches[v]
  BY DEF StoreOK
<1> QED
  BY <1>1 DEF AllKept, RowKept, Inherits, Rows, Exists

\* A step that writes columns of a row.
LEMMA RowInherits ==
  ASSUME Inv, NEW w \in Rows, NEW r, watches' = [watches EXCEPT ![w] = r],
         DOMAIN r = DOMAIN watches[w], Inherits(w, watches[w], r)
  PROVE  AllKept
<1>1. StoreOK /\ RowOK(watches[w]) /\ w \in Ids
  BY DEF Inv, StoreOK, Rows
<1> QED
  BY <1>1, RowsExist, OneRowWritten DEF RowOK

\* Flags and bindings.
LEMMA ColumnsKept ==
  ASSUME Inv, NEW h \in Handlers,
         Reuse(h) \/ SetWatchEnabled(h) \/ SetWatchChannel(h) \/ BindWatchChannel(h)
  PROVE  AllKept
<1>0. StoreOK /\ \A w \in Rows : RowOK(watches[w]) /\ w \in Ids
  BY DEF Inv, StoreOK, Rows
<1>w. op[h].at \in Busy /\ Exists(op[h].id) => op[h].id \in Rows
  BY DEF Inv, StoreOK, OpOK, Rows
<1>1. CASE UNCHANGED watches
  BY <1>1, NothingLost
<1>c. ASSUME op[h].id \in Rows, NEW c, NEW b,
             c \in Range(Channels) => (watches[op[h].id].channels[c].own => b.own),
             watches' = [watches EXCEPT ![op[h].id].channels[c] = b]
      PROVE  AllKept
  <2> DEFINE w == op[h].id
             r == [watches[w] EXCEPT !.channels = [watches[w].channels EXCEPT ![c] = b]]
  <2>1. watches' = [watches EXCEPT ![w] = r]
    BY <1>c
  <2>2. /\ DOMAIN r = DOMAIN watches[w] /\ r.users = watches[w].users
        /\ r.filter_key = watches[w].filter_key
        /\ r.channels = [watches[w].channels EXCEPT ![c] = b]
    BY <1>0, <1>c DEF RowOK, Fields
  <2> HIDE DEF r
  <2>3. Inherits(w, watches[w], r)
    BY <1>0, <1>c, <2>2 DEF Inherits, RowOK
  <2> QED
    BY <1>c, RowInherits, <2>1, <2>2, <2>3
<1>2. CASE SetWatchChannel(h) /\ Exists(op[h].id)
  <2> DEFINE c == Job(h).channel
             b == Turned(watches[op[h].id].channels[c], Job(h).on)
  <2>1. op[h].id \in Rows
    BY <1>2, <1>w DEF SetWatchChannel, Busy
  <2>2. watches' = [watches EXCEPT ![op[h].id].channels[c] = b]
    BY <1>2 DEF SetWatchChannel
  <2>3. c \in Range(Channels) => (watches[op[h].id].channels[c].own => b.own)
    BY <1>0, <2>1 DEF Turned, RowOK
  <2> HIDE DEF c, b
  <2> QED
    BY <1>c, <2>1, <2>2, <2>3
<1>3. CASE BindWatchChannel(h) /\ Exists(op[h].id)
  <2> DEFINE c == Job(h).channel
             b == [on |-> TRUE, stored |-> TRUE, own |-> TRUE]
  <2>1. op[h].id \in Rows
    BY <1>3, <1>w DEF BindWatchChannel, Busy
  <2>2. watches' = [watches EXCEPT ![op[h].id].channels[c] = b] /\ b.own
    BY <1>3 DEF BindWatchChannel
  <2> HIDE DEF c, b
  <2> QED
    BY <1>c, <2>1, <2>2
<1>4. CASE Reuse(h) /\ watches' # watches
  <2> DEFINE r == [watches[op[h].id] EXCEPT !.auto_lock = TRUE]
  <2>1. op[h].id \in Rows /\ watches' = [watches EXCEPT ![op[h].id] = r]
    BY <1>4, <1>w DEF Reuse, Busy
  <2>2. DOMAIN r = DOMAIN watches[op[h].id] /\ Inherits(op[h].id, watches[op[h].id], r)
    BY <1>0, <2>1 DEF Inherits, RowOK, Fields
  <2> HIDE DEF r
  <2> QED
    BY RowInherits, <2>1, <2>2
<1>5. CASE SetWatchEnabled(h) /\ watches' # watches
  <2> DEFINE r == [watches[op[h].id] EXCEPT !.enabled = op[h].enabled]
  <2>1. op[h].id \in Rows /\ watches' = [watches EXCEPT ![op[h].id] = r]
    BY <1>5, <1>w DEF SetWatchEnabled, Busy
  <2>2. DOMAIN r = DOMAIN watches[op[h].id] /\ Inherits(op[h].id, watches[op[h].id], r)
    BY <1>0, <2>1 DEF Inherits, RowOK, Fields
  <2> HIDE DEF r
  <2> QED
    BY RowInherits, <2>1, <2>2
<1> QED
  BY <1>1, <1>2, <1>3, <1>4, <1>5 DEF SetWatchChannel, BindWatchChannel

\* Baselines and subscribers.
LEMMA StatementsKept ==
  ASSUME Inv, NEW v \in Ids, SaveState(v) \/ \E u \in Users : Subscribe(u, v)
  PROVE  AllKept
<1>0. \A w \in Rows : RowOK(watches[w])
  BY DEF Inv, StoreOK
<1>1. CASE SaveState(v)
  <2> DEFINE r == [watches[v] EXCEPT !.known = TRUE]
  <2>1. v \in Rows /\ watches' = [watches EXCEPT ![v] = r]
    BY <1>1 DEF SaveState, Rows
  <2>2. DOMAIN r = DOMAIN watches[v] /\ Inherits(v, watches[v], r)
    BY <1>0, <2>1 DEF Inherits, RowOK, Fields
  <2> HIDE DEF r
  <2> QED
    BY RowInherits, <2>1, <2>2
<1>2. ASSUME NEW u \in Users, Subscribe(u, v) PROVE AllKept
  <2> DEFINE r == [watches[v] EXCEPT !.users = @ \cup {u}]
  <2>1. v \in Rows /\ watches' = [watches EXCEPT ![v] = r]
    BY <1>2 DEF Subscribe, Rows
  <2>2. DOMAIN r = DOMAIN watches[v] /\ Inherits(v, watches[v], r)
    BY <1>0, <2>1 DEF Inherits, RowOK, Fields
  <2> HIDE DEF r
  <2> QED
    BY RowInherits, <2>1, <2>2
<1> QED
  BY <1>1, <1>2

\* Creations and edits.
LEMMA FilterRowsKept ==
  ASSUME Inv, NEW h \in Handlers, Insert(h) \/ WriteRow(h)
  PROVE  AllKept
<1>1. CASE UNCHANGED watches
  BY <1>1, NothingLost
<1>2. CASE Insert(h) /\ watches' # watches
  <2> DEFINE r == NewRow(op[h].spec.movie, op[h].spec.cinemas, op[h].spec.auto_lock)
  <2>1. PICK w \in Ids \ drawn : watches' = [watches EXCEPT ![w] = r]
    BY <1>2 DEF Insert
  <2>2. r # None
    BY RowsExist DEF NewRow, Fields
  <2> HIDE DEF r
  <2> QED
    BY <2>1, <2>2, OneRowWritten DEF Inv, StoreOK
<1>3. CASE WriteRow(h) /\ watches' # watches
  <2> DEFINE w == op[h].id
             r == Written(watches[w], op[h].new, op[h].changed, Job(h).patch.auto_lock)
  <2>1. op[h].at = "write" /\ w \in Rows
    BY <1>3 DEF WriteRow, Inv, StoreOK, OpOK, Busy, Rows
  <2>2. watches' = [watches EXCEPT ![w] = r]
    BY <1>3 DEF WriteRow
  <2>3. RowOK(r) /\ Inherits(w, watches[w], r)
    BY <2>1, WrittenOK DEF Inherits
  <2> HIDE DEF r
  <2>4. r # None /\ w \in Ids
    BY <2>1, <2>3, RowsExist DEF RowOK, Rows
  <2> QED
    BY <2>2, <2>3, <2>4, OneRowWritten DEF Inv
<1> QED
  BY <1>1, <1>2, <1>3

\* A merge hands the subscribers on.
LEMMA MergedKept ==
  ASSUME Inv, NEW h \in Handlers, MergeWatchInto(h)
  PROVE  AllKept
<1> DEFINE from == op[h].id
           to == op[h].into
<1>0. from \in Ids /\ to \in Ids /\ to # from
  BY DEF MergeWatchInto, Busy, Inv, StoreOK, OpOK
<1>1. CASE UNCHANGED watches
  BY <1>1, NothingLost
<1>2. CASE /\ Exists(from) /\ ~HasCopies(watches[from])
           /\ watches' = [watches EXCEPT ![from] = None]
  <2>1. /\ watches'[from] = None /\ watches[from].users = {}
        /\ \A w \in Ids \ {from} : watches'[w] = watches[w]
    BY <1>0, <1>2 DEF Inv, StoreOK, HasCopies
  <2> QED
    BY <2>1 DEF AllKept, RowKept, Inherits, Rows, Exists
<1>3. CASE /\ Exists(from) /\ Exists(to)
           /\ watches' = [watches EXCEPT
                ![to].users = MergedUsers(watches[from].users, @),
                ![to].channels = MergedChannels(watches[from].channels, @),
                ![from] = None]
  <2> DEFINE channels == MergedChannels(watches[from].channels, watches[to].channels)
             x == [watches[to] EXCEPT !.users = MergedUsers(watches[from].users, @),
                                      !.channels = channels]
  <2>1. RowOK(watches[from]) /\ RowOK(watches[to])
    BY <1>0, <1>3 DEF Inv, StoreOK, Rows
  <2>2. watches' = [watches EXCEPT ![to] = x, ![from] = None]
    BY <1>0, <1>3, <2>1 DEF RowOK, Fields, Inv, StoreOK
  <2>3. /\ DOMAIN x = DOMAIN watches[to] /\ x.channels = channels
        /\ x.filter_key = watches[to].filter_key
        /\ x.users = watches[from].users \cup watches[to].users
    BY <2>1 DEF RowOK, Fields, MergedUsers
  <2>4. \A c \in Range(Channels) : watches[to].channels[c].own => channels[c].own
    BY <2>1 DEF MergedChannels, RowOK
  <2> HIDE DEF x, channels
  <2>5. x # None
    BY <2>1, <2>3, RowsExist DEF RowOK
  <2>6. /\ watches'[from] = None /\ watches'[to] = x
        /\ \A w \in Ids \ {from, to} : watches'[w] = watches[w]
    BY <1>0, <2>2 DEF Inv, StoreOK
  <2>7. to \in Rows'
    BY <1>0, <2>5, <2>6 DEF Rows, Exists
  <2>h. HandedOn(from)
    BY <2>3, <2>6, <2>7 DEF HandedOn, MergeWatchInto
  <2>8. ASSUME NEW w \in Rows PROVE RowKept(w)
    <3>1. CASE w = from
      BY <2>6, <2>h, <3>1 DEF RowKept, HandedOn, Rows, Exists
    <3>2. CASE w = to
      BY <2>3, <2>4, <2>6, <2>7, <3>2 DEF RowKept, Inherits
    <3>3. CASE w \notin {from, to}
      BY <2>6, <3>3 DEF RowKept, Inherits, Rows, Exists
    <3> QED
      BY <3>1, <3>2, <3>3
  <2> QED
    BY <2>8 DEF AllKept
<1> QED
  BY <1>1, <1>2, <1>3 DEF MergeWatchInto

\* A request to delete changes no handler.
LEMMA DeletedKept ==
  ASSUME Inv, NEW w \in Ids, DeleteWatch(w)
  PROVE  AllKept
<1>1. /\ op' = op /\ watches'[w] = None
      /\ \A v \in Ids \ {w} : watches'[v] = watches[v]
  BY DEF DeleteWatch, Inv, StoreOK
<1> QED
  BY <1>1 DEF AllKept, RowKept, Inherits, Rows, Exists

\* Every step keeps what it should.
LEMMA StepKept == Inv /\ [Next]_vars => AllKept
<1> SUFFICES ASSUME Inv, [Next]_vars PROVE AllKept
  OBVIOUS
<1>1. ASSUME NEW h \in Handlers, Request(h) PROVE AllKept
  BY <1>1, NothingLost DEF Request, PostWatch, PatchWatch, PutChannels, ToggleChannel,
                           ConfigureChannel, ToggleWatch
<1>2. ASSUME NEW h \in Handlers, Proceed(h) PROVE AllKept
  <2>1. CASE FindExisting(h) \/ ReadRow(h) \/ ReadCinemas(h) \/ LookForTarget(h)
    BY <2>1, NothingLost DEF FindExisting, ReadRow, ReadCinemas, LookForTarget
  <2>2. CASE Reuse(h) \/ SetWatchEnabled(h) \/ SetWatchChannel(h) \/ BindWatchChannel(h)
    BY <2>2, ColumnsKept
  <2> QED
    BY <1>2, <2>1, <2>2, FilterRowsKept, MergedKept DEF Proceed
<1>3. ASSUME NEW w \in Ids, DeleteWatch(w) PROVE AllKept
  BY <1>3, DeletedKept
<1>4. ASSUME NEW w \in Ids, SaveState(w) \/ \E u \in Users : Subscribe(u, w) PROVE AllKept
  BY <1>4, StatementsKept
<1>5. CASE UNCHANGED vars
  BY <1>5, NothingLost DEF vars
<1>6. ASSUME NEW h \in Handlers, Fault(h) PROVE AllKept
  BY <1>6, NothingLost DEF Fault
<1> QED
  BY <1>1, <1>2, <1>3, <1>4, <1>5, <1>6 DEF Next, Ordinary

\* Merging hands every subscriber on to the watch merged into (db.rs:797): only a request to delete
\* loses one.
THEOREM SubscribersStay == Spec => EditsLoseNobody
<1>1. AllKept => (op' # op =>
       \A w \in Rows : \A u \in watches[w].users :
         \/ watches'[w] # None /\ u \in watches'[w].users
         \/ \E h \in Handlers : /\ op[h].at = "merge" /\ op[h].id = w
                               /\ watches'[op[h].into] # None
                               /\ u \in watches'[op[h].into].users)
  <2> SUFFICES ASSUME AllKept, op' # op, NEW w \in Rows, NEW u \in watches[w].users
               PROVE  \/ watches'[w] # None /\ u \in watches'[w].users
                      \/ \E h \in Handlers : /\ op[h].at = "merge" /\ op[h].id = w
                                            /\ watches'[op[h].into] # None
                                            /\ u \in watches'[op[h].into].users
    OBVIOUS
  <2>1. RowKept(w)
    BY DEF AllKept
  <2>2. CASE w \in Rows'
    BY <2>1, <2>2 DEF RowKept, Inherits, Rows, Exists
  <2>3. CASE w \notin Rows'
    <3>1. HandedOn(w)
      BY <2>1, <2>3 DEF RowKept
    <3> QED
      BY <3>1 DEF HandedOn, Rows, Exists
  <2> QED
    BY <2>2, <2>3
<1> QED
  BY <1>1, StepKept, Invariant, PTL DEF Spec, EditsLoseNobody

\* A new filter starts from a silent baseline (db.rs:770), short of two edits at once.
THEOREM BaselinesForgotten == Spec => NewFilterForgets
<1>1. AllKept => \A w \in Rows \ overlapped :
        watches'[w] # None /\ watches'[w].filter_key # watches[w].filter_key => ~watches'[w].known
  BY DEF AllKept, RowKept, Inherits, Rows, Exists
<1> QED
  BY <1>1, StepKept, Invariant, PTL DEF Spec, NewFilterForgets

\* A binding's own configuration stays while its watch does (db.rs:1384).
THEOREM ConfigurationsStay == Spec => OwnConfigurationKept
<1>1. AllKept => \A w \in Rows, c \in Range(Channels) :
        watches[w].channels[c].own /\ watches'[w] # None => watches'[w].channels[c].own
  BY DEF AllKept, RowKept, Inherits, Rows, Exists
<1> QED
  BY <1>1, StepKept, Invariant, PTL DEF Spec, OwnConfigurationKept

-----------------------------------------------------------------------------
(* Types.                                                                  *)

CinemaSets == SUBSET (Cinemas \cup {Blank})
Keys == [movie : Movies, cinemas : CinemaSets]
\* A channel that is on has its row.
Bindings == {b \in [on : BOOLEAN, stored : BOOLEAN, own : BOOLEAN] : b.on => b.stored}
Row ==
  [filter_key : Keys, movie : Movies, cinemas : CinemaSets, enabled : BOOLEAN, auto_lock : BOOLEAN,
   channels : [Range(Channels) -> Bindings], users : SUBSET Users, known : BOOLEAN]

\* What a creation and an edit ask for.
Requested == [movie : Movies, cinemas : CinemaSets, auto_lock : BOOLEAN, notify : Seq(Range(Channels))]
Patched ==
  [movie : Movies \cup {Keep}, cinemas : {Keep} \cup CinemaSets, enabled : BOOLEAN \cup {Keep},
   auto_lock : BOOLEAN \cup {Keep}]

SetJobs == [do : {"set"}, channel : Range(Channels), on : BOOLEAN, strict : BOOLEAN]
BindJobs == [do : {"bind"}, channel : Range(Channels), strict : {FALSE}]
UpdateJobs == [do : {"update"}, patch : Patched, strict : BOOLEAN]
Jobs == SetJobs \cup BindJobs \cup UpdateJobs

\* What is left to do, and what an edit has left to do.
Queues == Seq(Jobs) \ {<<>>}
Edits == {q \in Queues : Head(q) \in UpdateJobs}

\* The stages of a handler.
Finding == [at : {"find", "insert"}, spec : Requested]
Reusing == [at : {"reuse"}, id : Ids, spec : Requested]
Toggling == [at : {"toggle"}, id : Ids, enabled : BOOLEAN]
AtJobs == [at : {"jobs"}, id : Ids, jobs : Queues]
Reading ==
  [at : {"cinemas"}, id : Ids, jobs : Edits,
   old : [movie : Movies, enabled : BOOLEAN, filter_key : Keys]]
Writing ==
  [at : {"target", "write"}, id : Ids, jobs : Edits,
   new : [movie : Movies, cinemas : CinemaSets, enabled : BOOLEAN], changed : BOOLEAN]
Merging == [at : {"merge"}, id : Ids, jobs : Edits, into : Ids]
Ops == {Idle} \cup Finding \cup Reusing \cup Toggling \cup AtJobs \cup Reading \cup Writing \cup Merging

-----------------------------------------------------------------------------
(* Queues of jobs.                                                         *)

\* Jobs that unbind the autolock channel, take the flag back, bind the channel.
Unlocks(j) == j.do = "set" /\ j.channel = AutoLock /\ ~j.on
Forgoes(j) == j.do = "update" /\ j.patch = AutoLockPatch(FALSE)
Binds(j) == j.do \in {"set", "bind"} /\ j.channel = AutoLock /\ (j.do = "set" => j.on)

\* Whoever is to unbind the channel takes the flag back before, or has just unbound it.
InOrder(q) ==
  \A n \in DOMAIN q \ {1} : Unlocks(q[n]) => Unlocks(q[n - 1]) \/ Forgoes(q[n - 1])

\* What a request starts with.
Startable(q) == q \in Seq(Jobs) /\ InOrder(q) /\ (q # <<>> => ~Unlocks(Head(q)))

\* The requests are as assumed.
LEMMA RequestsTyped ==
  /\ Specs \subseteq Requested /\ Patches \subseteq Patched
  /\ \A on \in BOOLEAN : AutoLockPatch(on) \in Patched
  BY RequestsAssumption DEF Requested, Patched, CinemaSets, AutoLockPatch

\* Jobs are.
LEMMA JobsTyped ==
  /\ \A c \in Range(Channels), on \in BOOLEAN, strict \in BOOLEAN : SetJob(c, on, strict) \in SetJobs
  /\ \A c \in Range(Channels) : BindJob(c) \in BindJobs
  /\ \A patch \in Patched, strict \in BOOLEAN : UpdateJob(patch, strict) \in UpdateJobs
  BY DEF SetJob, SetJobs, BindJob, BindJobs, UpdateJob, UpdateJobs

\* The rest of a queue is one, or nothing.
LEMMA QueueRest ==
  ASSUME NEW q \in Queues
  PROVE  /\ q \in Seq(Jobs) /\ Head(q) \in Jobs /\ Tail(q) \in Seq(Jobs)
         /\ \A j \in Jobs : <<j>> \o Tail(q) \in Seq(Jobs)
  BY DEF Queues

\* What comes after the first job.
LEMMA OrderRest ==
  ASSUME NEW q \in Queues, InOrder(q)
  PROVE  /\ InOrder(Tail(q))
         /\ Tail(q) # <<>> /\ Unlocks(Head(Tail(q))) => Unlocks(Head(q)) \/ Forgoes(Head(q))
<1>1. /\ q \in Seq(Jobs) /\ q # <<>> /\ Tail(q) \in Seq(Jobs) /\ Len(q) \in Nat \ {0}
      /\ DOMAIN q = 1..Len(q) /\ Len(Tail(q)) = Len(q) - 1 /\ DOMAIN Tail(q) = 1..(Len(q) - 1)
      /\ \A i \in 1..(Len(q) - 1) : Tail(q)[i] = q[i + 1]
      /\ Head(q) = q[1] /\ (Tail(q) # <<>> => Len(q) > 1 /\ Head(Tail(q)) = q[2])
  BY HeadTailProperties, LenProperties DEF Queues
<1>2. InOrder(Tail(q))
  <2> SUFFICES ASSUME NEW n \in DOMAIN Tail(q) \ {1}, Unlocks(Tail(q)[n])
               PROVE  Unlocks(Tail(q)[n - 1]) \/ Forgoes(Tail(q)[n - 1])
    BY DEF InOrder
  <2>1. n \in 2..(Len(q) - 1) /\ n + 1 \in DOMAIN q \ {1}
    BY <1>1
  <2>2. Tail(q)[n] = q[n + 1] /\ Tail(q)[n - 1] = q[n] /\ (n + 1) - 1 = n
    BY <1>1, <2>1
  <2> QED
    BY <2>1, <2>2 DEF InOrder
<1>3. ASSUME Tail(q) # <<>>, Unlocks(Head(Tail(q))) PROVE Unlocks(Head(q)) \/ Forgoes(Head(q))
  <2>1. 2 \in DOMAIN q \ {1} /\ q[2] = Head(Tail(q)) /\ q[2 - 1] = Head(q)
    BY <1>1, <1>3
  <2> QED
    BY <1>3, <2>1 DEF InOrder
<1> QED
  BY <1>2, <1>3

\* A job before the others.
LEMMA OrderPut ==
  ASSUME NEW j \in Jobs, NEW q \in Seq(Jobs), InOrder(q),
         q # <<>> /\ Unlocks(Head(q)) => Unlocks(j) \/ Forgoes(j)
  PROVE  InOrder(<<j>> \o q) /\ <<j>> \o q # <<>> /\ Head(<<j>> \o q) = j
<1> DEFINE p == <<j>> \o q
<1>1. /\ Len(q) \in Nat /\ DOMAIN q = 1..Len(q) /\ DOMAIN p = 1..(Len(q) + 1) /\ p # <<>>
      /\ p[1] = j /\ Head(p) = j /\ \A i \in 1..Len(q) : p[i + 1] = q[i]
      /\ q # <<>> => Head(q) = q[1]
  <2>1. <<j>> \in Seq(Jobs) /\ Len(<<j>>) = 1 /\ <<j>>[1] = j
    OBVIOUS
  <2>2. p \in Seq(Jobs) /\ Len(p) = 1 + Len(q)
        /\ \A i \in 1..(1 + Len(q)) : p[i] = IF i <= 1 THEN <<j>>[i] ELSE q[i - 1]
    BY <2>1, ConcatProperties
  <2> HIDE DEF p
  <2>3. Len(q) \in Nat /\ DOMAIN q = 1..Len(q) /\ DOMAIN p = 1..(Len(q) + 1)
    BY <2>2, LenProperties
  <2>4. p[1] = j /\ \A i \in 1..Len(q) : p[i + 1] = q[i]
    BY <2>1, <2>2, <2>3
  <2>5. p # <<>> /\ Head(p) = p[1] /\ (q # <<>> => Head(q) = q[1])
    BY <2>2, <2>3
  <2> QED
    BY <2>3, <2>4, <2>5
<1> HIDE DEF p
<1>2. InOrder(p)
  <2> SUFFICES ASSUME NEW n \in DOMAIN p \ {1}, Unlocks(p[n])
               PROVE  Unlocks(p[n - 1]) \/ Forgoes(p[n - 1])
    BY DEF InOrder
  <2>1. CASE n = 2
    BY <1>1, <2>1
  <2>2. CASE n # 2
    <3>1. n - 1 \in DOMAIN q \ {1} /\ p[n] = q[n - 1] /\ p[n - 1] = q[(n - 1) - 1]
      <4>1. n \in 3..(Len(q) + 1)
        BY <1>1, <2>2
      <4>2. n - 1 \in 1..Len(q) /\ n - 2 \in 1..Len(q) /\ (n - 1) + 1 = n /\ (n - 2) + 1 = n - 1
            /\ (n - 1) - 1 = n - 2 /\ n - 1 # 1
        BY <1>1, <4>1
      <4> QED
        BY <1>1, <4>2
    <3> QED
      BY <3>1 DEF InOrder
  <2> QED
    BY <2>1, <2>2
<1> QED
  BY <1>1, <1>2 DEF p

\* Queues that do not unbind the autolock channel.
LEMMA NoneUnlock ==
  ASSUME NEW q, \A n \in DOMAIN q : ~Unlocks(q[n])
  PROVE  InOrder(q)
  BY DEF InOrder

\* One job, and an edit of the flag before it.
LEMMA ShortQueues ==
  ASSUME NEW j \in Jobs
  PROVE  /\ ~Unlocks(j) => Startable(<<j>>)
         /\ \A on \in BOOLEAN, strict \in BOOLEAN :
              (Unlocks(j) => ~on) => Startable(<<UpdateJob(AutoLockPatch(on), strict)>> \o <<j>>)
<1>1. /\ <<j>> \in Seq(Jobs) /\ Head(<<j>>) = j /\ InOrder(<<j>>)
      /\ ~Unlocks(j) => Startable(<<j>>)
  BY DEF InOrder, Startable
<1>2. ASSUME NEW on \in BOOLEAN, NEW strict \in BOOLEAN, Unlocks(j) => ~on
      PROVE  Startable(<<UpdateJob(AutoLockPatch(on), strict)>> \o <<j>>)
  <2>1. PICK i \in Jobs : i = UpdateJob(AutoLockPatch(on), strict)
    BY RequestsTyped, JobsTyped DEF Jobs
  <2>2. ~Unlocks(i) /\ (~on => Forgoes(i))
    BY <2>1 DEF Unlocks, Forgoes, UpdateJob
  <2>3. <<i>> \in Seq(Jobs)
    OBVIOUS
  <2>4. <<i>> \o <<j>> \in Seq(Jobs)
    BY <1>1, <2>3, ConcatProperties
  <2>5. InOrder(<<i>> \o <<j>>) /\ Head(<<i>> \o <<j>>) = i
    BY <1>1, <1>2, <2>2, OrderPut
  <2> QED
    BY <2>1, <2>2, <2>4, <2>5 DEF Startable
<1> QED
  BY <1>1, <1>2

\* What follows a creation unbinds nothing, and binds the channel first when it sets the flag.
LEMMA FollowQueue ==
  ASSUME NEW spec \in Requested
  PROVE  /\ Startable(Follow(spec))
         /\ spec.auto_lock => Follow(spec) # <<>> /\ Binds(Head(Follow(spec)))
<1>1. /\ spec.notify \in Seq(Range(Channels)) /\ spec.auto_lock \in BOOLEAN
      /\ DOMAIN spec.notify = 1..Len(spec.notify) /\ Len(spec.notify) \in Nat
      /\ \A i \in DOMAIN spec.notify : spec.notify[i] \in Range(Channels)
  BY LenProperties DEF Requested
<1>2. /\ Notify(spec) \in Seq(Jobs) /\ InOrder(Notify(spec))
      /\ Notify(spec) # <<>> => ~Unlocks(Head(Notify(spec)))
  <2>1. \A c \in Range(Channels) : SetJob(c, TRUE, FALSE) \in Jobs
    BY JobsTyped DEF Jobs
  <2>2. Notify(spec) \in [1..Len(spec.notify) -> Jobs]
    BY <1>1, <2>1 DEF Notify
  <2>3. Notify(spec) \in Seq(Jobs)
    BY <1>1, <2>2, SeqDef
  <2>4. \A n \in DOMAIN Notify(spec) : ~Unlocks(Notify(spec)[n])
    BY DEF Notify, Unlocks, SetJob
  <2>5. Notify(spec) # <<>> => Head(Notify(spec)) = Notify(spec)[1] /\ 1 \in DOMAIN Notify(spec)
    BY <2>3
  <2> QED
    BY <2>3, <2>4, <2>5, NoneUnlock
<1>3. PICK j \in Jobs : j = SetJob(AutoLock, TRUE, FALSE)
  BY ChannelsAssumption, JobsTyped DEF Jobs
<1>4. ~Unlocks(j) /\ Binds(j)
  BY <1>3 DEF SetJob, Unlocks, Binds
<1>5. InOrder(<<j>> \o Notify(spec)) /\ <<j>> \o Notify(spec) # <<>> /\ Head(<<j>> \o Notify(spec)) = j
  BY <1>2, OrderPut
<1>6. <<j>> \in Seq(Jobs)
  OBVIOUS
<1>7. <<j>> \o Notify(spec) \in Seq(Jobs)
  BY <1>2, <1>6, ConcatProperties
<1>8. CASE spec.auto_lock
  BY <1>3, <1>4, <1>5, <1>7, <1>8 DEF Follow, Startable
<1>9. CASE ~spec.auto_lock
  BY <1>2, <1>9 DEF Follow, Startable
<1> QED
  BY <1>8, <1>9

\* An element put before position p of a sequence.
LEMMA Inserted ==
  ASSUME NEW S, NEW s \in Seq(S), NEW p \in 1..Len(s), NEW e \in S
  PROVE  /\ InsertAt(s, p, e) \in Seq(S) /\ DOMAIN InsertAt(s, p, e) = 1..(Len(s) + 1)
         /\ \A n \in 1..(Len(s) + 1) :
              InsertAt(s, p, e)[n] = IF n < p THEN s[n] ELSE IF n = p THEN e ELSE s[n - 1]
<1> DEFINE a == SubSeq(s, 1, p - 1)
           b == SubSeq(s, p, Len(s))
           ae == a \o <<e>>
           q == ae \o b
<1>1. Len(s) \in Nat /\ p \in Nat /\ \A n \in 1..Len(s) : s[n] \in S
  BY LenProperties, ElementOfSeq
<1>2. a \in Seq(S) /\ Len(a) = p - 1 /\ \A n \in 1..(p - 1) : a[n] = s[n]
  BY <1>1, SubSeqProperties
<1>3. b \in Seq(S) /\ Len(b) = Len(s) - p + 1 /\ \A n \in 1..(Len(s) - p + 1) : b[n] = s[p + n - 1]
  BY <1>1, SubSeqProperties
<1>4. <<e>> \in Seq(S) /\ Len(<<e>>) = 1 /\ <<e>>[1] = e
  OBVIOUS
<1> HIDE DEF a, b
<1>5. ae \in Seq(S) /\ Len(ae) = p /\ \A n \in 1..p : ae[n] = IF n < p THEN s[n] ELSE e
  <2>1. /\ ae \in Seq(S) /\ Len(ae) = Len(a) + Len(<<e>>)
        /\ \A n \in 1..(Len(a) + Len(<<e>>)) : ae[n] = IF n <= Len(a) THEN a[n] ELSE <<e>>[n - Len(a)]
    BY <1>2, <1>4, ConcatProperties
  <2> HIDE DEF ae
  <2> QED
    BY <1>1, <1>2, <1>4, <2>1
<1> HIDE DEF ae
<1>6. /\ q \in Seq(S) /\ Len(q) = Len(ae) + Len(b)
      /\ \A n \in 1..(Len(ae) + Len(b)) : q[n] = IF n <= Len(ae) THEN ae[n] ELSE b[n - Len(ae)]
  BY <1>3, <1>5, ConcatProperties
<1> HIDE DEF q
<1>7. Len(q) = Len(s) + 1 /\ DOMAIN q = 1..(Len(s) + 1)
  BY <1>1, <1>3, <1>5, <1>6, LenProperties
<1>8. ASSUME NEW n \in 1..(Len(s) + 1)
      PROVE  q[n] = IF n < p THEN s[n] ELSE IF n = p THEN e ELSE s[n - 1]
  <2>1. CASE n <= p
    BY <1>1, <1>3, <1>5, <1>6, <2>1
  <2>2. CASE n > p
    <3>1. n - p \in 1..(Len(s) - p + 1) /\ p + (n - p) - 1 = n - 1
      BY <1>1, <2>2
    <3> QED
      BY <1>1, <1>3, <1>5, <1>6, <2>2, <3>1
  <2> QED
    BY <1>1, <2>1, <2>2
<1>9. InsertAt(s, p, e) = q
  BY DEF InsertAt, q, ae, a, b
<1> QED
  BY <1>6, <1>7, <1>8, <1>9

\* Setting all channels unbinds the autolock channel right after its flag went down.
LEMMA PutQueue ==
  ASSUME NEW chosen \in SUBSET Range(Channels)
  PROVE  Startable(PutJobs(chosen))
<1> DEFINE len == Len(Channels)
           p == CHOOSE n \in DOMAIN Channels : Channels[n] = AutoLock
           sets == [n \in DOMAIN Channels |-> SetJob(Channels[n], Channels[n] \in chosen, TRUE)]
           row == UpdateJob(AutoLockPatch(AutoLock \in chosen), TRUE)
           q == InsertAt(sets, p, row)
<1>1. /\ len \in Nat /\ DOMAIN Channels = 1..len /\ p \in 1..len /\ Channels[p] = AutoLock
      /\ \A n \in 1..len : Channels[n] \in Range(Channels)
  BY ChannelsAssumption, LenProperties DEF Range
<1>2. \A n \in 1..len : sets[n] \in Jobs /\ (Unlocks(sets[n]) => n = p /\ AutoLock \notin chosen)
  <2> SUFFICES ASSUME NEW n \in 1..len, NEW on, on = (Channels[n] \in chosen)
               PROVE  /\ SetJob(Channels[n], on, TRUE) \in Jobs
                      /\ Unlocks(SetJob(Channels[n], on, TRUE)) => n = p /\ AutoLock \notin chosen
    BY <1>1
  <2>1. on \in BOOLEAN /\ Channels[n] \in Range(Channels)
    BY <1>1
  <2>2. SetJob(Channels[n], on, TRUE) \in Jobs
    BY <2>1, JobsTyped DEF Jobs
  <2>3. Channels[n] = AutoLock => n = p
    BY <1>1, ChannelsAssumption DEF IsInjective
  <2> QED
    BY <2>2, <2>3 DEF Unlocks, SetJob
<1>3. row \in Jobs /\ ~Unlocks(row) /\ (AutoLock \notin chosen => Forgoes(row))
  <2>1. PICK on : on = (AutoLock \in chosen)
    OBVIOUS
  <2>2. on \in BOOLEAN /\ row = UpdateJob(AutoLockPatch(on), TRUE)
    BY <2>1
  <2> HIDE DEF row
  <2>3. row \in Jobs
    BY <2>2, RequestsTyped, JobsTyped DEF Jobs
  <2> QED
    BY <2>1, <2>2, <2>3 DEF Forgoes, Unlocks, UpdateJob
<1>4. sets \in Seq(Jobs) /\ Len(sets) = len
  <2>1. DOMAIN sets = 1..len /\ sets = [n \in 1..len |-> sets[n]]
    BY <1>1
  <2> HIDE DEF sets
  <2>2. sets \in [1..len -> Jobs]
    BY <1>2, <2>1
  <2>3. sets \in Seq(Jobs)
    BY <1>1, <2>2, SeqDef
  <2> QED
    BY <1>1, <2>1, <2>3, LenProperties
<1>5. PutJobs(chosen) = q
  BY DEF PutJobs
<1> HIDE DEF sets, row
<1> HIDE DEF len, p
<1>6. /\ q \in Seq(Jobs) /\ DOMAIN q = 1..(len + 1)
      /\ \A n \in 1..(len + 1) : q[n] = IF n < p THEN sets[n] ELSE IF n = p THEN row ELSE sets[n - 1]
  <2>1. p \in 1..Len(sets) /\ row \in Jobs
    BY <1>1, <1>3, <1>4
  <2>2. sets \in Seq(Jobs)
    BY <1>4
  <2>3. /\ q \in Seq(Jobs) /\ DOMAIN q = 1..(Len(sets) + 1)
        /\ \A n \in 1..(Len(sets) + 1) :
             q[n] = IF n < p THEN sets[n] ELSE IF n = p THEN row ELSE sets[n - 1]
    BY <2>1, <2>2, Inserted
  <2> QED
    BY <1>4, <2>3
<1> HIDE DEF q
<1>7. InOrder(q)
  <2> SUFFICES ASSUME NEW n \in DOMAIN q \ {1}, Unlocks(q[n])
               PROVE  Unlocks(q[n - 1]) \/ Forgoes(q[n - 1])
    BY DEF InOrder
  <2>1. n \in 2..(len + 1) /\ n - 1 \in 1..(len + 1)
    BY <1>1, <1>6
  <2>2. n = p + 1 /\ AutoLock \notin chosen
    BY <1>1, <1>2, <1>3, <1>6, <2>1
  <2>3. q[n - 1] = row
    BY <1>1, <1>6, <2>1, <2>2
  <2> QED
    BY <1>3, <2>2, <2>3
<1>8. ~Unlocks(q[1]) /\ q # <<>>
  BY <1>1, <1>2, <1>3, <1>6
<1>9. Head(q) = q[1]
  BY <1>6, <1>8
<1> QED
  BY <1>5, <1>6, <1>7, <1>8, <1>9 DEF Startable

-----------------------------------------------------------------------------
(* Handlers and rows have their types.                                     *)

RowsTyped == \A w \in Rows : watches[w] \in Row
OpsTyped == \A h \in Handlers : op[h] \in Ops
Typed == Inv /\ RowsTyped /\ OpsTyped

\* The stage tells the form.
LEMMA OpForms ==
  ASSUME NEW o \in Ops
  PROVE  /\ o.at \in {"find", "insert"} => o \in Finding
         /\ o.at = "reuse" => o \in Reusing
         /\ o.at = "toggle" => o \in Toggling
         /\ o.at = "jobs" => o \in AtJobs
         /\ o.at = "cinemas" => o \in Reading
         /\ o.at \in {"target", "write"} => o \in Writing
         /\ o.at = "merge" => o \in Merging
  BY DEF Ops, Idle, Finding, Reusing, Toggling, AtJobs, Reading, Writing, Merging

\* A handler with a queue of jobs.
LEMMA WorkTyped ==
  ASSUME NEW w \in Ids, NEW jobs \in Seq(Jobs)
  PROVE  Working(w, jobs) \in Ops
<1>1. jobs # <<>> => [at |-> "jobs", id |-> w, jobs |-> jobs] \in AtJobs
  BY DEF AtJobs, Queues
<1> QED
  BY <1>1 DEF Working, Ops

-----------------------------------------------------------------------------
(* Steps keep types.                                                       *)

\* A step that leaves the rows alone.
LEMMA RowsStayTyped ==
  ASSUME RowsTyped, UNCHANGED watches
  PROVE  RowsTyped'
  BY DEF RowsTyped, Rows, Exists

\* A step that writes or deletes a row.
LEMMA RowWrittenTyped ==
  ASSUME Typed, NEW w, NEW x \in Row \cup {None}, watches' = [watches EXCEPT ![w] = x]
  PROVE  RowsTyped'
  BY DEF Typed, Inv, StoreOK, RowsTyped, Rows, Exists

\* A step of a handler.
LEMMA OpStepTyped ==
  ASSUME Typed, NEW h \in Handlers, NEW o \in Ops, op' = [op EXCEPT ![h] = o]
  PROVE  OpsTyped'
  BY DEF Typed, Inv, StoreOK, OpsTyped

\* Failing and finishing a job.
LEMMA JobEndsTyped ==
  ASSUME Typed, NEW h \in Handlers, op[h].at \in {"jobs", "cinemas", "target", "write", "merge"},
         Fail(h) \/ Done(h)
  PROVE  OpsTyped'
<1>1. op[h].id \in Ids /\ op[h].jobs \in Queues
  BY OpForms DEF Typed, OpsTyped, AtJobs, Reading, Writing, Merging, Edits
<1>2. Working(op[h].id, Later(h)) \in Ops
  BY <1>1, QueueRest, WorkTyped DEF Later
<1>3. Idle \in Ops
  BY DEF Ops
<1> QED
  BY <1>2, <1>3, OpStepTyped DEF Fail, Done

\* A request starts looking for a watch, turning one or working through a queue.
LEMMA RequestStarts ==
  ASSUME NEW h \in Handlers, Request(h)
  PROVE  /\ UNCHANGED watches
         /\ \/ \E spec \in Requested : Begin(h, [at |-> "find", spec |-> spec])
            \/ \E w \in drawn, on \in BOOLEAN : Begin(h, [at |-> "toggle", id |-> w, enabled |-> on])
            \/ \E w \in drawn : \E jobs : Startable(jobs) /\ Begin(h, Working(w, jobs))
<1> DEFINE Starts ==
             \/ \E spec \in Requested : Begin(h, [at |-> "find", spec |-> spec])
             \/ \E w \in drawn, on \in BOOLEAN : Begin(h, [at |-> "toggle", id |-> w, enabled |-> on])
             \/ \E w \in drawn : \E jobs : Startable(jobs) /\ Begin(h, Working(w, jobs))
<1>0. UNCHANGED watches
  BY DEF Request, PostWatch, PatchWatch, PutChannels, ToggleChannel, ConfigureChannel, ToggleWatch
<1>1. ASSUME NEW spec \in Specs, PostWatch(h, spec) PROVE Starts
  <2>1. [spec EXCEPT !.cinemas = Trimmed(@)] \in Requested
    BY RequestsTyped DEF Requested, CinemaSets, Trimmed
  <2> QED
    BY <1>1, <2>1 DEF PostWatch
<1>2. ASSUME NEW w \in drawn, NEW patch \in Patches, PatchWatch(h, w, patch) PROVE Starts
  <2>1. UpdateJob(patch, TRUE) \in Jobs
    BY RequestsTyped, JobsTyped DEF Jobs
  <2>2. ~Unlocks(UpdateJob(patch, TRUE))
    BY DEF Unlocks, UpdateJob
  <2>3. Startable(<<UpdateJob(patch, TRUE)>>)
    BY <2>1, <2>2, ShortQueues
  <2> QED
    BY <1>2, <2>3 DEF PatchWatch
<1>3. ASSUME NEW w \in drawn, NEW chosen \in SUBSET Range(Channels), PutChannels(h, w, chosen) PROVE Starts
  BY <1>3, PutQueue DEF PutChannels
<1>4. ASSUME NEW w \in drawn, NEW c \in Range(Channels), ToggleChannel(h, w, c) PROVE Starts
  <2>0. PICK seen \in BOOLEAN :
          LET to == ~(seen /\ Exists(w) /\ watches[w].channels[c].on)
          IN Begin(h, Working(w, IF c = AutoLock
                                 THEN <<UpdateJob(AutoLockPatch(to), FALSE)>> \o <<SetJob(c, to, FALSE)>>
                                 ELSE <<SetJob(c, to, FALSE)>>))
    BY <1>4 DEF ToggleChannel
  <2>1. PICK next : next = ~(seen /\ Exists(w) /\ watches[w].channels[c].on)
    OBVIOUS
  <2>2. PICK j : j = SetJob(c, next, FALSE)
    OBVIOUS
  <2>3. next \in BOOLEAN
    BY <2>1
  <2>4. j \in Jobs /\ (Unlocks(j) => c = AutoLock /\ ~next)
    BY <2>2, <2>3, JobsTyped DEF Jobs, Unlocks, SetJob
  <2>5. CASE c = AutoLock
    <3>1. Begin(h, Working(w, <<UpdateJob(AutoLockPatch(next), FALSE)>> \o <<j>>))
      BY <2>0, <2>1, <2>2, <2>5
    <3>2. Startable(<<UpdateJob(AutoLockPatch(next), FALSE)>> \o <<j>>)
      BY <2>3, <2>4, ShortQueues
    <3> QED
      BY <3>1, <3>2
  <2>6. CASE c # AutoLock
    <3>1. Begin(h, Working(w, <<j>>))
      BY <2>0, <2>1, <2>2, <2>6
    <3>2. Startable(<<j>>)
      BY <2>4, <2>6, ShortQueues
    <3> QED
      BY <3>1, <3>2
  <2> QED
    BY <2>5, <2>6
<1>5. ASSUME NEW w \in drawn, NEW c \in Range(Channels), ConfigureChannel(h, w, c) PROVE Starts
  <2>1. PICK j : j = BindJob(c)
    OBVIOUS
  <2>2. j \in Jobs /\ ~Unlocks(j)
    BY <2>1, JobsTyped DEF Jobs, Unlocks, BindJob
  <2>3. Startable(<<j>>) /\ Startable(<<UpdateJob(AutoLockPatch(TRUE), FALSE)>> \o <<j>>)
    BY <2>2, ShortQueues
  <2> QED
    BY <1>5, <2>1, <2>3 DEF ConfigureChannel
<1>6. ASSUME NEW w \in drawn, ToggleWatch(h, w) PROVE Starts
  <2>1. PICK on : on = ~watches[w].enabled
    OBVIOUS
  <2>2. on \in BOOLEAN
    BY <2>1
  <2> QED
    BY <1>6, <2>1, <2>2 DEF ToggleWatch
<1> QED
  BY <1>0, <1>1, <1>2, <1>3, <1>4, <1>5, <1>6 DEF Request

\* It leaves all typed.
LEMMA RequestTyped ==
  ASSUME Typed, NEW h \in Handlers, Request(h)
  PROVE  RowsTyped' /\ OpsTyped'
<1>0. drawn \subseteq Ids
  BY DEF Typed, Inv, StoreOK
<1>1. RowsTyped'
  BY RequestStarts, RowsStayTyped DEF Typed
<1>2. ASSUME NEW o \in Ops, Begin(h, o) PROVE OpsTyped'
  BY <1>2, OpStepTyped DEF Begin
<1>3. ASSUME NEW spec \in Requested, Begin(h, [at |-> "find", spec |-> spec]) PROVE OpsTyped'
  <2>1. [at |-> "find", spec |-> spec] \in Finding
    BY DEF Finding
  <2> QED
    BY <1>2, <1>3, <2>1 DEF Ops
<1>4. ASSUME NEW w \in drawn, NEW on \in BOOLEAN, Begin(h, [at |-> "toggle", id |-> w, enabled |-> on])
      PROVE  OpsTyped'
  <2>1. [at |-> "toggle", id |-> w, enabled |-> on] \in Toggling
    BY <1>0 DEF Toggling
  <2> QED
    BY <1>2, <1>4, <2>1 DEF Ops
<1>5. ASSUME NEW w \in drawn, NEW jobs, Startable(jobs), Begin(h, Working(w, jobs)) PROVE OpsTyped'
  BY <1>0, <1>2, <1>5, WorkTyped DEF Startable
<1> QED
  BY <1>1, <1>3, <1>4, <1>5, RequestStarts

\* Channel jobs.
LEMMA ChannelTyped ==
  ASSUME Typed, NEW h \in Handlers, SetWatchChannel(h) \/ BindWatchChannel(h)
  PROVE  RowsTyped' /\ OpsTyped'
<1>0. op[h].at = "jobs" /\ (Fail(h) \/ Done(h))
  BY DEF SetWatchChannel, BindWatchChannel
<1>1. OpsTyped'
  BY <1>0, JobEndsTyped
<1>2. op[h].id \in Ids /\ Job(h) \in Jobs
  BY <1>0, OpForms, QueueRest DEF Typed, OpsTyped, AtJobs, Job
<1>3. ASSUME Exists(op[h].id), NEW c \in Range(Channels), NEW b \in Bindings,
             watches' = [watches EXCEPT ![op[h].id].channels[c] = b]
      PROVE  RowsTyped'
  <2> DEFINE w == op[h].id
             x == [watches[w] EXCEPT !.channels = [watches[w].channels EXCEPT ![c] = b]]
  <2>1. watches[w] \in Row
    BY <1>2, <1>3 DEF Typed, RowsTyped, Rows
  <2>2. x \in Row
    BY <2>1 DEF Row
  <2>3. watches' = [watches EXCEPT ![w] = x]
    BY <1>3
  <2> HIDE DEF x
  <2> QED
    BY <2>2, <2>3, RowWrittenTyped
<1>4. CASE UNCHANGED watches
  BY <1>1, <1>4, RowsStayTyped DEF Typed
<1>5. CASE SetWatchChannel(h) /\ Exists(op[h].id)
  <2> DEFINE c == Job(h).channel
             b == Turned(watches[op[h].id].channels[c], Job(h).on)
  <2>1. watches' = [watches EXCEPT ![op[h].id].channels[c] = b]
    BY <1>5 DEF SetWatchChannel
  <2>2. c \in Range(Channels) /\ Job(h).on \in BOOLEAN
    BY <1>2, <1>5 DEF SetWatchChannel, Jobs, SetJobs, BindJobs, UpdateJobs
  <2>3. watches[op[h].id].channels[c] \in Bindings
    BY <1>2, <1>5, <2>2 DEF Typed, RowsTyped, Rows, Row
  <2>4. b \in Bindings
    BY <2>2, <2>3 DEF Turned, Bindings
  <2> HIDE DEF b, c
  <2> QED
    BY <1>1, <1>3, <1>5, <2>1, <2>2, <2>4
<1>6. CASE BindWatchChannel(h) /\ Exists(op[h].id)
  <2> DEFINE c == Job(h).channel
             b == [on |-> TRUE, stored |-> TRUE, own |-> TRUE]
  <2>1. watches' = [watches EXCEPT ![op[h].id].channels[c] = b]
    BY <1>6 DEF BindWatchChannel
  <2>2. c \in Range(Channels)
    BY <1>2, <1>6 DEF BindWatchChannel, Jobs, SetJobs, BindJobs, UpdateJobs
  <2>3. b \in Bindings
    BY DEF Bindings
  <2> HIDE DEF b, c
  <2> QED
    BY <1>1, <1>3, <1>6, <2>1, <2>2, <2>3
<1> QED
  BY <1>1, <1>4, <1>5, <1>6 DEF SetWatchChannel, BindWatchChannel

\* Creations.
LEMMA CreationTyped ==
  ASSUME Typed, NEW h \in Handlers, FindExisting(h) \/ Reuse(h) \/ Insert(h)
  PROVE  RowsTyped' /\ OpsTyped'
<1>0. op[h] \in Ops
  BY DEF Typed, OpsTyped
<1>1. CASE FindExisting(h)
  <2> DEFINE found == WithKey(Key(op[h].spec.movie, op[h].spec.cinemas))
  <2>1. RowsTyped'
    BY <1>1, RowsStayTyped DEF FindExisting, Typed
  <2>2. op[h] \in Finding
    BY <1>0, <1>1, OpForms DEF FindExisting
  <2>3. CASE found = {}
    <3> DEFINE o == [op[h] EXCEPT !.at = "insert"]
    <3>1. op' = [op EXCEPT ![h] = o]
      BY <1>1, <2>3 DEF FindExisting, Typed, Inv, StoreOK
    <3>2. o \in Finding
      BY <2>2 DEF Finding
    <3> HIDE DEF o
    <3> QED
      BY <2>1, <3>1, <3>2, OpStepTyped DEF Ops
  <2>4. CASE found # {}
    <3> DEFINE o == [at |-> "reuse", id |-> CHOOSE w \in found : TRUE, spec |-> op[h].spec]
    <3>1. op' = [op EXCEPT ![h] = o]
      BY <1>1, <2>4 DEF FindExisting, Typed, Inv, StoreOK
    <3>2. (CHOOSE w \in found : TRUE) \in Ids
      BY <2>4 DEF WithKey, Rows
    <3>3. o \in Reusing
      BY <2>2, <3>2 DEF Reusing, Finding
    <3> HIDE DEF o
    <3> QED
      BY <2>1, <3>1, <3>3, OpStepTyped DEF Ops
  <2> QED
    BY <2>3, <2>4
<1>2. CASE Reuse(h)
  <2>1. op[h] \in Reusing
    BY <1>0, <1>2, OpForms DEF Reuse
  <2>2. OpsTyped'
    <3>1. op' = [op EXCEPT ![h] = Working(op[h].id, Follow(op[h].spec))]
      BY <1>2 DEF Reuse, Typed, Inv, StoreOK
    <3>2. Working(op[h].id, Follow(op[h].spec)) \in Ops
      BY <2>1, FollowQueue, WorkTyped DEF Reusing, Startable
    <3> QED
      BY <3>1, <3>2, OpStepTyped
  <2>3. CASE UNCHANGED watches
    BY <2>2, <2>3, RowsStayTyped DEF Typed
  <2>4. CASE watches' # watches
    <3> DEFINE x == [watches[op[h].id] EXCEPT !.auto_lock = TRUE]
    <3>1. op[h].id \in Rows /\ watches' = [watches EXCEPT ![op[h].id].auto_lock = TRUE]
      BY <1>2, <2>1, <2>4 DEF Reuse, Reusing, Rows
    <3>2. x \in Row
      BY <3>1 DEF Typed, RowsTyped, Row
    <3>3. watches' = [watches EXCEPT ![op[h].id] = x]
      BY <3>1
    <3> HIDE DEF x
    <3> QED
      BY <2>2, <3>2, <3>3, RowWrittenTyped
  <2> QED
    BY <2>3, <2>4
<1>3. CASE Insert(h)
  <2> DEFINE spec == op[h].spec
  <2>1. spec \in Requested
    BY <1>0, <1>3, OpForms DEF Insert, Finding
  <2>2. CASE op' = [op EXCEPT ![h] = Idle] /\ UNCHANGED watches
    BY <2>2, RowsStayTyped, OpStepTyped DEF Ops, Typed
  <2>3. ASSUME NEW w \in Ids \ drawn,
               watches' = [watches EXCEPT ![w] = NewRow(spec.movie, spec.cinemas, spec.auto_lock)],
               op' = [op EXCEPT ![h] = Working(w, Follow(spec))]
        PROVE  RowsTyped' /\ OpsTyped'
    <3>1. NewRow(spec.movie, spec.cinemas, spec.auto_lock) \in Row
      BY <2>1 DEF Requested, NewRow, Row, Key, Keys, Unbound, Bindings
    <3>2. Working(w, Follow(spec)) \in Ops
      BY <2>1, FollowQueue, WorkTyped DEF Startable
    <3> QED
      BY <2>3, <3>1, <3>2, RowWrittenTyped, OpStepTyped
  <2> QED
    BY <1>3, <2>2, <2>3 DEF Insert
<1> QED
  BY <1>1, <1>2, <1>3

\* The panel's enable button.
LEMMA FlagTyped ==
  ASSUME Typed, NEW h \in Handlers, SetWatchEnabled(h)
  PROVE  RowsTyped' /\ OpsTyped'
<1>1. OpsTyped'
  BY OpStepTyped DEF SetWatchEnabled, Ops
<1>2. op[h] \in Toggling
  BY OpForms DEF SetWatchEnabled, Typed, OpsTyped
<1>3. CASE UNCHANGED watches
  BY <1>1, <1>3, RowsStayTyped DEF Typed
<1>4. CASE watches' # watches
  <2> DEFINE x == [watches[op[h].id] EXCEPT !.enabled = op[h].enabled]
  <2>1. op[h].id \in Rows /\ watches' = [watches EXCEPT ![op[h].id].enabled = op[h].enabled]
    BY <1>2, <1>4 DEF SetWatchEnabled, Toggling, Rows
  <2>2. x \in Row
    BY <1>2, <2>1 DEF Typed, RowsTyped, Row, Toggling
  <2>3. watches' = [watches EXCEPT ![op[h].id] = x]
    BY <2>1
  <2> HIDE DEF x
  <2> QED
    BY <1>1, <2>2, <2>3, RowWrittenTyped
<1> QED
  BY <1>3, <1>4

\* Single statements.
LEMMA StatementTyped ==
  ASSUME Typed, NEW w \in Ids, DeleteWatch(w) \/ SaveState(w) \/ \E u \in Users : Subscribe(u, w)
  PROVE  RowsTyped' /\ OpsTyped'
<1>1. OpsTyped'
  BY DEF DeleteWatch, SaveState, Subscribe, Typed, OpsTyped
<1>2. watches[w] \in Row
  BY DEF DeleteWatch, SaveState, Subscribe, Typed, RowsTyped, Rows
<1>3. PICK x \in Row \cup {None} : watches' = [watches EXCEPT ![w] = x]
  <2>1. CASE DeleteWatch(w)
    BY <2>1 DEF DeleteWatch
  <2>2. CASE SaveState(w)
    <3>1. [watches[w] EXCEPT !.known = TRUE] \in Row
      BY <1>2 DEF Row
    <3> QED
      BY <2>2, <3>1 DEF SaveState
  <2>3. ASSUME NEW u \in Users, Subscribe(u, w)
        PROVE  \E x \in Row \cup {None} : watches' = [watches EXCEPT ![w] = x]
    <3>1. [watches[w] EXCEPT !.users = @ \cup {u}] \in Row
      BY <1>2 DEF Row
    <3> QED
      BY <2>3, <3>1 DEF Subscribe
  <2> QED
    BY <2>1, <2>2, <2>3
<1> QED
  BY <1>1, <1>3, RowWrittenTyped

\* Reading what there is, of an edit.
LEMMA EditReadsTyped ==
  ASSUME Typed, NEW h \in Handlers, ReadRow(h) \/ ReadCinemas(h) \/ LookForTarget(h)
  PROVE  RowsTyped' /\ OpsTyped'
<1>0. RowsTyped' /\ op[h] \in Ops
  BY RowsStayTyped DEF ReadRow, ReadCinemas, LookForTarget, Typed, OpsTyped
<1>1. CASE ReadRow(h)
  <2>1. CASE Fail(h)
    BY <1>0, <1>1, <2>1, JobEndsTyped DEF ReadRow
  <2>2. CASE ~Fail(h)
    <3> DEFINE row == watches[op[h].id]
               o == [at |-> "cinemas", id |-> op[h].id, jobs |-> op[h].jobs,
                     old |-> [movie |-> row.movie, enabled |-> row.enabled,
                              filter_key |-> row.filter_key]]
    <3>1. op' = [op EXCEPT ![h] = o] /\ Exists(op[h].id) /\ Job(h).do = "update"
      BY <1>1, <2>2 DEF ReadRow, Typed, Inv, StoreOK
    <3>2. op[h] \in AtJobs
      BY <1>0, <1>1, OpForms DEF ReadRow
    <3>3. row \in Row
      BY <3>1, <3>2 DEF Typed, RowsTyped, Rows, AtJobs
    <3>4. op[h].jobs \in Edits
      BY <3>1, <3>2, QueueRest DEF AtJobs, Edits, Job, Jobs, SetJobs, BindJobs
    <3>5. o \in Reading
      BY <3>2, <3>3, <3>4 DEF Reading, AtJobs, Row
    <3> HIDE DEF o
    <3> QED
      BY <1>0, <3>1, <3>5, OpStepTyped DEF Ops
  <2> QED
    BY <2>1, <2>2
<1>2. CASE ReadCinemas(h)
  <2> DEFINE cinemas == IF Exists(op[h].id) THEN watches[op[h].id].cinemas ELSE {}
             new == Wanted(Job(h).patch, op[h].old, cinemas)
             changed == FilterChanged(new, op[h].old)
             o == [at |-> IF changed THEN "target" ELSE "write", id |-> op[h].id,
                   jobs |-> op[h].jobs, new |-> new, changed |-> changed]
  <2>1. op' = [op EXCEPT ![h] = o]
    BY <1>2 DEF ReadCinemas, Typed, Inv, StoreOK
  <2>2. op[h] \in Reading
    BY <1>0, <1>2, OpForms DEF ReadCinemas
  <2>3. cinemas \in CinemaSets
    BY <2>2 DEF Reading, Typed, RowsTyped, Rows, Row, CinemaSets
  <2>4. Job(h).patch \in Patched
    BY <2>2 DEF Reading, Edits, Job, UpdateJobs
  <2>5. new \in [movie : Movies, cinemas : CinemaSets, enabled : BOOLEAN]
    BY <2>2, <2>3, <2>4 DEF Wanted, Or, Patched, Reading
  <2>6. changed \in BOOLEAN
    BY DEF FilterChanged
  <2> HIDE DEF new, changed
  <2>7. o \in Writing
    BY <2>2, <2>5, <2>6 DEF Reading, Writing
  <2> HIDE DEF o
  <2> QED
    BY <1>0, <2>1, <2>7, OpStepTyped DEF Ops
<1>3. CASE LookForTarget(h)
  <2> DEFINE found == WithKey(Key(op[h].new.movie, op[h].new.cinemas)) \ {op[h].id}
  <2>1. op[h] \in Writing
    BY <1>0, <1>3, OpForms DEF LookForTarget
  <2>2. CASE found = {}
    <3> DEFINE o == [op[h] EXCEPT !.at = "write"]
    <3>1. op' = [op EXCEPT ![h] = o]
      BY <1>3, <2>2 DEF LookForTarget, Typed, Inv, StoreOK
    <3>2. o \in Writing
      BY <2>1 DEF Writing
    <3> HIDE DEF o
    <3> QED
      BY <1>0, <3>1, <3>2, OpStepTyped DEF Ops
  <2>3. CASE found # {}
    <3> DEFINE o == [at |-> "merge", id |-> op[h].id, jobs |-> op[h].jobs,
                     into |-> CHOOSE w \in found : TRUE]
    <3>1. op' = [op EXCEPT ![h] = o]
      BY <1>3, <2>3 DEF LookForTarget, Typed, Inv, StoreOK
    <3>2. (CHOOSE w \in found : TRUE) \in Ids
      BY <2>3 DEF WithKey, Rows
    <3>3. o \in Merging
      BY <2>1, <3>2 DEF Merging, Writing
    <3> HIDE DEF o
    <3> QED
      BY <1>0, <3>1, <3>3, OpStepTyped DEF Ops
  <2> QED
    BY <2>2, <2>3
<1> QED
  BY <1>1, <1>2, <1>3

\* A merge rewrites one row and deletes another.
LEMMA MergeTyped ==
  ASSUME Typed, NEW h \in Handlers, MergeWatchInto(h)
  PROVE  RowsTyped' /\ OpsTyped'
<1> DEFINE from == op[h].id
           to == op[h].into
<1>1. OpsTyped'
  BY JobEndsTyped DEF MergeWatchInto
<1>2. from \in Ids /\ to \in Ids
  BY OpForms DEF MergeWatchInto, Typed, OpsTyped, Merging
<1>3. CASE UNCHANGED watches
  BY <1>1, <1>3, RowsStayTyped DEF Typed
<1>4. CASE watches' = [watches EXCEPT ![from] = None]
  BY <1>1, <1>4, RowWrittenTyped
<1>5. CASE /\ Exists(from) /\ Exists(to)
           /\ watches' = [watches EXCEPT
                ![to].users = MergedUsers(watches[from].users, @),
                ![to].channels = MergedChannels(watches[from].channels, @),
                ![from] = None]
  <2> DEFINE channels == MergedChannels(watches[from].channels, watches[to].channels)
             x == [watches[to] EXCEPT !.users = MergedUsers(watches[from].users, @),
                                      !.channels = channels]
  <2>1. watches[from] \in Row /\ watches[to] \in Row
    BY <1>2, <1>5 DEF Typed, RowsTyped, Rows
  <2>2. watches' = [watches EXCEPT ![to] = x, ![from] = None]
    BY <1>2, <1>5, <2>1 DEF Row, Typed, Inv, StoreOK
  <2>3. channels \in [Range(Channels) -> Bindings]
    BY <2>1 DEF MergedChannels, Row, Bindings
  <2> HIDE DEF channels
  <2>4. x \in Row
    BY <2>1, <2>3 DEF Row, MergedUsers
  <2> HIDE DEF x
  <2>5. RowsTyped'
    BY <2>2, <2>4 DEF Typed, RowsTyped, Rows, Exists, Inv, StoreOK
  <2> QED
    BY <1>1, <2>5
<1> QED
  BY <1>3, <1>4, <1>5 DEF MergeWatchInto

\* The transaction of an edit.
LEMMA WriteTyped ==
  ASSUME Typed, NEW h \in Handlers, WriteRow(h)
  PROVE  RowsTyped' /\ OpsTyped'
<1> DEFINE w == op[h].id
           auto == Job(h).patch.auto_lock
           jobs == IF auto = Keep THEN Later(h) ELSE <<SetJob(AutoLock, auto, FALSE)>> \o Later(h)
           row == Written(watches[w], op[h].new, op[h].changed, auto)
<1>1. op[h] \in Writing
  BY OpForms DEF WriteRow, Typed, OpsTyped
<1>2. w \in Ids /\ op[h].jobs \in Queues /\ auto \in BOOLEAN \cup {Keep}
  BY <1>1 DEF Writing, Edits, Job, UpdateJobs, Patched
<1>3. OpsTyped'
  <2>1. CASE Fail(h)
    BY <2>1, JobEndsTyped DEF WriteRow
  <2>2. CASE op' = [op EXCEPT ![h] = Working(w, jobs)]
    <3>1. auto # Keep => SetJob(AutoLock, auto, FALSE) \in Jobs
      BY <1>2, ChannelsAssumption, JobsTyped DEF Jobs
    <3>2. jobs \in Seq(Jobs)
      BY <1>2, <3>1, QueueRest DEF Later
    <3> QED
      BY <1>2, <2>2, <3>2, WorkTyped, OpStepTyped
  <2> QED
    BY <2>1, <2>2 DEF WriteRow
<1>4. CASE UNCHANGED watches
  BY <1>3, <1>4, RowsStayTyped DEF Typed
<1>5. CASE watches' # watches
  <2>1. Exists(w) /\ watches' = [watches EXCEPT ![w] = row]
    BY <1>5 DEF WriteRow
  <2>2. watches[w] \in Row
    BY <1>2, <2>1 DEF Typed, RowsTyped, Rows
  <2>3. row \in Row
    BY <1>1, <1>2, <2>2 DEF Written, Row, Writing, Or, Key, Keys
  <2> HIDE DEF row
  <2> QED
    BY <1>3, <2>1, <2>3, RowWrittenTyped
<1> QED
  BY <1>4, <1>5

\* A handler whose statement fails, or which is dropped.
LEMMA FaultTyped ==
  ASSUME Typed, NEW h \in Handlers, Fault(h)
  PROVE  RowsTyped' /\ OpsTyped'
<1>0. RowsTyped' /\ op[h] \in Ops /\ DOMAIN op = Handlers
  BY RowsStayTyped DEF Fault, Typed, OpsTyped, Inv, StoreOK
<1>1. CASE op' = [op EXCEPT ![h] = Idle]
  BY <1>0, <1>1, OpStepTyped DEF Ops
<1>2. CASE op[h].at = "reuse" /\ op' = [op EXCEPT ![h] = Working(@.id, Follow(@.spec))]
  <2>1. PICK jobs : jobs = Follow(op[h].spec)
    OBVIOUS
  <2>2. op[h].id \in Ids /\ op[h].spec \in Requested
    BY <1>0, <1>2, OpForms DEF Reusing
  <2>3. jobs \in Seq(Jobs)
    BY <2>1, <2>2, FollowQueue DEF Startable
  <2>4. op' = [op EXCEPT ![h] = Working(op[h].id, jobs)]
    BY <1>0, <1>2, <2>1
  <2> QED
    BY <1>0, <2>2, <2>3, <2>4, WorkTyped, OpStepTyped
<1>3. CASE op[h].at \in {"jobs", "cinemas", "target", "merge", "write"} /\ Fail(h)
  BY <1>0, <1>3, JobEndsTyped
<1> QED
  BY <1>1, <1>2, <1>3 DEF Fault, StatementFails, CutOff

\* Rows and handlers have their types throughout.
LEMMA StepTyped == Typed /\ [Next]_vars => Typed'
<1> SUFFICES ASSUME Typed, [Next]_vars PROVE Typed'
  OBVIOUS
<1>0. Inv'
  BY StepInv DEF Typed
<1>1. CASE UNCHANGED vars
  BY <1>0, <1>1 DEF vars, Typed, RowsTyped, OpsTyped, Rows, Exists
<1>2. ASSUME NEW h \in Handlers, Request(h) \/ Proceed(h)
      PROVE  RowsTyped' /\ OpsTyped'
  BY <1>2, RequestTyped, ChannelTyped, CreationTyped, FlagTyped, EditReadsTyped, MergeTyped, WriteTyped
     DEF Proceed
<1> QED
  BY <1>0, <1>1, <1>2, StatementTyped, FaultTyped DEF Next, Ordinary, Typed

\* Types hold throughout.
LEMMA TypesInvariant == Spec => []Typed
<1>1. Init => Typed
  BY InitInv DEF Init, Typed, RowsTyped, OpsTyped, Rows, Exists, Ops
<1> QED
  BY <1>1, StepTyped, PTL DEF Spec

\* Rows hold what their columns do and no two have the same key, whatever requests come and
\* however they interleave (db.rs:635).
THEOREM TypesCorrect == Spec => []TypeOK
<1>1. Typed => TypeOK
  <2> SUFFICES ASSUME Typed PROVE TypeOK
    OBVIOUS
  <2>1. \A w \in Rows : WithKey(watches[w].filter_key) = {w}
    BY DEF Typed, Inv, OneRowPerKey, WithKey
  <2> QED
    BY <2>1 DEF Typed, Inv, StoreOK, RowsTyped, Row, CinemaSets, TypeOK
<1> QED
  BY <1>1, TypesInvariant, PTL

-----------------------------------------------------------------------------
(* The flag and the binding of a watch that locks by itself.               *)

Pending(o) == o.at = "jobs" /\ Binds(Head(o.jobs))

\* Watches that no two requests were at work on and no request left halfway.
Alone == Rows \ (overlapped \cup cut)

\* The history of a step.
Recorded == overlapped' = overlapped \cup Overlap' /\ cut \subseteq cut'

HasJobs == {"jobs", "cinemas", "target", "write", "merge"}

\* Nobody unbinds the channel of a watch that is flagged, and taking the flag back does not fail:
\* the filter stays what it was.
Lawful(o) ==
  o.at \in HasJobs =>
    /\ InOrder(o.jobs)
    /\ o.id \in Alone =>
         /\ o.at = "jobs" /\ Unlocks(Head(o.jobs)) => ~watches[o.id].auto_lock
         /\ o.at = "cinemas" => o.old.movie = watches[o.id].movie
         /\ o.at \in {"target", "write", "merge"} /\ Forgoes(Head(o.jobs)) =>
              o.at = "write" /\ ~o.changed

\* Whoever sets the flag binds the channel next.
Locked(w) ==
  watches[w].auto_lock =>
    \/ watches[w].channels[AutoLock].on
    \/ \E h \in Handlers : WorksOn(h, w) /\ Pending(op[h])

Locks ==
  /\ \A h \in Handlers : Lawful(op[h])
  /\ \A w \in Alone : Locked(w)

\* A handler with jobs has a watch and a queue.
LEMMA JobsForm ==
  ASSUME Typed, NEW h \in Handlers, op[h].at \in HasJobs
  PROVE  op[h].id \in Ids /\ op[h].jobs \in Queues /\ WorksOn(h, op[h].id)
<1>1. op[h] \in Ops
  BY DEF Typed, OpsTyped
<1>2. op[h].id \in Ids /\ op[h].jobs \in Queues /\ "id" \in DOMAIN op[h]
  BY <1>1, OpForms DEF HasJobs, AtJobs, Reading, Writing, Merging, Edits
<1> QED
  BY <1>2 DEF WorksOn, Idle, HasJobs

\* An edit's next job is to write the row.
LEMMA EditForm ==
  ASSUME Typed, NEW h \in Handlers, op[h].at \in {"cinemas", "target", "write", "merge"}
  PROVE  Job(h) \in UpdateJobs
<1>1. op[h] \in Ops
  BY DEF Typed, OpsTyped
<1> QED
  BY <1>1, OpForms DEF Reading, Writing, Merging, Edits, Job

\* A row that a step keeps with its flag, its movie and its bound channel.
Spared(v) ==
  /\ v \in Rows
  /\ watches'[v].movie = watches[v].movie /\ watches'[v].auto_lock = watches[v].auto_lock
  /\ watches[v].channels[AutoLock].on => watches'[v].channels[AutoLock].on

\* A step of a handler: what it touches it is alone with.
LEMMA LocksStep ==
  ASSUME Typed, Locks, Recorded,
         NEW h \in Handlers, NEW o, op' = [op EXCEPT ![h] = o], Lawful(o)',
         NEW T, \A v \in Rows' \ T : Spared(v),
         \A g \in Handlers \ {h}, v \in T : WorksOn(g, v) => v \notin Alone',
         \A v : WorksOn(h, v) /\ Pending(op[h]) => v \in T,
         \A v \in T : v \in Alone' => Locked(v)'
  PROVE  Locks'
<1>1. op'[h] = o /\ \A g \in Handlers \ {h} : op'[g] = op[g]
  BY DEF Typed, Inv, StoreOK
<1>2. ASSUME NEW v \in Alone' \ T PROVE v \in Alone /\ Spared(v)
  BY <1>2 DEF Alone, Spared, Recorded
<1>3. ASSUME NEW g \in Handlers \ {h} PROVE Lawful(op[g])'
  <2> SUFFICES ASSUME op[g].at \in HasJobs PROVE Lawful(op[g])'
    BY <1>1 DEF Lawful
  <2>1. Lawful(op[g]) /\ WorksOn(g, op[g].id)
    BY JobsForm DEF Locks
  <2>2. op[g].id \in Alone' => op[g].id \in Alone /\ Spared(op[g].id)
    BY <1>2, <2>1
  <2> QED
    BY <1>1, <2>1, <2>2 DEF Lawful, Spared
<1>4. ASSUME NEW v \in Alone' \ T PROVE Locked(v)'
  <2>1. Locked(v) /\ Spared(v)
    BY <1>2, <1>4 DEF Locks
  <2>2. ASSUME NEW g \in Handlers, WorksOn(g, v), Pending(op[g])
        PROVE  g \in Handlers /\ WorksOn(g, v)' /\ Pending(op[g])'
    <3>1. g # h
      BY <1>4, <2>2
    <3> QED
      BY <1>1, <2>2, <3>1 DEF WorksOn, Pending
  <2> QED
    BY <2>1, <2>2 DEF Locked, Spared
<1> QED
  BY <1>1, <1>3, <1>4 DEF Locks

\* A step that touches one row.
LEMMA OneTouchedStep ==
  ASSUME Typed, Locks, Recorded,
         NEW h \in Handlers, NEW o, op' = [op EXCEPT ![h] = o], Lawful(o)',
         NEW w, \A v \in Rows' \ {w} : Spared(v),
         \A g \in Handlers \ {h} : WorksOn(g, w) => w \notin Alone',
         \A v : WorksOn(h, v) /\ Pending(op[h]) => v = w,
         w \in Alone' => Locked(w)'
  PROVE  Locks'
<1>1. PICK T : T = {w}
  OBVIOUS
<1>2. /\ \A v \in Rows' \ T : Spared(v)
      /\ \A g \in Handlers \ {h}, v \in T : WorksOn(g, v) => v \notin Alone'
      /\ \A v : WorksOn(h, v) /\ Pending(op[h]) => v \in T
      /\ \A v \in T : v \in Alone' => Locked(v)'
  BY <1>1
<1> QED
  BY <1>2, LocksStep

\* A step that spares all rows, of a handler that binds nothing next.
LEMMA QuietLocksStep ==
  ASSUME Typed, Locks, Recorded,
         NEW h \in Handlers, NEW o, op' = [op EXCEPT ![h] = o], Lawful(o)',
         \A v \in Rows' : Spared(v), ~Pending(op[h])
  PROVE  Locks'
<1>1. PICK T : T = {}
  OBVIOUS
<1>2. /\ \A v \in Rows' \ T : Spared(v)
      /\ \A g \in Handlers \ {h}, v \in T : WorksOn(g, v) => v \notin Alone'
      /\ \A v : WorksOn(h, v) /\ Pending(op[h]) => v \in T
      /\ \A v \in T : v \in Alone' => Locked(v)'
  BY <1>1
<1> QED
  BY <1>2, LocksStep

\* A step of no handler.
LEMMA OtherLocksStep ==
  ASSUME Typed, Locks, Recorded, op' = op, \A v \in Rows' : Spared(v)
  PROVE  Locks'
<1>2. ASSUME NEW v \in Alone' PROVE v \in Alone /\ Spared(v)
  BY <1>2 DEF Alone, Spared, Recorded
<1>3. ASSUME NEW g \in Handlers PROVE Lawful(op[g])'
  <2>1. Lawful(op[g])
    BY DEF Locks
  <2> QED
    BY <1>2, <2>1 DEF Lawful, Spared
<1>4. ASSUME NEW v \in Alone' PROVE Locked(v)'
  <2>1. Locked(v) /\ Spared(v)
    BY <1>2, <1>4 DEF Locks
  <2> QED
    BY <2>1 DEF Locked, Spared, WorksOn, Pending
<1> QED
  BY <1>3, <1>4 DEF Locks

\* Rows that are left alone are spared.
LEMMA RowsSpared ==
  ASSUME UNCHANGED watches
  PROVE  Rows' = Rows /\ \A v \in Rows' : Spared(v)
  BY DEF Rows, Exists, Spared

\* Nobody else is at work on the watch of a handler, or the two overlap.
LEMMA OthersOff ==
  ASSUME Typed, Recorded, NEW h \in Handlers, NEW w, WorksOn(h, w)
  PROVE  \A g \in Handlers \ {h} : WorksOn(g, w) => w \notin Alone /\ w \notin Alone'
  BY DEF Typed, Inv, StoreOK, Overlap, Alone, Rows, Recorded

\* What a handler goes on to when its jobs are done.
LEMMA IdleLawful ==
  Lawful(Idle)'
  BY DEF Lawful, Idle, HasJobs

\* What a handler goes on to with jobs.
LEMMA WorkLawful ==
  ASSUME NEW w, NEW jobs, InOrder(jobs),
         jobs # <<>> /\ w \in Alone' /\ Unlocks(Head(jobs)) => ~watches'[w].auto_lock
  PROVE  Lawful(Working(w, jobs))'
<1>1. CASE jobs = <<>>
  BY <1>1, IdleLawful DEF Working
<1>2. CASE jobs # <<>>
  <2>1. PICK o : o = [at |-> "jobs", id |-> w, jobs |-> jobs]
    OBVIOUS
  <2>2. Lawful(o)'
    BY <1>2, <2>1 DEF Lawful, HasJobs
  <2> QED
    BY <1>2, <2>1, <2>2 DEF Working
<1> QED
  BY <1>1, <1>2

\* A job that ends: the next one may unbind the channel if the flag is down by now.
LEMMA RestLawful ==
  ASSUME Typed, Locks, NEW h \in Handlers, op[h].at \in HasJobs,
         NEW o, o = Idle \/ o = Working(op[h].id, Later(h)),
         op[h].id \in Alone' /\ (Unlocks(Job(h)) \/ Forgoes(Job(h))) => ~watches'[op[h].id].auto_lock
  PROVE  Lawful(o)'
<1>1. op[h].jobs \in Queues /\ InOrder(op[h].jobs)
  BY JobsForm DEF Locks, Lawful
<1>2. PICK w : w = op[h].id
  OBVIOUS
<1>3. PICK jobs : jobs = Later(h)
  OBVIOUS
<1>4. /\ InOrder(jobs)
      /\ jobs # <<>> /\ w \in Alone' /\ Unlocks(Head(jobs)) => ~watches'[w].auto_lock
  BY <1>1, <1>2, <1>3, OrderRest DEF Later, Job
<1>5. Lawful(Working(w, jobs))'
  BY <1>4, WorkLawful
<1>6. CASE o = Idle
  BY <1>6, IdleLawful
<1>7. CASE o = Working(op[h].id, Later(h))
  BY <1>2, <1>3, <1>5, <1>7
<1> QED
  BY <1>6, <1>7

-----------------------------------------------------------------------------
(* Steps keep the flag and the binding together.                           *)

\* Requests.
LEMMA RequestLocks ==
  ASSUME Typed, Locks, Recorded, NEW h \in Handlers, Request(h)
  PROVE  Locks'
<1>1. UNCHANGED watches
  BY RequestStarts
<1>2. ASSUME NEW o, Begin(h, o), Lawful(o)' PROVE Locks'
  <2>1. op' = [op EXCEPT ![h] = o] /\ ~Pending(op[h])
    BY <1>2 DEF Begin, Pending, Idle
  <2> QED
    BY <1>1, <1>2, <2>1, RowsSpared, QuietLocksStep
<1>3. ASSUME NEW spec, Begin(h, [at |-> "find", spec |-> spec]) PROVE Locks'
  <2>1. PICK o : o = [at |-> "find", spec |-> spec]
    OBVIOUS
  <2>2. Lawful(o)'
    BY <2>1 DEF Lawful, HasJobs
  <2> QED
    BY <1>2, <1>3, <2>1, <2>2
<1>4. ASSUME NEW w, NEW on, Begin(h, [at |-> "toggle", id |-> w, enabled |-> on]) PROVE Locks'
  <2>1. PICK o : o = [at |-> "toggle", id |-> w, enabled |-> on]
    OBVIOUS
  <2>2. Lawful(o)'
    BY <2>1 DEF Lawful, HasJobs
  <2> QED
    BY <1>2, <1>4, <2>1, <2>2
<1>5. ASSUME NEW w, NEW jobs, Startable(jobs), Begin(h, Working(w, jobs)) PROVE Locks'
  <2>1. Lawful(Working(w, jobs))'
    BY <1>5, WorkLawful DEF Startable
  <2> QED
    BY <1>2, <1>5, <2>1
<1> QED
  BY <1>3, <1>4, <1>5, RequestStarts

\* A repeated or a new creation binds the channel right after it sets the flag.
LEMMA CreationLocks ==
  ASSUME Typed, Typed', Locks, Recorded, NEW h \in Handlers,
         FindExisting(h) \/ Reuse(h) \/ Insert(h)
  PROVE  Locks'
<1>0. op[h] \in Ops /\ ~Pending(op[h])
  BY DEF FindExisting, Reuse, Insert, Pending, Typed, OpsTyped
<1>1. CASE FindExisting(h)
  <2>1. PICK o : op' = [op EXCEPT ![h] = o] /\ o.at \in {"insert", "reuse"}
    <3>1. op[h] \in Finding
      BY <1>0, <1>1, OpForms DEF FindExisting
    <3>2. [op[h] EXCEPT !.at = "insert"].at = "insert"
      BY <3>1 DEF Finding
    <3>3. \A w, spec : [at |-> "reuse", id |-> w, spec |-> spec].at = "reuse"
      OBVIOUS
    <3> QED
      BY <1>1, <3>2, <3>3 DEF FindExisting, Typed, Inv, StoreOK
  <2>2. Lawful(o)'
    BY <2>1 DEF Lawful, HasJobs
  <2> QED
    BY <1>0, <1>1, <2>1, <2>2, RowsSpared, QuietLocksStep DEF FindExisting
<1>w. ASSUME NEW w, NEW spec \in Requested, op' = [op EXCEPT ![h] = Working(w, Follow(spec))]
      PROVE  /\ Lawful(Working(w, Follow(spec)))'
             /\ spec.auto_lock => WorksOn(h, w)' /\ Pending(op[h])'
  <2>1. PICK jobs : jobs = Follow(spec)
    OBVIOUS
  <2>2. Startable(jobs) /\ (spec.auto_lock => jobs # <<>> /\ Binds(Head(jobs)))
    BY <2>1, FollowQueue
  <2>3. Lawful(Working(w, jobs))'
    BY <2>2, WorkLawful DEF Startable
  <2>4. spec.auto_lock => op'[h] = [at |-> "jobs", id |-> w, jobs |-> jobs]
    BY <1>w, <2>1, <2>2 DEF Working, Typed, Inv, StoreOK
  <2>5. spec.auto_lock => WorksOn(h, w)' /\ Pending(op[h])'
    BY <2>2, <2>4 DEF WorksOn, Pending, Idle
  <2> QED
    BY <2>1, <2>3, <2>5
<1>2. CASE Reuse(h)
  <2>0. PICK w, spec : w = op[h].id /\ spec = op[h].spec
    OBVIOUS
  <2>1. op[h] \in Reusing /\ w \in Ids /\ spec \in Requested
    BY <1>0, <1>2, <2>0, OpForms DEF Reuse, Reusing
  <2>2. PICK o : /\ op' = [op EXCEPT ![h] = o] /\ Lawful(o)'
                 /\ spec.auto_lock => WorksOn(h, w)' /\ Pending(op[h])'
    <3>1. op' = [op EXCEPT ![h] = Working(w, Follow(spec))]
      BY <1>2, <2>0 DEF Reuse, Typed, Inv, StoreOK
    <3> QED
      BY <1>w, <2>1, <3>1
  <2>3. CASE UNCHANGED watches
    BY <1>0, <2>2, <2>3, RowsSpared, QuietLocksStep
  <2>4. CASE watches' # watches
    <3>1. w \in Rows /\ spec.auto_lock /\ \A v \in Ids \ {w} : watches'[v] = watches[v]
      BY <1>2, <2>0, <2>1, <2>4 DEF Reuse, Rows, Typed, Inv, StoreOK
    <3>2. \A v \in Rows' \ {w} : Spared(v)
      BY <3>1 DEF Rows, Exists, Spared
    <3>3. WorksOn(h, w)
      BY <2>0, <2>1 DEF WorksOn, Reusing, Idle
    <3>4. Locked(w)'
      BY <2>2, <3>1 DEF Locked
    <3>5. \A g \in Handlers \ {h} : WorksOn(g, w) => w \notin Alone'
      BY <3>3, OthersOff
    <3> QED
      BY <1>0, <2>2, <3>2, <3>4, <3>5, OneTouchedStep
  <2> QED
    BY <2>3, <2>4
<1>3. CASE Insert(h)
  <2> DEFINE spec == op[h].spec
  <2>1. spec \in Requested
    BY <1>0, <1>3, OpForms DEF Insert, Finding
  <2>2. CASE op' = [op EXCEPT ![h] = Idle] /\ UNCHANGED watches
    BY <1>0, <2>2, IdleLawful, RowsSpared, QuietLocksStep
  <2>3. ASSUME NEW w \in Ids \ drawn,
               watches' = [watches EXCEPT ![w] = NewRow(spec.movie, spec.cinemas, spec.auto_lock)],
               op' = [op EXCEPT ![h] = Working(w, Follow(spec))]
        PROVE  Locks'
    <3>1. /\ watches'[w].auto_lock = spec.auto_lock
          /\ \A v \in Ids \ {w} : watches'[v] = watches[v]
      BY <2>3 DEF NewRow, Typed, Inv, StoreOK
    <3>2. \A v \in Rows' \ {w} : Spared(v)
      BY <3>1 DEF Rows, Exists, Spared
    <3>3. \A g \in Handlers \ {h} : WorksOn(g, w) => w \notin Alone'
      <4>1. ASSUME NEW g \in Handlers, WorksOn(g, w) PROVE FALSE
        <5>1. op[g] \in Ops /\ op[g] # Idle /\ "id" \in DOMAIN op[g] /\ op[g].id = w
          BY <4>1 DEF WorksOn, Typed, OpsTyped
        <5>2. op[g].at \in Busy
          BY <5>1 DEF Ops, Finding, Reusing, Toggling, AtJobs, Reading, Writing, Merging, Busy
        <5> QED
          BY <2>3, <5>1, <5>2 DEF Typed, Inv, StoreOK, OpOK
      <4> QED
        BY <4>1
    <3>4. PICK o : /\ op' = [op EXCEPT ![h] = o] /\ Lawful(o)'
                   /\ spec.auto_lock => WorksOn(h, w)' /\ Pending(op[h])'
      BY <1>w, <2>1, <2>3
    <3>5. Locked(w)'
      BY <3>1, <3>4 DEF Locked
    <3> QED
      BY <1>0, <3>2, <3>3, <3>4, <3>5, OneTouchedStep
  <2> QED
    BY <1>3, <2>1, <2>2, <2>3 DEF Insert
<1> QED
  BY <1>1, <1>2, <1>3

\* The panel's enable button.
LEMMA FlagLocks ==
  ASSUME Typed, Locks, Recorded, NEW h \in Handlers, SetWatchEnabled(h)
  PROVE  Locks'
<1>1. \A v \in Rows' : Spared(v)
  <2>1. CASE UNCHANGED watches
    BY <2>1, RowsSpared
  <2>2. CASE watches' # watches
    <3> DEFINE x == [watches[op[h].id] EXCEPT !.enabled = op[h].enabled]
    <3>1. op[h].id \in Ids /\ Exists(op[h].id) /\ watches' = [watches EXCEPT ![op[h].id].enabled = op[h].enabled]
      BY <2>2, OpForms DEF SetWatchEnabled, Typed, OpsTyped, Toggling
    <3>2. watches' = [watches EXCEPT ![op[h].id] = x] /\ op[h].id \in Rows
      BY <3>1 DEF Rows
    <3>3. watches[op[h].id] \in Row
      BY <3>2 DEF Typed, RowsTyped
    <3>4. /\ x.movie = watches[op[h].id].movie /\ x.auto_lock = watches[op[h].id].auto_lock
          /\ x.channels = watches[op[h].id].channels
      BY <3>3 DEF Row
    <3> HIDE DEF x
    <3> QED
      BY <3>2, <3>4 DEF Spared, Rows, Exists, Typed, Inv, StoreOK
  <2> QED
    BY <2>1, <2>2
<1>2. op' = [op EXCEPT ![h] = Idle] /\ ~Pending(op[h])
  BY DEF SetWatchEnabled, Pending
<1> QED
  BY <1>1, <1>2, IdleLawful, QuietLocksStep

\* Single statements.
LEMMA StatementLocks ==
  ASSUME Typed, Locks, Recorded, NEW w \in Ids,
         DeleteWatch(w) \/ SaveState(w) \/ \E u \in Users : Subscribe(u, w)
  PROVE  Locks'
<1>0. op' = op
  BY DEF DeleteWatch, SaveState, Subscribe
<1>1. w \in Rows /\ watches[w] \in Row
  BY DEF DeleteWatch, SaveState, Subscribe, Rows, Typed, RowsTyped
<1>2. CASE watches' = [watches EXCEPT ![w] = None]
  <2>1. \A v \in Rows' : Spared(v)
    BY <1>2 DEF Spared, Rows, Exists, Typed, Inv, StoreOK
  <2> QED
    BY <1>0, <2>1, OtherLocksStep
<1>3. ASSUME NEW x, watches' = [watches EXCEPT ![w] = x], x.movie = watches[w].movie,
             x.auto_lock = watches[w].auto_lock, x.channels = watches[w].channels
      PROVE  Locks'
  <2>1. \A v \in Rows' : Spared(v)
    BY <1>1, <1>3 DEF Spared, Rows, Exists, Typed, Inv, StoreOK
  <2> QED
    BY <1>0, <2>1, OtherLocksStep
<1>4. CASE SaveState(w)
  <2> DEFINE x == [watches[w] EXCEPT !.known = TRUE]
  <2>1. watches' = [watches EXCEPT ![w] = x]
    BY <1>4 DEF SaveState
  <2>2. x.movie = watches[w].movie /\ x.auto_lock = watches[w].auto_lock /\ x.channels = watches[w].channels
    BY <1>1 DEF Row
  <2> HIDE DEF x
  <2> QED
    BY <1>3, <2>1, <2>2
<1>5. ASSUME NEW u \in Users, Subscribe(u, w) PROVE Locks'
  <2> DEFINE x == [watches[w] EXCEPT !.users = @ \cup {u}]
  <2>1. watches' = [watches EXCEPT ![w] = x]
    BY <1>5 DEF Subscribe
  <2>2. x.movie = watches[w].movie /\ x.auto_lock = watches[w].auto_lock /\ x.channels = watches[w].channels
    BY <1>1 DEF Row
  <2> HIDE DEF x
  <2> QED
    BY <1>3, <2>1, <2>2
<1> QED
  BY <1>2, <1>4, <1>5 DEF DeleteWatch

\* Channel jobs: binding the channel, and unbinding it when the flag is down.
LEMMA ChannelLocks ==
  ASSUME Typed, Locks, Recorded, NEW h \in Handlers,
         SetWatchChannel(h) \/ BindWatchChannel(h)
  PROVE  Locks'
<1>0. /\ op[h].at = "jobs" /\ op[h].at \in HasJobs
      /\ \E o : op' = [op EXCEPT ![h] = o] /\ (o = Idle \/ o = Working(op[h].id, Later(h)))
  BY DEF SetWatchChannel, BindWatchChannel, HasJobs, Fail, Done
<1>w. PICK w : w = op[h].id
  OBVIOUS
<1>o. PICK o : op' = [op EXCEPT ![h] = o] /\ (o = Idle \/ o = Working(op[h].id, Later(h)))
  BY <1>0
<1>1. w \in Ids /\ WorksOn(h, w) /\ Job(h) \in Jobs /\ ~Forgoes(Job(h))
  <2>1. op[h].jobs \in Queues
    BY <1>0, JobsForm
  <2> QED
    BY <1>0, <1>w, <2>1, JobsForm, QueueRest DEF Job, Forgoes, SetWatchChannel, BindWatchChannel
<1>2. /\ \A g \in Handlers \ {h} : WorksOn(g, w) => w \notin Alone /\ w \notin Alone'
      /\ \A v : WorksOn(h, v) => v = w
  BY <1>1, <1>w, OthersOff DEF WorksOn
<1>3. w \in Alone /\ Unlocks(Job(h)) => ~watches[w].auto_lock
  BY <1>0, <1>w DEF Locks, Lawful, Job
<1>4. ASSUME w \notin Rows' \/ (w \in Rows /\ watches'[w].auto_lock = watches[w].auto_lock)
      PROVE  Lawful(o)'
  <2>1. w \in Alone' /\ Unlocks(Job(h)) => ~watches'[w].auto_lock
    BY <1>3, <1>4 DEF Alone, Recorded
  <2> QED
    BY <1>0, <1>o, <1>w, <1>1, <2>1, RestLawful
<1>5. CASE ~Exists(w)
  <2>1. UNCHANGED watches
    BY <1>5, <1>w DEF SetWatchChannel, BindWatchChannel
  <2>2. w \notin Rows' /\ \A v \in Rows' \ {w} : Spared(v)
    BY <1>5, <2>1, RowsSpared DEF Rows
  <2> QED
    BY <1>2, <1>4, <1>o, <2>2, OneTouchedStep DEF Alone, Recorded
<1>6. CASE Exists(w)
  <2>1. w \in Rows /\ watches[w] \in Row
    BY <1>1, <1>6 DEF Rows, Typed, RowsTyped
  <2>c. PICK c : c = Job(h).channel
    OBVIOUS
  <2>b. PICK b : /\ watches' = [watches EXCEPT ![w].channels[c] = b]
                 /\ b.on \/ (Job(h).do = "set" /\ ~Job(h).on)
    <3>1. CASE SetWatchChannel(h)
      <4>1. Turned(watches[w].channels[c], Job(h).on).on = Job(h).on
        <5>1. c \in Range(Channels)
          BY <1>1, <2>c, <3>1 DEF SetWatchChannel, Jobs, SetJobs, BindJobs, UpdateJobs
        <5>2. watches[w].channels[c] \in Bindings
          BY <2>1, <5>1 DEF Row
        <5> QED
          BY <5>2 DEF Turned, Bindings
      <4>2. watches' = [watches EXCEPT ![w].channels[c] = Turned(watches[w].channels[c], Job(h).on)]
        BY <1>6, <1>w, <2>c, <3>1 DEF SetWatchChannel
      <4>3. Job(h).do = "set"
        BY <3>1 DEF SetWatchChannel
      <4> QED
        BY <4>1, <4>2, <4>3
    <3>2. CASE BindWatchChannel(h)
      <4> DEFINE full == [on |-> TRUE, stored |-> TRUE, own |-> TRUE]
      <4>1. watches' = [watches EXCEPT ![w].channels[c] = full] /\ full.on
        BY <1>6, <1>w, <2>c, <3>2 DEF BindWatchChannel
      <4> HIDE DEF full
      <4> QED
        BY <4>1
    <3> QED
      BY <3>1, <3>2
  <2> DEFINE x == [watches[w] EXCEPT !.channels = [watches[w].channels EXCEPT ![c] = b]]
  <2>2. watches' = [watches EXCEPT ![w] = x]
    BY <2>b
  <2>3. x.auto_lock = watches[w].auto_lock /\ x.channels = [watches[w].channels EXCEPT ![c] = b]
    BY <2>1 DEF Row
  <2> HIDE DEF x
  <2>4. /\ watches'[w].auto_lock = watches[w].auto_lock
        /\ watches'[w].channels[AutoLock] = IF c = AutoLock THEN b ELSE watches[w].channels[AutoLock]
        /\ \A v \in Ids \ {w} : watches'[v] = watches[v]
    <3>1. watches'[w] = x /\ \A v \in Ids \ {w} : watches'[v] = watches[v]
      BY <1>1, <2>2 DEF Typed, Inv, StoreOK
    <3>2. AutoLock \in DOMAIN watches[w].channels
      BY <2>1, ChannelsAssumption DEF Row
    <3>3. x.channels[AutoLock] = IF c = AutoLock THEN b ELSE watches[w].channels[AutoLock]
      BY <2>3, <3>2
    <3> QED
      BY <2>3, <3>1, <3>3
  <2>5. \A v \in Rows' \ {w} : Spared(v)
    BY <2>4 DEF Spared, Rows, Exists
  <2>6. Lawful(o)'
    BY <1>4, <2>1, <2>4
  <2>7. ASSUME w \in Alone' PROVE Locked(w)'
    <3>1. w \in Alone /\ Locked(w)
      BY <2>1, <2>7 DEF Alone, Locks, Recorded
    <3>2. CASE c = AutoLock
      <4>1. b.on \/ Unlocks(Job(h))
        BY <2>b, <2>c, <3>2 DEF Unlocks
      <4> QED
        BY <1>3, <2>4, <3>1, <3>2, <4>1 DEF Locked
    <3>3. CASE c # AutoLock
      <4>1. ASSUME NEW g \in Handlers, WorksOn(g, w), Pending(op[g]) PROVE FALSE
        <5>1. g = h
          BY <1>2, <3>1, <4>1
        <5> QED
          BY <2>c, <3>3, <4>1, <5>1 DEF Pending, Binds, Job
      <4> QED
        BY <2>4, <3>1, <3>3, <4>1 DEF Locked
    <3> QED
      BY <3>2, <3>3
  <2> QED
    BY <1>2, <1>o, <2>5, <2>6, <2>7, OneTouchedStep
<1> QED
  BY <1>5, <1>6

\* An edit of the flag alone finds its filter unchanged.
LEMMA EditReadsLocks ==
  ASSUME Typed, Locks, Recorded, NEW h \in Handlers,
         ReadRow(h) \/ ReadCinemas(h) \/ LookForTarget(h)
  PROVE  Locks'
<1>0. /\ UNCHANGED watches /\ op[h].at \in HasJobs
  BY DEF ReadRow, ReadCinemas, LookForTarget, HasJobs
<1>1. Lawful(op[h]) /\ Fresh(op[h]) /\ op[h] \in Ops
  BY DEF Locks, Typed, Inv, AllFresh, OpsTyped
<1>w. PICK w, q : w = op[h].id /\ q = op[h].jobs
  OBVIOUS
<1>2. InOrder(q) /\ Alone' \subseteq Alone
  BY <1>0, <1>1, <1>w, RowsSpared DEF Lawful, Alone, Recorded
<1>3. ~Pending(op[h])
  BY DEF Pending, ReadRow, ReadCinemas, LookForTarget, Binds, Job
<1>4. ASSUME NEW o, op' = [op EXCEPT ![h] = o], Lawful(o)' PROVE Locks'
  BY <1>0, <1>3, <1>4, RowsSpared, QuietLocksStep
<1>5. CASE ReadRow(h)
  <2>1. CASE Fail(h)
    <3>1. PICK o : op' = [op EXCEPT ![h] = o] /\ (o = Idle \/ o = Working(op[h].id, Later(h)))
      BY <2>1 DEF Fail
    <3>2. op[h].id \notin Alone'
      <4>1. CASE ~Exists(op[h].id)
        BY <1>2, <4>1 DEF Alone, Rows, Recorded
      <4>2. CASE Exists(op[h].id)
        <5>1. \E r : op'[h] = [at |-> "cinemas", id |-> op[h].id, jobs |-> op[h].jobs, old |-> r]
          BY <1>5, <4>2 DEF ReadRow, Typed, Inv, StoreOK
        <5>2. op'[h].at = "cinemas"
          BY <5>1
        <5>3. op'[h] = Idle \/ op'[h].at = "jobs"
          BY <3>1 DEF Working, Typed, Inv, StoreOK
        <5> QED
          BY <5>2, <5>3 DEF Idle
      <4> QED
        BY <4>1, <4>2
    <3>3. Lawful(o)'
      BY <1>0, <3>1, <3>2, RestLawful
    <3> QED
      BY <1>4, <3>1, <3>3
  <2>2. CASE ~Fail(h)
    <3> DEFINE row == watches[op[h].id]
    <3>1. PICK r : r = [movie |-> row.movie, enabled |-> row.enabled, filter_key |-> row.filter_key]
      OBVIOUS
    <3>2. PICK o : o = [at |-> "cinemas", id |-> w, jobs |-> q, old |-> r]
      OBVIOUS
    <3>3. op' = [op EXCEPT ![h] = o]
      BY <1>5, <1>w, <2>2, <3>1, <3>2 DEF ReadRow, Typed, Inv, StoreOK
    <3>4. r.movie = watches'[w].movie
      BY <1>0, <1>w, <3>1
    <3>5. Lawful(o)'
      BY <1>2, <3>2, <3>4 DEF Lawful
    <3> QED
      BY <1>4, <3>3, <3>5
  <2> QED
    BY <2>1, <2>2
<1>6. CASE ReadCinemas(h)
  <2> DEFINE cinemas == IF Exists(op[h].id) THEN watches[op[h].id].cinemas ELSE {}
  <2>1. PICK new : new = Wanted(Job(h).patch, op[h].old, cinemas)
    OBVIOUS
  <2>2. PICK changed : changed = FilterChanged(new, op[h].old)
    OBVIOUS
  <2>3. PICK o : o = [at |-> IF changed THEN "target" ELSE "write", id |-> w, jobs |-> q,
                      new |-> new, changed |-> changed]
    OBVIOUS
  <2>4. op' = [op EXCEPT ![h] = o]
    BY <1>6, <1>w, <2>1, <2>2, <2>3 DEF ReadCinemas, Typed, Inv, StoreOK
  <2>5. ASSUME w \in Alone, Forgoes(Head(q)) PROVE ~changed
    <3>1. /\ op[h].old.movie = watches[w].movie /\ op[h].old.filter_key = watches[w].filter_key
          /\ watches[w].filter_key = Key(watches[w].movie, watches[w].cinemas)
      BY <1>1, <1>6, <1>w, <2>5 DEF ReadCinemas, Lawful, HasJobs, Fresh, Busy, Alone, Typed, Inv, KeyNamesFilter
    <3>2. Job(h).patch = AutoLockPatch(FALSE) /\ cinemas = watches[w].cinemas
      BY <1>w, <2>5 DEF Forgoes, Job, Alone, Rows
    <3>3. new.movie = watches[w].movie /\ new.cinemas = watches[w].cinemas
      BY <2>1, <3>1, <3>2 DEF Wanted, Or, AutoLockPatch
    <3> QED
      BY <2>2, <3>1, <3>3 DEF FilterChanged
  <2>6. /\ o.at \in {"target", "write"} /\ o.id = w /\ o.jobs = q /\ o.changed = changed
        /\ ~changed => o.at = "write"
    BY <2>3
  <2>7. Lawful(o)'
    BY <1>2, <2>5, <2>6 DEF Lawful
  <2> QED
    BY <1>4, <2>4, <2>7
<1>7. CASE LookForTarget(h)
  <2>1. op[h] \in Writing /\ op[h].at = "target"
    BY <1>1, <1>7, OpForms DEF LookForTarget
  <2>2. w \in Alone => ~Forgoes(Head(q))
    BY <1>1, <1>w, <2>1 DEF Lawful, HasJobs
  <2>3. PICK o : op' = [op EXCEPT ![h] = o] /\ o.at \in {"write", "merge"} /\ o.id = w /\ o.jobs = q
    <3> DEFINE found == WithKey(Key(op[h].new.movie, op[h].new.cinemas)) \ {op[h].id}
    <3>1. CASE found = {}
      <4> DEFINE p == [op[h] EXCEPT !.at = "write"]
      <4>1. op' = [op EXCEPT ![h] = p]
        BY <1>7, <3>1 DEF LookForTarget, Typed, Inv, StoreOK
      <4>2. p.at = "write" /\ p.id = w /\ p.jobs = q
        BY <1>w, <2>1 DEF Writing
      <4> HIDE DEF p
      <4> QED
        BY <4>1, <4>2
    <3>2. CASE found # {}
      <4> DEFINE p == [at |-> "merge", id |-> op[h].id, jobs |-> op[h].jobs,
                       into |-> CHOOSE v \in found : TRUE]
      <4>1. op' = [op EXCEPT ![h] = p]
        BY <1>7, <3>2 DEF LookForTarget, Typed, Inv, StoreOK
      <4>2. p.at = "merge" /\ p.id = w /\ p.jobs = q
        BY <1>w
      <4> HIDE DEF p
      <4> QED
        BY <4>1, <4>2
    <3> QED
      BY <3>1, <3>2
  <2>4. Lawful(o)'
    BY <1>2, <2>2, <2>3 DEF Lawful
  <2> QED
    BY <1>4, <2>3, <2>4
<1> QED
  BY <1>5, <1>6, <1>7

\* A merge keeps the bindings of its target.
LEMMA MergeLocks ==
  ASSUME Typed, Locks, Recorded, NEW h \in Handlers, MergeWatchInto(h)
  PROVE  Locks'
<1>0. op[h].at = "merge" /\ op[h].at \in HasJobs /\ ~Pending(op[h])
  BY DEF MergeWatchInto, HasJobs, Pending
<1>w. PICK from, to : from = op[h].id /\ to = op[h].into
  OBVIOUS
<1>o. PICK o : op' = [op EXCEPT ![h] = o] /\ (o = Idle \/ o = Working(op[h].id, Later(h)))
  BY DEF MergeWatchInto, Fail, Done
<1>1. /\ from \in Ids /\ to \in Ids /\ to # from /\ WorksOn(h, from)
      /\ Job(h) \in UpdateJobs
  BY <1>0, <1>w, JobsForm, EditForm DEF Typed, Inv, StoreOK, OpOK
<1>2. \A g \in Handlers \ {h} : WorksOn(g, from) => from \notin Alone'
  BY <1>1, OthersOff
<1>3. from \in Alone => ~Unlocks(Job(h)) /\ ~Forgoes(Job(h))
  <2>1. ~Unlocks(Job(h))
    BY <1>1 DEF Unlocks, UpdateJobs
  <2>2. Lawful(op[h])
    BY DEF Locks
  <2> QED
    BY <1>0, <1>w, <2>1, <2>2 DEF Lawful, Job
<1>4. CASE UNCHANGED watches
  <2>1. Alone' \subseteq Alone
    BY <1>4, RowsSpared DEF Alone, Recorded
  <2>2. Lawful(o)'
    BY <1>0, <1>o, <1>w, <1>3, <2>1, RestLawful
  <2> QED
    BY <1>0, <1>4, <1>o, <2>2, RowsSpared, QuietLocksStep
<1>5. ASSUME \A v \in Rows' : v # from /\ Spared(v) PROVE Locks'
  <2>1. op[h].id \notin Alone'
    BY <1>5, <1>w DEF Alone
  <2>2. Lawful(o)'
    BY <1>0, <1>o, <2>1, RestLawful
  <2> QED
    BY <1>0, <1>5, <1>o, <2>2, QuietLocksStep
<1>6. CASE watches' = [watches EXCEPT ![from] = None]
  BY <1>1, <1>5, <1>6 DEF Spared, Rows, Exists, Typed, Inv, StoreOK
<1>7. CASE /\ Exists(from) /\ Exists(to)
           /\ watches' = [watches EXCEPT
                ![to].users = MergedUsers(watches[from].users, @),
                ![to].channels = MergedChannels(watches[from].channels, @),
                ![from] = None]
  <2> DEFINE channels == MergedChannels(watches[from].channels, watches[to].channels)
             x == [watches[to] EXCEPT !.users = MergedUsers(watches[from].users, @),
                                      !.channels = channels]
  <2>1. watches[from] \in Row /\ watches[to] \in Row /\ to \in Rows
    BY <1>1, <1>7 DEF Typed, RowsTyped, Rows
  <2>2. watches' = [watches EXCEPT ![to] = x, ![from] = None]
    BY <1>1, <1>7, <2>1 DEF Row, Typed, Inv, StoreOK
  <2>3. x.movie = watches[to].movie /\ x.auto_lock = watches[to].auto_lock /\ x.channels = channels
    BY <2>1 DEF Row
  <2>4. watches[to].channels[AutoLock].on => channels[AutoLock].on
    <3>1. AutoLock \in DOMAIN watches[to].channels /\ watches[to].channels[AutoLock] \in Bindings
      BY <2>1, ChannelsAssumption DEF Row
    <3> QED
      BY <3>1 DEF MergedChannels, Bindings
  <2> HIDE DEF x, channels
  <2>5. /\ watches'[from] = None /\ watches'[to] = x
        /\ \A v \in Ids \ {from, to} : watches'[v] = watches[v]
    BY <1>1, <2>2 DEF Typed, Inv, StoreOK
  <2>6. \A v \in Rows' : v # from /\ Spared(v)
    BY <2>1, <2>3, <2>4, <2>5 DEF Spared, Rows, Exists
  <2> QED
    BY <1>5, <2>6
<1> QED
  BY <1>4, <1>6, <1>7, <1>w DEF MergeWatchInto

\* The transaction of an edit: the flag, and the job that turns the channel after it.
LEMMA WriteLocks ==
  ASSUME Typed, Locks, Recorded, NEW h \in Handlers, WriteRow(h)
  PROVE  Locks'
<1>0. op[h].at = "write" /\ op[h].at \in HasJobs /\ ~Pending(op[h]) /\ op[h].at \in Busy
  BY DEF WriteRow, HasJobs, Pending, Busy
<1>w. PICK w, q, auto : w = op[h].id /\ q = op[h].jobs /\ auto = Job(h).patch.auto_lock
  OBVIOUS
<1>1. /\ w \in Ids /\ WorksOn(h, w) /\ q \in Queues /\ Job(h) = Head(q) /\ Head(q) \in UpdateJobs
      /\ auto = Head(q).patch.auto_lock /\ auto \in BOOLEAN \cup {Keep}
  BY <1>0, <1>w, JobsForm, EditForm DEF Job, UpdateJobs, Patched
<1>2. \A g \in Handlers \ {h} : WorksOn(g, w) => w \notin Alone /\ w \notin Alone'
  BY <1>1, OthersOff
<1>3. ~Unlocks(Head(q)) /\ (Forgoes(Head(q)) => auto = FALSE)
  BY <1>1 DEF Unlocks, Forgoes, UpdateJobs, AutoLockPatch
<1>4. /\ InOrder(q) /\ InOrder(Tail(q)) /\ Tail(q) \in Seq(Jobs)
      /\ Tail(q) # <<>> /\ Unlocks(Head(Tail(q))) => Forgoes(Head(q))
  <2>1. InOrder(q)
    BY <1>0, <1>w DEF Locks, Lawful
  <2> QED
    BY <1>1, <1>3, <2>1, OrderRest, QueueRest
<1>5. ASSUME NEW jobs, jobs = IF auto = Keep THEN Tail(q) ELSE <<SetJob(AutoLock, auto, FALSE)>> \o Tail(q)
      PROVE  /\ InOrder(jobs)
             /\ jobs # <<>> /\ Unlocks(Head(jobs)) => auto = FALSE
             /\ auto = TRUE => jobs # <<>> /\ Binds(Head(jobs))
  <2>1. CASE auto = Keep
    BY <1>3, <1>4, <1>5, <2>1, RequestsAssumption
  <2>2. CASE auto \in BOOLEAN
    <3>1. PICK j \in Jobs : j = SetJob(AutoLock, auto, FALSE)
      BY <2>2, ChannelsAssumption, JobsTyped DEF Jobs
    <3>2. (auto = FALSE => Unlocks(j)) /\ (Unlocks(j) => auto = FALSE) /\ (auto = TRUE => Binds(j))
      BY <2>2, <3>1 DEF Unlocks, Binds, SetJob
    <3>3. jobs = <<j>> \o Tail(q)
      BY <1>5, <2>2, <3>1, RequestsAssumption
    <3>4. InOrder(<<j>> \o Tail(q)) /\ <<j>> \o Tail(q) # <<>> /\ Head(<<j>> \o Tail(q)) = j
      BY <1>3, <1>4, <3>2, OrderPut
    <3> QED
      BY <3>2, <3>3, <3>4
  <2> QED
    BY <1>1, <2>1, <2>2
<1>6. CASE Fail(h) /\ UNCHANGED watches /\ (Exists(w) => ~WithKey(Key(op[h].new.movie, op[h].new.cinemas)) \subseteq {w})
  <2>1. PICK o : op' = [op EXCEPT ![h] = o] /\ (o = Idle \/ o = Working(op[h].id, Later(h)))
    BY <1>6 DEF Fail
  <2>2. w \in Alone => ~Forgoes(Head(q))
    <3> SUFFICES ASSUME w \in Alone, Forgoes(Head(q)) PROVE FALSE
      OBVIOUS
    <3>1. ~op[h].changed
      BY <1>0, <1>w DEF Locks, Lawful
    <3>2. Key(op[h].new.movie, op[h].new.cinemas) = watches[w].filter_key
      BY <1>0, <1>w, <3>1 DEF Typed, Inv, AllFresh, Fresh, Alone
    <3>3. WithKey(watches[w].filter_key) \subseteq {w}
      BY DEF Typed, Inv, OneRowPerKey, WithKey, Alone
    <3> QED
      BY <1>6, <3>2, <3>3 DEF Alone, Rows
  <2>3. Alone' \subseteq Alone
    BY <1>6, RowsSpared DEF Alone, Recorded
  <2>4. Lawful(o)'
    BY <1>0, <1>1, <1>3, <1>w, <2>1, <2>2, <2>3, RestLawful
  <2> QED
    BY <1>0, <1>6, <2>1, <2>4, RowsSpared, QuietLocksStep
<1>j. PICK jobs : jobs = IF auto = Keep THEN Later(h) ELSE <<SetJob(AutoLock, auto, FALSE)>> \o Later(h)
  OBVIOUS
<1>7. /\ InOrder(jobs)
      /\ jobs # <<>> /\ Unlocks(Head(jobs)) => auto = FALSE
      /\ auto = TRUE => jobs # <<>> /\ Binds(Head(jobs))
  BY <1>5, <1>j, <1>w DEF Later
<1>8. CASE op' = [op EXCEPT ![h] = Working(w, jobs)] /\ UNCHANGED watches /\ ~Exists(w)
  <2>1. w \notin Alone'
    BY <1>8, RowsSpared DEF Alone, Rows
  <2>2. Lawful(Working(w, jobs))'
    BY <1>7, <2>1, WorkLawful
  <2> QED
    BY <1>0, <1>8, <2>2, RowsSpared, QuietLocksStep
<1>9. CASE /\ Exists(w) /\ watches' = [watches EXCEPT ![w] = Written(@, op[h].new, op[h].changed, auto)]
           /\ op' = [op EXCEPT ![h] = Working(w, jobs)]
  <2> DEFINE x == Written(watches[w], op[h].new, op[h].changed, auto)
  <2>1. w \in Rows /\ watches[w] \in Row
    BY <1>1, <1>9 DEF Rows, Typed, RowsTyped
  <2>2. x.auto_lock = Or(auto, watches[w].auto_lock) /\ x.channels = watches[w].channels
    BY <2>1 DEF Written, Row
  <2>3. watches' = [watches EXCEPT ![w] = x]
    BY <1>9
  <2> HIDE DEF x
  <2>4. watches'[w] = x /\ \A v \in Ids \ {w} : watches'[v] = watches[v]
    BY <1>1, <2>3 DEF Typed, Inv, StoreOK
  <2>5. \A v \in Rows' \ {w} : Spared(v)
    BY <2>4 DEF Spared, Rows, Exists
  <2>6. auto \in BOOLEAN => watches'[w].auto_lock = auto
    BY <2>2, <2>4, RequestsAssumption DEF Or
  <2>7. Lawful(Working(w, jobs))'
    BY <1>7, <2>6, WorkLawful
  <2>8. ASSUME w \in Alone' PROVE Locked(w)'
    <3>1. w \in Alone /\ Locked(w)
      BY <2>1, <2>8 DEF Alone, Locks, Recorded
    <3>2. CASE auto = TRUE
      <4>1. op'[h] = [at |-> "jobs", id |-> w, jobs |-> jobs]
        BY <1>7, <1>9, <3>2 DEF Working, Typed, Inv, StoreOK
      <4>2. WorksOn(h, w)' /\ Pending(op[h])'
        BY <1>7, <3>2, <4>1 DEF WorksOn, Pending, Idle
      <4> QED
        BY <4>2 DEF Locked
    <3>3. CASE auto = FALSE
      BY <2>6, <3>3 DEF Locked
    <3>4. CASE auto = Keep
      <4>1. watches'[w].auto_lock = watches[w].auto_lock
        BY <2>2, <2>4, <3>4 DEF Or
      <4>2. ASSUME NEW g \in Handlers, WorksOn(g, w), Pending(op[g]) PROVE FALSE
        BY <1>0, <1>2, <3>1, <4>2
      <4> QED
        BY <2>2, <2>4, <3>1, <4>1, <4>2 DEF Locked
    <3> QED
      BY <1>1, <3>2, <3>3, <3>4
  <2> QED
    BY <1>0, <1>2, <1>9, <2>5, <2>7, <2>8, OneTouchedStep
<1> QED
  BY <1>6, <1>8, <1>9, <1>j, <1>w DEF WriteRow

\* A handler whose statement fails or which is dropped: what it was yet to do to the AUTO LOCK
\* channel stays undone, and its watch is none of those.
LEMMA FaultLocks ==
  ASSUME Typed, Locks, Recorded, NEW h \in Handlers, Fault(h)
  PROVE  Locks'
<1>0. UNCHANGED watches /\ op[h] \in Ops /\ DOMAIN op = Handlers
  BY DEF Fault, Typed, OpsTyped, Inv, StoreOK
<1>1. Rows' = Rows /\ \A v \in Rows' : Spared(v)
  BY <1>0, RowsSpared
<1>2. CASE op[h].at \notin HasJobs
  <2>1. ~Pending(op[h])
    BY <1>2 DEF Pending, HasJobs
  <2>2. PICK o : op' = [op EXCEPT ![h] = o] /\ Lawful(o)'
    <3>1. CASE op' = [op EXCEPT ![h] = Idle]
      BY <3>1, IdleLawful
    <3>2. CASE op[h].at = "reuse" /\ op' = [op EXCEPT ![h] = Working(@.id, Follow(@.spec))]
      <4>1. PICK w, jobs : w = op[h].id /\ jobs = Follow(op[h].spec)
        OBVIOUS
      <4>2. op[h].spec \in Requested
        BY <1>0, <3>2, OpForms DEF Reusing
      <4>3. Lawful(Working(w, jobs))'
        BY <4>1, <4>2, FollowQueue, WorkLawful DEF Startable
      <4>4. op' = [op EXCEPT ![h] = Working(w, jobs)]
        BY <1>0, <3>2, <4>1
      <4> QED
        BY <4>3, <4>4
    <3> QED
      BY <1>2, <3>1, <3>2 DEF Fault, StatementFails, CutOff, HasJobs
  <2> QED
    BY <1>1, <2>1, <2>2, QuietLocksStep
<1>3. CASE op[h].at \in HasJobs
  <2>w. PICK w, q : w = op[h].id /\ q = op[h].jobs
    OBVIOUS
  <2>o. PICK o : op' = [op EXCEPT ![h] = o] /\ (o = Idle \/ o = Working(w, Tail(q)))
    BY <1>3, <2>w DEF Fault, StatementFails, CutOff, Fail, Later, HasJobs
  <2>1. q \in Queues /\ InOrder(q) /\ WorksOn(h, w)
    BY <1>3, <2>w, JobsForm DEF Locks, Lawful
  <2>2. InOrder(Tail(q))
    BY <2>1, OrderRest
  <2>3. "jobs" \in DOMAIN op[h]
    BY <1>0, <1>3, OpForms DEF HasJobs, AtJobs, Reading, Writing, Merging
  <2>4. ASSUME w \in Alone' PROVE \A n \in DOMAIN q : ~Unlocks(q[n]) /\ ~Binds(q[n])
    <3>1. ~Unsettled(op[h])
      BY <2>w, <2>4 DEF Alone, Fault
    <3>2. \A n \in DOMAIN q : q[n].do = "update" \/ q[n].channel # AutoLock
      BY <2>w, <2>3, <3>1 DEF Unsettled
    <3> QED
      BY <3>2 DEF Unlocks, Binds
  <2>5. Head(q) = q[1] /\ 1 \in DOMAIN q /\ (Tail(q) # <<>> => Head(Tail(q)) = q[2] /\ 2 \in DOMAIN q)
    <3>1. q \in Seq(Jobs) /\ q # <<>>
      BY <2>1 DEF Queues
    <3> QED
      BY <3>1
  <2>6. Tail(q) # <<>> /\ w \in Alone' /\ Unlocks(Head(Tail(q))) => ~watches'[w].auto_lock
    BY <2>4, <2>5
  <2>7. Lawful(Working(w, Tail(q)))'
    BY <2>2, <2>6, WorkLawful
  <2>8. Lawful(o)'
    BY <2>7, <2>o, IdleLawful
  <2>9. \A g \in Handlers \ {h} : WorksOn(g, w) => w \notin Alone'
    BY <2>1, OthersOff
  <2>10. ASSUME w \in Alone' PROVE Locked(w)'
    <3>1. w \in Alone /\ Locked(w)
      BY <1>1, <2>10 DEF Alone, Recorded, Locks
    <3>2. ASSUME NEW g \in Handlers, WorksOn(g, w), Pending(op[g]) PROVE FALSE
      <4>1. g = h
        BY <2>9, <2>10, <3>2
      <4>2. Binds(Head(q))
        BY <2>w, <3>2, <4>1 DEF Pending
      <4> QED
        BY <2>4, <2>5, <2>10, <4>2
    <3> QED
      BY <1>0, <3>1, <3>2 DEF Locked
  <2>11. \A v : WorksOn(h, v) /\ Pending(op[h]) => v = w
    BY <2>w DEF WorksOn
  <2>12. op' = [op EXCEPT ![h] = o] /\ \A v \in Rows' \ {w} : Spared(v)
    BY <1>1, <2>o
  <2> QED
    BY <2>8, <2>9, <2>10, <2>11, <2>12, OneTouchedStep
<1> QED
  BY <1>2, <1>3

\* Rows and handlers keep the flag and the binding together throughout.
LEMMA StepLocks == Typed /\ Locks /\ [Next]_vars => Locks'
<1> SUFFICES ASSUME Typed, Locks, [Next]_vars PROVE Locks'
  OBVIOUS
<1>0. Typed'
  BY StepTyped
<1>1. CASE UNCHANGED vars
  BY <1>1 DEF vars, Locks, Lawful, Alone, Locked, WorksOn, Pending, Rows, Exists
<1>2. ASSUME NEW h \in Handlers, Request(h) \/ Proceed(h), Recorded
      PROVE  Locks'
  BY <1>0, <1>2, RequestLocks, CreationLocks, FlagLocks, ChannelLocks, EditReadsLocks, MergeLocks,
     WriteLocks DEF Proceed
<1>3. CASE Ordinary /\ Recorded
  BY <1>2, <1>3, StatementLocks DEF Ordinary
<1>4. ASSUME NEW h \in Handlers, Fault(h), Recorded PROVE Locks'
  BY <1>4, FaultLocks
<1>5. ASSUME Next PROVE Recorded
  BY <1>5 DEF Next, Ordinary, Fault, Recorded
<1> QED
  BY <1>1, <1>3, <1>4, <1>5 DEF Next

\* They are together throughout.
LEMMA LocksInvariant == Spec => []Locks
<1>1. Init => Locks
  BY DEF Init, Locks, Lawful, Alone, Rows, Exists, Idle, HasJobs
<1> QED
  BY <1>1, StepLocks, TypesInvariant, PTL DEF Spec

\* Once the requests on it are through, a watch that locks by itself has its AUTO LOCK channel
\* bound (db.rs:660, 702, 791), although the flag and the binding are written one after the other,
\* unless a request was cut off or failed with its work on the channel left to do.
THEOREM ChannelWithFlag == Spec => []AutoLockHasItsChannel
<1>1. Locks => AutoLockHasItsChannel
  BY DEF Locks, Locked, Alone, AutoLockHasItsChannel
<1> QED
  BY <1>1, LocksInvariant, PTL
=============================================================================
