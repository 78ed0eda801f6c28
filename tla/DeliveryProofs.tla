--------------------------- MODULE DeliveryProofs ---------------------------
(***************************************************************************)
(* Proofs about Delivery, for any events, any channels and any bounds: the *)
(* types, with at most three tries of a receiver, what "sent" in the panel *)
(* means, and which channels an event reaches.                             *)
(***************************************************************************)
EXTENDS Delivery, TLAPS

Waiting == {"unraised", "settings", "channels", "bindings"}

TaskType == [at : Stages, chosen : SUBSET Channels, globals : SUBSET Channels]
DeliveryType ==
  [at : {"off", "posting", "taken", "missed", "pause", "done", "killed"}, tries : 0..3]

-----------------------------------------------------------------------------
(* The invariant, by its parts.                                            *)

\* Before its fan-out a task has sent nothing.
NothingBeforeFanOut ==
  \A e \in Events : task[e].at \in Waiting =>
    \A c \in Channels : delivery[e][c] = Off /\ received[e][c] = 0 /\ log[e][c] = None

\* A receiver takes no more than what was tried, and a channel that is to be served
\* has a try left.
TriesCount ==
  \A e \in Events, c \in Channels :
    /\ received[e][c] <= delivery[e][c].tries
    /\ delivery[e][c].at \in {"posting", "pause"} => delivery[e][c].tries < Tries(c)
    /\ delivery[e][c].at = "taken" => received[e][c] > 0

\* Whom a task has chosen, or may still choose, was in force since its event was raised.
ChosenInForce ==
  \A e \in Events \ Tests :
    /\ task[e].at = "unraised" => task[e].chosen = {}
    /\ task[e].at \in {"settings", "channels"} => WatchChannels \subseteq inForce[e]
    /\ task[e].chosen \subseteq inForce[e]
    /\ \A c \in Channels : delivery[e][c].at # "off" => c \in inForce[e]

Inv == TypeOK /\ NothingBeforeFanOut /\ TriesCount /\ SentIsTaken /\ ChosenInForce /\ OnlyChosen

-----------------------------------------------------------------------------
\* Every channel is served at least once and at most three times.
LEMMA TriesRange ==
  ASSUME NEW c \in Channels
  PROVE  Tries(c) \in 1..3
  BY DEF Tries

\* A task that moves to another stage keeps what it has read.
LEMMA TaskMoves ==
  ASSUME TypeOK, NEW e \in Events, NEW stage \in Stages
  PROVE  LET t == [task[e] EXCEPT !.at = stage]
         IN  /\ t \in TaskType /\ t.at = stage
             /\ t.chosen = task[e].chosen /\ t.globals = task[e].globals
             /\ [task EXCEPT ![e].at = stage] = [task EXCEPT ![e] = t]
<1>1. task[e] \in TaskType
  BY DEF TypeOK, TaskType
<1> QED
  BY <1>1 DEF TypeOK, TaskType

\* The invariant holds initially.
LEMMA InitInv == Init => Inv
  BY TriesRange DEF Init, Inv, TypeOK, NothingBeforeFanOut, TriesCount, SentIsTaken, ChosenInForce,
     OnlyChosen, Off, None, Stages, Waiting, WatchChannels

-----------------------------------------------------------------------------
(* Steps of an event's task.                                               *)

\* Raising an event: its channels are the ones in force now.
LEMMA RaiseInv ==
  ASSUME Inv, NEW e \in Events, Raise(e)
  PROVE  Inv'
<1> USE DEF Inv
<1>1. TypeOK'
  <2>1. WatchChannels \subseteq Channels
    BY DEF WatchChannels
  <2>2. task' \in [Events -> TaskType]
    BY TaskMoves DEF TypeOK, TaskType, Raise, Stages
  <2> QED
    BY <2>1, <2>2 DEF TypeOK, TaskType, Raise, rows
<1>2. NothingBeforeFanOut'
  BY DEF TypeOK, Raise, rows, NothingBeforeFanOut, Waiting, Stages
<1>3. TriesCount' /\ SentIsTaken'
  BY DEF Raise, TriesCount, SentIsTaken
<1>4. ChosenInForce'
  BY DEF TypeOK, Raise, rows, ChosenInForce, NothingBeforeFanOut, Waiting, WatchChannels, Off
<1>5. OnlyChosen'
  BY DEF TypeOK, Raise, OnlyChosen, NothingBeforeFanOut, Waiting
<1> QED
  BY <1>1, <1>2, <1>3, <1>4, <1>5

\* The three reads, failing or not, and the end: nothing is sent by them.
LEMMA ReadsInv ==
  ASSUME Inv, NEW e \in Events, ReadSettings(e) \/ ReadFails(e) \/ ReadChannels(e) \/ Join(e)
  PROVE  Inv'
<1> USE DEF Inv
<1>u. UNCHANGED <<rows, delivery, log, received, inForce>>
  BY DEF ReadSettings, ReadFails, ReadChannels, Join
<1>t. PICK t \in TaskType :
        /\ task' = [task EXCEPT ![e] = t]
        /\ t.at \in Waiting => task[e].at \in Waiting
        /\ t.at \notin {"unraised", "settings"}
        /\ t.at = "channels" => task[e].at = "settings"
        /\ e \notin Tests => \/ t.chosen = task[e].chosen
                             \/ task[e].at = "channels" /\ t.chosen = WatchChannels
  <2>0. {"done", "channels"} \subseteq Stages
    BY DEF Stages
  <2>2. CASE ReadSettings(e)
    <3>1. PICK s \in {"done", "channels"} : task' = [task EXCEPT ![e].at = s]
      BY <2>2 DEF ReadSettings
    <3> QED
      BY <2>0, <2>2, <3>1, TaskMoves DEF ReadSettings, Waiting
  <2>3. CASE ReadFails(e)
    BY <2>0, <2>3, TaskMoves DEF ReadFails, Waiting
  <2>4. CASE Join(e)
    BY <2>0, <2>4, TaskMoves DEF Join, Waiting
  <2>5. CASE ReadChannels(e)
    <3>1. PICK chosen \in SUBSET Channels :
            /\ e \notin Tests => chosen = WatchChannels
            /\ task' = [task EXCEPT ![e] = [at |-> "bindings", chosen |-> chosen,
                                            globals |-> {c \in Channels : channel[c].address}]]
      BY <2>5 DEF ReadChannels, WatchChannels
    <3>2. [at |-> "bindings", chosen |-> chosen, globals |-> {c \in Channels : channel[c].address}]
            \in TaskType
      BY DEF TaskType, Stages
    <3> QED
      BY <2>5, <3>1, <3>2 DEF ReadChannels, Waiting
  <2> QED
    BY <2>2, <2>3, <2>4, <2>5
<1>1. TypeOK'
  BY <1>u, <1>t DEF TypeOK, TaskType, rows
<1>2. NothingBeforeFanOut'
  BY <1>u, <1>t DEF TypeOK, NothingBeforeFanOut
<1>3. TriesCount' /\ SentIsTaken' /\ OnlyChosen'
  BY <1>u DEF TriesCount, SentIsTaken, OnlyChosen
<1>4. ChosenInForce'
  BY <1>u, <1>t DEF TypeOK, ChosenInForce, WatchChannels, rows
<1> QED
  BY <1>1, <1>2, <1>3, <1>4

\* The fan-out opens a task per chosen channel, each with all its tries.
LEMMA FanOutInv ==
  ASSUME Inv, NEW e \in Events, NEW failed \in BOOLEAN, FanOut(e, failed)
  PROVE  Inv'
<1> USE DEF Inv
<1>d. PICK d \in [Channels -> DeliveryType] :
        /\ delivery' = [delivery EXCEPT ![e] = d]
        /\ \A c \in Channels : /\ d[c].tries = 0 /\ d[c].at \in {"off", "posting", "done"}
                               /\ d[c].at # "off" => c \in task[e].chosen
  <2> DEFINE own(c) == ~failed /\ binding[c].exists /\ binding[c].address
                         /\ (e \in Tests => binding[c].enabled)
             ready == {c \in task[e].chosen : HasAddress(c, c \in task[e].globals, own(c))}
             d == [c \in Channels |-> CASE c \in ready -> [at |-> "posting", tries |-> 0]
                                        [] c \in task[e].chosen \ ready -> [at |-> "done", tries |-> 0]
                                        [] OTHER -> Off]
  <2>1. delivery' = [delivery EXCEPT ![e] = d]
    BY DEF FanOut
  <2> HIDE DEF own
  <2>2. ASSUME NEW c \in Channels
        PROVE  /\ d[c] \in DeliveryType /\ d[c].tries = 0 /\ d[c].at \in {"off", "posting", "done"}
               /\ d[c].at # "off" => c \in task[e].chosen
    <3>1. CASE c \in ready
      BY <3>1 DEF DeliveryType
    <3>2. CASE c \in task[e].chosen \ ready
      BY <3>2 DEF DeliveryType
    <3>3. CASE c \notin task[e].chosen
      BY <3>3 DEF DeliveryType, Off
    <3> QED
      BY <3>1, <3>2, <3>3
  <2> HIDE DEF d
  <2>3. d \in [Channels -> DeliveryType]
    BY <2>2 DEF d
  <2> QED
    BY <2>1, <2>2, <2>3
<1>l. PICK l \in [Channels -> {None, "failed"}] : log' = [log EXCEPT ![e] = l]
  BY DEF FanOut
<1>u. /\ task[e].at = "bindings" /\ task' = [task EXCEPT ![e].at = "joining", ![e].globals = {}]
      /\ UNCHANGED <<rows, received, inForce>>
  BY DEF FanOut
<1>z. \A c \in Channels : received[e][c] = 0
  BY <1>u DEF NothingBeforeFanOut, Waiting
<1>1. TypeOK'
  <2>1. task' \in [Events -> TaskType]
    <3>1. [task[e] EXCEPT !.at = "joining", !.globals = {}] \in TaskType
      <4>1. task[e] \in TaskType /\ "joining" \in Stages /\ {} \in SUBSET Channels
        BY DEF TypeOK, TaskType, Stages
      <4> QED
        BY <4>1 DEF TaskType
    <3> QED
      BY <1>u, <3>1 DEF TypeOK, TaskType
  <2>2. delivery' \in [Events -> [Channels -> DeliveryType]]
    BY <1>d DEF TypeOK, DeliveryType
  <2>3. log' \in [Events -> [Channels -> {None, "failed", "sent"}]]
    BY <1>l DEF TypeOK
  <2> QED
    BY <1>u, <2>1, <2>2, <2>3 DEF TypeOK, TaskType, DeliveryType, rows
<1>2. NothingBeforeFanOut'
  BY <1>d, <1>l, <1>u DEF TypeOK, NothingBeforeFanOut, Waiting
<1>3. TriesCount'
  <2>1. ASSUME NEW c \in Channels
        PROVE  /\ delivery'[e][c].tries = 0 /\ delivery'[e][c].at \in {"off", "posting", "done"}
               /\ received'[e][c] = 0 /\ Tries(c) > 0
    <3>1. delivery'[e] = d
      BY <1>d DEF TypeOK
    <3> QED
      BY <1>d, <1>u, <1>z, <3>1, TriesRange
  <2>2. \A f \in Events \ {e} : delivery'[f] = delivery[f] /\ received'[f] = received[f]
    BY <1>d, <1>u DEF TypeOK
  <2> QED
    BY <2>1, <2>2 DEF TriesCount
<1>4. SentIsTaken'
  BY <1>l, <1>u DEF TypeOK, SentIsTaken, None
<1>5. ChosenInForce'
  BY <1>d, <1>u DEF TypeOK, ChosenInForce, WatchChannels, rows
<1>6. OnlyChosen'
  BY <1>u DEF OnlyChosen
<1> QED
  BY <1>1, <1>2, <1>3, <1>4, <1>5, <1>6

-----------------------------------------------------------------------------
(* Steps of a channel's task.                                              *)

\* What serving a channel leaves behind: its record, its count and its line.
Leaves(e, c, d, n, line) ==
  /\ delivery[e][c].at # "off"
  /\ d \in DeliveryType /\ n \in 0..3 /\ line \in {None, "failed", "sent"}
  /\ delivery' = [delivery EXCEPT ![e][c] = d]
  /\ received' = [received EXCEPT ![e][c] = n]
  /\ log' = [log EXCEPT ![e][c] = line]
  /\ n <= d.tries /\ n >= received[e][c]
  /\ d.at \in {"posting", "pause"} => d.tries < Tries(c)
  /\ d.at = "taken" => n > 0
  /\ line = "sent" => n > 0

\* A step to another stage that neither tries nor sends.
LEMMA StageLeaves ==
  ASSUME Inv, NEW e \in Events, NEW c \in Channels,
         NEW stage \in {"posting", "pause", "done"}, NEW line \in {None, "failed", "sent"},
         delivery[e][c].at \in {"taken", "missed", "pause"}, At(e, c, stage),
         stage # "done" => delivery[e][c].tries < Tries(c),
         line = "sent" => received[e][c] > 0,
         log' = [log EXCEPT ![e][c] = line], UNCHANGED received
  PROVE  Leaves(e, c, [delivery[e][c] EXCEPT !.at = stage], received[e][c], line)
<1> DEFINE d == [delivery[e][c] EXCEPT !.at = stage]
<1>1. /\ delivery[e][c] \in DeliveryType /\ received[e][c] \in 0..3
      /\ received[e][c] <= delivery[e][c].tries
  BY DEF Inv, TypeOK, DeliveryType, TriesCount
<1>2. d \in DeliveryType /\ d.at = stage /\ d.tries = delivery[e][c].tries
  BY <1>1 DEF DeliveryType
<1>3. delivery' = [delivery EXCEPT ![e][c] = d] /\ received' = [received EXCEPT ![e][c] = received[e][c]]
  BY DEF At, Inv, TypeOK
<1> HIDE DEF d
<1>4. /\ received[e][c] <= d.tries /\ received[e][c] >= received[e][c]
      /\ d.at \in {"posting", "pause"} => d.tries < Tries(c)
  BY <1>1, <1>2
<1>5. delivery[e][c].at # "off" /\ (d.at = "taken" => received[e][c] > 0)
  BY <1>2
<1>6. Leaves(e, c, d, received[e][c], line)
  BY <1>1, <1>2, <1>3, <1>4, <1>5, Zenon DEF Leaves
<1> QED
  BY <1>6 DEF d

\* Every step that serves a channel is of that form.
LEMMA ServeLeaves ==
  ASSUME Inv, NEW e \in Events, NEW c \in Channels, Serve(e, c)
  PROVE  \E d, n, line : Leaves(e, c, d, n, line)
<1>0. /\ delivery[e][c] \in DeliveryType /\ received[e][c] \in 0..3
      /\ log[e][c] \in {None, "failed", "sent"} /\ Tries(c) \in 1..3
      /\ log[e][c] = "sent" => received[e][c] > 0
  BY TriesRange DEF Inv, TypeOK, DeliveryType, SentIsTaken
<1>l. log = [log EXCEPT ![e][c] = log[e][c]] /\ received = [received EXCEPT ![e][c] = received[e][c]]
  BY DEF Inv, TypeOK
<1>1. CASE Take(e, c)
  <2> DEFINE d == [delivery[e][c] EXCEPT !.at = "taken", !.tries = @ + 1]
  <2>1. /\ delivery[e][c].at = "posting" /\ delivery[e][c].tries < Tries(c)
        /\ received[e][c] <= delivery[e][c].tries
    BY <1>1 DEF Inv, Take, MaySend, TriesCount
  <2>2. delivery[e][c].tries \in 0..3 /\ delivery[e][c].tries + 1 \in 0..3
    <3>1. delivery[e][c].tries \in 0..3
      BY <1>0 DEF DeliveryType
    <3> QED
      BY <1>0, <2>1, <3>1
  <2>3. d \in DeliveryType /\ d.at = "taken" /\ d.tries = delivery[e][c].tries + 1
    BY <1>0, <2>2 DEF DeliveryType
  <2>4. /\ delivery' = [delivery EXCEPT ![e][c] = d]
        /\ received' = [received EXCEPT ![e][c] = received[e][c] + 1]
    BY <1>1 DEF Take, Inv, TypeOK
  <2> HIDE DEF d
  <2>5. /\ received[e][c] + 1 \in 0..3 /\ received[e][c] + 1 <= d.tries /\ received[e][c] + 1 >= received[e][c]
        /\ d.at = "taken" => received[e][c] + 1 > 0
        /\ log[e][c] = "sent" => received[e][c] + 1 > 0
    BY <1>0, <2>1, <2>2, <2>3
  <2>6. delivery[e][c].at # "off" /\ d.at \notin {"posting", "pause"}
    BY <2>1, <2>3
  <2>7. received' = [received EXCEPT ![e][c] = received[e][c] + 1] /\ log' = [log EXCEPT ![e][c] = log[e][c]]
    BY <1>1, <1>l, <2>4 DEF Take
  <2>8. Leaves(e, c, d, received[e][c] + 1, log[e][c])
    BY <1>0, <2>3, <2>4, <2>5, <2>6, <2>7, Zenon DEF Leaves
  <2> QED
    BY <2>8
<1>2. CASE Miss(e, c)
  <2> DEFINE d == [delivery[e][c] EXCEPT !.at = "missed", !.tries = @ + 1]
  <2>1. /\ delivery[e][c].at = "posting" /\ delivery[e][c].tries < Tries(c)
        /\ received[e][c] <= delivery[e][c].tries
    BY <1>2 DEF Inv, Miss, MaySend, TriesCount
  <2>2. delivery[e][c].tries \in 0..3 /\ delivery[e][c].tries + 1 \in 0..3
    <3>1. delivery[e][c].tries \in 0..3
      BY <1>0 DEF DeliveryType
    <3> QED
      BY <1>0, <2>1, <3>1
  <2>3. d \in DeliveryType /\ d.at = "missed" /\ d.tries = delivery[e][c].tries + 1
    BY <1>0, <2>2 DEF DeliveryType
  <2>4. delivery' = [delivery EXCEPT ![e][c] = d]
    BY <1>2 DEF Miss, Inv, TypeOK
  <2> HIDE DEF d
  <2>5. /\ received[e][c] \in 0..3 /\ received[e][c] <= d.tries /\ received[e][c] >= received[e][c]
        /\ d.at = "taken" => received[e][c] > 0
        /\ log[e][c] = "sent" => received[e][c] > 0
    BY <1>0, <2>1, <2>2, <2>3
  <2>6. delivery[e][c].at # "off" /\ d.at \notin {"posting", "pause"}
    BY <2>1, <2>3
  <2>7. received' = [received EXCEPT ![e][c] = received[e][c]] /\ log' = [log EXCEPT ![e][c] = log[e][c]]
    BY <1>2, <1>l, <2>4 DEF Miss
  <2>8. Leaves(e, c, d, received[e][c], log[e][c])
    BY <1>0, <2>3, <2>4, <2>5, <2>6, <2>7, Zenon DEF Leaves
  <2> QED
    BY <2>8
<1>3. CASE Answered(e, c)
  <2>1. received[e][c] > 0
    BY <1>3 DEF Answered, Inv, TriesCount
  <2> QED
    BY <1>3, <2>1, StageLeaves DEF Answered
<1>4. CASE Unanswered(e, c)
  <2>1. CASE delivery[e][c].tries < Tries(c)
    BY <1>0, <1>4, <1>l, <2>1, StageLeaves DEF Unanswered
  <2>2. CASE ~(delivery[e][c].tries < Tries(c))
    BY <1>4, <2>2, StageLeaves DEF Unanswered, Says
  <2> QED
    BY <2>1, <2>2
<1>5. CASE TryAgain(e, c)
  <2>1. delivery[e][c].tries < Tries(c)
    BY <1>5 DEF TryAgain, Inv, TriesCount
  <2> QED
    BY <1>0, <1>5, <1>l, <2>1, StageLeaves DEF TryAgain
<1> QED
  BY <1>1, <1>2, <1>3, <1>4, <1>5 DEF Serve

\* Serving a channel keeps the invariant.
LEMMA ServeInv ==
  ASSUME Inv, NEW e \in Events, NEW c \in Channels, Serve(e, c)
  PROVE  Inv'
<1> USE DEF Inv
<1>s. PICK d, n, line : Leaves(e, c, d, n, line)
  BY ServeLeaves
<1>u. UNCHANGED <<rows, task, inForce>>
  BY DEF Serve, Take, Miss, Answered, Unanswered, TryAgain
<1>w. task[e].at \notin Waiting
  BY <1>s DEF Leaves, NothingBeforeFanOut, Off
<1>1. TypeOK'
  BY <1>s, <1>u DEF Leaves, TypeOK, DeliveryType, rows
<1>2. NothingBeforeFanOut'
  BY <1>s, <1>u, <1>w DEF Leaves, TypeOK, NothingBeforeFanOut
<1>3. TriesCount'
  BY <1>s DEF Leaves, TypeOK, TriesCount
<1>4. SentIsTaken'
  BY <1>s DEF Leaves, TypeOK, SentIsTaken
<1>5. ChosenInForce'
  BY <1>s, <1>u DEF Leaves, TypeOK, ChosenInForce, WatchChannels, rows
<1>6. OnlyChosen'
  <2>1. e \notin Tests => c \in inForce[e]
    BY <1>s DEF Leaves, ChosenInForce
  <2> QED
    BY <1>s, <1>u, <2>1 DEF Leaves, TypeOK, OnlyChosen
<1> QED
  BY <1>1, <1>2, <1>3, <1>4, <1>5, <1>6

-----------------------------------------------------------------------------
(* Handlers and crashes.                                                   *)

\* An edit adds the channels now in force to every event under way.
LEMMA EditInv ==
  ASSUME Inv, Edit,
         channel' \in [Channels -> [enabled : BOOLEAN, address : BOOLEAN]],
         binding' \in [Channels -> [exists : BOOLEAN, enabled : BOOLEAN, address : BOOLEAN]]
  PROVE  Inv'
<1> USE DEF Inv
<1>u. UNCHANGED <<task, delivery, log, received>>
  BY DEF Edit
<1>f. /\ inForce' \in [Events -> SUBSET Channels]
      /\ \A e \in Events : inForce[e] \subseteq inForce'[e]
      /\ \A e \in Events : Running(e) => WatchChannels' \subseteq inForce'[e]
  BY DEF Edit, TypeOK, WatchChannels
<1>1. TypeOK'
  BY <1>u, <1>f DEF TypeOK
<1>2. NothingBeforeFanOut' /\ TriesCount' /\ SentIsTaken'
  BY <1>u DEF NothingBeforeFanOut, TriesCount, SentIsTaken
<1>3. ChosenInForce'
  BY <1>u, <1>f DEF ChosenInForce, Running
<1>4. OnlyChosen'
  BY <1>u, <1>f DEF OnlyChosen
<1> QED
  BY <1>1, <1>2, <1>3, <1>4

\* A crash forgets tasks and lines, and gives no task a channel.
LEMMA CrashInv ==
  ASSUME Inv, Crash
  PROVE  Inv'
<1> USE DEF Inv
<1>u. UNCHANGED <<rows, received, inForce>>
  BY DEF Crash
<1>t. /\ task' \in [Events -> TaskType]
      /\ \A e \in Events : /\ task'[e].at \in {task[e].at, "killed"}
                           /\ task'[e].chosen = task[e].chosen
  <2>1. \A e \in Events : task[e] \in TaskType
    BY DEF TypeOK, TaskType
  <2>2. \A e \in Events : [task[e] EXCEPT !.at = "killed"] \in TaskType
    BY <2>1 DEF TaskType, Stages
  <2> QED
    BY <2>1, <2>2 DEF Crash, TaskType
<1>d. /\ delivery' \in [Events -> [Channels -> DeliveryType]]
      /\ \A e \in Events, c \in Channels :
           \/ delivery'[e][c] = delivery[e][c] /\ delivery[e][c].at \in {"off", "done"}
           \/ /\ delivery'[e][c].at = "killed" /\ delivery'[e][c].tries = delivery[e][c].tries
              /\ delivery[e][c].at # "off"
  <2>1. \A e \in Events, c \in Channels : delivery[e][c] \in DeliveryType
    BY DEF TypeOK, DeliveryType
  <2>2. \A e \in Events, c \in Channels : [delivery[e][c] EXCEPT !.at = "killed"] \in DeliveryType
    BY <2>1 DEF DeliveryType
  <2> QED
    BY <2>1, <2>2 DEF Crash, DeliveryType
<1>l. log' = [e \in Events |-> [c \in Channels |-> None]]
  BY DEF Crash
<1>1. TypeOK'
  BY <1>u, <1>t, <1>d, <1>l DEF TypeOK, TaskType, DeliveryType, rows, None
<1>2. NothingBeforeFanOut'
  BY <1>u, <1>t, <1>d, <1>l DEF NothingBeforeFanOut, Waiting, Off
<1>3. TriesCount'
  BY <1>u, <1>d DEF TriesCount
<1>4. SentIsTaken'
  BY <1>l DEF SentIsTaken, None
<1>5. ChosenInForce'
  BY <1>u, <1>t, <1>d DEF ChosenInForce, WatchChannels, rows
<1>6. OnlyChosen'
  BY <1>u DEF OnlyChosen
<1> QED
  BY <1>1, <1>2, <1>3, <1>4, <1>5, <1>6

\* What the handlers write are rows.
LEMMA HandlersInv ==
  ASSUME Inv, Elsewhere
  PROVE  Inv'
<1>0. /\ channel \in [Channels -> [enabled : BOOLEAN, address : BOOLEAN]]
      /\ binding \in [Channels -> [exists : BOOLEAN, enabled : BOOLEAN, address : BOOLEAN]]
  BY DEF Inv, TypeOK
<1>1. ASSUME NEW c \in Channels, NEW a \in BOOLEAN, SetAddress(c, a) PROVE Inv'
  BY <1>0, <1>1, EditInv DEF SetAddress
<1>2. ASSUME NEW c \in Channels, NEW on \in BOOLEAN, SetEnabled(c, on) PROVE Inv'
  BY <1>0, <1>2, EditInv DEF SetEnabled
<1>3. ASSUME NEW c \in Channels, NEW a \in BOOLEAN, Bind(c, a) PROVE Inv'
  BY <1>0, <1>3, EditInv DEF Bind
<1>4. ASSUME NEW c \in Channels, Unbind(c) PROVE Inv'
  BY <1>0, <1>4, EditInv DEF Unbind
<1>5. CASE DeleteWatch
  BY <1>0, <1>5, EditInv DEF DeleteWatch
<1>6. CASE Crash
  BY <1>6, CrashInv
<1> QED
  BY <1>1, <1>2, <1>3, <1>4, <1>5, <1>6 DEF Elsewhere

\* Every step keeps the invariant.
LEMMA StepInv == Inv /\ [Next]_vars => Inv'
<1> SUFFICES ASSUME Inv, [Next]_vars PROVE Inv'
  OBVIOUS
<1>1. ASSUME NEW e \in Events, Raise(e) PROVE Inv'
  BY <1>1, RaiseInv
<1>2. ASSUME NEW e \in Events, Step(e) PROVE Inv'
  BY <1>2, ReadsInv, FanOutInv DEF Step
<1>3. ASSUME NEW e \in Events, NEW c \in Channels, Serve(e, c) PROVE Inv'
  BY <1>3, ServeInv
<1>4. CASE Elsewhere
  BY <1>4, HandlersInv
<1>5. CASE UNCHANGED vars
  BY <1>5 DEF vars, rows, Inv, TypeOK, NothingBeforeFanOut, TriesCount, SentIsTaken, ChosenInForce,
              OnlyChosen, WatchChannels
<1> QED
  BY <1>1, <1>2, <1>3, <1>4, <1>5 DEF Next

-----------------------------------------------------------------------------
(* Theorems.                                                               *)

\* The invariant holds throughout.
LEMMA Invariant == Spec => []Inv
  BY InitInv, StepInv, PTL DEF Spec

\* Rows, tasks and lines are well formed, and nobody is tried more than three times
\* (notify_results_webhook_async).
THEOREM TypeCorrect == Spec => []TypeOK
<1>1. Inv => TypeOK
  BY DEF Inv
<1> QED
  BY <1>1, Invariant, PTL

\* What the panel says was sent was taken by its receiver (log_result).
THEOREM SentWasTaken == Spec => []SentIsTaken
<1>1. Inv => SentIsTaken
  BY DEF Inv
<1> QED
  BY <1>1, Invariant, PTL

\* An event reaches only channels enabled and bound since it was raised (watch_channels).
THEOREM ReachesOnlyChosen == Spec => []OnlyChosen
<1>1. Inv => OnlyChosen
  BY DEF Inv
<1> QED
  BY <1>1, Invariant, PTL
=============================================================================
