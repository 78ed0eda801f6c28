------------------------------ MODULE Delivery ------------------------------
(***************************************************************************)
(* The fan-out of one watch's events to its channels: dispatch_trigger,    *)
(* dispatch_lock_result and test_channel (dispatcher.rs) with the senders  *)
(* they call (post_agent, notify.rs), the handlers that edit channels and  *)
(* bindings while a task is under way, and the process being killed.       *)
(*                                                                         *)
(* The receivers - webhook servers, Gofer, msmtp - are external: each may  *)
(* take a message and still not answer, answer with an error, or, for      *)
(* msmtp, which has no time limit, never end.  Channels of type autolock   *)
(* are filtered out of every fan-out, and those of mini programmes are     *)
(* counted only (deliver_channel): both are left out here.                 *)
(***************************************************************************)
EXTENDS Naturals, FiniteSets

CONSTANTS
  Triggers,   \* events raised by the monitoring loop
  Results,    \* lock results Gofer calls back with
  Tests,      \* presses of a channel's test button
  Webhooks, Agents, Mails,   \* the channels by how they are served
  MaxEvents,  \* bound: events raised; they meet in the rows alone, which Edit changes at will
  MaxEdits,   \* bound: edits of channels and bindings
  MaxCrashes  \* bound: how often the process is killed

Events == Triggers \cup Results \cup Tests
Channels == Webhooks \cup Agents \cup Mails

VARIABLES
  channel,    \* channel -> its row: enabled, and whether config_json has an address
  binding,    \* channel -> the watch's row for it: present, enabled, has an address
  task,       \* event -> how far its task is, and the rows it has read
  delivery,   \* event -> channel -> the task that serves it
  log,        \* event -> channel -> the line the panel shows
  received,   \* event -> channel -> how many copies the receiver took
  \* history, read by properties only
  inForce,    \* event -> channels enabled and bound at some time since it was raised
  used        \* how much of each bound is used up

rows == <<channel, binding>>
vars == <<rows, task, delivery, log, received, inForce, used>>

-----------------------------------------------------------------------------
(* Values.                                                                 *)

None == "none"        \* no line in the panel yet

\* effective_channel_config, then the sender's own look for an address: the
\* binding's value goes before the channel's, Gofer falls back on the settings.
\* Of an address only counts whether there is one.
HasAddress(c, global, own) == own \/ global \/ c \in Agents

\* watch_channels: both rows must be enabled.
WatchChannels ==
  {c \in Channels : channel[c].enabled /\ binding[c].exists /\ binding[c].enabled}

Off == [at |-> "off", tries |-> 0]
Running(e) == task[e].at \notin {"unraised", "done", "killed"}
Spend(what) == used' = [used EXCEPT ![what] = @ + 1]

Init ==
  /\ channel = [c \in Channels |-> [enabled |-> TRUE, address |-> TRUE]]
  /\ binding = [c \in Channels |-> [exists |-> TRUE, enabled |-> TRUE, address |-> FALSE]]
  /\ task = [e \in Events |-> [at |-> "unraised", chosen |-> {}, globals |-> {}]]
  /\ delivery = [e \in Events |-> [c \in Channels |-> Off]]
  /\ log = [e \in Events |-> [c \in Channels |-> None]]
  /\ received = [e \in Events |-> [c \in Channels |-> 0]]
  /\ inForce = [e \in Events |-> {}]
  /\ used = [event |-> 0, edit |-> 0, crash |-> 0]

-----------------------------------------------------------------------------
(* The task of an event.                                                   *)

\* The loop, Gofer's callback and the panel each spawn a task for their event.
Raise(e) ==
  /\ used.event < MaxEvents
  /\ task[e].at = "unraised"
  /\ task' = [task EXCEPT ![e].at = "settings"]
  /\ inForce' = [inForce EXCEPT ![e] = WatchChannels]
  /\ Spend("event")
  /\ UNCHANGED <<rows, delivery, log, received>>

\* Settings::load; a lock result, and it alone, goes no further when the clock is
\* within the silent window now.
ReadSettings(e) ==
  /\ task[e].at = "settings"
  /\ \E silent \in IF e \in Results THEN BOOLEAN ELSE {FALSE} :
       task' = [task EXCEPT ![e].at = IF silent THEN "done" ELSE "channels"]
  /\ UNCHANGED <<rows, delivery, log, received, inForce, used>>

\* The statement fails: the event goes to nobody.
ReadFails(e) ==
  /\ task[e].at \in {"settings", "channels"}
  /\ task' = [task EXCEPT ![e].at = "done"]
  /\ UNCHANGED <<rows, delivery, log, received, inForce, used>>

\* Mutant: the statement asks for an enabled channel, but not for its binding.
ReadChannelsUnbound(e) ==
  /\ task[e].at = "channels"
  /\ task' = [task EXCEPT ![e] = [at |-> "bindings",
                                  chosen |-> {c \in Channels : channel[c].enabled},
                                  globals |-> {c \in Channels : channel[c].address}]]
  /\ UNCHANGED <<rows, delivery, log, received, inForce, used>>

\* watch_channels, or for a test get_channel, which asks for no binding.
ReadChannels(e) ==
  /\ task[e].at = "channels"
  /\ \E chosen \in IF e \in Tests
                   THEN {{c} : c \in {d \in Channels : channel[d].enabled}}
                   ELSE {WatchChannels} :
       task' = [task EXCEPT ![e] = [at |-> "bindings", chosen |-> chosen,
                                    globals |-> {c \in Channels : channel[c].address}]]
  /\ UNCHANGED <<rows, delivery, log, received, inForce, used>>

\* watch_channel_bindings keeps the rows of unbound channels, the test's
\* watch_channel_config does not; an error of either reads as no binding at all.
\* Then every chosen channel gets a task of its own, which fails without an
\* address before it sends anything.
FanOut(e, failed) ==
  /\ task[e].at = "bindings"
  /\ LET own(c) == ~failed /\ binding[c].exists /\ binding[c].address
                   /\ (e \in Tests => binding[c].enabled)
         ready == {c \in task[e].chosen : HasAddress(c, c \in task[e].globals, own(c))}
     IN /\ delivery' = [delivery EXCEPT ![e] =
             [c \in Channels |-> CASE c \in ready -> [at |-> "posting", tries |-> 0]
                                   [] c \in task[e].chosen \ ready -> [at |-> "done", tries |-> 0]
                                   [] OTHER -> Off]]
        /\ log' = [log EXCEPT ![e] =
             [c \in Channels |-> IF c \in task[e].chosen \ ready THEN "failed" ELSE None]]
  /\ task' = [task EXCEPT ![e].at = "joining", ![e].globals = {}]
  /\ UNCHANGED <<rows, received, inForce, used>>

\* join_next until the set is empty.
Join(e) ==
  /\ task[e].at = "joining"
  /\ \A c \in Channels : delivery[e][c].at \in {"off", "done"}
  /\ task' = [task EXCEPT ![e].at = "done"]
  /\ UNCHANGED <<rows, delivery, log, received, inForce, used>>

-----------------------------------------------------------------------------
(* The task of a channel.                                                  *)

At(e, c, stage) == delivery' = [delivery EXCEPT ![e][c].at = stage]

\* Mutant: the channels are served one after the other.
MaySendInTurn(e, c) ==
  /\ delivery[e][c].at = "posting"
  /\ \A d \in Channels \ {c} : delivery[e][d].at \notin {"taken", "missed", "pause"}

\* Each channel's task runs by itself.
MaySend(e, c) == delivery[e][c].at = "posting"

\* One request, or one run of msmtp: the receiver takes the message ...
Take(e, c) ==
  /\ MaySend(e, c)
  /\ delivery' = [delivery EXCEPT ![e][c].at = "taken", ![e][c].tries = @ + 1]
  /\ received' = [received EXCEPT ![e][c] = @ + 1]
  /\ UNCHANGED <<rows, task, log, inForce, used>>

\* ... or does not: it is down, or refuses.
Miss(e, c) ==
  /\ MaySend(e, c)
  /\ delivery' = [delivery EXCEPT ![e][c].at = "missed", ![e][c].tries = @ + 1]
  /\ UNCHANGED <<rows, task, log, received, inForce, used>>

\* Mutant: the last try is reported as sent whatever came of it.
SaysLastTry(e, c) == IF delivery[e][c].tries = 3 THEN "sent" ELSE "failed"

\* What log_result writes when the tries are used up.
Says(e, c) == "failed"

\* A 2xx answer, or msmtp's exit status 0.
Answered(e, c) ==
  /\ delivery[e][c].at = "taken"
  /\ At(e, c, "done")
  /\ log' = [log EXCEPT ![e][c] = "sent"]
  /\ UNCHANGED <<rows, task, received, inForce, used>>

\* Mutant: one try too many.
TriesFour(c) == IF c \in Webhooks THEN 4 ELSE 1

\* notify_results_webhook_async tries three times, the others once.
Tries(c) == IF c \in Webhooks THEN 3 ELSE 1

\* Another answer, or none within the limit, although the message may have
\* been taken: webhooks pause 3 s and try again, everything else has failed.
Unanswered(e, c) ==
  /\ delivery[e][c].at \in {"taken", "missed"}
  /\ IF delivery[e][c].tries < Tries(c)
     THEN At(e, c, "pause") /\ UNCHANGED log
     ELSE At(e, c, "done") /\ log' = [log EXCEPT ![e][c] = Says(e, c)]
  /\ UNCHANGED <<rows, task, received, inForce, used>>

TryAgain(e, c) ==
  /\ delivery[e][c].at = "pause"
  /\ At(e, c, "posting")
  /\ UNCHANGED <<rows, task, log, received, inForce, used>>

-----------------------------------------------------------------------------
(* The handlers of channels and bindings, and a crash.                     *)

Edit ==
  /\ used.edit < MaxEdits
  /\ Spend("edit")
  /\ inForce' = [e \in Events |->
       IF Running(e) THEN inForce[e] \cup WatchChannels' ELSE inForce[e]]
  /\ UNCHANGED <<task, delivery, log, received>>

\* update_channel writes config_json and enabled in statements of their own.
SetAddress(c, a) ==
  channel' = [channel EXCEPT ![c].address = a] /\ UNCHANGED binding /\ Edit
SetEnabled(c, on) ==
  channel' = [channel EXCEPT ![c].enabled = on] /\ UNCHANGED binding /\ Edit

\* bind_watch_channel; set_watch_channel(false) keeps the configuration.
Bind(c, a) ==
  /\ binding' = [binding EXCEPT ![c] = [exists |-> TRUE, enabled |-> TRUE, address |-> a]]
  /\ UNCHANGED channel /\ Edit
Unbind(c) ==
  binding' = [binding EXCEPT ![c].enabled = FALSE] /\ UNCHANGED channel /\ Edit

\* delete_watch: the bindings go by their foreign key.
DeleteWatch ==
  /\ binding' = [c \in Channels |-> [exists |-> FALSE, enabled |-> FALSE, address |-> FALSE]]
  /\ UNCHANGED channel /\ Edit

\* Tasks and the panel's event list live in memory only.  A process that serves no
\* event is not worth killing here.
Crash ==
  /\ used.crash < MaxCrashes
  /\ \E e \in Events : Running(e)
  /\ task' = [e \in Events |-> IF Running(e) THEN [task[e] EXCEPT !.at = "killed"] ELSE task[e]]
  /\ delivery' = [e \in Events |-> [c \in Channels |->
       IF delivery[e][c].at \in {"off", "done"} THEN delivery[e][c]
       ELSE [delivery[e][c] EXCEPT !.at = "killed"]]]
  /\ log' = [e \in Events |-> [c \in Channels |-> None]]
  /\ Spend("crash")
  /\ UNCHANGED <<rows, received, inForce>>

-----------------------------------------------------------------------------
Step(e) ==
  \/ ReadSettings(e) \/ ReadFails(e) \/ ReadChannels(e) \/ Join(e)
  \/ \E failed \in BOOLEAN : FanOut(e, failed)
Serve(e, c) == Take(e, c) \/ Miss(e, c) \/ Answered(e, c) \/ Unanswered(e, c) \/ TryAgain(e, c)

Elsewhere ==
  \/ \E c \in Channels :
       \/ \E a \in BOOLEAN : SetAddress(c, a)
       \/ \E on \in BOOLEAN : SetEnabled(c, on)
       \/ \E a \in BOOLEAN : Bind(c, a)
       \/ Unbind(c)
  \/ DeleteWatch \/ Crash

Next ==
  \/ \E e \in Events : Raise(e) \/ Step(e)
  \/ \E e \in Events, c \in Channels : Serve(e, c)
  \/ Elsewhere

Spec == Init /\ [][Next]_vars

\* Tasks are scheduled, and requests end by their time limit; msmtp need not.
FairSpec ==
  /\ Spec
  /\ \A e \in Events : WF_vars(Step(e))
  /\ \A e \in Events : \A c \in Channels \ Mails : WF_vars(Serve(e, c))

-----------------------------------------------------------------------------
(* Properties.                                                             *)

Stages == {"unraised", "settings", "channels", "bindings", "joining", "done", "killed"}

\* Rows, tasks, log lines and counts hold values of the code's own kinds, and no
\* receiver is tried more than three times.
TypeOK ==
  /\ channel \in [Channels -> [enabled: BOOLEAN, address: BOOLEAN]]
  /\ binding \in [Channels -> [exists: BOOLEAN, enabled: BOOLEAN, address: BOOLEAN]]
  /\ task \in [Events -> [at: Stages, chosen: SUBSET Channels, globals: SUBSET Channels]]
  /\ delivery \in [Events -> [Channels ->
       [at: {"off", "posting", "taken", "missed", "pause", "done", "killed"},
        tries: 0..3]]]
  /\ log \in [Events -> [Channels -> {None, "failed", "sent"}]]
  /\ received \in [Events -> [Channels -> 0..3]]
  /\ inForce \in [Events -> SUBSET Channels]

\* What the panel says was sent has been taken by the receiver, through every
\* retry and lost answer; the converse is not promised (log_result).
SentIsTaken ==
  \A e \in Events, c \in Channels : log[e][c] = "sent" => received[e][c] > 0

\* An event reaches only channels that were enabled and bound to the watch at
\* some time since it was raised, however they are edited while its task reads
\* them in two statements; a test goes to an unbound channel on purpose.
OnlyChosen ==
  \A e \in Events \ Tests, c \in Channels : received[e][c] > 0 => c \in inForce[e]

\* No channel waits for another: one whose receiver has a time limit is done with
\* an event, although a mail on its side may never end (one task per channel).
NobodyHeldUp ==
  \A e \in Events : \A c \in Channels \ Mails :
    delivery[e][c].at = "posting" ~> delivery[e][c].at \in {"done", "killed"}
=============================================================================
