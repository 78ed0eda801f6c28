------------------------------- MODULE Update -------------------------------
(***************************************************************************)
(* The self-update (rs/src/update.rs, server/web.rs): installs download,   *)
(* verify, write a temporary file, probe it, copy the binary to the backup,*)
(* rename the file over it and leave the restart to a helper or launchd.   *)
(*                                                                         *)
(* From the write on an install makes no await: requests run on threads of *)
(* their own, a closed connection no longer stops them, and every call of  *)
(* the file system is a step.  A file is what it holds: the old binary,    *)
(* the release, something that does not run, or part of a binary.  An      *)
(* install's descriptor follows the file it opened through a rename.       *)
(***************************************************************************)
EXTENDS Naturals

CONSTANTS
  Installs \* install requests at the same time

VARIABLES
  exe, bak, tmp, \* contents of the binary, of its .bak and of the temporary file
  install,       \* where each install is, what it downloaded, where its descriptor points
  exiting,       \* schedule_exit has been called
  helper,        \* a restart helper waits for the process to end
  supervised,    \* started by launchd, which restarts it
  running,       \* the version of the process, or "none"
  \* history, read by properties only
  shared         \* an install has opened the temporary file while another was using it

vars == <<exe, bak, tmp, install, exiting, helper, supervised, running, shared>>

Runs(file) == file \in {"old", "new"}

Idle == [at |-> "idle", bytes |-> "none", fd |-> "none"]

Init ==
  /\ exe = "old" /\ bak = "none" /\ tmp = "none"
  /\ install = [h \in Installs |-> Idle]
  /\ exiting = FALSE /\ helper = FALSE /\ supervised \in BOOLEAN
  /\ running = "old" /\ shared = FALSE

-----------------------------------------------------------------------------
(* install_latest.                                                         *)

At(h, point) == install[h].at = point

Goto(h, point) == install' = [install EXCEPT ![h].at = point]

\* An error ends the request; what it wrote stays.
Refuse(h) == install' = [install EXCEPT ![h] = Idle]

\* A version is offered only when it is newer than the one that runs.
Newer(version) == version = "old"

Check(h) ==
  /\ At(h, "idle") /\ Newer(running)
  /\ Goto(h, "checked")
  /\ UNCHANGED <<exe, bak, tmp, exiting, helper, supervised, running, shared>>

\* What the asset of the newest release may hold.
Published == {"new", "dud"}

\* Damaged or incomplete downloads fail the checksum.
Verified(bytes) == bytes \in Published

\* A download is what was published, whether that runs or not, or damaged.
Download(h) ==
  /\ At(h, "checked")
  /\ \/ \E bytes \in Published \cup {"part"} :
          /\ Verified(bytes)
          /\ install' = [install EXCEPT ![h] = [at |-> "verified", bytes |-> bytes, fd |-> "none"]]
     \/ Refuse(h)
  /\ UNCHANGED <<exe, bak, tmp, exiting, helper, supervised, running, shared>>

\* Between opening the temporary file and renaming it.
UsesTmp(h) == install[h].at \in {"writing", "written", "ready", "probed", "copied"}

\* fs::write empties the file when it opens it, whoever uses it: nothing serialises installs.
OpenTmp(h) ==
  /\ At(h, "verified")
  /\ \/ /\ tmp' = "part"
        /\ install' = [install EXCEPT ![h].at = "writing", ![h].fd = "tmp"]
        /\ shared' = (shared \/ \E g \in Installs : UsesTmp(g))
     \/ Refuse(h) /\ UNCHANGED <<tmp, shared>>
  /\ UNCHANGED <<exe, bak, exiting, helper, supervised, running>>

WriteTmp(h) ==
  /\ At(h, "writing")
  /\ \/ /\ tmp' = IF install[h].fd = "tmp" THEN install[h].bytes ELSE tmp
        /\ exe' = IF install[h].fd = "exe" THEN install[h].bytes ELSE exe
        /\ install' = [install EXCEPT ![h].at = "written", ![h].fd = "none"]
     \/ Refuse(h) /\ UNCHANGED <<exe, tmp>>
  /\ UNCHANGED <<bak, exiting, helper, supervised, running, shared>>

SetPermissions(h) ==
  /\ At(h, "written")
  /\ \/ tmp # "none" /\ Goto(h, "ready")
     \/ Refuse(h)
  /\ UNCHANGED <<exe, bak, tmp, exiting, helper, supervised, running, shared>>

\* Mutant: the exit status of the probe is not looked at.
Accepted(file) == TRUE

Works(file) == Runs(file)

\* What others have open is no longer the temporary file once that is removed or renamed.
Retarget(target) ==
  [h \in Installs |->
     [install[h] EXCEPT !.fd = IF @ = "tmp" THEN target
                               ELSE IF @ = "exe" /\ target = "exe" THEN "gone" ELSE @]]

Probe(h) ==
  /\ At(h, "ready")
  /\ \/ tmp # "none" /\ Works(tmp) /\ Goto(h, "probed") /\ UNCHANGED tmp
     \/ /\ tmp # "none" /\ ~Works(tmp)
        /\ tmp' = "none"
        /\ install' = [Retarget("gone") EXCEPT ![h] = Idle]
     \/ Refuse(h) /\ UNCHANGED tmp
  /\ UNCHANGED <<exe, bak, exiting, helper, supervised, running, shared>>

\* An error of the copy is ignored, wherever it stopped.
CopyBackup(h) ==
  /\ At(h, "probed")
  /\ bak' \in {exe, "part", bak}
  /\ Goto(h, "copied")
  /\ UNCHANGED <<exe, tmp, exiting, helper, supervised, running, shared>>

Rename(h) ==
  /\ At(h, "copied")
  /\ \/ /\ tmp # "none"
        /\ exe' = tmp /\ tmp' = "none"
        /\ install' = [Retarget("exe") EXCEPT ![h].at = "renamed"]
     \/ Refuse(h) /\ UNCHANGED <<exe, tmp>>
  /\ UNCHANGED <<bak, exiting, helper, supervised, running, shared>>

\* Mutant: launchd is taken to restart every process.
Unhelped == FALSE

NeedsHelper == ~supervised

\* Without its helper the request fails and the process goes on.
SpawnHelper(h) ==
  /\ At(h, "renamed")
  /\ \/ helper' = (helper \/ NeedsHelper) /\ exiting' = TRUE
     \/ NeedsHelper /\ UNCHANGED <<helper, exiting>>
  /\ Refuse(h)
  /\ UNCHANGED <<exe, bak, tmp, supervised, running, shared>>

-----------------------------------------------------------------------------
(* The process.                                                            *)

Gone ==
  /\ running # "none"
  /\ running' = "none" /\ exiting' = FALSE
  /\ install' = [h \in Installs |-> Idle]
  /\ UNCHANGED <<exe, bak, tmp, helper, supervised, shared>>

Exit == exiting /\ Gone

Crash == Gone

Started ==
  /\ running' = IF Runs(exe) THEN exe ELSE "none"
  /\ UNCHANGED <<exe, bak, tmp, install, exiting, supervised, shared>>

\* launchd tries for good, the helper once.
Restart ==
  /\ running = "none" /\ (supervised \/ helper)
  /\ helper' = FALSE /\ Started

\* A helper that comes later finds the instance lock taken.
StartByHand ==
  /\ running = "none"
  /\ helper' = FALSE /\ Started

-----------------------------------------------------------------------------

Step(h) ==
  \/ Download(h) \/ OpenTmp(h) \/ WriteTmp(h) \/ SetPermissions(h) \/ Probe(h)
  \/ CopyBackup(h) \/ Rename(h) \/ SpawnHelper(h)

Next == (\E h \in Installs : Check(h) \/ Step(h)) \/ Exit \/ Crash \/ Restart \/ StartByHand

Spec == Init /\ [][Next]_vars

\* Handlers and timers run; helper and launchd do what they are there for.
Fairness == (\A h \in Installs : WF_vars(Step(h))) /\ WF_vars(Exit) /\ WF_vars(Restart)

FairSpec == Spec /\ Fairness

-----------------------------------------------------------------------------
(* Properties.                                                             *)

Files == {"old", "new", "dud", "part"}
Points == {"idle", "checked", "verified", "writing", "written", "ready", "probed", "copied", "renamed"}

\* The variables have their types, and the process only leaves when something brings it back.
TypeOK ==
  /\ exe \in Files /\ bak \in Files \cup {"none"} /\ tmp \in Files \cup {"none"}
  /\ install \in [Installs -> [at : Points, bytes : {"none", "new", "dud"},
                               fd : {"none", "tmp", "exe", "gone"}]]
  /\ exiting \in BOOLEAN /\ helper \in BOOLEAN /\ supervised \in BOOLEAN
  /\ running \in {"old", "new", "none"} /\ shared \in BOOLEAN
  /\ exiting => supervised \/ helper
  /\ running = "none" => ~exiting /\ \A h \in Installs : install[h] = Idle

\* As long as no two installs use the temporary file at once, the binary on disk runs at every
\* moment, whatever fails or crashes and however many requests come (update.rs:116).  The code does
\* nothing to keep them apart: two that overlap may leave half a file in place of the binary.
BinaryWorks == shared \/ Runs(exe)

\* An install that was answered with success ends with the new version running, through crashes
\* before the exit and other installs, short of one that shared the temporary file.
RestartsIntoNew == exiting ~> shared \/ running = "new"
=============================================================================
