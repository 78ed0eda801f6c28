---------------------------- MODULE UpdateProofs ----------------------------
(***************************************************************************)
(* Proofs about Update, for any number of installs at a time: the types,   *)
(* and a binary that always runs until two share the temporary file.       *)
(***************************************************************************)
EXTENDS Update, TLAPS

Records == [at : Points, bytes : {"none", "new", "dud"}, fd : {"none", "tmp", "exe", "gone"}]

\* What an install does to its own record.
LEMMA Moves ==
  ASSUME install \in [Installs -> Records], NEW h \in Installs, NEW point \in Points
  PROVE  /\ [install EXCEPT ![h].at = point] \in [Installs -> Records]
         /\ [install EXCEPT ![h] = Idle] \in [Installs -> Records]
  BY DEF Records, Idle, Points

\* What removing or renaming the temporary file does to the records of all.
LEMMA Retargets ==
  ASSUME install \in [Installs -> Records], NEW target \in {"exe", "gone"}
  PROVE  Retarget(target) \in [Installs -> Records]
<1>1. ASSUME NEW h \in Installs
      PROVE  [install[h] EXCEPT !.fd = IF @ = "tmp" THEN target
                                       ELSE IF @ = "exe" /\ target = "exe" THEN "gone" ELSE @]
               \in Records
  <2>1. install[h] \in Records
    OBVIOUS
  <2> QED
    BY <2>1 DEF Records
<1> QED
  BY <1>1 DEF Retarget

\* Every step of an install keeps the types.
LEMMA TypeStep ==
  ASSUME TypeOK, NEW h \in Installs, Check(h) \/ Step(h)
  PROVE  TypeOK'
<1>0. install \in [Installs -> Records]
  BY DEF TypeOK, Records
<1>g. ASSUME NEW point \in Points, Goto(h, point) PROVE install' \in [Installs -> Records]
  BY <1>0, <1>g, Moves DEF Goto
<1>r. ASSUME Refuse(h) PROVE install' \in [Installs -> Records]
  BY <1>0, <1>r, Moves, "idle" \in Points DEF Refuse, Points
<1>a. running # "none"
  BY DEF TypeOK, Step, Check, Newer, Download, OpenTmp, WriteTmp, SetPermissions, Probe, CopyBackup,
         Rename, SpawnHelper, At, Idle
<1> USE <1>a
<1>1. CASE Check(h)
  BY <1>1, <1>g DEF TypeOK, Check, Points, Records
<1>2. CASE Download(h)
  <2>1. install' \in [Installs -> Records]
    BY <1>0, <1>2, <1>r DEF Download, Verified, Published, Records, Points
  <2> QED
    BY <1>2, <2>1 DEF Download, TypeOK, Records
<1>3. CASE OpenTmp(h)
  <2>1. install' \in [Installs -> Records]
    BY <1>0, <1>3, <1>r DEF OpenTmp, Records, Points
  <2> QED
    BY <1>3, <2>1 DEF OpenTmp, TypeOK, Records, Files
<1>4. CASE WriteTmp(h)
  <2>1. install' \in [Installs -> Records]
    BY <1>0, <1>4, <1>r DEF WriteTmp, Records, Points
  <2>2. install[h].fd # "none" => install[h].bytes \in {"none", "new", "dud"}
    BY <1>0 DEF Records
  <2>3. exe' \in Files /\ tmp' \in Files \cup {"none"}
    BY <1>0, <1>4, <2>2 DEF WriteTmp, TypeOK, Files, Records
  <2> QED
    BY <1>4, <2>1, <2>3 DEF WriteTmp, TypeOK, Records
<1>5. CASE SetPermissions(h)
  BY <1>5, <1>g, <1>r DEF TypeOK, SetPermissions, Points, Records
<1>6. CASE Probe(h)
  <2>1. CASE tmp # "none" /\ ~Works(tmp) /\ tmp' = "none"
             /\ install' = [Retarget("gone") EXCEPT ![h] = Idle]
    <3>1. Retarget("gone") \in [Installs -> Records]
      BY <1>0, Retargets
    <3>2. install' \in [Installs -> Records]
      BY <3>1, <2>1 DEF Idle, Records, Points
    <3> QED
      BY <1>6, <2>1, <3>2 DEF Probe, TypeOK, Records
  <2>2. CASE (Goto(h, "probed") \/ Refuse(h)) /\ UNCHANGED tmp
    BY <1>6, <2>2, <1>g, <1>r DEF Probe, TypeOK, Points, Records
  <2> QED
    BY <1>6, <2>1, <2>2 DEF Probe
<1>7. CASE CopyBackup(h)
  BY <1>7, <1>g DEF TypeOK, CopyBackup, Points, Records, Files
<1>8. CASE Rename(h)
  <2>1. CASE tmp # "none" /\ exe' = tmp /\ tmp' = "none"
             /\ install' = [Retarget("exe") EXCEPT ![h].at = "renamed"]
    <3>1. Retarget("exe") \in [Installs -> Records]
      BY <1>0, Retargets
    <3>2. install' \in [Installs -> Records]
      BY <3>1, <2>1 DEF Records, Points
    <3> QED
      BY <1>8, <2>1, <3>2 DEF Rename, TypeOK, Records
  <2>2. CASE Refuse(h) /\ UNCHANGED <<exe, tmp>>
    BY <1>8, <2>2, <1>r DEF Rename, TypeOK, Records
  <2> QED
    BY <1>8, <2>1, <2>2 DEF Rename
<1>9. CASE SpawnHelper(h)
  <2>1. install' \in [Installs -> Records] /\ UNCHANGED <<exe, bak, tmp, supervised, running, shared>>
    BY <1>9, <1>r DEF SpawnHelper
  <2>2. exe \in Files /\ bak \in Files \cup {"none"} /\ tmp \in Files \cup {"none"}
        /\ supervised \in BOOLEAN /\ running \in {"old", "new", "none"} /\ shared \in BOOLEAN
    BY DEF TypeOK
  <2>3. helper' \in BOOLEAN /\ exiting' \in BOOLEAN /\ (exiting' => supervised' \/ helper')
    <3>1. exiting \in BOOLEAN /\ helper \in BOOLEAN /\ supervised \in BOOLEAN
          /\ (exiting => supervised \/ helper) /\ supervised' = supervised
      BY <2>1 DEF TypeOK
    <3>2. CASE helper' = (helper \/ ~supervised) /\ exiting' = TRUE
      BY <3>1, <3>2, Zenon
    <3>3. CASE UNCHANGED <<helper, exiting>>
      <4>1. helper' = helper /\ exiting' = exiting
        BY <3>3
      <4> QED
        BY <3>1, <4>1, Zenon
    <3> QED
      BY <1>9, <3>2, <3>3 DEF SpawnHelper, NeedsHelper
  <2> QED
    BY <2>1, <2>2, <2>3 DEF TypeOK, Records
<1> QED
  BY <1>1, <1>2, <1>3, <1>4, <1>5, <1>6, <1>7, <1>8, <1>9 DEF Step

\* Leaving and coming back keep the types.
LEMMA TypeProcess ==
  ASSUME TypeOK, Exit \/ Crash \/ Restart \/ StartByHand
  PROVE  TypeOK'
<1>1. CASE Gone
  BY <1>1 DEF TypeOK, Gone, Idle, Points
<1>2. CASE Restart \/ StartByHand
  <2>1. UNCHANGED <<exe, bak, tmp, install, exiting, supervised, shared>> /\ helper' = FALSE
    BY <1>2 DEF Restart, StartByHand, Started
  <2>2. running = "none" /\ running' \in {"old", "new", "none"}
    BY <1>2 DEF Restart, StartByHand, Started, Runs
  <2>3. exiting = FALSE /\ \A h \in Installs : install[h] = Idle
    BY <2>2 DEF TypeOK
  <2>4. exe \in Files /\ bak \in Files \cup {"none"} /\ tmp \in Files \cup {"none"}
        /\ install \in [Installs -> Records] /\ supervised \in BOOLEAN /\ shared \in BOOLEAN
    BY DEF TypeOK, Records
  <2> QED
    BY <2>1, <2>2, <2>3, <2>4 DEF TypeOK, Records
<1> QED
  BY <1>1, <1>2 DEF Exit, Crash

\* The variables keep their types, and the process never leaves for good.
THEOREM TypeCorrect == Spec => []TypeOK
<1>1. Init => TypeOK
  <2> SUFFICES ASSUME Init PROVE TypeOK
    OBVIOUS
  <2>1. install \in [Installs -> Records]
    BY DEF Init, Idle, Points, Records
  <2>2. exe \in Files /\ bak \in Files \cup {"none"} /\ tmp \in Files \cup {"none"}
        /\ running = "old" /\ shared = FALSE
    BY DEF Init, Files
  <2>3. exiting = FALSE /\ helper = FALSE /\ supervised \in BOOLEAN
    BY DEF Init
  <2> QED
    BY <2>1, <2>2, <2>3 DEF TypeOK, Records
<1>2. TypeOK /\ [Next]_vars => TypeOK'
  <2> SUFFICES ASSUME TypeOK, [Next]_vars PROVE TypeOK'
    OBVIOUS
  <2>1. CASE UNCHANGED vars
    BY <2>1 DEF TypeOK, vars
  <2> QED
    BY <2>1, TypeStep, TypeProcess DEF Next
<1> QED
  BY <1>1, <1>2, PTL DEF Spec

-----------------------------------------------------------------------------
(* The binary.                                                             *)

\* While no two installs have shared the temporary file, one at most uses it: what that one is
\* about to rename passed its probe, and what it is writing is not yet the binary.
Safe ==
  shared \/ /\ Runs(exe)
            /\ \A g, h \in Installs : UsesTmp(g) /\ UsesTmp(h) => g = h
            /\ \A h \in Installs : install[h].at \in {"probed", "copied"} => Runs(tmp)
            /\ \A h \in Installs : install[h].at = "writing" => install[h].fd = "tmp"

\* An install that moves on with the temporary file as it was, or alone with it.
LEMMA MoveSafely ==
  ASSUME TypeOK, Safe, NEW h \in Installs, NEW x,
         install' = [install EXCEPT ![h] = x], shared' = shared, Runs(exe) => Runs(exe'),
         UsesTmp(h) \/ (UNCHANGED tmp /\ x.at = "idle") \/ (UNCHANGED tmp /\ x.at = "checked")
           \/ (UNCHANGED tmp /\ x.at = "verified") \/ (UNCHANGED tmp /\ x.at = "renamed"),
         ~shared /\ x.at \in {"probed", "copied"} => Runs(tmp'),
         x.at # "writing"
  PROVE  Safe'
<1> SUFFICES ASSUME ~shared PROVE Safe'
  BY DEF Safe
<1>1. install'[h] = x /\ \A g \in Installs : g # h => install'[g] = install[g]
  BY DEF TypeOK
<1>2. Runs(exe')
  BY DEF Safe
<1>3. ASSUME NEW g \in Installs, g # h, UsesTmp(h) PROVE ~UsesTmp(g)
  BY <1>3 DEF Safe
<1>4. ASSUME NEW f \in Installs, NEW g \in Installs, UsesTmp(f)', UsesTmp(g)' PROVE f = g
  BY <1>1, <1>3, <1>4 DEF Safe, UsesTmp
<1>5. ASSUME NEW g \in Installs, install'[g].at \in {"probed", "copied"} PROVE Runs(tmp')
  <2>1. CASE g = h
    BY <1>1, <1>5, <2>1
  <2>2. CASE g # h
    <3>1. UsesTmp(g) /\ install[g].at \in {"probed", "copied"}
      BY <1>1, <1>5, <2>2 DEF UsesTmp
    <3>2. UNCHANGED tmp
      BY <1>3, <2>2, <3>1
    <3> QED
      BY <3>1, <3>2 DEF Safe
  <2> QED
    BY <2>1, <2>2
<1>6. ASSUME NEW g \in Installs, install'[g].at = "writing" PROVE install'[g].fd = "tmp"
  BY <1>1, <1>6 DEF Safe
<1> QED
  BY <1>2, <1>4, <1>5, <1>6 DEF Safe, UsesTmp

\* What an install does to the descriptors of others does not touch one that is alone.
LEMMA RetargetSafely ==
  ASSUME TypeOK, Safe, NEW h \in Installs, UsesTmp(h), NEW target \in {"exe", "gone"}, NEW point,
         \/ install' = [Retarget(target) EXCEPT ![h].at = point]
         \/ install' = [Retarget(target) EXCEPT ![h] = Idle] /\ point = "idle",
         point \notin {"writing", "written", "ready", "probed", "copied"},
         shared' = shared, ~shared => Runs(exe')
  PROVE  Safe'
<1> SUFFICES ASSUME ~shared PROVE Safe'
  BY DEF Safe
<1>1. Retarget(target) \in [Installs -> Records] /\ install \in [Installs -> Records]
  BY Retargets DEF TypeOK, Records
<1>2. \A g \in Installs : Retarget(target)[g].at = install[g].at
  BY <1>1 DEF Retarget, Records
<1>3. install'[h].at = point /\ \A g \in Installs : g # h => install'[g].at = install[g].at
  BY <1>1, <1>2 DEF Idle, Records
<1>4. \A g \in Installs : ~UsesTmp(g)'
  BY <1>3 DEF Safe, UsesTmp
<1> QED
  BY <1>4 DEF Safe, UsesTmp

\* The steps of an install.
LEMMA SafeStep ==
  ASSUME TypeOK, Safe, NEW h \in Installs, Check(h) \/ Step(h)
  PROVE  Safe'
<1>0. install \in [Installs -> Records]
  BY DEF TypeOK, Records
<1>r. ASSUME Refuse(h), UNCHANGED <<exe, tmp, shared>> PROVE Safe'
  <2>1. install' = [install EXCEPT ![h] = Idle] /\ Idle.at = "idle"
    BY <1>r DEF Refuse, Idle
  <2> QED
    BY <2>1, <1>r, MoveSafely
<1>g. ASSUME NEW point, Goto(h, point), UNCHANGED <<exe, tmp, shared>>, point # "writing",
             UsesTmp(h) \/ point \in {"idle", "checked", "verified", "renamed"},
             ~shared /\ point \in {"probed", "copied"} => Runs(tmp)
      PROVE  Safe'
  <2>1. install' = [install EXCEPT ![h] = [install[h] EXCEPT !.at = point]]
        /\ [install[h] EXCEPT !.at = point].at = point
    BY <1>0, <1>g DEF Goto, Records
  <2>x. \A x : x = [install[h] EXCEPT !.at = point] => x.at = point
    BY <2>1
  <2> QED
    BY <2>1, <1>g, MoveSafely
<1>1. CASE Check(h)
  BY <1>1, <1>g DEF Check
<1>2. CASE Download(h)
  <2>1. ASSUME NEW bytes,
               install' = [install EXCEPT ![h] = [at |-> "verified", bytes |-> bytes, fd |-> "none"]]
        PROVE  Safe'
    <3> DEFINE x == [at |-> "verified", bytes |-> bytes, fd |-> "none"]
    <3>1. UNCHANGED <<exe, tmp, shared>>
      BY <1>2 DEF Download
    <3>2. install' = [install EXCEPT ![h] = x] /\ x.at = "verified"
      BY <2>1
    <3> HIDE DEF x
    <3> QED
      BY <3>1, <3>2, MoveSafely
  <2> QED
    BY <1>2, <2>1, <1>r DEF Download
<1>3. CASE OpenTmp(h)
  <2>1. CASE Refuse(h) /\ UNCHANGED <<tmp, shared>>
    BY <1>3, <2>1, <1>r DEF OpenTmp
  <2>2. CASE install' = [install EXCEPT ![h].at = "writing", ![h].fd = "tmp"]
             /\ shared' = (shared \/ \E g \in Installs : UsesTmp(g))
    <3> SUFFICES ASSUME ~shared' PROVE Safe'
      BY DEF Safe
    <3>1. ~shared /\ \A g \in Installs : ~UsesTmp(g)
      BY <2>2
    <3>2. install'[h].at = "writing" /\ install'[h].fd = "tmp"
          /\ \A g \in Installs : g # h => install'[g] = install[g]
      BY <1>0, <2>2 DEF Records
    <3>3. Runs(exe')
      BY <1>3, <3>1 DEF OpenTmp, Safe
    <3> QED
      BY <3>1, <3>2, <3>3 DEF Safe, UsesTmp
  <2> QED
    BY <1>3, <2>1, <2>2 DEF OpenTmp
<1>4. CASE WriteTmp(h)
  <2> SUFFICES ASSUME ~shared PROVE Safe'
    BY <1>4 DEF Safe, WriteTmp
  <2>1. install[h].fd = "tmp" /\ UsesTmp(h) /\ UNCHANGED shared
    BY <1>4 DEF WriteTmp, At, Safe, UsesTmp
  <2>2. exe' = exe
    BY <1>4, <2>1 DEF WriteTmp
  <2>3. CASE Refuse(h) /\ UNCHANGED <<exe, tmp>>
    BY <2>1, <2>3, <1>r
  <2>4. CASE install' = [install EXCEPT ![h].at = "written", ![h].fd = "none"]
    <3> DEFINE x == [install[h] EXCEPT !.at = "written", !.fd = "none"]
    <3>1. install' = [install EXCEPT ![h] = x] /\ x.at = "written"
      BY <1>0, <2>4 DEF Records
    <3> HIDE DEF x
    <3> QED
      BY <2>1, <2>2, <3>1, MoveSafely
  <2> QED
    BY <1>4, <2>3, <2>4 DEF WriteTmp
<1>5. CASE SetPermissions(h)
  <2>1. UsesTmp(h) /\ UNCHANGED <<exe, tmp, shared>>
    BY <1>5 DEF SetPermissions, At, UsesTmp
  <2> QED
    BY <1>5, <2>1, <1>g, <1>r DEF SetPermissions
<1>6. CASE Probe(h)
  <2>1. UsesTmp(h) /\ UNCHANGED <<exe, shared>>
    BY <1>6 DEF Probe, At, UsesTmp
  <2>2. CASE Goto(h, "probed") /\ Works(tmp) /\ UNCHANGED tmp
    BY <2>1, <2>2, <1>g DEF Works
  <2>3. CASE install' = [Retarget("gone") EXCEPT ![h] = Idle]
    <3>1. ~shared => Runs(exe')
      BY <2>1 DEF Safe
    <3>2. "gone" \in {"exe", "gone"} /\ "idle" \notin {"writing", "written", "ready", "probed", "copied"}
      OBVIOUS
    <3> QED
      BY <2>1, <2>3, <3>1, <3>2, RetargetSafely
  <2>4. CASE Refuse(h) /\ UNCHANGED tmp
    BY <2>1, <2>4, <1>r
  <2> QED
    BY <1>6, <2>2, <2>3, <2>4 DEF Probe
<1>7. CASE CopyBackup(h)
  <2>1. UsesTmp(h) /\ UNCHANGED <<exe, tmp, shared>> /\ Goto(h, "copied")
    BY <1>7 DEF CopyBackup, At, UsesTmp
  <2>2. ~shared => Runs(tmp)
    BY <1>7 DEF CopyBackup, At, Safe
  <2> QED
    BY <2>1, <2>2, <1>g
<1>8. CASE Rename(h)
  <2>1. UsesTmp(h) /\ UNCHANGED shared
    BY <1>8 DEF Rename, At, UsesTmp
  <2>2. CASE exe' = tmp /\ install' = [Retarget("exe") EXCEPT ![h].at = "renamed"]
    <3>1. ~shared => Runs(exe')
      BY <1>8, <2>2 DEF Rename, At, Safe
    <3>2. "exe" \in {"exe", "gone"}
          /\ "renamed" \notin {"writing", "written", "ready", "probed", "copied"}
      OBVIOUS
    <3> QED
      BY <2>1, <2>2, <3>1, <3>2, RetargetSafely
  <2>3. CASE Refuse(h) /\ UNCHANGED <<exe, tmp>>
    BY <2>1, <2>3, <1>r
  <2> QED
    BY <1>8, <2>2, <2>3 DEF Rename
<1>9. CASE SpawnHelper(h)
  BY <1>9, <1>r DEF SpawnHelper
<1> QED
  BY <1>1, <1>2, <1>3, <1>4, <1>5, <1>6, <1>7, <1>8, <1>9 DEF Step

\* Until two installs share the temporary file, the binary on disk runs at every moment, whatever
\* fails or crashes.
THEOREM BinaryAlwaysWorks == Spec => []BinaryWorks
<1>1. Init => Safe
  BY DEF Init, Safe, Runs, Idle, UsesTmp
<1>2. TypeOK /\ Safe /\ [Next]_vars => Safe'
  <2> SUFFICES ASSUME TypeOK, Safe, [Next]_vars PROVE Safe'
    OBVIOUS
  <2>1. CASE Gone
    BY <2>1 DEF Gone, Safe, Idle, UsesTmp
  <2>2. CASE Restart \/ StartByHand
    BY <2>2 DEF Restart, StartByHand, Started, Safe, UsesTmp
  <2>3. CASE UNCHANGED vars
    BY <2>3 DEF Safe, vars, UsesTmp
  <2> QED
    BY <2>1, <2>2, <2>3, SafeStep DEF Next, Exit, Crash
<1>3. Safe => BinaryWorks
  BY DEF Safe, BinaryWorks
<1> QED
  BY <1>1, <1>2, <1>3, TypeCorrect, PTL DEF Spec
=============================================================================
