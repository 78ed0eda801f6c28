----------------------------- MODULE AuthProofs -----------------------------
(***************************************************************************)
(* Proofs about Auth, for any passwords, setups and number of starts.      *)
(***************************************************************************)
EXTENDS Auth, TLAPS

USE AuthAssumption DEF Idle, NoKeys, Keys

-----------------------------------------------------------------------------
(* Types.                                                                  *)

\* A request moves to another point.
LEMMA RequestMoves ==
  ASSUME setup \in [Setups -> [at : Points, password : Passwords \cup {None}]],
         NEW h \in Setups, NEW point \in Points
  PROVE  [setup EXCEPT ![h].at = point] \in [Setups -> [at : Points, password : Passwords \cup {None}]]
  OBVIOUS

\* A request ends.
LEMMA RequestEnds ==
  ASSUME setup \in [Setups -> [at : Points, password : Passwords \cup {None}]], NEW h \in Setups
  PROVE  [setup EXCEPT ![h] = Idle] \in [Setups -> [at : Points, password : Passwords \cup {None}]]
  BY DEF Points

\* Loading and crashing keep the types.
LEMMA TypeProcess ==
  ASSUME TypeOK,
         (\E p \in Passwords \cup {None} : Start(p)) \/ Loading \/ Crash
  PROVE  TypeOK'
<1>1. ASSUME NEW p \in Passwords \cup {None}, Start(p) PROVE TypeOK'
  BY <1>1 DEF TypeOK, Start
<1>2. CASE LoadHash
  BY <1>2 DEF TypeOK, LoadHash, Reset
<1>3. CASE LoadSecret
  BY <1>3 DEF TypeOK, LoadSecret
<1>4. CASE Crash
  BY <1>4 DEF TypeOK, Crash, Points
<1> QED
  BY <1>1, <1>2, <1>3, <1>4 DEF Loading

\* A setup request keeps the types and the lock.
LEMMA TypeSetup ==
  ASSUME TypeOK, NEW h \in Setups,
         (\E p \in Passwords : SetupSubmit(h, p)) \/ TakeLock(h) \/ Setting(h) \/ Disconnect(h)
  PROVE  TypeOK'
<1>1. ASSUME NEW p \in Passwords, SetupSubmit(h, p) PROVE TypeOK'
  BY <1>1 DEF TypeOK, SetupSubmit, At, Points
<1> DEFINE Quiet == setup[h].at \in Points /\ setup[h].password \in Passwords \cup {None}
<1>q. Quiet
  BY DEF TypeOK
<1> DEFINE Holding == \A g \in Setups :
                /\ setup[g].at # "idle" => setup[g].password \in Passwords
                /\ setup[g].at \notin {"idle", "waiting", "won"} => lock = g
<1>h. Holding
  BY DEF TypeOK
<1>l. ASSUME Leave(h) PROVE /\ setup' \in [Setups -> [at : Points, password : Passwords \cup {None}]]
                            /\ lock' \in Setups \cup {None} /\ Holding'
  BY <1>l, <1>h, RequestEnds DEF TypeOK, Leave, Released
<1>g. ASSUME NEW point \in Points, Goto(h, point), lock' = lock, setup[h].at \notin {"idle", "waiting", "won"}
      PROVE  /\ setup' \in [Setups -> [at : Points, password : Passwords \cup {None}]]
             /\ lock' \in Setups \cup {None} /\ Holding'
  BY <1>g, <1>h, RequestMoves DEF TypeOK, Goto
<1>2. CASE TakeLock(h)
  <2>1. CASE Leave(h)
    BY <1>2, <2>1, <1>l DEF TypeOK, TakeLock
  <2>2. CASE ~HasAdminPassword /\ lock' = h /\ Goto(h, "hashing")
    <3>1. setup' \in [Setups -> [at : Points, password : Passwords \cup {None}]]
      BY <2>2, RequestMoves DEF TypeOK, Goto, Points
    <3>2. lock = None
      BY <1>2 DEF TakeLock, Free
    <3>3. Holding'
      <4>1. ASSUME NEW g \in Setups PROVE /\ setup'[g].at # "idle" => setup'[g].password \in Passwords
                                          /\ setup'[g].at \notin {"idle", "waiting", "won"} => lock' = g
        <5>1. CASE g = h
          BY <5>1, <2>2, <1>2, <1>h DEF Goto, TypeOK, TakeLock, At
        <5>2. CASE g # h
          <6>1. setup'[g] = setup[g]
            BY <5>2, <2>2 DEF Goto, TypeOK
          <6> QED
            BY <6>1, <3>2, <1>h
        <5> QED
          BY <5>1, <5>2
      <4> QED
        BY <4>1
    <3> QED
      BY <1>2, <2>2, <3>1, <3>3 DEF TypeOK, TakeLock
  <2> QED
    BY <1>2, <2>1, <2>2 DEF TakeLock
<1>3. CASE HashPassword(h)
  <2>1. CASE Leave(h)
    BY <1>3, <2>1, <1>l DEF TypeOK, HashPassword
  <2>2. CASE Goto(h, "hashed") /\ UNCHANGED lock
    BY <1>3, <2>2, <1>g DEF TypeOK, HashPassword, At, Points
  <2> QED
    BY <1>3, <2>1, <2>2 DEF HashPassword
<1>4. CASE StoreHash(h)
  <2>0. stored' \in Keys
    BY <1>4, <1>q DEF TypeOK, StoreHash, SetSettingIfAbsent
  <2>1. CASE Leave(h)
    BY <1>4, <2>0, <2>1, <1>l DEF TypeOK, StoreHash
  <2>2. CASE Goto(h, "stored") /\ UNCHANGED lock
    BY <1>4, <2>0, <2>2, <1>g DEF TypeOK, StoreHash, At, Points
  <2> QED
    BY <1>4, <2>1, <2>2 DEF StoreHash
<1>5. CASE SetAdminHash(h)
  BY <1>5, <1>q, <1>g DEF TypeOK, SetAdminHash, At, Points
<1>6. CASE RotateSessionSecret(h)
  BY <1>6, <1>g DEF TypeOK, RotateSessionSecret, At, Points
<1>7. CASE StoreSecret(h)
  BY <1>7, <1>g DEF TypeOK, StoreSecret, At, Points
<1>9. CASE AnswerSetup(h)
  <2>1. lock = h /\ setup[h].password \in Passwords /\ memory.secret \in Nat
    BY <1>9, <1>h DEF AnswerSetup, At, TypeOK
  <2>2. setup' \in [Setups -> [at : Points, password : Passwords \cup {None}]]
    BY <1>9, RequestMoves DEF AnswerSetup, Goto, TypeOK, Points
  <2>3. Holding'
    BY <1>9, <1>h, <2>1 DEF AnswerSetup, Goto, At, TypeOK
  <2>4. cookies' \subseteq [secret : Nat, password : Passwords] /\ lock' = None
    BY <1>9, <2>1 DEF AnswerSetup, Session, Released, TypeOK
  <2> QED
    BY <1>9, <2>2, <2>3, <2>4 DEF AnswerSetup, TypeOK
<1>8. CASE Disconnect(h)
  BY <1>8, <1>l DEF TypeOK, Disconnect
<1> QED
  BY <1>1, <1>2, <1>3, <1>4, <1>5, <1>6, <1>7, <1>8, <1>9 DEF Setting

\* Sessions come and go.
LEMMA TypeSessions ==
  ASSUME TypeOK,
         \/ \E p \in Passwords : LoginSubmit(p)
         \/ \E cookie \in cookies : Expire(cookie)
         \/ UNCHANGED vars
  PROVE  TypeOK'
<1>1. ASSUME NEW p \in Passwords, LoginSubmit(p) PROVE TypeOK'
  BY <1>1 DEF TypeOK, LoginSubmit, Session
<1>2. ASSUME NEW cookie \in cookies, Expire(cookie) PROVE TypeOK'
  BY <1>2 DEF TypeOK, Expire
<1>3. CASE UNCHANGED vars
  BY <1>3 DEF TypeOK, vars
<1> QED
  BY <1>1, <1>2, <1>3

\* The variables keep their types and at most one request is past the lock.
THEOREM TypeCorrect == Spec => []TypeOK
<1>1. Init => TypeOK
  BY DEF Init, TypeOK, Points
<1>2. TypeOK /\ [Next]_vars => TypeOK'
  BY TypeProcess, TypeSetup, TypeSessions DEF Next
<1> QED
  BY <1>1, <1>2, PTL DEF Spec

-----------------------------------------------------------------------------
(* The password.                                                           *)

\* A password another request stored stays: requests are idle while nothing runs, the process
\* knows the stored hash or none, and what a request past its INSERT stored is its own password.
Stands ==
  /\ phase # "up" => \A h \in Setups : setup[h].at = "idle"
  /\ phase \in {"rotate", "secret"} => memory.hash = stored.hash
  /\ phase = "up" => memory.hash \in {None, stored.hash}
  /\ phase \in {"rotate", "secret", "up"} /\ env # None => memory.hash = env /\ stored.hash = env
  /\ \A h \in Setups :
       /\ setup[h].at \in {"stored", "set", "rotated", "persisted", "won"}
            => stored.hash = setup[h].password
       /\ setup[h].at \in {"set", "rotated", "persisted", "won"} => memory.hash = setup[h].password

\* Starting, loading and crashing.
LEMMA StandsProcess ==
  ASSUME TypeOK, Stands, (\E p \in Passwords \cup {None} : Start(p)) \/ Loading \/ Crash
  PROVE  Stands'
<1>1. ASSUME NEW p \in Passwords \cup {None}, Start(p) PROVE Stands'
  BY <1>1 DEF Stands, Start
<1>2. CASE LoadHash
  BY <1>2 DEF Stands, LoadHash, Reset, TypeOK
<1>3. CASE LoadSecret
  BY <1>3 DEF Stands, LoadSecret, TypeOK
<1>4. CASE Crash
  BY <1>4 DEF Stands, Crash
<1> QED
  BY <1>1, <1>2, <1>3, <1>4 DEF Loading

\* A request that only moves or ends, with the keys as they are.
LEMMA StandsMoves ==
  ASSUME TypeOK, Stands, NEW h \in Setups, NEW x, phase = "up",
         UNCHANGED <<phase, env>>, stored'.hash = stored.hash, memory'.hash = memory.hash,
         setup' = [setup EXCEPT ![h] = x],
         x.at \in {"stored", "set", "rotated", "persisted", "won"} => stored.hash = x.password,
         x.at \in {"set", "rotated", "persisted", "won"} => memory.hash = x.password
  PROVE  Stands'
  BY DEF Stands, TypeOK

\* A request's steps.
LEMMA StandsSetup ==
  ASSUME TypeOK, Stands, NEW h \in Setups,
         (\E p \in Passwords : SetupSubmit(h, p)) \/ TakeLock(h) \/ Setting(h) \/ Disconnect(h)
  PROVE  Stands'
<1>0. phase = "up"
  BY DEF SetupSubmit, TakeLock, Setting, HashPassword, StoreHash, SetAdminHash,
         RotateSessionSecret, StoreSecret, AnswerSetup, Disconnect, At
<1>g. ASSUME NEW point, Goto(h, point)
      PROVE  \E x : setup' = [setup EXCEPT ![h] = x] /\ x.at = point /\ x.password = setup[h].password
  <2>1. setup' = [setup EXCEPT ![h] = [setup[h] EXCEPT !.at = point]]
    BY <1>g DEF Goto, TypeOK
  <2>2. LET x == [setup[h] EXCEPT !.at = point] IN x.at = point /\ x.password = setup[h].password
    BY DEF TypeOK
  <2> QED
    BY <2>1, <2>2
<1>l. ASSUME Leave(h), UNCHANGED <<stored, memory, phase, env>> PROVE Stands'
  BY <1>0, <1>l, StandsMoves DEF Leave
<1>1. ASSUME NEW p \in Passwords, SetupSubmit(h, p) PROVE Stands'
  BY <1>0, <1>1, StandsMoves DEF SetupSubmit
<1>2. CASE TakeLock(h)
  BY <1>0, <1>2, <1>l, <1>g, StandsMoves DEF TakeLock
<1>3. CASE HashPassword(h)
  BY <1>0, <1>3, <1>l, <1>g, StandsMoves DEF HashPassword
<1>4. CASE StoreHash(h)
  <2>1. CASE stored.hash # None
    <3>1. stored'.hash = stored.hash /\ setup' = [setup EXCEPT ![h] = Idle]
      BY <1>4, <2>1 DEF StoreHash, SetSettingIfAbsent, Inserted, Leave, TypeOK
    <3> QED
      BY <1>0, <1>4, <3>1, StandsMoves DEF StoreHash
  <2>2. CASE stored.hash = None /\ Leave(h) /\ UNCHANGED stored
    BY <1>4, <2>2, <1>l DEF StoreHash
  <2>3. CASE stored.hash = None /\ Goto(h, "stored")
    <3>1. stored'.hash = setup[h].password /\ setup[h].password \in Passwords
      BY <1>4, <2>3 DEF StoreHash, SetSettingIfAbsent, At, TypeOK, Goto, Leave
    <3>2. memory'.hash = None /\ env = None /\ phase' = "up" /\ env' = env
      BY <1>0, <1>4, <2>3 DEF StoreHash, Stands
    <3>3. \A g \in Setups : setup[g].at \notin {"stored", "set", "rotated", "persisted", "won"}
      BY <2>3 DEF Stands, TypeOK
    <3>4. /\ \A g \in Setups : g # h => setup'[g] = setup[g]
          /\ setup'[h].at = "stored" /\ setup'[h].password = setup[h].password
      BY <2>3 DEF Goto, TypeOK
    <3>5. ASSUME NEW g \in Setups
          PROVE  /\ setup'[g].at \in {"stored", "set", "rotated", "persisted", "won"}
                      => stored'.hash = setup'[g].password
                 /\ setup'[g].at \notin {"set", "rotated", "persisted", "won"}
      <4>1. CASE g = h
        BY <4>1, <3>1, <3>4
      <4>2. CASE g # h
        <5>1. setup'[g] = setup[g] /\ setup[g].at \notin {"stored", "set", "rotated", "persisted", "won"}
          BY <4>2, <3>3, <3>4
        <5> QED
          BY <5>1
      <4> QED
        BY <4>1, <4>2
    <3> QED
      BY <3>2, <3>5 DEF Stands
  <2> QED
    BY <1>4, <2>1, <2>2, <2>3 DEF StoreHash, Inserted
<1>5. CASE SetAdminHash(h)
  <2>1. stored.hash = setup[h].password /\ memory'.hash = setup[h].password
    BY <1>5 DEF SetAdminHash, At, Stands, TypeOK
  <2>2. /\ \A g \in Setups : g # h => setup'[g] = setup[g]
        /\ setup'[h].at = "set" /\ setup'[h].password = setup[h].password
    BY <1>5 DEF SetAdminHash, Goto, TypeOK
  <2>3. stored' = stored /\ phase' = "up" /\ env' = env
    BY <1>0, <1>5 DEF SetAdminHash
  <2>4. memory.hash \in {None, stored.hash} /\ (env # None => stored.hash = env /\ memory.hash = env)
    BY <1>0 DEF Stands
  <2>5. ASSUME NEW g \in Setups
        PROVE  /\ setup'[g].at \in {"stored", "set", "rotated", "persisted", "won"}
                    => stored.hash = setup'[g].password
               /\ setup'[g].at \in {"set", "rotated", "persisted", "won"}
                    => memory'.hash = setup'[g].password
    <3>1. CASE g = h
      BY <3>1, <2>1, <2>2
    <3>2. CASE g # h
      <4>1. setup'[g] = setup[g]
        BY <3>2, <2>2
      <4>2. setup[g].at \in {"set", "rotated", "persisted", "won"}
              => memory.hash = setup[g].password /\ stored.hash = setup[g].password
        BY DEF Stands
      <4>3. setup[g].at \in {"stored", "set", "rotated", "persisted", "won"}
              => stored.hash = setup[g].password
        BY DEF Stands
      <4> QED
        BY <4>1, <4>2, <4>3, <2>1
    <3> QED
      BY <3>1, <3>2
  <2> QED
    BY <2>1, <2>3, <2>4, <2>5, <1>0 DEF Stands
<1>6. CASE RotateSessionSecret(h)
  <2>1. memory'.hash = memory.hash
    BY <1>6 DEF RotateSessionSecret, TypeOK
  <2>2. stored.hash = setup[h].password /\ memory.hash = setup[h].password
    BY <1>6 DEF RotateSessionSecret, At, Stands
  <2> QED
    BY <1>0, <1>6, <2>1, <2>2, <1>g, StandsMoves DEF RotateSessionSecret
<1>7. CASE StoreSecret(h)
  <2>1. stored'.hash = stored.hash
    BY <1>7 DEF StoreSecret, TypeOK
  <2>2. stored.hash = setup[h].password /\ memory.hash = setup[h].password
    BY <1>7 DEF StoreSecret, At, Stands
  <2> QED
    BY <1>0, <1>7, <2>1, <2>2, <1>g, StandsMoves DEF StoreSecret
<1>8. CASE AnswerSetup(h)
  <2>1. stored.hash = setup[h].password /\ memory.hash = setup[h].password
    BY <1>8 DEF AnswerSetup, At, Stands
  <2> QED
    BY <1>0, <1>8, <2>1, <1>g, StandsMoves DEF AnswerSetup
<1>9. CASE Disconnect(h)
  BY <1>9, <1>l DEF Disconnect
<1> QED
  BY <1>1, <1>2, <1>3, <1>4, <1>5, <1>6, <1>7, <1>8, <1>9 DEF Setting

\* Stands is inductive together with the types.
LEMMA StandsAlways == Spec => [](TypeOK /\ Stands)
<1>1. Init => Stands
  BY DEF Init, Stands
<1>2. TypeOK /\ Stands /\ [Next]_vars => Stands'
  <2> SUFFICES ASSUME TypeOK, Stands, [Next]_vars PROVE Stands'
    OBVIOUS
  <2>1. CASE \E p \in Passwords : LoginSubmit(p)
    BY <2>1 DEF Stands, LoginSubmit
  <2>2. CASE \E cookie \in cookies : Expire(cookie)
    BY <2>2 DEF Stands, Expire
  <2>3. CASE UNCHANGED vars
    BY <2>3 DEF Stands, vars
  <2> QED
    BY <2>1, <2>2, <2>3, StandsProcess, StandsSetup DEF Next
<1> QED
  BY <1>1, <1>2, TypeCorrect, PTL DEF Spec

\* The password of the environment opens the panel of every process started with it.
THEOREM EnvironmentWins == Spec => []EnvPasswordInForce
<1>1. Stands => EnvPasswordInForce
  BY DEF Stands, EnvPasswordInForce
<1> QED
  BY <1>1, StandsAlways, PTL

\* Whoever is told that setup succeeded chose the password in force.
THEOREM WinnerChose == Spec => []WinnersPassword
<1>1. Stands => WinnersPassword
  BY DEF Stands, WinnersPassword
<1> QED
  BY <1>1, StandsAlways, PTL

\* No setup ever replaces a password.
THEOREM FirstStands == Spec => FirstPasswordStands
<1>1. ASSUME TypeOK, Next, stored.hash # None, stored'.hash # stored.hash
      PROVE  phase = "hash" /\ env # None /\ stored'.hash = env
  <2>1. CASE LoadHash
    BY <1>1, <2>1 DEF LoadHash, Reset, TypeOK
  <2>2. ASSUME NEW h \in Setups, StoreHash(h) \/ StoreSecret(h) PROVE FALSE
    BY <1>1, <2>2 DEF StoreHash, SetSettingIfAbsent, StoreSecret, TypeOK
  <2>3. CASE LoadSecret
    BY <1>1, <2>3 DEF LoadSecret, TypeOK
  <2> QED
    BY <1>1, <2>1, <2>2, <2>3
    DEF Next, Start, Loading, Crash, SetupSubmit, TakeLock, Setting, HashPassword, SetAdminHash,
        RotateSessionSecret, AnswerSetup, Disconnect, LoginSubmit, Expire
<1>2. TypeOK /\ [Next]_vars => [stored.hash # None /\ stored'.hash # stored.hash
                                 => phase = "hash" /\ env # None /\ stored'.hash = env]_vars
  BY <1>1
<1> QED
  BY <1>2, TypeCorrect, PTL DEF Spec, FirstPasswordStands

-----------------------------------------------------------------------------
(* The guard of /setup.                                                    *)

\* A stored password the process does not know is about to be told it, or its request was dropped.
Known ==
  phase = "up" /\ stored.hash # None /\ memory.hash = None
    => "setup" \in cut \/ \E h \in Setups : setup[h].at = "stored"

\* A request that stays where it is, stays at "stored".
LEMMA OthersStay ==
  ASSUME TypeOK, NEW h \in Setups, NEW g \in Setups, g # h,
         Leave(h) \/ (\E point \in Points : Goto(h, point))
  PROVE  setup'[g] = setup[g]
  BY DEF TypeOK, Leave, Goto

\* A request's steps.
LEMMA KnownSetup ==
  ASSUME TypeOK, Stands, Known, NEW h \in Setups,
         (\E p \in Passwords : SetupSubmit(h, p)) \/ TakeLock(h) \/ Setting(h) \/ Disconnect(h)
  PROVE  Known'
<1>p. {"hashing", "hashed", "stored", "set", "rotated", "persisted", "won"} \subseteq Points
  BY DEF Points
<1>1. ASSUME NEW p \in Passwords, SetupSubmit(h, p) PROVE Known'
  BY <1>1 DEF SetupSubmit, At, Known, TypeOK
<1>q. ASSUME setup[h].at # "stored", Leave(h) \/ (\E point \in Points : Goto(h, point)),
             UNCHANGED <<stored, phase, cut>>, memory'.hash = memory.hash
      PROVE  Known'
  BY <1>q, OthersStay DEF Known
<1>2. CASE TakeLock(h)
  BY <1>2, <1>q, <1>p DEF TakeLock, At
<1>3. CASE HashPassword(h)
  BY <1>3, <1>q, <1>p DEF HashPassword, At
<1>4. CASE StoreHash(h)
  <2>1. CASE Goto(h, "stored")
    <3>1. setup'[h].at = "stored"
      BY <2>1 DEF Goto, TypeOK
    <3> QED
      BY <3>1 DEF Known
  <2>2. CASE Leave(h) /\ UNCHANGED stored
    BY <1>4, <2>2, <1>q DEF StoreHash, At
  <2>3. CASE Leave(h) /\ stored.hash # None
    <3>1. stored'.hash = stored.hash /\ setup[h].at # "stored"
      BY <1>4, <2>3 DEF StoreHash, SetSettingIfAbsent, At, TypeOK
    <3>2. UNCHANGED <<memory, phase, cut>>
      BY <1>4 DEF StoreHash
    <3> QED
      BY <2>3, <3>1, <3>2, OthersStay DEF Known
  <2> QED
    BY <1>4, <2>1, <2>2, <2>3 DEF StoreHash, Inserted
<1>5. CASE SetAdminHash(h)
  <2>1. setup[h].password \in Passwords /\ memory'.hash = setup[h].password
    BY <1>5 DEF SetAdminHash, At, TypeOK
  <2> QED
    BY <2>1 DEF Known
<1>6. CASE RotateSessionSecret(h)
  <2>1. memory'.hash = memory.hash
    BY <1>6 DEF RotateSessionSecret, TypeOK
  <2> QED
    BY <1>6, <2>1, <1>q, <1>p DEF RotateSessionSecret, At
<1>7. CASE StoreSecret(h)
  <2>1. stored'.hash = stored.hash
    BY <1>7 DEF StoreSecret, TypeOK
  <2>2. setup[h].at # "stored" /\ Goto(h, "persisted") /\ UNCHANGED <<memory, phase, cut>>
    BY <1>7 DEF StoreSecret, At
  <2> QED
    BY <2>1, <2>2, <1>p, OthersStay DEF Known
<1>8. CASE AnswerSetup(h)
  BY <1>8, <1>q, <1>p DEF AnswerSetup, At
<1>9. CASE Disconnect(h)
  <2>1. CASE setup[h].at = "stored"
    BY <1>9, <2>1 DEF Disconnect, Known
  <2>2. CASE setup[h].at # "stored"
    BY <1>9, <2>2, <1>q DEF Disconnect
  <2> QED
    BY <2>1, <2>2
<1> QED
  BY <1>1, <1>2, <1>3, <1>4, <1>5, <1>6, <1>7, <1>8, <1>9 DEF Setting

\* Every step keeps it.
LEMMA KnownStep ==
  ASSUME TypeOK, Stands, Known, [Next]_vars
  PROVE  Known'
<1>1. ASSUME NEW p \in Passwords \cup {None}, Start(p) PROVE Known'
  BY <1>1 DEF Start, Known
<1>2. CASE LoadHash
  BY <1>2 DEF LoadHash, Known
<1>3. CASE LoadSecret
  <2>1. stored'.hash = stored.hash /\ memory'.hash = memory.hash
    BY <1>3 DEF LoadSecret, TypeOK
  <2>2. memory.hash = stored.hash
    BY <1>3 DEF LoadSecret, Stands
  <2> QED
    BY <2>1, <2>2 DEF Known
<1>4. CASE Crash
  BY <1>4 DEF Crash, Known
<1>5. ASSUME NEW p \in Passwords, LoginSubmit(p) PROVE Known'
  BY <1>5 DEF LoginSubmit, Known
<1>6. ASSUME NEW cookie \in cookies, Expire(cookie) PROVE Known'
  BY <1>6 DEF Expire, Known
<1>7. CASE UNCHANGED vars
  BY <1>7 DEF vars, Known
<1> QED
  BY <1>1, <1>2, <1>3, <1>4, <1>5, <1>6, <1>7, KnownSetup DEF Next, Loading

\* The panel offers /setup only while no password is stored (auth.rs:5), short of a dropped setup.
THEOREM NoSetupOverHash == Spec => []SetupOnlyWithoutHash
<1>1. Init => Known
  BY DEF Init, Known
<1>2. Known => SetupOnlyWithoutHash
  BY DEF Known, SetupOnlyWithoutHash, AuthRedirect, HasAdminPassword
<1> QED
  BY <1>1, <1>2, KnownStep, StandsAlways, PTL DEF Spec

-----------------------------------------------------------------------------
(* Sessions.                                                               *)

\* Secrets are drawn in order, so that the next one is nobody's.
Drawn ==
  /\ stored.secret <= drawn /\ memory.secret <= drawn
  /\ \A cookie \in cookies : cookie.secret <= drawn

\* Every session of a secret, the stored one or the process's, was opened by the password in force,
\* unless a reset is under way or was cut off.
Sessions ==
  /\ cookies # {} => stored.hash # None
  /\ phase = "up" /\ memory.hash = None => cookies = {}
  /\ "reset" \in cut \/ phase = "rotate" \/
       \A cookie \in cookies : cookie.secret = stored.secret => cookie.password = stored.hash
  /\ "reset" \in cut \/ phase # "up" \/
       \A cookie \in cookies : cookie.secret = memory.secret => cookie.password = stored.hash

\* Starting, loading and crashing.
LEMMA SessionsProcess ==
  ASSUME TypeOK, Stands, Drawn, Sessions,
         (\E p \in Passwords \cup {None} : Start(p)) \/ Loading \/ Crash
  PROVE  Drawn' /\ Sessions'
<1>1. ASSUME NEW p \in Passwords \cup {None}, Start(p) PROVE Drawn' /\ Sessions'
  BY <1>1 DEF Start, Drawn, Sessions
<1>2. CASE LoadHash
  <2>1. /\ UNCHANGED <<cookies, drawn, cut>> /\ stored'.secret = stored.secret /\ memory'.secret = 0
        /\ phase = "hash" /\ phase' # "up"
        /\ \/ stored'.hash = stored.hash
           \/ stored'.hash # None /\ phase' = "rotate"
    BY <1>2 DEF LoadHash, Reset, TypeOK
  <2>2. drawn \in Nat
    BY DEF TypeOK
  <2> QED
    BY <2>1, <2>2 DEF Drawn, Sessions
<1>3. CASE LoadSecret
  <2>1. /\ UNCHANGED cookies /\ phase' = "up" /\ phase \in {"rotate", "secret"}
        /\ stored'.hash = stored.hash /\ memory'.hash = stored.hash
        /\ memory'.secret = stored'.secret
    BY <1>3 DEF LoadSecret, TypeOK, Stands
  <2>2. CASE /\ phase = "secret" /\ stored'.secret = stored.secret
             /\ drawn' = drawn /\ cut' = cut
    BY <2>1, <2>2 DEF Drawn, Sessions
  <2>3. CASE stored'.secret = drawn + 1 /\ drawn' = drawn + 1
    <3>1. /\ drawn \in Nat
          /\ \A cookie \in cookies : cookie.secret \in Nat /\ cookie.secret <= drawn
      BY DEF TypeOK, Drawn
    <3>2. \A cookie \in cookies : cookie.secret # stored'.secret /\ cookie.secret <= drawn'
      BY <2>3, <3>1
    <3>3. Drawn'
      BY <2>1, <2>3, <3>1, <3>2 DEF Drawn
    <3> QED
      BY <2>1, <3>2, <3>3 DEF Sessions
  <2> QED
    BY <1>3, <2>2, <2>3 DEF LoadSecret, TypeOK
<1>4. CASE Crash
  <2>1. drawn \in Nat /\ memory'.secret = 0 /\ UNCHANGED <<stored, cookies, drawn>> /\ phase' = "down"
    BY <1>4 DEF TypeOK, Crash
  <2>2. "reset" \in cut \/ phase = "rotate" => "reset" \in cut'
    BY <1>4 DEF Crash
  <2> QED
    BY <2>1, <2>2 DEF Drawn, Sessions
<1> QED
  BY <1>1, <1>2, <1>3, <1>4 DEF Loading

\* A session opened with the password in force.
LEMMA SessionsOpen ==
  ASSUME TypeOK, Stands, Drawn, Sessions, NEW p \in Passwords, phase = "up", memory.hash = p,
         cookies' = cookies \cup {Session(p)}, UNCHANGED <<stored, memory, phase, drawn, cut>>
  PROVE  Drawn' /\ Sessions'
<1>1. stored.hash = p
  BY DEF Stands
<1>2. Session(p).secret = memory.secret /\ Session(p).password = p
  BY DEF Session
<1> QED
  BY <1>1, <1>2 DEF Drawn, Sessions

\* A request's steps.
LEMMA SessionsSetup ==
  ASSUME TypeOK, Stands, Drawn, Sessions, NEW h \in Setups,
         (\E p \in Passwords : SetupSubmit(h, p)) \/ TakeLock(h) \/ Setting(h) \/ Disconnect(h)
  PROVE  Drawn' /\ Sessions'
<1>q. ASSUME UNCHANGED <<stored, memory, phase, cookies, drawn>>, "reset" \in cut' <=> "reset" \in cut
      PROVE  Drawn' /\ Sessions'
  BY <1>q DEF Drawn, Sessions
<1>1. ASSUME NEW p \in Passwords, SetupSubmit(h, p) PROVE Drawn' /\ Sessions'
  BY <1>1, <1>q DEF SetupSubmit
<1>2. CASE TakeLock(h)
  BY <1>2, <1>q DEF TakeLock
<1>3. CASE HashPassword(h)
  BY <1>3, <1>q DEF HashPassword
<1>4. CASE StoreHash(h)
  <2>1. /\ UNCHANGED <<memory, phase, cookies, drawn, cut>> /\ stored'.secret = stored.secret
        /\ stored'.hash = stored.hash \/ stored.hash = None
    BY <1>4 DEF StoreHash, SetSettingIfAbsent, TypeOK
  <2> QED
    BY <2>1 DEF Drawn, Sessions
<1>5. CASE SetAdminHash(h)
  <2>1. /\ UNCHANGED <<stored, phase, cookies, drawn, cut>> /\ memory'.secret = memory.secret
        /\ memory'.hash # None
    BY <1>5 DEF SetAdminHash, At, TypeOK
  <2> QED
    BY <2>1 DEF Drawn, Sessions
<1>6. CASE RotateSessionSecret(h)
  <2>1. /\ UNCHANGED <<stored, phase, cookies, cut>> /\ memory'.hash = memory.hash
        /\ memory'.secret = drawn + 1 /\ drawn' = drawn + 1
    BY <1>6 DEF RotateSessionSecret, TypeOK
  <2>2. drawn \in Nat /\ stored.secret \in Nat /\ \A cookie \in cookies : cookie.secret \in Nat
    BY DEF TypeOK
  <2>3. Drawn' /\ \A cookie \in cookies : cookie.secret # memory'.secret
    BY <2>1, <2>2 DEF Drawn
  <2> QED
    BY <2>1, <2>3 DEF Sessions
<1>7. CASE StoreSecret(h)
  <2>1. /\ UNCHANGED <<memory, phase, cookies, drawn, cut>> /\ stored'.hash = stored.hash
        /\ stored'.secret \in {stored.secret, memory.secret} /\ phase = "up"
    BY <1>7 DEF StoreSecret, TypeOK, At
  <2> QED
    BY <2>1 DEF Drawn, Sessions
<1>8. CASE AnswerSetup(h)
  <2>1. memory.hash = setup[h].password /\ setup[h].password \in Passwords
    BY <1>8 DEF AnswerSetup, At, Stands, TypeOK
  <2> QED
    BY <1>8, <2>1, SessionsOpen DEF AnswerSetup, At
<1>9. CASE Disconnect(h)
  BY <1>9, <1>q DEF Disconnect
<1> QED
  BY <1>1, <1>2, <1>3, <1>4, <1>5, <1>6, <1>7, <1>8, <1>9 DEF Setting

\* Every step keeps it.
LEMMA SessionsStep ==
  ASSUME TypeOK, Stands, Drawn, Sessions, [Next]_vars
  PROVE  Drawn' /\ Sessions'
<1>1. ASSUME NEW p \in Passwords, LoginSubmit(p) PROVE Drawn' /\ Sessions'
  BY <1>1, SessionsOpen DEF LoginSubmit
<1>2. ASSUME NEW cookie \in cookies, Expire(cookie) PROVE Drawn' /\ Sessions'
  BY <1>2 DEF Expire, Drawn, Sessions
<1>3. CASE UNCHANGED vars
  BY <1>3 DEF vars, Drawn, Sessions
<1> QED
  BY <1>1, <1>2, <1>3, SessionsProcess, SessionsSetup DEF Next

\* No session outlives the password that opened it (auth.rs:57), short of a reset cut off.
THEOREM SessionsEndWithTheirPassword == Spec => []ResetEndsOldSessions
<1>1. Init => Drawn /\ Sessions
  BY DEF Init, Drawn, Sessions
<1>2. Stands /\ Sessions => ResetEndsOldSessions
  BY DEF Stands, Sessions, ResetEndsOldSessions, RequirePanel, ValidSession, AuthRedirect
<1> QED
  BY <1>1, <1>2, SessionsStep, StandsAlways, PTL DEF Spec
=============================================================================
