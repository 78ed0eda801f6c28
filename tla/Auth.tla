-------------------------------- MODULE Auth --------------------------------
(***************************************************************************)
(* The panel's password and sessions (rs/src/auth.rs, server/web.rs): the  *)
(* first-run setup under its mutex, loading with a password from the       *)
(* environment, login, and crashes and closed connections in between.      *)
(*                                                                         *)
(* A hash stands for the one password it verifies, a secret for the number *)
(* of its drawing.  An await is where a step ends; a handler whose client  *)
(* goes away is dropped at one.  Logging out only clears the browser's     *)
(* cookie and changes nothing here.                                        *)
(***************************************************************************)
EXTENDS Naturals

CONSTANTS
  Passwords,
  Setups,    \* setup requests at the same time
  MaxStarts, \* bound: starts of the process
  None

ASSUME AuthAssumption == None \notin Passwords \cup Setups /\ MaxStarts \in Nat

VARIABLES
  stored,  \* the settings table: password hash and session secret
  memory,  \* AuthState: the same two
  phase,   \* "down", loading ("hash", "rotate", "secret") or "up"
  env,     \* TT_ADMIN_PASSWORD of this start
  setup,   \* where each setup request stands and its password
  lock,    \* holder of setup_lock
  cookies, \* sessions in browsers, with the password that opened each
  drawn,   \* secrets drawn so far; 0 is none
  starts,
  \* history, read by properties only
  cut      \* what was cut off between two writes and has not been mended: "reset", "setup"

vars == <<stored, memory, phase, env, setup, lock, cookies, drawn, starts, cut>>

Idle == [at |-> "idle", password |-> None]
NoKeys == [hash |-> None, secret |-> 0]

Init ==
  /\ stored = NoKeys /\ memory = NoKeys
  /\ phase = "down" /\ env = None
  /\ setup = [h \in Setups |-> Idle] /\ lock = None
  /\ cookies = {} /\ drawn = 0 /\ starts = 0 /\ cut = {}

-----------------------------------------------------------------------------
(* AuthState::load.                                                        *)

Start(password) ==
  /\ phase = "down" /\ starts < MaxStarts
  /\ phase' = "hash" /\ env' = password /\ starts' = starts + 1
  /\ UNCHANGED <<stored, memory, setup, lock, cookies, drawn, cut>>

\* Mutant: the environment only counts while there is no password.
ResetIfUnset(password, hash) == password # None /\ hash = None

Reset(password, hash) == password # None /\ hash # password

\* Mutant: the secret is not drawn anew for the new password.
LoadHashOnly ==
  /\ phase = "hash"
  /\ LET hash == IF Reset(env, stored.hash) THEN env ELSE stored.hash
     IN /\ stored' = [stored EXCEPT !.hash = hash]
        /\ memory' = [hash |-> hash, secret |-> 0]
  /\ phase' = "secret"
  /\ UNCHANGED <<env, setup, lock, cookies, drawn, starts, cut>>

\* A password of the environment that the stored hash does not verify replaces it.
LoadHash ==
  /\ phase = "hash"
  /\ LET hash == IF Reset(env, stored.hash) THEN env ELSE stored.hash
     IN /\ stored' = [stored EXCEPT !.hash = hash]
        /\ memory' = [hash |-> hash, secret |-> 0]
  /\ phase' = IF Reset(env, stored.hash) THEN "rotate" ELSE "secret"
  /\ UNCHANGED <<env, setup, lock, cookies, drawn, starts, cut>>

LoadSecret ==
  /\ phase \in {"rotate", "secret"}
  /\ LET keep == phase = "secret" /\ stored.secret # 0
         secret == IF keep THEN stored.secret ELSE drawn + 1
     IN /\ stored' = [stored EXCEPT !.secret = secret]
        /\ memory' = [memory EXCEPT !.secret = secret]
        /\ drawn' = IF keep THEN drawn ELSE drawn + 1
        /\ cut' = IF keep THEN cut ELSE cut \ {"reset"}
  /\ phase' = "up"
  /\ UNCHANGED <<env, setup, lock, cookies, starts>>

Crash ==
  /\ phase # "down"
  /\ phase' = "down" /\ env' = None /\ memory' = NoKeys
  /\ setup' = [h \in Setups |-> Idle] /\ lock' = None
  /\ cut' = IF phase = "rotate" THEN {"reset"} ELSE cut \ {"setup"}
  /\ UNCHANGED <<stored, cookies, drawn, starts>>

-----------------------------------------------------------------------------
(* setup_submit.                                                           *)

HasAdminPassword == memory.hash # None

At(h, point) == phase = "up" /\ setup[h].at = point

Goto(h, point) == setup' = [setup EXCEPT ![h].at = point]

\* Mutant: the guard is not released.
Kept(h) == lock

Released(h) == IF lock = h THEN None ELSE lock

\* A handler that ends, whatever its answer, lets go of the lock.
Leave(h) == setup' = [setup EXCEPT ![h] = Idle] /\ lock' = Released(h)

SetupSubmit(h, password) ==
  /\ At(h, "idle") /\ ~HasAdminPassword
  /\ setup' = [setup EXCEPT ![h] = [at |-> "waiting", password |-> password]]
  /\ UNCHANGED <<stored, memory, phase, env, lock, cookies, drawn, starts, cut>>

\* Mutant: nobody waits.
Passed == TRUE

Free == lock = None

TakeLock(h) ==
  /\ At(h, "waiting") /\ Free
  /\ \/ HasAdminPassword /\ Leave(h)
     \/ ~HasAdminPassword /\ lock' = h /\ Goto(h, "hashing")
  /\ UNCHANGED <<stored, memory, phase, env, cookies, drawn, starts, cut>>

\* Hashing runs on another thread and may fail.
HashPassword(h) ==
  /\ At(h, "hashing")
  /\ \/ Goto(h, "hashed") /\ UNCHANGED lock
     \/ Leave(h)
  /\ UNCHANGED <<stored, memory, phase, env, cookies, drawn, starts, cut>>

\* Mutant: set_setting, which overwrites.
SetSetting(password, hash) == password

SetSettingIfAbsent(password, hash) == IF hash = None THEN password ELSE hash

\* Mutant: the number of rows is not looked at.
Accepted(hash) == TRUE

Inserted(hash) == hash = None

\* An error of the database changes nothing.
StoreHash(h) ==
  /\ At(h, "hashed")
  /\ \/ /\ stored' = [stored EXCEPT !.hash = SetSettingIfAbsent(setup[h].password, @)]
        /\ IF Inserted(stored.hash) THEN Goto(h, "stored") /\ UNCHANGED lock ELSE Leave(h)
     \/ Leave(h) /\ UNCHANGED stored
  /\ UNCHANGED <<memory, phase, env, cookies, drawn, starts, cut>>

\* Mutant: the process goes on without the hash.
SkipAdminHash(h) ==
  /\ At(h, "stored")
  /\ Goto(h, "set")
  /\ UNCHANGED <<stored, memory, phase, env, lock, cookies, drawn, starts, cut>>

SetAdminHash(h) ==
  /\ At(h, "stored")
  /\ memory' = [memory EXCEPT !.hash = setup[h].password]
  /\ Goto(h, "set")
  /\ UNCHANGED <<stored, phase, env, lock, cookies, drawn, starts, cut>>

RotateSessionSecret(h) ==
  /\ At(h, "set")
  /\ memory' = [memory EXCEPT !.secret = drawn + 1]
  /\ drawn' = drawn + 1
  /\ Goto(h, "rotated")
  /\ UNCHANGED <<stored, phase, env, lock, cookies, starts, cut>>

Session(password) == [secret |-> memory.secret, password |-> password]

\* A failure is only logged.
StoreSecret(h) ==
  /\ At(h, "rotated")
  /\ \/ stored' = [stored EXCEPT !.secret = memory.secret]
     \/ UNCHANGED stored
  /\ Goto(h, "persisted")
  /\ UNCHANGED <<memory, phase, env, lock, cookies, drawn, starts, cut>>

AnswerSetup(h) ==
  /\ At(h, "persisted")
  /\ cookies' = cookies \cup {Session(setup[h].password)}
  /\ Goto(h, "won") /\ lock' = Released(h)
  /\ UNCHANGED <<stored, memory, phase, env, drawn, starts, cut>>

\* The client closed its connection: the handler is dropped where it waits, which a statement
\* already handed to the database does not notice.
Disconnect(h) ==
  /\ phase = "up" /\ setup[h].at \in {"waiting", "hashing", "hashed", "stored", "rotated", "persisted"}
  /\ Leave(h)
  /\ cut' = IF setup[h].at = "stored" THEN cut \cup {"setup"} ELSE cut
  /\ UNCHANGED <<stored, memory, phase, env, cookies, drawn, starts>>

-----------------------------------------------------------------------------
(* Sessions.                                                               *)

\* The hash never changes once it is set, so that checking and issuing are one step.
LoginSubmit(password) ==
  /\ phase = "up" /\ memory.hash = password
  /\ cookies' = cookies \cup {Session(password)}
  /\ UNCHANGED <<stored, memory, phase, env, setup, lock, drawn, starts, cut>>

\* Seven days later.
Expire(cookie) ==
  /\ cookies' = cookies \ {cookie}
  /\ UNCHANGED <<stored, memory, phase, env, setup, lock, drawn, starts, cut>>

ValidSession(cookie) == phase = "up" /\ cookie.secret = memory.secret

AuthRedirect == IF HasAdminPassword THEN "login" ELSE "setup"

\* Where a request for a page of the panel ends.
RequirePanel(cookie) == IF ValidSession(cookie) THEN "page" ELSE AuthRedirect

-----------------------------------------------------------------------------

Loading == LoadHash \/ LoadSecret

Setting(h) ==
  \/ HashPassword(h) \/ StoreHash(h) \/ SetAdminHash(h)
  \/ RotateSessionSecret(h) \/ StoreSecret(h) \/ AnswerSetup(h)

Next ==
  \/ \E password \in Passwords \cup {None} : Start(password)
  \/ Loading \/ Crash
  \/ \E h \in Setups :
       \/ \E password \in Passwords : SetupSubmit(h, password)
       \/ TakeLock(h) \/ Setting(h) \/ Disconnect(h)
  \/ \E password \in Passwords : LoginSubmit(password)
  \/ \E cookie \in cookies : Expire(cookie)

Spec == Init /\ [][Next]_vars

\* Handlers are scheduled, and setup_lock serves its waiters in their order.
Fairness ==
  /\ WF_vars(Loading)
  /\ \A h \in Setups : WF_vars(Setting(h)) /\ SF_vars(TakeLock(h))

FairSpec == Spec /\ Fairness

-----------------------------------------------------------------------------
(* Properties.                                                             *)

Keys == [hash : Passwords \cup {None}, secret : Nat]
Points == {"idle", "waiting", "hashing", "hashed", "stored", "set", "rotated", "persisted", "won"}

\* The variables have their types, and only who holds the lock is past it.
TypeOK ==
  /\ stored \in Keys /\ memory \in Keys
  /\ phase \in {"down", "hash", "rotate", "secret", "up"} /\ env \in Passwords \cup {None}
  /\ setup \in [Setups -> [at : Points, password : Passwords \cup {None}]]
  /\ lock \in Setups \cup {None}
  /\ cookies \subseteq [secret : Nat, password : Passwords]
  /\ drawn \in Nat /\ starts \in Nat /\ cut \subseteq {"reset", "setup"}
  /\ \A h \in Setups : setup[h].at # "idle" => setup[h].password \in Passwords
  /\ \A h \in Setups : setup[h].at \notin {"idle", "waiting", "won"} => lock = h

\* A password once created is never replaced by another setup, whatever races, is dropped or
\* crashes: only a start with TT_ADMIN_PASSWORD changes it.
FirstPasswordStands ==
  [][stored.hash # None /\ stored'.hash # stored.hash
       => phase = "hash" /\ env # None /\ stored'.hash = env]_vars

\* While a process started with TT_ADMIN_PASSWORD serves, that password opens the panel, now and
\* after a restart without it.
EnvPasswordInForce ==
  phase = "up" /\ env # None => memory.hash = env /\ stored.hash = env

\* Whoever is told that setup succeeded chose the password in force.
WinnersPassword ==
  \A h \in Setups : setup[h].at = "won"
                      => memory.hash = setup[h].password /\ stored.hash = setup[h].password

\* A setup request that waits for the lock is answered or its client leaves.
SetupAnswered ==
  \A h \in Setups : setup[h].at = "waiting" ~> setup[h].at \in {"idle", "won"}

\* A session does not outlive the password that opened it (auth.rs:57): whoever is let in by a
\* cookie chose the password in force.  Only a start killed between the two statements of a reset
\* breaks this, and until a secret is drawn anew.
ResetEndsOldSessions ==
  "reset" \in cut \/
    \A cookie \in cookies : RequirePanel(cookie) = "page" => cookie.password = memory.hash

\* The panel asks to create a password only while none is stored (auth.rs:5), so that nobody is sent
\* from /setup to /login and back.  Only a setup dropped while its INSERT runs breaks this, and
\* until the process is restarted.
SetupOnlyWithoutHash ==
  phase = "up" /\ stored.hash # None /\ "setup" \notin cut /\ (\A h \in Setups : setup[h].at # "stored")
    => AuthRedirect = "login"
=============================================================================
