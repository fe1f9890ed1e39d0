------------------------------- MODULE Server -------------------------------
(***************************************************************************)
(* `serve` of network/ssh.rs and `main`: one accept loop that also listens *)
(* for SIGTERM, and for each connection a task that runs the handshake     *)
(* (russh's run_stream), then the session and, beside it, a watchdog that  *)
(* enforces the login grace time and the session lifetime.  The handler    *)
(* owned by the session holds the slot of the connection registry          *)
(* (Limiter, with its one acceptor), so the slot comes back when, and only *)
(* when, the handler is dropped.                                           *)
(*                                                                         *)
(* Time is one integer age per connection.  A timer that is due fires      *)
(* before the next tick: the runtime wakes a sleeping task promptly.       *)
(***************************************************************************)
EXTENDS Limiter

CONSTANTS
    LoginGrace,     \* LOGIN_GRACE
    IdleTimeout,    \* config.idle_timeout_secs
    MaxSession,     \* config.max_session_secs
    Never           \* no login yet: not an age

(* What Config::validate lets through; LOGIN_GRACE is a constant of the code *)
(* and may be on either side of the configured limits.                       *)
ASSUME ServerAssumption ==
    /\ LoginGrace \in Nat /\ IdleTimeout \in Nat /\ MaxSession \in Nat
    /\ 1 <= LoginGrace /\ 1 <= IdleTimeout /\ IdleTimeout <= MaxSession
    /\ Never \notin Nat

VARIABLES
    loop,       \* where the accept loop is
    term_sent,  \* the supervisor sent SIGTERM
    term_seen,  \* ... and the listener of the current iteration has it pending
    stage,      \* the connection's task
    age,        \* time since the connection was accepted
    login,      \* age at which the login was accepted: authenticated # false
    watchdog,   \* the watchdog task of the connection
    logged      \* the connection's last connection_opened / connection_closed

serverVars == <<loop, term_sent, term_seen, stage, age, login, watchdog, logged>>
vars       == <<limiterVars, serverVars>>
connVars   == <<stage, age, login, watchdog, logged>>
loopVars   == <<loop, term_sent, term_seen>>

Loops     == {"select", "handle", "backoff", "unwinding", "exited"}
Stages    == {"none", "handshake", "running", "ending", "gone"}
Fired     == {"login_timeout", "session_timeout"}
Watchdogs == {"none", "asleep", "asleep_authed", "done"} \cup Fired

Ages == 0 .. (MaxSession + 1)

FirstDeadline == IF LoginGrace < MaxSession THEN LoginGrace ELSE MaxSession

ServerInit ==
    /\ LimiterInit
    /\ loop = "select" /\ term_sent = FALSE /\ term_seen = FALSE
    /\ stage = [c \in Conns |-> "none"]
    /\ age = [c \in Conns |-> 0]
    /\ login = [c \in Conns |-> Never]
    /\ watchdog = [c \in Conns |-> "none"]
    /\ logged = [c \in Conns |-> "none"]

-----------------------------------------------------------------------------
(* The accept loop.  Each iteration builds a new signal listener, which sees *)
(* only signals that arrive while it exists: leaving the select! by its      *)
(* other branch drops it, and what it had pending with it.                   *)

Sigterm ==
    /\ ~term_sent /\ loop # "exited"
    /\ term_sent' = TRUE
    /\ term_seen' = (loop = "select")
    /\ UNCHANGED <<limiterVars, connVars, loop>>

(* listener.accept() won; the registry's first half (Reserve) follows. *)
Accept(c, ip) ==
    /\ loop = "select" /\ stage[c] = "none"
    /\ Reserve(c, ip)
    /\ loop' = "handle" /\ term_seen' = FALSE
    /\ UNCHANGED <<connVars, term_sent>>

(* listener.accept() failed: event, 50 ms of sleep, next iteration. *)
AcceptError ==
    /\ loop = "select"
    /\ loop' = "backoff" /\ term_seen' = FALSE
    /\ UNCHANGED <<limiterVars, connVars, term_sent>>

BackoffOver ==
    /\ loop = "backoff"
    /\ loop' = "select"
    /\ UNCHANGED <<limiterVars, connVars, term_sent, term_seen>>

(* try_acquire's second half, and for an admitted connection the rest of the *)
(* iteration: connection_opened, the handler, the spawned task.              *)
Admit(c) ==
    /\ loop = "handle"
    /\ AdmitOrRefuse(c)
    /\ IF phase'[c] = "held"
       THEN /\ stage' = [stage EXCEPT ![c] = "handshake"]
            /\ logged' = [logged EXCEPT ![c] = "opened"]
            /\ loop' = "select"
       ELSE UNCHANGED <<stage, logged, loop>>
    /\ UNCHANGED <<age, login, watchdog, term_sent, term_seen>>

Reject(c) ==
    /\ loop = "handle"
    /\ DropRefused(c)
    /\ loop' = "select"
    /\ UNCHANGED <<connVars, term_sent, term_seen>>

(* The signal branch won: `serve` returns, and main drops the runtime.       *)
Shutdown ==
    /\ loop = "select" /\ term_seen
    /\ loop' = "unwinding"
    /\ UNCHANGED <<limiterVars, connVars, term_sent, term_seen>>

(* `runtime` is declared after `_log_guard`, so it is dropped first: every   *)
(* task is gone before the guard flushes the log and the process ends.       *)

Exit ==
    /\ loop = "unwinding"
    /\ \A c \in Conns : stage[c] = "none"
    /\ loop' = "exited"
    /\ UNCHANGED <<limiterVars, connVars, term_sent, term_seen>>

-----------------------------------------------------------------------------
(* A connection's task.                                                      *)

(* run_stream returned a session: the watchdog is spawned. *)
HandshakeDone(c) ==
    /\ stage[c] = "handshake" /\ loop # "exited"
    /\ stage' = [stage EXCEPT ![c] = "running"]
    /\ watchdog' = [watchdog EXCEPT ![c] = "asleep"]
    /\ UNCHANGED <<limiterVars, loopVars, age, login, logged>>

(* run_stream failed: the client left or, at the latest, russh's inactivity  *)
(* timeout.  The handler goes with it.                                       *)

HandshakeFails_Leak(c) ==
    /\ stage[c] = "handshake"
    /\ stage' = [stage EXCEPT ![c] = "gone"]
    /\ UNCHANGED <<limiterVars, loopVars, age, login, watchdog, logged>>

HandshakeFails(c) ==
    /\ stage[c] = "handshake"
    /\ stage' = [stage EXCEPT ![c] = "ending"]
    /\ UNCHANGED <<limiterVars, loopVars, age, login, watchdog, logged>>

(* auth_password accepted: the flag the watchdog reads is set. *)
Login(c) ==
    /\ stage[c] = "running" /\ login[c] = Never
    /\ login' = [login EXCEPT ![c] = age[c]]
    /\ UNCHANGED <<limiterVars, loopVars, stage, age, watchdog, logged>>

(* The peer closes, vanishes, idles too long or uses up its auth attempts. *)
ClientLeaves(c) ==
    /\ stage[c] = "running"
    /\ stage' = [stage EXCEPT ![c] = "ending"]
    /\ UNCHANGED <<limiterVars, loopVars, age, login, watchdog, logged>>

(* main drops the runtime: the tasks still there are dropped. *)
TaskDropped(c) ==
    /\ loop = "unwinding" /\ stage[c] \in {"handshake", "running"}
    /\ stage' = [stage EXCEPT ![c] = "ending"]
    /\ UNCHANGED <<limiterVars, loopVars, age, login, watchdog, logged>>

(* The watchdog wakes at the first deadline and reads the flag. *)

WatchdogWakes_StaleFlag(c) ==
    /\ watchdog[c] = "asleep" /\ age[c] >= FirstDeadline
    /\ watchdog' = [watchdog EXCEPT ![c] = "login_timeout"]
    /\ UNCHANGED <<limiterVars, loopVars, stage, age, login, logged>>

WatchdogWakes(c) ==
    /\ watchdog[c] = "asleep" /\ age[c] >= FirstDeadline
    /\ watchdog' = [watchdog EXCEPT ![c] =
                      IF login[c] # Never THEN "asleep_authed" ELSE "login_timeout"]
    /\ UNCHANGED <<limiterVars, loopVars, stage, age, login, logged>>

WatchdogDeadline(c) ==
    /\ watchdog[c] = "asleep_authed" /\ age[c] >= MaxSession
    /\ watchdog' = [watchdog EXCEPT ![c] = "session_timeout"]
    /\ UNCHANGED <<limiterVars, loopVars, stage, age, login, logged>>

(* handle.disconnect: the session ends, unless it already has.               *)

Disconnect_Detached(c) ==
    /\ watchdog[c] \in Fired
    /\ watchdog' = [watchdog EXCEPT ![c] = "done"]
    /\ UNCHANGED <<limiterVars, loopVars, stage, age, login, logged>>

Disconnect(c) ==
    /\ watchdog[c] \in Fired
    /\ watchdog' = [watchdog EXCEPT ![c] = "done"]
    /\ stage' = [stage EXCEPT ![c] = IF @ = "running" THEN "ending" ELSE @]
    /\ UNCHANGED <<limiterVars, loopVars, age, login, logged>>

(* MimicHandler::drop logs connection_closed, then its fields are dropped,   *)
(* `_guard` the last: the registry's two release steps.                      *)

HandlerDrop_GuardFirst(c) ==
    /\ stage[c] = "ending" /\ logged[c] = "opened"
    /\ IF phase[c] = "held" THEN ReleaseEntry(c) /\ UNCHANGED logged
       ELSE logged' = [logged EXCEPT ![c] = "closed"] /\ UNCHANGED limiterVars
    /\ UNCHANGED <<loopVars, stage, age, login, watchdog>>

HandlerDrop(c) ==
    /\ stage[c] = "ending" /\ logged[c] = "opened"
    /\ logged' = [logged EXCEPT ![c] = "closed"]
    /\ UNCHANGED <<limiterVars, loopVars, stage, age, login, watchdog>>

GuardDrop(c) ==
    /\ stage[c] = "ending" /\ logged[c] = "closed"
    /\ ReleaseEntry(c)
    /\ UNCHANGED serverVars

GuardDropEnds(c) ==
    /\ stage[c] = "ending"
    /\ ReleaseTotal(c)
    /\ stage' = [stage EXCEPT ![c] = "gone"]
    /\ UNCHANGED <<loopVars, age, login, watchdog, logged>>

(* session.await returned: watchdog.abort(), end of the task. *)
TaskEnds(c) ==
    /\ stage[c] = "gone"
    /\ stage' = [stage EXCEPT ![c] = "none"]
    /\ age' = [age EXCEPT ![c] = 0]
    /\ login' = [login EXCEPT ![c] = Never]
    /\ watchdog' = [watchdog EXCEPT ![c] = "none"]
    /\ logged' = [logged EXCEPT ![c] = "none"]
    /\ UNCHANGED <<limiterVars, loopVars>>

(* A timer that is due fires before the connection's clock moves on. *)
Due(c) ==
    \/ stage[c] = "handshake" /\ age[c] >= IdleTimeout
    \/ watchdog[c] = "asleep" /\ age[c] >= FirstDeadline
    \/ watchdog[c] = "asleep_authed" /\ age[c] >= MaxSession
    \/ watchdog[c] \in Fired

Tick(c) ==
    /\ stage[c] \in {"handshake", "running"} /\ ~Due(c)
    /\ age[c] + 1 \in Ages
    /\ age' = [age EXCEPT ![c] = @ + 1]
    /\ UNCHANGED <<limiterVars, loopVars, stage, login, watchdog, logged>>

(* The process is gone. *)
Exited == loop = "exited" /\ UNCHANGED vars

ConnStep(c) ==
    \/ \E ip \in Ips : Accept(c, ip)
    \/ Admit(c)         \/ Reject(c)
    \/ HandshakeDone(c) \/ HandshakeFails(c)
    \/ Login(c)         \/ ClientLeaves(c)     \/ TaskDropped(c)
    \/ WatchdogWakes(c) \/ WatchdogDeadline(c) \/ Disconnect(c)
    \/ HandlerDrop(c)   \/ GuardDrop(c)        \/ GuardDropEnds(c)
    \/ TaskEnds(c)      \/ Tick(c)

ServerNext ==
    \/ Sigterm \/ AcceptError \/ BackoffOver \/ Shutdown \/ Exit \/ Exited
    \/ \E c \in Conns : ConnStep(c)

(* What the runtime schedules by itself.  Nothing is assumed of clients,     *)
(* of the supervisor or of which branch a select! takes when both are ready. *)
TimerSteps(c) ==
    \/ Tick(c) \/ WatchdogWakes(c) \/ WatchdogDeadline(c) \/ Disconnect(c)
    \/ age[c] >= IdleTimeout /\ HandshakeFails(c)

TeardownSteps(c) ==
    \/ TaskDropped(c) \/ HandlerDrop(c) \/ GuardDrop(c) \/ GuardDropEnds(c) \/ TaskEnds(c)

LoopSteps ==
    \/ BackoffOver \/ Shutdown \/ Exit
    \/ \E c \in Conns : Admit(c) \/ Reject(c)

Fairness ==
    /\ WF_vars(LoopSteps)
    /\ \A c \in Conns : WF_vars(TimerSteps(c)) /\ WF_vars(TeardownSteps(c))

ServerSpec == ServerInit /\ [][ServerNext]_vars
FairServer == ServerSpec /\ Fairness

-----------------------------------------------------------------------------
(* Types, and what the stages of a connection's task mean for the registry.  *)
ServerTypeOK ==
    /\ LimiterTypeOK
    /\ loop \in Loops /\ term_sent \in BOOLEAN /\ term_seen \in BOOLEAN
    /\ stage \in [Conns -> Stages]
    /\ age \in [Conns -> Ages]
    /\ login \in [Conns -> Ages \cup {Never}]
    /\ watchdog \in [Conns -> Watchdogs]
    /\ logged \in [Conns -> {"none", "opened", "closed"}]

(* A slot is held exactly while a handler exists: from the spawned task's    *)
(* start to the drop of the handler, whichever of the ways out it took, and  *)
(* a refused attempt never has a task.                                       *)
SlotFollowsHandler ==
    \A c \in Conns :
        /\ phase[c] = "held" <=>
             \/ stage[c] \in {"handshake", "running"}
             \/ stage[c] = "ending" /\ phase[c] # "releasing"
        /\ phase[c] = "releasing" => stage[c] = "ending"

(* No connection outlives max_session_secs, whatever the client does: in the *)
(* handshake the inactivity timeout ends it (validate keeps that below the   *)
(* lifetime), afterwards the watchdog does.                                  *)
LifetimeBounded ==
    \A c \in Conns : phase[c] = "held" => age[c] <= MaxSession

(* A login_timeout is never logged for a client that had logged in before    *)
(* the watchdog's first deadline, however its login interleaves with it.     *)
LoginTimeoutIsTrue ==
    \A c \in Conns :
        watchdog[c] = "login_timeout" /\ login[c] # Never => login[c] >= FirstDeadline

(* The watchdog's two deadlines: it ends every session in time, and what it  *)
(* reports of the login is true.                                             *)
TimeoutsHold == LifetimeBounded /\ LoginTimeoutIsTrue

(* The sessions the log shows as open are never more than the slots: a       *)
(* session is closed in the log before its slot can be given to the next.    *)
LogWithinCaps ==
    /\ Cardinality({c \in Conns : logged[c] = "opened"}) <= MaxSessions
    /\ \A c \in Conns : logged[c] = "opened" => phase[c] = "held"

(* When the process ends on a signal, every session it opened has been       *)
(* closed in the log that the guard flushes.                                 *)
ShutdownClosesSessions ==
    loop = "exited" => \A c \in Conns : logged[c] # "opened" /\ phase[c] = "idle"

(* The log and the registry tell the same story while the process runs and   *)
(* when it has ended on a signal.                                            *)
LogIsTrue == LogWithinCaps /\ ShutdownClosesSessions

(* Every slot comes back, whatever the clients do. *)
SlotsComeBack ==
    \A c \in Conns : phase[c] = "held" ~> phase[c] = "idle"

(* The login grace time of the security model: no connection that has not    *)
(* logged in is older than LOGIN_GRACE.                                      *)
LoginGraceHolds ==
    \A c \in Conns : phase[c] = "held" /\ login[c] = Never => age[c] <= LoginGrace

(* SIGTERM makes the process end cleanly, with the log flushed. *)
SigtermIsHeeded == term_sent ~> loop = "exited"
=============================================================================
