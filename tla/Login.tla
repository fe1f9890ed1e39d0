------------------------------- MODULE Login -------------------------------
(***************************************************************************)
(* Authentication of one connection: auth_password, auth_publickey and     *)
(* decide_auth of network/ssh.rs under each auth.mode, and russh's own     *)
(* count of rejections, which ends the connection at max_auth_attempts.    *)
(* The `none` request a client opens with is answered by russh and reaches *)
(* none of this code.                                                      *)
(***************************************************************************)
EXTENDS Integers

CONSTANT MaxAuthAttempts        \* MAX_AUTH_ATTEMPTS

ASSUME LoginAssumption == MaxAuthAttempts \in Nat \ {0}

VARIABLES
    auth,       \* Config.auth: mode and accept_after
    conn        \* the connection: auth_attempts, outcome, and the passwords tried

loginVars == <<auth, conn>>

Modes == {"accept_all", "reject_all", "accept_after", "credentials"}

LoginInit ==
    /\ auth \in [mode : Modes, accept_after : 1..MaxAuthAttempts]      \* Config::validate
    /\ conn = [auth_attempts |-> 0, outcome |-> "open", guesses |-> {}]

DecideAuth_OffByOne(attempts, listed) ==
    CASE auth.mode = "accept_all" -> TRUE
      [] auth.mode = "reject_all" -> FALSE
      [] auth.mode = "accept_after" -> attempts > auth.accept_after
      [] auth.mode = "credentials" -> listed

DecideAuth(attempts, listed) ==
    CASE auth.mode = "accept_all" -> TRUE
      [] auth.mode = "reject_all" -> FALSE
      [] auth.mode = "accept_after" -> attempts >= auth.accept_after
      [] auth.mode = "credentials" -> listed

(* russh gives up on a client at its max_auth_attempts-th rejection. *)
Rejected(attempts) == IF attempts >= MaxAuthAttempts THEN "cut" ELSE "open"

(* `listed`: the pair is one of auth.credentials. *)
AuthPassword(listed) ==
    LET n == conn.auth_attempts + 1
        accepted == DecideAuth(n, listed)
    IN  /\ conn.outcome = "open"
        /\ conn' = [auth_attempts |-> n, guesses |-> conn.guesses \cup {n},
                    outcome |-> IF accepted THEN "in" ELSE Rejected(n)]
        /\ UNCHANGED auth

(* Every key is refused, and counts as an attempt. *)
AuthPublickey ==
    LET n == conn.auth_attempts + 1
    IN  /\ conn.outcome = "open"
        /\ conn' = [conn EXCEPT !.auth_attempts = n, !.outcome = Rejected(n)]
        /\ UNCHANGED auth

LoginNext == AuthPublickey \/ \E listed \in BOOLEAN : AuthPassword(listed)

LoginSpec == LoginInit /\ [][LoginNext]_loginVars

-----------------------------------------------------------------------------
(* accept_after is worth its name for every value validate admits: a client  *)
(* that gives a password at or after the accept_after-th attempt is let in,  *)
(* never cut off first, and nobody is let in on an earlier attempt.          *)
NthAttemptIsAccepted ==
    auth.mode = "accept_after" =>
        /\ conn.outcome = "in" => conn.auth_attempts >= auth.accept_after
        /\ (\E n \in conn.guesses : n >= auth.accept_after) => conn.outcome = "in"
        /\ conn.outcome = "cut" => conn.auth_attempts = MaxAuthAttempts
=============================================================================
