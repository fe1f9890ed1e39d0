------------------------------ MODULE Limiter ------------------------------
(***************************************************************************)
(* ConnectionRegistry of network/limiter.rs: a global cap on concurrent    *)
(* sessions (an atomic counter) and a cap per source address (a map behind *)
(* a mutex).  The two live in different cells, so an acquisition and a     *)
(* release each take two separately visible steps.                         *)
(*                                                                         *)
(* The critical section of try_acquire touches `per_ip` under the lock and *)
(* ends with at most one atomic access to `total`; nobody else can read    *)
(* `per_ip` in between, so it is one step.  `release` drops the lock       *)
(* before it touches `total`, so it is two.                                *)
(***************************************************************************)
EXTENDS Naturals, FiniteSets

CONSTANTS
    Conns,          \* connection attempts that may be in progress at once
    Ips,            \* source addresses
    NoIp,           \* "no address": outside Ips
    MaxSessions,    \* config.max_sessions
    PerIp,          \* config.per_ip_connections
    Acceptors       \* how many threads may be inside try_acquire at once
                    \* (`serve` has one accept loop; the type allows more)

(* What Config::validate lets through. *)
ASSUME ConfigAssumption ==
    /\ MaxSessions \in Nat /\ PerIp \in Nat
    /\ 1 <= PerIp /\ PerIp <= MaxSessions

ASSUME ConnsAssumption == IsFiniteSet(Conns) /\ NoIp \notin Ips /\ Acceptors \in Nat

VARIABLES
    total,          \* ConnectionRegistry.total
    per_ip,         \* RegistryInner.per_ip: a map, an absent key has no entry
    addr,           \* the peer address of a connection
    phase           \* how far a connection has come

limiterVars == <<total, per_ip, addr, phase>>

Phases == {"idle",              \* no connection
           "reserved",          \* counted in total, per_ip not looked at yet
           "held",              \* try_acquire returned a guard
           "releasing",         \* guard dropped: out of per_ip, still in total
           "refused_global",    \* Err(RejectReason::GlobalLimit)
           "refused_ip"}        \* Err(RejectReason::PerIpLimit)

In(p)       == {c \in Conns : phase[c] = p}
HeldBy(ip)  == {c \in Conns : phase[c] = "held" /\ addr[c] = ip}
Counted     == {c \in Conns : phase[c] \in {"reserved", "held", "releasing"}}

CountOf(ip) == IF ip \in DOMAIN per_ip THEN per_ip[ip] ELSE 0

LimiterInit ==
    /\ total = 0
    /\ per_ip = [ip \in {} |-> 0]
    /\ addr = [c \in Conns |-> NoIp]
    /\ phase = [c \in Conns |-> "idle"]

-----------------------------------------------------------------------------
(* try_acquire, first half: fetch_update on total, all or nothing. *)

Reserve(c, ip) ==
    /\ phase[c] = "idle"
    /\ Cardinality(In("reserved")) < Acceptors
    /\ addr' = [addr EXCEPT ![c] = ip]
    /\ IF total >= MaxSessions
       THEN phase' = [phase EXCEPT ![c] = "refused_global"] /\ UNCHANGED total
       ELSE phase' = [phase EXCEPT ![c] = "reserved"] /\ total' = total + 1
    /\ UNCHANGED per_ip

(* try_acquire, second half: the per-address entry, under the lock.  A       *)
(* refusal gives the reservation in total back.                              *)

AdmitOrRefuse_Leak(c) ==
    /\ phase[c] = "reserved"
    /\ IF CountOf(addr[c]) >= PerIp
       THEN /\ phase' = [phase EXCEPT ![c] = "refused_ip"]
            /\ UNCHANGED <<total, per_ip>>
       ELSE /\ per_ip' = [ip \in DOMAIN per_ip \cup {addr[c]} |->
                            IF ip = addr[c] THEN CountOf(ip) + 1 ELSE per_ip[ip]]
            /\ phase' = [phase EXCEPT ![c] = "held"]
            /\ UNCHANGED total
    /\ UNCHANGED addr

AdmitOrRefuse_OneMore(c) ==
    /\ phase[c] = "reserved"
    /\ IF CountOf(addr[c]) > PerIp
       THEN /\ total' = total - 1
            /\ phase' = [phase EXCEPT ![c] = "refused_ip"]
            /\ UNCHANGED per_ip
       ELSE /\ per_ip' = [ip \in DOMAIN per_ip \cup {addr[c]} |->
                            IF ip = addr[c] THEN CountOf(ip) + 1 ELSE per_ip[ip]]
            /\ phase' = [phase EXCEPT ![c] = "held"]
            /\ UNCHANGED total
    /\ UNCHANGED addr

AdmitOrRefuse(c) ==
    /\ phase[c] = "reserved"
    /\ IF CountOf(addr[c]) >= PerIp
       THEN /\ total' = total - 1
            /\ phase' = [phase EXCEPT ![c] = "refused_ip"]
            /\ UNCHANGED per_ip     \* or_insert(0) met an existing entry: PerIp >= 1
       ELSE /\ per_ip' = [ip \in DOMAIN per_ip \cup {addr[c]} |->
                            IF ip = addr[c] THEN CountOf(ip) + 1 ELSE per_ip[ip]]
            /\ phase' = [phase EXCEPT ![c] = "held"]
            /\ UNCHANGED total
    /\ UNCHANGED addr

(* The caller of a refused try_acquire drops the stream. *)
DropRefused(c) ==
    /\ phase[c] \in {"refused_global", "refused_ip"}
    /\ phase' = [phase EXCEPT ![c] = "idle"]
    /\ addr' = [addr EXCEPT ![c] = NoIp]
    /\ UNCHANGED <<total, per_ip>>

(* ConnectionGuard::drop -> release, first half: the map, under the lock; an  *)
(* entry that reaches zero is removed.                                        *)

ReleaseEntry_NeverPruned(c) ==
    /\ phase[c] = "held"
    /\ per_ip' = [per_ip EXCEPT ![addr[c]] = @ - 1]
    /\ phase' = [phase EXCEPT ![c] = "releasing"]
    /\ UNCHANGED <<total, addr>>

ReleaseEntry(c) ==
    /\ phase[c] = "held"
    /\ per_ip' = IF CountOf(addr[c]) = 1
                 THEN [ip \in DOMAIN per_ip \ {addr[c]} |-> per_ip[ip]]
                 ELSE IF addr[c] \in DOMAIN per_ip
                      THEN [per_ip EXCEPT ![addr[c]] = @ - 1]
                      ELSE per_ip
    /\ phase' = [phase EXCEPT ![c] = "releasing"]
    /\ UNCHANGED <<total, addr>>

(* release, second half: the counter, after the lock was dropped. *)

ReleaseTotal(c) ==
    /\ phase[c] = "releasing"
    /\ total' = total - 1
    /\ phase' = [phase EXCEPT ![c] = "idle"]
    /\ addr' = [addr EXCEPT ![c] = NoIp]
    /\ UNCHANGED per_ip

LimiterNext ==
    \E c \in Conns :
        \/ \E ip \in Ips : Reserve(c, ip)
        \/ AdmitOrRefuse(c)
        \/ DropRefused(c)
        \/ ReleaseEntry(c)
        \/ ReleaseTotal(c)

LimiterSpec == LimiterInit /\ [][LimiterNext]_limiterVars

-----------------------------------------------------------------------------
(* The counter, the map and the connections have the types of the code, and  *)
(* only a connection in progress has an address.                             *)
LimiterTypeOK ==
    /\ total \in Nat
    /\ DOMAIN per_ip \subseteq Ips /\ per_ip \in [DOMAIN per_ip -> Nat]
    /\ addr \in [Conns -> Ips \cup {NoIp}]
    /\ phase \in [Conns -> Phases]
    /\ \A c \in Conns : addr[c] \in Ips <=> phase[c] # "idle"

(* The counter and the map agree with the guards that exist: `total` counts  *)
(* every reservation not yet given back, and an address's entry counts       *)
(* exactly its live guards and is absent when there are none.  A refusal, a  *)
(* release or an overlap of both that leaks a count breaks it.               *)
Accounting ==
    /\ total = Cardinality(Counted)
    /\ \A ip \in Ips : CountOf(ip) = Cardinality(HeldBy(ip))
    /\ \A ip \in DOMAIN per_ip : per_ip[ip] > 0

(* No interleaving of acquisitions and releases exceeds the caps of the      *)
(* configuration: max_sessions guards in all, per_ip_connections from one    *)
(* address.                                                                  *)
CapsHold ==
    /\ Cardinality(In("held")) <= MaxSessions
    /\ \A ip \in Ips : Cardinality(HeldBy(ip)) <= PerIp

(* The map never outgrows the sessions: addresses that left hold no memory,  *)
(* so a scan from many addresses cannot grow it past max_sessions entries.   *)
MapBounded == Cardinality(DOMAIN per_ip) <= MaxSessions

(* The registry's two cells stay consistent with the guards and with each    *)
(* other through every overlap of try_acquire, refusal and release.          *)
RegistryConsistent == LimiterTypeOK /\ Accounting /\ CapsHold /\ MapBounded

(* With the one accept loop `serve` runs, a connection is refused only       *)
(* because the slots are really taken: max_sessions guards exist or are on   *)
(* their way out, or the address has per_ip_connections live guards.         *)
RefusalsAreJustified ==
    [][\A c \in Conns :
         /\ phase'[c] = "refused_global" /\ phase[c] # "refused_global"
              => Cardinality(In("held") \cup In("releasing")) >= MaxSessions
         /\ phase'[c] = "refused_ip" /\ phase[c] # "refused_ip"
              => Cardinality(HeldBy(addr[c])) >= PerIp]_limiterVars

(* The registry implements the abstract slot set: a connection's slot is the *)
(* interval from its entry in the map to that entry's removal.               *)
AbstractSlot == [c \in Conns |-> IF phase[c] = "held" THEN addr[c] ELSE NoIp]

Abstract == INSTANCE Slots WITH slot <- AbstractSlot

ImplementsSlots == Abstract!SlotsSpec
=============================================================================
