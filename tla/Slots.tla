------------------------------- MODULE Slots -------------------------------
(***************************************************************************)
(* What the connection limiter promises, whatever the order in which       *)
(* threads reach it: a set of connections each holding one slot, never     *)
(* more than MaxSessions of them and never more than PerIp from one        *)
(* address.  `Limiter` implements this specification.                      *)
(***************************************************************************)
EXTENDS Naturals, FiniteSets

CONSTANTS
    Conns,          \* connection attempts
    Ips,            \* source addresses
    NoIp,           \* "holds no slot"
    MaxSessions,    \* config.max_sessions
    PerIp           \* config.per_ip_connections

VARIABLE slot       \* the address a connection holds a slot for, or NoIp

Holding(ip) == {c \in Conns : slot[c] = ip}
Active      == {c \in Conns : slot[c] # NoIp}

SlotsInit == slot = [c \in Conns |-> NoIp]

(* A slot is granted only below both caps. *)
Grant(c, ip) ==
    /\ slot[c] = NoIp
    /\ Cardinality(Active) < MaxSessions
    /\ Cardinality(Holding(ip)) < PerIp
    /\ slot' = [slot EXCEPT ![c] = ip]

(* A slot is given back once, by the connection that holds it. *)
GiveBack(c) ==
    /\ slot[c] # NoIp
    /\ slot' = [slot EXCEPT ![c] = NoIp]

SlotsNext == \E c \in Conns : GiveBack(c) \/ \E ip \in Ips : Grant(c, ip)

SlotsSpec == SlotsInit /\ [][SlotsNext]_slot
=============================================================================
