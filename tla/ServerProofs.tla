---------------------------- MODULE ServerProofs ----------------------------
(***************************************************************************)
(* What holds of the registry and of `serve`, which uses it, for every     *)
(* finite set of connections, every set of addresses and all caps that     *)
(* Config::validate accepts; of the registry, also for every number of     *)
(* accepting threads.                                                      *)
(***************************************************************************)
EXTENDS Server, FiniteSetTheorems, TLAPS

-----------------------------------------------------------------------------
(* The registry (Limiter). *)
(* Every set of connections is finite, so its size is a number. *)
LEMMA ConnSets ==
    ASSUME NEW S \in SUBSET Conns
    PROVE  IsFiniteSet(S) /\ Cardinality(S) \in Nat
<1>1. IsFiniteSet(S)
    BY ConnsAssumption, FS_Subset
<1> QED
    BY <1>1, FS_CardinalityType

(* Adding or removing one connection changes the size by one. *)
LEMMA ConnSetSteps ==
    ASSUME NEW S \in SUBSET Conns, NEW c \in Conns
    PROVE  /\ c \notin S => Cardinality(S \cup {c}) = Cardinality(S) + 1
           /\ c \in S => Cardinality(S \ {c}) = Cardinality(S) - 1
<1>1. IsFiniteSet(S)
    BY ConnSets
<1> QED
    BY <1>1, FS_AddElement, FS_RemoveElement

-----------------------------------------------------------------------------
(* Type correctness needs the accounting: `total - 1` stays a natural number *)
(* only because the counter counts the reservation being given back.         *)

(* The inductive invariant: the types, the accounting, and the caps on the   *)
(* two cells the code compares against.                                      *)
LimiterInv ==
    /\ LimiterTypeOK
    /\ Accounting
    /\ total <= MaxSessions
    /\ \A ip \in Ips : CountOf(ip) <= PerIp

(* The empty registry satisfies the invariant. *)
LEMMA LimiterInvInit == LimiterInit => LimiterInv
<1> SUFFICES ASSUME LimiterInit PROVE LimiterInv
    OBVIOUS
<1>1. LimiterTypeOK
    BY ConnsAssumption DEF LimiterInit, LimiterTypeOK, Phases
<1>2. Counted = {} /\ \A ip \in Ips : HeldBy(ip) = {}
    BY DEF LimiterInit, Counted, HeldBy
<1>3. Accounting
    BY <1>2, FS_EmptySet DEF LimiterInit, Accounting, CountOf
<1> QED
    BY <1>1, <1>3, ConfigAssumption DEF LimiterInv, LimiterInit, CountOf

(* try_acquire's fetch_update preserves the invariant. *)
LEMMA ReserveInv ==
    ASSUME LimiterInv, NEW c \in Conns, NEW ip \in Ips, Reserve(c, ip)
    PROVE  LimiterInv'
<1> USE DEF LimiterInv
<1>1. LimiterTypeOK'
    BY ConnsAssumption DEF LimiterTypeOK, Reserve, Phases
<1>2. \A q \in Ips : HeldBy(q)' = HeldBy(q) /\ CountOf(q)' = CountOf(q)
    BY DEF HeldBy, CountOf, Reserve, LimiterTypeOK
<1>3. CASE total >= MaxSessions
    <2>1. Counted' = Counted
        BY <1>3 DEF Counted, Reserve, LimiterTypeOK
    <2> QED
        BY <1>1, <1>2, <1>3, <2>1 DEF Accounting, Reserve
<1>4. CASE ~(total >= MaxSessions)
    <2>1. Counted' = Counted \cup {c} /\ c \notin Counted /\ Counted \in SUBSET Conns
        BY <1>4 DEF Counted, Reserve, LimiterTypeOK
    <2>2. Cardinality(Counted') = Cardinality(Counted) + 1
        BY <2>1, ConnSetSteps
    <2>3. total' = total + 1 /\ total' <= MaxSessions
        BY <1>4, ConfigAssumption DEF Reserve, LimiterTypeOK
    <2> QED
        BY <1>1, <1>2, <2>2, <2>3 DEF Accounting, Reserve
<1> QED
    BY <1>3, <1>4

(* The critical section of try_acquire preserves the invariant. *)
LEMMA AdmitOrRefuseInv ==
    ASSUME LimiterInv, NEW c \in Conns, AdmitOrRefuse(c)
    PROVE  LimiterInv'
<1> USE DEF LimiterInv
<1>1. addr[c] \in Ips /\ c \in Counted /\ Counted \in SUBSET Conns
    BY DEF AdmitOrRefuse, LimiterTypeOK, Counted
<1>2. CASE CountOf(addr[c]) >= PerIp
    <2>1. Counted' = Counted \ {c}
        BY <1>1, <1>2 DEF AdmitOrRefuse, Counted, LimiterTypeOK
    <2>2. Cardinality(Counted') = Cardinality(Counted) - 1
        BY <1>1, <2>1, ConnSetSteps
    <2>3. Cardinality(Counted') \in Nat
        BY <1>1, <2>1, ConnSets
    <2>4. total' = total - 1 /\ total' \in Nat /\ total' <= MaxSessions
        BY <1>2, <2>2, <2>3, ConfigAssumption
        DEF AdmitOrRefuse, Accounting, LimiterTypeOK
    <2>5. \A q \in Ips : HeldBy(q)' = HeldBy(q) /\ CountOf(q)' = CountOf(q)
        BY <1>2 DEF HeldBy, CountOf, AdmitOrRefuse, LimiterTypeOK
    <2>6. LimiterTypeOK'
        BY <1>2, <1>1, <2>4 DEF LimiterTypeOK, AdmitOrRefuse, Phases
    <2> QED
        BY <1>2, <2>2, <2>4, <2>5, <2>6 DEF Accounting, AdmitOrRefuse
<1>3. CASE ~(CountOf(addr[c]) >= PerIp)
    <2>1. Counted' = Counted
        BY <1>1, <1>3 DEF AdmitOrRefuse, Counted, LimiterTypeOK
    <2>2. CountOf(addr[c]) \in Nat
        BY <1>1 DEF CountOf, LimiterTypeOK
    <2>3. LimiterTypeOK'
        BY <1>1, <1>3, <2>2 DEF LimiterTypeOK, AdmitOrRefuse, Phases
    <2>4. CountOf(addr[c])' = CountOf(addr[c]) + 1 /\ CountOf(addr[c])' <= PerIp
        BY <1>1, <1>3, <2>2, ConfigAssumption DEF AdmitOrRefuse, CountOf
    <2>5. \A q \in Ips \ {addr[c]} : CountOf(q)' = CountOf(q)
        BY <1>3 DEF AdmitOrRefuse, CountOf
    <2>6. \A q \in Ips \ {addr[c]} : HeldBy(q)' = HeldBy(q)
        BY <1>1, <1>3 DEF AdmitOrRefuse, HeldBy, LimiterTypeOK
    <2>7. /\ HeldBy(addr[c])' = HeldBy(addr[c]) \cup {c}
          /\ c \notin HeldBy(addr[c]) /\ HeldBy(addr[c]) \in SUBSET Conns
        BY <1>1, <1>3 DEF AdmitOrRefuse, HeldBy, LimiterTypeOK
    <2>8. Cardinality(HeldBy(addr[c]))' = Cardinality(HeldBy(addr[c])) + 1
        BY <2>7, ConnSetSteps
    <2>9. \A q \in Ips : CountOf(q)' = Cardinality(HeldBy(q)')
        BY <2>4, <2>5, <2>6, <2>8, <1>1 DEF Accounting, AdmitOrRefuse
    <2>10. \A q \in DOMAIN per_ip' : per_ip'[q] > 0
        BY <1>3, <2>2 DEF AdmitOrRefuse, Accounting
    <2>11. \A q \in Ips : CountOf(q)' <= PerIp
        BY <2>4, <2>5, <1>1 DEF AdmitOrRefuse
    <2> QED
        BY <1>3, <2>1, <2>3, <2>9, <2>10, <2>11 DEF Accounting, AdmitOrRefuse
<1> QED
    BY <1>2, <1>3

(* Dropping the stream of a refused connection preserves the invariant. *)
LEMMA DropRefusedInv ==
    ASSUME LimiterInv, NEW c \in Conns, DropRefused(c)
    PROVE  LimiterInv'
<1> USE DEF LimiterInv
<1>1. LimiterTypeOK'
    BY ConnsAssumption DEF LimiterTypeOK, DropRefused, Phases
<1>2. Counted' = Counted
    BY DEF Counted, DropRefused, LimiterTypeOK
<1>3. \A q \in Ips : HeldBy(q)' = HeldBy(q) /\ CountOf(q)' = CountOf(q)
    BY DEF HeldBy, CountOf, DropRefused, LimiterTypeOK
<1> QED
    BY <1>1, <1>2, <1>3 DEF Accounting, DropRefused

(* The locked half of release preserves the invariant. *)
LEMMA ReleaseEntryInv ==
    ASSUME LimiterInv, NEW c \in Conns, ReleaseEntry(c)
    PROVE  LimiterInv'
<1> USE DEF LimiterInv
<1>1. addr[c] \in Ips /\ c \in HeldBy(addr[c]) /\ HeldBy(addr[c]) \in SUBSET Conns
    BY DEF ReleaseEntry, LimiterTypeOK, HeldBy
<1>2. Counted' = Counted
    BY DEF ReleaseEntry, Counted, LimiterTypeOK
<1>3. HeldBy(addr[c])' = HeldBy(addr[c]) \ {c}
    BY <1>1 DEF ReleaseEntry, HeldBy, LimiterTypeOK
<1>4. Cardinality(HeldBy(addr[c])') = Cardinality(HeldBy(addr[c])) - 1
    BY <1>1, <1>3, ConnSetSteps
<1>5. Cardinality(HeldBy(addr[c])') \in Nat
    BY <1>1, <1>3, ConnSets
<1>6. CountOf(addr[c]) \in Nat /\ CountOf(addr[c]) >= 1
    BY <1>1, <1>4, <1>5 DEF Accounting, CountOf, LimiterTypeOK
<1>7. addr[c] \in DOMAIN per_ip /\ per_ip[addr[c]] = CountOf(addr[c])
    BY <1>6 DEF CountOf
<1>8. \A q \in Ips \ {addr[c]} : CountOf(q)' = CountOf(q)
    BY <1>7 DEF ReleaseEntry, CountOf, LimiterTypeOK
<1>9. CountOf(addr[c])' = CountOf(addr[c]) - 1
    BY <1>1, <1>6, <1>7 DEF ReleaseEntry, CountOf, LimiterTypeOK
<1>10. \A q \in Ips \ {addr[c]} : HeldBy(q)' = HeldBy(q)
    BY <1>1 DEF ReleaseEntry, HeldBy, LimiterTypeOK
<1>11. LimiterTypeOK'
    <2>1. DOMAIN per_ip' \subseteq Ips /\ per_ip' \in [DOMAIN per_ip' -> Nat]
        BY <1>1, <1>6, <1>7 DEF ReleaseEntry, LimiterTypeOK
    <2> QED
        BY <1>1, <2>1 DEF ReleaseEntry, LimiterTypeOK, Phases
<1>12. \A q \in DOMAIN per_ip' : per_ip'[q] > 0
    BY <1>1, <1>6, <1>7 DEF ReleaseEntry, Accounting, LimiterTypeOK
<1>13. \A q \in Ips : CountOf(q)' = Cardinality(HeldBy(q)')
    BY <1>1, <1>4, <1>8, <1>9, <1>10 DEF Accounting, ReleaseEntry
<1>14. \A q \in Ips : CountOf(q)' <= PerIp
    BY <1>6, <1>8, <1>9, <1>1, ConfigAssumption DEF ReleaseEntry
<1> QED
    BY <1>2, <1>11, <1>12, <1>13, <1>14 DEF Accounting, ReleaseEntry

(* The atomic half of release preserves the invariant. *)
LEMMA ReleaseTotalInv ==
    ASSUME LimiterInv, NEW c \in Conns, ReleaseTotal(c)
    PROVE  LimiterInv'
<1> USE DEF LimiterInv
<1>1. c \in Counted /\ Counted \in SUBSET Conns /\ Counted' = Counted \ {c}
    BY DEF ReleaseTotal, Counted, LimiterTypeOK
<1>2. Cardinality(Counted') = Cardinality(Counted) - 1 /\ Cardinality(Counted') \in Nat
    BY <1>1, ConnSetSteps, ConnSets
<1>3. total' = total - 1 /\ total' \in Nat /\ total' <= MaxSessions
    BY <1>2, ConfigAssumption DEF ReleaseTotal, Accounting, LimiterTypeOK
<1>4. LimiterTypeOK'
    BY <1>3, ConnsAssumption DEF LimiterTypeOK, ReleaseTotal, Phases
<1>5. \A q \in Ips : HeldBy(q)' = HeldBy(q) /\ CountOf(q)' = CountOf(q)
    BY DEF HeldBy, CountOf, ReleaseTotal, LimiterTypeOK
<1> QED
    BY <1>2, <1>3, <1>4, <1>5 DEF Accounting, ReleaseTotal

(* Every behaviour of the registry satisfies the inductive invariant. *)
THEOREM LimiterInvariant == LimiterSpec => []LimiterInv
<1>1. LimiterInv /\ [LimiterNext]_limiterVars => LimiterInv'
    <2> SUFFICES ASSUME LimiterInv, [LimiterNext]_limiterVars PROVE LimiterInv'
        OBVIOUS
    <2>1. CASE UNCHANGED limiterVars
        BY <2>1 DEF limiterVars, LimiterInv, LimiterTypeOK, Accounting, Counted,
                    HeldBy, CountOf
    <2>2. CASE LimiterNext
        BY <2>2, ReserveInv, AdmitOrRefuseInv, DropRefusedInv, ReleaseEntryInv,
           ReleaseTotalInv DEF LimiterNext
    <2> QED
        BY <2>1, <2>2
<1> QED
    BY <1>1, LimiterInvInit, PTL DEF LimiterSpec

-----------------------------------------------------------------------------
(* The consequences of the invariant that the runs check. *)

(* `total` never underflows and the map only holds positive counts for known *)
(* addresses, however acquisitions and releases overlap.                     *)
THEOREM LimiterTypeCorrect == LimiterSpec => []LimiterTypeOK
BY LimiterInvariant, PTL DEF LimiterInv

(* The counter and the map always agree with the guards that exist. *)
THEOREM LimiterAccounts == LimiterSpec => []Accounting
BY LimiterInvariant, PTL DEF LimiterInv

(* The invariant implies the caps on live guards. *)
LEMMA CapsFromInv == LimiterInv => CapsHold
<1> SUFFICES ASSUME LimiterInv PROVE CapsHold
    OBVIOUS
<1> USE DEF LimiterInv
<1>1. In("held") \in SUBSET Counted /\ IsFiniteSet(Counted)
    BY ConnSets DEF In, Counted
<1>2. Cardinality(In("held")) <= Cardinality(Counted)
    BY <1>1, FS_Subset
<1>3. Cardinality(In("held")) \in Nat /\ Cardinality(Counted) \in Nat
    BY ConnSets DEF In, Counted
<1>4. Cardinality(In("held")) <= MaxSessions
    BY <1>2, <1>3, ConfigAssumption DEF Accounting, LimiterTypeOK
<1> QED
    BY <1>4 DEF CapsHold, Accounting

(* max_sessions and per_ip_connections are never exceeded: try_acquire's     *)
(* check and increment cannot be split by another thread.                    *)
THEOREM LimiterCapsHold == LimiterSpec => []CapsHold
BY LimiterInvariant, CapsFromInv, PTL

(* The invariant bounds the size of the map: each entry has a live guard.    *)
LEMMA MapFromInv == LimiterInv => MapBounded
<1> SUFFICES ASSUME LimiterInv PROVE MapBounded
    OBVIOUS
<1> USE DEF LimiterInv
<1> DEFINE H == In("held")
           f == [c \in H |-> addr[c]]
<1>1. \A ip \in DOMAIN per_ip : \E c \in H : addr[c] = ip
    <2> SUFFICES ASSUME NEW ip \in DOMAIN per_ip PROVE \E c \in H : addr[c] = ip
        OBVIOUS
    <2>1. ip \in Ips /\ CountOf(ip) > 0
        BY DEF LimiterTypeOK, Accounting, CountOf
    <2>2. Cardinality(HeldBy(ip)) > 0
        BY <2>1 DEF Accounting
    <2>3. HeldBy(ip) # {}
        BY <2>2, FS_EmptySet
    <2> QED
        BY <2>3 DEF HeldBy, In
<1>2. \A c \in H : addr[c] \in DOMAIN per_ip
    <2> SUFFICES ASSUME NEW c \in H PROVE addr[c] \in DOMAIN per_ip
        OBVIOUS
    <2>1. c \in HeldBy(addr[c]) /\ addr[c] \in Ips /\ HeldBy(addr[c]) \in SUBSET Conns
        BY DEF HeldBy, In, LimiterTypeOK
    <2>2. Cardinality(HeldBy(addr[c])) # 0
        BY <2>1, ConnSets, FS_EmptySet
    <2> QED
        BY <2>1, <2>2 DEF Accounting, CountOf
<1>3. f \in Surjection(H, DOMAIN per_ip)
    BY <1>1, <1>2 DEF Surjection
<1>4. IsFiniteSet(H) /\ Cardinality(H) \in Nat
    BY ConnSets DEF In
<1>5. IsFiniteSet(DOMAIN per_ip) /\ Cardinality(DOMAIN per_ip) <= Cardinality(H)
    BY <1>3, <1>4, FS_Surjection
<1>6. Cardinality(DOMAIN per_ip) \in Nat
    BY <1>5, FS_CardinalityType
<1> QED
    BY <1>4, <1>5, <1>6, CapsFromInv, ConfigAssumption DEF CapsHold, MapBounded

(* The per-address map never holds more than max_sessions entries. *)
THEOREM LimiterMapBounded == LimiterSpec => []MapBounded
BY LimiterInvariant, MapFromInv, PTL

(* The counter, the map and the guards stay consistent and within the caps,  *)
(* for any number of connections, addresses and accepting threads.           *)
THEOREM LimiterConsistent == LimiterSpec => []RegistryConsistent
BY LimiterTypeCorrect, LimiterAccounts, LimiterCapsHold, LimiterMapBounded, PTL
   DEF RegistryConsistent

-----------------------------------------------------------------------------
(* Refinement: the registry implements the abstract slot set.                *)

(* The sets of the abstract specification under the refinement mapping. *)
LEMMA AbstractSets ==
    ASSUME LimiterTypeOK
    PROVE  /\ Abstract!Active = In("held")
           /\ \A ip \in Ips : Abstract!Holding(ip) = HeldBy(ip)
BY ConnsAssumption
   DEF Abstract!Active, Abstract!Holding, AbstractSlot, In, HeldBy, LimiterTypeOK

(* The abstract module counts with the same cardinality. *)
LEMMA SameCardinality == \A S : Abstract!Cardinality(S) = Cardinality(S)
BY DEF Abstract!Cardinality, Cardinality

(* Every step of the registry is a step of the slot set or leaves it alone.  *)
LEMMA StepRefines ==
    ASSUME LimiterInv, LimiterInv', [LimiterNext]_limiterVars
    PROVE  [Abstract!SlotsNext]_AbstractSlot
<1> USE DEF LimiterInv
<1>1. CASE UNCHANGED limiterVars
    BY <1>1 DEF limiterVars, AbstractSlot
<1>2. ASSUME NEW c \in Conns, NEW ip \in Ips, Reserve(c, ip)
      PROVE  UNCHANGED AbstractSlot
    BY <1>2 DEF Reserve, AbstractSlot, LimiterTypeOK
<1>3. ASSUME NEW c \in Conns, DropRefused(c) \/ ReleaseTotal(c)
      PROVE  UNCHANGED AbstractSlot
    BY <1>3 DEF DropRefused, ReleaseTotal, AbstractSlot, LimiterTypeOK
<1>4. ASSUME NEW c \in Conns, ReleaseEntry(c)
      PROVE  Abstract!GiveBack(c)
    BY <1>4, ConnsAssumption DEF ReleaseEntry, Abstract!GiveBack, AbstractSlot, LimiterTypeOK
<1>5. ASSUME NEW c \in Conns, AdmitOrRefuse(c)
      PROVE  Abstract!Grant(c, addr[c]) \/ UNCHANGED AbstractSlot
    <2>1. addr[c] \in Ips /\ phase[c] = "reserved"
        BY <1>5 DEF AdmitOrRefuse, LimiterTypeOK
    <2>2. CASE CountOf(addr[c]) >= PerIp
        BY <1>5, <2>1, <2>2 DEF AdmitOrRefuse, AbstractSlot, LimiterTypeOK
    <2>3. CASE ~(CountOf(addr[c]) >= PerIp)
        <3>1. In("held") \in SUBSET (Counted \ {c}) /\ Counted \in SUBSET Conns /\ c \in Counted
            BY <2>1 DEF In, Counted
        <3>2. IsFiniteSet(Counted \ {c}) /\ Cardinality(Counted \ {c}) = Cardinality(Counted) - 1
            BY <3>1, ConnSets, ConnSetSteps
        <3>3. Cardinality(In("held")) <= Cardinality(Counted) - 1
            BY <3>1, <3>2, FS_Subset
        <3>4. Cardinality(In("held")) \in Nat /\ Cardinality(Counted) \in Nat
            BY ConnSets DEF In, Counted
        <3>5. Cardinality(Abstract!Active) < MaxSessions
            BY <3>3, <3>4, AbstractSets, ConfigAssumption DEF Accounting, LimiterTypeOK
        <3>6. CountOf(addr[c]) \in Nat /\ CountOf(addr[c]) < PerIp
            BY <2>1, <2>3, ConfigAssumption DEF CountOf, LimiterTypeOK
        <3>7. Cardinality(Abstract!Holding(addr[c])) < PerIp
            BY <2>1, <3>6, AbstractSets DEF Accounting
        <3>8. AbstractSlot[c] = NoIp /\ AbstractSlot' = [AbstractSlot EXCEPT ![c] = addr[c]]
            BY <1>5, <2>1, <2>3 DEF AdmitOrRefuse, AbstractSlot, LimiterTypeOK
        <3> QED
            BY <3>5, <3>7, <3>8, SameCardinality DEF Abstract!Grant
    <2> QED
        BY <2>2, <2>3
<1>6. CASE LimiterNext
    <2>1. PICK c \in Conns :
            \/ \E ip \in Ips : Reserve(c, ip)
            \/ AdmitOrRefuse(c) \/ DropRefused(c) \/ ReleaseEntry(c) \/ ReleaseTotal(c)
        BY <1>6 DEF LimiterNext
    <2>2. CASE AdmitOrRefuse(c)
        <3>1. addr[c] \in Ips
            BY <2>2 DEF AdmitOrRefuse, LimiterTypeOK
        <3> QED
            BY <2>2, <3>1, <1>5 DEF Abstract!SlotsNext
    <2>3. CASE ReleaseEntry(c)
        BY <2>3, <1>4 DEF Abstract!SlotsNext
    <2> QED
        BY <2>1, <2>2, <2>3, <1>2, <1>3
<1> QED
    BY <1>1, <1>6

(* The two-cell registry implements the abstract slot set: a connection gets *)
(* a slot only below both caps and gives it back exactly once.               *)
THEOREM LimiterRefinesSlots == LimiterSpec => ImplementsSlots
<1>1. LimiterInit => Abstract!SlotsInit
    BY DEF LimiterInit, Abstract!SlotsInit, AbstractSlot
<1>2. LimiterInv /\ LimiterInv' /\ [LimiterNext]_limiterVars => [Abstract!SlotsNext]_AbstractSlot
    BY StepRefines
<1> QED
    BY <1>1, <1>2, LimiterInvariant, PTL DEF LimiterSpec, ImplementsSlots, Abstract!SlotsSpec

-----------------------------------------------------------------------------
(* A refusal under one accept loop is justified: nobody else can hold a      *)
(* reservation that is about to be given back.                               *)

(* With one thread in try_acquire at most one reservation is undecided.      *)
OneReservation == \A c, d \in Conns : phase[c] = "reserved" /\ phase[d] = "reserved" => c = d

(* The single accept loop of `serve` keeps the reservations to one.          *)
LEMMA OneReservationStep ==
    ASSUME LimiterInv, OneReservation, Acceptors = 1, [LimiterNext]_limiterVars
    PROVE  OneReservation'
<1> USE DEF LimiterInv, OneReservation
<1>1. ASSUME NEW c \in Conns, NEW ip \in Ips, Reserve(c, ip)
      PROVE  OneReservation'
    <2>1. Cardinality(In("reserved")) \in Nat /\ Cardinality(In("reserved")) < 1
        BY <1>1, ConnSets DEF Reserve, In
    <2>2. In("reserved") = {}
        BY <2>1, ConnSets, FS_EmptySet DEF In
    <2> QED
        BY <1>1, <2>2 DEF Reserve, In, LimiterTypeOK
<1>2. ASSUME NEW c \in Conns,
             AdmitOrRefuse(c) \/ DropRefused(c) \/ ReleaseEntry(c) \/ ReleaseTotal(c)
      PROVE  OneReservation'
    BY <1>2 DEF AdmitOrRefuse, DropRefused, ReleaseEntry, ReleaseTotal, LimiterTypeOK
<1> QED
    BY <1>1, <1>2 DEF LimiterNext, limiterVars

(* A step that refuses a connection under one accept loop finds the slots    *)
(* taken.                                                                    *)
LEMMA RefusalStep ==
    ASSUME LimiterInv, OneReservation, Acceptors = 1, LimiterNext, NEW c \in Conns
    PROVE  /\ phase'[c] = "refused_global" /\ phase[c] # "refused_global"
                => Cardinality(In("held") \cup In("releasing")) >= MaxSessions
           /\ phase'[c] = "refused_ip" /\ phase[c] # "refused_ip"
                => Cardinality(HeldBy(addr[c])) >= PerIp
<1> USE DEF LimiterInv
<1>1. ASSUME phase'[c] = "refused_global", phase[c] # "refused_global"
      PROVE  Cardinality(In("held") \cup In("releasing")) >= MaxSessions
    <2>1. PICK ip \in Ips : Reserve(c, ip)
        BY <1>1 DEF LimiterNext, Reserve, AdmitOrRefuse, DropRefused, ReleaseEntry,
                    ReleaseTotal, LimiterTypeOK
    <2>2. total >= MaxSessions
        BY <2>1, <1>1 DEF Reserve, LimiterTypeOK
    <2>3. Cardinality(In("reserved")) \in Nat /\ Cardinality(In("reserved")) < 1
        BY <2>1, ConnSets DEF Reserve, In
    <2>4. In("reserved") = {}
        BY <2>3, ConnSets, FS_EmptySet DEF In
    <2>5. Counted = In("held") \cup In("releasing")
        BY <2>4 DEF Counted, In
    <2> QED
        BY <2>2, <2>5 DEF Accounting
<1>2. ASSUME phase'[c] = "refused_ip", phase[c] # "refused_ip"
      PROVE  Cardinality(HeldBy(addr[c])) >= PerIp
    <2>1. AdmitOrRefuse(c)
        BY <1>2 DEF LimiterNext, Reserve, AdmitOrRefuse, DropRefused, ReleaseEntry,
                    ReleaseTotal, LimiterTypeOK
    <2>2. CountOf(addr[c]) >= PerIp /\ addr[c] \in Ips
        BY <2>1, <1>2 DEF AdmitOrRefuse, LimiterTypeOK
    <2> QED
        BY <2>2 DEF Accounting
<1> QED
    BY <1>1, <1>2

(* With the one accept loop of `serve`, no connection is refused while a     *)
(* slot it could have is free.                                               *)
THEOREM ServeRefusalsJustified ==
    ASSUME Acceptors = 1
    PROVE  LimiterSpec => RefusalsAreJustified
<1>1. LimiterInit => OneReservation
    BY DEF LimiterInit, OneReservation
<1>2. LimiterInv /\ OneReservation /\ [LimiterNext]_limiterVars => OneReservation'
    BY OneReservationStep
<1>3. LimiterInv /\ OneReservation /\ [LimiterNext]_limiterVars
        => [\A c \in Conns :
              /\ phase'[c] = "refused_global" /\ phase[c] # "refused_global"
                   => Cardinality(In("held") \cup In("releasing")) >= MaxSessions
              /\ phase'[c] = "refused_ip" /\ phase[c] # "refused_ip"
                   => Cardinality(HeldBy(addr[c])) >= PerIp]_limiterVars
    BY RefusalStep
<1> QED
    BY <1>1, <1>2, <1>3, LimiterInvariant, PTL DEF LimiterSpec, RefusalsAreJustified

-----------------------------------------------------------------------------
(* The daemon around it (Server). *)
(* `serve` uses the registry only through its operations. *)
THEOREM ServerUsesLimiter == ServerSpec => LimiterSpec
<1>1. ServerInit => LimiterInit
  BY DEF ServerInit
<1>2. [ServerNext]_vars => [LimiterNext]_limiterVars
  <2> SUFFICES ASSUME [ServerNext]_vars PROVE [LimiterNext]_limiterVars
    OBVIOUS
  <2>1. CASE UNCHANGED vars
    BY <2>1 DEF vars, limiterVars
  <2>2. CASE Sigterm \/ AcceptError \/ BackoffOver \/ Shutdown \/ Exit \/ Exited
    BY <2>2 DEF Sigterm, AcceptError, BackoffOver, Shutdown, Exit, Exited, vars
  <2>3. ASSUME NEW c \in Conns, ConnStep(c) PROVE [LimiterNext]_limiterVars
    <3>1. CASE \E ip \in Ips : Accept(c, ip)
      BY <3>1 DEF Accept, LimiterNext
    <3>2. CASE Admit(c) \/ Reject(c) \/ GuardDrop(c) \/ GuardDropEnds(c)
      BY <3>2 DEF Admit, Reject, GuardDrop, GuardDropEnds, LimiterNext
    <3>3. CASE HandshakeDone(c) \/ HandshakeFails(c) \/ Login(c) \/ ClientLeaves(c)
               \/ TaskDropped(c) \/ WatchdogWakes(c) \/ WatchdogDeadline(c)
               \/ Disconnect(c) \/ HandlerDrop(c) \/ TaskEnds(c) \/ Tick(c)
      BY <3>3 DEF HandshakeDone, HandshakeFails, Login, ClientLeaves, TaskDropped,
                  WatchdogWakes, WatchdogDeadline, Disconnect, HandlerDrop, TaskEnds, Tick
    <3> QED
      BY <2>3, <3>1, <3>2, <3>3 DEF ConnStep
  <2> QED
    BY <2>1, <2>2, <2>3 DEF ServerNext
<1> QED
  BY <1>1, <1>2, PTL DEF ServerSpec, LimiterSpec

(* With the accept loop, the tasks and the shutdown around it, the registry  *)
(* still never lets more sessions in than the configuration allows.          *)
THEOREM ServerCapsHold == ServerSpec => []CapsHold
BY ServerUsesLimiter, LimiterCapsHold, PTL

(* ... and its cells agree with the handlers' guards. *)
THEOREM ServerRegistryConsistent == ServerSpec => []RegistryConsistent
BY ServerUsesLimiter, LimiterConsistent, PTL

(* Under `serve`, too, the registry is the abstract set of slots. *)
THEOREM ServerRefinesSlots == ServerSpec => ImplementsSlots
BY ServerUsesLimiter, LimiterRefinesSlots, PTL

-----------------------------------------------------------------------------
(* The part of the type invariant about the variables of `serve` itself. *)
ServeTypes ==
    /\ loop \in Loops /\ term_sent \in BOOLEAN /\ term_seen \in BOOLEAN
    /\ stage \in [Conns -> Stages]
    /\ age \in [Conns -> Ages]
    /\ login \in [Conns -> Ages \cup {Never}]
    /\ watchdog \in [Conns -> Watchdogs]
    /\ logged \in [Conns -> {"none", "opened", "closed"}]

(* What the watchdog and the clock of a connection have to do with each      *)
(* other: a running session always has a watchdog that has not given up, and *)
(* a login timeout was decided after the first deadline.                     *)
WatchdogInv ==
    \A c \in Conns :
        /\ age[c] <= MaxSession
        /\ stage[c] = "running" => watchdog[c] \in {"asleep", "asleep_authed"} \cup Fired
        /\ watchdog[c] = "login_timeout" => age[c] >= FirstDeadline

(* The session of an open log entry is the one that holds the slot. *)
LogInv ==
    \A c \in Conns :
        /\ logged[c] = "opened" => phase[c] = "held"
        /\ phase[c] = "releasing" => logged[c] = "closed"
        /\ stage[c] = "none" => logged[c] = "none" /\ phase[c] \notin {"held", "releasing"}
        /\ stage[c] = "gone" => phase[c] = "idle"

(* Only the accept loop, and only in the middle of an iteration, has an      *)
(* attempt that is neither refused and dropped nor admitted.                 *)
Attempting(c) == phase[c] \in {"reserved", "refused_global", "refused_ip"}

LoopInv ==
    \A c \in Conns : Attempting(c) =>
        loop = "handle" /\ \A d \in Conns : Attempting(d) => d = c

(* The inductive invariant, given the types of the registry. *)
ServerInv ==
    /\ ServeTypes
    /\ SlotFollowsHandler
    /\ WatchdogInv
    /\ LoginTimeoutIsTrue
    /\ LogInv
    /\ LoopInv
    /\ ShutdownClosesSessions

(* The two deadlines the watchdog sleeps to are natural numbers, in order. *)
LEMMA Deadlines == FirstDeadline \in Nat /\ FirstDeadline <= MaxSession
BY ServerAssumption DEF FirstDeadline

(* The server that has just bound its listener satisfies it. *)
LEMMA ServerInvInit == ServerInit => ServerInv
<1> SUFFICES ASSUME ServerInit PROVE ServerInv
  OBVIOUS
<1>0. 0 \in Ages
  BY ServerAssumption DEF Ages
<1>1. ServeTypes
  BY <1>0 DEF ServerInit, ServeTypes, Loops, Stages, Watchdogs
<1>2. WatchdogInv /\ LoginTimeoutIsTrue
  BY ServerAssumption DEF ServerInit, WatchdogInv, LoginTimeoutIsTrue
<1>3. SlotFollowsHandler /\ LogInv /\ LoopInv /\ ShutdownClosesSessions
  BY DEF ServerInit, LimiterInit, SlotFollowsHandler, LogInv, LoopInv, Attempting,
         ShutdownClosesSessions
<1> QED
  BY <1>1, <1>2, <1>3 DEF ServerInv

(* The steps of the accept loop. *)
LEMMA LoopStepsInv ==
    ASSUME ServerInv, LimiterTypeOK,
           Sigterm \/ AcceptError \/ BackoffOver \/ Shutdown \/ Exit \/ Exited
    PROVE  ServerInv'
<1> USE DEF ServerInv, LimiterTypeOK, ServeTypes, SlotFollowsHandler, WatchdogInv, LogInv, LoopInv, Attempting,
            LoginTimeoutIsTrue, ShutdownClosesSessions, limiterVars, connVars
<1>1. CASE Sigterm
  BY <1>1 DEF Sigterm, Loops
<1>2. CASE AcceptError
  BY <1>2 DEF AcceptError, Loops
<1>3. CASE BackoffOver
  BY <1>3 DEF BackoffOver, Loops
<1>4. CASE Shutdown
  BY <1>4 DEF Shutdown, Loops
<1>5. CASE Exit
  BY <1>5 DEF Exit, Loops, Phases
<1>6. CASE Exited
  BY <1>6 DEF Exited, vars, serverVars
<1> QED
  BY <1>1, <1>2, <1>3, <1>4, <1>5, <1>6

(* The steps of a connection, with the registry's operation each contains. *)
LEMMA ConnStepInv ==
    ASSUME ServerInv, LimiterTypeOK, NEW c \in Conns, ConnStep(c)
    PROVE  ServerInv'
<1> USE Deadlines, ServerAssumption
    DEF ServerInv, LimiterTypeOK, ServeTypes, SlotFollowsHandler, WatchdogInv, LogInv, LoopInv, Attempting,
        LoginTimeoutIsTrue, ShutdownClosesSessions, limiterVars, loopVars, connVars, serverVars
<1>1. CASE \E ip \in Ips : Accept(c, ip)
  <2> PICK ip \in Ips : Accept(c, ip)
    BY <1>1
  <2>1. /\ phase[c] = "idle" /\ stage[c] = "none" /\ loop = "select" /\ loop' = "handle"
        /\ UNCHANGED <<connVars, term_sent>> /\ term_seen' = FALSE
        /\ \/ phase' = [phase EXCEPT ![c] = "reserved"]
           \/ phase' = [phase EXCEPT ![c] = "refused_global"]
    BY DEF Accept, Reserve
  <2>2. \A d \in Conns : d # c => phase'[d] = phase[d]
    BY <2>1
  <2>3. LoopInv'
    BY <2>1, <2>2
  <2>4. ServeTypes' /\ WatchdogInv' /\ LoginTimeoutIsTrue' /\ ShutdownClosesSessions'
    BY <2>1 DEF Loops
  <2>5. SlotFollowsHandler' /\ LogInv'
    BY <2>1, <2>2
  <2> QED
    BY <2>3, <2>4, <2>5
<1>2. CASE Admit(c)
  BY <1>2 DEF Admit, AdmitOrRefuse, Loops, Phases, Stages
<1>3. CASE Reject(c)
  BY <1>3 DEF Reject, DropRefused, Loops, Phases
<1>4. CASE HandshakeDone(c)
  BY <1>4 DEF HandshakeDone, Stages, Watchdogs, Fired
<1>5. CASE HandshakeFails(c)
  BY <1>5 DEF HandshakeFails, Stages
<1>6. CASE Login(c)
  BY <1>6 DEF Login, Ages
<1>7. CASE ClientLeaves(c)
  BY <1>7 DEF ClientLeaves, Stages
<1>8. CASE TaskDropped(c)
  BY <1>8 DEF TaskDropped, Stages
<1>9. CASE WatchdogWakes(c)
  BY <1>9 DEF WatchdogWakes, Watchdogs, Fired
<1>10. CASE WatchdogDeadline(c)
  BY <1>10 DEF WatchdogDeadline, Watchdogs, Fired
<1>11. CASE Disconnect(c)
  BY <1>11 DEF Disconnect, Stages, Watchdogs, Fired
<1>12. CASE HandlerDrop(c)
  BY <1>12 DEF HandlerDrop
<1>13. CASE GuardDrop(c)
  BY <1>13 DEF GuardDrop, ReleaseEntry, Phases
<1>14. CASE GuardDropEnds(c)
  BY <1>14 DEF GuardDropEnds, ReleaseTotal, Stages, Phases
<1>15. CASE TaskEnds(c)
  BY <1>15 DEF TaskEnds, Stages, Ages, Watchdogs
<1>16. CASE Tick(c)
  BY <1>16 DEF Tick, Due, Ages, Fired
<1> QED
  BY <1>1, <1>2, <1>3, <1>4, <1>5, <1>6, <1>7, <1>8, <1>9, <1>10, <1>11, <1>12, <1>13,
     <1>14, <1>15, <1>16 DEF ConnStep

(* The invariant of the server, and with it the types of the registry. *)
THEOREM ServerInvariant == ServerSpec => [](ServerInv /\ LimiterTypeOK)
<1>1. ServerSpec => []LimiterTypeOK
  BY ServerUsesLimiter, LimiterTypeCorrect, PTL
<1>2. ServerInv /\ LimiterTypeOK /\ [ServerNext]_vars => ServerInv'
  <2> SUFFICES ASSUME ServerInv, LimiterTypeOK, [ServerNext]_vars PROVE ServerInv'
    OBVIOUS
  <2>1. CASE UNCHANGED vars
    BY <2>1 DEF vars, limiterVars, serverVars, ServerInv, ServeTypes, SlotFollowsHandler,
                WatchdogInv, LogInv, LoopInv, Attempting, LoginTimeoutIsTrue, ShutdownClosesSessions
  <2> QED
    BY <2>1, LoopStepsInv, ConnStepInv DEF ServerNext
<1> QED
  BY <1>1, <1>2, ServerInvInit, PTL DEF ServerSpec

(* Types of the composed specification. *)
THEOREM ServerTypeCorrect == ServerSpec => []ServerTypeOK
<1>1. ServerInv /\ LimiterTypeOK => ServerTypeOK
  BY DEF ServerInv, ServeTypes, ServerTypeOK
<1> QED
  BY <1>1, ServerInvariant, PTL

(* A slot is held exactly while a handler exists. *)
THEOREM ServerSlotFollowsHandler == ServerSpec => []SlotFollowsHandler
BY ServerInvariant, PTL DEF ServerInv

(* No connection outlives max_session_secs. *)
THEOREM ServerLifetimeBounded == ServerSpec => []LifetimeBounded
<1>1. ServerInv => LifetimeBounded
  BY DEF ServerInv, WatchdogInv, LifetimeBounded
<1> QED
  BY <1>1, ServerInvariant, PTL

(* A login that came before the deadline is never reported as a timeout. *)
THEOREM ServerLoginTimeoutIsTrue == ServerSpec => []LoginTimeoutIsTrue
BY ServerInvariant, PTL DEF ServerInv

(* The watchdog ends every session in time and reports the login truly. *)
THEOREM ServerTimeoutsHold == ServerSpec => []TimeoutsHold
BY ServerLifetimeBounded, ServerLoginTimeoutIsTrue, PTL DEF TimeoutsHold

(* The log never shows more open sessions than there are slots. *)
THEOREM ServerLogWithinCaps == ServerSpec => []LogWithinCaps
<1>1. ServerInv /\ CapsHold => LogWithinCaps
  <2> SUFFICES ASSUME ServerInv, CapsHold PROVE LogWithinCaps
    OBVIOUS
  <2> DEFINE Open == {c \in Conns : logged[c] = "opened"}
  <2>1. Open \subseteq In("held") /\ In("held") \subseteq Conns
    BY DEF ServerInv, LogInv, In
  <2>2. Cardinality(Open) <= Cardinality(In("held"))
    BY <2>1, ConnSets, FS_Subset
  <2>3. Cardinality(Open) \in Nat /\ Cardinality(In("held")) \in Nat
    BY <2>1, ConnSets
  <2> QED
    BY <2>2, <2>3, ConfigAssumption DEF CapsHold, LogWithinCaps, ServerInv, LogInv
<1> QED
  BY <1>1, ServerInvariant, ServerCapsHold, PTL

(* When the process ends on a signal, every session is closed in the log. *)
THEOREM ServerShutdownClosesSessions == ServerSpec => []ShutdownClosesSessions
BY ServerInvariant, PTL DEF ServerInv

(* The log agrees with the registry, during the run and after the exit. *)
THEOREM ServerLogIsTrue == ServerSpec => []LogIsTrue
BY ServerLogWithinCaps, ServerShutdownClosesSessions, PTL DEF LogIsTrue

=============================================================================
