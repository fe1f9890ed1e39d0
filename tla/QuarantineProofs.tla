-------------------------- MODULE QuarantineProofs --------------------------
(***************************************************************************)
(* Proofs about Quarantine, for any number of sessions, payloads, disk     *)
(* errors, crashes and resets.                                             *)
(***************************************************************************)
EXTENDS Quarantine, FoldTheorems

(* A start of the process, whatever it could measure. *)
Boots == \E S, T \in SUBSET Payloads : Boot(S, T)

(* Every step of one session, as the invariance proofs split them.           *)
LEMMA QNextCases ==
    ASSUME QNext
    PROVE  \/ \E s \in Sessions :
                \/ \E p \in Payloads : Begin(s, p) \/ Refuse(s, p)
                \/ Lookup(s) \/ CreateStaging(s) \/ WriteAll(s) \/ Rename(s)
                \/ Cleanup(s) \/ Count(s) \/ DiskError(s) \/ NewSession(s)
           \/ Crash \/ Boots \/ ResetBegins \/ ResetRestarts
           \/ \E name \in {"staged", "stored"}, p \in Payloads : WipeFile(name, p)
BY DEF QNext, Upload, Boots

(* The store and the per-session state are well typed. *)
LEMMA StoreTypesStep ==
    ASSUME StoreTypes, [QNext]_qVars
    PROVE  StoreTypes'
<1> USE QuarantineAssumption DEF StoreTypes, Files, Storing, Moved, counts
<1>1. CASE UNCHANGED qVars
    BY <1>1 DEF qVars
<1>2. ASSUME NEW s \in Sessions, NEW p \in Payloads, Begin(s, p) \/ Refuse(s, p)
      PROVE  StoreTypes'
    BY <1>2 DEF Begin, Refuse, qVars, store, events
<1>3. ASSUME NEW s \in Sessions, Lookup(s) \/ CreateStaging(s) \/ Cleanup(s)
      PROVE  StoreTypes'
    BY <1>3 DEF Lookup, CreateStaging, Cleanup, store, events
<1>4. ASSUME NEW s \in Sessions, WriteAll(s) \/ DiskError(s)
      PROVE  StoreTypes'
    BY <1>4 DEF WriteAll, DiskError, Finished, Abandoned, store, events
<1>5. ASSUME NEW s \in Sessions, Rename(s)
      PROVE  StoreTypes'
    BY <1>5 DEF Rename, store
<1>6. ASSUME NEW s \in Sessions, Count(s) \/ NewSession(s)
      PROVE  StoreTypes'
    BY <1>6 DEF Count, NewSession, store, events
<1>7. CASE Crash
    BY <1>7 DEF Crash, Stopped, AllAbandoned
<1>8. CASE Boots \/ ResetBegins \/ ResetRestarts
    BY <1>8 DEF Boots, Boot, ResetBegins, ResetRestarts, Stopped, store, events
<1>9. ASSUME NEW name \in {"staged", "stored"}, NEW p \in Payloads, WipeFile(name, p)
      PROVE  StoreTypes'
    BY <1>9 DEF WipeFile
<1> QED
    BY <1>1, <1>2, <1>3, <1>4, <1>5, <1>6, <1>7, <1>8, <1>9, QNextCases

(* Every reachable store is well typed. *)
THEOREM StoreTypeCorrect == QSpec => []StoreTypes
<1>1. QInit => StoreTypes
    BY DEF QInit, StoreTypes, Files, Storing
<1> QED
    BY <1>1, StoreTypesStep, PTL DEF QSpec

-----------------------------------------------------------------------------
(* The session's cap.  The history of bytes written runs ahead of the        *)
(* handler's counter only between the rename and the update, and an upload   *)
(* in progress has passed the check.                                         *)
SessionInv ==
    \A s \in Sessions :
        /\ wrote[s] = session_bytes[s] + (IF pc[s] = "count" THEN written[s] ELSE 0)
        /\ pc[s] \in Storing \ {"count"} => session_bytes[s] + Size[payload[s]] <= SessionCap
        /\ wrote[s] <= SessionCap

(* Every step keeps the session's bytes within its cap. *)
LEMMA SessionInvStep ==
    ASSUME StoreTypes, SessionInv, [QNext]_qVars
    PROVE  SessionInv'
<1> USE QuarantineAssumption DEF StoreTypes, SessionInv, Storing, Moved
<1>1. CASE UNCHANGED qVars
    BY <1>1 DEF qVars
<1>2. ASSUME NEW s \in Sessions, NEW p \in Payloads, Begin(s, p) \/ Refuse(s, p)
      PROVE  SessionInv'
    BY <1>2 DEF Begin, Refuse, qVars, store, events
<1>3. ASSUME NEW s \in Sessions, Lookup(s) \/ CreateStaging(s) \/ Cleanup(s)
      PROVE  SessionInv'
    BY <1>3 DEF Lookup, CreateStaging, Cleanup, store, events
<1>4. ASSUME NEW s \in Sessions, WriteAll(s) \/ DiskError(s)
      PROVE  SessionInv'
    BY <1>4 DEF WriteAll, DiskError, store, events
<1>5. ASSUME NEW s \in Sessions, Rename(s)
      PROVE  SessionInv'
    BY <1>5 DEF Rename, store
<1>6. ASSUME NEW s \in Sessions, Count(s) \/ NewSession(s)
      PROVE  SessionInv'
    BY <1>6 DEF Count, NewSession, store, events
<1>7. CASE Crash \/ ResetRestarts
    BY <1>7 DEF Crash, ResetRestarts, Stopped
<1>8. CASE Boots \/ ResetBegins
    BY <1>8 DEF Boots, Boot, ResetBegins, store, events
<1>9. ASSUME NEW name \in {"staged", "stored"}, NEW p \in Payloads, WipeFile(name, p)
      PROVE  SessionInv'
    BY <1>9 DEF WipeFile
<1> QED
    BY <1>1, <1>2, <1>3, <1>4, <1>5, <1>6, <1>7, <1>8, <1>9, QNextCases

(* One session never adds more than max_upload_bytes * 32 to the disk,       *)
(* whatever the other sessions, the disk and the operator do.                *)
THEOREM SessionDiskIsBounded == QSpec => []SessionDiskBounded
<1>1. QInit => SessionInv
    BY QuarantineAssumption DEF QInit, SessionInv, Storing
<1>2. SessionInv => SessionDiskBounded
    BY DEF SessionInv, SessionDiskBounded
<1> QED
    BY <1>1, <1>2, SessionInvStep, StoreTypeCorrect, PTL DEF QSpec

-----------------------------------------------------------------------------
(* The content-addressed store.  `create_new` gives each staging file one    *)
(* owner, and until it has renamed or removed it nobody else touches the     *)
(* name: that, not the rename alone, is what keeps torn files out.           *)
Owners == {s \in Sessions : pc[s] \in {"write", "rename", "cleanup"}}

OwnerInv ==
    /\ reset = "none" /\ doomed = {}
    /\ \A p \in Payloads : stored[p] \in {"absent", "whole"}
    /\ \A s \in Sessions :
         /\ pc[s] = "write" => staged[payload[s]] = s
         /\ pc[s] = "rename" => staged[payload[s]] = "whole"
         /\ pc[s] = "cleanup" => staged[payload[s]] \in {"torn", "whole"}
    /\ \A s, t \in Owners : payload[s] = payload[t] => s = t
    /\ \A p \in Payloads : staged[p] \in Sessions
         => pc[staged[p]] = "write" /\ payload[staged[p]] = p

(* A step before the first reset keeps the invariant.                        *)
LEMMA OwnerInvStep ==
    ASSUME resets' = 0, StoreTypes, OwnerInv, [QNext]_qVars
    PROVE  OwnerInv'
<1> USE QuarantineAssumption
    DEF StoreTypes, OwnerInv, Owners, Files, Storing, Moved, counts
<1>1. CASE UNCHANGED qVars
    BY <1>1 DEF qVars
<1>2. ASSUME NEW s \in Sessions, NEW p \in Payloads, Begin(s, p) \/ Refuse(s, p)
      PROVE  OwnerInv'
    BY <1>2 DEF Begin, Refuse, qVars, store, events
<1>3. ASSUME NEW s \in Sessions, Lookup(s)
      PROVE  OwnerInv'
    BY <1>3 DEF Lookup, store, events
<1>4. ASSUME NEW s \in Sessions, CreateStaging(s)
      PROVE  OwnerInv'
    BY <1>4 DEF CreateStaging, events
<1>5. ASSUME NEW s \in Sessions, WriteAll(s)
      PROVE  OwnerInv'
    BY <1>5 DEF WriteAll, Finished, events
<1>6. ASSUME NEW s \in Sessions, Rename(s)
      PROVE  OwnerInv'
    BY <1>6 DEF Rename, store
<1>7. ASSUME NEW s \in Sessions, DiskError(s)
      PROVE  OwnerInv'
    BY <1>7 DEF DiskError, Abandoned, store, events
<1>8. ASSUME NEW s \in Sessions, Cleanup(s)
      PROVE  OwnerInv'
    BY <1>8 DEF Cleanup, events
<1>9. ASSUME NEW s \in Sessions, Count(s) \/ NewSession(s)
      PROVE  OwnerInv'
    BY <1>9 DEF Count, NewSession, store, events
<1>10. CASE Crash
    BY <1>10 DEF Crash, Stopped, AllAbandoned
<1>11. CASE Boots
    BY <1>11 DEF Boots, Boot, store, events
<1>12. ~ResetBegins /\ ~ResetRestarts /\ \A name, p : ~WipeFile(name, p)
    BY DEF ResetBegins, ResetRestarts, WipeFile
<1> QED
    BY <1>1, <1>2, <1>3, <1>4, <1>5, <1>6, <1>7, <1>8, <1>9, <1>10, <1>11, <1>12, QNextCases

(* The counter of resets only grows. *)
LEMMA ResetsGrow ==
    ASSUME StoreTypes, [QNext]_qVars, resets' = 0
    PROVE  resets = 0
<1>1. CASE UNCHANGED qVars
    BY <1>1 DEF qVars
<1>2. ASSUME NEW s \in Sessions, NEW p \in Payloads, Begin(s, p) \/ Refuse(s, p)
      PROVE  resets' = resets
    BY <1>2 DEF Begin, Refuse, qVars, counts
<1>3. ASSUME NEW s \in Sessions,
             \/ Lookup(s) \/ CreateStaging(s) \/ WriteAll(s) \/ Rename(s)
             \/ Cleanup(s) \/ Count(s) \/ DiskError(s) \/ NewSession(s)
      PROVE  resets' = resets
    BY <1>3 DEF Lookup, CreateStaging, WriteAll, Rename, Cleanup, Count, DiskError, NewSession,
                counts
<1>4. ASSUME NEW name \in {"staged", "stored"}, NEW p \in Payloads, WipeFile(name, p)
      PROVE  resets' = resets
    BY <1>4 DEF WipeFile, counts
<1>5. CASE Crash \/ Boots \/ ResetRestarts
    BY <1>5 DEF Crash, Boots, Boot, ResetRestarts, counts
<1>6. CASE ResetBegins
    BY <1>6 DEF ResetBegins, StoreTypes
<1> QED
    BY <1>1, <1>2, <1>3, <1>4, <1>5, <1>6, QNextCases

(* While nothing but the honeypot touches the directory, a file under its    *)
(* hash name is whole: no disk error, race or crash leaves a torn one.       *)
THEOREM StoreIsContentAddressed == QSpec => []ContentAddressed
<1> DEFINE Inv == resets = 0 => OwnerInv
<1>1. QInit => Inv
    BY QuarantineAssumption DEF QInit, OwnerInv, Owners
<1>2. Inv => ContentAddressed
    BY DEF OwnerInv, ContentAddressed
<1>3. StoreTypes /\ Inv /\ [QNext]_qVars => Inv'
    BY OwnerInvStep, ResetsGrow
<1> QED
    BY <1>1, <1>2, <1>3, StoreTypeCorrect, PTL DEF QSpec

-----------------------------------------------------------------------------
(* With no disk error, kill or deletion so far: whoever is told that a       *)
(* payload is there already is told so because it is stored, or because the  *)
(* owner of its staging file is about to store it.                           *)
Held(p) == \E s \in Sessions : pc[s] \in {"write", "rename"} /\ payload[s] = p

CalmInv ==
    /\ up
    /\ \A s \in Sessions : pc[s] # "cleanup"
    /\ \A p \in Payloads : staged[p] # "absent" => Held(p)
    /\ \A s \in Sessions : pc[s] = "count" => stored[payload[s]] = "whole" \/ Held(payload[s])
    /\ reported \subseteq Payloads
    /\ \A p \in reported : stored[p] = "whole" \/ Held(p)

Calm == failures = 0 /\ crashes = 0 /\ resets = 0

(* Disk errors and kills are counted. *)
CountTypes == failures \in Nat /\ crashes \in Nat

(* The counts of errors and kills only grow. *)
LEMMA CountsGrow ==
    ASSUME StoreTypes, CountTypes, [QNext]_qVars
    PROVE  CountTypes' /\ (Calm' => Calm)
<1> USE DEF CountTypes, Calm
<1>1. CASE UNCHANGED qVars
    BY <1>1 DEF qVars
<1>2. ASSUME NEW s \in Sessions, NEW p \in Payloads, Begin(s, p) \/ Refuse(s, p)
      PROVE  CountTypes' /\ (Calm' => Calm)
    BY <1>2 DEF Begin, Refuse, qVars, counts
<1>3. ASSUME NEW s \in Sessions,
             \/ Lookup(s) \/ CreateStaging(s) \/ WriteAll(s) \/ Rename(s)
             \/ Cleanup(s) \/ Count(s) \/ NewSession(s)
      PROVE  CountTypes' /\ (Calm' => Calm)
    BY <1>3 DEF Lookup, CreateStaging, WriteAll, Rename, Cleanup, Count, NewSession, counts
<1>4. ASSUME NEW s \in Sessions, DiskError(s)
      PROVE  CountTypes' /\ (Calm' => Calm)
    BY <1>4 DEF DiskError
<1>5. ASSUME NEW name \in {"staged", "stored"}, NEW p \in Payloads, WipeFile(name, p)
      PROVE  CountTypes' /\ (Calm' => Calm)
    BY <1>5 DEF WipeFile, counts
<1>6. CASE Crash
    BY <1>6 DEF Crash
<1>7. CASE Boots \/ ResetRestarts
    BY <1>7 DEF Boots, Boot, ResetRestarts, counts
<1>8. CASE ResetBegins
    BY <1>8 DEF ResetBegins, StoreTypes
<1> QED
    BY <1>1, <1>2, <1>3, <1>4, <1>5, <1>6, <1>7, <1>8, QNextCases

(* A step of a calm store keeps the invariant. *)
LEMMA CalmInvStep ==
    ASSUME Calm, Calm', StoreTypes, CountTypes, OwnerInv, CalmInv, [QNext]_qVars
    PROVE  CalmInv'
<1> USE QuarantineAssumption DEF StoreTypes, CalmInv, Files, Storing, Moved
<1>1. CASE UNCHANGED qVars
    BY <1>1 DEF qVars, Held
<1>2. ASSUME NEW s \in Sessions, NEW p \in Payloads, Begin(s, p) \/ Refuse(s, p)
      PROVE  CalmInv'
  <2>1. \A q : Held(q) => Held(q)'
      BY <1>2 DEF Held, Begin, Refuse, qVars
  <2>2. /\ UNCHANGED <<up, staged, stored, reported>>
        /\ \A t \in Sessions : pc'[t] \in {"count", "cleanup"}
               => pc'[t] = pc[t] /\ payload'[t] = payload[t]
      BY <1>2 DEF Begin, Refuse, qVars, store, events
  <2> QED
      BY <2>1, <2>2
<1>3. ASSUME NEW s \in Sessions, Lookup(s)
      PROVE  CalmInv'
    BY <1>3 DEF Lookup, Held, store, events, OwnerInv
<1>4. ASSUME NEW s \in Sessions, CreateStaging(s)
      PROVE  CalmInv'
    BY <1>4 DEF CreateStaging, Held, events
<1>5. ASSUME NEW s \in Sessions, WriteAll(s)
      PROVE  CalmInv'
  <2>1. \A q : Held(q) => Held(q)'
      BY <1>5 DEF Held, WriteAll
  <2>2. /\ UNCHANGED <<up, payload, reported>>
        /\ \A t \in Sessions : pc'[t] \in {"count", "cleanup"} => pc'[t] = pc[t]
      BY <1>5 DEF WriteAll, events
  <2>3. \A q \in Payloads : /\ staged'[q] # "absent" => staged[q] # "absent"
                            /\ stored[q] = "whole" => stored'[q] = "whole"
      BY <1>5 DEF WriteAll, Finished
  <2>4. reported \subseteq Payloads
      BY DEF CalmInv
  <2> QED
      BY <2>1, <2>2, <2>3, <2>4
<1>6. ASSUME NEW s \in Sessions, Rename(s)
      PROVE  CalmInv'
  <2>1. staged[payload[s]] = "whole"
      BY <1>6 DEF Rename, OwnerInv
  <2>2. /\ UNCHANGED <<up, payload, reported>>
        /\ stored' = [stored EXCEPT ![payload[s]] = "whole"]
        /\ staged' = [staged EXCEPT ![payload[s]] = "absent"]
        /\ pc' = [pc EXCEPT ![s] = "count"]
      BY <1>6, <2>1 DEF Rename
  <2>3. \A q \in Payloads : Held(q) => Held(q)' \/ q = payload[s]
      BY <2>2 DEF Held
  <2>4. \A q \in Payloads : stored[q] = "whole" \/ Held(q)
                            => stored'[q] = "whole" \/ Held(q)'
      BY <2>2, <2>3
  <2>5. (\A q \in Payloads : staged[q] # "absent" => Held(q))'
      BY <2>2, <2>3
  <2>6. reported \subseteq Payloads
      BY DEF CalmInv
  <2> QED
      BY <2>2, <2>4, <2>5, <2>6
<1>7. ASSUME NEW s \in Sessions, DiskError(s)
      PROVE  FALSE
    BY <1>7 DEF DiskError, Calm, CountTypes
<1>8. ASSUME NEW s \in Sessions, Cleanup(s)
      PROVE  FALSE
    BY <1>8 DEF Cleanup
<1>9. ASSUME NEW s \in Sessions, Count(s) \/ NewSession(s)
      PROVE  CalmInv'
  <2>1. \A q : Held(q) => Held(q)'
      BY <1>9 DEF Held, Count, NewSession
  <2>2. /\ UNCHANGED <<up, payload, staged, stored>>
        /\ \A t \in Sessions : pc'[t] \in {"count", "cleanup"} => pc'[t] = pc[t]
        /\ \A q \in reported' : q \in reported \/ (q = payload[s] /\ pc[s] = "count")
      BY <1>9 DEF Count, NewSession, store
  <2>3. reported' \subseteq Payloads
      BY <2>2
  <2> QED
      BY <2>1, <2>2, <2>3
<1>10. ~Crash /\ ~Boots
    BY DEF Crash, Boots, Boot, Calm, CountTypes
<1>11. ~ResetBegins /\ ~ResetRestarts /\ \A name, p : ~WipeFile(name, p)
    BY DEF ResetBegins, ResetRestarts, WipeFile, OwnerInv, Calm
<1> QED
    BY <1>1, <1>2, <1>3, <1>4, <1>5, <1>6, <1>7, <1>8, <1>9, <1>10, <1>11, QNextCases

(* However sessions race for one payload, a stored_path that was reported    *)
(* names a whole file once they are done, unless a disk error, a kill or a   *)
(* deletion intervened.                                                      *)
THEOREM TheCalmStoreIsHonest == QSpec => []CalmStoreIsHonest
<1> DEFINE Inv == CountTypes /\ (Calm => OwnerInv /\ CalmInv)
<1>1. QInit => Inv
    BY QuarantineAssumption DEF QInit, OwnerInv, Owners, CalmInv, CountTypes
<1>2. StoreTypes /\ Inv => CalmStoreIsHonest
    BY DEF CalmStoreIsHonest, ReportedIsOnDisk, CalmInv, Held, Calm, CountTypes, StoreTypes
<1>3. StoreTypes /\ Inv /\ [QNext]_qVars => Inv'
    BY CountsGrow, CalmInvStep, OwnerInvStep DEF Calm
<1> QED
    BY <1>1, <1>2, <1>3, StoreTypeCorrect, PTL DEF QSpec

-----------------------------------------------------------------------------
(* The bytes on the disk.  A payload's staging file is its owners' affair    *)
(* while it has any; every other byte on the disk is one that some session   *)
(* has counted or, its rename done, is about to count, or one that an error  *)
(* the code ignores has hidden.                                              *)
Weight(p, file) == IF file = "absent" THEN 0 ELSE IF file = "torn" THEN Torn[p] ELSE Size[p]
Weights(files)  == [p \in Payloads |-> Weight(p, files[p])]

Owned == {payload[s] : s \in Owners}

Settled ==
    [p \in Payloads |-> Weight(p, stored[p]) + (IF p \in Owned THEN 0 ELSE Weight(p, staged[p]))]
Counting == [s \in Sessions |-> IF pc[s] = "count" THEN written[s] ELSE 0]
InFlight == [s \in Sessions |-> IF pc[s] \in Storing THEN Size[payload[s]] ELSE 0]

SettledBytes  == SumFunctionOnSet(Settled, Payloads)
CountingBytes == SumFunctionOnSet(Counting, Sessions)
InFlightBytes == SumFunctionOnSet(InFlight, Sessions)

DiskBound == GlobalCap + (Cardinality(Sessions) - 1) * LargestSize

SettledInv ==
    /\ ~up => \A s \in Sessions : pc[s] = "idle"
    /\ \A s \in Sessions : pc[s] = "count" => written[s] <= Size[payload[s]]
    /\ up => SettledBytes <= global_bytes + missed + CountingBytes

RoomInv ==
    /\ missed <= leaked
    /\ up => global_bytes + missed + InFlightBytes <= DiskBound + leaked
    /\ ~up => Disk <= DiskBound + leaked

(* A file weighs at most its payload. *)
LEMMA WeightBounded ==
    ASSUME NEW p \in Payloads, NEW file
    PROVE  Weight(p, file) \in Nat /\ Weight(p, file) <= Size[p]
BY QuarantineAssumption DEF Weight

(* measure_dir_size adds up the weights. *)
LEMMA BytesAreWeights ==
    ASSUME NEW files
    PROVE  Bytes(files) = SumFunctionOnSet(Weights(files), Payloads) /\ Bytes(files) \in Nat
<1> DEFINE W == {p \in Payloads : files[p] \notin {"absent", "torn"}}
           T == {p \in Payloads : files[p] = "torn"}
           f == [p \in Payloads |-> IF p \in W THEN Size[p] ELSE 0]
           g == [p \in Payloads |-> IF p \in T THEN Torn[p] ELSE 0]
<1>0. IsFiniteSet(Payloads) /\ \A p \in Payloads : Size[p] \in Nat /\ Torn[p] \in Nat
    BY QuarantineAssumption
<1>1. \A p \in Payloads : f[p] \in Nat /\ g[p] \in Nat /\ Weights(files)[p] = f[p] + g[p]
    BY <1>0 DEF Weights, Weight
<1>2. /\ W \subseteq Payloads
      /\ \A p \in W : Size[p] \in Nat /\ f[p] = Size[p]
      /\ \A p \in Payloads \ W : f[p] = 0
    BY <1>0
<1>3. /\ T \subseteq Payloads
      /\ \A p \in T : Torn[p] \in Nat /\ g[p] = Torn[p]
      /\ \A p \in Payloads \ T : g[p] = 0
    BY <1>0
<1> HIDE DEF f, g, W, T
<1>4. SumFunctionOnSet(Size, W) = SumFunctionOnSet(f, Payloads)
    BY <1>0, <1>2, SumWhere
<1>5. SumFunctionOnSet(Torn, T) = SumFunctionOnSet(g, Payloads)
    BY <1>0, <1>3, SumWhere
<1>6. SumFunctionOnSet(Weights(files), Payloads)
          = SumFunctionOnSet(f, Payloads) + SumFunctionOnSet(g, Payloads)
    BY <1>0, <1>1, SumPlus
<1>7. SumFunctionOnSet(f, Payloads) \in Nat /\ SumFunctionOnSet(g, Payloads) \in Nat
    BY <1>0, <1>1, SumNat
<1>8. Bytes(files) = SumFunctionOnSet(Size, W) + SumFunctionOnSet(Torn, T)
    BY DEF Bytes, W, T
<1> QED
    BY <1>4, <1>5, <1>6, <1>7, <1>8

(* A start that skips entries measures no more than there is. *)
LEMMA SeenIsLess ==
    ASSUME NEW files, NEW S
    PROVE  Bytes(Seen(files, S)) \in Nat /\ Bytes(Seen(files, S)) <= Bytes(files)
<1> DEFINE a == Weights(Seen(files, S))
           b == Weights(files)
<1>1. \A p \in Payloads : a[p] \in Nat /\ b[p] \in Nat /\ a[p] <= b[p]
    BY WeightBounded DEF Weights, Seen, Weight
<1>2. /\ Bytes(Seen(files, S)) = SumFunctionOnSet(a, Payloads) /\ Bytes(Seen(files, S)) \in Nat
      /\ Bytes(files) = SumFunctionOnSet(b, Payloads)
    BY BytesAreWeights
<1> HIDE DEF a, b
<1>3. SumFunctionOnSet(a, Payloads) <= SumFunctionOnSet(b, Payloads)
    BY <1>1, QuarantineAssumption, SumLeq
<1> QED
    BY <1>2, <1>3

(* What a start measures and what it misses are together what there is. *)
LEMMA BootMeasures ==
    ASSUME Boots, leaked \in Nat
    PROVE  /\ global_bytes' \in Nat /\ missed' \in Nat /\ global_bytes' + missed' = Disk
           /\ leaked' = leaked + missed' /\ Disk \in Nat
<1>1. PICK S, T \in SUBSET Payloads : Boot(S, T)
    BY DEF Boots
<1> DEFINE m == Bytes(Seen(staged, S)) + Bytes(Seen(stored, T))
<1>2. m \in Nat /\ Disk \in Nat /\ m <= Disk
  <2>1. Bytes(staged) \in Nat /\ Bytes(stored) \in Nat
      BY BytesAreWeights
  <2> QED
      BY <2>1, SeenIsLess DEF Disk
<1>3. global_bytes' = m /\ missed' = Disk - m /\ leaked' = leaked + (Disk - m)
    BY <1>1 DEF Boot
<1> HIDE DEF m
<1> QED
    BY <1>2, <1>3

(* What is pending is the payloads in flight. *)
LEMMA PendingIsInFlight ==
    ASSUME StoreTypes
    PROVE  Pending = InFlightBytes
<1> DEFINE f == [s \in Sessions |-> Size[payload[s]]]
           R == {s \in Sessions : pc[s] \in Storing}
<1>1. /\ R \subseteq Sessions /\ IsFiniteSet(Sessions)
      /\ \A s \in R : f[s] \in Nat /\ InFlight[s] = f[s]
      /\ \A s \in Sessions \ R : InFlight[s] = 0
    BY QuarantineAssumption DEF StoreTypes, InFlight
<1> HIDE DEF f, R
<1>2. SumFunctionOnSet(f, R) = SumFunctionOnSet(InFlight, Sessions)
    BY <1>1, SumWhere
<1> QED
    BY <1>2 DEF Pending, InFlightBytes, f, R

(* The sums are over finite sets of natural numbers. *)
LEMMA AccountTypes ==
    ASSUME StoreTypes
    PROVE  /\ IsFiniteSet(Sessions) /\ IsFiniteSet(Payloads)
           /\ \A p \in Payloads : Settled[p] \in Nat
           /\ \A s \in Sessions : Counting[s] \in Nat /\ InFlight[s] \in Nat
           /\ SettledBytes \in Nat /\ CountingBytes \in Nat /\ InFlightBytes \in Nat
           /\ Disk \in Nat
<1>1. IsFiniteSet(Sessions) /\ IsFiniteSet(Payloads)
    BY QuarantineAssumption
<1>2. \A p \in Payloads : Settled[p] \in Nat
    BY WeightBounded DEF Settled
<1>3. \A s \in Sessions : Counting[s] \in Nat /\ InFlight[s] \in Nat
    BY QuarantineAssumption DEF StoreTypes, Counting, InFlight
<1>4. SettledBytes \in Nat /\ CountingBytes \in Nat /\ InFlightBytes \in Nat
    BY <1>1, <1>2, <1>3, SumNat DEF SettledBytes, CountingBytes, InFlightBytes
<1>5. Bytes(staged) \in Nat /\ Bytes(stored) \in Nat
    BY BytesAreWeights
<1> QED
    BY <1>1, <1>2, <1>3, <1>4, <1>5 DEF Disk

(* The owners' staging files weigh no more than their uploads, so the        *)
(* counter and what is in flight cover the disk.                             *)
LEMMA DiskIsCovered ==
    ASSUME StoreTypes, SettledInv, up, global_bytes \in Nat, missed \in Nat
    PROVE  Disk <= global_bytes + missed + InFlightBytes
<1> DEFINE over == [p \in Payloads |-> IF p \in Owned THEN Weight(p, staged[p]) ELSE 0]
           both == [p \in Payloads |-> Weight(p, stored[p]) + Weight(p, staged[p])]
           cost == [p \in Payloads |-> IF p \in Owned THEN Size[p] ELSE 0]
           g == [s \in Sessions |-> Size[payload[s]]]
           charge == [s \in Sessions |-> IF s \in Owners THEN Size[payload[s]] ELSE 0]
           sum == [s \in Sessions |-> Counting[s] + charge[s]]
           P(f) == SumFunctionOnSet(f, Payloads)
           S(f) == SumFunctionOnSet(f, Sessions)
<1>1. /\ IsFiniteSet(Sessions) /\ IsFiniteSet(Payloads)
      /\ \A p \in Payloads : Size[p] \in Nat
      /\ \A s \in Sessions : payload[s] \in Payloads
    BY QuarantineAssumption DEF StoreTypes
<1>2. Owned \subseteq Payloads /\ Owners \subseteq Sessions /\ IsFiniteSet(Owners)
    BY <1>1, FS_Subset DEF Owned, Owners
<1>3. \A p \in Payloads : /\ over[p] \in Nat /\ cost[p] \in Nat /\ over[p] <= cost[p]
                          /\ Settled[p] \in Nat
                          /\ Weights(stored)[p] \in Nat /\ Weights(staged)[p] \in Nat
                          /\ both[p] = Weights(stored)[p] + Weights(staged)[p]
                          /\ both[p] = Settled[p] + over[p]
    BY <1>1, WeightBounded DEF Settled, Weights
<1>4. \A s \in Sessions : /\ Counting[s] \in Nat /\ charge[s] \in Nat
                          /\ sum[s] \in Nat /\ InFlight[s] \in Nat
                          /\ sum[s] = Counting[s] + charge[s] /\ sum[s] <= InFlight[s]
    BY <1>1 DEF Counting, InFlight, Owners, SettledInv, StoreTypes, Storing
<1>5. /\ \A p \in Owned : Size[p] \in Nat /\ cost[p] = Size[p]
      /\ \A p \in Payloads \ Owned : cost[p] = 0
      /\ \A s \in Owners : g[s] \in Nat /\ g[s] = Size[payload[s]] /\ charge[s] = g[s]
      /\ \A s \in Sessions \ Owners : charge[s] = 0
    BY <1>1, <1>2
<1> HIDE DEF over, both, cost, g, charge, sum
<1>6. P(both) = P(Weights(stored)) + P(Weights(staged))
    BY <1>1, <1>3, SumPlus
<1>7. P(both) = P(Settled) + P(over)
    BY <1>1, <1>3, SumPlus
<1>8. P(over) <= P(cost)
    BY <1>1, <1>3, SumLeq
<1>9. SumFunctionOnSet(Size, Owned) = P(cost)
    BY <1>1, <1>2, <1>5, SumWhere
<1>10. SumFunctionOnSet(Size, {payload[s] : s \in Owners}) <= SumFunctionOnSet(g, Owners)
    BY <1>2, <1>5, SumImage
<1>11. SumFunctionOnSet(g, Owners) = S(charge)
    BY <1>1, <1>2, <1>5, SumWhere
<1>12. S(sum) = S(Counting) + S(charge)
    BY <1>1, <1>4, SumPlus
<1>13. S(sum) <= S(InFlight)
    BY <1>1, <1>4, SumLeq
<1>14. /\ P(Settled) \in Nat /\ P(over) \in Nat /\ P(cost) \in Nat
       /\ S(charge) \in Nat /\ S(Counting) \in Nat /\ S(sum) \in Nat /\ S(InFlight) \in Nat
    BY <1>1, <1>3, <1>4, SumNat
<1>15. Disk = P(Weights(staged)) + P(Weights(stored))
    BY BytesAreWeights DEF Disk
<1>16. P(Weights(staged)) \in Nat /\ P(Weights(stored)) \in Nat
    BY <1>1, <1>3, SumNat
<1>17. P(over) <= S(charge)
  <2>1. SumFunctionOnSet(Size, Owned) <= SumFunctionOnSet(g, Owners)
      BY <1>10 DEF Owned
  <2> HIDE DEF P, S
  <2> QED
      BY <2>1, <1>8, <1>9, <1>11, <1>14
<1>18. P(Settled) <= global_bytes + missed + S(Counting)
    BY DEF SettledInv, SettledBytes, CountingBytes
<1> HIDE DEF P, S
<1>19. Disk <= global_bytes + missed + S(InFlight)
    BY <1>6, <1>7, <1>12, <1>13, <1>14, <1>15, <1>16, <1>17, <1>18
<1> QED
    BY <1>19 DEF InFlightBytes, S

(* The largest payload is one of them, and none is larger. *)
LEMMA LargestSizeIsLargest ==
    ASSUME StoreTypes
    PROVE  LargestSize \in Nat /\ \A p \in Payloads : Size[p] <= LargestSize
<1> DEFINE sizes == {Size[p] : p \in Payloads}
<1>1. Payloads # {}
    BY QuarantineAssumption DEF StoreTypes
<1>2. sizes \subseteq Nat /\ sizes # {} /\ \A p \in Payloads : Size[p] \in sizes
    BY <1>1, QuarantineAssumption
<1>3. IsFiniteSet(sizes)
  <2>1. Size \in Surjection(Payloads, sizes)
      BY QuarantineAssumption DEF Surjection
  <2> QED
      BY <2>1, QuarantineAssumption, FS_Surjection
<1> HIDE DEF sizes
<1>4. \E x \in sizes : \A y \in sizes : x >= y
    BY <1>2, <1>3, GreatestExists
<1>5. Max(sizes) \in sizes /\ \A y \in sizes : Max(sizes) >= y
    BY <1>4 DEF Max
<1> QED
    BY <1>2, <1>5 DEF LargestSize, sizes

(* The counter, the flags and the counts are well typed as well. *)
ProcessTypes ==
    /\ up \in BOOLEAN /\ global_bytes \in Nat
    /\ reset \in {"none", "wiping", "restart"}
    /\ doomed \in SUBSET ({"staged", "stored"} \X Payloads)
    /\ reported \in SUBSET Payloads
    /\ missed \in Nat /\ leaked \in Nat
    /\ failures \in Nat /\ crashes \in Nat

(* Every step keeps them so. *)
LEMMA ProcessTypesStep ==
    ASSUME StoreTypes, ProcessTypes, [QNext]_qVars
    PROVE  ProcessTypes'
<1> USE QuarantineAssumption DEF ProcessTypes, StoreTypes, ignored
<1>1. CASE UNCHANGED qVars
    BY <1>1 DEF qVars
<1>2. ASSUME NEW s \in Sessions, NEW p \in Payloads, Begin(s, p) \/ Refuse(s, p)
      PROVE  ProcessTypes'
    BY <1>2 DEF Begin, Refuse, qVars, events, counts
<1>3. ASSUME NEW s \in Sessions,
             \/ Lookup(s) \/ CreateStaging(s) \/ WriteAll(s) \/ Rename(s)
             \/ Cleanup(s) \/ NewSession(s)
      PROVE  ProcessTypes'
    BY <1>3 DEF Lookup, CreateStaging, WriteAll, Rename, Cleanup, NewSession, events, counts
<1>9. ASSUME NEW s \in Sessions, DiskError(s)
      PROVE  ProcessTypes'
  <2>1. /\ UNCHANGED <<up, global_bytes, reset, doomed, reported, crashes>>
        /\ failures' = failures + 1
      BY <1>9 DEF DiskError, events
  <2>2. missed' \in Nat /\ leaked' \in Nat
      BY <1>9 DEF DiskError, Missed
  <2> QED
      BY <2>1, <2>2
<1>4. ASSUME NEW s \in Sessions, Count(s)
      PROVE  ProcessTypes'
    BY <1>4 DEF Count, counts
<1>5. CASE Crash \/ ResetRestarts
  <2>1. up' = FALSE
      BY <1>5 DEF Crash, ResetRestarts, Stopped
  <2>2. CASE Crash
    <3>1. /\ crashes' \in Nat
          /\ UNCHANGED <<global_bytes, reset, doomed, reported, missed, leaked, failures>>
        BY <2>2 DEF Crash
    <3> QED
        BY <2>1, <3>1
  <2>3. CASE ResetRestarts
      BY <2>1, <2>3 DEF ResetRestarts, counts
  <2> QED
      BY <1>5, <2>2, <2>3
<1>6. CASE Boots
  <2>1. /\ up' = TRUE /\ reset' \in {reset, "none"} /\ failures' \in {failures, failures + 1}
        /\ UNCHANGED <<doomed, reported, crashes>>
      BY <1>6 DEF Boots, Boot, events
  <2> QED
      BY <1>6, <2>1, BootMeasures
<1>7. CASE ResetBegins
    BY <1>7 DEF ResetBegins, events
<1>8. ASSUME NEW name \in {"staged", "stored"}, NEW p \in Payloads, WipeFile(name, p)
      PROVE  ProcessTypes'
    BY <1>8 DEF WipeFile, counts
<1> QED
    BY <1>1, <1>2, <1>3, <1>4, <1>5, <1>6, <1>7, <1>8, <1>9, QNextCases

(* How the sums move with what they add up. *)
LEMMA AccountsMove ==
    ASSUME StoreTypes, StoreTypes'
    PROVE  /\ (\A p \in Payloads : Settled'[p] <= Settled[p]) => SettledBytes' <= SettledBytes
           /\ \A p \in Payloads : (\A q \in Payloads \ {p} : Settled'[q] = Settled[q])
                  => SettledBytes' - Settled'[p] = SettledBytes - Settled[p]
           /\ (\A s \in Sessions : Counting'[s] = Counting[s]) => CountingBytes' = CountingBytes
           /\ \A s \in Sessions : (\A t \in Sessions \ {s} : Counting'[t] = Counting[t])
                  => CountingBytes' - Counting'[s] = CountingBytes - Counting[s]
           /\ (\A s \in Sessions : InFlight'[s] <= InFlight[s]) => InFlightBytes' <= InFlightBytes
           /\ \A s \in Sessions : (\A t \in Sessions \ {s} : InFlight'[t] = InFlight[t])
                  => InFlightBytes' - InFlight'[s] = InFlightBytes - InFlight[s]
           /\ SettledBytes' \in Nat /\ CountingBytes' \in Nat /\ InFlightBytes' \in Nat
<1>1. /\ IsFiniteSet(Sessions) /\ IsFiniteSet(Payloads)
      /\ \A p \in Payloads : Settled[p] \in Nat
      /\ \A s \in Sessions : Counting[s] \in Nat /\ InFlight[s] \in Nat
    BY AccountTypes
<1>2. \A p \in Payloads : Settled'[p] \in Nat
    BY WeightBounded DEF Settled
<1>3. \A s \in Sessions : Counting'[s] \in Nat /\ InFlight'[s] \in Nat
    BY QuarantineAssumption DEF StoreTypes, Counting, InFlight
<1> USE DEF SettledBytes, CountingBytes, InFlightBytes
<1>4. SettledBytes' \in Nat /\ CountingBytes' \in Nat /\ InFlightBytes' \in Nat
    BY <1>1, <1>2, <1>3, SumNat
<1>5. (\A p \in Payloads : Settled'[p] <= Settled[p]) => SettledBytes' <= SettledBytes
    BY <1>1, <1>2, SumLeq
<1>6. ASSUME NEW p \in Payloads, \A q \in Payloads \ {p} : Settled'[q] = Settled[q]
      PROVE  SettledBytes' - Settled'[p] = SettledBytes - Settled[p]
    BY <1>1, <1>2, <1>6, SumChange
<1>7. (\A s \in Sessions : Counting'[s] = Counting[s]) => CountingBytes' = CountingBytes
    BY <1>1, <1>3, SumSame
<1>8. ASSUME NEW s \in Sessions, \A t \in Sessions \ {s} : Counting'[t] = Counting[t]
      PROVE  CountingBytes' - Counting'[s] = CountingBytes - Counting[s]
    BY <1>1, <1>3, <1>8, SumChange
<1>9. (\A s \in Sessions : InFlight'[s] <= InFlight[s]) => InFlightBytes' <= InFlightBytes
    BY <1>1, <1>3, SumLeq
<1>10. ASSUME NEW s \in Sessions, \A t \in Sessions \ {s} : InFlight'[t] = InFlight[t]
       PROVE  InFlightBytes' - InFlight'[s] = InFlightBytes - InFlight[s]
    BY <1>1, <1>3, <1>10, SumChange
<1> QED
    BY <1>4, <1>5, <1>6, <1>7, <1>8, <1>9, <1>10

(* Every step keeps the settled bytes covered. *)
LEMMA SettledInvStep ==
    ASSUME StoreTypes, StoreTypes', ProcessTypes, SettledInv, [QNext]_qVars
    PROVE  SettledInv'
<1> USE DEF ignored
<1> DEFINE Still == /\ \A p \in Payloads : Settled'[p] <= Settled[p]
                    /\ \A s \in Sessions : Counting'[s] = Counting[s]
                    /\ global_bytes' = global_bytes /\ missed' = missed /\ up' = up
           Idle == \A s \in Sessions : pc[s] = "idle"
           Within == \A s \in Sessions : pc[s] = "count" => written[s] <= Size[payload[s]]
<1>a. /\ SettledBytes \in Nat /\ CountingBytes \in Nat /\ Disk \in Nat
      /\ \A p \in Payloads : Settled[p] \in Nat
      /\ \A s \in Sessions : Counting[s] \in Nat
      /\ SettledBytes' \in Nat /\ CountingBytes' \in Nat /\ global_bytes \in Nat /\ missed \in Nat
    BY AccountTypes, AccountsMove DEF ProcessTypes
<1>b. ASSUME Still, Within', ~up' => Idle' PROVE SettledInv'
  <2>1. SettledBytes' <= SettledBytes /\ CountingBytes' = CountingBytes
      BY <1>b, AccountsMove
  <2> QED
      BY <2>1, <1>a, <1>b DEF SettledInv
<1>c. Within /\ (~up => Idle) /\ (up => SettledBytes <= global_bytes + missed + CountingBytes)
    BY DEF SettledInv
<1>1. CASE UNCHANGED qVars
    BY <1>1, <1>c DEF qVars, SettledInv, SettledBytes, Settled, CountingBytes, Counting, Owned, Owners
<1>2. ASSUME NEW s \in Sessions, NEW p \in Payloads, Begin(s, p) \/ Refuse(s, p)
      PROVE  SettledInv'
  <2>1. Owners' = Owners /\ \A t \in Owners : payload'[t] = payload[t]
      BY <1>2 DEF Begin, Refuse, qVars, Owners, Moved, StoreTypes
  <2>2. Owned' = Owned
      BY <2>1 DEF Owned
  <2>3. UNCHANGED <<staged, stored, written, global_bytes, missed, up>>
      BY <1>2 DEF Begin, Refuse, qVars, store
  <2>4. Still
      BY <1>2, <1>a, <2>2, <2>3 DEF Begin, Refuse, qVars, Moved, Settled, Counting, StoreTypes
  <2>5. Within' /\ (~up' => Idle')
      BY <1>2, <1>c, <2>3 DEF Begin, Refuse, qVars, Moved, StoreTypes
  <2> QED
      BY <1>b, <2>4, <2>5
<1>3. ASSUME NEW s \in Sessions, Lookup(s)
      PROVE  SettledInv'
  <2>1. UNCHANGED <<staged, stored, payload, global_bytes, missed, up>>
      BY <1>3 DEF Lookup, store
  <2>2. Owners' = Owners
      BY <1>3 DEF Lookup, Moved, Owners, StoreTypes
  <2>3. Owned' = Owned
      BY <2>1, <2>2 DEF Owned
  <2>4. \A t \in Sessions : Counting'[t] = Counting[t]
      BY <1>3 DEF Lookup, Moved, Counting, StoreTypes
  <2>5. Still
      BY <1>a, <2>1, <2>3, <2>4 DEF Settled
  <2>6. Within' /\ (~up' => Idle')
      BY <1>3, <1>c, QuarantineAssumption DEF Lookup, Moved, StoreTypes
  <2> QED
      BY <1>b, <2>5, <2>6
<1>4. ASSUME NEW s \in Sessions, CreateStaging(s)
      PROVE  SettledInv'
  <2>1. UNCHANGED <<stored, payload, global_bytes, missed, up>>
      BY <1>4 DEF CreateStaging
  <2>2. \A t \in Sessions : Counting'[t] = Counting[t]
      BY <1>4 DEF CreateStaging, Moved, Counting, StoreTypes
  <2>3. Within' /\ (~up' => Idle')
      BY <1>4, <1>c, QuarantineAssumption DEF CreateStaging, Moved, StoreTypes
  <2>4. Owners \subseteq Owners'
      BY <1>4 DEF CreateStaging, Moved, Owners, StoreTypes
  <2>5. Owned \subseteq Owned'
      BY <2>1, <2>4 DEF Owned
  <2>6. \A p \in Payloads : staged'[p] = staged[p] \/ p \in Owned'
      BY <1>4 DEF CreateStaging, Moved, Owned, Owners, StoreTypes
  <2>7. \A p \in Payloads : Settled'[p] <= Settled[p]
      BY <2>1, <2>5, <2>6, WeightBounded DEF Settled
  <2> QED
      BY <1>b, <2>1, <2>2, <2>3, <2>7
<1>5. ASSUME NEW s \in Sessions, WriteAll(s)
      PROVE  SettledInv'
  <2>1. UNCHANGED <<payload, written, global_bytes, missed, up>>
      BY <1>5 DEF WriteAll
  <2>2. \A t \in Sessions : Counting'[t] = Counting[t]
      BY <1>5 DEF WriteAll, Moved, Counting, StoreTypes
  <2>3. Within' /\ (~up' => Idle')
      BY <1>5, <1>c DEF WriteAll, Moved, StoreTypes
  <2>4. Owners' = Owners
      BY <1>5 DEF WriteAll, Moved, Owners, StoreTypes
  <2>5. Owned' = Owned
      BY <2>1, <2>4 DEF Owned
  <2>6. \A p \in Payloads : /\ Weight(p, staged'[p]) = Weight(p, staged[p])
                            /\ Weight(p, stored'[p]) = Weight(p, stored[p])
      BY <1>5, QuarantineAssumption DEF WriteAll, Finished, Weight
  <2>7. \A p \in Payloads : Settled'[p] <= Settled[p]
      BY <2>5, <2>6, WeightBounded DEF Settled
  <2> QED
      BY <1>b, <2>1, <2>2, <2>3, <2>7
<1>6. ASSUME NEW s \in Sessions, Rename(s)
      PROVE  SettledInv'
  <2>0. UNCHANGED <<payload, global_bytes, missed, up>>
      BY <1>6 DEF Rename
  <2> DEFINE p == payload[s]
  <2>1. CASE staged[payload[s]] = "absent"
    <3>1. UNCHANGED <<staged, stored, written>> /\ pc' = [pc EXCEPT ![s] = "cleanup"]
        BY <1>6, <2>1 DEF Rename, Moved, store
    <3>2. pc[s] = "rename"
        BY <1>6 DEF Rename
    <3>3. Owners' = Owners
        BY <3>1, <3>2 DEF Owners, StoreTypes
    <3>4. Owned' = Owned
        BY <2>0, <3>3 DEF Owned
    <3>5. \A t \in Sessions : Counting'[t] = Counting[t]
        BY <3>1, <3>2 DEF Counting, StoreTypes
    <3>6. Within' /\ (~up' => Idle')
        BY <1>6, <1>c, <2>0, <3>1, <3>2 DEF StoreTypes, Rename
    <3>7. \A q \in Payloads : Settled'[q] <= Settled[q]
        BY <1>a, <3>1, <3>4 DEF Settled
    <3> QED
        BY <1>b, <2>0, <3>5, <3>6, <3>7
  <2>2. CASE staged[payload[s]] # "absent"
    <3>1. /\ stored' = [stored EXCEPT ![p] = staged[p]]
          /\ staged' = [staged EXCEPT ![p] = "absent"]
          /\ written' = [written EXCEPT ![s] = Size[p]]
          /\ pc' = [pc EXCEPT ![s] = "count"]
          /\ pc[s] = "rename" /\ up /\ p \in Payloads
        BY <1>6, <2>2 DEF Rename, Moved, StoreTypes
    <3>2. Owners' = Owners \ {s}
        BY <3>1 DEF Owners, StoreTypes
    <3>3. \A q \in Payloads \ {p} : q \in Owned' <=> q \in Owned
        BY <2>0, <3>2 DEF Owned
    <3>4. \A q \in Payloads \ {p} : Settled'[q] = Settled[q]
        BY <3>1, <3>3 DEF Settled, StoreTypes
    <3>5. Settled'[p] <= Size[p] /\ Settled'[p] \in Nat /\ Size[p] \in Nat
      <4>1. Settled'[p] = Weight(p, stored'[p])
                        + (IF p \in Owned' THEN 0 ELSE Weight(p, staged'[p]))
          BY <3>1 DEF Settled
      <4>2. Weight(p, staged'[p]) = 0
          BY <3>1 DEF Weight, StoreTypes
      <4>3. Weight(p, stored'[p]) \in Nat /\ Weight(p, stored'[p]) <= Size[p] /\ Size[p] \in Nat
          BY <3>1, WeightBounded, QuarantineAssumption
      <4> HIDE DEF p
      <4> QED
          BY <4>1, <4>2, <4>3
    <3>6. SettledBytes' - Settled'[p] = SettledBytes - Settled[p] /\ Settled[p] \in Nat
      <4>1. p \in Payloads
          BY <3>1
      <4> HIDE DEF p
      <4> QED
          BY <4>1, <3>4, <1>a, AccountsMove
    <3>7. /\ \A t \in Sessions \ {s} : Counting'[t] = Counting[t]
          /\ Counting'[s] = Size[p] /\ Counting[s] = 0
        BY <3>1 DEF Counting, StoreTypes
    <3>8. CountingBytes' - Counting'[s] = CountingBytes - Counting[s]
        BY <3>7, AccountsMove
    <3>9. Within' /\ (~up' => Idle')
        BY <1>c, <2>0, <3>1, QuarantineAssumption DEF StoreTypes
    <3>10. SettledBytes <= global_bytes + missed + CountingBytes
        BY <1>c, <3>1
    <3> HIDE DEF p
    <3>11. SettledBytes' <= SettledBytes + Size[p]
        BY <1>a, <3>5, <3>6
    <3>12. CountingBytes' = CountingBytes + Size[p]
        BY <1>a, <3>5, <3>7, <3>8
    <3>13. SettledBytes' <= global_bytes + missed + CountingBytes'
        BY <1>a, <3>5, <3>10, <3>11, <3>12
    <3> QED
        BY <2>0, <3>9, <3>13 DEF SettledInv
  <2> QED
      BY <2>1, <2>2
<1>7. ASSUME NEW s \in Sessions, DiskError(s), pc[s] # "cleanup"
      PROVE  SettledInv'
  <2>1. UNCHANGED <<payload, written, global_bytes, missed, up>> /\ up
      BY <1>7 DEF DiskError
  <2>2. /\ Owners' = Owners
        /\ \A t \in Sessions : pc'[t] = "count" <=> pc[t] = "count"
      BY <1>7 DEF DiskError, Moved, Owners, StoreTypes
  <2>3. \A t \in Sessions : Counting'[t] = Counting[t]
      BY <2>1, <2>2 DEF Counting
  <2>4. Owned' = Owned
      BY <2>1, <2>2 DEF Owned
  <2>5. \A q \in Payloads : /\ Weight(q, staged'[q]) <= Weight(q, staged[q])
                            /\ Weight(q, stored'[q]) <= Weight(q, stored[q])
      BY <1>7, QuarantineAssumption DEF DiskError, store, Abandoned, Weight
  <2>6. \A q \in Payloads : Settled'[q] <= Settled[q]
      BY <2>4, <2>5, WeightBounded DEF Settled
  <2>7. Within' /\ (~up' => Idle')
      BY <1>c, <2>1, <2>2
  <2> QED
      BY <1>b, <2>1, <2>3, <2>6, <2>7
<1>14. ASSUME NEW s \in Sessions, DiskError(s), pc[s] = "cleanup"
       PROVE  SettledInv'
  <2> DEFINE p == payload[s]
  <2>1. /\ UNCHANGED <<staged, stored, payload, written, global_bytes, up>> /\ up
        /\ pc' = [pc EXCEPT ![s] = "idle"] /\ missed' = missed + Size[p]
        /\ p \in Payloads /\ Size[p] \in Nat
      BY <1>14, QuarantineAssumption DEF DiskError, Moved, Missed, store, StoreTypes
  <2>2. /\ Owners' = Owners \ {s}
        /\ \A t \in Sessions : pc'[t] = "count" <=> pc[t] = "count"
      BY <1>14, <2>1 DEF Owners, StoreTypes
  <2>3. CountingBytes' = CountingBytes
    <3>1. \A t \in Sessions : Counting'[t] = Counting[t]
        BY <2>1, <2>2 DEF Counting
    <3> QED
        BY <3>1, AccountsMove
  <2>4. \A q \in Payloads \ {p} : q \in Owned' <=> q \in Owned
      BY <2>1, <2>2 DEF Owned
  <2>5. \A q \in Payloads \ {p} : Settled'[q] = Settled[q]
      BY <2>1, <2>4 DEF Settled
  <2>6. Within' /\ (~up' => Idle')
      BY <1>c, <2>1, <2>2
  <2>7. SettledBytes' <= SettledBytes + Size[p]
    <3>1. /\ Settled'[p] = Weight(p, stored[p]) + (IF p \in Owned' THEN 0 ELSE Weight(p, staged[p]))
          /\ Settled[p] = Weight(p, stored[p]) + (IF p \in Owned THEN 0 ELSE Weight(p, staged[p]))
        BY <2>1 DEF Settled
    <3> HIDE DEF p
    <3>2. /\ Weight(p, stored[p]) \in Nat
          /\ Weight(p, staged[p]) \in Nat /\ Weight(p, staged[p]) <= Size[p]
        BY <2>1, WeightBounded
    <3>3. /\ Settled'[p] \in Nat /\ Settled[p] \in Nat /\ Settled'[p] <= Settled[p] + Size[p]
        BY <2>1, <3>1, <3>2
    <3>4. SettledBytes' - Settled'[p] = SettledBytes - Settled[p]
        BY <2>1, <2>5, AccountsMove
    <3> QED
        BY <1>a, <2>1, <3>3, <3>4
  <2>8. SettledBytes' <= global_bytes' + missed' + CountingBytes'
    <3>1. SettledBytes <= global_bytes + missed + CountingBytes
        BY <1>c, <2>1
    <3> HIDE DEF p
    <3> QED
        BY <1>a, <2>1, <2>3, <2>7, <3>1
  <2> QED
      BY <2>1, <2>6, <2>8 DEF SettledInv
<1>8. ASSUME NEW s \in Sessions, Cleanup(s)
      PROVE  SettledInv'
  <2>1. /\ UNCHANGED <<stored, payload, written, global_bytes, missed, up>> /\ up
        /\ staged' = [staged EXCEPT ![payload[s]] = "absent"]
      BY <1>8 DEF Cleanup
  <2>2. /\ Owners' = Owners \ {s}
        /\ \A t \in Sessions : pc'[t] = "count" <=> pc[t] = "count"
      BY <1>8 DEF Cleanup, Moved, Owners, StoreTypes
  <2>3. \A t \in Sessions : Counting'[t] = Counting[t]
      BY <2>1, <2>2 DEF Counting
  <2>4. \A q \in Payloads \ {payload[s]} : q \in Owned' <=> q \in Owned
      BY <2>1, <2>2 DEF Owned
  <2>5. \A q \in Payloads \ {payload[s]} : Settled'[q] <= Settled[q]
      BY <1>a, <2>1, <2>4 DEF Settled, StoreTypes
  <2>6. Settled'[payload[s]] <= Settled[payload[s]]
    <3>1. payload[s] \in Payloads /\ Weight(payload[s], staged'[payload[s]]) = 0
        BY <2>1 DEF Weight, StoreTypes
    <3> QED
        BY <2>1, <3>1, WeightBounded DEF Settled
  <2>7. Within' /\ (~up' => Idle')
      BY <1>c, <2>1, <2>2
  <2> QED
      BY <1>b, <2>1, <2>3, <2>5, <2>6, <2>7
<1>9. ASSUME NEW s \in Sessions, Count(s)
      PROVE  SettledInv'
  <2>1. /\ UNCHANGED <<staged, stored, payload, written, missed, up>> /\ up
        /\ global_bytes' = global_bytes + written[s]
        /\ pc[s] = "count" /\ pc' = [pc EXCEPT ![s] = "idle"]
      BY <1>9 DEF Count, store, Moved
  <2>2. Owners' = Owners
      BY <2>1 DEF Owners, StoreTypes
  <2>3. Owned' = Owned
      BY <2>1, <2>2 DEF Owned
  <2>4. \A q \in Payloads : Settled'[q] <= Settled[q]
      BY <1>a, <2>1, <2>3 DEF Settled
  <2>5. SettledBytes' <= SettledBytes
      BY <2>4, AccountsMove
  <2>6. /\ \A t \in Sessions \ {s} : Counting'[t] = Counting[t]
        /\ Counting'[s] = 0 /\ Counting[s] = written[s] /\ written[s] \in Nat
      BY <2>1 DEF Counting, StoreTypes
  <2>7. CountingBytes' - Counting'[s] = CountingBytes - Counting[s]
      BY <2>6, AccountsMove
  <2>8. Within' /\ (~up' => Idle')
      BY <1>c, <2>1 DEF StoreTypes
  <2>9. SettledBytes' <= global_bytes' + missed' + CountingBytes'
      BY <1>a, <1>c, <2>1, <2>5, <2>6, <2>7
  <2> QED
      BY <2>1, <2>8, <2>9 DEF SettledInv
<1>10. CASE (\E s \in Sessions : NewSession(s)) \/ ResetBegins
  <2>1. UNCHANGED <<staged, stored, pc, payload, written, global_bytes, missed, up>>
      BY <1>10 DEF NewSession, ResetBegins, store
  <2> QED
      BY <1>c, <2>1 DEF SettledInv, SettledBytes, Settled, CountingBytes, Counting, Owned, Owners
<1>11. CASE Crash \/ ResetRestarts
    BY <1>11 DEF Crash, ResetRestarts, Stopped, SettledInv
<1>12. CASE Boots
  <2>1. /\ UNCHANGED <<staged, stored, pc, payload, written>>
        /\ ~up /\ up'
      BY <1>12 DEF Boots, Boot, store
  <2>2. Idle /\ Owned' = {}
      BY <1>c, <2>1 DEF Owned, Owners
  <2>3. /\ \A q \in Payloads : Weights(stored)[q] \in Nat /\ Weights(staged)[q] \in Nat
        /\ \A q \in Payloads : Settled'[q] = Weights(stored)[q] + Weights(staged)[q]
      BY <2>1, <2>2, WeightBounded DEF Settled, Weights
  <2>4. SettledBytes' = Disk
    <3>1. SettledBytes' = SumFunctionOnSet(Weights(stored), Payloads)
                        + SumFunctionOnSet(Weights(staged), Payloads)
        BY <2>3, QuarantineAssumption, SumPlus DEF SettledBytes
    <3>2. Disk = SumFunctionOnSet(Weights(staged), Payloads)
               + SumFunctionOnSet(Weights(stored), Payloads)
        BY BytesAreWeights DEF Disk
    <3>3. /\ SumFunctionOnSet(Weights(staged), Payloads) \in Nat
          /\ SumFunctionOnSet(Weights(stored), Payloads) \in Nat
        BY <2>3, QuarantineAssumption, SumNat
    <3> QED
        BY <3>1, <3>2, <3>3
  <2>5. SettledBytes' <= global_bytes' + missed' + CountingBytes'
    <3>1. /\ global_bytes' \in Nat /\ missed' \in Nat /\ CountingBytes' \in Nat
          /\ global_bytes' + missed' = Disk /\ Disk \in Nat
        BY <1>12, <1>a, BootMeasures DEF ProcessTypes
    <3>2. ASSUME NEW d \in Nat, NEW c \in Nat PROVE d <= d + c
        OBVIOUS
    <3>3. Disk <= Disk + CountingBytes'
        BY <3>1, <3>2
    <3> QED
        BY <2>4, <3>1, <3>3
  <2>6. Within' /\ Idle'
      BY <1>c, <2>1, <2>2
  <2> QED
      BY <2>5, <2>6 DEF SettledInv
<1>13. ASSUME NEW name \in {"staged", "stored"}, NEW p \in Payloads, WipeFile(name, p)
       PROVE  SettledInv'
  <2>1. UNCHANGED <<pc, payload, written, global_bytes, missed, up>>
      BY <1>13 DEF WipeFile
  <2>2. /\ Owned' = Owned
        /\ \A t \in Sessions : Counting'[t] = Counting[t]
      BY <2>1 DEF Owned, Owners, Counting
  <2>3. \A q \in Payloads : /\ Weight(q, staged'[q]) <= Weight(q, staged[q])
                            /\ Weight(q, stored'[q]) <= Weight(q, stored[q])
      BY <1>13, QuarantineAssumption DEF WipeFile, Weight, StoreTypes
  <2>4. \A q \in Payloads : Settled'[q] <= Settled[q]
      BY <2>2, <2>3, WeightBounded DEF Settled
  <2>5. Within' /\ (~up' => Idle')
      BY <1>c, <2>1
  <2> QED
      BY <1>b, <2>1, <2>2, <2>4, <2>5
<1> QED
    BY <1>1, <1>2, <1>3, <1>4, <1>5, <1>6, <1>7, <1>8, <1>9, <1>10, <1>11, <1>12, <1>13,
       <1>14, QNextCases

(* Lighter files make a lighter disk. *)
LEMMA DiskShrinks ==
    ASSUME \A q \in Payloads : /\ Weight(q, staged'[q]) <= Weight(q, staged[q])
                               /\ Weight(q, stored'[q]) <= Weight(q, stored[q])
    PROVE  Disk' <= Disk /\ Disk' \in Nat /\ Disk \in Nat
<1> DEFINE a == Weights(staged)
           b == Weights(stored)
           c == Weights(staged')
           d == Weights(stored')
<1>1. \A q \in Payloads : /\ a[q] \in Nat /\ b[q] \in Nat /\ c[q] \in Nat /\ d[q] \in Nat
                          /\ c[q] <= a[q] /\ d[q] <= b[q]
    BY WeightBounded DEF Weights
<1>2. /\ Bytes(staged) = SumFunctionOnSet(a, Payloads) /\ Bytes(staged) \in Nat
      /\ Bytes(stored) = SumFunctionOnSet(b, Payloads) /\ Bytes(stored) \in Nat
      /\ Bytes(staged') = SumFunctionOnSet(c, Payloads) /\ Bytes(staged') \in Nat
      /\ Bytes(stored') = SumFunctionOnSet(d, Payloads) /\ Bytes(stored') \in Nat
    BY BytesAreWeights
<1> HIDE DEF a, b, c, d
<1>3. /\ SumFunctionOnSet(c, Payloads) <= SumFunctionOnSet(a, Payloads)
      /\ SumFunctionOnSet(d, Payloads) <= SumFunctionOnSet(b, Payloads)
    BY <1>1, QuarantineAssumption, SumLeq
<1>4. Disk = Bytes(staged) + Bytes(stored) /\ Disk' = Bytes(staged') + Bytes(stored')
    BY DEF Disk, Bytes
<1> QED
    BY <1>2, <1>3, <1>4

(* While one session is idle the others have at most one upload each in      *)
(* flight.                                                                   *)
LEMMA OthersInFlight ==
    ASSUME StoreTypes, NEW s \in Sessions, pc[s] = "idle"
    PROVE  InFlightBytes <= (Cardinality(Sessions) - 1) * LargestSize
<1> DEFINE T == Sessions \ {s}
<1>1. /\ IsFiniteSet(Sessions) /\ IsFiniteSet(T)
      /\ Cardinality(T) = Cardinality(Sessions) - 1
    BY QuarantineAssumption, FS_RemoveElement
<1>2. LargestSize \in Nat /\ \A t \in Sessions : InFlight[t] \in 0..LargestSize
    BY LargestSizeIsLargest, QuarantineAssumption DEF InFlight, StoreTypes
<1>3. InFlight[s] = 0
    BY DEF InFlight, Storing
<1>4. \A t \in Sessions : InFlight[t] \in Nat
    BY <1>2
<1>5. InFlightBytes = InFlight[s] + SumFunctionOnSet(InFlight, T)
    BY <1>1, <1>4, SumRemove DEF InFlightBytes
<1>6. SumFunctionOnSet(InFlight, T) <= Cardinality(T) * LargestSize
    BY <1>1, <1>2, SumBound
<1>7. SumFunctionOnSet(InFlight, T) \in Nat
    BY <1>1, <1>4, SumNat
<1> HIDE DEF T
<1>8. InFlightBytes = SumFunctionOnSet(InFlight, T)
    BY <1>3, <1>5, <1>7
<1> QED
    BY <1>1, <1>6, <1>8

(* The bound is a number. *)
LEMMA BoundType == ASSUME StoreTypes PROVE DiskBound \in Int /\ GlobalCap <= DiskBound
<1>1. /\ Cardinality(Sessions) \in Nat /\ Cardinality(Sessions) # 0
      /\ LargestSize \in Nat /\ GlobalCap \in Nat
    BY QuarantineAssumption, FS_CardinalityType, FS_EmptySet, LargestSizeIsLargest
<1>2. ASSUME NEW n \in Nat, NEW m \in Nat, NEW g \in Nat, n # 0
      PROVE  g + (n - 1) * m \in Int /\ g <= g + (n - 1) * m
  <2>1. (n - 1) * m \in Nat
      BY <1>2
  <2> QED
      BY <2>1
<1> QED
    BY <1>1, <1>2 DEF DiskBound

(* Every step keeps the counter and what is in flight within the bound, and  *)
(* so the disk when the process stops.                                       *)
LEMMA RoomInvStep ==
    ASSUME StoreTypes, StoreTypes', ProcessTypes, SettledInv, RoomInv, [QNext]_qVars
    PROVE  RoomInv'
<1> USE DEF ignored
<1>a. /\ missed \in Nat /\ leaked \in Nat /\ global_bytes \in Nat
      /\ InFlightBytes \in Nat /\ InFlightBytes' \in Nat
      /\ DiskBound \in Int /\ GlobalCap \in Nat
    BY AccountTypes, AccountsMove, BoundType, QuarantineAssumption DEF ProcessTypes
<1>b. /\ missed <= leaked
      /\ up => global_bytes + missed + InFlightBytes <= DiskBound + leaked
      /\ ~up => Disk <= DiskBound + leaked
    BY DEF RoomInv
<1>c. ASSUME \A t \in Sessions : InFlight'[t] <= InFlight[t],
             UNCHANGED <<global_bytes, missed, leaked>>, up, up'
      PROVE  RoomInv'
  <2>1. InFlightBytes' <= InFlightBytes
      BY <1>c, AccountsMove
  <2>2. global_bytes' + missed' + InFlightBytes' <= DiskBound + leaked'
    <3>1. global_bytes' = global_bytes /\ missed' = missed /\ leaked' = leaked
        BY <1>c
    <3>2. global_bytes + missed + InFlightBytes <= DiskBound + leaked
        BY <1>b, <1>c
    <3>3. ASSUME NEW g \in Nat, NEW m \in Nat, NEW i \in Nat, NEW j \in Nat, NEW b \in Int,
                 j <= i, g + m + i <= b
          PROVE  g + m + j <= b
        BY <3>3
    <3>4. DiskBound + leaked \in Int
        BY <1>a
    <3>5. global_bytes + missed + InFlightBytes' <= DiskBound + leaked
        BY <1>a, <2>1, <3>2, <3>3, <3>4
    <3> QED
        BY <3>1, <3>5
  <2> QED
      BY <1>b, <1>c, <2>2 DEF RoomInv
<1>1. CASE UNCHANGED qVars
    BY <1>1, <1>b DEF qVars, RoomInv, InFlightBytes, InFlight, Disk, Bytes
<1>2. ASSUME NEW s \in Sessions, NEW p \in Payloads, Begin(s, p)
      PROVE  RoomInv'
  <2>1. /\ pc[s] = "idle" /\ up' /\ UNCHANGED <<global_bytes, missed, leaked>>
        /\ global_bytes + Size[p] <= GlobalCap
        /\ payload' = [payload EXCEPT ![s] = p] /\ pc' = [pc EXCEPT ![s] = "lookup"]
      BY <1>2 DEF Begin, Moved
  <2>2. InFlightBytes <= (Cardinality(Sessions) - 1) * LargestSize
      BY <2>1, OthersInFlight
  <2>3. /\ \A t \in Sessions \ {s} : InFlight'[t] = InFlight[t]
        /\ InFlight'[s] = Size[p] /\ InFlight[s] = 0
      BY <2>1 DEF InFlight, Storing, StoreTypes
  <2>4. InFlightBytes' - InFlight'[s] = InFlightBytes - InFlight[s]
      BY <2>3, AccountsMove
  <2>5. Size[p] \in Nat
      BY QuarantineAssumption
  <2>6. InFlightBytes' = InFlightBytes + Size[p]
      BY <1>a, <2>3, <2>4, <2>5
  <2> DEFINE room == (Cardinality(Sessions) - 1) * LargestSize
  <2>7. room \in Int
    <3>1. Cardinality(Sessions) \in Nat /\ LargestSize \in Nat
        BY QuarantineAssumption, FS_CardinalityType, LargestSizeIsLargest
    <3> QED
        BY <3>1
  <2>8. InFlightBytes <= room /\ DiskBound = GlobalCap + room
      BY <2>2 DEF DiskBound
  <2> HIDE DEF room
  <2>9. global_bytes' + missed' + InFlightBytes' <= DiskBound + leaked'
      BY <1>a, <1>b, <2>1, <2>5, <2>6, <2>7, <2>8
  <2> QED
      BY <1>b, <2>1, <2>9 DEF RoomInv
<1>3. ASSUME NEW s \in Sessions,
             \/ Lookup(s) \/ CreateStaging(s) \/ WriteAll(s) \/ Rename(s)
             \/ Cleanup(s) \/ (DiskError(s) /\ pc[s] # "cleanup")
      PROVE  RoomInv'
  <2>1. UNCHANGED <<payload, global_bytes, missed, leaked, up>> /\ up
      BY <1>3 DEF Lookup, CreateStaging, WriteAll, Rename, Cleanup, DiskError
  <2>2. pc[s] \in Storing /\ \E l : pc' = [pc EXCEPT ![s] = l]
      BY <1>3 DEF Lookup, CreateStaging, WriteAll, Rename, Cleanup, DiskError, Moved, Storing
  <2>3. \A t \in Sessions : InFlight'[t] <= InFlight[t]
      BY <2>1, <2>2, QuarantineAssumption DEF InFlight, StoreTypes
  <2> QED
      BY <1>c, <2>1, <2>3
<1>9. ASSUME NEW s \in Sessions, DiskError(s), pc[s] = "cleanup"
      PROVE  RoomInv'
  <2> DEFINE size == Size[payload[s]]
  <2>1. /\ UNCHANGED <<payload, global_bytes, up>> /\ up /\ pc' = [pc EXCEPT ![s] = "idle"]
        /\ missed' = missed + size /\ leaked' = leaked + size /\ size \in Nat
      BY <1>9, QuarantineAssumption DEF DiskError, Missed, Moved, StoreTypes
  <2>2. /\ \A t \in Sessions \ {s} : InFlight'[t] = InFlight[t]
        /\ InFlight'[s] = 0 /\ InFlight[s] = size
      BY <1>9, <2>1 DEF InFlight, Storing, StoreTypes
  <2>3. InFlightBytes' - InFlight'[s] = InFlightBytes - InFlight[s]
      BY <2>2, AccountsMove
  <2> HIDE DEF size
  <2>4. InFlightBytes' = InFlightBytes - size
      BY <1>a, <2>1, <2>2, <2>3
  <2>5. /\ missed' <= leaked'
        /\ global_bytes' + missed' + InFlightBytes' <= DiskBound + leaked'
      BY <1>a, <1>b, <2>1, <2>4
  <2> QED
      BY <2>1, <2>5 DEF RoomInv
<1>4. ASSUME NEW s \in Sessions, Count(s)
      PROVE  RoomInv'
  <2>1. /\ UNCHANGED <<payload, missed, leaked>> /\ up /\ up'
        /\ global_bytes' = global_bytes + written[s]
        /\ pc[s] = "count" /\ pc' = [pc EXCEPT ![s] = "idle"]
      BY <1>4 DEF Count, Moved
  <2>2. /\ \A t \in Sessions \ {s} : InFlight'[t] = InFlight[t]
        /\ InFlight'[s] = 0 /\ InFlight[s] = Size[payload[s]]
      BY <2>1 DEF InFlight, Storing, StoreTypes
  <2>3. InFlightBytes' - InFlight'[s] = InFlightBytes - InFlight[s]
      BY <2>2, AccountsMove
  <2>4. written[s] \in Nat /\ written[s] <= Size[payload[s]] /\ Size[payload[s]] \in Nat
      BY <2>1, QuarantineAssumption DEF SettledInv, StoreTypes
  <2>5. InFlightBytes' = InFlightBytes - Size[payload[s]]
      BY <1>a, <2>2, <2>3, <2>4
  <2>6. global_bytes' + missed' + InFlightBytes' <= DiskBound + leaked'
      BY <1>a, <1>b, <2>1, <2>4, <2>5
  <2> QED
      BY <1>b, <2>1, <2>6 DEF RoomInv
<1>5. CASE (\E s \in Sessions : NewSession(s) \/ \E p \in Payloads : Refuse(s, p)) \/ ResetBegins
  <2>1. UNCHANGED <<staged, stored, pc, payload, global_bytes, missed, leaked, up>>
      BY <1>5 DEF NewSession, Refuse, qVars, ResetBegins, store
  <2> QED
      BY <1>b, <2>1 DEF RoomInv, InFlightBytes, InFlight, Disk, Bytes
<1>6. CASE Crash \/ ResetRestarts
  <2>1. up /\ ~up' /\ UNCHANGED <<missed, leaked>>
      BY <1>6 DEF Crash, ResetRestarts, Stopped
  <2>2. \A q \in Payloads : /\ Weight(q, staged'[q]) <= Weight(q, staged[q])
                            /\ Weight(q, stored'[q]) <= Weight(q, stored[q])
      BY <1>6, QuarantineAssumption DEF Crash, ResetRestarts, store, AllAbandoned, Weight
  <2>3. Disk' <= Disk /\ Disk' \in Nat /\ Disk \in Nat
      BY <2>2, DiskShrinks
  <2>4. Disk <= global_bytes + missed + InFlightBytes
      BY <1>a, <2>1, DiskIsCovered
  <2>5. Disk' <= DiskBound + leaked'
      BY <1>a, <1>b, <2>1, <2>3, <2>4
  <2> QED
      BY <1>b, <2>1, <2>5 DEF RoomInv
<1>7. CASE Boots
  <2>1. UNCHANGED <<pc, payload>> /\ ~up /\ up'
      BY <1>7 DEF Boots, Boot
  <2>2. \A t \in Sessions : InFlight'[t] \in 0..0
      BY <2>1 DEF InFlight, SettledInv, Storing
  <2>3. InFlightBytes' <= Cardinality(Sessions) * 0 /\ Cardinality(Sessions) \in Nat
      BY <2>2, QuarantineAssumption, FS_CardinalityType, SumBound DEF InFlightBytes
  <2>4. InFlightBytes' = 0
      BY <1>a, <2>3
  <2>5. /\ global_bytes' \in Nat /\ missed' \in Nat /\ global_bytes' + missed' = Disk
        /\ leaked' = leaked + missed' /\ Disk \in Nat
      BY <1>7, <1>a, BootMeasures
  <2>6. missed' <= leaked'
    <3>1. ASSUME NEW k \in Nat, NEW m \in Nat PROVE m <= k + m
        OBVIOUS
    <3>2. missed' <= leaked + missed'
        BY <1>a, <2>5, <3>1
    <3> QED
        BY <2>5, <3>2
  <2>7. global_bytes' + missed' + InFlightBytes' <= DiskBound + leaked'
    <3>1. ASSUME NEW d \in Nat, NEW b \in Int, NEW k \in Nat, NEW m \in Nat, NEW i \in {0},
                 d <= b + k
          PROVE  d + i <= b + (k + m)
        BY <3>1
    <3>2. Disk <= DiskBound + leaked
        BY <1>b, <2>1
    <3>3. Disk + InFlightBytes' <= DiskBound + (leaked + missed')
        BY <1>a, <2>4, <2>5, <3>1, <3>2
    <3> QED
        BY <2>5, <3>3
  <2> QED
      BY <2>1, <2>6, <2>7 DEF RoomInv
<1>8. ASSUME NEW name \in {"staged", "stored"}, NEW p \in Payloads, WipeFile(name, p)
      PROVE  RoomInv'
  <2>1. UNCHANGED <<pc, payload, global_bytes, missed, leaked, up>>
      BY <1>8 DEF WipeFile
  <2>2. \A q \in Payloads : /\ Weight(q, staged'[q]) <= Weight(q, staged[q])
                            /\ Weight(q, stored'[q]) <= Weight(q, stored[q])
      BY <1>8, QuarantineAssumption DEF WipeFile, Weight, StoreTypes
  <2>3. Disk' <= Disk /\ Disk' \in Nat /\ Disk \in Nat
      BY <2>2, DiskShrinks
  <2>4. InFlightBytes' = InFlightBytes
      BY <2>1 DEF InFlightBytes, InFlight
  <2>5. ~up => Disk' <= DiskBound + leaked
      BY <1>a, <1>b, <2>3
  <2> QED
      BY <1>b, <2>1, <2>4, <2>5 DEF RoomInv
<1> QED
    BY <1>1, <1>2, <1>3, <1>4, <1>5, <1>6, <1>7, <1>8, <1>9, QNextCases

(* The check of the global cap and the update are not one step, yet however  *)
(* many sessions pass the check together, the disk holds at most the cap and *)
(* one upload for every session but one, across kills, deletions, restarts   *)
(* and the errors the code reports.  Every byte that an error it ignores     *)
(* hides (a staging file left behind, an entry not measured) adds at most    *)
(* itself to that; and while the process runs its counter, the uploads in    *)
(* flight and what it missed account for every byte.                         *)
THEOREM OvershootIsBounded == QSpec => []OvershootBounded
<1> DEFINE Inv == StoreTypes /\ ProcessTypes /\ SettledInv /\ RoomInv
<1>1. QInit => Inv
  <2> SUFFICES ASSUME QInit PROVE Inv
      OBVIOUS
  <2>1. StoreTypes
      BY DEF QInit, StoreTypes, Files, Storing
  <2>2. ProcessTypes
      BY DEF QInit, ProcessTypes
  <2>3. IsFiniteSet(Sessions) /\ IsFiniteSet(Payloads) /\ Cardinality(Sessions) \in Nat
        /\ Cardinality(Payloads) \in Nat
      BY QuarantineAssumption, FS_CardinalityType
  <2>4. SettledBytes <= Cardinality(Payloads) * 0
    <3>1. \A p \in Payloads : Settled[p] \in 0..0
        BY DEF QInit, Settled, Weight
    <3> QED
        BY <2>3, <3>1, SumBound DEF SettledBytes
  <2>5. InFlightBytes <= Cardinality(Sessions) * 0
    <3>1. \A s \in Sessions : InFlight[s] \in 0..0
        BY DEF QInit, InFlight, Storing
    <3> QED
        BY <2>3, <3>1, SumBound DEF InFlightBytes
  <2>6. up /\ global_bytes = 0 /\ missed = 0 /\ leaked = 0 /\ \A s \in Sessions : pc[s] = "idle"
      BY DEF QInit
  <2>7. CountingBytes \in Nat /\ SettledBytes \in Nat /\ InFlightBytes \in Nat
      BY <2>1, AccountTypes
  <2>8. SettledInv
      BY <2>3, <2>4, <2>6, <2>7 DEF SettledInv
  <2>9. GlobalCap \in Nat /\ GlobalCap <= DiskBound /\ DiskBound \in Int
      BY <2>1, BoundType, QuarantineAssumption
  <2>10. RoomInv
      BY <2>3, <2>5, <2>6, <2>7, <2>9 DEF RoomInv
  <2> QED
      BY <2>1, <2>2, <2>8, <2>10
<1>2. Inv => OvershootBounded
  <2> SUFFICES ASSUME Inv PROVE OvershootBounded
      OBVIOUS
  <2>1. QTypeOK
      BY DEF QTypeOK, ProcessTypes
  <2>2. up => Disk <= global_bytes + missed + InFlightBytes
      BY DiskIsCovered DEF ProcessTypes
  <2>3. /\ global_bytes \in Nat /\ missed \in Nat /\ leaked \in Nat /\ InFlightBytes \in Nat /\ Disk \in Nat /\ DiskBound \in Int
        /\ Pending = InFlightBytes
      BY AccountTypes, BoundType, PendingIsInFlight DEF ProcessTypes
  <2>4. up => global_bytes + Pending + missed <= DiskBound + leaked
      BY <2>3 DEF RoomInv
  <2>5. Disk <= DiskBound + leaked
      BY <2>2, <2>3 DEF RoomInv
  <2> QED
      BY <2>1, <2>2, <2>3, <2>4, <2>5 DEF OvershootBounded, DiskBound
<1>3. Inv /\ [QNext]_qVars => Inv'
    BY StoreTypesStep, ProcessTypesStep, SettledInvStep, RoomInvStep
<1> QED
    BY <1>1, <1>2, <1>3, PTL DEF QSpec
=============================================================================
