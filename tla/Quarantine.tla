----------------------------- MODULE Quarantine -----------------------------
(***************************************************************************)
(* The quarantine store on the real disk: store_upload, store_sftp_upload  *)
(* and write_quarantine of network/ssh.rs, run by sessions in parallel on  *)
(* one directory, with the I/O errors they handle, crashes of the process  *)
(* between any two of their steps, and deploy/daily-reset.sh, which        *)
(* deletes files under a running process and then restarts it.             *)
(*                                                                         *)
(* A payload p is one content; its file is named by its hash, and its      *)
(* staging file by the hash with `.partial`.  A file is a model value:     *)
(* "whole", "torn" (cut short for good), or the session still writing it   *)
(* through its open descriptor, wherever the name has moved meanwhile.     *)
(***************************************************************************)
EXTENDS Integers, FiniteSets, FiniteSetsExt

CONSTANTS
    Sessions,       \* connections that may store an upload at the same time
    Payloads,       \* distinct contents
    Size,           \* bytes of each payload
    Torn,           \* bytes of it that reach the disk when a write is cut short
    SessionCap,     \* max_upload_bytes * QUARANTINE_SESSION_MULTIPLIER
    GlobalCap,      \* quarantine_max_total_bytes, or its default
    MaxFailures,    \* bound: disk errors in a behaviour
    MaxCrashes,     \* bound: kills of the process in a behaviour
    MaxResets       \* bound: daily resets in a behaviour

ASSUME QuarantineAssumption ==
    /\ IsFiniteSet(Sessions) /\ Sessions # {} /\ IsFiniteSet(Payloads)
    /\ Size \in [Payloads -> Nat \ {0}]
    /\ Torn \in [Payloads -> Nat] /\ \A p \in Payloads : Torn[p] < Size[p]
    /\ SessionCap \in Nat /\ GlobalCap \in Nat
    /\ MaxFailures \in Nat /\ MaxCrashes \in Nat /\ MaxResets \in Nat
    /\ Sessions \cap {"absent", "whole", "torn"} = {}

VARIABLES
    staged,         \* <hash>.partial of each payload
    stored,         \* <hash> of each payload
    up,             \* the process runs
    pc,             \* where a session is in store_upload
    payload,        \* what it is storing
    written,        \* newly_written, once write_quarantine returned
    session_bytes,  \* MimicHandler.quarantine_bytes
    global_bytes,   \* global_quarantine_bytes, shared by all sessions
    reset,          \* progress of daily-reset.sh
    doomed,         \* names its rm got from the shell's expansion of `*`
    reported,       \* history: payloads some upload event gave a stored_path
    wrote,          \* history: bytes this session has added to the disk
    missed,         \* history: bytes on the disk that an error this process ignored hides from it
    leaked,         \* history: all the bytes ever missed
    failures, crashes, resets   \* bounded counts of what the environment did

store   == <<staged, stored>>
events  == <<reported, wrote>>
ignored == <<missed, leaked>>
counts  == <<failures, crashes, resets>>
qVars   == <<staged, stored, up, pc, payload, written, session_bytes, global_bytes,
             reset, doomed, reported, wrote, missed, leaked, failures, crashes, resets>>

Files   == {"absent", "whole", "torn"} \cup Sessions

(* Between the check of the caps and the update of the counters. *)
Storing == {"lookup", "create", "write", "rename", "cleanup", "count"}

Moved(s, label) == pc' = [pc EXCEPT ![s] = label]

(* A file being written counts in full: it may be by the time one looks. *)
Bytes(files) == SumFunctionOnSet(Size, {p \in Payloads : files[p] \notin {"absent", "torn"}})
              + SumFunctionOnSet(Torn, {p \in Payloads : files[p] = "torn"})
Disk         == Bytes(staged) + Bytes(stored)

QInit ==
    /\ staged = [p \in Payloads |-> "absent"] /\ stored = [p \in Payloads |-> "absent"]
    /\ up = TRUE
    /\ pc = [s \in Sessions |-> "idle"]
    /\ payload \in [Sessions -> Payloads]
    /\ written = [s \in Sessions |-> 0]
    /\ session_bytes = [s \in Sessions |-> 0] /\ global_bytes = 0
    /\ reset = "none" /\ doomed = {}
    /\ reported = {} /\ wrote = [s \in Sessions |-> 0]
    /\ missed = 0 /\ leaked = 0
    /\ failures = 0 /\ crashes = 0 /\ resets = 0

-----------------------------------------------------------------------------
(* One upload. *)

(* The shared counter is read once, then both caps are checked against that  *)
(* reading.                                                                  *)
Begin(s, p) ==
    /\ up /\ pc[s] = "idle"
    /\ session_bytes[s] + Size[p] <= SessionCap
    /\ global_bytes + Size[p] <= GlobalCap
    /\ payload' = [payload EXCEPT ![s] = p]
    /\ Moved(s, "lookup")
    /\ UNCHANGED <<store, up, written, session_bytes, global_bytes, reset, doomed, events, ignored, counts>>

(* Over a cap only the log changes: an upload event with no stored_path. *)
Refuse(s, p) ==
    /\ up /\ pc[s] = "idle"
    /\ \/ session_bytes[s] + Size[p] > SessionCap
       \/ global_bytes + Size[p] > GlobalCap
    /\ UNCHANGED qVars

(* path.exists(): a stored payload is not written again. *)
Lookup(s) ==
    /\ up /\ pc[s] = "lookup"
    /\ IF stored[payload[s]] # "absent"
       THEN Moved(s, "count") /\ written' = [written EXCEPT ![s] = 0]
       ELSE Moved(s, "create") /\ UNCHANGED written
    /\ UNCHANGED <<store, up, payload, session_bytes, global_bytes, reset, doomed, events, ignored, counts>>

(* create_restricted: the staging file is created or somebody has it. *)
CreateStaging_NotExclusive(s) ==
    /\ up /\ pc[s] = "create"
    /\ staged' = [staged EXCEPT ![payload[s]] = s]
    /\ Moved(s, "write")
    /\ UNCHANGED <<stored, up, payload, written, session_bytes, global_bytes, reset, doomed, events, ignored, counts>>

CreateStaging(s) ==
    /\ up /\ pc[s] = "create"
    /\ IF staged[payload[s]] = "absent"
       THEN /\ staged' = [staged EXCEPT ![payload[s]] = s]
            /\ Moved(s, "write")
            /\ UNCHANGED written
       ELSE /\ written' = [written EXCEPT ![s] = 0]
            /\ Moved(s, "count")
            /\ UNCHANGED staged
    /\ UNCHANGED <<stored, up, payload, session_bytes, global_bytes, reset, doomed, events, ignored, counts>>

(* write_all and sync_all reach the file behind the descriptor, whatever     *)
(* name it has by now; nothing happens to a file that was deleted.           *)
Finished(s, files) == [p \in Payloads |-> IF files[p] = s THEN "whole" ELSE files[p]]

WriteAll(s) ==
    /\ up /\ pc[s] = "write"
    /\ staged' = Finished(s, staged) /\ stored' = Finished(s, stored)
    /\ Moved(s, "rename")
    /\ UNCHANGED <<up, payload, written, session_bytes, global_bytes, reset, doomed, events, ignored, counts>>

(* rename(staging, path) moves whatever has the staging name now. *)
Rename_Forgotten(s) ==
    /\ up /\ pc[s] = "rename"
    /\ written' = [written EXCEPT ![s] = Size[payload[s]]]
    /\ wrote' = [wrote EXCEPT ![s] = @ + Size[payload[s]]]
    /\ Moved(s, "count")
    /\ UNCHANGED <<store, up, payload, session_bytes, global_bytes, reset, doomed, reported, ignored, counts>>

Rename(s) ==
    /\ up /\ pc[s] = "rename"
    /\ IF staged[payload[s]] # "absent"
       THEN /\ stored' = [stored EXCEPT ![payload[s]] = staged[payload[s]]]
            /\ staged' = [staged EXCEPT ![payload[s]] = "absent"]
            /\ written' = [written EXCEPT ![s] = Size[payload[s]]]
            /\ wrote' = [wrote EXCEPT ![s] = @ + Size[payload[s]]]
            /\ Moved(s, "count")
       ELSE Moved(s, "cleanup") /\ UNCHANGED <<store, written, wrote>>
    /\ UNCHANGED <<up, payload, session_bytes, global_bytes, reset, doomed, reported, ignored, counts>>

(* The disk refuses: the write (leaving a torn file), the rename, the        *)
(* creation of the directory or the staging file (nothing to clean up), the  *)
(* look at the path, which then counts as absent, or the removal of the      *)
(* staging file, whose error is dropped: the file stays and nobody counts it.*)
Abandoned(s, files) == [p \in Payloads |-> IF files[p] = s THEN "torn" ELSE files[p]]

Missed(n) == missed' = missed + n /\ leaked' = leaked + n

DiskError(s) ==
    /\ up /\ failures < MaxFailures
    /\ failures' = failures + 1
    /\ \/ /\ pc[s] \in {"lookup", "create"}
          /\ Moved(s, "idle")
          /\ UNCHANGED <<store, ignored>>
       \/ /\ pc[s] = "lookup"
          /\ Moved(s, "create")
          /\ UNCHANGED <<store, ignored>>
       \/ /\ pc[s] = "write"
          /\ staged' = Abandoned(s, staged) /\ stored' = Abandoned(s, stored)
          /\ Moved(s, "cleanup")
          /\ UNCHANGED ignored
       \/ /\ pc[s] = "rename"
          /\ Moved(s, "cleanup")
          /\ UNCHANGED <<store, ignored>>
       \/ /\ pc[s] = "cleanup"
          /\ Moved(s, "idle")
          /\ Missed(Size[payload[s]])
          /\ UNCHANGED store
    /\ UNCHANGED <<up, payload, written, session_bytes, global_bytes, reset, doomed, events,
                   crashes, resets>>

(* remove_file(staging), by name; the upload is logged with no stored_path. *)
Cleanup(s) ==
    /\ up /\ pc[s] = "cleanup"
    /\ staged' = [staged EXCEPT ![payload[s]] = "absent"]
    /\ Moved(s, "idle")
    /\ UNCHANGED <<stored, up, payload, written, session_bytes, global_bytes, reset, doomed,
                   events, ignored, counts>>

(* write_quarantine returned Ok: both counters move by newly_written and the *)
(* upload event carries the path.                                            *)
Count_SessionForgotten(s) ==
    /\ up /\ pc[s] = "count"
    /\ global_bytes' = global_bytes + written[s]
    /\ reported' = reported \cup {payload[s]}
    /\ Moved(s, "idle")
    /\ UNCHANGED <<store, up, payload, written, session_bytes, reset, doomed, wrote, ignored, counts>>

Count(s) ==
    /\ up /\ pc[s] = "count"
    /\ session_bytes' = [session_bytes EXCEPT ![s] = @ + written[s]]
    /\ global_bytes' = global_bytes + written[s]
    /\ reported' = reported \cup {payload[s]}
    /\ Moved(s, "idle")
    /\ UNCHANGED <<store, up, payload, written, reset, doomed, wrote, ignored, counts>>

(* The connection ends; its successor is a new handler. *)
NewSession(s) ==
    /\ up /\ pc[s] = "idle" /\ wrote[s] + session_bytes[s] > 0
    /\ session_bytes' = [session_bytes EXCEPT ![s] = 0]
    /\ wrote' = [wrote EXCEPT ![s] = 0]
    /\ UNCHANGED <<store, up, pc, payload, written, global_bytes, reset, doomed, reported, ignored, counts>>

-----------------------------------------------------------------------------
(* The process and the deployment. *)

Stopped ==
    /\ up' = FALSE
    /\ pc' = [s \in Sessions |-> "idle"]
    /\ written' = [s \in Sessions |-> 0]
    /\ session_bytes' = [s \in Sessions |-> 0]
    /\ wrote' = [s \in Sessions |-> 0]

(* The process is killed wherever its sessions are. *)
AllAbandoned(files) == [p \in Payloads |-> IF files[p] \in Sessions THEN "torn" ELSE files[p]]

Crash ==
    /\ up /\ crashes < MaxCrashes
    /\ Stopped
    /\ crashes' = crashes + 1
    /\ staged' = AllAbandoned(staged) /\ stored' = AllAbandoned(stored)
    /\ UNCHANGED <<payload, global_bytes, reset, doomed, reported, ignored, failures, resets>>

(* serve: measure_dir_size seeds the shared counter with what the directory  *)
(* holds; a torn file counts with the bytes that reached it, an entry that   *)
(* cannot be read (or every one, when the directory cannot be) with nothing. *)
Seen(files, S) == [p \in Payloads |-> IF p \in S THEN "absent" ELSE files[p]]

Boot_FromZero(S, T) ==
    /\ ~up /\ up' = TRUE
    /\ global_bytes' = 0
    /\ missed' = 0 /\ UNCHANGED <<leaked, failures>>
    /\ reset' = IF reset = "restart" THEN "none" ELSE reset
    /\ UNCHANGED <<store, pc, payload, written, session_bytes, doomed, events, crashes, resets>>

Boot(S, T) ==
    /\ ~up /\ up' = TRUE
    /\ (\A p \in S : staged[p] # "absent") /\ (\A p \in T : stored[p] # "absent")
    /\ IF S \cup T = {} THEN UNCHANGED failures
       ELSE failures < MaxFailures /\ failures' = failures + 1
    /\ LET measured == Bytes(Seen(staged, S)) + Bytes(Seen(stored, T))
       IN  /\ global_bytes' = measured
           /\ missed' = Disk - measured
           /\ leaked' = leaked + (Disk - measured)
    /\ reset' = IF reset = "restart" THEN "none" ELSE reset
    /\ UNCHANGED <<store, pc, payload, written, session_bytes, doomed, events, crashes, resets>>

(* daily-reset.sh: the shell expands quarantine/* once ... *)
ResetBegins ==
    /\ up /\ reset = "none" /\ resets < MaxResets
    /\ resets' = resets + 1
    /\ reset' = "wiping"
    /\ doomed' = {<<"staged", p>> : p \in {q \in Payloads : staged[q] # "absent"}}
            \cup {<<"stored", p>> : p \in {q \in Payloads : stored[q] # "absent"}}
    /\ UNCHANGED <<store, up, pc, payload, written, session_bytes, global_bytes, events, ignored,
                   failures, crashes>>

(* ... rm removes those names one by one ... *)
WipeFile(name, p) ==
    /\ reset = "wiping" /\ <<name, p>> \in doomed
    /\ doomed' = doomed \ {<<name, p>>}
    /\ staged' = IF name = "staged" THEN [staged EXCEPT ![p] = "absent"] ELSE staged
    /\ stored' = IF name = "stored" THEN [stored EXCEPT ![p] = "absent"] ELSE stored
    /\ reported' = reported \ {p}
    /\ UNCHANGED <<up, pc, payload, written, session_bytes, global_bytes, reset, wrote, ignored, counts>>

(* ... and then restarts the process.  On SIGTERM the runtime lets a session *)
(* finish the store_upload it is in, which never awaits.                     *)
ResetRestarts ==
    /\ up /\ reset = "wiping" /\ doomed = {}
    /\ \A s \in Sessions : pc[s] = "idle"
    /\ reset' = "restart"
    /\ Stopped
    /\ UNCHANGED <<store, payload, global_bytes, doomed, reported, ignored, counts>>

Upload(s) == (\E p \in Payloads : Begin(s, p) \/ Refuse(s, p)) \/ Lookup(s) \/ CreateStaging(s)
             \/ WriteAll(s) \/ Rename(s) \/ Cleanup(s) \/ Count(s)

QNext ==
    \/ \E s \in Sessions : Upload(s) \/ DiskError(s) \/ NewSession(s)
    \/ Crash \/ ResetBegins \/ ResetRestarts
    \/ \E S, T \in SUBSET Payloads : Boot(S, T)
    \/ \E name \in {"staged", "stored"}, p \in Payloads : WipeFile(name, p)

QSpec == QInit /\ [][QNext]_qVars

-----------------------------------------------------------------------------
(* The store, the counters and the sessions have the types of the code. *)
StoreTypes ==
    /\ staged \in [Payloads -> Files] /\ stored \in [Payloads -> Files]
    /\ pc \in [Sessions -> Storing \cup {"idle"}]
    /\ payload \in [Sessions -> Payloads]
    /\ written \in [Sessions -> Nat] /\ wrote \in [Sessions -> Nat]
    /\ session_bytes \in [Sessions -> Nat]
    /\ resets \in Nat

QTypeOK ==
    /\ StoreTypes
    /\ up \in BOOLEAN /\ global_bytes \in Nat
    /\ reset \in {"none", "wiping", "restart"}
    /\ doomed \in SUBSET ({"staged", "stored"} \X Payloads)
    /\ reported \in SUBSET Payloads
    /\ missed \in Nat /\ leaked \in Nat
    /\ failures \in Nat /\ crashes \in Nat

(* "The filename is the SHA-256 of the contents": under its hash a payload   *)
(* is whole or absent, whatever writes failed and whenever the process was   *)
(* killed, until daily-reset.sh deletes files under the process.  (From then *)
(* on a rename may move another session's unfinished staging file.)          *)
ContentAddressed == resets = 0 => \A p \in Payloads : stored[p] \in {"absent", "whole"}

(* The bytes one session adds to the disk stay within its cap, however often *)
(* its uploads race other sessions for the same file.                        *)
SessionDiskBounded == \A s \in Sessions : wrote[s] <= SessionCap

(* What a session that passed the checks may still add. *)
Pending == SumFunctionOnSet([s \in Sessions |-> Size[payload[s]]],
                            {s \in Sessions : pc[s] \in Storing})
LargestSize == Max({Size[p] : p \in Payloads})

(* The check of the global cap is not atomic with the update, so sessions    *)
(* that passed it together may overshoot; but the counter and what is still  *)
(* in flight cover the files on disk, and the overshoot is at most one       *)
(* upload for every other session, across restarts too.  The code drops some *)
(* errors (a staging file that cannot be removed, an entry the start cannot  *)
(* measure): every byte they hide may be spent once more and no further, and *)
(* a start that measures everything counts what earlier ones missed.         *)
OvershootBounded ==
    LET bound == GlobalCap + (Cardinality(Sessions) - 1) * LargestSize
    IN  /\ QTypeOK
        /\ up => Disk <= global_bytes + Pending + missed
        /\ up => global_bytes + Pending + missed <= bound + leaked
        /\ Disk <= bound + leaked

(* When no session is storing, a payload that an upload event gave a         *)
(* stored_path is whole under that path (files the operator deleted aside).  *)
ReportedIsOnDisk ==
    up /\ (\A s \in Sessions : pc[s] = "idle") => \A p \in reported : stored[p] = "whole"

(* Two sessions racing for one payload never report a file that is not       *)
(* there: with no disk error, kill or deletion ReportedIsOnDisk holds.       *)
CalmStoreIsHonest == failures + crashes + resets = 0 => ReportedIsOnDisk
=============================================================================
