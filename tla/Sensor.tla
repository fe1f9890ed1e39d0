------------------------------- MODULE Sensor -------------------------------
(***************************************************************************)
(* The life of the process around the listener: main.rs starts the log     *)
(* files and their retention (logging/mod.rs), load_or_create of           *)
(* network/hostkey.rs reads or makes the host keys, and the supervisor     *)
(* (Restart=always) starts it again when it ends.  The process can be      *)
(* killed between any two steps, reading, creating or writing a key file   *)
(* can fail, and so can the deletion of a log file.                        *)
(*                                                                         *)
(* A key is a number, drawn fresh.  A file that exists without a whole key *)
(* in it is Torn: it was created and never, or not fully, written.  What   *)
(* clients can tell apart (the fingerprints, and the persona seeded from   *)
(* them) is the function of the loaded keys.  Time is in ticks; log files  *)
(* are named by their day, and a file is its modification time.            *)
(***************************************************************************)
EXTENDS Integers, FiniteSets, FiniteSetsExt

CONSTANTS
    Absent, Torn,   \* key files that hold no key
    TicksPerDay,
    SweepInterval,  \* RETENTION_SWEEP_INTERVAL
    RetentionDays,  \* logging.retention_days
    MaxNow,         \* bound: the clock
    MaxTroubles     \* bound: kills and disk errors in a behaviour

ASSUME SensorAssumption ==
    /\ TicksPerDay \in Nat \ {0} /\ SweepInterval \in 1..TicksPerDay
    /\ RetentionDays \in Nat \ {0}      \* Config::validate
    /\ MaxNow \in Nat /\ MaxTroubles \in Nat
    /\ Absent \notin Nat /\ Torn \notin Nat /\ Absent # Torn

Algorithms == {"ed25519", "rsa"}        \* in the order load_or_create takes them
Days == 0..(MaxNow \div TicksPerDay)

VARIABLES
    file,       \* what each key file holds
    made,       \* keys drawn so far
    at,         \* where the process is: <<"down">>, <<"serving">>, or <<step, algorithm>>
    loaded,     \* the keys in memory
    served,     \* history: identities that clients were shown
    now,
    logs,       \* modification time of each day's log file
    active,     \* the day of the file the appender has open
    sweep_due,  \* the next tick of the reaper's interval
    spared,     \* history: the days whose expired file the last sweep failed to delete
    lost,       \* history: an event went to a deleted file
    hurt,       \* history: this start met a disk error at its key files
    troubles    \* kills and disk errors so far

keyVars    == <<file, made, loaded>>
logVars    == <<logs, active, sweep_due, spared, lost>>
sensorVars == <<file, made, at, loaded, served, now, logs, active, sweep_due, spared, lost, hurt,
                troubles>>

NoKeys == [a \in Algorithms |-> Absent]
Today  == now \div TicksPerDay

SensorInit ==
    /\ file = NoKeys /\ made = 0 /\ at = <<"down">> /\ loaded = NoKeys /\ served = {}
    /\ now = 0 /\ logs = [d \in Days |-> Absent] /\ active = 0 /\ sweep_due = 0
    /\ spared = {} /\ lost = FALSE /\ hurt = FALSE /\ troubles = 0

-----------------------------------------------------------------------------
(* prune_expired, prune_before: what was last modified before the cutoff     *)
(* goes, but for the files of the days in `kept`, whose metadata or deletion  *)
(* failed (all of them, when read_dir did): no failure is reported.           *)
Expired_Ticks(files) == {d \in Days : files[d] # Absent /\ files[d] < now - RetentionDays}

Expired(files) == {d \in Days : files[d] # Absent /\ files[d] < now - RetentionDays * TicksPerDay}

Pruned(files, kept) == [d \in Days |-> IF d \in Expired(files) \ kept THEN Absent ELSE files[d]]

(* A sweep that fails on some files is one of the troubles. *)
Swept(kept) ==
    /\ spared' = kept
    /\ IF kept = {} THEN troubles' = troubles ELSE troubles < MaxTroubles /\ troubles' = troubles + 1

(* max_log_files of the appender, when it makes a new file: room is made for *)
(* one by deleting the oldest days.                                          *)
Newest(files, n) ==
    [d \in Days |-> IF files[d] # Absent /\ Cardinality({e \in Days : e > d /\ files[e] # Absent}) < n
                    THEN files[d] ELSE Absent]

(* The appender opens the file of the day, making it if need be. *)
Opened(files) == [files EXCEPT ![Today] = IF @ = Absent THEN now ELSE @]

(* logging::init: one sweep, then the appender; whether it also counts its   *)
(* files at the start is its own affair.  The reaper's first tick is skipped. *)
Boot ==
    /\ at = <<"down">>
    /\ \E kept \in SUBSET Expired(logs) :
         /\ Swept(kept)
         /\ \E left \in {Pruned(logs, kept), Newest(Pruned(logs, kept), RetentionDays)} :
              logs' = Opened(left)
    /\ active' = Today /\ sweep_due' = now + SweepInterval
    /\ at' = <<"load", "ed25519">> /\ loaded' = NoKeys /\ hurt' = FALSE
    /\ UNCHANGED <<file, made, served, now, lost>>

(* An event: the appender rotates first when the day has changed. *)
LogEvent ==
    /\ at = <<"serving">>
    /\ logs' = IF active # Today
               THEN [Newest(logs, RetentionDays - 1) EXCEPT ![Today] = now]
               ELSE IF logs[active] = Absent THEN logs ELSE [logs EXCEPT ![active] = now]
    /\ lost' = (lost \/ (active = Today /\ logs[active] = Absent))
    /\ active' = Today
    /\ UNCHANGED <<keyVars, at, served, now, sweep_due, spared, hurt, troubles>>

(* One turn of spawn_retention_reaper's loop. *)
Sweep ==
    /\ at = <<"serving">> /\ now = sweep_due
    /\ \E kept \in SUBSET Expired(logs) : Swept(kept) /\ logs' = Pruned(logs, kept)
    /\ sweep_due' = now + SweepInterval
    /\ UNCHANGED <<keyVars, at, served, now, active, lost, hurt>>

(* Timers run promptly: a due sweep comes before more time passes.  Starting *)
(* takes no time worth counting.                                             *)
Tick ==
    /\ now < MaxNow
    /\ at = <<"down">> \/ (at = <<"serving">> /\ now # sweep_due)
    /\ now' = now + 1
    /\ UNCHANGED <<keyVars, at, served, logVars, hurt, troubles>>

-----------------------------------------------------------------------------
(* load_or_create.  A key that cannot be had ends the start when it is the   *)
(* Ed25519 one and is skipped when it is the RSA one.                        *)
Serve(keys) ==
    /\ at' = <<"serving">> /\ loaded' = keys /\ served' = served \cup {keys}

Got(a, key) ==
    IF a = "ed25519"
    THEN at' = <<"load", "rsa">> /\ loaded' = [loaded EXCEPT ![a] = key] /\ served' = served
    ELSE Serve([loaded EXCEPT ![a] = key])

Missed_Fatal(a) ==
    at' = <<"down">> /\ loaded' = NoKeys /\ served' = served

Missed(a) ==
    IF a = "ed25519"
    THEN at' = <<"down">> /\ loaded' = NoKeys /\ served' = served
    ELSE Serve(loaded)

(* ensure_key up to the generation: an existing file is read or is an error. *)
Draw(a) == at' = <<"create", a>> /\ made' = made + 1 /\ UNCHANGED <<loaded, served>>

LoadKey(a) ==
    /\ at = <<"load", a>>
    /\ \/ file[a] \in Nat /\ Got(a, file[a]) /\ made' = made
       \/ file[a] = Torn /\ Missed(a) /\ made' = made
       \/ file[a] = Absent /\ Draw(a)
    /\ UNCHANGED <<file, now, logVars, hurt, troubles>>

(* write_key_file: create_new, which fails on a file that is there after     *)
(* all, then write_all.                                                      *)
CreateKeyFile_Truncates(a) ==
    /\ at = <<"create", a>>
    /\ file' = [file EXCEPT ![a] = Torn] /\ at' = <<"write", a>> /\ UNCHANGED <<loaded, served>>
    /\ UNCHANGED <<made, now, logVars, hurt, troubles>>

CreateKeyFile(a) ==
    /\ at = <<"create", a>>
    /\ \/ /\ file[a] = Absent
          /\ file' = [file EXCEPT ![a] = Torn] /\ at' = <<"write", a>> /\ UNCHANGED <<loaded, served>>
       \/ file[a] # Absent /\ Missed(a) /\ file' = file
    /\ UNCHANGED <<made, now, logVars, hurt, troubles>>

WriteKeyFile(a) ==
    /\ at = <<"write", a>>
    /\ file' = [file EXCEPT ![a] = made] /\ Got(a, made)
    /\ UNCHANGED <<made, now, logVars, hurt, troubles>>

(* An error of a system call of ensure_key.  Path::exists() answers no when   *)
(* it cannot tell, and a key is drawn for a file that may be there; reading,  *)
(* creating or writing fails and the key cannot be had.                       *)
DiskError(a) ==
    /\ troubles < MaxTroubles /\ troubles' = troubles + 1 /\ hurt' = TRUE
    /\ \/ at = <<"load", a>> /\ file[a] # Absent /\ (Draw(a) \/ (Missed(a) /\ made' = made))
       \/ at \in {<<"create", a>>, <<"write", a>>} /\ Missed(a) /\ made' = made
    /\ UNCHANGED <<file, now, logVars>>

(* A kill, a reboot or a reset, wherever the process is, or an error that    *)
(* ends the start (the directory of the keys or of the logs).                *)
Killed ==
    /\ at # <<"down">>
    /\ troubles < MaxTroubles /\ troubles' = troubles + 1
    /\ at' = <<"down">> /\ loaded' = NoKeys
    /\ UNCHANGED <<file, made, served, now, logVars, hurt>>

KeyStep(a) == LoadKey(a) \/ CreateKeyFile(a) \/ WriteKeyFile(a)

SensorNext ==
    \/ Boot \/ LogEvent \/ Sweep \/ Tick \/ Killed
    \/ \E a \in Algorithms : KeyStep(a) \/ DiskError(a)

(* The supervisor restarts what ended, and a process that runs gets on. *)
SensorFairness == WF_sensorVars(Boot) /\ WF_sensorVars(\E a \in Algorithms : KeyStep(a))

SensorSpec == SensorInit /\ [][SensorNext]_sensorVars /\ SensorFairness

-----------------------------------------------------------------------------
KeyFiles == Nat \cup {Absent, Torn}

(* The two key files, the loaded keys and the clocks have their types. *)
SensorTypeOK ==
    /\ file \in [Algorithms -> KeyFiles] /\ made \in Nat
    /\ loaded \in [Algorithms -> Nat \cup {Absent}]
    /\ at \in {<<"down">>, <<"serving">>} \cup ({"load", "create", "write"} \X Algorithms)
    /\ now \in 0..MaxNow /\ active \in Days /\ logs \in [Days -> (0..MaxNow) \cup {Absent}]
    /\ spared \subseteq Days /\ hurt \in BOOLEAN /\ troubles \in 0..MaxTroubles

(* "Subsequent starts load the same keys, so the server fingerprint never    *)
(* changes": of each algorithm clients see at most one key, ever, whatever   *)
(* kills and errors there are while the files are looked for, read and made. *)
FingerprintStable ==
    \A x, y \in served, a \in Algorithms :
        x[a] \in Nat /\ y[a] \in Nat => x[a] = y[a]

(* The identity clients see (the keys, and the persona their hash seeds) has *)
(* at most two values, with and without the RSA key.  Once clients saw both  *)
(* keys, only a start that met an error at its key files shows the other.    *)
IdentitySettles ==
    /\ \A x, y, z \in served : x = y \/ y = z \/ x = z
    /\ at = <<"serving">> /\ ~hurt => \A x \in served : x["rsa"] \in Nat => loaded = x

(* The sensor keeps its keys across every restart, kill and disk error, and  *)
(* its whole identity across the starts that read its files.                 *)
IdentityHolds == FingerprintStable /\ IdentitySettles

(* A start ends in service or in the supervisor's hands again: once the      *)
(* kills and errors stop the sensor serves for good, unless a kill or an     *)
(* error between create_new and write_all left an Ed25519 file without a     *)
(* key, which no later start repairs.                                        *)
ServesUnlessTorn == <>[](at = <<"serving">>) \/ <>[](file["ed25519"] = Torn)

(* Retention means days, across downtime and restarts: while the process     *)
(* runs no log file is older than the window and one sweep interval, but for *)
(* those that the last sweep itself failed to delete.                        *)
RetentionHolds ==
    at # <<"down">> =>
        \A d \in Days \ spared :
            logs[d] # Absent => now - logs[d] <= RetentionDays * TicksPerDay + SweepInterval

(* The sweep deletes files while the appender has one open: it never deletes *)
(* the one that today's events still go to.                                  *)
NoEventLost == ~lost

(* Two mechanisms delete, one by age and one by count: neither takes a file  *)
(* written to in the last RetentionDays - 1 days.  (Rotation takes files     *)
(* that are still in the window of RetentionDays.)                           *)
KeepsRecentDays ==
    [][\A d \in Days : logs[d] # Absent /\ logs'[d] = Absent =>
         now - logs[d] > (RetentionDays - 1) * TicksPerDay]_sensorVars

(* The log keeps what it should and no more: no event goes to a deleted      *)
(* file, no recent day is deleted, and no file outlives its window unless    *)
(* deleting it failed.                                                       *)
LogsAreKept == [](SensorTypeOK /\ RetentionHolds /\ NoEventLost) /\ KeepsRecentDays
=============================================================================
