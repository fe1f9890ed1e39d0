---------------------------- MODULE SensorProofs ----------------------------
(***************************************************************************)
(* Proofs about Sensor and Login: the log files and their retention, the   *)
(* identity across kills and disk errors, and the login.                   *)
(***************************************************************************)
EXTENDS Sensor, Login, FiniteSetTheorems, TLAPS

USE SensorAssumption

-----------------------------------------------------------------------------
(* Days. *)

(* Today is a day of the clock's range, and now lies within it. *)
LEMMA TodayIsADay ==
    ASSUME NEW t \in 0..MaxNow
    PROVE  /\ t \div TicksPerDay \in Days
           /\ (t \div TicksPerDay) * TicksPerDay <= t
           /\ t < (t \div TicksPerDay) * TicksPerDay + TicksPerDay
<1> DEFINE q == t \div TicksPerDay
           m == MaxNow \div TicksPerDay
<1>1. /\ q \in Int /\ t = TicksPerDay * q + (t % TicksPerDay)
      /\ t % TicksPerDay \in 0..(TicksPerDay - 1)
    OBVIOUS
<1>2. /\ m \in Int /\ MaxNow = TicksPerDay * m + (MaxNow % TicksPerDay)
      /\ MaxNow % TicksPerDay \in 0..(TicksPerDay - 1)
    OBVIOUS
<1>3. q >= 0
    OBVIOUS
<1>4. q <= m
    OBVIOUS
<1> QED
    BY <1>1, <1>2, <1>3, <1>4 DEF Days

(* The days go forward. *)
LEMMA TodayAdvances ==
    ASSUME NEW t \in 0..MaxNow
    PROVE  t \div TicksPerDay <= (t + 1) \div TicksPerDay
OBVIOUS

(* A window of whole days is at least one day. *)
LEMMA WindowIsADay == RetentionDays * TicksPerDay \in Nat /\ TicksPerDay <= RetentionDays * TicksPerDay
OBVIOUS

-----------------------------------------------------------------------------
(* The log files. *)

(* A file of a day was last modified on its day. *)
FilesOfTheirDay(files) ==
    \A d \in Days : files[d] # Absent =>
        d * TicksPerDay <= files[d] /\ files[d] < d * TicksPerDay + TicksPerDay /\ files[d] <= now

(* Of the files that the sweep before time `due` did not fail on, none is    *)
(* out of the window it left.                                                *)
WithinWindow(files, due, failed) ==
    \A d \in Days \ failed : files[d] # Absent => due - SweepInterval - files[d] <= RetentionDays * TicksPerDay

(* No file is of a later day than `last`. *)
NoneAfter(files, last) == \A d \in Days : files[d] # Absent => d <= last

(* The files on disk, the file in use and the reaper's interval.  The sweep  *)
(* is never late, the file of today is there, no file is of a day that did   *)
(* not come, and what is there was in its window at the last sweep or        *)
(* escaped it.                                                               *)
LogInv ==
    /\ SensorTypeOK /\ NoEventLost
    /\ sweep_due \in Nat /\ active <= Today
    /\ FilesOfTheirDay(logs) /\ NoneAfter(logs, active)
    /\ at # <<"down">> =>
         /\ now <= sweep_due /\ sweep_due <= now + SweepInterval
         /\ WithinWindow(logs, sweep_due, spared)
         /\ active = Today => logs[active] # Absent

LogFiles == [Days -> (0..MaxNow) \cup {Absent}]

(* What a sweep leaves: files of their day, in the window or among those it  *)
(* failed on, today's file among them if it was there; what it deletes is    *)
(* out of the window.                                                        *)
LEMMA PrunedKeeps ==
    ASSUME now \in 0..MaxNow, NEW files \in LogFiles, FilesOfTheirDay(files),
           NEW due, due = now + SweepInterval, NEW kept, NEW last
    PROVE  /\ Pruned(files, kept) \in LogFiles /\ FilesOfTheirDay(Pruned(files, kept))
           /\ NoneAfter(files, last) => NoneAfter(Pruned(files, kept), last)
           /\ WithinWindow(Pruned(files, kept), due, kept)
           /\ files[Today] # Absent => Pruned(files, kept)[Today] # Absent
           /\ \A d \in Days : files[d] # Absent /\ Pruned(files, kept)[d] = Absent =>
                now - files[d] > RetentionDays * TicksPerDay
           /\ \A d \in Days : Pruned(files, kept)[d] \in {files[d], Absent}
<1> DEFINE W == RetentionDays * TicksPerDay
           P == Pruned(files, kept)
<1>1. W \in Nat /\ TicksPerDay <= W
    BY WindowIsADay
<1>2. P = [d \in Days |-> IF files[d] # Absent /\ files[d] < now - W /\ d \notin kept
                           THEN Absent ELSE files[d]]
    BY DEF Pruned, Expired
<1> HIDE DEF W, P
<1>3. P \in LogFiles /\ \A d \in Days : P[d] \in {files[d], Absent}
    BY <1>2 DEF LogFiles
<1>4. FilesOfTheirDay(P) /\ (NoneAfter(files, last) => NoneAfter(P, last))
    BY <1>3 DEF FilesOfTheirDay, NoneAfter
<1>5. WithinWindow(P, due, kept)
  <2> SUFFICES ASSUME NEW d \in Days \ kept, P[d] # Absent
               PROVE  due - SweepInterval - P[d] <= RetentionDays * TicksPerDay
      BY DEF WithinWindow
  <2>1. P[d] = files[d] /\ files[d] \in 0..MaxNow /\ ~(files[d] < now - W)
      BY <1>2 DEF LogFiles
  <2>2. SweepInterval \in Nat /\ now \in Nat
      OBVIOUS
  <2>3. due - SweepInterval - files[d] <= W
      BY <1>1, <2>1, <2>2
  <2> QED
      BY <2>1, <2>3 DEF W
<1>6. ASSUME files[Today] # Absent PROVE P[Today] # Absent
  <2>1. /\ Today \in Days /\ Today * TicksPerDay <= now
        /\ now < Today * TicksPerDay + TicksPerDay
      BY TodayIsADay DEF Today
  <2>2. files[Today] \in Nat /\ Today * TicksPerDay <= files[Today]
      BY <1>6, <2>1 DEF FilesOfTheirDay, LogFiles
  <2>3. ~(files[Today] < now - W)
    <3> DEFINE b == Today * TicksPerDay
    <3>1. b \in Int
        BY <2>1 DEF Days
    <3> HIDE DEF b
    <3>2. b <= now /\ now < b + TicksPerDay /\ b <= files[Today]
        BY <2>1, <2>2 DEF b
    <3> QED
        BY <1>1, <2>2, <3>1, <3>2
  <2> QED
      BY <1>2, <1>6, <2>1, <2>3
<1>7. ASSUME NEW d \in Days, files[d] # Absent, P[d] = Absent PROVE now - files[d] > W
  <2>1. files[d] < now - W /\ files[d] \in Nat /\ now \in Nat
      BY <1>2, <1>7 DEF LogFiles
  <2> QED
      BY <1>1, <2>1
<1> QED
    BY <1>3, <1>4, <1>5, <1>6, <1>7 DEF W, P

(* The appender's own limit only deletes. *)
LEMMA NewestKeeps ==
    ASSUME NEW files \in LogFiles, NEW n, NEW due, NEW failed, NEW last
    PROVE  /\ Newest(files, n) \in LogFiles
           /\ FilesOfTheirDay(files) => FilesOfTheirDay(Newest(files, n))
           /\ NoneAfter(files, last) => NoneAfter(Newest(files, n), last)
           /\ WithinWindow(files, due, failed) => WithinWindow(Newest(files, n), due, failed)
<1> DEFINE few(d) == Cardinality({e \in Days : e > d /\ files[e] # Absent}) < n
<1>1. Newest(files, n) = [d \in Days |-> IF files[d] # Absent /\ few(d) THEN files[d] ELSE Absent]
    BY DEF Newest
<1> HIDE DEF few
<1>2. \A d \in Days : Newest(files, n)[d] \in {files[d], Absent}
    BY <1>1
<1>3. Newest(files, n) \in LogFiles
    BY <1>1 DEF LogFiles
<1> QED
    BY <1>2, <1>3 DEF FilesOfTheirDay, WithinWindow, NoneAfter

(* It deletes a day only for n later ones. *)
LEMMA NewestCounts ==
    ASSUME NEW files \in LogFiles, NEW n \in Nat, NEW last \in Nat, NoneAfter(files, last),
           NEW d \in Days, files[d] # Absent, Newest(files, n)[d] = Absent
    PROVE  last - d >= n
<1> DEFINE S == {e \in Days : e > d /\ files[e] # Absent}
<1>1. ~(Cardinality(S) < n)
    BY DEF Newest
<1>2. d \in Nat /\ d <= last /\ S \subseteq (d + 1)..last
    BY DEF NoneAfter, Days
<1> HIDE DEF S
<1>3. IsFiniteSet((d + 1)..last) /\ Cardinality((d + 1)..last) = last - d
  <2>1. \A x, y \in Int : IsFiniteSet(x..y) /\ Cardinality(x..y) = IF x > y THEN 0 ELSE y - x + 1
      BY FS_Interval
  <2>2. d + 1 \in Int /\ last \in Int
      BY <1>2
  <2>3. /\ IsFiniteSet((d + 1)..last)
        /\ Cardinality((d + 1)..last) = IF d + 1 > last THEN 0 ELSE last - (d + 1) + 1
      BY <2>1, <2>2
  <2>4. (IF d + 1 > last THEN 0 ELSE last - (d + 1) + 1) = last - d
      BY <1>2
  <2> QED
      BY <2>3, <2>4
<1>4. Cardinality(S) <= last - d /\ Cardinality(S) \in Nat
    BY <1>2, <1>3, FS_Subset, FS_CardinalityType
<1> QED
    BY <1>1, <1>2, <1>4

(* A day that is RetentionDays back was not written to in the last           *)
(* RetentionDays - 1 of them.                                                *)
LEMMA FarDayIsOld ==
    ASSUME now \in 0..MaxNow, NEW files \in LogFiles, FilesOfTheirDay(files),
           NEW d \in Days, files[d] # Absent, Today - d >= RetentionDays
    PROVE  now - files[d] > (RetentionDays - 1) * TicksPerDay
<1>1. Today \in Nat /\ Today * TicksPerDay <= now
    BY TodayIsADay DEF Today, Days
<1>2. d \in Nat /\ files[d] \in Nat /\ files[d] < d * TicksPerDay + TicksPerDay /\ now \in Nat
    BY DEF FilesOfTheirDay, LogFiles, Days
<1>3. ASSUME NEW t \in Nat, NEW e \in Nat, NEW k \in Nat \ {0}, NEW w \in Nat \ {0}, t - e >= w
      PROVE  t * k >= e * k + k + (w - 1) * k
  <2>1. PICK j \in Nat : t = e + w + j
    <3>1. t - e - w \in Nat /\ t = e + w + (t - e - w)
        BY <1>3
    <3> QED
        BY <3>1
  <2>2. t * k = e * k + w * k + j * k
      BY <2>1
  <2>3. j * k >= 0 /\ (w - 1) * k = w * k - k
      OBVIOUS
  <2> QED
      BY <2>2, <2>3
<1>4. Today * TicksPerDay >= d * TicksPerDay + TicksPerDay + (RetentionDays - 1) * TicksPerDay
    BY <1>1, <1>2, <1>3
<1> DEFINE u == Today * TicksPerDay
           v == d * TicksPerDay
           w == (RetentionDays - 1) * TicksPerDay
<1>5. u \in Int /\ v \in Int /\ w \in Int
    BY <1>1, <1>2
<1> HIDE DEF u, v, w
<1>6. u <= now /\ files[d] < v + TicksPerDay /\ u >= v + TicksPerDay + w
    BY <1>1, <1>2, <1>4 DEF u, v, w
<1>7. now - files[d] > w
    BY <1>2, <1>5, <1>6
<1> QED
    BY <1>7 DEF w

(* Writing today's file. *)
LEMMA TouchedKeeps ==
    ASSUME now \in 0..MaxNow, NEW files \in LogFiles, FilesOfTheirDay(files), NEW failed,
           NEW due \in Nat, due <= now + SweepInterval, WithinWindow(files, due, failed),
           NoneAfter(files, Today)
    PROVE  LET g == [files EXCEPT ![Today] = now] IN
           /\ g \in LogFiles /\ FilesOfTheirDay(g) /\ WithinWindow(g, due, failed) /\ g[Today] # Absent
           /\ NoneAfter(g, Today)
<1> DEFINE g == [files EXCEPT ![Today] = now]
           W == RetentionDays * TicksPerDay
<1>1. /\ Today \in Days /\ Today * TicksPerDay <= now /\ W \in Nat
      /\ now < Today * TicksPerDay + TicksPerDay
    BY TodayIsADay, WindowIsADay DEF Today
<1>2. g \in LogFiles /\ g[Today] = now /\ \A d \in Days \ {Today} : g[d] = files[d]
    BY <1>1 DEF LogFiles
<1>3. FilesOfTheirDay(g)
    BY <1>1, <1>2 DEF FilesOfTheirDay
<1>5. NoneAfter(g, Today)
    BY <1>1, <1>2 DEF NoneAfter, Days
<1> HIDE DEF W, g
<1>4. ASSUME NEW d \in Days \ failed, g[d] # Absent PROVE due - SweepInterval - g[d] <= W
    BY <1>1, <1>2, <1>4 DEF WithinWindow, W
<1> QED
    BY <1>2, <1>3, <1>4, <1>5 DEF WithinWindow, W, g

-----------------------------------------------------------------------------
(* The types. *)

Places == {<<"down">>, <<"serving">>} \cup ({"load", "create", "write"} \X Algorithms)

(* A start in progress is not down. *)
LEMMA StartingIsNotDown ==
    ASSUME NEW a, NEW step PROVE <<step, a>> # <<"down">> /\ <<step, a>> # <<"serving">>
OBVIOUS

(* The steps of load_or_create keep the types and leave the log alone; they  *)
(* are taken by a process that is starting.                                  *)
LEMMA KeyTypes ==
    ASSUME SensorTypeOK, NEW a \in Algorithms, KeyStep(a) \/ DiskError(a)
    PROVE  SensorTypeOK' /\ at # <<"down">> /\ UNCHANGED <<now, logVars>>
<1> USE DEF SensorTypeOK
<1>1. \A key \in Nat : Got(a, key) => at' \in Places /\ loaded' \in [Algorithms -> Nat \cup {Absent}]
    BY DEF Got, Serve, Places, Algorithms
<1>2. Missed(a) => at' \in Places /\ loaded' \in [Algorithms -> Nat \cup {Absent}]
    BY DEF Missed, Serve, Places, NoKeys, Algorithms
<1>0. Draw(a) => at' \in Places /\ loaded' \in [Algorithms -> Nat \cup {Absent}] /\ made' \in Nat
    BY DEF Draw, Places
<1>3. CASE LoadKey(a)
  <2>1. /\ UNCHANGED <<file, now, logVars, hurt, troubles>> /\ at = <<"load", a>>
        /\ made' \in Nat
      BY <1>3 DEF LoadKey, Draw
  <2>2. at' \in Places /\ loaded' \in [Algorithms -> Nat \cup {Absent}]
      BY <1>0, <1>1, <1>2, <1>3 DEF LoadKey
  <2> QED
      BY <2>1, <2>2, StartingIsNotDown DEF Places, logVars
<1>4. CASE CreateKeyFile(a)
  <2>1. /\ UNCHANGED <<made, now, logVars, hurt, troubles>> /\ at = <<"create", a>>
        /\ file' \in [Algorithms -> KeyFiles]
      BY <1>4 DEF CreateKeyFile, KeyFiles
  <2>2. at' \in Places /\ loaded' \in [Algorithms -> Nat \cup {Absent}]
      BY <1>2, <1>4 DEF CreateKeyFile, Places
  <2> QED
      BY <2>1, <2>2, StartingIsNotDown DEF logVars, Places
<1>5. CASE WriteKeyFile(a)
  <2>1. /\ UNCHANGED <<made, now, logVars, hurt, troubles>> /\ at = <<"write", a>>
        /\ file' \in [Algorithms -> KeyFiles] /\ Got(a, made)
      BY <1>5 DEF WriteKeyFile, KeyFiles
  <2> QED
      BY <1>1, <2>1, StartingIsNotDown DEF logVars, Places
<1>6. CASE DiskError(a)
  <2>1. /\ UNCHANGED <<file, now, logVars>> /\ troubles' \in 0..MaxTroubles /\ hurt' = TRUE
        /\ at \in {<<"load", a>>, <<"create", a>>, <<"write", a>>}
        /\ Draw(a) \/ (Missed(a) /\ made' = made)
      BY <1>6 DEF DiskError
  <2> QED
      BY <1>0, <1>2, <2>1, StartingIsNotDown DEF logVars, Places
<1> QED
    BY <1>3, <1>4, <1>5, <1>6 DEF KeyStep

(* The process starts with nothing on disk. *)
LEMMA LogInitInv == SensorInit => LogInv
<1> SUFFICES ASSUME SensorInit PROVE LogInv
    OBVIOUS
<1>1. now = 0 /\ 0 \in Days /\ Today = 0
    BY TodayIsADay DEF SensorInit, Today, Days
<1>2. SensorTypeOK
  <2>0. hurt \in BOOLEAN /\ spared \subseteq Days
      BY Zenon DEF SensorInit
  <2>1. troubles \in 0..MaxTroubles /\ made \in Nat
      BY SMT DEF SensorInit
  <2>2. file \in [Algorithms -> KeyFiles] /\ loaded \in [Algorithms -> Nat \cup {Absent}]
      BY DEF SensorInit, KeyFiles, NoKeys
  <2>3. logs \in [Days -> (0..MaxNow) \cup {Absent}] /\ active \in Days /\ now \in 0..MaxNow
      BY <1>1 DEF SensorInit
  <2> QED
      BY <2>0, <2>1, <2>2, <2>3 DEF SensorInit, SensorTypeOK
<1> QED
    BY <1>1, <1>2 DEF SensorInit, LogInv, NoEventLost, FilesOfTheirDay, NoneAfter

(* Nothing of the last RetentionDays - 1 days goes. *)
RecentStay ==
    \A d \in Days : logs[d] # Absent /\ logs'[d] = Absent =>
        now - logs[d] > (RetentionDays - 1) * TicksPerDay

(* What is out of the whole window is out of the shorter one. *)
LEMMA WindowIsLonger ==
    ASSUME NEW age \in Int, age > RetentionDays * TicksPerDay
    PROVE  age > (RetentionDays - 1) * TicksPerDay
<1> DEFINE w == RetentionDays * TicksPerDay
<1>1. (RetentionDays - 1) * TicksPerDay = w - TicksPerDay /\ w \in Nat
    OBVIOUS
<1> HIDE DEF w
<1> QED
    BY <1>1 DEF w

(* What a sweep deletes is not recent. *)
LEMMA PrunedIsOld ==
    ASSUME now \in 0..MaxNow, NEW files \in LogFiles, FilesOfTheirDay(files), NEW kept,
           NEW d \in Days, files[d] # Absent, Pruned(files, kept)[d] = Absent
    PROVE  now - files[d] > (RetentionDays - 1) * TicksPerDay
<1>1. now - files[d] > RetentionDays * TicksPerDay
    BY PrunedKeeps
<1>2. now - files[d] \in Int
    BY DEF LogFiles
<1> QED
    BY <1>1, <1>2, WindowIsLonger

(* Every step keeps it: only Boot, an event and the sweep touch the files.   *)
LEMMA LogStep ==
    ASSUME LogInv, [SensorNext]_sensorVars
    PROVE  LogInv' /\ RecentStay
<1>0. /\ SensorTypeOK /\ ~lost /\ sweep_due \in Nat /\ active <= Today /\ FilesOfTheirDay(logs)
      /\ now \in 0..MaxNow /\ logs \in LogFiles /\ active \in Days
      /\ Today \in Days /\ NoneAfter(logs, active) /\ Today \in Nat /\ active \in Nat
  <2>1. /\ SensorTypeOK /\ ~lost /\ sweep_due \in Nat /\ active <= Today /\ FilesOfTheirDay(logs)
        /\ now \in 0..MaxNow /\ logs \in LogFiles /\ active \in Days /\ NoneAfter(logs, active)
      BY DEF LogInv, SensorTypeOK, NoEventLost, LogFiles
  <2>2. Today \in Days
      BY <2>1, TodayIsADay DEF Today
  <2>3. Days \subseteq Nat
      BY DEF Days
  <2> QED
      BY <2>1, <2>2, <2>3
<1>1. ASSUME UNCHANGED <<now, logVars>>, SensorTypeOK', at' # <<"down">> => at # <<"down">>
      PROVE  LogInv' /\ RecentStay
  <2>1. RecentStay
      BY <1>1 DEF logVars, RecentStay
  <2>2. LogInv'
      BY <1>1 DEF LogInv, logVars, NoEventLost, Today, FilesOfTheirDay, WithinWindow, NoneAfter
  <2> QED
      BY <2>1, <2>2
<1>9. NoneAfter(logs, Today)
    BY <1>0 DEF NoneAfter, Days
<1>2. CASE Boot
  <2>0. PICK kept \in SUBSET Expired(logs) :
          /\ Swept(kept)
          /\ \E left \in {Pruned(logs, kept), Newest(Pruned(logs, kept), RetentionDays)} :
               logs' = Opened(left)
      BY <1>2 DEF Boot
  <2> DEFINE P == Pruned(logs, kept)
  <2>1. PICK left \in {P, Newest(P, RetentionDays)} : logs' = Opened(left)
      BY <2>0
  <2>2. /\ active' = Today /\ sweep_due' = now + SweepInterval /\ at' = <<"load", "ed25519">>
        /\ loaded' = NoKeys /\ hurt' = FALSE /\ UNCHANGED <<file, made, served, now, lost>>
      BY <1>2 DEF Boot
  <2>21. spared' = kept /\ troubles' \in 0..MaxTroubles /\ kept \subseteq Days
      BY <1>0, <2>0 DEF Swept, SensorTypeOK, Expired
  <2>22. /\ P \in LogFiles /\ FilesOfTheirDay(P) /\ WithinWindow(P, sweep_due', spared')
         /\ NoneAfter(P, Today) /\ \A d \in Days : P[d] \in {logs[d], Absent}
      BY <1>0, <1>9, <2>2, <2>21, PrunedKeeps
  <2>23. \A d \in Days : logs[d] # Absent /\ P[d] = Absent => now - logs[d] > (RetentionDays - 1) * TicksPerDay
      BY <1>0, PrunedIsOld
  <2> HIDE DEF P
  <2>3. /\ left \in LogFiles /\ FilesOfTheirDay(left) /\ WithinWindow(left, sweep_due', spared')
        /\ NoneAfter(left, Today)
      BY <2>1, <2>22, NewestKeeps
  <2>4. sweep_due' \in Nat /\ sweep_due' <= now + SweepInterval /\ now <= sweep_due'
      BY <1>0, <2>2
  <2>5. /\ logs' \in LogFiles /\ FilesOfTheirDay(logs') /\ WithinWindow(logs', sweep_due', spared')
        /\ logs'[Today] # Absent /\ NoneAfter(logs', Today)
    <3>1. CASE left[Today] = Absent
      <4>1. logs' = [left EXCEPT ![Today] = now]
          BY <2>1, <3>1 DEF Opened
      <4> QED
          BY <1>0, <2>3, <2>4, <4>1, TouchedKeeps
    <3>2. CASE left[Today] # Absent
      <4>1. logs' = left
          BY <1>0, <2>1, <2>3, <3>2 DEF Opened, LogFiles
      <4> QED
          BY <2>3, <3>2, <4>1
    <3> QED
        BY <3>1, <3>2
  <2>6. SensorTypeOK' /\ Today' = Today
      BY <1>0, <2>2, <2>21, <2>5 DEF SensorTypeOK, NoKeys, Algorithms, Today, LogFiles
  <2>7. FilesOfTheirDay(logs)' /\ NoneAfter(logs, active)' /\ WithinWindow(logs, sweep_due, spared)'
      BY <2>2, <2>5 DEF FilesOfTheirDay, NoneAfter, WithinWindow
  <2>8. ASSUME NEW d \in Days, logs[d] # Absent, logs'[d] = Absent
        PROVE  now - logs[d] > (RetentionDays - 1) * TicksPerDay
    <3>1. left[d] = Absent
      <4>1. \A e \in Days : left[e] # Absent => logs'[e] # Absent
          BY <1>0, <2>1, <2>3 DEF Opened, LogFiles
      <4> QED
          BY <2>8, <4>1
    <3>2. CASE P[d] = Absent
        BY <2>8, <2>23, <3>2
    <3>3. CASE P[d] # Absent /\ left = Newest(P, RetentionDays)
      <4>1. Today - d >= RetentionDays
          BY <1>0, <2>22, <3>1, <3>3, NewestCounts
      <4> QED
          BY <1>0, <2>8, <4>1, FarDayIsOld
    <3> QED
        BY <2>1, <3>1, <3>2, <3>3
  <2> QED
      BY <1>0, <2>2, <2>4, <2>5, <2>6, <2>7, <2>8 DEF LogInv, NoEventLost, Days, RecentStay
<1>3. CASE LogEvent
  <2>1. /\ at = <<"serving">> /\ active' = Today
        /\ UNCHANGED <<keyVars, at, served, now, sweep_due, spared, hurt, troubles>>
      BY <1>3 DEF LogEvent
  <2>2. /\ now <= sweep_due /\ sweep_due <= now + SweepInterval /\ WithinWindow(logs, sweep_due, spared)
        /\ active = Today => logs[active] # Absent
      BY <2>1 DEF LogInv
  <2>3. ~lost'
      BY <1>0, <1>3, <2>2 DEF LogEvent
  <2>4. /\ logs' \in LogFiles /\ FilesOfTheirDay(logs') /\ WithinWindow(logs', sweep_due, spared)
        /\ logs'[Today] # Absent /\ NoneAfter(logs', Today) /\ RecentStay
    <3>1. CASE active # Today
      <4> DEFINE left == Newest(logs, RetentionDays - 1)
      <4>1. /\ left \in LogFiles /\ FilesOfTheirDay(left) /\ WithinWindow(left, sweep_due, spared)
            /\ NoneAfter(left, Today)
          BY <1>0, <1>9, <2>2, NewestKeeps
      <4>2. logs' = [left EXCEPT ![Today] = now]
          BY <1>3, <3>1 DEF LogEvent
      <4>3. ASSUME NEW d \in Days, logs[d] # Absent, left[d] = Absent
            PROVE  now - logs[d] > (RetentionDays - 1) * TicksPerDay
        <5>1. active - d >= RetentionDays - 1
            BY <1>0, <4>3, NewestCounts
        <5>2. Today - d >= RetentionDays
            BY <1>0, <3>1, <5>1 DEF Days
        <5> QED
            BY <1>0, <4>3, <5>2, FarDayIsOld
      <4> HIDE DEF left
      <4>4. \A d \in Days : logs'[d] = Absent => left[d] = Absent
          BY <1>0, <4>1, <4>2 DEF LogFiles
      <4>5. RecentStay
          BY <4>3, <4>4 DEF RecentStay
      <4> QED
          BY <1>0, <2>2, <4>1, <4>2, <4>5, TouchedKeeps
    <3>2. CASE active = Today
      <4>1. logs' = [logs EXCEPT ![Today] = now]
          BY <1>3, <2>2, <3>2 DEF LogEvent
      <4>2. RecentStay
          BY <1>0, <4>1 DEF RecentStay, LogFiles
      <4> QED
          BY <1>0, <1>9, <2>2, <4>1, <4>2, TouchedKeeps
    <3> QED
        BY <3>1, <3>2
  <2>5. SensorTypeOK' /\ Today' = Today
      BY <1>0, <2>1, <2>4 DEF SensorTypeOK, Today, LogFiles, keyVars
  <2>6. FilesOfTheirDay(logs)' /\ WithinWindow(logs, sweep_due, spared)' /\ NoneAfter(logs, active)'
      BY <2>1, <2>4 DEF FilesOfTheirDay, WithinWindow, NoneAfter
  <2> QED
      BY <1>0, <2>1, <2>2, <2>3, <2>4, <2>5, <2>6 DEF LogInv, NoEventLost, Days
<1>4. CASE Sweep
  <2>0. PICK kept \in SUBSET Expired(logs) : Swept(kept) /\ logs' = Pruned(logs, kept)
      BY <1>4 DEF Sweep
  <2>1. /\ at = <<"serving">> /\ sweep_due' = now + SweepInterval
        /\ UNCHANGED <<keyVars, at, served, now, active, lost, hurt>>
      BY <1>4 DEF Sweep
  <2>11. spared' = kept /\ troubles' \in 0..MaxTroubles /\ kept \subseteq Days
      BY <1>0, <2>0 DEF Swept, SensorTypeOK, Expired
  <2>2. /\ logs' \in LogFiles /\ FilesOfTheirDay(logs') /\ WithinWindow(logs', sweep_due', spared')
        /\ logs[Today] # Absent => logs'[Today] # Absent
        /\ NoneAfter(logs', active)
      BY <1>0, <2>0, <2>1, <2>11, PrunedKeeps
  <2>3. SensorTypeOK' /\ Today' = Today
      BY <1>0, <2>1, <2>11, <2>2 DEF SensorTypeOK, Today, LogFiles, keyVars
  <2>4. FilesOfTheirDay(logs)' /\ WithinWindow(logs, sweep_due, spared)' /\ NoneAfter(logs, active)'
      BY <2>1, <2>2 DEF FilesOfTheirDay, WithinWindow, NoneAfter
  <2>7. RecentStay
      BY <1>0, <2>0, PrunedIsOld DEF RecentStay
  <2>5. active = Today => logs[active] # Absent
      BY <2>1 DEF LogInv
  <2>6. sweep_due' \in Nat /\ sweep_due' <= now + SweepInterval /\ now <= sweep_due'
      BY <1>0, <2>1
  <2> QED
      BY <1>0, <2>1, <2>2, <2>3, <2>4, <2>5, <2>6, <2>7 DEF LogInv, NoEventLost
<1>5. CASE Tick
  <2>1. /\ now < MaxNow /\ now' = now + 1
        /\ at = <<"down">> \/ (at = <<"serving">> /\ now # sweep_due)
        /\ UNCHANGED <<file, made, loaded, at, served, logs, active, sweep_due, spared, lost, hurt, troubles>>
      BY <1>5 DEF Tick, keyVars, logVars
  <2>2. SensorTypeOK' /\ Today' \in Days /\ Today <= Today'
    <3>1. now' \in 0..MaxNow
        BY <1>0, <2>1
    <3>2. SensorTypeOK'
        BY <1>0, <2>1, <3>1 DEF SensorTypeOK
    <3>3. Today' = (now + 1) \div TicksPerDay /\ now + 1 \in 0..MaxNow
        BY <2>1, <3>1 DEF Today
    <3>4. Today' \in Days
        BY <3>3, TodayIsADay
    <3>5. Today <= Today'
        BY <1>0, <3>3, TodayAdvances DEF Today
    <3> QED
        BY <3>2, <3>4, <3>5
  <2>3. FilesOfTheirDay(logs)' /\ NoneAfter(logs, active)' /\ RecentStay
      BY <1>0, <2>1 DEF FilesOfTheirDay, LogFiles, NoneAfter, RecentStay
  <2>4. at # <<"down">> =>
          /\ now' <= sweep_due' /\ sweep_due' <= now' + SweepInterval
          /\ WithinWindow(logs, sweep_due, spared)'
      BY <1>0, <2>1 DEF LogInv, WithinWindow
  <2>5. (active <= Today)'
      BY <1>0, <2>1, <2>2 DEF Days
  <2>6. ASSUME (at # <<"down">>)', (active = Today)' PROVE (logs[active] # Absent)'
    <3>1. active = Today
        BY <1>0, <2>1, <2>2, <2>6 DEF Days
    <3> QED
        BY <2>1, <2>6, <3>1 DEF LogInv
  <2> QED
      BY <1>0, <2>1, <2>2, <2>3, <2>4, <2>5, <2>6 DEF LogInv, NoEventLost
<1>6. CASE Killed
  <2>1. SensorTypeOK' /\ UNCHANGED <<now, logVars>> /\ at' = <<"down">>
    <3>1. /\ troubles' \in 0..MaxTroubles /\ at' = <<"down">> /\ loaded' = NoKeys
          /\ UNCHANGED <<file, made, now, logVars, hurt>>
        BY <1>0, <1>6 DEF Killed, SensorTypeOK
    <3>2. NoKeys \in [Algorithms -> Nat \cup {Absent}]
        BY DEF NoKeys
    <3> QED
        BY <1>0, <3>1, <3>2 DEF SensorTypeOK, logVars
  <2> QED
      BY <1>1, <2>1
<1>7. ASSUME NEW a \in Algorithms, KeyStep(a) \/ DiskError(a) PROVE LogInv' /\ RecentStay
    BY <1>0, <1>1, <1>7, KeyTypes
<1>8. CASE UNCHANGED sensorVars
  <2>1. SensorTypeOK' /\ UNCHANGED <<now, logVars, at>>
      BY <1>0, <1>8 DEF sensorVars, logVars, SensorTypeOK
  <2> QED
      BY <1>1, <2>1
<1> QED
    BY <1>2, <1>3, <1>4, <1>5, <1>6, <1>7, <1>8 DEF SensorNext

(* Retention means days and loses nothing that is in use or recent, for      *)
(* every length of a day, window and interval, and any kills and errors of   *)
(* the disk, those of the sweep among them.                                  *)
THEOREM LogsAreAlwaysKept == SensorSpec => LogsAreKept
<1> DEFINE Kept == SensorTypeOK /\ RetentionHolds /\ NoEventLost
<1>1. SensorInit => LogInv
    BY LogInitInv
<1>2. LogInv /\ [SensorNext]_sensorVars => LogInv' /\ RecentStay
    BY LogStep
<1>3. LogInv => Kept
  <2> SUFFICES ASSUME LogInv, at # <<"down">>, NEW d \in Days \ spared, logs[d] # Absent
               PROVE  now - logs[d] <= RetentionDays * TicksPerDay + SweepInterval
      BY DEF LogInv, RetentionHolds
  <2>1. /\ logs[d] \in Nat /\ now \in Nat /\ sweep_due \in Nat /\ now <= sweep_due
        /\ sweep_due - SweepInterval - logs[d] <= RetentionDays * TicksPerDay
      BY DEF LogInv, SensorTypeOK, WithinWindow
  <2> QED
      BY <2>1, WindowIsADay
<1>4. LogInv /\ [SensorNext]_sensorVars => LogInv' /\
        [\A d \in Days : logs[d] # Absent /\ logs'[d] = Absent =>
           now - logs[d] > (RetentionDays - 1) * TicksPerDay]_sensorVars
    BY <1>2 DEF RecentStay
<1> QED
    BY <1>1, <1>3, <1>4, PTL DEF SensorSpec, LogsAreKept, KeepsRecentDays

-----------------------------------------------------------------------------
(* The identity. *)

Identities == [Algorithms -> Nat \cup {Absent}]

(* A key that is in memory or was shown is the one in its file, a file is    *)
(* written only while it holds no key, and whoever serves has an Ed25519     *)
(* key, and its RSA key too unless there is none or the start met an error.  *)
(* A start on its way to make an RSA key that is there met one.              *)
IdentityInv ==
    /\ SensorTypeOK
    /\ served \subseteq Identities
    /\ \A x \in served, a \in Algorithms : x[a] \in Nat => file[a] = x[a]
    /\ \A x \in served : x["ed25519"] \in Nat
    /\ \A a \in Algorithms : loaded[a] \in Nat => file[a] = loaded[a]
    /\ \A a \in Algorithms : at = <<"create", a>> => file[a] = Absent \/ hurt
    /\ \A a \in Algorithms : at = <<"write", a>> => file[a] = Torn
    /\ \A step \in {"load", "create", "write"} : at = <<step, "rsa">> => loaded["ed25519"] \in Nat
    /\ at = <<"serving">> => loaded["ed25519"] \in Nat
    /\ at = <<"serving">> /\ ~hurt => loaded["rsa"] \in Nat \/ file["rsa"] \notin Nat

(* The next key of load_or_create, with its file. *)
LEMMA GotKeeps ==
    ASSUME IdentityInv, SensorTypeOK', NEW a \in Algorithms, NEW key \in Nat, Got(a, key),
           file' = [file EXCEPT ![a] = key], file[a] \notin Nat \/ file[a] = key,
           at \in {<<"load", a>>, <<"create", a>>, <<"write", a>>}
    PROVE  IdentityInv'
<1> USE DEF Algorithms, Identities
<1>1. /\ file \in [Algorithms -> KeyFiles] /\ loaded \in Identities
      /\ loaded' = [loaded EXCEPT ![a] = key]
    BY DEF IdentityInv, SensorTypeOK, Got, Serve
<1>2. \A b \in Algorithms : loaded'[b] \in Nat => file'[b] = loaded'[b]
    BY <1>1 DEF IdentityInv
<1>3. \A x \in served, b \in Algorithms : x[b] \in Nat => file'[b] = x[b]
    BY <1>1 DEF IdentityInv
<1>4. CASE a = "ed25519"
  <2>1. at' = <<"load", "rsa">> /\ served' = served
      BY <1>4 DEF Got
  <2>2. loaded'["ed25519"] \in Nat
      BY <1>1, <1>4
  <2> QED
      BY <1>2, <1>3, <2>1, <2>2 DEF IdentityInv
<1>5. CASE a = "rsa"
  <2>1. at' = <<"serving">> /\ served' = served \cup {loaded'}
      BY <1>1, <1>5 DEF Got, Serve
  <2>2. loaded["ed25519"] \in Nat
      BY <1>5 DEF IdentityInv
  <2>3. loaded' \in Identities /\ loaded'["ed25519"] \in Nat
      BY <1>1, <1>5, <2>2
  <2>4. loaded'["rsa"] \in Nat
      BY <1>1, <1>5
  <2> QED
      BY <1>2, <1>3, <2>1, <2>3, <2>4 DEF IdentityInv
<1> QED
    BY <1>4, <1>5

(* A key that cannot be had: the process ends, or serves without it, which   *)
(* a start that met no error does only when there is no key.                 *)
LEMMA MissedKeeps ==
    ASSUME IdentityInv, SensorTypeOK', NEW a \in Algorithms, Missed(a), UNCHANGED file,
           file[a] \notin Nat \/ hurt', at \in {<<"load", a>>, <<"create", a>>, <<"write", a>>}
    PROVE  IdentityInv'
<1> USE DEF Algorithms, Identities
<1>1. CASE a = "ed25519"
  <2>1. at' = <<"down">> /\ served' = served /\ loaded' = NoKeys
      BY <1>1 DEF Missed
  <2> QED
      BY <2>1 DEF IdentityInv, NoKeys
<1>2. CASE a = "rsa"
  <2>1. at' = <<"serving">> /\ served' = served \cup {loaded} /\ loaded' = loaded
      BY <1>2 DEF Missed, Serve
  <2>2. loaded["ed25519"] \in Nat /\ loaded \in Identities
      BY <1>2 DEF IdentityInv, SensorTypeOK
  <2> QED
      BY <1>2, <2>1, <2>2 DEF IdentityInv
<1> QED
    BY <1>1, <1>2

(* A key is drawn only when its file looks absent. *)
LEMMA DrawKeeps ==
    ASSUME IdentityInv, SensorTypeOK', NEW a \in Algorithms, Draw(a), UNCHANGED file,
           file[a] = Absent \/ hurt', at = <<"load", a>>
    PROVE  IdentityInv'
<1>1. at' = <<"create", a>> /\ UNCHANGED <<loaded, served>>
    BY DEF Draw
<1>2. \A b \in Algorithms : at' = <<"create", b>> => b = a
    BY <1>1
<1>3. a = "rsa" => loaded["ed25519"] \in Nat
    BY DEF IdentityInv
<1>4. at' # <<"serving">> /\ \A b \in Algorithms : at' # <<"write", b>> /\ at' # <<"load", b>>
    BY <1>1
<1> QED
    BY <1>1, <1>2, <1>3, <1>4 DEF IdentityInv, Algorithms

(* The identity is kept by every step. *)
LEMMA IdentityStep ==
    ASSUME IdentityInv, [SensorNext]_sensorVars, SensorTypeOK'
    PROVE  IdentityInv'
<1>1. ASSUME UNCHANGED <<file, served>>,
             \/ UNCHANGED <<at, loaded, hurt>>
             \/ loaded' = NoKeys /\ at' \in {<<"down">>, <<"load", "ed25519">>}
      PROVE  IdentityInv'
  <2>1. \A a \in Algorithms : loaded'[a] \in Nat => file'[a] = loaded'[a]
      BY <1>1 DEF IdentityInv, NoKeys
  <2>2. CASE UNCHANGED <<at, loaded, hurt>>
      BY <1>1, <2>1, <2>2 DEF IdentityInv
  <2>3. CASE at' \in {<<"down">>, <<"load", "ed25519">>}
      BY <1>1, <2>1, <2>3 DEF IdentityInv
  <2> QED
      BY <1>1, <2>2, <2>3
<1>2. CASE Boot
    BY <1>1, <1>2 DEF Boot
<1>3. CASE LogEvent \/ Sweep \/ Tick
    BY <1>1, <1>3 DEF LogEvent, Sweep, Tick, keyVars
<1>4. CASE Killed
    BY <1>1, <1>4 DEF Killed
<1>5. ASSUME NEW a \in Algorithms, LoadKey(a) PROVE IdentityInv'
  <2>0. file' = file /\ at = <<"load", a>> /\ file \in [Algorithms -> KeyFiles]
      BY <1>5 DEF LoadKey, IdentityInv, SensorTypeOK
  <2>1. CASE file[a] \in Nat /\ Got(a, file[a])
    <3>1. file' = [file EXCEPT ![a] = file[a]]
        BY <2>0
    <3> QED
        BY <2>0, <2>1, <3>1, GotKeeps
  <2>2. CASE file[a] = Torn /\ Missed(a)
      BY <2>0, <2>2, MissedKeeps
  <2>3. CASE file[a] = Absent /\ Draw(a)
      BY <2>0, <2>3, DrawKeeps
  <2> QED
      BY <1>5, <2>1, <2>2, <2>3 DEF LoadKey
<1>6. ASSUME NEW a \in Algorithms, CreateKeyFile(a) PROVE IdentityInv'
  <2>0. /\ at = <<"create", a>> /\ file \in [Algorithms -> KeyFiles] /\ UNCHANGED hurt
        /\ file[a] = Absent \/ hurt
      BY <1>6 DEF CreateKeyFile, IdentityInv, SensorTypeOK
  <2>1. CASE file[a] = Absent /\ file' = [file EXCEPT ![a] = Torn] /\ at' = <<"write", a>>
             /\ UNCHANGED <<loaded, served>>
    <3>1. file'[a] = Torn /\ \A b \in Algorithms \ {a} : file'[b] = file[b]
        BY <2>0, <2>1
    <3>2. \A b \in Algorithms : file[b] \in Nat => file'[b] = file[b]
        BY <2>1, <3>1
    <3>3. \A b \in Algorithms : at' = <<"write", b>> => b = a
        BY <2>1
    <3>4. at' # <<"serving">> /\ \A b \in Algorithms : at' # <<"create", b>> /\ at' # <<"load", b>>
        BY <2>1
    <3>5. a = "rsa" => loaded["ed25519"] \in Nat
        BY <2>0 DEF IdentityInv
    <3> QED
        BY <2>1, <3>1, <3>2, <3>3, <3>4, <3>5 DEF IdentityInv, Algorithms
  <2>2. CASE file[a] # Absent /\ Missed(a) /\ file' = file
      BY <2>0, <2>2, MissedKeeps
  <2> QED
      BY <1>6, <2>1, <2>2 DEF CreateKeyFile
<1>7. ASSUME NEW a \in Algorithms, WriteKeyFile(a) PROVE IdentityInv'
  <2>1. /\ at = <<"write", a>> /\ file' = [file EXCEPT ![a] = made] /\ Got(a, made)
        /\ made \in Nat
      BY <1>7 DEF WriteKeyFile, IdentityInv, SensorTypeOK
  <2>2. file[a] \notin Nat
      BY <2>1 DEF IdentityInv
  <2> QED
      BY <2>1, <2>2, GotKeeps
<1>8. ASSUME NEW a \in Algorithms, DiskError(a) PROVE IdentityInv'
  <2>1. hurt' /\ UNCHANGED file
      BY <1>8 DEF DiskError
  <2>2. CASE at = <<"load", a>> /\ Draw(a)
      BY <2>1, <2>2, DrawKeeps
  <2>3. CASE at \in {<<"load", a>>, <<"create", a>>, <<"write", a>>} /\ Missed(a)
      BY <2>1, <2>3, MissedKeeps
  <2> QED
      BY <1>8, <2>2, <2>3 DEF DiskError
<1>9. CASE UNCHANGED sensorVars
    BY <1>1, <1>9 DEF sensorVars
<1> QED
    BY <1>2, <1>3, <1>4, <1>5, <1>6, <1>7, <1>8, <1>9 DEF SensorNext, KeyStep

(* The sensor shows one key of each algorithm, ever, and at most two         *)
(* identities, of which a start without errors shows the one with both keys  *)
(* once it was shown, for any kills and disk errors.                         *)
THEOREM IdentityAlwaysHolds == SensorSpec => []IdentityHolds
<1> DEFINE Inv == LogInv /\ IdentityInv
<1>1. SensorInit => Inv
  <2>1. SensorInit => IdentityInv
    <3> SUFFICES ASSUME SensorInit PROVE IdentityInv
        OBVIOUS
    <3>1. SensorTypeOK
        BY LogInitInv DEF LogInv
    <3> QED
        BY <3>1 DEF SensorInit, IdentityInv, NoKeys, Algorithms
  <2> QED
      BY <2>1, LogInitInv
<1>2. Inv /\ [SensorNext]_sensorVars => Inv'
  <2> SUFFICES ASSUME Inv, [SensorNext]_sensorVars PROVE Inv'
      OBVIOUS
  <2>1. LogInv'
      BY LogStep
  <2> QED
      BY <2>1, IdentityStep DEF LogInv
<1>3. Inv => IdentityHolds
  <2> SUFFICES ASSUME Inv PROVE IdentityHolds
      OBVIOUS
  <2>1. ASSUME NEW x \in Identities, NEW y \in Identities, x["ed25519"] = y["ed25519"], x["rsa"] = y["rsa"]
        PROVE  x = y
      BY <2>1 DEF Identities, Algorithms
  <2>2. \A x \in served : x \in Identities /\ x["ed25519"] = file["ed25519"] /\ x["rsa"] \in {file["rsa"], Absent}
      BY DEF IdentityInv, Identities, Algorithms
  <2>3. \A x, y, z \in served : x = y \/ y = z \/ x = z
      BY <2>1, <2>2
  <2>4. ASSUME at = <<"serving">>, ~hurt, NEW x \in served, x["rsa"] \in Nat PROVE loaded = x
    <3>1. loaded \in Identities /\ loaded["ed25519"] = file["ed25519"] /\ file["rsa"] = x["rsa"]
        BY <2>4 DEF IdentityInv, SensorTypeOK, Identities, Algorithms
    <3>2. loaded["rsa"] = file["rsa"]
        BY <2>4, <3>1 DEF IdentityInv, Algorithms
    <3> QED
        BY <2>1, <2>2, <3>1, <3>2
  <2>5. FingerprintStable
      BY DEF IdentityInv, FingerprintStable
  <2> QED
      BY <2>3, <2>4, <2>5 DEF IdentityHolds, IdentitySettles
<1> QED
    BY <1>1, <1>2, <1>3, PTL DEF SensorSpec

-----------------------------------------------------------------------------
(* The login. *)

(* Who is not in has given no password at or after accept_after; an open     *)
(* connection has attempts left.                                             *)
LoginInv ==
    /\ auth \in [mode : Modes, accept_after : 1..MaxAuthAttempts]
    /\ conn \in [auth_attempts : 0..MaxAuthAttempts, outcome : {"open", "in", "cut"},
                 guesses : SUBSET (1..MaxAuthAttempts)]
    /\ conn.outcome = "open" => conn.auth_attempts < MaxAuthAttempts
    /\ conn.outcome = "cut" => conn.auth_attempts = MaxAuthAttempts
    /\ auth.mode = "accept_after" =>
         /\ conn.outcome = "in" => conn.auth_attempts >= auth.accept_after
         /\ conn.outcome # "in" => \A n \in conn.guesses : n < auth.accept_after

(* Every attempt keeps it. *)
LEMMA LoginStep ==
    ASSUME LoginInv, [LoginNext]_loginVars
    PROVE  LoginInv'
<1> USE LoginAssumption
<1>1. CASE AuthPublickey
  <2> DEFINE n == conn.auth_attempts + 1
  <2>1. /\ conn.outcome = "open" /\ UNCHANGED auth /\ n \in 1..MaxAuthAttempts
        /\ conn' = [conn EXCEPT !.auth_attempts = n, !.outcome = Rejected(n)]
      BY <1>1 DEF AuthPublickey, LoginInv
  <2>0. Rejected(n) \in {"open", "cut"}
      BY DEF Rejected
  <2>2. /\ conn'.auth_attempts = n /\ conn'.outcome = Rejected(n) /\ conn'.guesses = conn.guesses
        /\ conn' \in [auth_attempts : 0..MaxAuthAttempts, outcome : {"open", "in", "cut"},
                      guesses : SUBSET (1..MaxAuthAttempts)]
    <3> DEFINE r == Rejected(n)
    <3> HIDE DEF r, n
    <3>1. /\ conn' = [conn EXCEPT !.auth_attempts = n, !.outcome = r]
          /\ r \in {"open", "in", "cut"} /\ n \in 0..MaxAuthAttempts
        BY <2>0, <2>1 DEF r
    <3>2. conn \in [auth_attempts : 0..MaxAuthAttempts, outcome : {"open", "in", "cut"},
                    guesses : SUBSET (1..MaxAuthAttempts)]
        BY DEF LoginInv
    <3> QED
        BY <3>1, <3>2 DEF r
  <2>3. /\ conn'.outcome = "open" => n < MaxAuthAttempts
        /\ conn'.outcome = "cut" => n = MaxAuthAttempts
        /\ conn'.outcome # "in"
      BY <2>1, <2>2 DEF Rejected
  <2> QED
      BY <2>1, <2>2, <2>3 DEF LoginInv
<1>2. ASSUME NEW listed \in BOOLEAN, AuthPassword(listed) PROVE LoginInv'
  <2> DEFINE n == conn.auth_attempts + 1
             accepted == DecideAuth(n, listed)
  <2>1. /\ conn.outcome = "open" /\ UNCHANGED auth /\ n \in 1..MaxAuthAttempts
        /\ conn' = [auth_attempts |-> n, guesses |-> conn.guesses \cup {n},
                    outcome |-> IF accepted THEN "in" ELSE Rejected(n)]
      BY <1>2 DEF AuthPassword, LoginInv
  <2>2. auth.mode = "accept_after" => (accepted <=> n >= auth.accept_after)
      BY DEF DecideAuth, LoginInv, Modes
  <2> HIDE DEF accepted
  <2>3. /\ conn'.auth_attempts = n /\ conn'.guesses = conn.guesses \cup {n}
        /\ conn'.outcome = (IF accepted THEN "in" ELSE Rejected(n))
        /\ conn' \in [auth_attempts : 0..MaxAuthAttempts, outcome : {"open", "in", "cut"},
                      guesses : SUBSET (1..MaxAuthAttempts)]
      BY <2>1 DEF LoginInv, Rejected
  <2>4. /\ conn'.outcome = "open" => n < MaxAuthAttempts
        /\ conn'.outcome = "cut" => n = MaxAuthAttempts
        /\ conn'.outcome = "in" <=> accepted
      BY <2>1, <2>3 DEF Rejected
  <2>5. \A m \in conn'.guesses : m \in conn.guesses \/ m = n
      BY <2>3
  <2>6. ASSUME auth.mode = "accept_after", conn'.outcome # "in", NEW m \in conn'.guesses
        PROVE  m < auth.accept_after
      BY <2>1, <2>2, <2>4, <2>5, <2>6 DEF LoginInv
  <2> QED
      BY <2>1, <2>2, <2>3, <2>4, <2>6 DEF LoginInv
<1>3. CASE UNCHANGED loginVars
    BY <1>3 DEF loginVars, LoginInv
<1> QED
    BY <1>1, <1>2, <1>3 DEF LoginNext

(* accept_after lets the client in at that attempt, not before, and never    *)
(* cuts it off first, for every value Config::validate admits.               *)
THEOREM AcceptAfterWorks == LoginSpec => []NthAttemptIsAccepted
<1>1. LoginInit => LoginInv
    BY LoginAssumption DEF LoginInit, LoginInv
<1>2. LoginInv /\ [LoginNext]_loginVars => LoginInv'
    BY LoginStep
<1>3. LoginInv => NthAttemptIsAccepted
    BY DEF LoginInv, NthAttemptIsAccepted
<1> QED
    BY <1>1, <1>2, <1>3, PTL DEF LoginSpec
=============================================================================
