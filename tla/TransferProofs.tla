--------------------------- MODULE TransferProofs ---------------------------
(***************************************************************************)
(* What a transfer records, for every cap, path and client: an SFTP        *)
(* capture that is not flagged is complete, no written file leaves the     *)
(* session without becoming an upload, and an SCP file's record says what  *)
(* was kept of it.  Then what it holds and where it writes: the session's  *)
(* budget and the tree are kept, and a mirror lands at its upload's path.  *)
(***************************************************************************)
EXTENDS Transfers, VfsProofs, FoldTheorems

USE MirrorAssumption, SftpAssumption, ScpAssumption

-----------------------------------------------------------------------------
(* SFTP: what a handle holds. *)

Fields == {"kind", "path", "len", "size", "truncated", "kept", "sent"}

WriteTyped(hd) ==
    /\ Fields \subseteq DOMAIN hd
    /\ hd.len \in 0 .. MaxUpload /\ hd.truncated \in BOOLEAN

(* A write handle keeps what it has within its length, and all that was sent *)
(* or the flag; nothing is ever sent to the others.                          *)
HandleInv(hd) ==
    /\ hd.kind = "write" => /\ WriteTyped(hd)
                            /\ hd.kept \subseteq 0 .. (hd.len - 1)
                            /\ ~hd.truncated => hd.sent \subseteq hd.kept
    /\ hd.kind # "write" => Fields \subseteq DOMAIN hd /\ hd.sent = {}

UploadInv(u) == ~u.truncated => u.sent \subseteq u.kept /\ u.kept \subseteq 0 .. (u.len - 1)

CaptureInv ==
    /\ \A i \in DOMAIN handles : HandleInv(handles[i])
    /\ \A u \in completed : UploadInv(u)

(* WRITE, in the handle: the cut at the file's cap, the hole before a sparse *)
(* write and the refusal by the session's budget all keep the invariant.     *)
LEMMA WrittenKeeps ==
    ASSUME NEW hd, HandleInv(hd), hd.kind = "write", NEW off \in Nat, NEW n \in Nat
    PROVE  HandleInv(Written(hd, off, n))
<1> DEFINE end   == IF off + n <= MaxUpload THEN off + n ELSE MaxUpload
           extra == IF end > hd.len THEN end - hd.len ELSE 0
           fits  == /\ off + n <= MaxUpload \/ off < MaxUpload
                    /\ extra <= BufferCap - buffered_bytes
           new   == Written(hd, off, n)
<1>1. /\ WriteTyped(hd) /\ hd.kept \subseteq 0 .. (hd.len - 1)
      /\ ~hd.truncated => hd.sent \subseteq hd.kept
      BY DEF HandleInv
<1>2. /\ end \in 0 .. MaxUpload /\ extra \in Nat /\ hd.len + extra \in 0 .. MaxUpload
      /\ end <= hd.len + extra /\ hd.len <= hd.len + extra
      BY <1>1 DEF WriteTyped, Fields
<1>3. /\ new.kind = "write" /\ DOMAIN new = DOMAIN hd
      /\ new.sent = hd.sent \cup (off .. (off + n - 1))
      /\ new.truncated = (hd.truncated \/ off + n > MaxUpload \/ ~fits)
      /\ new.len = IF fits THEN hd.len + extra ELSE hd.len
      /\ new.kept = IF fits THEN hd.kept \cup (off .. (end - 1)) ELSE hd.kept
      BY <1>1 DEF Written, WriteTyped, Fields
<1>4. /\ off + n <= MaxUpload => end = off + n
      /\ hd.len \in 0 .. MaxUpload /\ hd.truncated \in BOOLEAN /\ fits \in BOOLEAN
      BY <1>1 DEF WriteTyped, Fields
<1> HIDE DEF end, extra, fits, new
<1>5. WriteTyped(new)
  <2>1. new.len \in 0 .. MaxUpload
        BY <1>2, <1>3, <1>4
  <2>2. new.truncated \in BOOLEAN
        BY <1>3, <1>4
  <2> QED BY <2>1, <2>2, <1>1, <1>3 DEF WriteTyped
<1>6. new.kept \subseteq 0 .. (new.len - 1)
  <2>1. CASE fits
    <3>1. off .. (end - 1) \subseteq 0 .. (hd.len + extra - 1)
          BY <1>2, <1>4
    <3>2. 0 .. (hd.len - 1) \subseteq 0 .. (hd.len + extra - 1)
          BY <1>2, <1>4
    <3>3. new.kept = hd.kept \cup (off .. (end - 1)) /\ new.len = hd.len + extra
          BY <2>1, <1>3
    <3>4. hd.kept \subseteq 0 .. (hd.len - 1)
          BY <1>1
    <3>5. new.kept \subseteq 0 .. (hd.len + extra - 1)
          BY <3>1, <3>2, <3>3, <3>4
    <3> QED BY <3>3, <3>5, <1>2, <1>4
  <2>2. CASE ~fits
        BY <2>2, <1>1, <1>3
  <2> QED BY <2>1, <2>2
<1>7. ASSUME ~new.truncated PROVE new.sent \subseteq new.kept
  <2>1. ~hd.truncated /\ fits /\ ~(off + n > MaxUpload)
        BY <1>7, <1>3, Zenon
  <2>2. end = off + n
        BY <2>1, <1>4
  <2> QED BY <2>1, <2>2, <1>1, <1>3
<1> QED BY <1>3, <1>5, <1>6, <1>7 DEF HandleInv, new

(* Opening adds one handle and changes no other. *)
LEMMA OpenedKeeps ==
    ASSUME CaptureInv, NEW hd, HandleInv(hd), Opened(hd), UNCHANGED completed
    PROVE  CaptureInv'
<1>1. /\ DOMAIN handles' = DOMAIN handles \cup {next_handle}
      /\ handles'[next_handle] = hd
      /\ \A i \in DOMAIN handles \ {next_handle} : handles'[i] = handles[i]
      BY DEF Opened
<1>2. \A i \in DOMAIN handles' : HandleInv(handles'[i])
      BY <1>1 DEF CaptureInv
<1>3. \A u \in completed' : UploadInv(u)
      BY DEF CaptureInv
<1> QED BY <1>2, <1>3 DEF CaptureInv, HandleInv, WriteTyped, UploadInv

LEMMA NewHandleInv ==
    ASSUME NEW kind, NEW path, NEW len, kind = "write" => len = 0
    PROVE  HandleInv(NewHandle(kind, path, len))
BY DEF HandleInv, NewHandle, WriteTyped, Fields

(* An upload carries over what its handle guarantees. *)
LEMMA UploadKeeps ==
    ASSUME CaptureInv, NEW i \in DOMAIN handles, handles[i].kind = "write"
    PROVE  UploadInv(Upload(i))
BY DEF CaptureInv, HandleInv, UploadInv, Upload

LEMMA SameKeeps ==
    ASSUME CaptureInv, UNCHANGED handles, completed' \subseteq completed
    PROVE  CaptureInv'
BY DEF CaptureInv

-----------------------------------------------------------------------------
LEMMA CaptureInitially == TransfersInit => CaptureInv
BY DEF TransfersInit, SftpInit, NoHandles, CaptureInv

LEMMA CaptureStep ==
    ASSUME CaptureInv, [TransfersNext]_transferVars
    PROVE  CaptureInv'
<1>1. CASE SftpStep
  <2>1. ASSUME NEW n \in 0 .. MaxPipelined, Frame(n) PROVE CaptureInv'
        BY <2>1, SameKeeps DEF Frame, openVars
  <2>2. CASE FeedEnds
        BY <2>2, SameKeeps DEF FeedEnds
  <2>3. CASE Oversized
        BY <2>3, SameKeeps DEF Oversized
  <2>4. CASE Ignored
        BY <2>4, SameKeeps DEF Ignored, openVars
  <2>5. CASE Answer
        BY <2>5, SameKeeps DEF Answer, openVars
  <2>6. CASE Drain
    <3>1. \A u \in completed' : UploadInv(u)
          BY <2>6, UploadKeeps DEF Drain, Pending, CaptureInv
    <3>2. DOMAIN handles' = {}
          BY <2>6 DEF Drain, NoHandles
    <3> QED BY <3>1, <3>2 DEF CaptureInv, UploadInv
  <2>7. ASSUME NEW path \in Paths,
               \/ OpenWrite(path) \/ OpenRead(path) \/ OpenDir(path)
               \/ Remove(path) \/ MakeDir(path) \/ SymLink(path) \/ RemoveDir(path)
               \/ \E new \in Paths : RenamePath(path, new)
        PROVE  CaptureInv'
    <3>1. CASE OpenWrite(path)
      <4>1. HandleInv(NewHandle("write", path, 0))
            BY NewHandleInv
      <4> QED BY <3>1, <4>1, OpenedKeeps DEF OpenWrite
    <3>2. CASE OpenRead(path)
      <4>1. PICK len : Opened(NewHandle("read", path, len)) /\ UNCHANGED completed
            BY <3>2 DEF OpenRead
      <4>2. HandleInv(NewHandle("read", path, len))
            BY NewHandleInv
      <4> QED BY <4>1, <4>2, OpenedKeeps
    <3>3. CASE OpenDir(path)
      <4>1. PICK size : Opened([NewHandle("dir", path, 0) EXCEPT !.size = size]) /\ UNCHANGED completed
            BY <3>3 DEF OpenDir
      <4>2. HandleInv([NewHandle("dir", path, 0) EXCEPT !.size = size])
            BY DEF HandleInv, NewHandle, WriteTyped, Fields
      <4> QED BY <4>1, <4>2, OpenedKeeps
    <3>4. CASE \/ Remove(path) \/ MakeDir(path) \/ SymLink(path) \/ RemoveDir(path)
               \/ \E new \in Paths : RenamePath(path, new)
      <4>1. UNCHANGED openVars
            BY <3>4 DEF Remove, MakeDir, SymLink, RemoveDir, RenamePath, TreePacket
      <4> QED BY <4>1, SameKeeps DEF openVars
    <3> QED BY <2>7, <3>1, <3>2, <3>3, <3>4
  <2>8. ASSUME NEW i \in DOMAIN handles, ReadDir(i) PROVE CaptureInv'
    <3> DEFINE new == handles'[i]
    <3>1. /\ DOMAIN handles' = DOMAIN handles /\ completed' = completed
          /\ \A j \in DOMAIN handles \ {i} : handles'[j] = handles[j]
          BY <2>8 DEF ReadDir
    <3>2. HandleInv(handles[i]) /\ handles[i].kind = "dir"
          BY <2>8 DEF ReadDir, CaptureInv
    <3>3. DOMAIN new = DOMAIN handles[i] /\ new.kind = "dir" /\ new.sent = {}
          BY <2>8, <3>2 DEF ReadDir, HandleInv, Fields
    <3>4. HandleInv(new)
          BY <3>2, <3>3 DEF HandleInv
    <3> QED BY <3>1, <3>4 DEF CaptureInv, HandleInv, WriteTyped, UploadInv
  <2>9. ASSUME NEW i \in DOMAIN handles, NEW off \in Offsets, NEW n \in Chunks, Write(i, off, n)
        PROVE  CaptureInv'
    <3>1. /\ DOMAIN handles' = DOMAIN handles /\ completed' = completed
          /\ handles'[i] = Written(handles[i], off, n)
          /\ \A j \in DOMAIN handles \ {i} : handles'[j] = handles[j]
          BY <2>9 DEF Write
    <3>2. HandleInv(handles[i]) /\ handles[i].kind = "write" /\ off \in Nat /\ n \in Nat
          BY <2>9 DEF Write, CaptureInv
    <3>3. HandleInv(handles'[i])
          BY <3>1, <3>2, WrittenKeeps
    <3> QED BY <3>1, <3>3 DEF CaptureInv, HandleInv, WriteTyped, UploadInv
  <2>10. ASSUME NEW i \in DOMAIN handles, Close(i) PROVE CaptureInv'
    <3>1. \A u \in completed' : UploadInv(u)
          BY <2>10, UploadKeeps DEF Close, CaptureInv
    <3>2. \A j \in DOMAIN handles' : j \in DOMAIN handles /\ handles'[j] = handles[j]
          BY <2>10 DEF Close, Without
    <3> QED BY <3>1, <3>2 DEF CaptureInv, HandleInv, WriteTyped, UploadInv
  <2> QED BY <1>1, <2>1, <2>2, <2>3, <2>4, <2>5, <2>6, <2>7, <2>8, <2>9, <2>10 DEF SftpStep
<1>2. CASE UNCHANGED sftpVars
      BY <1>2, SameKeeps DEF sftpVars, openVars
<1> QED BY <1>1, <1>2 DEF TransfersNext, TransferOver, transferVars

(* For every cap, path, offset and order of requests: a capture that is not  *)
(* flagged as truncated holds every byte the client wrote.                   *)
THEOREM CapturesAreComplete == TransfersSpec => []TruncationIsTold
<1>1. CaptureInv => TruncationIsTold
      BY DEF CaptureInv, TruncationIsTold, HandleInv, UploadInv
<1> QED BY <1>1, CaptureInitially, CaptureStep, PTL DEF TransfersSpec

-----------------------------------------------------------------------------
(* SFTP: how a written file leaves the session. *)

LEMMA LeavesAsUpload ==
    ASSUME [TransfersNext]_transferVars,
           NEW i \in DOMAIN handles, i \notin DOMAIN handles',
           handles[i].kind = "write", handles[i].size > 0
    PROVE  Upload(i) \in completed'
<1>1. CASE SftpStep
  <2>1. ~ \E n \in 0 .. MaxPipelined : Frame(n)
        BY DEF Frame, openVars
  <2>2. ~FeedEnds /\ ~Oversized /\ ~Ignored /\ ~Answer
        BY DEF FeedEnds, Oversized, Ignored, Answer, openVars
  <2>3. CASE Drain
        BY <2>3 DEF Drain, Pending
  <2>4. ASSUME NEW path \in Paths PROVE ~OpenWrite(path) /\ ~OpenRead(path) /\ ~OpenDir(path)
        BY DEF OpenWrite, OpenRead, OpenDir, Opened
  <2>5. ASSUME NEW path \in Paths
        PROVE  /\ ~Remove(path) /\ ~MakeDir(path) /\ ~SymLink(path) /\ ~RemoveDir(path)
               /\ ~ \E new \in Paths : RenamePath(path, new)
        BY DEF Remove, MakeDir, SymLink, RemoveDir, RenamePath, TreePacket, openVars
  <2>6. ASSUME NEW j \in DOMAIN handles PROVE ~ReadDir(j)
        BY DEF ReadDir
  <2>7. ASSUME NEW j \in DOMAIN handles, NEW off \in Offsets, NEW n \in Chunks
        PROVE  ~Write(j, off, n)
        BY DEF Write
  <2>8. ASSUME NEW j \in DOMAIN handles, Close(j) PROVE Upload(i) \in completed'
    <3>1. j = i
          BY <2>8 DEF Close, Without
    <3> QED BY <2>8, <3>1 DEF Close
  <2> QED BY <1>1, <2>1, <2>2, <2>3, <2>4, <2>5, <2>6, <2>7, <2>8 DEF SftpStep
<1>2. CASE UNCHANGED sftpVars
      BY <1>2 DEF sftpVars, openVars
<1> QED BY <1>1, <1>2 DEF TransfersNext, TransferOver, transferVars

(* Whatever the arena's caps make of its mirror, a file the client wrote to  *)
(* leaves the session only as an upload.                                     *)
THEOREM WritesAreUploaded == TransfersSpec => WritesBecomeUploads
<1>1. [TransfersNext]_transferVars =>
        [\A i \in DOMAIN handles \ DOMAIN handles' :
           handles[i].kind = "write" /\ handles[i].size > 0 => Upload(i) \in completed']_<<sftpVars, fs>>
      BY LeavesAsUpload
<1> QED BY <1>1, PTL DEF TransfersSpec, WritesBecomeUploads

-----------------------------------------------------------------------------
(* SCP: while a body arrives, what is kept is the prefix up to the cap. *)
FileInv ==
    file # NoFile =>
        /\ {"name", "size", "remaining", "len", "truncated"} \subseteq DOMAIN file
        /\ file.size \in Nat /\ file.remaining \in 0 .. file.size
        /\ file.len = IF file.size - file.remaining <= MaxUpload
                      THEN file.size - file.remaining ELSE MaxUpload
        /\ file.truncated <=> file.size - file.remaining > MaxUpload

ScpInv == FileInv /\ ScpCapturesPrefix

LEMMA ScpStepKeeps ==
    ASSUME ScpInv, [TransfersNext]_transferVars
    PROVE  ScpInv'
<1>1. CASE ScpStep
  <2>1. ASSUME NEW n \in Names, NEW size \in Sizes, ControlC(n, size) PROVE ScpInv'
    <3>1. /\ file'.size = size /\ file'.remaining = size /\ file'.len = 0 /\ ~file'.truncated
          /\ DOMAIN file' = {"name", "size", "remaining", "len", "truncated"} /\ reports' = {}
          BY <2>1 DEF ControlC
    <3>2. size \in Nat /\ size - size = 0
          OBVIOUS
    <3> QED BY <3>1, <3>2 DEF ScpInv, FileInv, ScpCapturesPrefix
  <2>2. CASE UNCHANGED <<file, reports>>
        BY <2>2 DEF ScpInv, FileInv, ScpCapturesPrefix
  <2>3. CASE BodyByte
    <3>1. /\ file # NoFile /\ file.remaining > 0 /\ reports' = reports
          /\ DOMAIN file' = DOMAIN file
          /\ file'.size = file.size /\ file'.remaining = file.remaining - 1
          /\ file'.len = IF file.len < MaxUpload THEN file.len + 1 ELSE file.len
          /\ file'.truncated <=> file.truncated \/ file.len >= MaxUpload
          BY <2>3 DEF BodyByte, ScpInv, FileInv
    <3> DEFINE done == file.size - file.remaining
    <3>2. /\ file.size \in Nat /\ file.remaining \in 1 .. file.size /\ done \in Nat
          /\ file'.size - file'.remaining = done + 1
          /\ file.len = IF done <= MaxUpload THEN done ELSE MaxUpload
          /\ file.truncated <=> done > MaxUpload
          BY <3>1 DEF ScpInv, FileInv
    <3>3. /\ file'.len = IF done + 1 <= MaxUpload THEN done + 1 ELSE MaxUpload
          /\ file'.truncated <=> done + 1 > MaxUpload
          BY <3>1, <3>2
    <3>4. FileInv'
          BY <3>1, <3>2, <3>3 DEF ScpInv, FileInv
    <3> QED BY <3>1, <3>4 DEF ScpInv, ScpCapturesPrefix
  <2>4. CASE BodyEnds
    <3>1. \A r \in reports' : /\ r.size = file.size /\ r.len = file.len
                              /\ r.truncated = file.truncated
          BY <2>4 DEF BodyEnds
    <3>2. /\ file.size \in Nat /\ file.remaining = 0
          /\ file.len = IF file.size <= MaxUpload THEN file.size ELSE MaxUpload
          /\ file.truncated <=> file.size > MaxUpload
          BY <2>4 DEF BodyEnds, ScpInv, FileInv
    <3>3. ScpCapturesPrefix'
          BY <3>1, <3>2 DEF ScpCapturesPrefix
    <3> QED BY <2>4, <3>3 DEF BodyEnds, ScpInv, FileInv
  <2>5. CASE ScpEnds
        BY <2>5 DEF ScpEnds, ScpInv, FileInv, ScpCapturesPrefix
  <2> QED BY <1>1, <2>1, <2>2, <2>3, <2>4, <2>5 DEF ScpStep, ControlD, ControlE, OverlongLine
<1>2. CASE UNCHANGED scpVars
      BY <1>2 DEF scpVars, ScpInv, FileInv, ScpCapturesPrefix
<1> QED BY <1>1, <1>2 DEF TransfersNext, TransferOver, transferVars

(* For every cap and every size a client announces: the record of an SCP     *)
(* file says truthfully whether all of it was kept.                          *)
THEOREM ScpRecordsAreTrue == TransfersSpec => []ScpCapturesPrefix
<1>1. TransfersInit => ScpInv
      BY DEF TransfersInit, ScpInit, ScpInv, FileInv, ScpCapturesPrefix
<1>2. ScpInv => ScpCapturesPrefix
      BY DEF ScpInv
<1> QED BY <1>1, <1>2, ScpStepKeeps, PTL DEF TransfersSpec

(* What is recorded of a file, over either protocol, is true. *)
THEOREM TransfersCapturesTrue == TransfersSpec => []CapturesTrue
BY CapturesAreComplete, ScpRecordsAreTrue, PTL DEF CapturesTrue

-----------------------------------------------------------------------------
(* Paths.  Path lookup, mkdir_p and the drain walk a path or the handles one *)
(* step at a time; the arena they walk stays good and the nodes they find    *)
(* are nodes of it.                                                          *)

Somewhere(f) == Nodes(f) \cup {None}

(* A step of resolve stays in the arena. *)
LEMMA FollowStays ==
    ASSUME NEW f, GoodArena(f), NEW i \in Nodes(f), NEW n \in Names
    PROVE  Follow(f, Child(f, i, n)) \in Somewhere(f)
<1>1. \A j \in Nodes(f), m \in Names : Child(f, j, m) \in Somewhere(f)
    BY ChildIsNode DEF Somewhere
<1>2. Root \in Nodes(f) /\ Target \in Names
    BY VfsAssumption DEF GoodArena, TypeIn, Nodes, Ids, Root, Arenas
<1> QED
    BY <1>1, <1>2 DEF Follow, Somewhere

LEMMA StepStays ==
    ASSUME NEW f, GoodArena(f), NEW i \in Nodes(f), NEW n \in Names
    PROVE  StepTo(f, i, n) \in Somewhere(f)
<1>1. Follow(f, Child(f, i, n)) \in Somewhere(f)
    BY FollowStays
<1>2. i # Root => f.parent[i] \in Nodes(f)
    BY DEF GoodArena, TypeIn
<1> QED
    BY <1>1, <1>2 DEF StepTo, Somewhere

IsResolve(w, f, path) ==
    w = [k \in 0 .. Len(path) |->
           IF k = 0 THEN Root
           ELSE IF w[k - 1] = None THEN None
           ELSE StepTo(f, w[k - 1], path[k])]

(* resolve finds a node of the arena or nothing. *)
LEMMA ResolveStays ==
    ASSUME NEW f, GoodArena(f), NEW path \in Seq(Names)
    PROVE  Resolve(f, path) \in Somewhere(f)
<1> DEFINE S == Somewhere(f)
           n == Len(path)
           G == [k \in 1 .. n |-> [i \in S |->
                   IF i = None THEN None ELSE StepTo(f, i, path[k])]]
           walk == CHOOSE w : IsResolve(w, f, path)
<1>1. n \in Nat /\ \A k \in 1 .. n : path[k] \in Names
    OBVIOUS
<1>2. Root \in S /\ None \in S /\ \A i \in S : i # None => i \in Nodes(f)
    BY VfsAssumption DEF GoodArena, TypeIn, Nodes, Ids, Root, Arenas, Somewhere
<1>3. \A i \in S, k \in 1 .. n :
        (IF i = None THEN None ELSE StepTo(f, i, path[k])) \in S
    BY <1>1, <1>2, StepStays
<1> HIDE DEF S, n
<1>4. G \in [1 .. n -> [S -> S]]
    BY <1>3
<1>5. PICK v : IsWalk(v, S, Root, n, G)
  <2> HIDE DEF G
  <2> QED
      BY <1>1, <1>2, <1>4, WalkExists
<1>6. IsResolve(v, f, path)
  <2>1. v \in [0 .. n -> S] /\ v[0] = Root
      BY <1>5 DEF IsWalk
  <2>2. \A k \in 1 .. n : v[k] = IF v[k - 1] = None THEN None
                                 ELSE StepTo(f, v[k - 1], path[k])
    <3> TAKE k \in 1 .. n
    <3>1. k - 1 \in 0 .. n
        BY <1>1
    <3>2. v[k] = G[k][v[k - 1]] /\ v[k - 1] \in S
        BY <1>5, <2>1, <3>1 DEF IsWalk
    <3> QED
        BY <3>2
  <2>3. v = [k \in 0 .. n |-> v[k]]
      BY <2>1
  <2> HIDE DEF G
  <2>4. \A k \in 0 .. n : v[k] = IF k = 0 THEN Root
                                 ELSE IF v[k - 1] = None THEN None
                                 ELSE StepTo(f, v[k - 1], path[k])
    <3> TAKE k \in 0 .. n
    <3>1. CASE k = 0
        BY <2>1, <3>1
    <3>2. CASE k # 0
      <4>1. k \in 1 .. n
          BY <1>1, <3>2
      <4> QED
          BY <2>2, <3>2, <4>1
    <3> QED
        BY <3>1, <3>2
  <2>5. v = [k \in 0 .. n |-> IF k = 0 THEN Root
                              ELSE IF v[k - 1] = None THEN None
                              ELSE StepTo(f, v[k - 1], path[k])]
      BY <2>3, <2>4, Zenon
  <2> QED
      BY <2>5 DEF IsResolve, n
<1>7. IsResolve(walk, f, path)
    BY <1>6
<1>8. Resolve(f, path) = walk[n]
    BY DEF Resolve, IsResolve, n
<1> HIDE DEF walk, G
<1>9. walk[0] = Root /\ \A k \in 1 .. n : walk[k] = IF walk[k - 1] = None THEN None
                                 ELSE StepTo(f, walk[k - 1], path[k])
    BY <1>1, <1>7 DEF IsResolve, n
<1>10. \A k \in 0 .. n : walk[k] \in S
  <2>1. walk[0] \in S /\ \A k \in 1 .. n : walk[k - 1] \in S => walk[k] \in S
      BY <1>2, <1>3, <1>9
  <2> QED
      BY <1>1, <2>1, WalkStays
<1> QED
    BY <1>1, <1>8, <1>10 DEF S

(* mkdir gives a good arena and a node of it. *)
LEMMA MkdirStays ==
    ASSUME NEW f, GoodArena(f), NEW p \in Nodes(f), NEW n \in Names
    PROVE  /\ GoodArena(MkdirIn(f, p, n).arena)
           /\ MkdirIn(f, p, n).id \in Nodes(MkdirIn(f, p, n).arena)
<1>1. CASE Child(f, p, n) # None
    BY <1>1, ChildIsNode DEF MkdirIn
<1>2. CASE Child(f, p, n) = None
  <2> DEFINE made == Insert(f, p, n, "dir", 0)
  <2>1. MkdirIn(f, p, n) = made /\ GoodArena(made.arena)
      BY <1>2, InsertGood DEF MkdirIn
  <2>2. CASE IsFull(f, p)
      BY <2>1, <2>2 DEF Insert
  <2>3. CASE ~IsFull(f, p)
    <3>1. made.id = f.count /\ made.arena.count = f.count + 1
        BY <2>3 DEF Insert
    <3>2. f.count \in 0 .. (MaxNodes - 1)
        BY <2>3, VfsAssumption DEF IsFull, GoodArena, TypeIn, Arenas
    <3>3. made.id \in Nodes(made.arena)
        BY <3>1, <3>2 DEF Nodes, Ids
    <3> QED
        BY <2>1, <3>3
  <2> QED
      BY <2>2, <2>3
<1> QED
    BY <1>1, <1>2

GoodArenas == {f \in Arenas : GoodArena(f)}

(* Where mkdir_p may be: a good arena and, unless it gave up, a node of it.  *)
Places == {r \in [arena : GoodArenas, id : Ids \cup {None}] : r.id \in Somewhere(r.arena)}

MkdirPStep(r, n) ==
    IF r.id = None THEN r
    ELSE [arena |-> MkdirIn(r.arena, r.id, n).arena,
          id    |-> IF MkdirIn(r.arena, r.id, n).id = r.id THEN None
                    ELSE MkdirIn(r.arena, r.id, n).id]

(* A step of mkdir_p leads from place to place. *)
LEMMA MkdirPStays ==
    ASSUME NEW r \in Places, NEW n \in Names
    PROVE  MkdirPStep(r, n) \in Places
<1>1. r.arena \in GoodArenas /\ r.id \in Somewhere(r.arena)
    BY DEF Places
<1>2. CASE r.id = None
    BY <1>2 DEF MkdirPStep
<1>3. CASE r.id # None
  <2> DEFINE made == MkdirIn(r.arena, r.id, n)
  <2>1. GoodArena(r.arena) /\ r.id \in Nodes(r.arena)
      BY <1>1, <1>3 DEF GoodArenas, Somewhere
  <2>2. GoodArena(made.arena) /\ made.id \in Nodes(made.arena)
      BY <2>1, MkdirStays
  <2>3. made.arena \in GoodArenas /\ made.id \in Ids
      BY <2>2 DEF GoodArenas, GoodArena, TypeIn, Nodes
  <2>4. MkdirPStep(r, n) = [arena |-> made.arena, id |-> IF made.id = r.id THEN None ELSE made.id]
      BY <1>3 DEF MkdirPStep
  <2> HIDE DEF made
  <2> QED
      BY <2>2, <2>3, <2>4 DEF Places, Somewhere
<1> QED
    BY <1>2, <1>3

IsMkdirP(w, f, path) ==
    w = [k \in 0 .. Len(path) |->
           IF k = 0 THEN [arena |-> f, id |-> Root]
           ELSE IF w[k - 1].id = None THEN w[k - 1]
           ELSE LET made == MkdirIn(w[k - 1].arena, w[k - 1].id, path[k])
                IN  [arena |-> made.arena,
                     id    |-> IF made.id = w[k - 1].id THEN None ELSE made.id]]

WalksTo(w, f, path) ==
    /\ w[0] = [arena |-> f, id |-> Root] /\ w[Len(path)] = MkdirP(f, path)
    /\ \A k \in 1 .. Len(path) : w[k] = MkdirPStep(w[k - 1], path[k])
    /\ \A k \in 0 .. Len(path) : w[k] \in Places

(* mkdir_p walks through such places. *)
LEMMA MkdirPWalk ==
    ASSUME NEW f \in GoodArenas, NEW path \in Seq(Names)
    PROVE  \E w : WalksTo(w, f, path)
<1> DEFINE n == Len(path)
           a == [arena |-> f, id |-> Root]
           G == [k \in 1 .. n |-> [r \in Places |-> MkdirPStep(r, path[k])]]
           walk == CHOOSE w : IsMkdirP(w, f, path)
<1>1. n \in Nat /\ \A k \in 1 .. n : path[k] \in Names
    OBVIOUS
<1>2. a \in Places
    BY VfsAssumption DEF GoodArenas, GoodArena, TypeIn, Nodes, Ids, Root, Arenas, Somewhere, Places
<1>3. \A r \in Places, k \in 1 .. n : MkdirPStep(r, path[k]) \in Places
    BY <1>1, MkdirPStays
<1> HIDE DEF n, a
<1>4. G \in [1 .. n -> [Places -> Places]]
    BY <1>3
<1>5. PICK v : IsWalk(v, Places, a, n, G)
  <2> HIDE DEF G
  <2> QED
      BY <1>1, <1>2, <1>4, WalkExists
<1>6. IsMkdirP(v, f, path)
  <2>1. v \in [0 .. n -> Places] /\ v[0] = a
      BY <1>5 DEF IsWalk
  <2>2. \A k \in 1 .. n : v[k] = MkdirPStep(v[k - 1], path[k])
    <3> TAKE k \in 1 .. n
    <3>1. k - 1 \in 0 .. n
        BY <1>1
    <3>2. v[k] = G[k][v[k - 1]] /\ v[k - 1] \in Places
        BY <1>5, <2>1, <3>1 DEF IsWalk
    <3> QED
        BY <3>2
  <2>3. v = [k \in 0 .. n |-> IF k = 0 THEN a ELSE MkdirPStep(v[k - 1], path[k])]
      BY <1>1, <2>1, <2>2
  <2> QED
      BY <2>3 DEF IsMkdirP, MkdirPStep, n, a
<1>7. IsMkdirP(walk, f, path)
    BY <1>6
<1>8. MkdirP(f, path) = walk[n]
    BY DEF MkdirP, IsMkdirP, n
<1> HIDE DEF walk, G
<1>9. walk[0] = a /\ \A k \in 1 .. n : walk[k] = MkdirPStep(walk[k - 1], path[k])
  <2>1. walk = [k \in 0 .. n |-> IF k = 0 THEN a ELSE MkdirPStep(walk[k - 1], path[k])]
      BY <1>7, Zenon DEF IsMkdirP, MkdirPStep, n, a
  <2> QED
      BY <1>1, <2>1
<1>10. \A k \in 0 .. n : walk[k] \in Places
  <2>1. walk[0] \in Places /\ \A k \in 1 .. n : walk[k - 1] \in Places => walk[k] \in Places
      BY <1>2, <1>3, <1>9
  <2> QED
      BY <1>1, <2>1, WalkStays
<1>11. WalksTo(walk, f, path)
    BY <1>8, <1>9, <1>10, Zenon DEF WalksTo, n, a
<1> QED
    BY <1>11

(* mkdir_p ends in such a place. *)
LEMMA MkdirPGood ==
    ASSUME NEW f \in GoodArenas, NEW path \in Seq(Names)
    PROVE  MkdirP(f, path) \in Places
<1>1. PICK w : WalksTo(w, f, path)
    BY MkdirPWalk
<1> QED
    BY <1>1 DEF WalksTo

(* The directory part and the last name of a path. *)
LEMMA PathParts ==
    ASSUME NEW path \in Seq(Names) \ {<<>>}
    PROVE  Parent(path) \in Seq(Names) /\ Name(path) \in Names
BY DEF Parent, Name

(* The mirror of an upload leaves a good arena. *)
LEMMA MirrorGood ==
    ASSUME NEW f, GoodArena(f), NEW path \in Seq(Names) \ {<<>>}, NEW l \in Nat
    PROVE  GoodArena(MirrorAt(f, path, l).arena)
<1> DEFINE dir == MkdirP(f, Parent(path))
<1>1. f \in GoodArenas
    BY DEF GoodArenas, GoodArena, TypeIn
<1>2. dir \in Places
    BY <1>1, PathParts, MkdirPGood
<1>3. MirrorAt(f, path, l).arena = IF dir.id = None THEN dir.arena
                                   ELSE AddFile(dir.arena, dir.id, Name(path), l).arena
    BY DEF MirrorAt
<1> HIDE DEF dir
<1>4. GoodArena(dir.arena) /\ dir.id \in Somewhere(dir.arena)
    BY <1>2 DEF Places, GoodArenas
<1>5. CASE dir.id = None
    BY <1>3, <1>4, <1>5
<1>6. CASE dir.id # None
    BY <1>3, <1>4, <1>6, PathParts, AddFileGood DEF Somewhere
<1> QED
    BY <1>5, <1>6

-----------------------------------------------------------------------------
(* SFTP: the memory of a session. *)

FeedInv ==
    /\ sftp \in BOOLEAN /\ feeding \in BOOLEAN
    /\ buf \in Nat /\ out \in 0 .. FeedCap

Lens == [i \in DOMAIN handles |-> handles[i].len]
HeldBytes == SumFunctionOnSet(Lens, DOMAIN handles)

HandlesInv ==
    /\ next_handle \in Nat \ {0}
    /\ DOMAIN handles \subseteq 1 .. (next_handle - 1)
    /\ \A i \in DOMAIN handles : HandleOK(handles[i])
    /\ buffered_bytes = HeldBytes /\ buffered_bytes <= BufferCap

(* There are finitely many handles, and the sum of their lengths is a        *)
(* number.                                                                   *)
LEMMA HeldIsNat ==
    ASSUME HandlesInv
    PROVE  /\ IsFiniteSet(DOMAIN handles) /\ \A i \in DOMAIN handles : Lens[i] \in Nat
           /\ HeldBytes \in Nat /\ buffered_bytes \in Nat
<1>1. IsFiniteSet(1 .. (next_handle - 1))
    BY FS_Interval DEF HandlesInv
<1>2. IsFiniteSet(DOMAIN handles)
    BY <1>1, FS_Subset DEF HandlesInv
<1>3. \A i \in DOMAIN handles : Lens[i] \in Nat
    BY DEF HandlesInv, HandleOK, Lens
<1>4. HeldBytes \in Nat
    BY <1>2, <1>3, SumNat DEF HeldBytes
<1> QED
    BY <1>2, <1>3, <1>4 DEF HandlesInv

(* A handle that opens is charged for what it holds. *)
LEMMA OpenedCharged ==
    ASSUME HandlesInv, NEW hd, HandleOK(hd), Opened(hd),
           buffered_bytes' = buffered_bytes + hd.len, buffered_bytes + hd.len <= BufferCap
    PROVE  HandlesInv'
<1> DEFINE D == DOMAIN handles
<1>1. /\ DOMAIN handles' = D \cup {next_handle}
      /\ handles'[next_handle] = hd
      /\ \A i \in D : i # next_handle => handles'[i] = handles[i]
      /\ next_handle' = next_handle + 1
    BY DEF Opened
<1>2. next_handle \notin D /\ next_handle \in Nat
    BY DEF HandlesInv
<1>3. /\ \A i \in D : Lens'[i] = Lens[i] /\ Lens'[i] \in Nat
      /\ Lens'[next_handle] = hd.len /\ hd.len \in Nat
      /\ IsFiniteSet(D) /\ HeldBytes \in Nat
    BY <1>1, <1>2, HeldIsNat DEF Lens, HandleOK
<1>4. SumFunctionOnSet(Lens', D) = HeldBytes
    BY <1>3, SumSame DEF HeldBytes
<1>5. SumFunctionOnSet(Lens', D \cup {next_handle}) = hd.len + SumFunctionOnSet(Lens', D)
    BY <1>2, <1>3, SumAdd
<1>6. HeldBytes' = hd.len + HeldBytes
    BY <1>1, <1>4, <1>5 DEF HeldBytes
<1>7. buffered_bytes' = HeldBytes' /\ buffered_bytes' <= BufferCap
    BY <1>3, <1>6 DEF HandlesInv
<1>8. DOMAIN handles' \subseteq 1 .. (next_handle' - 1) /\ next_handle' \in Nat \ {0}
    BY <1>1, <1>2 DEF HandlesInv
<1>9. \A i \in DOMAIN handles' : HandleOK(handles'[i])
    BY <1>1 DEF HandlesInv
<1> QED
    BY <1>7, <1>8, <1>9 DEF HandlesInv, HandleOK

(* A change of one handle is charged by what its length changed. *)
LEMMA ChangeCharged ==
    ASSUME HandlesInv, NEW i \in DOMAIN handles, DOMAIN handles' = DOMAIN handles,
           HandleOK(handles'[i]), \A j \in DOMAIN handles \ {i} : handles'[j] = handles[j],
           buffered_bytes' = buffered_bytes + handles'[i].len - handles[i].len,
           buffered_bytes' <= BufferCap, UNCHANGED next_handle
    PROVE  HandlesInv'
<1> DEFINE D == DOMAIN handles
<1>1. /\ IsFiniteSet(D) /\ HeldBytes \in Nat
      /\ \A j \in D : Lens[j] \in Nat /\ Lens'[j] \in Nat
      /\ \A j \in D \ {i} : Lens'[j] = Lens[j]
      /\ Lens'[i] = handles'[i].len /\ Lens[i] = handles[i].len
    BY HeldIsNat DEF Lens, HandlesInv, HandleOK
<1>2. SumFunctionOnSet(Lens', D) - Lens'[i] = SumFunctionOnSet(Lens, D) - Lens[i]
    BY <1>1, SumChange
<1>3. SumFunctionOnSet(Lens', D) \in Nat
    BY <1>1, SumNat
<1>4. HeldBytes' = HeldBytes + Lens'[i] - Lens[i]
    BY <1>1, <1>2, <1>3 DEF HeldBytes
<1>5. buffered_bytes' = HeldBytes'
    BY <1>1, <1>4 DEF HandlesInv
<1>6. \A j \in DOMAIN handles' : HandleOK(handles'[j])
    BY DEF HandlesInv
<1> QED
    BY <1>5, <1>6 DEF HandlesInv, HandleOK

(* A handle that closes returns its bytes. *)
LEMMA CloseCharged ==
    ASSUME HandlesInv, NEW i \in DOMAIN handles, handles' = Without(i),
           buffered_bytes' = buffered_bytes - handles[i].len, UNCHANGED next_handle
    PROVE  HandlesInv'
<1> DEFINE D == DOMAIN handles
<1>1. DOMAIN handles' = D \ {i} /\ \A j \in D \ {i} : handles'[j] = handles[j]
    BY DEF Without
<1>2. /\ IsFiniteSet(D) /\ HeldBytes \in Nat /\ \A j \in D : Lens[j] \in Nat
      /\ Lens[i] = handles[i].len /\ IsFiniteSet(D \ {i})
      /\ \A j \in D \ {i} : Lens'[j] = Lens[j] /\ Lens'[j] \in Nat
    BY <1>1, HeldIsNat, FS_Subset DEF Lens
<1>3. HeldBytes = Lens[i] + SumFunctionOnSet(Lens, D \ {i})
    BY <1>2, SumRemove DEF HeldBytes
<1>4. HeldBytes' = SumFunctionOnSet(Lens, D \ {i})
    BY <1>1, <1>2, SumSame DEF HeldBytes
<1>5. SumFunctionOnSet(Lens, D \ {i}) \in Nat
    BY <1>2, SumNat
<1>6. buffered_bytes' = HeldBytes' /\ buffered_bytes' <= BufferCap
  <2>1. BufferCap \in Nat /\ buffered_bytes = HeldBytes /\ buffered_bytes <= BufferCap
      BY DEF BufferCap, HandlesInv
  <2> QED
      BY <1>2, <1>3, <1>4, <1>5, <2>1
<1>7. \A j \in DOMAIN handles' : HandleOK(handles'[j])
    BY <1>1 DEF HandlesInv
<1> QED
    BY <1>1, <1>6, <1>7 DEF HandlesInv, HandleOK

(* WRITE keeps a handle well typed, and grows it only within the budget. *)
LEMMA WrittenCharged ==
    ASSUME NEW hd, HandleInv(hd), HandleOK(hd), hd.kind = "write",
           NEW off \in Nat, NEW n \in Nat, buffered_bytes \in Nat, buffered_bytes <= BufferCap
    PROVE  /\ HandleOK(Written(hd, off, n))
           /\ buffered_bytes + Written(hd, off, n).len - hd.len <= BufferCap
<1> DEFINE end   == IF off + n <= MaxUpload THEN off + n ELSE MaxUpload
           extra == IF end > hd.len THEN end - hd.len ELSE 0
           fits  == /\ off + n <= MaxUpload \/ off < MaxUpload
                    /\ extra <= BufferCap - buffered_bytes
           new   == Written(hd, off, n)
<1>1. Fields \subseteq DOMAIN hd /\ hd.len \in Nat /\ hd.size \in Nat /\ BufferCap \in Nat
    BY DEF HandleInv, WriteTyped, HandleOK, BufferCap
<1>2. /\ new.kind = "write" /\ new.path = hd.path /\ new.size = hd.size + n
      /\ new.sent = hd.sent \cup (off .. (off + n - 1))
      /\ new.len = IF fits THEN hd.len + extra ELSE hd.len
    BY <1>1 DEF Written, Fields
<1>3. extra \in Nat
    BY <1>1
<1>4. HandleInv(new)
    BY WrittenKeeps
<1> HIDE DEF new, extra
<1>5. new.len \in Nat /\ new.truncated \in BOOLEAN /\ new.kept \subseteq Nat
    BY <1>2, <1>4 DEF HandleInv, WriteTyped
<1>6. new.sent \subseteq Nat
    BY <1>2 DEF HandleOK
<1>7. HandleOK(new)
    BY <1>1, <1>2, <1>5, <1>6 DEF HandleOK
<1>8. buffered_bytes + new.len - hd.len <= BufferCap
    BY <1>1, <1>2, <1>3
<1> QED
    BY <1>7, <1>8 DEF new

(* A directory lists finitely many names: each is the name of its own node.  *)
LEMMA ListingFinite ==
    ASSUME NEW f, GoodArena(f), NEW i \in Nodes(f)
    PROVE  Cardinality({n \in Names : f.children[i][n] # None}) \in Nat
<1> DEFINE L == {n \in Names : f.children[i][n] # None}
           c == [n \in L |-> f.children[i][n]]
<1>1. c \in Injection(L, Nodes(f))
  <2>1. i \in Ids /\ \A n \in L : c[n] \in Nodes(f) /\ f.name[c[n]] = n
      BY DEF GoodArena, LinksIn, Nodes
  <2>2. c \in [L -> Nodes(f)]
      BY <2>1
  <2>3. \A m, n \in L : c[m] = c[n] => m = n
      BY <2>1
  <2> QED
      BY <2>2, <2>3 DEF Injection, IsInjective
<1>2. IsFiniteSet(Nodes(f))
  <2>1. IsFiniteSet(Ids) /\ Nodes(f) \subseteq Ids
      BY FS_Interval, VfsAssumption DEF Ids, Nodes
  <2> QED
      BY <2>1, FS_Subset
<1>3. IsFiniteSet(L)
    BY <1>1, <1>2, FS_Injection
<1> QED
    BY <1>3, FS_CardinalityType

IsMirrored(w) ==
    w = [k \in 0 .. (next_handle - 1) |->
           IF k = 0 THEN fs
           ELSE IF k \in Pending THEN MirrorAt(w[k - 1], handles[k].path, handles[k].len).arena
           ELSE w[k - 1]]

MirrorPending(k, a) ==
    IF k \in Pending THEN MirrorAt(a, handles[k].path, handles[k].len).arena ELSE a

(* The drain mirrors handle after handle; the arena stays good. *)
LEMMA DrainWalk ==
    ASSUME HandlesInv, GoodArena(fs)
    PROVE  \E w : /\ w[0] = fs /\ w[next_handle - 1] = PendingMirrored
                  /\ \A k \in 1 .. (next_handle - 1) : w[k] = MirrorPending(k, w[k - 1])
                  /\ \A k \in 0 .. (next_handle - 1) : GoodArena(w[k])
<1> DEFINE n == next_handle - 1
           G == [k \in 1 .. n |-> [a \in GoodArenas |-> MirrorPending(k, a)]]
           walk == CHOOSE w : IsMirrored(w)
<1>1. n \in Nat /\ fs \in GoodArenas
    BY DEF HandlesInv, GoodArenas, GoodArena, TypeIn
<1>2. ASSUME NEW a \in GoodArenas, NEW k \in 1 .. n PROVE MirrorPending(k, a) \in GoodArenas
  <2>1. CASE k \in Pending
    <3>1. handles[k].path \in Seq(Names) \ {<<>>} /\ handles[k].len \in Nat
        BY <2>1 DEF Pending, HandlesInv, HandleOK
    <3>2. GoodArena(a)
        BY DEF GoodArenas
    <3>3. GoodArena(MirrorAt(a, handles[k].path, handles[k].len).arena)
        BY <3>1, <3>2, MirrorGood
    <3> QED
        BY <2>1, <3>3 DEF GoodArenas, GoodArena, TypeIn, MirrorPending
  <2>2. CASE k \notin Pending
      BY <2>2 DEF MirrorPending
  <2> QED
      BY <2>1, <2>2
<1> HIDE DEF n
<1>3. G \in [1 .. n -> [GoodArenas -> GoodArenas]]
    BY <1>2
<1>4. PICK v : IsWalk(v, GoodArenas, fs, n, G)
  <2> HIDE DEF G
  <2> QED
      BY <1>1, <1>3, WalkExists
<1>5. IsMirrored(v)
  <2>1. v \in [0 .. n -> GoodArenas] /\ v[0] = fs
      BY <1>4 DEF IsWalk
  <2>2. \A k \in 1 .. n : v[k] = MirrorPending(k, v[k - 1])
    <3> TAKE k \in 1 .. n
    <3>1. k - 1 \in 0 .. n
        BY <1>1
    <3>2. v[k] = G[k][v[k - 1]] /\ v[k - 1] \in GoodArenas
        BY <1>4, <2>1, <3>1 DEF IsWalk
    <3> QED
        BY <3>2
  <2>3. v = [k \in 0 .. n |-> IF k = 0 THEN fs ELSE MirrorPending(k, v[k - 1])]
      BY <1>1, <2>1, <2>2
  <2> QED
      BY <2>3 DEF IsMirrored, MirrorPending, n
<1>6. IsMirrored(walk)
    BY <1>5
<1>7. PendingMirrored = walk[n]
    BY DEF PendingMirrored, IsMirrored, n
<1> HIDE DEF walk, G
<1>8. walk[0] = fs /\ \A k \in 1 .. n : walk[k] = MirrorPending(k, walk[k - 1])
  <2>1. walk = [k \in 0 .. n |-> IF k = 0 THEN fs ELSE MirrorPending(k, walk[k - 1])]
      BY <1>6, Zenon DEF IsMirrored, MirrorPending, n
  <2> QED
      BY <1>1, <2>1
<1>9. \A k \in 0 .. n : walk[k] \in GoodArenas
  <2>1. /\ walk[0] \in GoodArenas
        /\ \A k \in 1 .. n : walk[k - 1] \in GoodArenas => walk[k] \in GoodArenas
      BY <1>1, <1>2, <1>8
  <2> QED
      BY <1>1, <2>1, WalkStays
<1> QED
    BY <1>7, <1>8, <1>9 DEF GoodArenas, n

(* The empty path is the root. *)
LEMMA ResolveRoot ==
    ASSUME NEW f
    PROVE  Resolve(f, <<>>) = Root
<1> DEFINE walk == CHOOSE w : IsResolve(w, f, <<>>)
           v == [k \in 0 .. 0 |-> Root]
<1>1. Len(<<>>) = 0 /\ \A k \in 0 .. 0 : k = 0
    OBVIOUS
<1>2. IsResolve(v, f, <<>>)
    BY <1>1 DEF IsResolve
<1>3. IsResolve(walk, f, <<>>)
    BY <1>2
<1>4. Resolve(f, <<>>) = walk[0]
    BY <1>1 DEF Resolve, IsResolve
<1> HIDE DEF walk
<1> QED
    BY <1>1, <1>3, <1>4 DEF IsResolve

(* A completed file has a name to be mirrored under, whatever the target is: *)
(* at the root, which is a directory, its own name is appended.              *)
LEMMA DestinationNamed ==
    ASSUME GoodArena(fs), ScpTypeOK, file # NoFile
    PROVE  Destination(dirs, file.name) \in Seq(Names) \ {<<>>} /\ file.len \in Nat
<1> DEFINE base == Base(dirs)
<1>1. file.name \in Names /\ file.len \in Nat /\ base \in Seq(Names)
    BY DEF ScpTypeOK, Base
<1>2. Append(base, file.name) \in Seq(Names) \ {<<>>}
  <2> HIDE DEF base
  <2> QED
      BY <1>1
<1>3. base = <<>> => IsDir(fs, base)
  <2>1. Root \in Ids /\ Root # None
      BY VfsAssumption DEF Root, Ids
  <2> HIDE DEF base
  <2> QED
      BY <2>1, ResolveRoot DEF IsDir, GoodArena
<1> HIDE DEF base
<1>4. Destination(dirs, file.name) =
        IF IsDir(fs, base) \/ into \/ dirs # <<>> THEN Append(base, file.name) ELSE base
    BY DEF Destination, base
<1> QED
    BY <1>1, <1>2, <1>3, <1>4

(* Every step of a transfer leaves a good arena. *)
LEMMA ArenaStep ==
    ASSUME HandlesInv, FileInv, ScpTypeOK, GoodArena(fs), [TransfersNext]_transferVars
    PROVE  GoodArena(fs)'
<1>0. \A path \in Paths : /\ path \in Seq(Names) \ {<<>>}
                          /\ Parent(path) \in Seq(Names) /\ Name(path) \in Names
    BY PathParts
<1>1. CASE SftpStep
  <2>1. CASE (\E n \in 0 .. MaxPipelined : Frame(n)) \/ FeedEnds \/ Oversized \/ Ignored \/ Answer
    <3>1. UNCHANGED fs
        BY <2>1 DEF Frame, FeedEnds, Oversized, Ignored, Answer
    <3> QED
        BY <3>1
  <2>2. CASE Drain
    <3>1. PICK w : /\ w[next_handle - 1] = PendingMirrored
                   /\ \A k \in 0 .. (next_handle - 1) : GoodArena(w[k])
        BY DrainWalk
    <3>2. next_handle - 1 \in 0 .. (next_handle - 1)
        BY DEF HandlesInv
    <3> QED
        BY <2>2, <3>1, <3>2 DEF Drain
  <2>3. ASSUME NEW path \in Paths, OpenWrite(path) \/ OpenRead(path) \/ OpenDir(path)
        PROVE  GoodArena(fs)'
    <3>1. UNCHANGED fs
        BY <2>3 DEF OpenWrite, OpenRead, OpenDir
    <3> QED
        BY <3>1
  <2>4. ASSUME NEW path \in Paths, Remove(path) \/ MakeDir(path) \/ SymLink(path) \/ RemoveDir(path)
        PROVE  GoodArena(fs)'
    <3> DEFINE d == Resolve(fs, Parent(path))
               n == Name(path)
    <3>1. d # None /\ \/ fs' = UnlinkIn(fs, d, n) \/ fs' = MkdirIn(fs, d, n).arena
                      \/ fs' = AddLink(fs, d, n).arena
        BY <2>4 DEF Remove, MakeDir, SymLink, RemoveDir
    <3>2. d \in Nodes(fs) /\ n \in Names
        BY <1>0, <3>1, ResolveStays DEF Somewhere
    <3> HIDE DEF d, n
    <3>3. GoodArena(AddLink(fs, d, n).arena)
        BY <3>2, InsertGood DEF AddLink
    <3> QED
        BY <3>1, <3>2, <3>3, UnlinkGood, MkdirStays
  <2>5. ASSUME NEW path \in Paths, NEW new \in Paths, RenamePath(path, new)
        PROVE  GoodArena(fs)'
    <3> DEFINE j == Resolve(fs, path)
               np == Resolve(fs, Parent(new))
               n == Name(new)
    <3>1. Rename(j, np, n) /\ n \in Names
        BY <1>0, <2>5 DEF RenamePath
    <3> HIDE DEF j, np, n
    <3> QED
        BY <3>1, RenameGood DEF Rename, MayMove
  <2>6. ASSUME NEW i \in DOMAIN handles,
               ReadDir(i) \/ \E off \in Offsets, n \in Chunks : Write(i, off, n)
        PROVE  GoodArena(fs)'
    <3>1. UNCHANGED fs
        BY <2>6 DEF ReadDir, Write
    <3> QED
        BY <3>1
  <2>7. ASSUME NEW i \in DOMAIN handles, Close(i)
        PROVE  GoodArena(fs)'
    <3>1. handles[i].path \in Seq(Names) \ {<<>>} /\ handles[i].len \in Nat
        BY <1>0 DEF HandlesInv, HandleOK
    <3>2. GoodArena(MirrorAt(fs, handles[i].path, handles[i].len).arena)
        BY <3>1, MirrorGood
    <3> QED
        BY <2>7, <3>2 DEF Close
  <2> QED
      BY <1>1, <2>1, <2>2, <2>3, <2>4, <2>5, <2>6, <2>7 DEF SftpStep
<1>2. CASE ScpStep
  <2>1. CASE BodyEnds
    <3> DEFINE path == Destination(dirs, file.name)
    <3>1. path \in Seq(Names) \ {<<>>} /\ file.len \in Nat
        BY <2>1, DestinationNamed DEF BodyEnds
    <3>2. fs' = MirrorAt(fs, path, file.len).arena
        BY <2>1 DEF BodyEnds
    <3> HIDE DEF path
    <3> QED
        BY <3>1, <3>2, MirrorGood
  <2>2. CASE ~BodyEnds
    <3>1. UNCHANGED fs
        BY <1>2, <2>2 DEF ScpStep, ControlC, ControlD, ControlE, OverlongLine, BodyByte, ScpEnds
    <3> QED
        BY <3>1
  <2> QED
      BY <2>1, <2>2
<1>3. CASE UNCHANGED fs
    BY <1>3
<1> QED
    BY <1>1, <1>2, <1>3 DEF TransfersNext, TransferOver, transferVars

(* The packet loop: the buffer and the answers stay within their caps. *)
LEMMA FeedStep ==
    ASSUME FeedInv, [TransfersNext]_transferVars
    PROVE  FeedInv'
<1>1. CASE UNCHANGED feedVars
    BY <1>1 DEF FeedInv, feedVars
<1>2. CASE Packet
    BY <1>2 DEF FeedInv, Packet
<1>3. CASE SftpStep
  <2>1. CASE \E n \in 0 .. MaxPipelined : Frame(n)
      BY <2>1 DEF FeedInv, Frame
  <2>2. CASE FeedEnds
    <3>1. sftp' \in BOOLEAN /\ feeding' \in BOOLEAN
        BY <2>2, Zenon DEF FeedInv, FeedEnds
    <3>2. buf' \in Nat /\ out' \in 0 .. FeedCap
        BY <2>2 DEF FeedInv, FeedEnds
    <3> QED
        BY <3>1, <3>2 DEF FeedInv
  <2>3. CASE Oversized
    <3>1. sftp' \in BOOLEAN /\ feeding' \in BOOLEAN
        BY <2>3, Zenon DEF FeedInv, Oversized
    <3>2. buf' \in Nat /\ out' \in 0 .. FeedCap
        BY <2>3 DEF FeedInv, Oversized
    <3> QED
        BY <3>1, <3>2 DEF FeedInv
  <2>4. CASE Ignored
      BY <2>4 DEF FeedInv, Ignored
  <2>5. CASE Drain
    <3>1. sftp' \in BOOLEAN /\ feeding' \in BOOLEAN
        BY <2>5, Zenon DEF FeedInv, Drain
    <3>2. buf' \in Nat /\ out' \in 0 .. FeedCap
        BY <2>5 DEF FeedInv, Drain
    <3> QED
        BY <3>1, <3>2 DEF FeedInv
  <2>6. CASE Packet
      BY <1>2, <2>6
  <2> QED
      BY <1>3, <2>1, <2>2, <2>3, <2>4, <2>5, <2>6
         DEF SftpStep, Answer, OpenWrite, OpenRead, OpenDir, Remove, MakeDir, SymLink, RemoveDir,
             RenamePath, TreePacket, ReadDir, Close, Write
<1> QED
    BY <1>1, <1>3 DEF TransfersNext, TransferOver, transferVars, sftpVars

(* The handles: whatever opens, grows, closes or drains is charged. *)
LEMMA HandlesStep ==
    ASSUME HandlesInv, CaptureInv, GoodArena(fs), [TransfersNext]_transferVars
    PROVE  HandlesInv'
<1>0. /\ BufferCap \in Nat /\ buffered_bytes \in Nat /\ buffered_bytes <= BufferCap
      /\ \A i \in DOMAIN handles : HandleOK(handles[i]) /\ HandleInv(handles[i])
    BY HeldIsNat DEF BufferCap, HandlesInv, CaptureInv
<1>1. CASE UNCHANGED <<handles, next_handle, buffered_bytes>>
    BY <1>1 DEF HandlesInv, HandleOK, HeldBytes, Lens
<1>2. ASSUME NEW path \in Paths, OpenWrite(path)
      PROVE  HandlesInv'
  <2> DEFINE hd == NewHandle("write", path, 0)
  <2>1. HandleOK(hd) /\ hd.len = 0
      BY DEF HandleOK, NewHandle
  <2>2. Opened(hd) /\ UNCHANGED buffered_bytes
      BY <1>2 DEF OpenWrite
  <2> HIDE DEF hd
  <2> QED
      BY <1>0, <2>1, <2>2, OpenedCharged
<1>3. ASSUME NEW path \in Paths, OpenRead(path)
      PROVE  HandlesInv'
  <2> DEFINE i  == Resolve(fs, path)
             hd == NewHandle("read", path, fs.len[i])
  <2>1. i \in Nodes(fs)
      BY <1>3, ResolveStays DEF OpenRead, Somewhere
  <2>2. fs.len[i] \in Nat
      BY <2>1 DEF GoodArena, TypeIn, Arenas, Nodes
  <2>3. HandleOK(hd) /\ hd.len = fs.len[i]
      BY <2>2 DEF HandleOK, NewHandle
  <2>4. /\ Opened(hd) /\ buffered_bytes' = buffered_bytes + fs.len[i]
        /\ buffered_bytes + fs.len[i] <= BufferCap
      BY <1>3 DEF OpenRead
  <2> HIDE DEF hd, i
  <2> QED
      BY <2>3, <2>4, OpenedCharged
<1>4. ASSUME NEW path \in Paths, OpenDir(path)
      PROVE  HandlesInv'
  <2> DEFINE i  == Resolve(fs, path)
             m  == Cardinality({n \in Names : fs.children[i][n] # None})
             hd == [NewHandle("dir", path, 0) EXCEPT !.size = 2 + m]
  <2>1. i \in Nodes(fs)
      BY <1>4, ResolveStays DEF OpenDir, Somewhere
  <2>2. m \in Nat
      BY <2>1, ListingFinite
  <2>3. Opened(hd) /\ UNCHANGED buffered_bytes
      BY <1>4 DEF OpenDir
  <2> HIDE DEF m
  <2>4. HandleOK(hd) /\ hd.len = 0
      BY <2>2 DEF HandleOK, NewHandle
  <2> HIDE DEF hd
  <2> QED
      BY <1>0, <2>3, <2>4, OpenedCharged
<1>5. ASSUME NEW i \in DOMAIN handles, ReadDir(i)
      PROVE  HandlesInv'
  <2> DEFINE left == IF handles[i].size > DirChunk THEN handles[i].size - DirChunk ELSE 0
  <2>1. /\ handles' = [handles EXCEPT ![i] = [handles[i] EXCEPT !.size = left]]
        /\ UNCHANGED <<next_handle, buffered_bytes>> /\ handles[i].kind = "dir"
      BY <1>5 DEF ReadDir
  <2>2. HandleOK(handles[i]) /\ Fields \subseteq DOMAIN handles[i]
    <3>1. handles[i].kind # "write"
        BY <2>1
    <3> QED
        BY <1>0, <3>1, Zenon DEF HandleInv
  <2>3. left \in Nat
    <3>1. handles[i].size \in Nat
        BY <2>2, Zenon DEF HandleOK
    <3> QED
        BY <3>1
  <2> HIDE DEF left
  <2>4. DOMAIN handles' = DOMAIN handles /\ \A j \in DOMAIN handles \ {i} : handles'[j] = handles[j]
      BY <2>1
  <2>5. HandleOK(handles'[i]) /\ handles'[i].len = handles[i].len
      BY <2>1, <2>2, <2>3 DEF HandleOK, Fields
  <2>6. handles[i].len \in Nat
      BY <2>2 DEF HandleOK
  <2>7. buffered_bytes' = buffered_bytes + handles'[i].len - handles[i].len
      BY <1>0, <2>1, <2>5, <2>6
  <2> QED
      BY <1>0, <2>1, <2>4, <2>5, <2>7, ChangeCharged
<1>6. ASSUME NEW i \in DOMAIN handles, NEW off \in Offsets, NEW n \in Chunks, Write(i, off, n)
      PROVE  HandlesInv'
  <2> DEFINE new == Written(handles[i], off, n)
  <2>1. /\ DOMAIN handles' = DOMAIN handles /\ handles'[i] = new /\ handles[i].kind = "write"
        /\ \A j \in DOMAIN handles \ {i} : handles'[j] = handles[j]
        /\ buffered_bytes' = buffered_bytes + handles'[i].len - handles[i].len
        /\ UNCHANGED next_handle
      BY <1>6 DEF Write
  <2>2. off \in Nat /\ n \in Nat
      OBVIOUS
  <2>3. HandleOK(new) /\ buffered_bytes + new.len - handles[i].len <= BufferCap
      BY <1>0, <2>1, <2>2, WrittenCharged
  <2> HIDE DEF new
  <2> QED
      BY <2>1, <2>3, ChangeCharged
<1>7. ASSUME NEW i \in DOMAIN handles, Close(i)
      PROVE  HandlesInv'
    BY <1>7, CloseCharged DEF Close
<1>8. CASE Drain
  <2>1. DOMAIN handles' = {} /\ buffered_bytes' = 0 /\ UNCHANGED next_handle
      BY <1>8 DEF Drain, NoHandles
  <2>2. HeldBytes' = 0
      BY <2>1, SumEmpty DEF HeldBytes
  <2> QED
      BY <1>0, <2>1, <2>2 DEF HandlesInv, BufferCap
<1>9. CASE SftpStep
  <2>1. ASSUME (\E n \in 0 .. MaxPipelined : Frame(n)) \/ FeedEnds \/ Oversized \/ Ignored \/ Answer
        PROVE  UNCHANGED <<handles, next_handle, buffered_bytes>>
      BY <2>1 DEF Frame, FeedEnds, Oversized, Ignored, Answer, openVars
  <2>2. ASSUME NEW path \in Paths,
               \/ Remove(path) \/ MakeDir(path) \/ SymLink(path) \/ RemoveDir(path)
               \/ \E new \in Paths : RenamePath(path, new)
        PROVE  UNCHANGED <<handles, next_handle, buffered_bytes>>
      BY <2>2 DEF Remove, MakeDir, SymLink, RemoveDir, RenamePath, TreePacket, openVars
  <2> QED
      BY <1>9, <2>1, <2>2, <1>1, <1>2, <1>3, <1>4, <1>5, <1>6, <1>7, <1>8 DEF SftpStep
<1> QED
    BY <1>1, <1>9 DEF TransfersNext, TransferOver, transferVars, sftpVars, openVars

(* The sink's fields keep their types and its caps. *)
LEMMA ScpTypeStep ==
    ASSUME ScpTypeOK, FileInv, [TransfersNext]_transferVars
    PROVE  ScpTypeOK'
<1>1. CASE UNCHANGED scpVars
    BY <1>1 DEF ScpTypeOK, scpVars
<1>2. CASE ScpStep
  <2>1. ASSUME NEW n \in Names, NEW size \in Sizes, ControlC(n, size)
        PROVE  ScpTypeOK'
    <3>1. files' \in 0 .. MaxFiles
        BY <2>1 DEF ControlC, ScpTypeOK
    <3>2. file' \in [name : Names, size : Sizes, remaining : Nat,
                     len : 0 .. MaxUpload, truncated : BOOLEAN]
        BY <2>1 DEF ControlC
    <3> QED
        BY <2>1, <3>1, <3>2 DEF ControlC, ScpTypeOK
  <2>2. ASSUME NEW n \in Names, ControlD(n)
        PROVE  ScpTypeOK'
    <3>1. dirs' \in Seq(Names) /\ Len(dirs') <= MaxScpDepth
        BY <2>2 DEF ControlD, ScpTypeOK
    <3>2. nesting' \in Seq(Names)
        BY <2>2 DEF ControlD, ScpTypeOK
    <3> QED
        BY <2>2, <3>1, <3>2 DEF ControlD, ScpTypeOK
  <2>3. CASE ControlE
    <3>1. dirs' \in Seq(Names) /\ Len(dirs') <= MaxScpDepth
        BY <2>3 DEF ControlE, ScpTypeOK, Popped
    <3>2. nesting' \in Seq(Names)
        BY <2>3 DEF ControlE, ScpTypeOK, Popped
    <3> QED
        BY <2>3, <3>1, <3>2 DEF ControlE, ScpTypeOK
  <2>4. CASE OverlongLine
      BY <2>4 DEF OverlongLine, ScpTypeOK
  <2>5. CASE BodyByte
    <3> DEFINE new == [file EXCEPT !.remaining = @ - 1,
                                   !.len = IF @ < MaxUpload THEN @ + 1 ELSE @,
                                   !.truncated = @ \/ file.len >= MaxUpload]
    <3>1. /\ file \in [name : Names, size : Sizes, remaining : Nat,
                       len : 0 .. MaxUpload, truncated : BOOLEAN]
          /\ file.remaining > 0 /\ file' = new
        BY <2>5 DEF BodyByte, ScpTypeOK
    <3>2. /\ file.remaining - 1 \in Nat
          /\ (IF file.len < MaxUpload THEN file.len + 1 ELSE file.len) \in 0 .. MaxUpload
          /\ (file.truncated \/ file.len >= MaxUpload) \in BOOLEAN
        BY <3>1
    <3>3. new \in [name : Names, size : Sizes, remaining : Nat,
                   len : 0 .. MaxUpload, truncated : BOOLEAN]
        BY <3>1, <3>2
    <3> HIDE DEF new
    <3> QED
        BY <2>5, <3>1, <3>3 DEF BodyByte, ScpTypeOK
  <2>6. CASE BodyEnds
      BY <2>6 DEF BodyEnds, ScpTypeOK
  <2>7. CASE ScpEnds
    <3>1. scp' \in BOOLEAN /\ into' \in BOOLEAN
        BY <2>7, Zenon DEF ScpEnds, ScpTypeOK
    <3>2. dirs' = <<>> /\ nesting' = <<>> /\ file' = NoFile /\ target' = target /\ files' = files
        BY <2>7 DEF ScpEnds
    <3> QED
        BY <3>1, <3>2 DEF ScpTypeOK
  <2> QED
      BY <1>2, <2>1, <2>2, <2>3, <2>4, <2>5, <2>6, <2>7 DEF ScpStep
<1> QED
    BY <1>1, <1>2 DEF TransfersNext, TransferOver, transferVars

-----------------------------------------------------------------------------
(* The inductive invariant: the two kinds of transfer and the tree they      *)
(* share.  The budget needs it whole: what a read handle is charged is the   *)
(* length of a node that a lookup finds in a sound arena.                    *)
TransfersInv == FeedInv /\ HandlesInv /\ CaptureInv /\ ScpTypeOK /\ FileInv /\ GoodArena(fs)

(* The tree of a new shell is sound. *)
LEMMA SnapshotGood == GoodArena(Snapshot)
<1> DEFINE made == MkdirIn(NewVfs, Root, Target).arena
<1>1. Root \in Nodes(NewVfs)
    BY VfsAssumption DEF Nodes, NewVfs, Root, Ids
<1>2. GoodArena(made)
    BY <1>1, NewVfsGood, MkdirStays
<1>3. Snapshot = AddLink(made, Root, Link).arena
    BY DEF Snapshot
<1> HIDE DEF made
<1>4. Root \in Nodes(made)
    BY <1>2, VfsAssumption DEF GoodArena, TypeIn, Arenas, Nodes, Root, Ids
<1> QED
    BY <1>2, <1>3, <1>4, InsertGood DEF AddLink

LEMMA TransfersInvInitially == TransfersInit => TransfersInv
<1> SUFFICES ASSUME TransfersInit PROVE TransfersInv
    OBVIOUS
<1>1. FeedInv
  <2>1. sftp \in BOOLEAN /\ feeding \in BOOLEAN
      BY Zenon DEF TransfersInit, SftpInit
  <2>2. buf = 0 /\ out = 0
      BY DEF TransfersInit, SftpInit
  <2> QED
      BY <2>1, <2>2 DEF FeedInv
<1>2. HandlesInv
  <2>1. DOMAIN handles = {} /\ next_handle = 1 /\ buffered_bytes = 0
      BY DEF TransfersInit, SftpInit, NoHandles
  <2>2. HeldBytes = 0
      BY <2>1, SumEmpty DEF HeldBytes
  <2> QED
      BY <2>1, <2>2 DEF HandlesInv, BufferCap
<1>3. CaptureInv
    BY CaptureInitially
<1>4. ScpTypeOK /\ FileInv
  <2>1. scp \in BOOLEAN /\ into \in BOOLEAN
      BY Zenon DEF TransfersInit, ScpInit
  <2>2. dirs = <<>> /\ file = NoFile /\ nesting = <<>> /\ files = 0
      BY DEF TransfersInit, ScpInit
  <2>3. target \in Seq(Names)
    <3>1. target = <<>> \/ target \in Targets
        BY DEF TransfersInit, ScpInit
    <3>2. <<>> \in Seq(Names) /\ Targets \subseteq Seq(Names)
        OBVIOUS
    <3> QED
        BY <3>1, <3>2, Zenon
  <2> QED
      BY <2>1, <2>2, <2>3 DEF ScpTypeOK, FileInv
<1>5. GoodArena(fs)
  <2>1. Root \in Nodes(Snapshot)
      BY SnapshotGood, VfsAssumption DEF GoodArena, TypeIn, Arenas, Nodes, Root, Ids
  <2>2. GoodArena(Filled)
      BY <2>1, SnapshotGood, MkdirStays DEF Filled
  <2> QED
      BY <2>2, SnapshotGood DEF TransfersInit
<1> QED
    BY <1>1, <1>2, <1>3, <1>4, <1>5 DEF TransfersInv

(* Every reachable state satisfies it. *)
THEOREM TransfersInvariant == TransfersSpec => [](TransfersInv /\ ScpCapturesPrefix)
<1>1. TransfersInit => ScpCapturesPrefix
    BY DEF TransfersInit, ScpInit, ScpCapturesPrefix
<1>2. TransfersInv /\ ScpCapturesPrefix /\ [TransfersNext]_transferVars
        => (TransfersInv /\ ScpCapturesPrefix)'
  <2> SUFFICES ASSUME TransfersInv, ScpCapturesPrefix, [TransfersNext]_transferVars
               PROVE  TransfersInv' /\ ScpCapturesPrefix'
      OBVIOUS
  <2>1. FeedInv' /\ HandlesInv' /\ CaptureInv' /\ ScpTypeOK'
      BY FeedStep, HandlesStep, CaptureStep, ScpTypeStep DEF TransfersInv
  <2>2. ScpInv'
      BY ScpStepKeeps DEF TransfersInv, ScpInv
  <2>3. GoodArena(fs)'
      BY ArenaStep DEF TransfersInv
  <2> QED
      BY <2>1, <2>2, <2>3 DEF TransfersInv, ScpInv
<1> QED
    BY <1>1, <1>2, TransfersInvInitially, PTL DEF TransfersSpec

(* For any caps, tree and requests: what the SFTP handles hold is what is    *)
(* charged for it, a session's budget and a file's cap are never passed, and *)
(* the sink stays within its own.                                            *)
THEOREM MemoryIsBounded == TransfersSpec => []MemoryBounded
<1>1. TransfersInv => MemoryBounded
  <2> SUFFICES ASSUME TransfersInv PROVE MemoryBounded
      OBVIOUS
  <2>1. buffered_bytes \in Nat
      BY HeldIsNat DEF TransfersInv
  <2>2. SftpTypeOK
      BY <2>1 DEF TransfersInv, FeedInv, HandlesInv, SftpTypeOK
  <2>3. \A i \in DOMAIN handles : handles[i].kind = "write" => handles[i].len <= MaxUpload
      BY DEF TransfersInv, CaptureInv, HandleInv, WriteTyped
  <2>4. HeldBytes = SumFunction([i \in DOMAIN handles |-> handles[i].len])
    <3>1. DOMAIN Lens = DOMAIN handles
        BY DEF Lens
    <3> QED
        BY <3>1 DEF HeldBytes, Lens, SumFunction
  <2>5. MemoryCharged
      BY <2>3, <2>4 DEF TransfersInv, HandlesInv, MemoryCharged
  <2> QED
      BY <2>2, <2>5 DEF TransfersInv, MemoryBounded
<1> QED
    BY <1>1, TransfersInvariant, PTL

(* Uploads, removals, links and renames of a transfer, at any caps, leave    *)
(* the session's filesystem one well-typed tree.                             *)
THEOREM TransfersKeepTheTree == TransfersSpec => []TreeSound
<1>1. TransfersInv => TreeSound
    BY DEF TransfersInv, GoodArena, TypeIn, LinksIn, AcyclicIn,
           TreeSound, VfsTypeOK, LinksConsistent, Acyclic
<1> QED
    BY <1>1, TransfersInvariant, PTL

-----------------------------------------------------------------------------
(* Where a mirror lands. *)

(* The names of `path` lead from the root to i, seen from above; IsPathOf    *)
(* checks the same from below.                                               *)
PlacedBy(w, f, path, i) ==
    /\ w \in [0 .. Len(path) -> Nodes(f)] /\ w[0] = Root /\ w[Len(path)] = i
    /\ \A k \in 1 .. Len(path) : f.parent[w[k]] = w[k - 1] /\ f.name[w[k]] = path[k]

Placed(f, path, i) == \E w : PlacedBy(w, f, path, i)

IsUp(u, f, path, i) ==
    u = [k \in 0 .. Len(path) |->
           IF k = 0 THEN i
           ELSE IF u[k - 1] = None \/ u[k - 1] = Root THEN None
           ELSE IF f.name[u[k - 1]] = path[Len(path) + 1 - k] THEN f.parent[u[k - 1]] ELSE None]

(* What is placed at a path has that path. *)
LEMMA PlacedIsPath ==
    ASSUME NEW f, GoodArena(f), NEW path \in Seq(Names), NEW i, Placed(f, path, i)
    PROVE  IsPathOf(f, path, i)
<1> DEFINE n  == Len(path)
           up == CHOOSE u : IsUp(u, f, path, i)
<1>1. PICK w : PlacedBy(w, f, path, i)
    BY DEF Placed
<1>2. /\ n \in Nat /\ w \in [0 .. n -> Nodes(f)] /\ w[0] = Root /\ w[n] = i
      /\ \A k \in 1 .. n : f.parent[w[k]] = w[k - 1] /\ f.name[w[k]] = path[k]
    BY <1>1 DEF PlacedBy
<1> DEFINE v == [k \in 0 .. n |-> w[n - k]]
<1> HIDE DEF n
<1>3. ASSUME NEW k \in 1 .. n
      PROVE  /\ n - k \in 0 .. n /\ n - (k - 1) \in 1 .. n /\ n - (k - 1) = n + 1 - k
             /\ w[n - (k - 1)] # None /\ w[n - (k - 1)] # Root
             /\ f.name[w[n - (k - 1)]] = path[n + 1 - k] /\ f.parent[w[n - (k - 1)]] = w[n - k]
  <2>1. /\ n - k \in 0 .. n /\ n - (k - 1) \in 1 .. n /\ n - (k - 1) = n + 1 - k
        /\ n - (k - 1) - 1 = n - k
      BY <1>2
  <2> DEFINE m == n - (k - 1)
  <2>2. m \in 1 .. n /\ m \in 0 .. n /\ m - 1 \in 0 .. n
      BY <1>2, <2>1
  <2>3. f.parent[w[m]] = w[m - 1] /\ f.name[w[m]] = path[m]
    <3> HIDE DEF m
    <3> QED
        BY <1>2, <2>2
  <2>4. w[m] \in Nodes(f) /\ w[m - 1] \in Nodes(f)
    <3> HIDE DEF m
    <3> QED
        BY <1>2, <2>2
  <2>5. w[m] # None /\ w[m] # Root
    <3> HIDE DEF m
    <3> QED
        BY <2>3, <2>4, VfsAssumption DEF GoodArena, TypeIn, Nodes
  <2> QED
      BY <2>1, <2>3, <2>5
<1>4. IsUp(v, f, path, i)
  <2>1. v[0] = i /\ \A k \in 1 .. n : v[k] = w[n - k] /\ v[k - 1] = w[n - (k - 1)]
      BY <1>2
  <2>2. ASSUME NEW k \in 0 .. n
        PROVE  v[k] = IF k = 0 THEN i
                      ELSE IF v[k - 1] = None \/ v[k - 1] = Root THEN None
                      ELSE IF f.name[v[k - 1]] = path[n + 1 - k] THEN f.parent[v[k - 1]] ELSE None
    <3>1. CASE k = 0
        BY <2>1, <3>1
    <3>2. CASE k # 0
      <4>1. k \in 1 .. n
          BY <3>2
      <4> HIDE DEF v
      <4>2. v[k] = w[n - k] /\ v[k - 1] = w[n - (k - 1)]
          BY <2>1, <4>1
      <4>3. /\ v[k - 1] # None /\ v[k - 1] # Root
            /\ f.name[v[k - 1]] = path[n + 1 - k] /\ f.parent[v[k - 1]] = v[k]
          BY <1>3, <4>1, <4>2, Zenon
      <4> QED
          BY <3>2, <4>3, Zenon
    <3> QED
        BY <3>1, <3>2
  <2>3. v = [k \in 0 .. n |-> v[k]]
      OBVIOUS
  <2> HIDE DEF v
  <2>4. v = [k \in 0 .. n |->
               IF k = 0 THEN i
               ELSE IF v[k - 1] = None \/ v[k - 1] = Root THEN None
               ELSE IF f.name[v[k - 1]] = path[n + 1 - k] THEN f.parent[v[k - 1]] ELSE None]
      BY <2>2, <2>3
  <2> QED
      BY <2>4, Zenon DEF IsUp, n
<1>5. IsUp(up, f, path, i)
    BY <1>4
<1>6. IsPathOf(f, path, i) <=> up[n] = Root
    BY DEF IsPathOf, IsUp, n
<1> HIDE DEF up, v
<1>7. up = [k \in 0 .. n |->
               IF k = 0 THEN i
               ELSE IF up[k - 1] = None \/ up[k - 1] = Root THEN None
               ELSE IF f.name[up[k - 1]] = path[n + 1 - k] THEN f.parent[up[k - 1]] ELSE None]
    BY <1>5, Zenon DEF IsUp, n
<1> DEFINE T == {k \in 0 .. n : up[k] = w[n - k]}
<1>8. 0 \in T
    BY <1>2, <1>7
<1>9. ASSUME NEW k \in 1 .. n, k - 1 \in T PROVE k \in T
  <2>1. up[k] = IF up[k - 1] = None \/ up[k - 1] = Root THEN None
                ELSE IF f.name[up[k - 1]] = path[n + 1 - k] THEN f.parent[up[k - 1]] ELSE None
    <3>1. k \in 0 .. n /\ k # 0
        BY <1>2
    <3> QED
        BY <1>7, <3>1, Zenon
  <2>2. up[k - 1] = w[n - (k - 1)]
      BY <1>9
  <2>3. /\ up[k - 1] # None /\ up[k - 1] # Root
        /\ f.name[up[k - 1]] = path[n + 1 - k] /\ f.parent[up[k - 1]] = w[n - k]
      BY <1>3, <2>2, Zenon
  <2>4. up[k] = w[n - k]
      BY <2>1, <2>3, Zenon
  <2> QED
      BY <1>2, <2>4
<1>10. 0 .. n \subseteq T
  <2> HIDE DEF T
  <2> QED
      BY <1>2, <1>8, <1>9, StepsReachAll
<1> QED
    BY <1>2, <1>6, <1>10

(* An arena that g was made of by adding nodes and writing files: every node *)
(* keeps its place.                                                          *)
Keeps(f, g) ==
    /\ Nodes(f) \subseteq Nodes(g)
    /\ \A j \in Nodes(f) : g.parent[j] = f.parent[j] /\ g.name[j] = f.name[j]

(* A file that g has and f has not, or not with this length. *)
FreshIn(f, g, j) == g.kind[j] = "file" /\ (f.kind[j] # "file" \/ f.len[j] # g.len[j])

(* What is placed stays placed. *)
LEMMA PlacedKept ==
    ASSUME NEW f, NEW g, Keeps(f, g), NEW path \in Seq(Names), NEW i, Placed(f, path, i)
    PROVE  Placed(g, path, i)
<1>1. PICK w : PlacedBy(w, f, path, i)
    BY DEF Placed
<1>2. w \in [0 .. Len(path) -> Nodes(g)]
    BY <1>1 DEF PlacedBy, Keeps
<1>3. \A k \in 1 .. Len(path) : w[k] \in Nodes(f)
    BY <1>1 DEF PlacedBy
<1>4. PlacedBy(w, g, path, i)
    BY <1>1, <1>2, <1>3 DEF PlacedBy, Keeps
<1> QED
    BY <1>4 DEF Placed

(* The root is placed at the empty path. *)
LEMMA PlacedRoot ==
    ASSUME NEW f, GoodArena(f)
    PROVE  Placed(f, <<>>, Root)
<1> DEFINE w == [k \in 0 .. 0 |-> Root]
<1>1. Root \in Nodes(f) /\ Len(<<>>) = 0
    BY AncestorsOfRoot
<1>2. PlacedBy(w, f, <<>>, Root)
    BY <1>1 DEF PlacedBy
<1> QED
    BY <1>2 DEF Placed

(* A child is placed one name further. *)
LEMMA PlacedChild ==
    ASSUME NEW f, NEW path \in Seq(Names), NEW d, Placed(f, path, d),
           NEW n \in Names, NEW c \in Nodes(f), f.parent[c] = d, f.name[c] = n
    PROVE  Placed(f, Append(path, n), c)
<1> DEFINE m == Len(path)
           q == Append(path, n)
<1>1. PICK w : PlacedBy(w, f, path, d)
    BY DEF Placed
<1> DEFINE v == [k \in 0 .. (m + 1) |-> IF k = m + 1 THEN c ELSE w[k]]
<1>2. /\ m \in Nat /\ Len(q) = m + 1 /\ q[m + 1] = n /\ \A k \in 1 .. m : q[k] = path[k]
    OBVIOUS
<1>3. /\ w \in [0 .. m -> Nodes(f)] /\ w[0] = Root /\ w[m] = d
      /\ \A k \in 1 .. m : f.parent[w[k]] = w[k - 1] /\ f.name[w[k]] = path[k]
    BY <1>1 DEF PlacedBy
<1> HIDE DEF m, q
<1>4. /\ v \in [0 .. (m + 1) -> Nodes(f)] /\ v[0] = Root /\ v[m + 1] = c /\ v[m] = d
      /\ \A k \in 0 .. m : v[k] = w[k]
    BY <1>2, <1>3
<1>5. ASSUME NEW k \in 1 .. (m + 1) PROVE f.parent[v[k]] = v[k - 1] /\ f.name[v[k]] = q[k]
  <2>1. CASE k = m + 1
      BY <1>2, <1>4, <2>1
  <2>2. CASE k # m + 1
    <3>1. k \in 1 .. m /\ k - 1 \in 0 .. m
        BY <1>2, <2>2
    <3> HIDE DEF v
    <3> QED
        BY <1>2, <1>3, <1>4, <3>1
  <2> QED
      BY <2>1, <2>2
<1>6. PlacedBy(v, f, q, c)
  <2> HIDE DEF v
  <2> QED
      BY <1>2, <1>4, <1>5 DEF PlacedBy
<1> QED
    BY <1>6 DEF Placed, q

(* A step that creates and writes no file. *)
Quiet(f, g) == \A j \in Nodes(g) : ~FreshIn(f, g, j)

(* Places and contents are kept over several steps. *)
LEMMA KeepsTransitive ==
    ASSUME NEW f, NEW g, NEW h, Keeps(f, g), Keeps(g, h)
    PROVE  Keeps(f, h)
BY DEF Keeps

LEMMA QuietTransitive ==
    ASSUME NEW f, NEW g, GoodArena(g), NEW h, Quiet(f, g), Quiet(g, h)
    PROVE  Quiet(f, h)
<1> SUFFICES ASSUME NEW j \in Nodes(h), FreshIn(f, h, j) PROVE FALSE
    BY DEF Quiet
<1>1. g.kind[j] = "file" /\ g.len[j] = h.len[j]
    BY DEF Quiet, FreshIn
<1>2. j \in Nodes(g)
    BY <1>1 DEF GoodArena, TypeIn, Nodes, Ids, Arenas
<1> QED
    BY <1>1, <1>2 DEF Quiet, FreshIn

(* An insertion keeps every place, and only a file that is inserted is new.  *)
LEMMA InsertKeeps ==
    ASSUME NEW f, GoodArena(f), NEW p \in Nodes(f), NEW n, NEW k, NEW l
    PROVE  LET made == Insert(f, p, n, k, l)
           IN  /\ Keeps(f, made.arena) /\ (k # "file" => Quiet(f, made.arena))
               /\ \A j \in Nodes(made.arena) : FreshIn(f, made.arena, j) => j = made.id /\ made.id # p
               /\ made.id # p => /\ made.id \in Nodes(made.arena)
                                 /\ made.arena.parent[made.id] = p /\ made.arena.name[made.id] = n
<1>1. CASE IsFull(f, p)
    BY <1>1 DEF Insert, Keeps, Quiet, FreshIn
<1>2. CASE ~IsFull(f, p)
  <2> DEFINE made == Insert(f, p, n, k, l)
             g == made.arena
             c == f.count
  <2>1. /\ p # c /\ Nodes(g) = Nodes(f) \cup {c} /\ made.id = c
        /\ g.parent[c] = p /\ g.name[c] = n /\ g.kind[c] = k
        /\ \A j \in Nodes(f) : /\ g.parent[j] = f.parent[j] /\ g.name[j] = f.name[j]
                               /\ g.kind[j] = f.kind[j] /\ g.len[j] = f.len[j]
      BY <1>2, InsertFacts
  <2> HIDE DEF made
  <2> QED
      BY <2>1 DEF Keeps, Quiet, FreshIn, made
<1> QED
    BY <1>1, <1>2

(* mkdir finds or makes a child of the directory, and touches no file. *)
LEMMA MkdirKeeps ==
    ASSUME NEW f, GoodArena(f), NEW p \in Nodes(f), NEW n \in Names
    PROVE  LET made == MkdirIn(f, p, n)
           IN  /\ Keeps(f, made.arena) /\ Quiet(f, made.arena)
               /\ made.id # p => /\ made.id \in Nodes(made.arena)
                                 /\ made.arena.parent[made.id] = p /\ made.arena.name[made.id] = n
<1>1. CASE Child(f, p, n) # None
  <2>1. MkdirIn(f, p, n).arena = f /\ MkdirIn(f, p, n).id = f.children[p][n] /\ f.children[p][n] # None
      BY <1>1 DEF MkdirIn, Child
  <2>2. p \in Ids
      BY DEF Nodes
  <2>3. f.children[p][n] \in Nodes(f) /\ f.parent[f.children[p][n]] = p /\ f.name[f.children[p][n]] = n
      BY <2>1, <2>2 DEF GoodArena, LinksIn
  <2> QED
      BY <2>1, <2>3 DEF Keeps, Quiet, FreshIn
<1>2. CASE Child(f, p, n) = None
  <2>1. MkdirIn(f, p, n) = Insert(f, p, n, "dir", 0)
      BY <1>2 DEF MkdirIn
  <2> QED
      BY <2>1, InsertKeeps
<1> QED
    BY <1>1, <1>2

(* mkdir_p gets, if it does not give up, to the node at the path. *)
LEMMA MkdirPLands ==
    ASSUME NEW f, GoodArena(f), NEW path \in Seq(Names)
    PROVE  LET r == MkdirP(f, path)
           IN  /\ Keeps(f, r.arena) /\ Quiet(f, r.arena)
               /\ r.id # None => Placed(r.arena, path, r.id)
<1> DEFINE n == Len(path)
           Part(k) == SubSeq(path, 1, k)
           Lands(r, k) == /\ Keeps(f, r.arena) /\ Quiet(f, r.arena)
                          /\ r.id # None => Placed(r.arena, Part(k), r.id)
<1>0. f \in GoodArenas
    BY DEF GoodArenas, GoodArena, TypeIn
<1>1. PICK w : WalksTo(w, f, path)
    BY <1>0, MkdirPWalk
<1>2. /\ w[0] = [arena |-> f, id |-> Root] /\ w[n] = MkdirP(f, path)
      /\ \A k \in 1 .. n : w[k] = MkdirPStep(w[k - 1], path[k])
      /\ \A k \in 0 .. n : w[k] \in Places
    BY <1>1 DEF WalksTo
<1>3. /\ n \in Nat /\ Part(0) = <<>> /\ Part(n) = path
      /\ \A k \in 1 .. n : /\ Part(k) = Append(Part(k - 1), path[k]) /\ path[k] \in Names
                           /\ Part(k - 1) \in Seq(Names)
    OBVIOUS
<1> HIDE DEF n, Part
<1>4. Lands(w[0], 0)
  <2>1. w[0].arena = f /\ w[0].id = Root
      BY <1>2
  <2>2. Placed(f, <<>>, Root)
      BY PlacedRoot
  <2> QED
      BY <1>3, <2>1, <2>2 DEF Keeps, Quiet, FreshIn
<1>5. ASSUME NEW k \in 1 .. n, Lands(w[k - 1], k - 1) PROVE Lands(w[k], k)
  <2> DEFINE r == w[k - 1]
             made == MkdirIn(r.arena, r.id, path[k])
  <2>1. k - 1 \in 0 .. n /\ path[k] \in Names /\ w[k] = MkdirPStep(r, path[k])
    <3>1. k - 1 \in 0 .. n
        BY <1>3
    <3> QED
        BY <1>2, <1>3, <3>1, Zenon
  <2>2. GoodArena(r.arena) /\ r.id \in Somewhere(r.arena)
      BY <1>2, <2>1 DEF Places, GoodArenas
  <2>3. CASE r.id = None
      BY <1>5, <2>1, <2>3 DEF MkdirPStep
  <2>4. CASE r.id # None
    <3>1. r.id \in Nodes(r.arena)
        BY <2>2, <2>4 DEF Somewhere
    <3>2. /\ Keeps(r.arena, made.arena) /\ Quiet(r.arena, made.arena)
          /\ made.id # r.id => /\ made.id \in Nodes(made.arena)
                               /\ made.arena.parent[made.id] = r.id
                               /\ made.arena.name[made.id] = path[k]
        BY <2>1, <2>2, <3>1, MkdirKeeps
    <3>3. w[k].arena = made.arena /\ w[k].id = IF made.id = r.id THEN None ELSE made.id
        BY <2>1, <2>4 DEF MkdirPStep
    <3> HIDE DEF made, r
    <3>4. Keeps(f, made.arena) /\ Quiet(f, made.arena)
        BY <1>5, <2>2, <3>2, KeepsTransitive, QuietTransitive DEF r
    <3>5. Placed(made.arena, Part(k - 1), r.id)
        BY <1>3, <1>5, <2>4, <3>2, PlacedKept DEF r
    <3>6. made.id # r.id => Placed(made.arena, Part(k), made.id)
      <4>1. Part(k) = Append(Part(k - 1), path[k]) /\ Part(k - 1) \in Seq(Names)
          BY <1>3
      <4>2. made.id # r.id => Placed(made.arena, Append(Part(k - 1), path[k]), made.id)
          BY <2>1, <3>2, <3>5, <4>1, PlacedChild
      <4> QED
          BY <4>1, <4>2, Zenon
    <3> QED
        BY <3>3, <3>4, <3>6
  <2> QED
      BY <2>3, <2>4
<1> HIDE DEF Lands
<1> DEFINE T == {k \in 0 .. n : Lands(w[k], k)}
<1>6. 0 \in T /\ \A k \in 1 .. n : k - 1 \in T => k \in T
  <2>1. \A k \in 1 .. n : k \in 0 .. n
      BY <1>3
  <2> QED
      BY <1>3, <1>4, <1>5, <2>1
<1>7. 0 .. n \subseteq T
  <2> HIDE DEF T
  <2> QED
      BY <1>3, <1>6, StepsReachAll
<1>8. Lands(w[n], n)
    BY <1>3, <1>7
<1> QED
    BY <1>2, <1>3, <1>8 DEF Lands

(* add_file writes the child of the directory it was given and nothing else. *)
LEMMA AddFileLands ==
    ASSUME NEW f, GoodArena(f), NEW p \in Nodes(f), NEW n \in Names, NEW l \in Nat
    PROVE  LET made == AddFile(f, p, n, l)
           IN  /\ Keeps(f, made.arena)
               /\ \A j \in Nodes(made.arena) :
                    FreshIn(f, made.arena, j) => made.arena.parent[j] = p /\ made.arena.name[j] = n
               /\ made.id # p => /\ made.id \in Nodes(made.arena)
                                 /\ made.arena.parent[made.id] = p /\ made.arena.name[made.id] = n
<1> DEFINE made == AddFile(f, p, n, l)
           e  == Child(f, p, n)
           b  == f.bytes - OldLen(f, e) + l
           cr == Insert(f, p, n, "file", l)
           g  == made.arena
<1>0. e # None => e \in Nodes(f) /\ f.parent[e] = p /\ f.name[e] = n
    BY ChildIsNode DEF Child, GoodArena, LinksIn, Nodes
<1>1. CASE b > MaxBytes
    BY <1>0, <1>1 DEF AddFile, Keeps, FreshIn
<1>2. CASE ~(b > MaxBytes) /\ e # None
  <2>1. g = [Replace(f, e, "file", l) EXCEPT !.bytes = b] /\ made.id = e
      BY <1>2 DEF AddFile
  <2>2. /\ g.count = f.count /\ g.parent = f.parent /\ g.name = f.name
        /\ g.kind = [f.kind EXCEPT ![e] = "file"] /\ g.len = [f.len EXCEPT ![e] = l]
        /\ f.kind \in [Ids -> Kinds] /\ f.len \in [Ids -> Nat]
      BY <2>1 DEF Replace, GoodArena, TypeIn, Arenas
  <2> HIDE DEF g, made, e
  <2>3. Nodes(g) = Nodes(f) /\ \A j \in Nodes(g) : FreshIn(f, g, j) => j = e
      BY <2>2 DEF Nodes, FreshIn
  <2> QED
      BY <1>0, <1>2, <2>1, <2>2, <2>3 DEF Keeps, g, made
<1>3. CASE ~(b > MaxBytes) /\ e = None
  <2>1. /\ Keeps(f, cr.arena)
        /\ \A j \in Nodes(cr.arena) : FreshIn(f, cr.arena, j) => j = cr.id /\ cr.id # p
        /\ cr.id # p => /\ cr.id \in Nodes(cr.arena)
                        /\ cr.arena.parent[cr.id] = p /\ cr.arena.name[cr.id] = n
      BY InsertKeeps
  <2>2. CASE cr.id = p
    <3>1. g = cr.arena /\ made.id = cr.id
        BY <1>3, <2>2 DEF AddFile
    <3> HIDE DEF cr, made
    <3> QED
        BY <2>1, <2>2, <3>1 DEF made
  <2>3. CASE cr.id # p
    <3>1. g = [cr.arena EXCEPT !.bytes = @ + l] /\ made.id = cr.id
        BY <1>3, <2>3 DEF AddFile
    <3>2. GoodArena(cr.arena)
        BY <1>3, InsertGood
    <3> HIDE DEF cr, made
    <3>3. /\ g.count = cr.arena.count /\ g.parent = cr.arena.parent /\ g.name = cr.arena.name
          /\ g.kind = cr.arena.kind /\ g.len = cr.arena.len
        BY <3>1, <3>2 DEF GoodArena, TypeIn, Arenas
    <3> HIDE DEF g
    <3>4. Nodes(g) = Nodes(cr.arena)
        BY <3>3 DEF Nodes
    <3>5. made.id = cr.id
        BY <3>1
    <3>6. Keeps(f, g)
        BY <2>1, <3>3, <3>4 DEF Keeps
    <3>7. \A j \in Nodes(g) : FreshIn(f, g, j) => g.parent[j] = p /\ g.name[j] = n
        BY <2>1, <3>3, <3>4 DEF FreshIn
    <3>8. made.id \in Nodes(g) /\ g.parent[made.id] = p /\ g.name[made.id] = n
        BY <2>1, <2>3, <3>3, <3>4, <3>5
    <3> QED
        BY <3>6, <3>7, <3>8 DEF g, made
  <2> QED
      BY <2>2, <2>3
<1> QED
    BY <1>1, <1>2, <1>3

(* A mirror writes the file at its path, and only that one. *)
LEMMA MirrorLands ==
    ASSUME NEW f, GoodArena(f), NEW path \in Seq(Names) \ {<<>>}, NEW l \in Nat
    PROVE  LET m == MirrorAt(f, path, l)
           IN  /\ Keeps(f, m.arena)
               /\ \A j \in Nodes(m.arena) : FreshIn(f, m.arena, j) => Placed(m.arena, path, j)
               /\ m.id # None => Placed(m.arena, path, m.id)
<1> DEFINE m    == MirrorAt(f, path, l)
           dir  == MkdirP(f, Parent(path))
           made == AddFile(dir.arena, dir.id, Name(path), l)
<1>1. Parent(path) \in Seq(Names) /\ Name(path) \in Names /\ path = Append(Parent(path), Name(path))
    BY DEF Parent, Name
<1>2. dir \in Places
  <2>1. f \in GoodArenas
      BY DEF GoodArenas, GoodArena, TypeIn
  <2> QED
      BY <1>1, <2>1, MkdirPGood
<1>3. /\ Keeps(f, dir.arena) /\ Quiet(f, dir.arena)
      /\ dir.id # None => Placed(dir.arena, Parent(path), dir.id)
    BY <1>1, MkdirPLands
<1>4. /\ m.arena = IF dir.id = None THEN dir.arena ELSE made.arena
      /\ m.id = IF dir.id = None \/ made.id = dir.id THEN None ELSE made.id
    BY DEF MirrorAt
<1> HIDE DEF m, dir
<1>5. GoodArena(dir.arena) /\ dir.id \in Somewhere(dir.arena)
    BY <1>2 DEF Places, GoodArenas
<1>6. CASE dir.id = None
    BY <1>3, <1>4, <1>6 DEF Quiet, m
<1>7. CASE dir.id # None
  <2>1. dir.id \in Nodes(dir.arena)
      BY <1>5, <1>7 DEF Somewhere
  <2>2. /\ Keeps(dir.arena, made.arena)
        /\ \A j \in Nodes(made.arena) : FreshIn(dir.arena, made.arena, j)
             => made.arena.parent[j] = dir.id /\ made.arena.name[j] = Name(path)
        /\ made.id # dir.id => /\ made.id \in Nodes(made.arena)
                               /\ made.arena.parent[made.id] = dir.id
                               /\ made.arena.name[made.id] = Name(path)
      BY <1>1, <1>5, <2>1, AddFileLands
  <2> HIDE DEF made
  <2>3. Placed(made.arena, Parent(path), dir.id)
      BY <1>1, <1>3, <1>7, <2>2, PlacedKept
  <2>4. ASSUME NEW c \in Nodes(made.arena), made.arena.parent[c] = dir.id,
               made.arena.name[c] = Name(path)
        PROVE  Placed(made.arena, path, c)
    <3>1. Placed(made.arena, Append(Parent(path), Name(path)), c)
        BY <1>1, <2>3, <2>4, PlacedChild
    <3> QED
        BY <1>1, <3>1
  <2>5. ASSUME NEW j \in Nodes(made.arena), FreshIn(f, made.arena, j)
        PROVE  Placed(made.arena, path, j)
    <3>1. FreshIn(dir.arena, made.arena, j)
      <4> SUFFICES ASSUME ~FreshIn(dir.arena, made.arena, j) PROVE FALSE
          OBVIOUS
      <4>1. dir.arena.kind[j] = "file" /\ dir.arena.len[j] = made.arena.len[j]
          BY <2>5 DEF FreshIn
      <4>2. j \in Nodes(dir.arena)
          BY <1>5, <4>1 DEF GoodArena, TypeIn, Nodes, Ids, Arenas
      <4> QED
          BY <1>3, <2>5, <4>1, <4>2 DEF Quiet, FreshIn
    <3> QED
        BY <2>2, <2>4, <3>1
  <2>6. Keeps(f, made.arena)
      BY <1>3, <2>2, KeepsTransitive
  <2> QED
      BY <1>4, <1>7, <2>2, <2>4, <2>5, <2>6 DEF m
<1> QED
    BY <1>6, <1>7

(* The drain writes the pending files at their paths, and only those. *)
LEMMA DrainLands ==
    ASSUME HandlesInv, GoodArena(fs)
    PROVE  \A j \in Nodes(PendingMirrored) : FreshIn(fs, PendingMirrored, j)
             => \E i \in Pending : Placed(PendingMirrored, handles[i].path, j)
<1>0. \A i \in Pending : handles[i].path \in Seq(Names) \ {<<>>} /\ handles[i].len \in Nat
    BY DEF Pending, HandlesInv, HandleOK
<1> DEFINE n == next_handle - 1
           At(a, j) == \E i \in Pending : Placed(a, handles[i].path, j)
<1>1. PICK w : /\ w[0] = fs /\ w[n] = PendingMirrored
               /\ \A k \in 1 .. n : w[k] = MirrorPending(k, w[k - 1])
               /\ \A k \in 0 .. n : GoodArena(w[k])
    BY DrainWalk
<1>2. n \in Nat
    BY DEF HandlesInv
<1> HIDE DEF n
<1> DEFINE T == {k \in 0 .. n : \A j \in Nodes(w[k]) : FreshIn(fs, w[k], j) => At(w[k], j)}
<1>3. 0 \in T
    BY <1>1, <1>2 DEF FreshIn
<1>4. ASSUME NEW k \in 1 .. n, k - 1 \in T PROVE k \in T
  <2> DEFINE a == w[k - 1]
             g == w[k]
  <2>1. k - 1 \in 0 .. n /\ k \in 0 .. n
      BY <1>2
  <2>2. GoodArena(a) /\ g = MirrorPending(k, a)
      BY <1>1, <2>1, Zenon
  <2>3. \A j \in Nodes(a) : FreshIn(fs, a, j) => At(a, j)
      BY <1>4
  <2> HIDE DEF a, g
  <2>4. \A j \in Nodes(g) : FreshIn(fs, g, j) => At(g, j)
    <3>1. CASE k \notin Pending
        BY <2>2, <2>3, <3>1 DEF MirrorPending
    <3>2. CASE k \in Pending
      <4> DEFINE path == handles[k].path
                 l    == handles[k].len
      <4>1. path \in Seq(Names) \ {<<>>} /\ l \in Nat
          BY <1>0, <3>2
      <4>2. g = MirrorAt(a, path, l).arena
          BY <2>2, <3>2 DEF MirrorPending
      <4> HIDE DEF path, l
      <4>3. Keeps(a, g) /\ \A j \in Nodes(g) : FreshIn(a, g, j) => Placed(g, path, j)
          BY <2>2, <4>1, <4>2, MirrorLands
      <4> SUFFICES ASSUME NEW j \in Nodes(g), FreshIn(fs, g, j) PROVE At(g, j)
          OBVIOUS
      <4>4. CASE FreshIn(a, g, j)
          BY <3>2, <4>3, <4>4 DEF path
      <4>5. CASE ~FreshIn(a, g, j)
        <5>1. a.kind[j] = "file" /\ a.len[j] = g.len[j]
            BY <4>5 DEF FreshIn
        <5>2. j \in Nodes(a)
            BY <2>2, <5>1 DEF GoodArena, TypeIn, Nodes, Ids, Arenas
        <5>3. FreshIn(fs, a, j)
            BY <5>1 DEF FreshIn
        <5>4. PICK i \in Pending : Placed(a, handles[i].path, j)
            BY <2>3, <5>2, <5>3
        <5>5. handles[i].path \in Seq(Names)
            BY <1>0
        <5>6. Placed(g, handles[i].path, j)
            BY <4>3, <5>4, <5>5, PlacedKept
        <5> QED
            BY <5>6
      <4> QED
          BY <4>4, <4>5
    <3> QED
        BY <3>1, <3>2
  <2> QED
      BY <2>1, <2>4 DEF g
<1>5. 0 .. n \subseteq T
  <2> HIDE DEF T
  <2> QED
      BY <1>2, <1>3, <1>4, StepsReachAll
<1>6. n \in T
    BY <1>2, <1>5
<1> QED
    BY <1>1, <1>6

(* The requests that change the tree create and write no file. *)
LEMMA UnlinkQuiet ==
    ASSUME NEW f, GoodArena(f), NEW p, NEW n
    PROVE  Quiet(f, UnlinkIn(f, p, n))
BY DEF Quiet, FreshIn, UnlinkIn, GoodArena, TypeIn, Arenas

LEMMA MoveQuiet ==
    ASSUME NEW f, GoodArena(f), NEW i, NEW np, NEW n
    PROVE  Quiet(f, Moved(f, i, np, n))
<1> DEFINE ch == [Detached(f, i) EXCEPT ![np] = [@ EXCEPT ![n] = i]]
<1>1. Moved(f, i, np, n) = [f EXCEPT !.children = ch, !.name[i] = n, !.parent[i] = np]
    BY DEF Moved
<1> HIDE DEF ch
<1> QED
    BY <1>1 DEF Quiet, FreshIn, GoodArena, TypeIn, Arenas

(* An open handle is not among the uploads this call returns; a file that    *)
(* comes in follows the report of the one before it; the sink is in some of  *)
(* the directories the client believes it is in, and in all of them unless a *)
(* cap made it stray.                                                        *)
LandInv ==
    /\ \A u \in completed : u.id \in 1 .. (next_handle - 1) /\ u.id \notin DOMAIN handles
    /\ file # NoFile => reports = {}
    /\ ~strayed => dirs = nesting
    /\ Within(dirs, nesting)

LEMMA WithinEmpty ==
    ASSUME NEW s, NEW t, Len(s) = 0
    PROVE  Within(s, t)
<1>1. 1 .. Len(s) = {}
    OBVIOUS
<1> DEFINE g == [i \in 1 .. Len(s) |-> 1]
<1>2. g \in [1 .. Len(s) -> 1 .. Len(t)]
    BY <1>1
<1> QED
    BY <1>1, <1>2 DEF Within

(* Entering a directory, with or without the sink. *)
LEMMA WithinEnter ==
    ASSUME NEW s \in Seq(Names), NEW t \in Seq(Names), NEW n \in Names, Within(s, t)
    PROVE  Within(s, Append(t, n)) /\ Within(Append(s, n), Append(t, n))
<1> DEFINE a == Len(s)
           b == Len(t)
           T == Append(t, n)
           S == Append(s, n)
<1>1. PICK m \in [1 .. a -> 1 .. b] :
        /\ \A i, j \in 1 .. a : i < j => m[i] < m[j]
        /\ \A i \in 1 .. a : s[i] = t[m[i]]
    BY DEF Within
<1>2. /\ a \in Nat /\ b \in Nat /\ Len(T) = b + 1 /\ Len(S) = a + 1
      /\ \A i \in 1 .. b : T[i] = t[i]
      /\ \A i \in 1 .. a : S[i] = s[i]
      /\ T[b + 1] = n /\ S[a + 1] = n
    OBVIOUS
<1> HIDE DEF T, S, a, b
<1>3. Within(s, T)
  <2>1. m \in [1 .. a -> 1 .. (b + 1)]
      BY <1>1, <1>2
  <2>2. \A i \in 1 .. a : s[i] = T[m[i]]
      BY <1>1, <1>2
  <2> QED
      BY <1>1, <1>2, <2>1, <2>2 DEF Within, a
<1>4. Within(S, T)
  <2> DEFINE g == [i \in 1 .. (a + 1) |-> IF i = a + 1 THEN b + 1 ELSE m[i]]
  <2>1. \A i \in 1 .. (a + 1) : i # a + 1 => i \in 1 .. a /\ m[i] \in 1 .. b
      BY <1>1, <1>2
  <2>2. g \in [1 .. (a + 1) -> 1 .. (b + 1)]
      BY <1>2, <2>1
  <2>3. ASSUME NEW i \in 1 .. (a + 1), NEW j \in 1 .. (a + 1), i < j PROVE g[i] < g[j]
    <3>1. i # a + 1
        BY <1>2, <2>3
    <3>2. CASE j = a + 1
        BY <1>2, <2>1, <3>1, <3>2
    <3>3. CASE j # a + 1
        BY <1>1, <2>1, <2>3, <3>1, <3>3
    <3> QED
        BY <3>2, <3>3
  <2>4. \A i \in 1 .. (a + 1) : S[i] = T[g[i]]
      BY <1>1, <1>2, <2>1
  <2> HIDE DEF g
  <2> QED
      BY <1>2, <2>2, <2>3, <2>4 DEF Within
<1> QED
    BY <1>3, <1>4 DEF T, S

(* Leaving one. *)
LEMMA WithinLeave ==
    ASSUME NEW s \in Seq(Names), NEW t \in Seq(Names), Within(s, t)
    PROVE  Within(Popped(s), Popped(t))
<1> DEFINE a == Len(s)
           b == Len(t)
           S == Popped(s)
           T == Popped(t)
<1>1. PICK m \in [1 .. a -> 1 .. b] :
        /\ \A i, j \in 1 .. a : i < j => m[i] < m[j]
        /\ \A i \in 1 .. a : s[i] = t[m[i]]
    BY DEF Within
<1>2. a \in Nat /\ b \in Nat /\ (s = <<>> <=> a = 0) /\ (t = <<>> <=> b = 0)
    OBVIOUS
<1>3. CASE a = 0
  <2>1. Len(S) = 0
      BY <1>2, <1>3 DEF Popped
  <2> QED
      BY <2>1, WithinEmpty DEF S
<1>4. CASE a # 0
  <2>1. a \in 1 .. a /\ m[a] \in 1 .. b
      BY <1>1, <1>2, <1>4
  <2>2. b # 0 /\ S = SubSeq(s, 1, a - 1) /\ T = SubSeq(t, 1, b - 1)
      BY <1>2, <1>4, <2>1 DEF Popped
  <2>3. /\ Len(S) = a - 1 /\ Len(T) = b - 1
        /\ \A i \in 1 .. (a - 1) : S[i] = s[i]
        /\ \A i \in 1 .. (b - 1) : T[i] = t[i]
    <3>1. a - 1 \in 0 .. Len(s) /\ b - 1 \in 0 .. Len(t)
        BY <1>2, <1>4, <2>2
    <3>2. /\ Len(SubSeq(s, 1, a - 1)) = a - 1
          /\ \A i \in 1 .. (a - 1) : SubSeq(s, 1, a - 1)[i] = s[i]
      <4> HIDE DEF a, b, S, T
      <4> QED
        BY <3>1, <1>2
    <3>3. /\ Len(SubSeq(t, 1, b - 1)) = b - 1
          /\ \A i \in 1 .. (b - 1) : SubSeq(t, 1, b - 1)[i] = t[i]
      <4> HIDE DEF a, b, S, T
      <4> QED
        BY <3>1, <1>2
    <3> HIDE DEF a, b, S, T
    <3> QED
        BY <2>2, <3>2, <3>3
  <2> DEFINE g == [i \in 1 .. (a - 1) |-> m[i]]
  <2> HIDE DEF S, T, a, b
  <2>4. \A i \in 1 .. (a - 1) : i \in 1 .. a /\ i < a
      BY <1>2
  <2>5. \A i \in 1 .. (a - 1) : m[i] \in 1 .. (b - 1)
    <3> TAKE i \in 1 .. (a - 1)
    <3>1. m[i] < m[a] /\ m[i] \in 1 .. b
        BY <1>1, <2>1, <2>4
    <3> QED
        BY <1>2, <2>1, <3>1
  <2>6. g \in [1 .. (a - 1) -> 1 .. (b - 1)]
      BY <2>5
  <2>7. /\ \A i, j \in 1 .. (a - 1) : i < j => g[i] < g[j]
        /\ \A i \in 1 .. (a - 1) : S[i] = T[g[i]]
      BY <1>1, <2>3, <2>4, <2>5
  <2> HIDE DEF g
  <2>8. Within(S, T)
      BY <2>3, <2>6, <2>7 DEF Within
  <2> QED
      BY <2>8 DEF S, T
<1> QED
    BY <1>3, <1>4

LEMMA LandInitially == TransfersInit => LandInv
<1> SUFFICES ASSUME TransfersInit PROVE LandInv
    OBVIOUS
<1>1. dirs = <<>> /\ nesting = <<>> /\ completed = {} /\ file = NoFile
    BY DEF TransfersInit, SftpInit, ScpInit
<1>2. Within(dirs, nesting)
    BY <1>1, WithinEmpty
<1> QED
    BY <1>1, <1>2 DEF LandInv

LEMMA LandStep ==
    ASSUME HandlesInv, ScpTypeOK, LandInv, [TransfersNext]_transferVars
    PROVE  LandInv'
<1> DEFINE Uploads == \A u \in completed : u.id \in 1 .. (next_handle - 1) /\ u.id \notin DOMAIN handles
           Sink == (file # NoFile => reports = {}) /\ (~strayed => dirs = nesting) /\ Within(dirs, nesting)
<1>1. ASSUME UNCHANGED scpVars PROVE Sink'
    BY <1>1 DEF scpVars, LandInv
<1>2. ASSUME UNCHANGED sftpVars PROVE Uploads'
    BY <1>2 DEF sftpVars, openVars, LandInv
<1>3. ASSUME ScpStep PROVE Sink'
  <2>1. CASE \E n \in Names \ {Up}, size \in Sizes : ControlC(n, size)
      BY <2>1 DEF ControlC, LandInv
  <2>2. CASE \E n \in Names \ {Up} : ControlD(n)
    <3>1. PICK n \in Names \ {Up} : ControlD(n)
        BY <2>2
    <3>2. Len(dirs) \in Nat
        BY DEF ScpTypeOK
    <3>3. file' = NoFile
        BY <3>1 DEF ControlD
    <3>4. ASSUME ~strayed' PROVE dirs' = nesting'
      <4>1. ~strayed /\ ~(Len(dirs) >= MaxScpDepth)
          BY <3>1, <3>4, Zenon DEF ControlD
      <4>2. Len(dirs) < MaxScpDepth
          BY <3>2, <4>1
      <4> QED
          BY <3>1, <4>1, <4>2 DEF ControlD, LandInv
    <3>5. Within(dirs', nesting')
      <4>1. dirs \in Seq(Names) /\ nesting \in Seq(Names) /\ Within(dirs, nesting)
          BY DEF ScpTypeOK, LandInv
      <4>2. nesting' = Append(nesting, n) /\ dirs' \in {dirs, Append(dirs, n)}
          BY <3>1 DEF ControlD
      <4> QED
          BY <4>1, <4>2, WithinEnter
    <3> QED
        BY <3>3, <3>4, <3>5
  <2>3. CASE ControlE
    <3>1. dirs \in Seq(Names) /\ nesting \in Seq(Names) /\ Within(dirs, nesting)
        BY DEF ScpTypeOK, LandInv
    <3>2. dirs' = Popped(dirs) /\ nesting' = Popped(nesting) /\ UNCHANGED strayed /\ file' = NoFile
        BY <2>3 DEF ControlE
    <3>3. Within(dirs', nesting')
        BY <3>1, <3>2, WithinLeave
    <3> QED
        BY <3>2, <3>3 DEF LandInv
  <2>4. CASE OverlongLine
    <3>1. dirs' = <<>> /\ strayed' /\ file' = NoFile
        BY <2>4 DEF OverlongLine
    <3>2. Within(dirs', nesting')
        BY <3>1, WithinEmpty
    <3> QED
        BY <3>1, <3>2
  <2>5. CASE BodyByte
      BY <2>5 DEF BodyByte, LandInv
  <2>6. CASE BodyEnds
      BY <2>6 DEF BodyEnds, LandInv
  <2>7. CASE ScpEnds
    <3>1. dirs' = <<>> /\ nesting' = <<>> /\ file' = NoFile
        BY <2>7 DEF ScpEnds
    <3>2. Within(dirs', nesting')
        BY <3>1, WithinEmpty
    <3> QED
        BY <3>1, <3>2
  <2> QED
      BY <1>3, <2>1, <2>2, <2>3, <2>4, <2>5, <2>6, <2>7 DEF ScpStep
<1>4. ASSUME SftpStep PROVE Uploads'
  <2>1. ASSUME NEW h, Opened(h), UNCHANGED completed PROVE Uploads'
      BY <2>1 DEF Opened, LandInv, HandlesInv
  <2>2. ASSUME UNCHANGED <<next_handle, completed>>, DOMAIN handles' = DOMAIN handles PROVE Uploads'
      BY <2>2 DEF LandInv
  <2>3. ASSUME NEW path \in Paths, OpenWrite(path) \/ OpenRead(path) \/ OpenDir(path) PROVE Uploads'
      BY <2>1, <2>3 DEF OpenWrite, OpenRead, OpenDir
  <2>4. ASSUME NEW path \in Paths,
               \/ Remove(path) \/ MakeDir(path) \/ SymLink(path) \/ RemoveDir(path)
               \/ \E new \in Paths : RenamePath(path, new)
        PROVE  Uploads'
      BY <2>2, <2>4 DEF Remove, MakeDir, SymLink, RemoveDir, RenamePath, TreePacket, openVars
  <2>5. ASSUME (\E n \in 0 .. MaxPipelined : Frame(n)) \/ Ignored \/ Answer PROVE Uploads'
      BY <2>2, <2>5 DEF Frame, Ignored, Answer, openVars
  <2>6. ASSUME FeedEnds \/ Oversized PROVE Uploads'
      BY <2>6 DEF FeedEnds, Oversized
  <2>7. ASSUME NEW i \in DOMAIN handles,
               ReadDir(i) \/ \E off \in Offsets, n \in Chunks : Write(i, off, n)
        PROVE  Uploads'
      BY <2>2, <2>7 DEF ReadDir, Write
  <2>8. ASSUME NEW i \in DOMAIN handles, Close(i) PROVE Uploads'
    <3>1. /\ DOMAIN handles' = DOMAIN handles \ {i} /\ next_handle' = next_handle
          /\ completed' \subseteq completed \cup {Upload(i)}
        BY <2>8 DEF Close, Without
    <3>2. Upload(i).id = i
        BY DEF Upload
    <3> QED
        BY <3>1, <3>2 DEF LandInv, HandlesInv
  <2>9. ASSUME Drain PROVE Uploads'
    <3>1. /\ DOMAIN handles' = {} /\ next_handle' = next_handle
          /\ completed' = completed \cup {Upload(i) : i \in Pending}
        BY <2>9 DEF Drain, NoHandles
    <3>2. \A i \in Pending : Upload(i).id = i /\ i \in DOMAIN handles
        BY DEF Upload, Pending
    <3> QED
        BY <3>1, <3>2 DEF LandInv, HandlesInv
  <2> QED
      BY <1>4, <2>3, <2>4, <2>5, <2>6, <2>7, <2>8, <2>9 DEF SftpStep
<1>5. LandInv' <=> Uploads' /\ Sink'
    BY DEF LandInv
<1> QED
    BY <1>1, <1>2, <1>3, <1>4, <1>5 DEF TransfersNext, TransferOver, transferVars

(* One step: what is fresh is at the path of an upload it reports. *)
LEMMA MirrorsStep ==
    ASSUME TransfersInv, LandInv, [TransfersNext]_transferVars,
           NEW j \in Nodes(fs'), FreshIn(fs, fs', j)
    PROVE  \E u \in (completed' \ completed) \cup (reports' \ reports) : IsPathOf(fs', u.path, j)
<1> USE DEF TransfersInv
<1>0. /\ GoodArena(fs) /\ GoodArena(fs')
      /\ \A path \in Paths : /\ path \in Seq(Names) \ {<<>>}
                             /\ Parent(path) \in Seq(Names) /\ Name(path) \in Names
  <2>1. GoodArena(fs')
      BY ArenaStep
  <2>2. \A path \in Paths : /\ path \in Seq(Names) \ {<<>>}
                            /\ Parent(path) \in Seq(Names) /\ Name(path) \in Names
      BY PathParts
  <2> QED
      BY <2>1, <2>2
<1>1. ~Quiet(fs, fs')
    BY DEF Quiet
<1>2. ASSUME UNCHANGED fs PROVE FALSE
    BY <1>2 DEF FreshIn
<1>3. ASSUME NEW i \in DOMAIN handles PROVE Upload(i) \notin completed /\ Upload(i).path = handles[i].path
    BY DEF LandInv, Upload
<1>4. ASSUME NEW i \in DOMAIN handles, Close(i)
      PROVE  \E u \in completed' \ completed : IsPathOf(fs', u.path, j)
  <2>1. handles[i].path \in Seq(Names) \ {<<>>} /\ handles[i].len \in Nat
      BY <1>0 DEF HandlesInv, HandleOK
  <2>2. handles[i].kind = "write" /\ fs' = MirrorAt(fs, handles[i].path, handles[i].len).arena
      BY <1>2, <1>4 DEF Close
  <2>3. Placed(fs', handles[i].path, j)
      BY <1>0, <2>1, <2>2, MirrorLands
  <2>4. IsPathOf(fs', handles[i].path, j)
      BY <1>0, <2>1, <2>3, PlacedIsPath
  <2>5. Upload(i) \in completed'
      BY <1>4, <2>2 DEF Close
  <2> QED
      BY <1>3, <2>4, <2>5
<1>5. ASSUME Drain PROVE \E u \in completed' \ completed : IsPathOf(fs', u.path, j)
  <2>1. fs' = PendingMirrored /\ \A i \in Pending : Upload(i) \in completed'
      BY <1>5 DEF Drain
  <2>2. PICK i \in Pending : Placed(fs', handles[i].path, j)
      BY <1>0, <2>1, DrainLands
  <2>3. i \in DOMAIN handles /\ handles[i].path \in Seq(Names)
      BY <1>0 DEF Pending, HandlesInv, HandleOK
  <2>4. IsPathOf(fs', handles[i].path, j)
      BY <1>0, <2>2, <2>3, PlacedIsPath
  <2> QED
      BY <1>3, <2>1, <2>3, <2>4
<1>6. ASSUME BodyEnds PROVE \E u \in reports' \ reports : IsPathOf(fs', u.path, j)
  <2> DEFINE path == Destination(dirs, file.name)
             m == MirrorAt(fs, path, file.len)
  <2>1. path \in Seq(Names) \ {<<>>} /\ file.len \in Nat /\ reports = {}
      BY <1>0, <1>6, DestinationNamed DEF BodyEnds, LandInv
  <2>2. fs' = m.arena /\ \E u \in reports' : u.path = path
      BY <1>6 DEF BodyEnds
  <2> HIDE DEF path
  <2>3. Placed(fs', path, j)
      BY <1>0, <2>1, <2>2, MirrorLands
  <2>4. IsPathOf(fs', path, j)
      BY <1>0, <2>1, <2>3, PlacedIsPath
  <2> QED
      BY <2>1, <2>2, <2>4
<1>7. ASSUME NEW path \in Paths,
             Remove(path) \/ MakeDir(path) \/ SymLink(path) \/ RemoveDir(path)
      PROVE  FALSE
  <2> DEFINE d == Resolve(fs, Parent(path))
             n == Name(path)
  <2>1. d # None /\ \/ fs' = UnlinkIn(fs, d, n) \/ fs' = MkdirIn(fs, d, n).arena
                    \/ fs' = AddLink(fs, d, n).arena
      BY <1>7 DEF Remove, MakeDir, SymLink, RemoveDir
  <2>2. d \in Nodes(fs) /\ n \in Names
      BY <1>0, <2>1, ResolveStays DEF Somewhere
  <2> HIDE DEF d, n
  <2>3. Quiet(fs, MkdirIn(fs, d, n).arena)
      BY <1>0, <2>2, MkdirKeeps
  <2>4. Quiet(fs, AddLink(fs, d, n).arena)
    <3>1. Quiet(fs, Insert(fs, d, n, "link", 0).arena) /\ Quiet(fs, fs)
        BY <1>0, <2>2, InsertKeeps DEF Quiet, FreshIn
    <3> QED
        BY <3>1 DEF AddLink
  <2> QED
      BY <1>0, <1>1, <2>1, <2>3, <2>4, UnlinkQuiet
<1>8. ASSUME NEW path \in Paths, NEW new \in Paths, RenamePath(path, new) PROVE FALSE
  <2>1. \E i, np : fs' = Moved(fs, i, np, Name(new))
      BY <1>8 DEF RenamePath, Rename
  <2> QED
      BY <1>0, <1>1, <2>1, MoveQuiet
<1>9. ASSUME \/ (\E n \in 0 .. MaxPipelined : Frame(n)) \/ FeedEnds \/ Oversized \/ Ignored \/ Answer
             \/ \E path \in Paths : OpenWrite(path) \/ OpenRead(path) \/ OpenDir(path)
             \/ \E i \in DOMAIN handles : \/ ReadDir(i)
                                          \/ \E off \in Offsets, n \in Chunks : Write(i, off, n)
      PROVE  FALSE
  <2>1. UNCHANGED fs
      BY <1>9 DEF Frame, FeedEnds, Oversized, Ignored, Answer, OpenWrite, OpenRead, OpenDir,
                  ReadDir, Write
  <2> QED
      BY <1>2, <2>1
<1>10. CASE SftpStep
    BY <1>4, <1>5, <1>7, <1>8, <1>9, <1>10 DEF SftpStep
<1>11. CASE ScpStep
  <2>1. ASSUME ~BodyEnds PROVE UNCHANGED fs
      BY <1>11, <2>1 DEF ScpStep, ControlC, ControlD, ControlE, OverlongLine, BodyByte, ScpEnds
  <2> QED
      BY <1>2, <1>6, <2>1
<1> QED
    BY <1>2, <1>10, <1>11 DEF TransfersNext, TransferOver, transferVars

(* One step: a file that is reported is where the client sent it. *)
LEMMA FilesStep ==
    ASSUME TransfersInv, LandInv, [TransfersNext]_transferVars,
           NEW r \in reports' \ reports, r.node # None
    PROVE  /\ IsPathOf(fs', Destination(r.rel, r.name), r.node)
           /\ Within(r.rel, nesting)
           /\ strayed \/ r.rel = nesting
<1> DEFINE path == Destination(dirs, file.name)
           m == MirrorAt(fs, path, file.len)
<1>1. BodyEnds
    BY DEF TransfersNext, TransferOver, transferVars, scpVars,
           ScpStep, ControlC, ControlD, ControlE, OverlongLine, BodyByte, ScpEnds
<1>2. /\ GoodArena(fs) /\ GoodArena(fs')
    BY ArenaStep DEF TransfersInv
<1>3. path \in Seq(Names) \ {<<>>} /\ file.len \in Nat
    BY <1>1, <1>2, DestinationNamed DEF BodyEnds, TransfersInv
<1>4. fs' = m.arena /\ r.node = m.id /\ r.name = file.name /\ r.rel = dirs
    BY <1>1 DEF BodyEnds
<1>5. Within(dirs, nesting) /\ (~strayed => dirs = nesting)
    BY DEF LandInv
<1>6. Destination(r.rel, r.name) = path
    BY <1>4
<1> HIDE DEF path
<1>7. Placed(fs', path, r.node)
    BY <1>2, <1>3, <1>4, MirrorLands
<1> QED
    BY <1>2, <1>3, <1>4, <1>5, <1>6, <1>7, PlacedIsPath

(* For any caps, requests, targets and nesting: a file that a transfer       *)
(* creates or rewrites is at the path of an upload the same step reports,    *)
(* and an SCP file at the path the client sent it to, as it was written, or, *)
(* if a cap made the sink stray, under fewer of the client's directories.    *)
THEOREM MirrorsAlwaysLand == TransfersSpec => MirrorsLand
<1>1. TransfersInv /\ LandInv /\ [TransfersNext]_transferVars => LandInv'
    BY LandStep DEF TransfersInv
<1>2. TransfersSpec => [](TransfersInv /\ LandInv)
    BY <1>1, LandInitially, TransfersInvariant, PTL DEF TransfersSpec
<1>3. TransfersInv /\ LandInv /\ [TransfersNext]_transferVars
        => [\A i \in Nodes(fs') : Fresh(i) =>
              \E u \in (completed' \ completed) \cup (reports' \ reports) :
                  IsPathOf(fs', u.path, i)]_transferVars
  <2>1. \A i : Fresh(i) => FreshIn(fs, fs', i)
      BY DEF Fresh, FreshIn
  <2> QED
      BY <2>1, MirrorsStep
<1>4. TransfersInv /\ LandInv /\ [TransfersNext]_transferVars
        => [\A r \in reports' \ reports : r.node # None =>
              /\ IsPathOf(fs', Destination(r.rel, r.name), r.node)
              /\ Within(r.rel, nesting)
              /\ strayed \/ r.rel = nesting]_<<scpVars, fs>>
    BY FilesStep
<1> QED
    BY <1>2, <1>3, <1>4, PTL DEF TransfersSpec, MirrorsLand, MirrorsStayPut, FilesLandWhereSent
=============================================================================
