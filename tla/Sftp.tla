-------------------------------- MODULE Sftp --------------------------------
(***************************************************************************)
(* SftpSession of network/sftp.rs: the packet loop of `feed` with its cap  *)
(* on answers, the handles with the session's memory budget, and the       *)
(* uploads that leave it, on a close or when the channel ends.             *)
(*                                                                         *)
(* A packet's contents are chosen when it is handled; until then only the  *)
(* number of complete packets in the buffer matters.  File contents are    *)
(* sets of byte positions: `sent` is what the client wrote and `kept` what *)
(* the handle holds of it (a ghost beside the length `len` of the buffer,  *)
(* which sparse writes fill with zeros).                                   *)
(***************************************************************************)
EXTENDS Mirror

CONSTANTS
    MaxHandles,     \* MAX_SFTP_HANDLES
    FeedCap,        \* MAX_SFTP_FEED_RESPONSE, in answers
    DirChunk,       \* MAX_DIR_ENTRIES_PER_READ
    Paths,          \* the paths the client names, after normalize_path
    Offsets,        \* bound: offsets of its writes
    Chunks,         \* bound: lengths of its writes
    MaxPipelined,   \* bound: packets the client has sent and not seen handled
    MaxOpens,       \* bound: handles it opens
    MaxReceived     \* bound: bytes it writes to one handle

ASSUME SftpAssumption ==
    /\ MaxHandles \in Nat \ {0} /\ FeedCap \in Nat \ {0}
    /\ DirChunk \in Nat \ {0} /\ Paths \subseteq Seq(Names) \ {<<>>}
    /\ Offsets \subseteq Nat /\ Chunks \subseteq Nat
    /\ MaxPipelined \in Nat /\ MaxOpens \in Nat /\ MaxReceived \in Nat

VARIABLES
    sftp,           \* the session exists
    buf,            \* packets in SftpSession.buf: complete, or with a length over the limit
    out,            \* answers of the `feed` in progress
    feeding,        \* `feed` is in its loop
    handles,        \* SftpSession.handles
    next_handle,    \* SftpSession.next_handle
    buffered_bytes, \* SftpSession.buffered_bytes
    completed       \* the uploads this call returns, for store_sftp_upload

feedVars == <<sftp, buf, out, feeding>>
openVars == <<handles, next_handle, buffered_bytes, completed>>
sftpVars == <<feedVars, openVars>>

BufferCap == 2 * MaxUpload      \* SFTP_SESSION_BUFFER_MULTIPLIER

NoHandles == [i \in {} |-> None]

SftpInit(started) ==
    /\ sftp = started /\ buf = 0 /\ out = 0 /\ feeding = FALSE
    /\ handles = NoHandles /\ next_handle = 1 /\ buffered_bytes = 0
    /\ completed = {}

-----------------------------------------------------------------------------
(* feed: a frame brings complete packets, none if it ends inside one; the    *)
(* loop runs until they are used up or the answers reach the cap, and what   *)
(* is left waits for the next frame.  The code puts no cap on what waits:    *)
(* the bound is on how far the client runs ahead.                            *)
Frame(n) ==
    /\ sftp /\ ~feeding /\ buf + n <= MaxPipelined
    /\ feeding' = TRUE /\ buf' = buf + n /\ out' = 0
    /\ UNCHANGED <<sftp, openVars, fs>>

FeedEnds ==
    /\ feeding /\ (buf = 0 \/ out >= FeedCap)
    /\ feeding' = FALSE /\ out' = 0 /\ completed' = {}
    /\ UNCHANGED <<sftp, buf, handles, next_handle, buffered_bytes, fs>>

(* A length field over MAX_SFTP_PACKET_LEN: the buffer is thrown away. *)
Oversized ==
    /\ feeding /\ buf > 0 /\ out < FeedCap
    /\ feeding' = FALSE /\ buf' = 0 /\ out' = 0 /\ completed' = {}
    /\ UNCHANGED <<sftp, handles, next_handle, buffered_bytes, fs>>

(* One packet is taken and answered. *)

Packet ==
    /\ feeding /\ buf > 0 /\ out < FeedCap
    /\ buf' = buf - 1 /\ out' = out + 1
    /\ UNCHANGED <<sftp, feeding>>

(* A packet without a type or an id gets no answer. *)
Ignored ==
    /\ feeding /\ buf > 0 /\ out < FeedCap
    /\ buf' = buf - 1
    /\ UNCHANGED <<sftp, feeding, out, openVars, fs>>

(* Requests that only answer: INIT, REALPATH, STAT, LSTAT, FSTAT, READ,      *)
(* READLINK, the attribute changes (metadata is left out), what is malformed *)
(* or unsupported, and every request refused below.                          *)
Answer == Packet /\ UNCHANGED <<openVars, fs>>

-----------------------------------------------------------------------------
(* Handles. *)

NewHandle(kind, path, len) ==
    [kind |-> kind, path |-> path, len |-> len, size |-> 0, truncated |-> FALSE,
     kept |-> {}, sent |-> {}]

Opened(handle) ==
    /\ Cardinality(DOMAIN handles) < MaxHandles /\ next_handle <= MaxOpens
    /\ handles' = [i \in DOMAIN handles \cup {next_handle} |->
                     IF i = next_handle THEN handle ELSE handles[i]]
    /\ next_handle' = next_handle + 1

(* OPEN with the write flag: nothing of the path is looked at yet. *)
OpenWrite(path) ==
    /\ Packet
    /\ Opened(NewHandle("write", path, 0))
    /\ UNCHANGED <<buffered_bytes, completed, fs>>

(* OPEN for reading copies the file and is charged for it (the instance has  *)
(* no generated files).                                                      *)

OpenRead_Uncharged(path) ==
    /\ Packet
    /\ LET i == Resolve(fs, path)
       IN  /\ i # None /\ fs.kind[i] = "file"
           /\ buffered_bytes + fs.len[i] <= BufferCap
           /\ Opened(NewHandle("read", path, fs.len[i]))
    /\ UNCHANGED <<buffered_bytes, completed, fs>>

OpenRead(path) ==
    /\ Packet
    /\ LET i == Resolve(fs, path)
       IN  /\ i # None /\ fs.kind[i] = "file"
           /\ buffered_bytes + fs.len[i] <= BufferCap
           /\ Opened(NewHandle("read", path, fs.len[i]))
           /\ buffered_bytes' = buffered_bytes + fs.len[i]
    /\ UNCHANGED <<completed, fs>>

(* OPENDIR takes the listing, with `.` and `..`; `size` counts what    *)
(* READDIR has not given out yet.                                            *)
OpenDir(path) ==
    /\ Packet
    /\ LET i == Resolve(fs, path)
       IN  /\ i # None /\ fs.kind[i] = "dir"
           /\ Opened([NewHandle("dir", path, 0) EXCEPT !.size =
                        2 + Cardinality({n \in Names : fs.children[i][n] # None})])
    /\ UNCHANGED <<buffered_bytes, completed, fs>>

ReadDir(i) ==
    /\ Packet
    /\ handles[i].kind = "dir" /\ handles[i].size > 0
    /\ handles' = [handles EXCEPT ![i].size = IF @ > DirChunk THEN @ - DirChunk ELSE 0]
    /\ UNCHANGED <<next_handle, buffered_bytes, completed, fs>>

(* WRITE: what is beyond the file's cap is cut off; the buffer grows to the  *)
(* end of what is left only if the session's budget allows all of it.        *)

Written_SilentBudget(handle, off, n) ==
    LET end    == IF off + n <= MaxUpload THEN off + n ELSE MaxUpload
        extra  == IF end > handle.len THEN end - handle.len ELSE 0
        fits   == /\ off + n <= MaxUpload \/ off < MaxUpload
                  /\ extra <= BufferCap - buffered_bytes
    IN  [handle EXCEPT !.size = @ + n,
                       !.sent = @ \cup (off .. (off + n - 1)),
                       !.truncated = @ \/ off + n > MaxUpload,
                       !.len = IF fits THEN @ + extra ELSE @,
                       !.kept = IF fits THEN @ \cup (off .. (end - 1)) ELSE @]

Written(handle, off, n) ==
    LET end    == IF off + n <= MaxUpload THEN off + n ELSE MaxUpload
        extra  == IF end > handle.len THEN end - handle.len ELSE 0
        fits   == /\ off + n <= MaxUpload \/ off < MaxUpload
                  /\ extra <= BufferCap - buffered_bytes
    IN  [handle EXCEPT !.size = @ + n,
                       !.sent = @ \cup (off .. (off + n - 1)),
                       !.truncated = @ \/ off + n > MaxUpload \/ ~fits,
                       !.len = IF fits THEN @ + extra ELSE @,
                       !.kept = IF fits THEN @ \cup (off .. (end - 1)) ELSE @]

Write(i, off, n) ==
    /\ Packet
    /\ handles[i].kind = "write" /\ handles[i].size + n <= MaxReceived
    /\ handles' = [handles EXCEPT ![i] = Written(@, off, n)]
    /\ buffered_bytes' = buffered_bytes + handles'[i].len - handles[i].len
    /\ UNCHANGED <<next_handle, completed, fs>>

Upload(i) == [id |-> i, path |-> handles[i].path, len |-> handles[i].len,
              size |-> handles[i].size, truncated |-> handles[i].truncated,
              kept |-> handles[i].kept, sent |-> handles[i].sent]

Without(i) == [j \in DOMAIN handles \ {i} |-> handles[j]]

(* CLOSE: the handle's bytes return to the budget; a written file is         *)
(* mirrored and becomes an upload, an empty one too.                         *)

Close_OnlyMirrored(i) ==
    /\ Packet
    /\ handles' = Without(i)
    /\ buffered_bytes' = buffered_bytes - handles[i].len
    /\ LET mirror == MirrorAt(fs, handles[i].path, handles[i].len)
       IN  IF handles[i].kind = "write" /\ mirror.id # None
           THEN completed' = completed \cup {Upload(i)} /\ fs' = mirror.arena
           ELSE UNCHANGED <<completed, fs>>
    /\ UNCHANGED next_handle

Close(i) ==
    /\ Packet
    /\ handles' = Without(i)
    /\ buffered_bytes' = buffered_bytes - handles[i].len
    /\ completed' = IF handles[i].kind = "write" THEN completed \cup {Upload(i)} ELSE completed
    /\ fs' = IF handles[i].kind = "write"
             THEN MirrorAt(fs, handles[i].path, handles[i].len).arena ELSE fs
    /\ UNCHANGED next_handle

-----------------------------------------------------------------------------
(* Requests that change the tree. *)

TreePacket == Packet /\ UNCHANGED openVars

(* REMOVE: whatever has the name, a directory too. *)
Remove(path) ==
    /\ TreePacket
    /\ LET d == Resolve(fs, Parent(path))
       IN  /\ d # None /\ Child(fs, d, Name(path)) # None
           /\ fs' = UnlinkIn(fs, d, Name(path))

(* MKDIR and SYMLINK answer OK whatever the arena did. *)
MakeDir(path) ==
    /\ TreePacket
    /\ LET d == Resolve(fs, Parent(path))
       IN  d # None /\ fs' = MkdirIn(fs, d, Name(path)).arena

SymLink(path) ==
    /\ TreePacket
    /\ LET d == Resolve(fs, Parent(path))
       IN  d # None /\ fs' = AddLink(fs, d, Name(path)).arena

RemoveDir(path) ==
    /\ TreePacket
    /\ LET d == Resolve(fs, Parent(path))
           i == IF d = None THEN None ELSE Child(fs, d, Name(path))
       IN  /\ i # None /\ fs.kind[i] = "dir" /\ fs.children[i] = Empty
           /\ fs' = UnlinkIn(fs, d, Name(path))

(* RENAME resolves its source: a link's name moves the link's target. *)
RenamePath(old, new) ==
    /\ TreePacket
    /\ LET i  == Resolve(fs, old)
           np == Resolve(fs, Parent(new))
       IN  i # None /\ np # None /\ Rename(i, np, Name(new))

-----------------------------------------------------------------------------
(* drain_sftp_uploads when the channel or the connection ends:               *)
(* into_pending_uploads takes the write handles that got anything, in the    *)
(* order of their ids, mirrors them and makes uploads of them.               *)
Pending == {i \in DOMAIN handles : /\ handles[i].kind = "write"
                                   /\ handles[i].size > 0 \/ handles[i].len > 0}

PendingMirrored ==
    LET upTo[k \in 0 .. (next_handle - 1)] ==
          IF k = 0 THEN fs
          ELSE IF k \in Pending THEN MirrorAt(upTo[k - 1], handles[k].path, handles[k].len).arena
          ELSE upTo[k - 1]
    IN  upTo[next_handle - 1]

Drain ==
    /\ sftp /\ ~feeding
    /\ sftp' = FALSE /\ buf' = 0
    /\ fs' = PendingMirrored
    /\ completed' = completed \cup {Upload(i) : i \in Pending}
    /\ handles' = NoHandles /\ buffered_bytes' = 0
    /\ UNCHANGED <<out, feeding, next_handle>>

SftpStep ==
    \/ \E n \in 0 .. MaxPipelined : Frame(n)
    \/ FeedEnds \/ Oversized \/ Ignored \/ Answer \/ Drain
    \/ \E path \in Paths :
         \/ OpenWrite(path) \/ OpenRead(path) \/ OpenDir(path)
         \/ Remove(path) \/ MakeDir(path) \/ SymLink(path) \/ RemoveDir(path)
         \/ \E new \in Paths : RenamePath(path, new)
    \/ \E i \in DOMAIN handles :
         \/ ReadDir(i) \/ Close(i)
         \/ \E off \in Offsets, n \in Chunks : Write(i, off, n)

-----------------------------------------------------------------------------
(* The session and its handles have the types of the code. *)
HandleOK(handle) ==
    /\ handle.kind \in {"write", "read", "dir"} /\ handle.path \in Paths
    /\ handle.len \in Nat /\ handle.size \in Nat /\ handle.truncated \in BOOLEAN
    /\ handle.kept \subseteq Nat /\ handle.sent \subseteq Nat

SftpTypeOK ==
    /\ sftp \in BOOLEAN /\ feeding \in BOOLEAN
    /\ buf \in Nat /\ out \in 0 .. FeedCap
    /\ next_handle \in Nat \ {0} /\ buffered_bytes \in Int
    /\ DOMAIN handles \subseteq 1 .. (next_handle - 1)
    /\ \A i \in DOMAIN handles : HandleOK(handles[i])

(* What a session's handles hold is bounded whatever it opens and writes:    *)
(* the bytes charged are exactly those of the handles, they stay within the  *)
(* budget of sftp.rs (twice max_upload_bytes), and no file passes            *)
(* max_upload_bytes.  The packets that wait in `buf` are not charged.        *)
MemoryCharged ==
    /\ buffered_bytes = SumFunction([i \in DOMAIN handles |-> handles[i].len])
    /\ buffered_bytes <= BufferCap
    /\ \A i \in DOMAIN handles : handles[i].kind = "write" => handles[i].len <= MaxUpload

(* A capture is complete or says that it is not: unless an upload is flagged *)
(* as truncated, every byte the client wrote is in it, whatever the offsets, *)
(* the order and the other handles' use of the budget.                       *)
TruncationIsTold ==
    /\ \A i \in DOMAIN handles : ~handles[i].truncated => handles[i].sent \subseteq handles[i].kept
    /\ \A u \in completed : ~u.truncated => u.sent \subseteq u.kept /\ u.kept \subseteq 0 .. (u.len - 1)

(* A file the client wrote to leaves the session only as an upload with all  *)
(* that was received of it: on a close or a drain, and whether or not the    *)
(* filesystem had room for the mirror.                                       *)
WritesBecomeUploads ==
    [][\A i \in DOMAIN handles \ DOMAIN handles' :
         handles[i].kind = "write" /\ handles[i].size > 0 => Upload(i) \in completed']_<<sftpVars, fs>>
=============================================================================
