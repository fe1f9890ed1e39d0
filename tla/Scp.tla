-------------------------------- MODULE Scp --------------------------------
(***************************************************************************)
(* ScpSink of network/scp.rs and the handler's store_upload: control lines *)
(* push and pop directories and announce files, the bytes after a `C` line *)
(* are the file's body, and the byte after the body completes it.  A       *)
(* completed file is mirrored into the filesystem by write_to_vfs, whose   *)
(* result is the path the `upload` event records.                          *)
(*                                                                         *)
(* The target is taken as it was sent: nothing normalises it, so it may    *)
(* contain `..`.  The names of control lines are sanitised and never do.   *)
(* `nesting` and `strayed` are ghosts: the directories the client believes *)
(* it is in, and whether a cap made the sink lose track of them.           *)
(***************************************************************************)
EXTENDS Mirror

CONSTANTS
    MaxScpDepth,    \* MAX_SCP_DEPTH
    Targets,        \* bound: the target paths, made absolute
    Sizes,          \* bound: the sizes `C` lines announce
    MaxFiles,       \* bound: files in a transfer
    MaxNesting      \* bound: the client's own depth

ASSUME ScpAssumption ==
    /\ MaxScpDepth \in Nat \ {0} /\ Targets \subseteq Seq(Names) /\ Sizes \subseteq Nat
    /\ MaxFiles \in Nat /\ MaxNesting \in Nat

VARIABLES
    scp,        \* the sink exists
    target,     \* ScpSink.target, after abs_path
    into,       \* it ends in `/`, or the transfer is recursive
    dirs,       \* ScpSink.dirs
    file,       \* ScpSink.file
    nesting,    \* ghost: the client's open `D` messages
    strayed,    \* ghost: the depth cap or an overlong line left the two apart
    files,      \* how many files were announced
    reports     \* the `upload` event of the last file: its path and what is known of it

scpVars == <<scp, target, into, dirs, file, nesting, strayed, files, reports>>

NoFile == [name |-> NoName]

ScpInit(started) ==
    /\ scp = started
    /\ IF started THEN target \in Targets /\ into \in BOOLEAN ELSE target = <<>> /\ into = FALSE
    /\ dirs = <<>> /\ file = NoFile /\ nesting = <<>> /\ strayed = FALSE /\ files = 0 /\ reports = {}

-----------------------------------------------------------------------------
(* handle_control: a `C` line that parses starts a file ... *)
ControlC(n, size) ==
    /\ scp /\ file = NoFile /\ files < MaxFiles
    /\ files' = files + 1
    /\ file' = [name |-> n, size |-> size, remaining |-> size, len |-> 0, truncated |-> FALSE]
    /\ reports' = {}
    /\ UNCHANGED <<scp, target, into, dirs, nesting, strayed, fs>>

(* ... a `D` line enters a directory, up to the depth cap ... *)

ControlD(n) ==
    /\ scp /\ file = NoFile /\ Len(nesting) < MaxNesting
    /\ dirs' = IF Len(dirs) < MaxScpDepth THEN Append(dirs, n) ELSE dirs
    /\ nesting' = Append(nesting, n)
    /\ strayed' = (strayed \/ Len(dirs) >= MaxScpDepth)
    /\ UNCHANGED <<scp, target, into, file, files, reports, fs>>

(* ... an `E` line leaves it; anything else is acknowledged.                 *)
Popped(s) == IF s = <<>> THEN s ELSE SubSeq(s, 1, Len(s) - 1)

ControlE ==
    /\ scp /\ file = NoFile
    /\ dirs' = Popped(dirs)
    /\ nesting' = Popped(nesting)
    /\ UNCHANGED <<scp, target, into, strayed, file, files, reports, fs>>

(* A control line longer than MAX_CONTROL_LINE resets the sink. *)
OverlongLine ==
    /\ scp /\ file = NoFile
    /\ dirs' = <<>> /\ strayed' = TRUE
    /\ UNCHANGED <<scp, target, into, file, nesting, files, reports, fs>>

(* A byte of the body: kept up to the cap. *)

BodyByte ==
    /\ scp /\ file # NoFile /\ file.remaining > 0
    /\ file' = [file EXCEPT !.remaining = @ - 1,
                            !.len = IF @ < MaxUpload THEN @ + 1 ELSE @,
                            !.truncated = @ \/ file.len >= MaxUpload]
    /\ UNCHANGED <<scp, target, into, dirs, nesting, strayed, files, reports, fs>>

-----------------------------------------------------------------------------
(* write_to_vfs: the target names a directory to put the file in, or the     *)
(* file itself.                                                              *)
Base(rel)        == target \o rel
IsDir(f, path)   == LET i == Resolve(f, path) IN i # None /\ f.kind[i] = "dir"
Destination(rel, n) ==
    IF IsDir(fs, Base(rel)) \/ into \/ rel # <<>> THEN Append(Base(rel), n) ELSE Base(rel)

(* The byte after the body: the file is complete.  store_upload mirrors it   *)
(* and reports the path of the node it got or, if the arena refused, the     *)
(* path that was asked for: both are the destination.                        *)
BodyEnds ==
    /\ scp /\ file # NoFile /\ file.remaining = 0
    /\ LET path   == Destination(dirs, file.name)
           mirror == MirrorAt(fs, path, file.len)
       IN  /\ fs' = mirror.arena
           /\ reports' =
                {[path |-> path, node |-> mirror.id, rel |-> dirs, name |-> file.name,
                  size |-> file.size, len |-> file.len, truncated |-> file.truncated]}
    /\ file' = NoFile
    /\ UNCHANGED <<scp, target, into, dirs, nesting, strayed, files>>

(* The channel ends: the sink is dropped, with a file that is not complete.  *)
ScpEnds ==
    /\ scp /\ scp' = FALSE
    /\ dirs' = <<>> /\ file' = NoFile /\ nesting' = <<>> /\ strayed' = FALSE
    /\ UNCHANGED <<target, into, files, reports, fs>>

ScpStep ==
    \/ \E n \in Names \ {Up} : ControlD(n) \/ \E size \in Sizes : ControlC(n, size)
    \/ ControlE \/ OverlongLine \/ BodyByte \/ BodyEnds \/ ScpEnds

-----------------------------------------------------------------------------
(* The sink's fields have the types of the code. *)
ScpTypeOK ==
    /\ scp \in BOOLEAN /\ into \in BOOLEAN
    /\ target \in Seq(Names) /\ dirs \in Seq(Names) /\ nesting \in Seq(Names)
    /\ Len(dirs) <= MaxScpDepth
    /\ file = NoFile \/ file \in [name : Names, size : Sizes, remaining : Nat,
                                  len : 0 .. MaxUpload, truncated : BOOLEAN]
    /\ files \in 0 .. MaxFiles

(* The record of a file says what was kept of it: all of it, or the first    *)
(* max_upload_bytes and the truncated flag.                                  *)
ScpCapturesPrefix ==
    \A r \in reports :
        /\ r.len = IF r.size <= MaxUpload THEN r.size ELSE MaxUpload
        /\ r.truncated <=> r.size > MaxUpload

(* Some of the directories of t, in their order. *)
Within(s, t) ==
    \E at \in [1 .. Len(s) -> 1 .. Len(t)] :
        /\ \A i, j \in 1 .. Len(s) : i < j => at[i] < at[j]
        /\ \A i \in 1 .. Len(s) : s[i] = t[at[i]]

(* A file lands where the client sent it, whatever was in the way: the node  *)
(* it got is, by its parent pointers, at the target as it was written, the   *)
(* sink's directories and its name, and unless a cap made the sink lose      *)
(* track those are the client's directories.  A sink that strays puts it too *)
(* high, under fewer of them, and never beside them.  (A `..` of the target  *)
(* is not the parent but a directory of that name.)                          *)
FilesLandWhereSent ==
    [][\A r \in reports' \ reports : r.node # None =>
         /\ IsPathOf(fs', Destination(r.rel, r.name), r.node)
         /\ Within(r.rel, nesting)
         /\ strayed \/ r.rel = nesting]_<<scpVars, fs>>

(* The comment in write_to_vfs: the path the `upload` event records "must be *)
(* where the file actually went".                                            *)
ReportedPathIsReal ==
    [][\A r \in reports' \ reports :
         r.node # None => Resolve(fs', r.path) = r.node]_<<scpVars, fs>>
=============================================================================
