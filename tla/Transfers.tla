----------------------------- MODULE Transfers -----------------------------
(***************************************************************************)
(* A channel that carries a file transfer: the SFTP subsystem or an SCP    *)
(* sink, on the filesystem of the channel's shell.  MimicHandler::data     *)
(* gives a frame to the one that exists; a channel has one of the two.     *)
(***************************************************************************)
EXTENDS Sftp, Scp

transferVars == <<sftpVars, scpVars, fs>>

(* The shell of the channel starts from the snapshot; an SCP transfer that   *)
(* ran on it before, to `/../x`, left a directory called `..` and less room. *)
(* (Bound: SFTP always finds it so.)                                         *)
Filled == MkdirIn(Snapshot, Root, Up).arena

TransfersInit ==
    \/ SftpInit(TRUE) /\ ScpInit(FALSE) /\ fs = Filled
    \/ SftpInit(FALSE) /\ ScpInit(TRUE) /\ fs \in {Snapshot, Filled}

TransferOver == ~sftp /\ ~scp /\ UNCHANGED transferVars

TransfersNext ==
    \/ SftpStep /\ UNCHANGED scpVars
    \/ ScpStep /\ UNCHANGED sftpVars
    \/ TransferOver

TransfersSpec == TransfersInit /\ [][TransfersNext]_transferVars

-----------------------------------------------------------------------------
(* The mirror of an upload "must never fall back to an ancestor directory":  *)
(* every file a step creates or rewrites has, by its parent pointers, the    *)
(* path of an upload that the same step reports, also when directories of    *)
(* the path are dropped at the arena's caps.                                 *)
Fresh(i) ==
    /\ fs'.kind[i] = "file"
    /\ fs.kind[i] # "file" \/ fs.len[i] # fs'.len[i]

MirrorsStayPut ==
    [][\A i \in Nodes(fs') : Fresh(i) =>
         \E u \in (completed' \ completed) \cup (reports' \ reports) :
             IsPathOf(fs', u.path, i)]_transferVars

(* No file of either kind of transfer is kept beyond its caps, and what SFTP *)
(* charges against the session's budget is what its handles really hold.     *)
MemoryBounded == SftpTypeOK /\ ScpTypeOK /\ MemoryCharged

(* What is recorded of a file is true: an SFTP capture that lacks bytes is   *)
(* flagged as truncated, and an SCP file exactly when it is over the cap.    *)
CapturesTrue == TruncationIsTold /\ ScpCapturesPrefix

(* Wherever a transfer's file is mirrored, it is at the path that was sent,  *)
(* as it was written.                                                        *)
MirrorsLand == MirrorsStayPut /\ FilesLandWhereSent
=============================================================================
