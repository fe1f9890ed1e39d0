------------------------------- MODULE Mirror -------------------------------
(***************************************************************************)
(* How uploads reach the session's filesystem: path lookup and `mkdir_p`   *)
(* of vfs/mod.rs, on the arenas of Vfs.  A path is the sequence of its     *)
(* components from the root; empty ones and `.`, which both skip, are left *)
(* out.  Up is the component `..`, which resolve takes for the parent and  *)
(* mkdir_p for a name like any other.  The target text of a symlink is     *)
(* abstracted: every link points to the directory /Target.                 *)
(***************************************************************************)
EXTENDS Vfs, Sequences

CONSTANTS
    MaxUpload,      \* config.max_upload_bytes
    Target,         \* the top-level name symlinks point to
    Link,           \* the name of the link to it
    Up              \* the component `..`

ASSUME MirrorAssumption ==
    MaxUpload \in Nat \ {0} /\ Target \in Names /\ Link \in Names \ {Target} /\ Up \in Names

(* follow: a link to a link is a chain that resolve gives up on. *)
Follow(f, i) ==
    IF i = None \/ f.kind[i] # "link" THEN i
    ELSE LET t == Child(f, Root, Target)
         IN  IF t # None /\ f.kind[t] = "link" THEN None ELSE t

(* resolve of an absolute path: None when a component is missing or is not a *)
(* directory.  `..` of whatever was reached is its parent.                   *)
StepTo(f, i, n) ==
    IF n # Up THEN Follow(f, Child(f, i, n)) ELSE IF i = Root THEN Root ELSE f.parent[i]

Resolve(f, path) ==
    LET walk[k \in 0 .. Len(path)] ==
          IF k = 0 THEN Root
          ELSE IF walk[k - 1] = None THEN None
          ELSE StepTo(f, walk[k - 1], path[k])
    IN  walk[Len(path)]

(* The tree of a new shell (snapshot::build): a directory and, like /bin of  *)
(* a merged Debian, a link to it.                                            *)
Snapshot == AddLink(MkdirIn(NewVfs, Root, Target).arena, Root, Link).arena

Parent(path) == SubSeq(path, 1, Len(path) - 1)
Name(path)   == path[Len(path)]

(* mkdir_p: `mkdir` component by component.  It takes whatever has the name, *)
(* and gives up where the arena's caps drop a directory.                     *)

MkdirP_LastThatExists(f, path) ==
    LET walk[k \in 0 .. Len(path)] ==
          IF k = 0 THEN [arena |-> f, id |-> Root]
          ELSE MkdirIn(walk[k - 1].arena, walk[k - 1].id, path[k])
    IN  walk[Len(path)]

MkdirP(f, path) ==
    LET walk[k \in 0 .. Len(path)] ==
          IF k = 0 THEN [arena |-> f, id |-> Root]
          ELSE IF walk[k - 1].id = None THEN walk[k - 1]
          ELSE LET made == MkdirIn(walk[k - 1].arena, walk[k - 1].id, path[k])
               IN  [arena |-> made.arena,
                    id    |-> IF made.id = walk[k - 1].id THEN None ELSE made.id]
    IN  walk[Len(path)]

(* The mirror of an upload of l bytes, best effort: the directories, then    *)
(* the file.  `id` is None when the arena refused either.                    *)
MirrorAt(f, path, l) ==
    LET dir  == MkdirP(f, Parent(path))
        file == AddFile(dir.arena, dir.id, Name(path), l)
    IN  IF dir.id = None THEN [arena |-> dir.arena, id |-> None]
        ELSE [arena |-> file.arena, id |-> IF file.id = dir.id THEN None ELSE file.id]

(* path_of: the names from the root down, by the parent pointers. *)
IsPathOf(f, path, i) ==
    LET up[k \in 0 .. Len(path)] ==
          IF k = 0 THEN i
          ELSE IF up[k - 1] = None \/ up[k - 1] = Root THEN None
          ELSE IF f.name[up[k - 1]] = path[Len(path) + 1 - k] THEN f.parent[up[k - 1]] ELSE None
    IN  up[Len(path)] = Root
=============================================================================
