-------------------------------- MODULE Vfs --------------------------------
(***************************************************************************)
(* The arena of vfs/mod.rs: nodes addressed by index, each with its parent *)
(* and, for a directory, the map of its children.  Parents and children    *)
(* are two records of one tree, and a removed node stays in the arena with *)
(* its parent pointer (a tombstone), so the tree is only what `rename`,    *)
(* `insert` and `unlink` together keep it.                                 *)
(*                                                                         *)
(* Contents are abstracted to their length and metadata is left out.       *)
(* The operations are operators on an arena f, so that the larger ones     *)
(* (mkdir_p, deep_copy) can compose them.                                  *)
(***************************************************************************)
EXTENDS Integers, FiniteSets, FiniteSetsExt

CONSTANTS
    Names,          \* path components
    None,           \* Option::None for node ids
    NoName,         \* the root's empty name
    MaxNodes,       \* MAX_VFS_NODES
    MaxBytes,       \* MAX_VFS_BYTES
    MaxDepth,       \* MAX_VFS_DEPTH
    MaxLen          \* bound: the longest content one operation writes

Root == 0
Ids  == 0..(MaxNodes - 1)

ASSUME VfsAssumption ==
    /\ MaxNodes \in Nat \ {0} /\ MaxBytes \in Nat /\ MaxDepth \in Nat /\ MaxLen \in Nat
    /\ None \notin Ids /\ NoName \notin Names

VARIABLE fs     \* the Vfs of a session

Kinds == {"free",       \* index not allocated yet
          "dir", "file", "link", "dynamic"}

Arenas == [count    : 0..MaxNodes,                      \* nodes.len()
           parent   : [Ids -> Ids \cup {None}],
           name     : [Ids -> Names \cup {NoName}],
           kind     : [Ids -> Kinds],
           len      : [Ids -> Nat],                     \* contents.len() of a file
           children : [Ids -> [Names -> Ids \cup {None}]],
           bytes    : Int]                              \* content_bytes

Empty == [n \in Names |-> None]

(* Vfs::new: an empty root directory. *)
NewVfs == [count    |-> 1,
           parent   |-> [i \in Ids |-> None],
           name     |-> [i \in Ids |-> NoName],
           kind     |-> [i \in Ids |-> IF i = Root THEN "dir" ELSE "free"],
           len      |-> [i \in Ids |-> 0],
           children |-> [i \in Ids |-> Empty],
           bytes    |-> 0]

Nodes(f) == {i \in Ids : i < f.count}

Child(f, d, n) == IF f.kind[d] = "dir" THEN f.children[d][n] ELSE None

(* The nodes on the parent chain of i, itself included: the least set that   *)
(* holds i and the parent of each of its members.                            *)
ParentClosed(f, S) == \A j \in S : f.parent[j] # None => f.parent[j] \in S
Ancestors(f, i) ==
    LET Closed == {S \in SUBSET Nodes(f) : i \in S /\ ParentClosed(f, S)}
    IN  {a \in Nodes(f) : \A S \in Closed : a \in S}

(* The nodes a walk down from i meets, itself included. *)
ChildClosed(f, S) ==
    \A j \in S, n \in Names : f.children[j][n] # None => f.children[j][n] \in S
Below(f, i) ==
    LET Closed == {S \in SUBSET Nodes(f) : i \in S /\ ChildClosed(f, S)}
    IN  {a \in Nodes(f) : \A S \in Closed : a \in S}

(* depth_of, height_of.  Their loop bounds only matter in a cyclic arena. *)
DepthOf(f, i)  == Cardinality(Ancestors(f, i)) - 1
HeightOf(f, i) ==
    LET below == Below(f, i)
    IN  Max({Cardinality(Ancestors(f, j) \cap below) - 1 : j \in below})

(* is_ancestor_of: a chain that does not end within nodes.len() steps, which *)
(* is one that never gets to the root, counts as a hit.                      *)
IsAncestorOf(f, id, other) == id \in Ancestors(f, other) \/ Root \notin Ancestors(f, other)

IsFull(f, p) == f.count >= MaxNodes \/ DepthOf(f, p) >= MaxDepth

-----------------------------------------------------------------------------
(* The mutation helpers.  Each gives the arena after it and the id it        *)
(* returns.                                                                  *)

Insert(f, p, n, k, l) ==
    IF IsFull(f, p)
    THEN [arena |-> f, id |-> p]
    ELSE [arena |-> [count    |-> f.count + 1,
                     parent   |-> [f.parent EXCEPT ![f.count] = p],
                     name     |-> [f.name EXCEPT ![f.count] = n],
                     kind     |-> [f.kind EXCEPT ![f.count] = k],
                     len      |-> [f.len EXCEPT ![f.count] = l],
                     children |-> IF f.kind[p] = "dir"
                                  THEN [f.children EXCEPT ![p] = [@ EXCEPT ![n] = f.count]]
                                  ELSE f.children,
                     bytes    |-> f.bytes],
          id |-> f.count]

MkdirIn(f, p, n) ==
    IF Child(f, p, n) # None THEN [arena |-> f, id |-> Child(f, p, n)]
    ELSE Insert(f, p, n, "dir", 0)

(* The kind of an existing node is replaced in place; a directory's map goes *)
(* with its old kind.                                                        *)
Replace(f, i, k, l) == [f EXCEPT !.kind[i] = k, !.len[i] = l, !.children[i] = Empty]

OldLen(f, i) == IF i # None /\ f.kind[i] = "file" THEN f.len[i] ELSE 0

AddFile(f, p, n, l) ==
    LET existing == Child(f, p, n)
        bytes    == f.bytes - OldLen(f, existing) + l
        created  == Insert(f, p, n, "file", l)
    IN  IF bytes > MaxBytes
        THEN [arena |-> f, id |-> IF existing # None THEN existing ELSE p]
        ELSE IF existing # None
        THEN [arena |-> [Replace(f, existing, "file", l) EXCEPT !.bytes = bytes], id |-> existing]
        ELSE [arena |-> IF created.id = p THEN created.arena
                        ELSE [created.arena EXCEPT !.bytes = @ + l],
              id |-> created.id]

AddDynamic(f, p, n) ==
    IF Child(f, p, n) # None
    THEN [arena |-> Replace(f, Child(f, p, n), "dynamic", 0), id |-> Child(f, p, n)]
    ELSE Insert(f, p, n, "dynamic", 0)

(* The byte count of a tombstone stays, by design. *)
UnlinkIn(f, p, n) == IF f.kind[p] = "dir" THEN [f EXCEPT !.children[p][n] = None] ELSE f

AddLink(f, p, n) ==
    IF Child(f, p, n) # None THEN [arena |-> f, id |-> Child(f, p, n)]
    ELSE Insert(f, p, n, "link", 0)

-----------------------------------------------------------------------------
(* One action per operation the commands and the SFTP subsystem call.        *)

Mkdir(p, n)       == p \in Nodes(fs) /\ fs' = MkdirIn(fs, p, n).arena
CreateFile(p, n, l) == p \in Nodes(fs) /\ fs' = AddFile(fs, p, n, l).arena
AddDynamicFile(p, n) == p \in Nodes(fs) /\ fs' = AddDynamic(fs, p, n).arena
AddSymlink(p, n)  == p \in Nodes(fs) /\ fs' = AddLink(fs, p, n).arena
Unlink(p, n)      == p \in Nodes(fs) /\ fs' = UnlinkIn(fs, p, n)

(* write_file: overwrite or append, refused past the byte cap. *)
WriteFile(i, l, append) ==
    LET new == IF append THEN fs.len[i] + l ELSE l
    IN  /\ i \in Nodes(fs) /\ fs.kind[i] = "file"
        /\ fs.bytes - fs.len[i] + new <= MaxBytes
        /\ fs' = [fs EXCEPT !.len[i] = new, !.bytes = @ - fs.len[i] + new]

(* rename, the callers pass a node some directory lists. *)
Listed(f, i) == f.parent[i] # None /\ f.children[f.parent[i]][f.name[i]] = i

Detached(f, i) ==
    IF f.kind[f.parent[i]] = "dir"
    THEN [f.children EXCEPT ![f.parent[i]] = [@ EXCEPT ![f.name[i]] = None]]
    ELSE f.children

Moved(f, i, np, n) ==
    [f EXCEPT !.children = [Detached(f, i) EXCEPT ![np] = [@ EXCEPT ![n] = i]],
              !.name[i] = n, !.parent[i] = np]

MayMove_NoAncestorCheck(f, i, np) ==
    /\ f.kind[np] = "dir"
    /\ DepthOf(f, np) + 1 + HeightOf(f, i) <= MaxDepth

MayMove_NoHeight(f, i, np) ==
    /\ f.kind[np] = "dir"
    /\ ~IsAncestorOf(f, i, np)
    /\ DepthOf(f, np) + 1 <= MaxDepth

MayMove(f, i, np) ==
    /\ f.kind[np] = "dir"
    /\ ~IsAncestorOf(f, i, np)
    /\ DepthOf(f, np) + 1 + HeightOf(f, i) <= MaxDepth

Rename_StaysListed(i, np, n) ==
    /\ i \in Nodes(fs) /\ np \in Nodes(fs) /\ Listed(fs, i)
    /\ MayMove(fs, i, np)
    /\ fs' = [fs EXCEPT !.children[np][n] = i, !.name[i] = n, !.parent[i] = np]

Rename(i, np, n) ==
    /\ i \in Nodes(fs) /\ np \in Nodes(fs) /\ Listed(fs, i)
    /\ MayMove(fs, i, np)
    /\ fs' = Moved(fs, i, np, n)

VfsInit == fs = NewVfs

VfsNext ==
    \/ \E p \in Ids, n \in Names :
          \/ Mkdir(p, n) \/ AddDynamicFile(p, n) \/ AddSymlink(p, n) \/ Unlink(p, n)
          \/ \E l \in 0..MaxLen : CreateFile(p, n, l)
          \/ \E i \in Ids : Rename(i, p, n)
    \/ \E i \in Ids, l \in 0..MaxLen, append \in BOOLEAN : WriteFile(i, l, append)

VfsSpec == VfsInit /\ [][VfsNext]_fs

-----------------------------------------------------------------------------
(* The arena is well formed: indices beyond `count` are unused, and the root *)
(* alone has no parent.                                                      *)
VfsTypeOK ==
    /\ fs \in Arenas
    /\ 1 <= fs.count
    /\ \A i \in Ids : fs.kind[i] = "free" <=> i >= fs.count
    /\ \A i \in Nodes(fs) \ {Root} : fs.parent[i] \in Nodes(fs) /\ fs.name[i] \in Names
    /\ \A i \in Ids \ Nodes(fs) : fs.children[i] = Empty
    /\ fs.parent[Root] = None

(* "The arena must stay acyclic": from every node the parent chain gets to   *)
(* the root.  A cycle would be a set of nodes with all its parents inside.   *)
Acyclic ==
    \A S \in SUBSET (Nodes(fs) \ {Root}) : S # {} => \E i \in S : fs.parent[i] \notin S

(* A directory lists a node exactly under its own name and as its parent, so *)
(* no node is reachable twice and only directories list anything.            *)
LinksConsistent ==
    \A d \in Ids, n \in Names :
        fs.children[d][n] # None =>
            /\ fs.kind[d] = "dir" /\ fs.children[d][n] \in Nodes(fs)
            /\ fs.parent[fs.children[d][n]] = d
            /\ fs.name[fs.children[d][n]] = n

(* Children maps and parent pointers describe one tree of well-typed nodes,  *)
(* through every order of insertions, replacements, removals and moves.      *)
TreeSound == VfsTypeOK /\ Acyclic /\ LinksConsistent

(* No walk down the tree recurses deeper than MAX_VFS_DEPTH: not from the    *)
(* root, and not from a removed directory that is still somebody's cwd.      *)
DepthBounded == \A i \in Nodes(fs) : HeightOf(fs, i) <= MaxDepth

FileBytes == SumFunctionOnSet(fs.len, {i \in Nodes(fs) : fs.kind[i] = "file"})

(* content_bytes never under-counts what is resident and never passes the    *)
(* cap, tombstones included.                                                 *)
BytesCovered == FileBytes <= fs.bytes /\ fs.bytes <= MaxBytes

(* The depth and the byte cap hold together, so neither the stack of a walk  *)
(* nor the memory of a session grows with the number of commands.            *)
CapsKept == DepthBounded /\ BytesCovered

(* A move loses nothing: whatever the root reached is still reachable, but   *)
(* for the node that stood at the destination and what was below it.         *)
RenameKeepsNodes ==
    [][\A i \in Nodes(fs) :
         LET np       == fs'.parent[i]
             n        == fs'.name[i]
             occupant == fs.children[np][n]
             lost     == IF occupant = None THEN {} ELSE Below(fs, occupant)
         IN  <<np, n>> # <<fs.parent[i], fs.name[i]>> /\ np \in Below(fs, Root)
                => (Below(fs, Root) \ lost) \cup {i} \subseteq Below(fs', Root)]_fs
=============================================================================
