----------------------------- MODULE FsCommands -----------------------------
(***************************************************************************)
(* The filesystem commands of commands/fs.rs on the arena of Vfs: touch,   *)
(* mkdir, rmdir, rm, cp, mv, ln, chmod, chown, tar, find, du, cd, and the  *)
(* file a download drops.  Options are the flags the code acts on.         *)
(*                                                                         *)
(* A path is [abs, comps]; "." and empty components are left out, as the   *)
(* code skips them, and Up is "..": they are names only for a child that   *)
(* cp or ln called after such an operand, which no path reaches.  A mode   *)
(* is a set of permission bits, the group class folded into the others.    *)
(* An archive is the sequence of its members, and each takes one unit of   *)
(* length; the length of a name is the number of its components.           *)
(***************************************************************************)
EXTENDS Vfs, Sequences

CONSTANTS
    Up,             \* the component ".."
    Dot,            \* the component "."
    Nameless,       \* the empty component, the base name of "/"
    Order,          \* Names in the order a BTreeMap gives them
    Paths,          \* operands the client types
    NamelessPaths,  \* more operands, for what is copied or linked: "/", ".", ".."
    Uids,           \* who may be logged in; 0 is root
    Owners,         \* whom chown gives files to
    ModeSpecs,      \* [op, who, bits]: the mode operands of chmod
    Uploads,        \* archives from outside, any member names
    FieldWidth,     \* of the name and link fields of a ustar header (100 bytes)
    PrefixWidth,    \* of its prefix field (155 bytes)
    OwnerDigits,    \* octal digits of its owner field (7)
    MaxLinks,       \* MAX_SYMLINK_DEPTH
    MaxCopy,        \* MAX_COPY_DEPTH
    MaxCommands     \* bound: commands of one session

Odd == {Up, Dot, Nameless}

ASSUME CommandsAssumption ==
    /\ {MaxLinks, MaxCopy, MaxCommands, PrefixWidth, OwnerDigits} \subseteq Nat
    /\ FieldWidth \in Nat \ {0} /\ 0 \in Uids /\ Odd \subseteq Names

VARIABLES
    info,           \* per node: link target, owner, mode, archive members
    sh              \* the session: cwd, uid, and what the last command did

fsVars == <<fs, info, sh>>

Owner == {"u"} \X {"r", "w", "x"}
Other == {"o"} \X {"r", "w", "x"}
LinkMode == Owner \cup Other                              \* 0777
DirMode  == LinkMode \ {<<"o", "w">>}                     \* 0755
FileMode == DirMode \ {<<"u", "x">>, <<"o", "x">>}        \* 0644

Path(abs, comps) == [abs |-> abs, comps |-> comps]
Here == Path(FALSE, <<>>)

Plain(uid, mode) == [target |-> Here, owner |-> uid, mode |-> mode, members |-> <<>>]

(* A command works on a world: the arena and what it keeps of each node.     *)
World == [fs |-> fs, info |-> info]

May(w, i, uid, bit) ==
    \/ uid = 0
    \/ <<IF uid = w.info[i].owner THEN "u" ELSE "o", bit>> \in w.info[i].mode

IsDir(w, i) == w.fs.kind[i] = "dir"
Entries(w, i) == SelectSeq(Order, LAMBDA n : Child(w.fs, i, n) # None)

-----------------------------------------------------------------------------
(* resolve, resolve_inner, follow: links are followed at every component, up *)
(* to MAX_SYMLINK_DEPTH of them inside one another.                          *)
RECURSIVE ResolveInner(_, _, _, _)
ResolveInner(w, at, comps, depth) ==
    IF comps = <<>> THEN at
    ELSE LET head   == Head(comps)
             child  == Child(w.fs, at, head)
             target == w.info[child].target
             next   == IF head = Up
                       THEN IF w.fs.parent[at] = None THEN Root ELSE w.fs.parent[at]
                       ELSE IF child = None THEN None
                       ELSE IF w.fs.kind[child] # "link" THEN child
                       ELSE IF depth = MaxLinks THEN None
                       ELSE ResolveInner(w, IF target.abs THEN Root ELSE w.fs.parent[child],
                                         target.comps, depth + 1)
         IN  IF next = None THEN None ELSE ResolveInner(w, next, Tail(comps), depth)

Resolve(w, path) == ResolveInner(w, IF path.abs THEN Root ELSE sh.cwd, path.comps, 0)

(* The directory and the name an operand stands for, as <<dir, name>>; <<>>  *)
(* when there is none.                                                       *)
Base(path) == IF path.comps # <<>> THEN path.comps[Len(path.comps)]
              ELSE IF path.abs THEN Nameless ELSE Dot
DirOf(path) == [path EXCEPT !.comps = SubSeq(@, 1, Len(@) - 1)]
ResolveParent(w, path) ==
    IF Base(path) \in Odd THEN <<>>
    ELSE LET parent == Resolve(w, DirOf(path))
         IN  IF parent # None /\ IsDir(w, parent) THEN <<parent, Base(path)>> ELSE <<>>

(* Where cp, mv and ln put something: inside an existing directory, else at  *)
(* the operand itself.                                                       *)
Destination(w, dest, name) ==
    LET dir == Resolve(w, dest)
    IN  IF dir # None /\ IsDir(w, dir) THEN <<dir, name>> ELSE ResolveParent(w, dest)

-----------------------------------------------------------------------------
(* The helpers of the arena, with what is kept of the node they make.        *)
Kept(w, r, about) == [fs |-> r.arena, info |-> [w.info EXCEPT ![r.id] = about]]

MakeDir(w, p, n, about) ==
    LET r == MkdirIn(w.fs, p, n)
    IN  IF r.arena.count = w.fs.count THEN w ELSE Kept(w, r, about)

Fits(w, p, n, l) ==
    /\ w.fs.bytes - OldLen(w.fs, Child(w.fs, p, n)) + l <= MaxBytes
    /\ Child(w.fs, p, n) # None \/ ~IsFull(w.fs, p)

PutFile(w, p, n, l, about) ==
    IF Fits(w, p, n, l) THEN Kept(w, AddFile(w.fs, p, n, l), about) ELSE w

PutLink(w, p, n, target) ==
    LET r == AddLink(w.fs, p, n)
    IN  IF r.arena.count = w.fs.count THEN w
        ELSE Kept(w, r, [Plain(0, LinkMode) EXCEPT !.target = target])

Cut(w, p, n) == [w EXCEPT !.fs = UnlinkIn(w.fs, p, n)]

(* deep_copy.  The children are listed after the new directory is made, so a *)
(* copy into the source's own tree also copies what it is making, until the  *)
(* recursion limit.  A name that is taken by something else than a directory *)
(* is not replaced by a copied directory.                                    *)
RECURSIVE DeepCopy(_, _, _, _, _), CopyAll(_, _, _, _, _, _)
DeepCopy(w, src, p, n, depth) ==
    LET about == w.info[src]
        made  == MakeDir(w, p, n, about)
        r     == MkdirIn(w.fs, p, n)
        freed == Cut(w, p, n)
        link  == Insert(freed.fs, p, n, "link", 0)
        drop  == Child(w.fs, p, n) = None /\ IsFull(w.fs, p)
    IN  CASE depth > MaxCopy -> w
          [] depth <= MaxCopy /\ w.fs.kind[src] = "file" -> PutFile(w, p, n, w.fs.len[src], about)
          [] depth <= MaxCopy /\ w.fs.kind[src] = "dynamic" ->
                 IF drop THEN w ELSE Kept(w, AddDynamic(w.fs, p, n), about)
          [] depth <= MaxCopy /\ w.fs.kind[src] = "link" ->
                 IF IsFull(freed.fs, p) THEN freed ELSE Kept(freed, link, about)
          [] OTHER -> CopyAll(made, src, Entries(made, src), made.fs.children[src], r.id, depth)

CopyAll_CountsTwice(w, src, names, children, into, depth) ==
    IF names = <<>> THEN w
    ELSE CopyAll(DeepCopy(w, children[Head(names)], into, Head(names), depth + 2),
                 src, Tail(names), children, into, depth)

CopyAll(w, src, names, children, into, depth) ==
    IF names = <<>> THEN w
    ELSE CopyAll(DeepCopy(w, children[Head(names)], into, Head(names), depth + 1),
                 src, Tail(names), children, into, depth)

-----------------------------------------------------------------------------
(* The commands.  Each gives the world after it and its exit status.         *)
Done(w) == [world |-> w, status |-> 0]
Fail(w) == [world |-> w, status |-> 1]

Touch(w, path, noCreate) ==
    LET at == ResolveParent(w, path)
    IN  IF at = <<>> THEN Fail(w)
        ELSE IF Child(w.fs, at[1], at[2]) # None \/ noCreate THEN Done(w)
        ELSE IF IsFull(w.fs, at[1]) THEN Fail(w)
        ELSE Done(PutFile(w, at[1], at[2], 0, Plain(sh.uid, FileMode)))

Mkdir1(w, path) ==
    LET at == ResolveParent(w, path)
    IN  IF at = <<>> THEN Fail(w)
        ELSE IF Child(w.fs, at[1], at[2]) # None \/ IsFull(w.fs, at[1]) THEN Fail(w)
        ELSE Done(MakeDir(w, at[1], at[2], Plain(sh.uid, DirMode)))

(* mkdir -p walks the operand itself and follows no link.                    *)
RECURSIVE MkdirParents(_, _, _)
MkdirParents(w, at, comps) ==
    IF comps = <<>> THEN Done(w)
    ELSE LET head  == Head(comps)
             child == Child(w.fs, at, head)
             made  == MkdirIn(w.fs, at, head)
         IN  IF head = Up
             THEN MkdirParents(w, IF w.fs.parent[at] = None THEN at ELSE w.fs.parent[at], Tail(comps))
             ELSE IF child # None
             THEN IF IsDir(w, child) THEN MkdirParents(w, child, Tail(comps)) ELSE Fail(w)
             ELSE IF IsFull(w.fs, at) THEN Fail(w)
             ELSE MkdirParents(MakeDir(w, at, head, Plain(sh.uid, DirMode)), made.id, Tail(comps))

EmptyDir(w, i) == IsDir(w, i) /\ Entries(w, i) = <<>>

(* rmdir -p goes on with the directory part while there is one.              *)
RECURSIVE Rmdir(_, _, _)
Rmdir(w, path, parents) ==
    LET at    == ResolveParent(w, path)
        child == Child(w.fs, at[1], at[2])
        gone  == Cut(w, at[1], at[2])
    IN  IF at = <<>> THEN Fail(w)
        ELSE IF child = None THEN Fail(w)
        ELSE IF ~EmptyDir(w, child) THEN Fail(w)
        ELSE IF ~parents \/ Len(path.comps) = 1 THEN Done(gone)
        ELSE Rmdir(gone, DirOf(path), TRUE)

Rm(w, path, recursive, force, dirOk) ==
    LET at    == ResolveParent(w, path)
        child == Child(w.fs, at[1], at[2])
    IN  IF path.comps # <<>> /\ Base(path) = Up THEN Fail(w)
        ELSE IF at = <<>> THEN IF force THEN Done(w) ELSE Fail(w)
        ELSE IF child = None THEN IF force THEN Done(w) ELSE Fail(w)
        ELSE IF IsDir(w, child) /\ ~recursive /\ ~(dirOk /\ EmptyDir(w, child)) THEN Fail(w)
        ELSE Done(Cut(w, at[1], at[2]))

Cp_NoSpaceCheck(w, src, dest, recursive) ==
    LET i  == Resolve(w, src)
        at == Destination(w, dest, Base(src))
    IN  IF i = None THEN Fail(w)
        ELSE IF (IsDir(w, i) /\ ~recursive) \/ at = <<>> THEN Fail(w)
        ELSE Done(DeepCopy(w, i, at[1], at[2], 0))

Cp(w, src, dest, recursive) ==
    LET i  == Resolve(w, src)
        at == Destination(w, dest, Base(src))
    IN  IF i = None THEN Fail(w)
        ELSE IF IsDir(w, i) /\ ~recursive THEN Fail(w)
        ELSE IF at = <<>> THEN Fail(w)
        ELSE IF Child(w.fs, at[1], at[2]) = None /\ IsFull(w.fs, at[1]) THEN Fail(w)
        ELSE Done(DeepCopy(w, i, at[1], at[2], 0))

Mv(w, src, dest) ==
    LET from == ResolveParent(w, src)
        i    == Child(w.fs, from[1], from[2])
        at   == Destination(w, dest, Base(src))
    IN  IF from = <<>> THEN Fail(w)
        ELSE IF i = None THEN Fail(w)
        ELSE IF at = <<>> THEN Fail(w)
        ELSE IF MayMove(w.fs, i, at[1]) THEN Done([w EXCEPT !.fs = Moved(w.fs, i, at[1], at[2])])
        ELSE Fail(w)

(* ln -s [-f]: a taken name is freed before there is room for the link.      *)
Ln(w, target, link, force) ==
    LET at    == Destination(w, link, Base(target))
        taken == Child(w.fs, at[1], at[2]) # None
        freed == IF taken THEN Cut(w, at[1], at[2]) ELSE w
    IN  IF at = <<>> THEN Fail(w)
        ELSE IF taken /\ ~force THEN Fail(w)
        ELSE IF IsFull(freed.fs, at[1]) THEN Fail(freed)
        ELSE Done(PutLink(freed, at[1], at[2], target))

-----------------------------------------------------------------------------
(* The walkers: depth first, children in name order, never through a link.   *)
RECURSIVE Walk(_, _), WalkAll(_, _, _)
Walk(w, i) == <<i>> \o WalkAll(w, i, Entries(w, i))
WalkAll(w, i, names) ==
    IF names = <<>> THEN <<>>
    ELSE Walk(w, Child(w.fs, i, Head(names))) \o WalkAll(w, i, Tail(names))

Find(w, path) ==
    IF Resolve(w, path) = None THEN Fail(w) ELSE Done(w)

Found(w, path) == IF Resolve(w, path) = None THEN <<>> ELSE Walk(w, Resolve(w, path))

(* What reading a node gives: a generated file is as long as what it says.   *)
SizeOf(w, i) == IF w.fs.kind[i] = "dynamic" THEN 1 ELSE OldLen(w.fs, i)

(* du: a node's own size and its children's, counted on the way back up.     *)
RECURSIVE Usage(_, _)
Usage_FollowsLinks(w, i) ==
    LET names == {n \in Names \ Odd : ResolveInner(w, i, <<n>>, 0) # None}
    IN  SizeOf(w, i)
        + SumFunctionOnSet([n \in names |-> SizeOf(w, ResolveInner(w, i, <<n>>, 0))], names)

Usage(w, i) ==
    LET names == {n \in Names : Child(w.fs, i, n) # None}
    IN  SizeOf(w, i) + SumFunctionOnSet([n \in names |-> Usage(w, Child(w.fs, i, n))], names)

ComputeMode(spec, mode) ==
    CASE spec.op = "+" -> mode \cup (spec.bits \cap spec.who)
      [] spec.op = "-" -> mode \ (spec.bits \cap spec.who)
      [] spec.op = "=" -> (mode \ spec.who) \cup (spec.bits \cap spec.who)

Reached_ThroughLinks(w, i, recursive) ==
    IF recursive /\ IsDir(w, i)
    THEN {i} \cup ({ResolveInner(w, i, <<n>>, 0) : n \in Names \ Odd} \ {None}) ELSE {i}

(* -R: every node the walk meets, links themselves included, each from its   *)
(* own mode.                                                                 *)
Reached(w, i, recursive) ==
    IF recursive /\ IsDir(w, i) THEN {Walk(w, i)[k] : k \in DOMAIN Walk(w, i)} ELSE {i}

Chmod(w, spec, path, recursive) ==
    LET i == Resolve(w, path)
        S == Reached(w, i, recursive)
    IN  IF i = None THEN Fail(w)
        ELSE Done([w EXCEPT !.info =
                 [j \in Ids |-> IF j \in S THEN [w.info[j] EXCEPT !.mode = ComputeMode(spec, @)]
                                ELSE w.info[j]]])

Chown(w, uid, path, recursive) ==
    LET i == Resolve(w, path)
        S == Reached(w, i, recursive)
    IN  IF i = None \/ sh.uid # 0 THEN Fail(w)
        ELSE Done([w EXCEPT !.info =
                 [j \in Ids |-> IF j \in S THEN [w.info[j] EXCEPT !.owner = uid] ELSE w.info[j]]])

-----------------------------------------------------------------------------
(* tar.  A member is [name, kind, about, len], as it is read back from its   *)
(* ustar header: a name that does not fit its field and cannot be split at a *)
(* slash is cut, as are a link's target and the digits of an owner.  A       *)
(* generated file is archived as the file it reads as.                       *)
NameField(name) ==
    IF \/ Len(name) <= FieldWidth
       \/ \E k \in 1..(Len(name) - 1) : k <= PrefixWidth /\ Len(name) - k <= FieldWidth
    THEN name ELSE SubSeq(name, 1, FieldWidth)

LinkField(comps) == SubSeq(comps, 1, Min({FieldWidth, Len(comps)}))

OwnerField(uid) == uid \div 8^Min({k \in 0..10 : uid \div 8^k < 8^OwnerDigits})

Member(name, kind, about, l) ==
    [name  |-> NameField(name), kind |-> IF kind = "dynamic" THEN "file" ELSE kind,
     about |-> [about EXCEPT !.owner = OwnerField(@), !.target.comps = LinkField(@)],
     len   |-> l]

(* tar_strip_leading: everything up to the last "..".                        *)
StripLeading(comps) ==
    SubSeq(comps, 1 + Max({0} \cup {k \in DOMAIN comps : comps[k] = Up}), Len(comps))

(* tar_walk: the archive leaves itself out; a directory that may not be read *)
(* is a member, its contents are not; both failures show in the status.      *)
RECURSIVE TarWalk(_, _, _, _), TarAll(_, _, _, _, _)
TarWalk_ChildrenFirst(w, i, name, self) ==
    LET here == <<Member(name, w.fs.kind[i], w.info[i], SizeOf(w, i))>>
        rest == TarAll(w, i, Entries(w, i), name, self)
    IN  IF i = self THEN [members |-> <<>>, status |-> 0]
        ELSE [members |-> rest.members \o here, status |-> rest.status]

TarWalk(w, i, name, self) ==
    LET about == w.info[i]
        may   == May(w, i, sh.uid, "r")
        here  == <<Member(name, w.fs.kind[i], about, SizeOf(w, i))>>
    IN  IF i = self THEN [members |-> <<>>, status |-> 0]
        ELSE IF w.fs.kind[i] = "link" THEN [members |-> here, status |-> 0]
        ELSE IF ~may THEN [members |-> IF IsDir(w, i) THEN here ELSE <<>>, status |-> 1]
        ELSE LET rest == TarAll(w, i, Entries(w, i), name, self)
             IN  [members |-> here \o rest.members, status |-> rest.status]

TarAll(w, i, names, name, self) ==
    IF names = <<>> THEN [members |-> <<>>, status |-> 0]
    ELSE LET one  == TarWalk(w, Child(w.fs, i, Head(names)), Append(name, Head(names)), self)
             rest == TarAll(w, i, Tail(names), name, self)
         IN  [members |-> one.members \o rest.members,
              status  |-> IF one.status = 1 THEN 1 ELSE rest.status]

TarCreate(w, archive, path) ==
    LET at   == ResolveParent(w, archive)
        i    == Resolve(w, path)
        tree == TarWalk(w, i, StripLeading(path.comps), Child(w.fs, at[1], at[2]))
        l    == Len(tree.members) + 1
        about == [Plain(sh.uid, FileMode) EXCEPT !.members = tree.members]
    IN  IF at = <<>> THEN Fail(w)
        ELSE IF ~May(w, at[1], sh.uid, "w") THEN Fail(w)
        ELSE IF i = None THEN Fail(PutFile(w, at[1], at[2], 1, Plain(sh.uid, FileMode)))
        ELSE IF ~Fits(w, at[1], at[2], l) THEN Fail(w)
        ELSE [world |-> PutFile(w, at[1], at[2], l, about), status |-> tree.status]

(* tar_dest: the directories a member's name goes through, made as needed;   *)
(* a component that is there and is no directory refuses the member.         *)
RECURSIVE TarDest(_, _, _)
TarDest(w, at, comps) ==
    IF comps = <<>> THEN [world |-> w, at |-> None]
    ELSE IF Len(comps) = 1 THEN [world |-> w, at |-> at]
    ELSE LET child == Child(w.fs, at, Head(comps))
             made  == MkdirIn(w.fs, at, Head(comps))
         IN  IF child # None
             THEN IF IsDir(w, child) THEN TarDest(w, child, Tail(comps)) ELSE [world |-> w, at |-> None]
             ELSE IF IsFull(w.fs, at) THEN [world |-> w, at |-> None]
             ELSE TarDest(MakeDir(w, at, Head(comps), Plain(sh.uid, DirMode)), made.id, Tail(comps))

ExtractOne(w, m) ==
    LET comps == SelectSeq(m.name, LAMBDA c : c \notin {Dot, Nameless})
        dest  == TarDest(w, sh.cwd, comps)
        p     == dest.at
        n     == comps[Len(comps)]
        about == IF sh.uid = 0 THEN m.about ELSE [m.about EXCEPT !.owner = sh.uid]
        d     == dest.world
    IN  IF \E k \in DOMAIN m.name : m.name[k] = Up THEN Fail(w)
        ELSE IF p = None THEN Fail(d)
        ELSE IF ~May(d, p, sh.uid, "w") THEN Fail(d)
        ELSE CASE m.kind = "dir" -> Done(MakeDir(d, p, n, about))
               [] m.kind = "link" -> Done(PutLink(d, p, n, m.about.target))
               [] m.kind = "file" -> IF Fits(d, p, n, m.len) THEN Done(PutFile(d, p, n, m.len, about))
                                     ELSE Fail(d)

RECURSIVE ExtractAll(_, _, _)
ExtractAll(w, members, status) ==
    IF members = <<>> THEN [world |-> w, status |-> status]
    ELSE LET one == ExtractOne(w, Head(members))
         IN  ExtractAll(one.world, Tail(members), IF one.status = 1 THEN 1 ELSE status)

TarExtract(w, archive) ==
    LET i == Resolve(w, archive)
    IN  IF i = None THEN Fail(w)
        ELSE IF w.fs.kind[i] # "file" \/ ~May(w, i, sh.uid, "r") \/ w.info[i].members = <<>> THEN Fail(w)
        ELSE ExtractAll(w, w.info[i].members, 0)

(* drop_file, and an archive that came in by a transfer: no permission is    *)
(* asked, and the command exits 0 whether or not there was room.             *)
Drop(w, path, members) ==
    LET at == ResolveParent(w, path)
        l  == Len(members) + 1
    IN  IF at = <<>> THEN Done(w)
        ELSE Done(PutFile(w, at[1], at[2], l, [Plain(sh.uid, FileMode) EXCEPT !.members = members]))

-----------------------------------------------------------------------------
(* A session.  `did` names the last command and its operands.                *)
Run(name, args, result) ==
    /\ sh.left > 0
    /\ fs' = result.world.fs /\ info' = result.world.info
    /\ sh' = [sh EXCEPT !.left = @ - 1, !.did = [cmd |-> name, args |-> args, status |-> result.status]]

DoTouch(p, flag)   == Run("touch", <<p, flag>>, Touch(World, p, flag))
DoMkdir(p)         == Run("mkdir", <<p>>, Mkdir1(World, p))
DoMkdirP(p)        == Run("mkdir-p", <<p>>, MkdirParents(World, IF p.abs THEN Root ELSE sh.cwd, p.comps))
DoRmdir(p, flag)   == p.comps # <<>> /\ Run("rmdir", <<p, flag>>, Rmdir(World, p, flag))
DoRm(p, r, f, d)   == Run("rm", <<p, f>>, Rm(World, p, r, f, d))
DoCp(p, q, r)      == Run("cp", <<p, q>>, Cp(World, p, q, r))
DoMv(p, q)         == Run("mv", <<p, q>>, Mv(World, p, q))
DoLn(p, q, flag)   == Run("ln", <<p, q, flag>>, Ln(World, p, q, flag))
DoChmod(s, p, r)   == Run("chmod", <<p, r>>, Chmod(World, s, p, r))
DoChown(u, p, r)   == Run("chown", <<p, r>>, Chown(World, u, p, r))
DoFind(p)          == Run("find", <<p>>, Find(World, p))
DoTarC(p, q)       == Run("tar c", <<p, q>>, TarCreate(World, p, q))
DoTarX(p)          == Run("tar x", <<p>>, TarExtract(World, p))
DoDrop(p, members) == Run("drop", <<p>>, Drop(World, p, members))

DoCd(p) ==
    LET i == Resolve(World, p)
    IN  /\ sh.left > 0 /\ i # None
        /\ IsDir(World, i) /\ May(World, i, sh.uid, "x")
        /\ sh' = [sh EXCEPT !.cwd = i, !.left = @ - 1, !.did = [cmd |-> "cd", args |-> <<p>>, status |-> 0]]
        /\ UNCHANGED <<fs, info>>

(* A session starts in a tree of three, at its root or in its directory: a   *)
(* file beside the directory, and in the directory a link back to the root.  *)
(* The file may be a generated one, as in /proc.                             *)
Proper == SelectSeq(Order, LAMBDA n : n \notin Odd)
First == Proper[1]
Second == Proper[2]
StartTree(kind) ==
    LET root == [fs |-> NewVfs, info |-> [i \in Ids |-> Plain(0, DirMode)]]
        dir  == MakeDir(root, Root, First, Plain(0, DirMode))
        file == IF kind = "file" THEN PutFile(dir, Root, Second, 1, Plain(0, FileMode))
                ELSE Kept(dir, AddDynamic(dir.fs, Root, Second), Plain(0, FileMode))
    IN  PutLink(file, 1, Second, Path(TRUE, <<>>))

FsInit ==
    \E uid \in Uids, cwd \in {Root, 1}, kind \in {"file", "dynamic"} :
        /\ fs = StartTree(kind).fs /\ info = StartTree(kind).info
        /\ sh = [cwd |-> cwd, uid |-> uid, left |-> MaxCommands,
                 did |-> [cmd |-> "none", args |-> <<>>, status |-> 0]]

FsNext ==
    \/ \E p \in Paths, flag \in BOOLEAN : DoTouch(p, flag) \/ DoRmdir(p, flag)
    \/ \E p \in Paths : DoMkdir(p) \/ DoMkdirP(p) \/ DoFind(p) \/ DoTarX(p) \/ DoCd(p)
    \/ \E p \in Paths, r, f, d \in BOOLEAN : DoRm(p, r, f, d)
    \/ \E p, q \in Paths : DoMv(p, q) \/ DoTarC(p, q)
    \/ \E p \in Paths \cup NamelessPaths, q \in Paths, flag \in BOOLEAN :
          DoCp(p, q, flag) \/ DoLn(p, q, flag)
    \/ \E p \in Paths, r \in BOOLEAN :
          \/ \E s \in ModeSpecs : DoChmod(s, p, r)
          \/ \E u \in Owners : DoChown(u, p, r)
    \/ \E p \in Paths, members \in Uploads : DoDrop(p, members)

FsSpec == FsInit /\ [][FsNext]_fsVars

-----------------------------------------------------------------------------
Modes == SUBSET LinkMode

(* What is kept of a node is an owner, a mode and, of a link, its target.    *)
FsTypeOK ==
    /\ VfsTypeOK
    /\ \A i \in Ids : info[i].owner \in Nat /\ info[i].mode \in Modes
    /\ sh.cwd \in Nodes(fs) /\ sh.uid \in Uids /\ sh.left \in 0..MaxCommands

(* No sequence of commands breaks the arena the walkers recurse over: it     *)
(* stays acyclic, consistently linked, within its depth and its bytes.       *)
TreeSurvives == Acyclic /\ LinksConsistent /\ DepthBounded /\ BytesCovered

(* The entry an operand names, and what stands where a command puts things.  *)
Entry(w, path) ==
    LET at == ResolveParent(w, path)
    IN  IF at = <<>> THEN None ELSE Child(w.fs, at[1], at[2])
Occupant(dest, name) ==
    LET at == Destination(World, dest, name)
    IN  IF at = <<>> THEN None ELSE Child(fs, at[1], at[2])
Under(i) == IF i = None THEN {} ELSE Below(fs, i)

(* cp's one copy: the byte cap is the arena's, which cp does not ask about.  *)
BytesRefuse(i, at) == fs.kind[i] = "file" /\ ~Fits(World, at[1], at[2], fs.len[i])

(* A command that reports success has done what it was asked, whatever caps, *)
(* links and earlier commands were in its way.  mkdir -p is only held to it  *)
(* while the working directory is still a directory, rm -f and touch -c may  *)
(* find nothing to do, and cp is not held to it for a file that the byte cap *)
(* keeps out (CopyAppears is the stricter claim).  An extraction and a       *)
(* download promise nothing: neither looks whether a directory, a link or    *)
(* the file was refused.                                                     *)
StatusIsTrue ==
    [][LET did == sh'.did
           p   == did.args[1]
           q   == did.args[2]
           at  == Destination(World, q, Base(p))
       IN  did.status = 0 =>
             CASE did.cmd = "touch" -> q \/ Entry(World', p) # None
               [] did.cmd = "mkdir" -> Entry(World, p) = None /\ Entry(World', p) # None /\ IsDir(World', Entry(World', p))
               [] did.cmd = "mkdir-p" /\ IsDir(World, sh.cwd) ->
                      Resolve(World', p) # None /\ IsDir(World', Resolve(World', p))
               [] did.cmd \in {"rm", "rmdir"} -> Entry(World', p) = None
               [] did.cmd = "mv" -> /\ Child(fs', at[1], at[2]) = Entry(World, p)
                                    /\ Entry(World', p) = None \/ ResolveParent(World, p) = at
               [] did.cmd = "ln" -> LET i == Child(fs', at[1], at[2])
                                    IN  i # None /\ fs'.kind[i] = "link" /\ info'[i].target = p
               [] did.cmd = "cp" ->
                      LET i == Resolve(World, p)
                          c == Child(fs', at[1], at[2])
                      IN  BytesRefuse(i, at) \/
                          (c # None /\ (~IsDir(World, i) => /\ fs'.kind[c] = fs.kind[i]
                                                            /\ fs'.len[c] = fs.len[i]))
               [] did.cmd = "tar c" -> LET to == ResolveParent(World, p)
                                           i  == Child(fs', to[1], to[2])
                                       IN  i # None /\ fs'.kind[i] = "file"
               [] OTHER -> TRUE]_fsVars

(* What the space check of cp is for: "the copy would exit 0 on a file that  *)
(* never appears - both a bug and a tell".  At the byte cap it still does.   *)
CopyAppears ==
    [][LET did == sh'.did
           at  == Destination(World, did.args[2], Base(did.args[1]))
       IN  did.cmd = "cp" /\ did.status = 0 => Child(fs', at[1], at[2]) # None]_fsVars

(* What a command may touch: the subtree its operand names, a link standing  *)
(* for itself except where chmod and chown follow it, and below the working  *)
(* directory for an extraction.                                              *)
Scope(did) ==
    LET p == did.args[1]
        q == did.args[2]
        target == Resolve(World, p)
    IN  CASE did.cmd \in {"touch", "mkdir", "mkdir-p", "find", "cd"} -> {}
          [] did.cmd \in {"rm", "tar c", "drop"} -> Under(Entry(World, p))
          [] did.cmd = "rmdir" -> {i \in Ids : fs.kind[i] = "dir" /\ Under(i) \subseteq Ancestors(fs, Entry(World, p))}
          [] did.cmd \in {"cp", "ln"} -> Under(Occupant(q, Base(p)))
          [] did.cmd = "mv" -> Under(Occupant(q, Base(p))) \cup {Entry(World, p)}
          [] did.cmd \in {"chmod", "chown"} -> IF q THEN Under(target) ELSE {target}
          [] did.cmd = "tar x" -> Below(fs, sh.cwd)

(* Nothing outside its operand is changed or lost by a command: links never  *)
(* widen rm, chmod -R, chown -R, cp or an extraction, whatever the archive.  *)
OnlyTheNamed ==
    [][LET spared == Nodes(fs) \ Scope(sh'.did)
       IN  /\ \A i \in spared :
                 fs'.kind[i] = fs.kind[i] /\ fs'.len[i] = fs.len[i] /\ info'[i] = info[i]
           /\ fs'.children # fs.children =>
                 Below(fs, Root) \cap spared \subseteq Below(fs', Root)]_fsVars

(* find, chmod -R, chown -R and du recurse over the tree: each node below    *)
(* the start is visited, once, parents first, and du counts all of it.       *)
WalksVisitOnce ==
    \A i \in Nodes(fs) :
        LET walk  == Walk(World, i)
            below == Below(fs, i)
        IN  /\ Len(walk) = Cardinality(below)
            /\ {walk[k] : k \in DOMAIN walk} = below
            /\ \A k \in 2..Len(walk) : \E j \in 1..(k - 1) : walk[j] = fs.parent[walk[k]]
            /\ Usage(World, i) = SumFunctionOnSet([j \in Ids |-> SizeOf(World, j)], below)

(* After any commands the tree is sound, within its caps, and safe to walk.  *)
TreeIsWalkable == FsTypeOK /\ TreeSurvives /\ WalksVisitOnce

(* Two trees are the same but for where they hang; of a link, the target     *)
(* counts.                                                                   *)
RECURSIVE SameTree(_, _, _, _)
SameTree(v, i, w, j) ==
    /\ v.fs.kind[i] = w.fs.kind[j] /\ v.fs.len[i] = w.fs.len[j]
    /\ v.info[i].target = w.info[j].target
    /\ v.fs.kind[i] # "link" => v.info[i] = w.info[j]
    /\ \A n \in Names :
          LET a == Child(v.fs, i, n)
              b == Child(w.fs, j, n)
          IN  (a = None <=> b = None) /\ (a # None => SameTree(v, a, w, b))

Room(i) ==
    /\ fs.count + Cardinality(Below(fs, i)) <= MaxNodes
    /\ fs.bytes + Usage(World, i) <= MaxBytes

(* cp -r to a new name outside the source makes the same tree, owners, modes *)
(* and links included, when nothing runs out: not the nodes, the bytes, the  *)
(* depth or the recursion limit.                                             *)
CopyIsFaithful ==
    [][LET did  == sh'.did
           from == Resolve(World, did.args[1])
           at   == Destination(World, did.args[2], Base(did.args[1]))
       IN  (/\ did.cmd = "cp" /\ did.status = 0
            /\ Child(fs, at[1], at[2]) = None /\ from \notin Ancestors(fs, at[1])
            /\ Room(from) /\ HeightOf(fs, from) <= MaxCopy
            /\ DepthOf(fs, at[1]) + 1 + HeightOf(fs, from) <= MaxDepth)
           => SameTree(World, from, World', Child(fs', at[1], at[2]))]_fsVars

(* What an archive can hold: no generated file, no name that a path cannot   *)
(* say, and nothing that its header cuts short.                              *)
Storable(i) ==
    /\ \A j \in Below(fs, i) : /\ fs.kind[j] # "dynamic" /\ (j # i => fs.name[j] \notin Odd)
                                /\ OwnerField(info[j].owner) = info[j].owner
                                /\ LinkField(info[j].target.comps) = info[j].target.comps
    /\ LET deepest == [k \in 1..(1 + HeightOf(fs, i)) |-> First]
       IN  NameField(deepest) = deepest

(* "an archive created here round-trips through the emulator's own reader":  *)
(* what root archives from a directory and extracts into an empty tree is    *)
(* the tree it archived, provided that a ustar header can hold all of it.    *)
TarRoundTrip ==
    sh.uid = 0 /\ sh.cwd = Root =>
        \A i \in Nodes(fs) \ {Root} :
            LET tree  == TarWalk(World, i, <<First>>, None)
                empty == [fs |-> NewVfs, info |-> [j \in Ids |-> Plain(0, DirMode)]]
                back  == ExtractAll(empty, tree.members, 0)
            IN  /\ tree.status = 0
                /\ HeightOf(fs, i) < MaxDepth /\ Storable(i) =>
                     back.status = 0 /\ SameTree(World, i, back.world, back.world.fs.children[Root][First])
=============================================================================
