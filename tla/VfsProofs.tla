----------------------------- MODULE VfsProofs -----------------------------
(***************************************************************************)
(* Proofs about the arena of Vfs, for any caps, any set of names and any   *)
(* sequence of operations: it is well formed, its two records of the tree  *)
(* agree, it stays acyclic and within its depth and byte caps, and a move  *)
(* loses nothing that it does not replace.                                 *)
(***************************************************************************)
EXTENDS Vfs, FoldTheorems

(* The cycle-freedom of an arena f, as a state predicate of f. *)
AcyclicIn(f) ==
    \A S \in SUBSET (Nodes(f) \ {Root}) : S # {} => \E i \in S : f.parent[i] \notin S

TypeIn(f) ==
    /\ f \in Arenas
    /\ 1 <= f.count
    /\ \A i \in Ids : f.kind[i] = "free" <=> i >= f.count
    /\ \A i \in Nodes(f) \ {Root} : f.parent[i] \in Nodes(f) /\ f.name[i] \in Names
    /\ \A i \in Ids \ Nodes(f) : f.children[i] = Empty
    /\ f.parent[Root] = None

LinksIn(f) ==
    \A d \in Ids, n \in Names :
        f.children[d][n] # None =>
            /\ f.kind[d] = "dir" /\ f.children[d][n] \in Nodes(f)
            /\ f.parent[f.children[d][n]] = d
            /\ f.name[f.children[d][n]] = n

GoodArena(f) == TypeIn(f) /\ LinksIn(f) /\ AcyclicIn(f) /\ f.kind[Root] = "dir"

(* A new arena is good. *)
LEMMA NewVfsGood == GoodArena(NewVfs)
<1>1. TypeIn(NewVfs)
    BY VfsAssumption DEF TypeIn, NewVfs, Arenas, Nodes, Ids, Root, Empty, Kinds
<1>2. LinksIn(NewVfs)
    BY VfsAssumption DEF LinksIn, NewVfs, Ids, Empty
<1>3. Nodes(NewVfs) \ {Root} = {}
    BY DEF Nodes, NewVfs, Ids, Root
<1>4. AcyclicIn(NewVfs)
    BY <1>3 DEF AcyclicIn
<1>5. NewVfs.kind[Root] = "dir"
    BY VfsAssumption DEF NewVfs, Ids, Root
<1> QED
    BY <1>1, <1>2, <1>4, <1>5 DEF GoodArena

(* A child found by name is an allocated node. *)
LEMMA ChildIsNode ==
    ASSUME NEW f, GoodArena(f), NEW p \in Nodes(f), NEW n \in Names, Child(f, p, n) # None
    PROVE  Child(f, p, n) \in Nodes(f) /\ Child(f, p, n) # Root
BY VfsAssumption DEF GoodArena, TypeIn, LinksIn, Child, Nodes, Arenas

(* Inserting a node keeps an arena good: a fresh leaf closes no cycle.       *)
LEMMA InsertGood ==
    ASSUME NEW f, GoodArena(f), NEW p \in Nodes(f), NEW n \in Names,
           NEW k \in {"dir", "file", "link", "dynamic"}, NEW l \in Nat,
           Child(f, p, n) = None
    PROVE  GoodArena(Insert(f, p, n, k, l).arena)
<1> DEFINE g == Insert(f, p, n, k, l).arena
           c == f.count
<1>1. CASE IsFull(f, p)
    BY <1>1 DEF Insert
<1>2. CASE ~IsFull(f, p)
    <2>1. c \in Ids /\ c # Root /\ c \notin Nodes(f) /\ p # c /\ c \in Nat
        BY <1>2, VfsAssumption DEF IsFull, GoodArena, TypeIn, Arenas, Ids, Nodes, Root
    <2>2. /\ g.count = c + 1
          /\ g.parent = [f.parent EXCEPT ![c] = p]
          /\ g.name = [f.name EXCEPT ![c] = n]
          /\ g.kind = [f.kind EXCEPT ![c] = k]
          /\ g.len = [f.len EXCEPT ![c] = l]
          /\ g.children = IF f.kind[p] = "dir"
                          THEN [f.children EXCEPT ![p] = [@ EXCEPT ![n] = c]]
                          ELSE f.children
          /\ g.bytes = f.bytes
          /\ g = [count |-> g.count, parent |-> g.parent, name |-> g.name, kind |-> g.kind,
                  len |-> g.len, children |-> g.children, bytes |-> g.bytes]
        BY <1>2 DEF Insert
    <2> HIDE DEF g
    <2>3. Nodes(g) = Nodes(f) \cup {c}
        BY <2>1, <2>2 DEF Nodes, Ids, GoodArena, TypeIn, Arenas
    <2>4. g \in Arenas
        <3>1. g.count \in 0..MaxNodes
            BY <1>2, <2>2, <2>1, VfsAssumption DEF IsFull, GoodArena, TypeIn, Arenas
        <3>2. /\ g.parent \in [Ids -> Ids \cup {None}]
              /\ g.name \in [Ids -> Names \cup {NoName}]
              /\ g.kind \in [Ids -> Kinds] /\ g.len \in [Ids -> Nat]
              /\ g.bytes \in Int
            BY <2>1, <2>2 DEF GoodArena, TypeIn, Arenas, Kinds, Nodes
        <3>3. g.children \in [Ids -> [Names -> Ids \cup {None}]]
            BY <2>1, <2>2 DEF GoodArena, TypeIn, Arenas, Nodes
        <3> QED
            BY <3>1, <3>2, <3>3, <2>2 DEF Arenas
    <2>5. TypeIn(g)
        <3>1. 1 <= g.count
            BY <2>1, <2>2
        <3>2. \A i \in Ids : g.kind[i] = "free" <=> i >= g.count
            <4> SUFFICES ASSUME NEW i \in Ids PROVE g.kind[i] = "free" <=> i >= g.count
                OBVIOUS
            <4>1. i \in Int /\ (i >= c + 1 <=> i >= c /\ i # c)
                BY <2>1 DEF Ids
            <4>2. f.kind[i] = "free" <=> i >= c
                BY DEF GoodArena, TypeIn
            <4>3. g.kind[i] = IF i = c THEN k ELSE f.kind[i]
                BY <2>1, <2>2 DEF GoodArena, TypeIn, Arenas
            <4> QED
                BY <4>1, <4>2, <4>3, <2>2
        <3>3. \A i \in Nodes(g) \ {Root} : g.parent[i] \in Nodes(g) /\ g.name[i] \in Names
            BY <2>1, <2>2, <2>3 DEF GoodArena, TypeIn, Arenas, Nodes
        <3>4. \A i \in Ids \ Nodes(g) : g.children[i] = Empty
            BY <2>1, <2>2, <2>3 DEF GoodArena, TypeIn, Arenas, Nodes
        <3>5. g.parent[Root] = None
            BY <2>1, <2>2 DEF GoodArena, TypeIn, Arenas, Ids, Root
        <3> QED
            BY <2>4, <3>1, <3>2, <3>3, <3>4, <3>5 DEF TypeIn
    <2>6. LinksIn(g)
        <3> SUFFICES ASSUME NEW d \in Ids, NEW m \in Names, g.children[d][m] # None
                     PROVE  /\ g.kind[d] = "dir" /\ g.children[d][m] \in Nodes(g)
                            /\ g.parent[g.children[d][m]] = d /\ g.name[g.children[d][m]] = m
            BY DEF LinksIn
        <3>1. CASE d = p /\ m = n /\ f.kind[p] = "dir"
            BY <3>1, <2>1, <2>2, <2>3 DEF GoodArena, TypeIn, Arenas, Nodes
        <3>2. CASE ~(d = p /\ m = n /\ f.kind[p] = "dir")
            <4>1. g.children[d][m] = f.children[d][m]
                BY <3>2, <2>1, <2>2 DEF GoodArena, TypeIn, Arenas, Nodes
            <4> QED
                BY <4>1, <2>1, <2>2, <2>3 DEF GoodArena, TypeIn, LinksIn, Arenas, Nodes
        <3> QED
            BY <3>1, <3>2
    <2>7. AcyclicIn(g)
        <3> SUFFICES ASSUME NEW S \in SUBSET (Nodes(g) \ {Root}), S # {}
                     PROVE  \E i \in S : g.parent[i] \notin S
            BY DEF AcyclicIn
        <3>1. CASE S \ {c} = {}
            BY <3>1, <2>1, <2>2 DEF GoodArena, TypeIn, Arenas, Nodes
        <3>2. CASE S \ {c} # {}
            <4>1. PICK i \in S \ {c} : f.parent[i] \notin S \ {c}
                BY <3>2, <2>3 DEF GoodArena, AcyclicIn
            <4>2. f.parent[i] # c /\ g.parent[i] = f.parent[i]
                BY <4>1, <2>1, <2>2, <2>3 DEF GoodArena, TypeIn, Arenas, Nodes
            <4> QED
                BY <4>1, <4>2
        <3> QED
            BY <3>1, <3>2
    <2>8. g.kind[Root] = "dir"
        BY <2>1, <2>2, VfsAssumption DEF GoodArena, TypeIn, Arenas, Ids, Root
    <2> QED
        BY <2>5, <2>6, <2>7, <2>8 DEF GoodArena, g
<1> QED
    BY <1>1, <1>2

(* Replacing the kind of a node that is not the root keeps an arena good:    *)
(* what a replaced directory listed becomes unlisted.                        *)
LEMMA ReplaceGood ==
    ASSUME NEW f, GoodArena(f), NEW i \in Nodes(f) \ {Root}, NEW k \in {"file", "dynamic"},
           NEW l \in Nat, NEW b \in Int
    PROVE  GoodArena([Replace(f, i, k, l) EXCEPT !.bytes = b])
<1> DEFINE g == [Replace(f, i, k, l) EXCEPT !.bytes = b]
<1>1. /\ g.count = f.count /\ g.parent = f.parent /\ g.name = f.name
      /\ g.kind = [f.kind EXCEPT ![i] = k]
      /\ g.len = [f.len EXCEPT ![i] = l]
      /\ g.children = [f.children EXCEPT ![i] = Empty]
      /\ g.bytes = b
    BY DEF Replace, GoodArena, TypeIn, Arenas
<1>2. g \in Arenas
    BY VfsAssumption DEF Replace, GoodArena, TypeIn, Arenas, Kinds, Nodes, Empty
<1> HIDE DEF g
<1>3. Nodes(g) = Nodes(f)
    BY <1>1 DEF Nodes
<1>4. TypeIn(g)
    <2>1. \A j \in Ids : g.kind[j] = "free" <=> j >= g.count
        <3> SUFFICES ASSUME NEW j \in Ids PROVE g.kind[j] = "free" <=> j >= g.count
            OBVIOUS
        <3>1. f.kind[j] = "free" <=> j >= f.count
            BY DEF GoodArena, TypeIn
        <3>2. j = i => ~(j >= f.count)
            BY DEF Nodes, Ids, GoodArena, TypeIn, Arenas
        <3>3. g.kind[j] = IF j = i THEN k ELSE f.kind[j]
            BY <1>1 DEF GoodArena, TypeIn, Arenas
        <3> QED
            BY <3>1, <3>2, <3>3, <1>1
    <2>2. \A j \in Ids \ Nodes(g) : g.children[j] = Empty
        BY <1>1, <1>3 DEF GoodArena, TypeIn, Arenas, Nodes
    <2> QED
        BY <1>1, <1>2, <1>3, <2>1, <2>2 DEF GoodArena, TypeIn
<1>5. LinksIn(g)
    <2> SUFFICES ASSUME NEW d \in Ids, NEW m \in Names, g.children[d][m] # None
                 PROVE  /\ g.kind[d] = "dir" /\ g.children[d][m] \in Nodes(g)
                        /\ g.parent[g.children[d][m]] = d /\ g.name[g.children[d][m]] = m
        BY DEF LinksIn
    <2>1. d # i /\ g.children[d][m] = f.children[d][m]
        BY <1>1 DEF GoodArena, TypeIn, Arenas, Empty, Nodes
    <2> QED
        BY <2>1, <1>1, <1>3 DEF GoodArena, LinksIn, TypeIn, Arenas, Nodes
<1>6. AcyclicIn(g)
    BY <1>1, <1>3 DEF GoodArena, AcyclicIn
<1>7. g.kind[Root] = "dir"
    BY <1>1, VfsAssumption DEF GoodArena, TypeIn, Arenas, Ids, Root
<1> QED
    BY <1>4, <1>5, <1>6, <1>7 DEF GoodArena, g

(* Only the byte counter or a file's length changes: the arena stays good.   *)
LEMMA BytesGood ==
    ASSUME NEW f, GoodArena(f), NEW b \in Int, NEW i \in Ids, NEW l \in Nat
    PROVE  GoodArena([f EXCEPT !.len[i] = l, !.bytes = b])
<1> DEFINE g == [f EXCEPT !.len[i] = l, !.bytes = b]
<1>1. /\ g.count = f.count /\ g.parent = f.parent /\ g.name = f.name
      /\ g.kind = f.kind /\ g.children = f.children
    BY DEF GoodArena, TypeIn, Arenas
<1>2. g \in Arenas
    BY DEF GoodArena, TypeIn, Arenas
<1> HIDE DEF g
<1>3. Nodes(g) = Nodes(f)
    BY <1>1 DEF Nodes
<1> QED
    BY <1>1, <1>2, <1>3 DEF GoodArena, TypeIn, LinksIn, AcyclicIn, g

(* Unlisting a child keeps an arena good: the tombstone keeps its parent.    *)
LEMMA UnlinkGood ==
    ASSUME NEW f, GoodArena(f), NEW p \in Nodes(f), NEW n \in Names
    PROVE  GoodArena(UnlinkIn(f, p, n))
<1> DEFINE g == UnlinkIn(f, p, n)
<1>1. CASE f.kind[p] # "dir"
    BY <1>1 DEF UnlinkIn
<1>2. CASE f.kind[p] = "dir"
    <2>1. /\ g.count = f.count /\ g.parent = f.parent /\ g.name = f.name /\ g.kind = f.kind
          /\ g.children = [f.children EXCEPT ![p] = [f.children[p] EXCEPT ![n] = None]]
        BY <1>2 DEF UnlinkIn, GoodArena, TypeIn, Arenas, Nodes
    <2>2. g \in Arenas
        BY <1>2 DEF UnlinkIn, GoodArena, TypeIn, Arenas, Nodes
    <2> HIDE DEF g
    <2>3. Nodes(g) = Nodes(f)
        BY <2>1 DEF Nodes
    <2>4. TypeIn(g)
        BY <2>1, <2>2, <2>3 DEF GoodArena, TypeIn, Arenas, Nodes
    <2>5. \A d \in Ids, m \in Names : g.children[d][m] # None => g.children[d][m] = f.children[d][m]
        BY <2>1 DEF GoodArena, TypeIn, Arenas, Nodes
    <2>6. LinksIn(g)
        BY <2>1, <2>3, <2>5 DEF GoodArena, LinksIn
    <2>7. AcyclicIn(g)
        BY <2>1, <2>3 DEF GoodArena, AcyclicIn
    <2> QED
        BY <2>1, <2>4, <2>6, <2>7 DEF GoodArena, g
<1> QED
    BY <1>1, <1>2

(* The move: the new parent is not below the node moved, so some set that    *)
(* holds the new parent and all its ancestors leaves the node out; a cycle   *)
(* after the move would, inside that set, have been one before.              *)
LEMMA RenameGood ==
    ASSUME NEW f, GoodArena(f), NEW i \in Nodes(f), NEW np \in Nodes(f), NEW n \in Names,
           Listed(f, i), f.kind[np] = "dir", ~IsAncestorOf(f, i, np)
    PROVE  GoodArena(Moved(f, i, np, n))
<1> DEFINE g == Moved(f, i, np, n)
<1>1. i # Root /\ i # np /\ f.parent[i] \in Nodes(f) /\ f.name[i] \in Names
      /\ f.kind[f.parent[i]] = "dir"
    <2>1. i # Root
        BY VfsAssumption DEF IsAncestorOf
    <2>2. f.parent[i] \in Nodes(f) /\ f.name[i] \in Names
        BY <2>1 DEF GoodArena, TypeIn
    <2>3. f.kind[f.parent[i]] = "dir"
        BY <2>2, VfsAssumption DEF Listed, GoodArena, LinksIn, Nodes
    <2>4. i # np
        BY DEF IsAncestorOf, Ancestors
    <2> QED
        BY <2>1, <2>2, <2>3, <2>4
<1> DEFINE op == f.parent[i]
           on == f.name[i]
           ch == [f.children EXCEPT ![op] = [f.children[op] EXCEPT ![on] = None]]
<1>2. /\ g.count = f.count /\ g.kind = f.kind /\ g.len = f.len /\ g.bytes = f.bytes
      /\ g.parent = [f.parent EXCEPT ![i] = np]
      /\ g.name = [f.name EXCEPT ![i] = n]
      /\ g.children = [ch EXCEPT ![np] = [ch[np] EXCEPT ![n] = i]]
      /\ g = [f EXCEPT !.children = g.children, !.name = g.name, !.parent = g.parent]
    BY <1>1 DEF Moved, Detached, GoodArena, TypeIn, Arenas, Nodes
<1>3. ch \in [Ids -> [Names -> Ids \cup {None}]]
    BY <1>1 DEF GoodArena, TypeIn, Arenas, Nodes
<1>4. g \in Arenas
    <2>1. g.children \in [Ids -> [Names -> Ids \cup {None}]]
        BY <1>2, <1>3 DEF Nodes
    <2>2. g.parent \in [Ids -> Ids \cup {None}] /\ g.name \in [Ids -> Names \cup {NoName}]
        BY <1>2 DEF GoodArena, TypeIn, Arenas, Nodes
    <2> QED
        BY <1>2, <2>1, <2>2 DEF GoodArena, TypeIn, Arenas
<1> HIDE DEF g
<1>5. Nodes(g) = Nodes(f)
    BY <1>2 DEF Nodes
<1>6. TypeIn(g)
    <2>1. \A j \in Nodes(g) \ {Root} : g.parent[j] \in Nodes(g) /\ g.name[j] \in Names
        BY <1>2, <1>5 DEF GoodArena, TypeIn, Arenas, Nodes
    <2>2. \A j \in Ids \ Nodes(g) : g.children[j] = Empty
        BY <1>1, <1>2, <1>5 DEF GoodArena, TypeIn, Arenas, Nodes
    <2>3. g.parent[Root] = None
        BY <1>1, <1>2, VfsAssumption DEF GoodArena, TypeIn, Arenas, Nodes, Ids, Root
    <2> QED
        BY <1>2, <1>4, <2>1, <2>2, <2>3 DEF GoodArena, TypeIn
<1>7. LinksIn(g)
    <2> SUFFICES ASSUME NEW d \in Ids, NEW m \in Names, g.children[d][m] # None
                 PROVE  /\ g.kind[d] = "dir" /\ g.children[d][m] \in Nodes(g)
                        /\ g.parent[g.children[d][m]] = d /\ g.name[g.children[d][m]] = m
        BY DEF LinksIn
    <2>1. CASE d = np /\ m = n
        <3>1. g.children[d][m] = i
            BY <2>1, <1>2, <1>3 DEF Nodes
        <3> QED
            BY <2>1, <3>1, <1>2, <1>5 DEF GoodArena, TypeIn, Arenas, Nodes
    <2>2. CASE ~(d = np /\ m = n)
        <3>1. g.children[d][m] = ch[d][m]
            BY <2>2, <1>2, <1>3 DEF Nodes
        <3>2. ~(d = op /\ m = on) /\ ch[d][m] = f.children[d][m]
            BY <3>1, <1>1 DEF GoodArena, TypeIn, Arenas, Nodes
        <3>3. f.children[d][m] # i
            BY <3>1, <3>2 DEF GoodArena, LinksIn
        <3> QED
            BY <3>1, <3>2, <3>3, <1>2, <1>5 DEF GoodArena, LinksIn, TypeIn, Arenas, Nodes
    <2> QED
        BY <2>1, <2>2
<1>8. AcyclicIn(g)
    <2> SUFFICES ASSUME NEW S \in SUBSET (Nodes(g) \ {Root}), S # {},
                        \A j \in S : g.parent[j] \in S
                 PROVE  FALSE
        BY DEF AcyclicIn
    <2>1. i \notin Ancestors(f, np)
        BY DEF IsAncestorOf
    <2>2. PICK A \in SUBSET Nodes(f) : np \in A /\ ParentClosed(f, A) /\ i \notin A
        BY <2>1 DEF Ancestors
    <2>3. \A j \in S \ {i} : f.parent[j] \in S
        BY <1>2, <1>5 DEF GoodArena, TypeIn, Arenas, Nodes
    <2>4. CASE i \notin S
        BY <2>3, <2>4, <1>5 DEF GoodArena, AcyclicIn
    <2>5. CASE i \in S
        <3>1. np \in S
            BY <2>5, <1>2 DEF GoodArena, TypeIn, Arenas, Nodes
        <3>2. S \cap A \in SUBSET (Nodes(f) \ {Root}) /\ S \cap A # {}
            BY <3>1, <2>2, <1>5
        <3>3. PICK j \in S \cap A : f.parent[j] \notin S \cap A
            BY <3>2 DEF GoodArena, AcyclicIn
        <3>4. f.parent[j] \in S /\ f.parent[j] # None
            BY <3>3, <2>2, <2>3, VfsAssumption, <1>5 DEF Nodes
        <3>5. f.parent[j] \in A
            BY <3>3, <3>4, <2>2 DEF ParentClosed
        <3> QED
            BY <3>3, <3>4, <3>5
    <2> QED
        BY <2>4, <2>5
<1> QED
    BY <1>2, <1>6, <1>7, <1>8 DEF GoodArena, g

(* add_file keeps an arena good in each of its four outcomes. *)
LEMMA AddFileGood ==
    ASSUME NEW f, GoodArena(f), NEW p \in Nodes(f), NEW n \in Names, NEW l \in Nat
    PROVE  GoodArena(AddFile(f, p, n, l).arena)
<1> DEFINE e == Child(f, p, n)
           b == f.bytes - OldLen(f, e) + l
           cr == Insert(f, p, n, "file", l)
<1>1. b \in Int
    <2>1. e # None => e \in Nodes(f)
        BY ChildIsNode
    <2>2. OldLen(f, e) \in Int /\ f.bytes \in Int
        BY <2>1 DEF OldLen, GoodArena, TypeIn, Arenas, Nodes
    <2> QED
        BY <2>2
<1>2. CASE b > MaxBytes
    BY <1>2 DEF AddFile
<1>3. CASE ~(b > MaxBytes) /\ e # None
    <2>1. e \in Nodes(f) \ {Root}
        BY <1>3, ChildIsNode
    <2>2. AddFile(f, p, n, l).arena = [Replace(f, e, "file", l) EXCEPT !.bytes = b]
        BY <1>3 DEF AddFile
    <2> QED
        BY <1>1, <2>1, <2>2, ReplaceGood
<1>4. CASE ~(b > MaxBytes) /\ e = None
    <2>1. GoodArena(cr.arena)
        BY <1>4, InsertGood
    <2>2. CASE cr.id = p
        BY <1>4, <2>1, <2>2 DEF AddFile
    <2>3. CASE cr.id # p
        <3>1. AddFile(f, p, n, l).arena = [cr.arena EXCEPT !.bytes = @ + l]
            BY <1>4, <2>3 DEF AddFile
        <3> HIDE DEF cr
        <3>2. cr.arena.len \in [Ids -> Nat] /\ Root \in Ids /\ cr.arena.bytes \in Int
            BY <2>1, VfsAssumption DEF GoodArena, TypeIn, Arenas, Ids, Root
        <3>3. [cr.arena EXCEPT !.bytes = @ + l]
                = [cr.arena EXCEPT !.len[Root] = cr.arena.len[Root], !.bytes = cr.arena.bytes + l]
            BY <2>1, <3>2 DEF GoodArena, TypeIn, Arenas
        <3>4. cr.arena.len[Root] \in Nat /\ cr.arena.bytes + l \in Int
            BY <3>2
        <3>5. GoodArena([cr.arena EXCEPT !.len[Root] = cr.arena.len[Root],
                                         !.bytes = cr.arena.bytes + l])
            BY <2>1, <3>2, <3>4, BytesGood
        <3> QED
            BY <3>1, <3>3, <3>5
    <2> QED
        BY <2>2, <2>3
<1> QED
    BY <1>2, <1>3, <1>4

(* Every operation keeps the session's arena good. *)
LEMMA VfsStep ==
    ASSUME GoodArena(fs), [VfsNext]_fs
    PROVE  GoodArena(fs')
<1>1. CASE UNCHANGED fs
    BY <1>1
<1>2. ASSUME NEW p \in Ids, NEW n \in Names, Mkdir(p, n)
      PROVE  GoodArena(fs')
    BY <1>2, InsertGood DEF Mkdir, MkdirIn
<1>3. ASSUME NEW p \in Ids, NEW n \in Names, AddSymlink(p, n)
      PROVE  GoodArena(fs')
    BY <1>3, InsertGood DEF AddSymlink, AddLink
<1>4. ASSUME NEW p \in Ids, NEW n \in Names, AddDynamicFile(p, n)
      PROVE  GoodArena(fs')
    <2>1. CASE Child(fs, p, n) = None
        BY <1>4, <2>1, InsertGood DEF AddDynamicFile, AddDynamic
    <2>2. CASE Child(fs, p, n) # None
        <3> DEFINE e == Child(fs, p, n)
        <3>1. e \in Nodes(fs) \ {Root}
            BY <1>4, <2>2, ChildIsNode DEF AddDynamicFile
        <3>2. fs' = Replace(fs, e, "dynamic", 0)
            BY <1>4, <2>2 DEF AddDynamicFile, AddDynamic
        <3>3. fs.bytes \in Int
            BY DEF GoodArena, TypeIn, Arenas
        <3>4. Replace(fs, e, "dynamic", 0) = [Replace(fs, e, "dynamic", 0) EXCEPT !.bytes = fs.bytes]
            BY <3>1 DEF Replace, GoodArena, TypeIn, Arenas
        <3> QED
            BY <3>1, <3>2, <3>3, <3>4, ReplaceGood
    <2> QED
        BY <2>1, <2>2
<1>5. ASSUME NEW p \in Ids, NEW n \in Names, Unlink(p, n)
      PROVE  GoodArena(fs')
    BY <1>5, UnlinkGood DEF Unlink
<1>6. ASSUME NEW p \in Ids, NEW n \in Names, NEW l \in 0..MaxLen, CreateFile(p, n, l)
      PROVE  GoodArena(fs')
    BY <1>6, AddFileGood, VfsAssumption DEF CreateFile
<1>7. ASSUME NEW i \in Ids, NEW p \in Ids, NEW n \in Names, Rename(i, p, n)
      PROVE  GoodArena(fs')
    BY <1>7, RenameGood DEF Rename, MayMove
<1>8. ASSUME NEW i \in Ids, NEW l \in 0..MaxLen, NEW append \in BOOLEAN, WriteFile(i, l, append)
      PROVE  GoodArena(fs')
    <2> DEFINE new == IF append THEN fs.len[i] + l ELSE l
    <2>1. new \in Nat /\ fs.len[i] \in Nat /\ fs.bytes \in Int
        BY VfsAssumption DEF GoodArena, TypeIn, Arenas
    <2>2. fs' = [fs EXCEPT !.len[i] = new, !.bytes = fs.bytes - fs.len[i] + new]
        BY <1>8 DEF WriteFile
    <2>3. fs.bytes - fs.len[i] + new \in Int
        BY <2>1
    <2> HIDE DEF new
    <2> QED
        BY <2>1, <2>2, <2>3, BytesGood
<1> QED
    BY <1>1, <1>2, <1>3, <1>4, <1>5, <1>6, <1>7, <1>8 DEF VfsNext

(* The inductive invariant. *)
VfsInv == GoodArena(fs)

(* Every reachable arena is good. *)
THEOREM VfsInvariant == VfsSpec => []VfsInv
<1>1. VfsInit => VfsInv
    BY NewVfsGood DEF VfsInit, VfsInv
<1>2. VfsInv /\ [VfsNext]_fs => VfsInv'
    BY VfsStep DEF VfsInv
<1> QED
    BY <1>1, <1>2, PTL DEF VfsSpec

(* The arena is well formed after any sequence of operations. *)
THEOREM VfsTypeCorrect == VfsSpec => []VfsTypeOK
<1>1. VfsInv => VfsTypeOK
    BY DEF VfsInv, GoodArena, TypeIn, VfsTypeOK
<1> QED
    BY <1>1, VfsInvariant, PTL

(* "The arena must stay acyclic" (is_ancestor_of): it does, so every walk up *)
(* a parent chain ends at the root.                                          *)
THEOREM VfsAcyclic == VfsSpec => []Acyclic
<1>1. VfsInv => Acyclic
    BY DEF VfsInv, GoodArena, AcyclicIn, Acyclic
<1> QED
    BY <1>1, VfsInvariant, PTL

(* Directories and parent pointers always describe the same tree. *)
THEOREM VfsLinksConsistent == VfsSpec => []LinksConsistent
<1>1. VfsInv => LinksConsistent
    BY DEF VfsInv, GoodArena, LinksIn, LinksConsistent
<1> QED
    BY <1>1, VfsInvariant, PTL

(* The arena stays one well-typed tree, for any caps and names. *)
THEOREM VfsTreeSound == VfsSpec => []TreeSound
BY VfsTypeCorrect, VfsAcyclic, VfsLinksConsistent, PTL DEF TreeSound

-----------------------------------------------------------------------------
(* The byte cap: content_bytes covers the files of the arena. *)

Files(f) == {i \in Nodes(f) : f.kind[i] = "file"}

CoveredIn(f) == SumFunctionOnSet(f.len, Files(f)) <= f.bytes /\ f.bytes <= MaxBytes

(* An arena has finitely many nodes, and their lengths add up to a number.   *)
LEMMA FilesAddUp ==
    ASSUME NEW f, GoodArena(f)
    PROVE  /\ IsFiniteSet(Nodes(f)) /\ IsFiniteSet(Files(f)) /\ f.bytes \in Int
           /\ \A i \in Nodes(f) : f.len[i] \in Nat
           /\ SumFunctionOnSet(f.len, Files(f)) \in Nat
<1>1. IsFiniteSet(Ids) /\ Nodes(f) \subseteq Ids /\ Files(f) \subseteq Ids
    BY FS_Interval, VfsAssumption DEF Ids, Nodes, Files
<1>2. IsFiniteSet(Nodes(f)) /\ IsFiniteSet(Files(f))
    BY <1>1, FS_Subset
<1>3. f.bytes \in Int /\ \A i \in Nodes(f) : f.len[i] \in Nat
    BY DEF GoodArena, TypeIn, Arenas, Nodes
<1>4. \A i \in Files(f) : f.len[i] \in Nat
    BY <1>3 DEF Files
<1> QED
    BY <1>2, <1>3, <1>4, SumNat

(* A step that neither adds a file nor changes one keeps the count covering. *)
LEMMA CoveredSame ==
    ASSUME NEW f, GoodArena(f), CoveredIn(f), NEW g, g.bytes = f.bytes,
           Files(g) \subseteq Files(f), \A i \in Files(g) : g.len[i] = f.len[i]
    PROVE  CoveredIn(g)
<1>1. IsFiniteSet(Files(f)) /\ IsFiniteSet(Files(g)) /\ \A i \in Files(f) : f.len[i] \in Nat
    BY FilesAddUp, FS_Subset DEF Files
<1>2. SumFunctionOnSet(g.len, Files(g)) = SumFunctionOnSet(f.len, Files(g))
    BY <1>1, SumSame
<1>3. SumFunctionOnSet(f.len, Files(g)) <= SumFunctionOnSet(f.len, Files(f))
    BY <1>1, SumPart
<1>4. SumFunctionOnSet(f.len, Files(g)) \in Nat /\ SumFunctionOnSet(f.len, Files(f)) \in Nat
      /\ f.bytes \in Int
  <2>1. \A i \in Files(g) : f.len[i] \in Nat
      BY <1>1
  <2> QED
      BY <1>1, <2>1, SumNat, FilesAddUp
<1> QED
    BY <1>2, <1>3, <1>4 DEF CoveredIn

(* A file that is new, or new where something else was, or rewritten, is     *)
(* charged for the difference.                                               *)
LEMMA CoveredChange ==
    ASSUME NEW f, GoodArena(f), CoveredIn(f), NEW g, NEW i, NEW old \in Nat,
           Files(g) = Files(f) \cup {i}, \A j \in Files(f) \ {i} : g.len[j] = f.len[j],
           g.len[i] \in Nat, old = IF i \in Files(f) THEN f.len[i] ELSE 0,
           g.bytes = f.bytes - old + g.len[i], g.bytes <= MaxBytes
    PROVE  CoveredIn(g)
<1> DEFINE R == Files(f) \ {i}
           F == SumFunctionOnSet(f.len, R)
<1>1. /\ IsFiniteSet(Files(f)) /\ \A j \in Files(f) : f.len[j] \in Nat
      /\ f.bytes \in Int /\ SumFunctionOnSet(f.len, Files(f)) \in Nat
    BY FilesAddUp DEF Files
<1>2. IsFiniteSet(R) /\ (\A j \in R : f.len[j] \in Nat /\ g.len[j] \in Nat) /\ i \notin R
    BY <1>1, FS_Subset
<1>3. F \in Nat /\ SumFunctionOnSet(g.len, R) = F
  <2> HIDE DEF R
  <2>1. \A j \in R : g.len[j] = f.len[j]
      BY DEF R
  <2> QED
      BY <1>2, <2>1, SumNat, SumSame
<1>4. SumFunctionOnSet(f.len, Files(f)) = old + F
  <2>1. CASE i \in Files(f)
      BY <1>1, <2>1, SumRemove
  <2>2. CASE i \notin Files(f)
    <3>1. R = Files(f) /\ old = 0
        BY <2>2
    <3> HIDE DEF R
    <3>2. F = SumFunctionOnSet(f.len, Files(f))
        BY <3>1
    <3> HIDE DEF F
    <3> QED
        BY <1>1, <3>1, <3>2
  <2> QED
      BY <2>1, <2>2
<1>5. SumFunctionOnSet(g.len, R \cup {i}) = g.len[i] + SumFunctionOnSet(g.len, R)
  <2>1. \A j \in R : g.len[j] \in Nat
      BY <1>2
  <2> HIDE DEF R
  <2> QED
      BY <1>2, <2>1, SumAdd
<1>6. Files(g) = R \cup {i}
    OBVIOUS
<1> HIDE DEF R, F
<1>7. SumFunctionOnSet(g.len, Files(g)) = g.len[i] + F
    BY <1>3, <1>5, <1>6
<1>8. old + F <= f.bytes
    BY <1>4 DEF CoveredIn
<1> QED
    BY <1>1, <1>3, <1>7, <1>8 DEF CoveredIn

(* What inserting a node changes, unless the arena is full. *)
LEMMA InsertFacts ==
    ASSUME NEW f, GoodArena(f), NEW p \in Nodes(f), NEW n, NEW k, NEW l, ~IsFull(f, p)
    PROVE  LET g == Insert(f, p, n, k, l).arena
               c == f.count
           IN  /\ c \in Ids /\ c \notin Nodes(f) /\ p # c /\ c # None
               /\ Nodes(g) = Nodes(f) \cup {c} /\ Insert(f, p, n, k, l).id = c
               /\ g.parent[c] = p /\ g.name[c] = n /\ g.kind[c] = k /\ g.len[c] = l
               /\ g.bytes = f.bytes
               /\ \A j \in Nodes(f) : /\ g.parent[j] = f.parent[j] /\ g.name[j] = f.name[j]
                                      /\ g.kind[j] = f.kind[j] /\ g.len[j] = f.len[j]
               /\ \A j \in Ids, m \in Names :
                    g.children[j][m] # f.children[j][m] => j = p /\ g.children[j][m] = c
               /\ g.children[c] = Empty
<1> DEFINE g == Insert(f, p, n, k, l).arena
           c == f.count
<1>1. c \in Ids /\ c \notin Nodes(f) /\ p # c /\ c # None /\ c \in Nat
    BY VfsAssumption DEF IsFull, GoodArena, TypeIn, Arenas, Ids, Nodes
<1>2. /\ g.count = c + 1 /\ Insert(f, p, n, k, l).id = c
      /\ g.parent = [f.parent EXCEPT ![c] = p]
      /\ g.name = [f.name EXCEPT ![c] = n]
      /\ g.kind = [f.kind EXCEPT ![c] = k]
      /\ g.len = [f.len EXCEPT ![c] = l]
      /\ g.children = IF f.kind[p] = "dir"
                      THEN [f.children EXCEPT ![p] = [f.children[p] EXCEPT ![n] = c]]
                      ELSE f.children
      /\ g.bytes = f.bytes
    BY DEF Insert
<1> HIDE DEF g
<1>3. Nodes(g) = Nodes(f) \cup {c}
    BY <1>1, <1>2 DEF Nodes, Ids, GoodArena, TypeIn, Arenas
<1>4. /\ f.parent \in [Ids -> Ids \cup {None}] /\ f.kind \in [Ids -> Kinds]
      /\ f.name \in [Ids -> Names \cup {NoName}] /\ f.len \in [Ids -> Nat]
      /\ f.children \in [Ids -> [Names -> Ids \cup {None}]]
      /\ f.children[c] = Empty /\ Nodes(f) \subseteq Ids
    BY <1>1 DEF GoodArena, TypeIn, Arenas, Nodes
<1> HIDE DEF c
<1>5. g.parent[c] = p /\ g.name[c] = n /\ g.kind[c] = k /\ g.len[c] = l
    BY <1>1, <1>2, <1>4
<1>6. \A j \in Nodes(f) : /\ g.parent[j] = f.parent[j] /\ g.name[j] = f.name[j]
                          /\ g.kind[j] = f.kind[j] /\ g.len[j] = f.len[j]
    BY <1>1, <1>2, <1>4
<1>7. \A j \in Ids, m \in Names :
        g.children[j][m] # f.children[j][m] => j = p /\ g.children[j][m] = c
    BY <1>1, <1>2, <1>4
<1>8. g.children[c] = Empty
    BY <1>1, <1>2, <1>4
<1> QED
    BY <1>1, <1>2, <1>3, <1>5, <1>6, <1>7, <1>8 DEF g, c

(* Inserting anything but a file needs no bytes. *)
LEMMA InsertCovered ==
    ASSUME NEW f, GoodArena(f), CoveredIn(f), NEW p \in Nodes(f), NEW n, NEW k, k # "file", NEW l
    PROVE  CoveredIn(Insert(f, p, n, k, l).arena)
<1> DEFINE g == Insert(f, p, n, k, l).arena
<1>1. CASE IsFull(f, p)
    BY <1>1 DEF Insert
<1>2. CASE ~IsFull(f, p)
  <2>1. /\ Files(g) \subseteq Files(f) /\ (\A i \in Files(g) : g.len[i] = f.len[i])
        /\ g.bytes = f.bytes
      BY <1>2, InsertFacts DEF Files
  <2> HIDE DEF g
  <2>2. CoveredIn(g)
      BY <2>1, CoveredSame
  <2> QED
      BY <2>2 DEF g
<1> QED
    BY <1>1, <1>2

(* add_file accounts for what it writes, or refuses. *)
LEMMA AddFileCovered ==
    ASSUME NEW f, GoodArena(f), CoveredIn(f), NEW p \in Nodes(f), NEW n \in Names, NEW l \in Nat
    PROVE  CoveredIn(AddFile(f, p, n, l).arena)
<1> DEFINE e  == Child(f, p, n)
           b  == f.bytes - OldLen(f, e) + l
           cr == Insert(f, p, n, "file", l)
           g  == AddFile(f, p, n, l).arena
<1>1. f.bytes \in Int /\ f.len \in [Ids -> Nat] /\ f.kind \in [Ids -> Kinds]
    BY DEF GoodArena, TypeIn, Arenas
<1>2. CASE b > MaxBytes
    BY <1>2 DEF AddFile
<1>3. CASE ~(b > MaxBytes) /\ e # None
  <2>1. e \in Nodes(f) /\ e \in Ids
      BY <1>3, ChildIsNode DEF Nodes
  <2>2. g = [Replace(f, e, "file", l) EXCEPT !.bytes = b]
      BY <1>3 DEF AddFile
  <2>3. /\ g.count = f.count /\ g.kind = [f.kind EXCEPT ![e] = "file"]
        /\ g.len = [f.len EXCEPT ![e] = l] /\ g.bytes = b
      BY <2>2 DEF Replace, GoodArena, TypeIn, Arenas
  <2> HIDE DEF g, e
  <2>4. /\ Files(g) = Files(f) \cup {e} /\ (\A j \in Files(f) \ {e} : g.len[j] = f.len[j])
        /\ g.len[e] = l
      BY <1>1, <2>1, <2>3 DEF Files, Nodes
  <2>5. OldLen(f, e) \in Nat /\ OldLen(f, e) = IF e \in Files(f) THEN f.len[e] ELSE 0
      BY <1>1, <1>3, <2>1 DEF OldLen, Files
  <2>6. b <= MaxBytes
    <3>1. b \in Int
        BY <1>1, <2>5
    <3> QED
        BY <1>3, <3>1, VfsAssumption
  <2>7. CoveredIn(g)
    <3> DEFINE old == OldLen(f, e)
    <3>1. g.bytes = f.bytes - old + g.len[e] /\ g.bytes <= MaxBytes
        BY <2>3, <2>4, <2>6
    <3>2. old \in Nat /\ old = IF e \in Files(f) THEN f.len[e] ELSE 0
        BY <2>5
    <3> HIDE DEF old, b
    <3> QED
        BY <2>4, <3>1, <3>2, CoveredChange
  <2> QED
      BY <2>7 DEF g
<1>4. CASE ~(b > MaxBytes) /\ e = None
  <2>1. CASE IsFull(f, p)
    <3>1. cr.id = p /\ cr.arena = f
        BY <2>1 DEF Insert
    <3> QED
        BY <1>4, <3>1 DEF AddFile
  <2>2. CASE ~IsFull(f, p)
    <3> DEFINE c == f.count
    <3>1. cr.id = c /\ c # p
        BY <2>2, InsertFacts
    <3>2. g = [cr.arena EXCEPT !.bytes = @ + l]
        BY <1>4, <3>1 DEF AddFile
    <3>3. /\ c \notin Nodes(f) /\ Nodes(cr.arena) = Nodes(f) \cup {c}
          /\ cr.arena.kind[c] = "file" /\ cr.arena.len[c] = l /\ cr.arena.bytes = f.bytes
          /\ \A j \in Nodes(f) : cr.arena.kind[j] = f.kind[j] /\ cr.arena.len[j] = f.len[j]
        BY <2>2, InsertFacts
    <3>4. /\ g.count = cr.arena.count /\ g.kind = cr.arena.kind /\ g.len = cr.arena.len
          /\ g.bytes = cr.arena.bytes + l
      <4>1. GoodArena(cr.arena)
          BY <1>4, InsertGood
      <4> HIDE DEF cr, g
      <4> QED
          BY <3>2, <4>1 DEF GoodArena, TypeIn, Arenas
    <3> HIDE DEF cr, g, c
    <3>5. /\ Files(g) = Files(f) \cup {c} /\ c \notin Files(f)
          /\ (\A j \in Files(f) \ {c} : g.len[j] = f.len[j]) /\ g.len[c] = l
        BY <3>3, <3>4 DEF Files, Nodes
    <3>6. g.bytes = f.bytes - 0 + l /\ g.bytes <= MaxBytes
      <4>1. OldLen(f, e) = 0
          BY <1>4 DEF OldLen
      <4> HIDE DEF e
      <4>2. b = f.bytes + l
          BY <1>1, <4>1
      <4> QED
          BY <1>1, <1>4, <3>3, <3>4, <4>2, VfsAssumption
    <3>7. CoveredIn(g)
        BY <3>5, <3>6, CoveredChange
    <3> QED
        BY <3>7 DEF g
  <2> QED
      BY <2>1, <2>2
<1> QED
    BY <1>2, <1>3, <1>4

(* Every operation keeps content_bytes covering the files, within the cap.   *)
LEMMA CoveredStep ==
    ASSUME GoodArena(fs), CoveredIn(fs), [VfsNext]_fs
    PROVE  CoveredIn(fs')
<1>0. /\ fs.bytes \in Int /\ fs.len \in [Ids -> Nat] /\ fs.kind \in [Ids -> Kinds]
      /\ fs.children \in [Ids -> [Names -> Ids \cup {None}]]
    BY DEF GoodArena, TypeIn, Arenas
<1>1. CASE UNCHANGED fs
    BY <1>1
<1>2. ASSUME NEW p \in Ids, NEW n \in Names, Mkdir(p, n)
      PROVE  CoveredIn(fs')
    BY <1>2, InsertCovered DEF Mkdir, MkdirIn
<1>3. ASSUME NEW p \in Ids, NEW n \in Names, AddSymlink(p, n)
      PROVE  CoveredIn(fs')
    BY <1>3, InsertCovered DEF AddSymlink, AddLink
<1>4. ASSUME NEW p \in Ids, NEW n \in Names, AddDynamicFile(p, n)
      PROVE  CoveredIn(fs')
  <2> DEFINE e == Child(fs, p, n)
  <2>1. CASE e = None
      BY <1>4, <2>1, InsertCovered DEF AddDynamicFile, AddDynamic
  <2>2. CASE e # None
    <3>1. e \in Ids
        BY <1>4, <2>2, ChildIsNode DEF AddDynamicFile, Nodes
    <3>2. /\ fs'.count = fs.count /\ fs'.kind = [fs.kind EXCEPT ![e] = "dynamic"]
          /\ fs'.len = [fs.len EXCEPT ![e] = 0] /\ fs'.bytes = fs.bytes
        BY <1>4, <2>2 DEF AddDynamicFile, AddDynamic, Replace, GoodArena, TypeIn, Arenas
    <3> HIDE DEF e
    <3>3. Files(fs') \subseteq Files(fs) /\ \A i \in Files(fs') : fs'.len[i] = fs.len[i]
        BY <1>0, <3>1, <3>2 DEF Files, Nodes
    <3> QED
        BY <3>2, <3>3, CoveredSame
  <2> QED
      BY <2>1, <2>2
<1>5. ASSUME NEW p \in Ids, NEW n \in Names, Unlink(p, n)
      PROVE  CoveredIn(fs')
  <2>1. fs'.count = fs.count /\ fs'.kind = fs.kind /\ fs'.len = fs.len /\ fs'.bytes = fs.bytes
      BY <1>5 DEF Unlink, UnlinkIn, GoodArena, TypeIn, Arenas
  <2>2. Files(fs') = Files(fs)
      BY <2>1 DEF Files, Nodes
  <2> QED
      BY <2>1, <2>2 DEF CoveredIn
<1>6. ASSUME NEW p \in Ids, NEW n \in Names, NEW l \in 0..MaxLen, CreateFile(p, n, l)
      PROVE  CoveredIn(fs')
    BY <1>6, AddFileCovered, VfsAssumption DEF CreateFile
<1>7. ASSUME NEW i \in Ids, NEW p \in Ids, NEW n \in Names, Rename(i, p, n)
      PROVE  CoveredIn(fs')
  <2>1. fs'.count = fs.count /\ fs'.kind = fs.kind /\ fs'.len = fs.len /\ fs'.bytes = fs.bytes
      BY <1>7 DEF Rename, Moved, GoodArena, TypeIn, Arenas
  <2>2. Files(fs') = Files(fs)
      BY <2>1 DEF Files, Nodes
  <2> QED
      BY <2>1, <2>2 DEF CoveredIn
<1>8. ASSUME NEW i \in Ids, NEW l \in 0..MaxLen, NEW append \in BOOLEAN, WriteFile(i, l, append)
      PROVE  CoveredIn(fs')
  <2> DEFINE new == IF append THEN fs.len[i] + l ELSE l
  <2>1. new \in Nat /\ fs.len[i] \in Nat
      BY <1>0, VfsAssumption
  <2>2. /\ fs'.count = fs.count /\ fs'.kind = fs.kind /\ fs'.len = [fs.len EXCEPT ![i] = new]
        /\ fs'.bytes = fs.bytes - fs.len[i] + new /\ i \in Files(fs)
        /\ fs.bytes - fs.len[i] + new <= MaxBytes
      BY <1>8 DEF WriteFile, GoodArena, TypeIn, Arenas, Files
  <2> HIDE DEF new
  <2>3. /\ Files(fs') = Files(fs) \cup {i} /\ (\A j \in Files(fs) \ {i} : fs'.len[j] = fs.len[j])
        /\ fs'.len[i] = new
      BY <1>0, <2>2 DEF Files, Nodes
  <2> DEFINE old == fs.len[i]
  <2>4. /\ fs'.bytes = fs.bytes - old + fs'.len[i] /\ fs'.bytes <= MaxBytes
        /\ old \in Nat /\ old = IF i \in Files(fs) THEN fs.len[i] ELSE 0
        /\ fs'.len[i] \in Nat
      BY <2>1, <2>2, <2>3
  <2> HIDE DEF old
  <2> QED
      BY <2>3, <2>4, CoveredChange
<1> QED
    BY <1>1, <1>2, <1>3, <1>4, <1>5, <1>6, <1>7, <1>8 DEF VfsNext

(* For any caps and any sequence of operations, what the arena holds is      *)
(* never more than content_bytes says, and content_bytes never more than the *)
(* cap.                                                                      *)
THEOREM VfsBytesCovered == VfsSpec => []BytesCovered
<1>1. VfsInit => CoveredIn(fs)
  <2>1. Files(NewVfs) = {} /\ NewVfs.bytes = 0
      BY VfsAssumption DEF Files, Nodes, NewVfs, Ids, Root
  <2>2. CoveredIn(NewVfs)
      BY <2>1, SumEmpty, VfsAssumption DEF CoveredIn
  <2> QED
      BY <2>2 DEF VfsInit
<1>2. VfsInv /\ CoveredIn(fs) /\ [VfsNext]_fs => CoveredIn(fs)'
    BY CoveredStep DEF VfsInv
<1>3. CoveredIn(fs) => BytesCovered
    BY DEF CoveredIn, BytesCovered, FileBytes, Files
<1> QED
    BY <1>1, <1>2, <1>3, VfsInvariant, PTL DEF VfsSpec

-----------------------------------------------------------------------------
(* The shape of the tree: parent chains and walks down. *)

(* The chain of a node is the least set that holds it and its parents. *)
LEMMA AncestorsLeast ==
    ASSUME NEW f, GoodArena(f), NEW i \in Nodes(f)
    PROVE  /\ i \in Ancestors(f, i) /\ Ancestors(f, i) \subseteq Nodes(f)
           /\ ParentClosed(f, Ancestors(f, i))
           /\ \A S \in SUBSET Nodes(f) : i \in S /\ ParentClosed(f, S) => Ancestors(f, i) \subseteq S
<1>1. ParentClosed(f, Nodes(f))
    BY DEF GoodArena, TypeIn, ParentClosed
<1>2. Ancestors(f, i) \subseteq Nodes(f) /\ i \in Ancestors(f, i)
    BY DEF Ancestors
<1>3. ASSUME NEW S \in SUBSET Nodes(f), i \in S, ParentClosed(f, S)
      PROVE  Ancestors(f, i) \subseteq S
    BY <1>3 DEF Ancestors
<1>4. ParentClosed(f, Ancestors(f, i))
  <2> SUFFICES ASSUME NEW j \in Ancestors(f, i), f.parent[j] # None
               PROVE  f.parent[j] \in Ancestors(f, i)
      BY DEF ParentClosed
  <2>1. f.parent[j] \in Nodes(f)
      BY <1>1, <1>2 DEF ParentClosed
  <2>2. \A S \in SUBSET Nodes(f) : i \in S /\ ParentClosed(f, S) => f.parent[j] \in S
      BY <1>3 DEF ParentClosed
  <2> QED
      BY <2>1, <2>2 DEF Ancestors
<1> QED
    BY <1>2, <1>3, <1>4

(* What is below a node is the least set that holds it and its children.     *)
LEMMA BelowLeast ==
    ASSUME NEW f, GoodArena(f), NEW i \in Nodes(f)
    PROVE  /\ i \in Below(f, i) /\ Below(f, i) \subseteq Nodes(f)
           /\ ChildClosed(f, Below(f, i))
           /\ \A S \in SUBSET Nodes(f) : i \in S /\ ChildClosed(f, S) => Below(f, i) \subseteq S
<1>1. ChildClosed(f, Nodes(f))
    BY DEF GoodArena, LinksIn, ChildClosed, Nodes
<1>2. Below(f, i) \subseteq Nodes(f) /\ i \in Below(f, i)
    BY DEF Below
<1>3. ASSUME NEW S \in SUBSET Nodes(f), i \in S, ChildClosed(f, S)
      PROVE  Below(f, i) \subseteq S
    BY <1>3 DEF Below
<1>4. ChildClosed(f, Below(f, i))
  <2> SUFFICES ASSUME NEW j \in Below(f, i), NEW n \in Names, f.children[j][n] # None
               PROVE  f.children[j][n] \in Below(f, i)
      BY DEF ChildClosed
  <2>1. f.children[j][n] \in Nodes(f)
      BY <1>1, <1>2 DEF ChildClosed
  <2>2. \A S \in SUBSET Nodes(f) : i \in S /\ ChildClosed(f, S) => f.children[j][n] \in S
      BY <1>3 DEF ChildClosed
  <2> QED
      BY <2>1, <2>2 DEF Below
<1> QED
    BY <1>2, <1>3, <1>4

(* Chains contain the chains of their members. *)
LEMMA AncestorsTransitive ==
    ASSUME NEW f, GoodArena(f), NEW i \in Nodes(f), NEW j \in Ancestors(f, i)
    PROVE  Ancestors(f, j) \subseteq Ancestors(f, i)
BY AncestorsLeast

(* The chain of a child is the child and the chain of its parent. *)
LEMMA AncestorsOfChild ==
    ASSUME NEW f, GoodArena(f), NEW i \in Nodes(f), f.parent[i] \in Nodes(f)
    PROVE  Ancestors(f, i) = {i} \cup Ancestors(f, f.parent[i])
<1> DEFINE p == f.parent[i]
           S == {i} \cup Ancestors(f, p)
<1>1. p # None
    BY VfsAssumption DEF Nodes
<1>2. Ancestors(f, p) \subseteq Ancestors(f, i) /\ i \in Ancestors(f, i)
    BY <1>1, AncestorsLeast DEF ParentClosed
<1>3. S \in SUBSET Nodes(f) /\ i \in S /\ ParentClosed(f, S)
    BY AncestorsLeast DEF ParentClosed
<1>4. Ancestors(f, i) \subseteq S
  <2> HIDE DEF S
  <2> QED
      BY <1>3, AncestorsLeast
<1> QED
    BY <1>2, <1>4

(* The root has no ancestor but itself. *)
LEMMA AncestorsOfRoot ==
    ASSUME NEW f, GoodArena(f)
    PROVE  Root \in Nodes(f) /\ Ancestors(f, Root) = {Root}
<1>1. Root \in Nodes(f)
    BY VfsAssumption DEF GoodArena, TypeIn, Nodes, Ids, Root, Arenas
<1>2. ParentClosed(f, {Root})
    BY DEF ParentClosed, GoodArena, TypeIn
<1> QED
    BY <1>1, <1>2, AncestorsLeast

(* Two nodes on each other's chain are one node. *)
LEMMA AncestorsAntisymmetric ==
    ASSUME NEW f, GoodArena(f), NEW a \in Nodes(f), NEW b \in Ancestors(f, a), a \in Ancestors(f, b)
    PROVE  a = b
<1> SUFFICES ASSUME a # b PROVE FALSE
    OBVIOUS
<1> DEFINE S == {y \in Ancestors(f, a) : a \in Ancestors(f, y)}
<1>1. Ancestors(f, a) \subseteq Nodes(f) /\ a \in Ancestors(f, a) /\ b \in Nodes(f)
    BY AncestorsLeast
<1>2. Root \notin S
  <2>1. a \in Ancestors(f, Root) => a = Root
      BY AncestorsOfRoot
  <2>2. a = Root => b = Root
      BY AncestorsOfRoot
  <2> QED
      BY <2>1, <2>2
<1>3. ASSUME NEW y \in S PROVE f.parent[y] \in S
  <2>1. y \in Nodes(f) \ {Root} /\ f.parent[y] \in Nodes(f)
      BY <1>1, <1>2 DEF GoodArena, TypeIn
  <2>2. Ancestors(f, y) = {y} \cup Ancestors(f, f.parent[y]) /\ f.parent[y] # None
      BY <2>1, AncestorsOfChild, VfsAssumption DEF Nodes
  <2>3. f.parent[y] \in Ancestors(f, a)
      BY <2>2, AncestorsLeast DEF ParentClosed
  <2>4. a \in Ancestors(f, f.parent[y])
    <3>1. CASE y # a
        BY <2>2, <3>1
    <3>2. CASE y = a
      <4>1. b \in Ancestors(f, f.parent[a])
          BY <2>2, <3>2
      <4>2. Ancestors(f, b) \subseteq Ancestors(f, f.parent[a])
          BY <2>1, <3>2, <4>1, AncestorsTransitive
      <4> QED
          BY <3>2, <4>2
    <3> QED
        BY <3>1, <3>2
  <2> QED
      BY <2>3, <2>4
<1>4. S \in SUBSET (Nodes(f) \ {Root}) /\ S # {}
    BY <1>1, <1>2
<1> HIDE DEF S
<1> QED
    BY <1>3, <1>4 DEF GoodArena, AcyclicIn

(* A listed child has its directory for parent. *)
LEMMA ChildParent ==
    ASSUME NEW f, GoodArena(f), NEW y \in Nodes(f), NEW n \in Names, f.children[y][n] # None
    PROVE  f.children[y][n] \in Nodes(f) /\ f.parent[f.children[y][n]] = y
BY DEF GoodArena, LinksIn, Nodes

(* A walk down from x meets only nodes whose chain holds x. *)
LEMMA BelowHasAncestor ==
    ASSUME NEW f, GoodArena(f), NEW x \in Nodes(f), NEW y \in Below(f, x)
    PROVE  x \in Ancestors(f, y)
<1> DEFINE S == {z \in Nodes(f) : x \in Ancestors(f, z)}
<1>1. x \in S
    BY AncestorsLeast
<1>2. ChildClosed(f, S)
  <2> SUFFICES ASSUME NEW z \in S, NEW n \in Names, f.children[z][n] # None
               PROVE  f.children[z][n] \in S
      BY DEF ChildClosed
  <2>1. f.children[z][n] \in Nodes(f) /\ f.parent[f.children[z][n]] = z
      BY ChildParent
  <2> QED
      BY <2>1, AncestorsOfChild
<1>3. S \in SUBSET Nodes(f)
    OBVIOUS
<1> HIDE DEF S
<1>4. y \in S
    BY <1>1, <1>2, <1>3, BelowLeast
<1> QED
    BY <1>4 DEF S

(* A walk down from x gets to a node, but for x, through the node's parent.  *)
LEMMA BelowParent ==
    ASSUME NEW f, GoodArena(f), NEW x \in Nodes(f), NEW y \in Below(f, x), y # x
    PROVE  f.parent[y] \in Below(f, x)
<1> DEFINE B == Below(f, x)
           S == {z \in B : z = x \/ f.parent[z] \in B}
<1>1. x \in B /\ B \subseteq Nodes(f) /\ ChildClosed(f, B)
    BY BelowLeast
<1>2. ChildClosed(f, S)
  <2> SUFFICES ASSUME NEW z \in S, NEW n \in Names, f.children[z][n] # None
               PROVE  f.children[z][n] \in S
      BY DEF ChildClosed
  <2>1. f.parent[f.children[z][n]] = z
      BY <1>1, ChildParent
  <2>2. f.children[z][n] \in B
      BY <1>1 DEF ChildClosed
  <2> QED
      BY <2>1, <2>2
<1>3. S \in SUBSET Nodes(f) /\ x \in S
    BY <1>1
<1> HIDE DEF S
<1>4. y \in S
    BY <1>2, <1>3, BelowLeast
<1> QED
    BY <1>4 DEF S

(* Above a node and below x: nothing but x for x itself. *)
LEMMA ChainOfTop ==
    ASSUME NEW f, GoodArena(f), NEW x \in Nodes(f)
    PROVE  Ancestors(f, x) \cap Below(f, x) = {x}
<1>1. x \in Ancestors(f, x) /\ x \in Below(f, x)
    BY AncestorsLeast, BelowLeast
<1>2. ASSUME NEW a \in Ancestors(f, x), a \in Below(f, x) PROVE a = x
    BY <1>2, BelowHasAncestor, AncestorsAntisymmetric
<1> QED
    BY <1>1, <1>2

(* A walk from x down to y leads, after a node i of y's chain, on below i.   *)
LEMMA BelowBetween ==
    ASSUME NEW f, GoodArena(f), NEW x \in Nodes(f), NEW y \in Below(f, x),
           NEW i \in Ancestors(f, y), i \in Below(f, x)
    PROVE  y \in Below(f, i)
<1> DEFINE B == Below(f, x)
           S == {z \in B : i \in Ancestors(f, z) => z \in Below(f, i)}
<1>1. x \in B /\ B \subseteq Nodes(f) /\ ChildClosed(f, B) /\ i \in Nodes(f)
    BY BelowLeast
<1>2. x \in S
  <2>1. i \in Ancestors(f, x) => i = x
      BY ChainOfTop
  <2> QED
      BY <1>1, <2>1, BelowLeast
<1>3. ChildClosed(f, S)
  <2> SUFFICES ASSUME NEW z \in S, NEW n \in Names, f.children[z][n] # None,
                      i \in Ancestors(f, f.children[z][n])
               PROVE  f.children[z][n] \in Below(f, i)
      BY <1>1 DEF ChildClosed
  <2> DEFINE c == f.children[z][n]
  <2>1. c \in Nodes(f) /\ f.parent[c] = z /\ z \in Nodes(f)
      BY <1>1, ChildParent
  <2>2. i = c \/ i \in Ancestors(f, z)
      BY <2>1, AncestorsOfChild
  <2> QED
      BY <1>1, <2>2, BelowLeast DEF ChildClosed
<1>4. S \in SUBSET Nodes(f)
    BY <1>1
<1> HIDE DEF S
<1>5. y \in S
    BY <1>2, <1>3, <1>4, BelowLeast
<1> QED
    BY <1>5 DEF S

-----------------------------------------------------------------------------
(* The depth cap.  What a walk down from x holds on its stack when it is at  *)
(* j is the part of j's chain that is below x.                               *)
Chain(f, x, j) == Ancestors(f, j) \cap Below(f, x)

ShallowIn(f) == \A x \in Nodes(f) : \A j \in Below(f, x) : Cardinality(Chain(f, x, j)) <= MaxDepth + 1

(* Chains and what is below a node are finite. *)
LEMMA ChainsFinite ==
    ASSUME NEW f, GoodArena(f), NEW S, S \subseteq Nodes(f)
    PROVE  IsFiniteSet(S) /\ Cardinality(S) \in Nat
BY FilesAddUp, FS_Subset, FS_CardinalityType

(* height_of is the length of the longest chain. *)
LEMMA HeightIsLongest ==
    ASSUME NEW f, GoodArena(f), NEW x \in Nodes(f)
    PROVE  /\ HeightOf(f, x) \in Nat
           /\ \A j \in Below(f, x) : Cardinality(Chain(f, x, j)) - 1 <= HeightOf(f, x)
           /\ \E j \in Below(f, x) : HeightOf(f, x) = Cardinality(Chain(f, x, j)) - 1
<1> DEFINE H == {Cardinality(Chain(f, x, j)) - 1 : j \in Below(f, x)}
           N == Cardinality(Nodes(f))
<1>1. ASSUME NEW j \in Below(f, x)
      PROVE  Cardinality(Chain(f, x, j)) - 1 \in 0 .. N
  <2>1. Chain(f, x, j) \subseteq Nodes(f) /\ x \in Chain(f, x, j)
      BY BelowLeast, BelowHasAncestor DEF Chain
  <2>2. /\ IsFiniteSet(Chain(f, x, j)) /\ Cardinality(Chain(f, x, j)) \in Nat
        /\ N \in Nat /\ IsFiniteSet(Nodes(f))
      BY <2>1, ChainsFinite
  <2>3. Cardinality(Chain(f, x, j)) <= N /\ Cardinality(Chain(f, x, j)) # 0
      BY <2>1, <2>2, FS_Subset, FS_EmptySet
  <2> QED
      BY <2>2, <2>3
<1>2. H \subseteq 0 .. N /\ N \in Nat
    BY <1>1, ChainsFinite
<1>3. H # {}
    BY BelowLeast
<1>4. HeightOf(f, x) = Max(H)
    BY DEF HeightOf, Chain
<1> HIDE DEF N
<1>5. IsFiniteSet(H) /\ H \subseteq Nat
  <2> HIDE DEF H
  <2>1. IsFiniteSet(0 .. N)
      BY <1>2, FS_Interval
  <2>2. H \in SUBSET (0 .. N)
      BY <1>2
  <2>3. IsFiniteSet(H)
      BY <2>1, <2>2, FS_Subset
  <2> QED
      BY <1>2, <2>3
<1>6. HeightOf(f, x) \in H /\ \A h \in H : HeightOf(f, x) >= h
  <2> HIDE DEF H
  <2>1. \E m \in H : \A h \in H : m >= h
      BY <1>3, <1>5, GreatestExists
  <2> QED
      BY <1>4, <2>1 DEF Max
<1>7. HeightOf(f, x) \in Nat
    BY <1>5, <1>6
<1>8. \A j \in Below(f, x) : Cardinality(Chain(f, x, j)) - 1 <= HeightOf(f, x)
    BY <1>1, <1>2, <1>6, <1>7
<1>9. \E j \in Below(f, x) : HeightOf(f, x) = Cardinality(Chain(f, x, j)) - 1
    BY <1>6
<1> QED
    BY <1>7, <1>8, <1>9

(* Every chain short is every height bounded. *)
LEMMA ShallowIsBounded ==
    ASSUME NEW f, GoodArena(f), ShallowIn(f)
    PROVE  \A x \in Nodes(f) : HeightOf(f, x) <= MaxDepth
<1> TAKE x \in Nodes(f)
<1>1. PICK j \in Below(f, x) : HeightOf(f, x) = Cardinality(Chain(f, x, j)) - 1
    BY HeightIsLongest
<1>2. Cardinality(Chain(f, x, j)) \in Nat
    BY BelowLeast, ChainsFinite DEF Chain
<1>3. Cardinality(Chain(f, x, j)) <= MaxDepth + 1
    BY DEF ShallowIn
<1> QED
    BY <1>1, <1>2, <1>3, VfsAssumption

(* A walk that sees no more than one in a shallow arena. *)
LEMMA ChainShrinks ==
    ASSUME NEW f, GoodArena(f), ShallowIn(f), NEW x \in Nodes(f), NEW j \in Below(f, x),
           NEW C, C \subseteq Chain(f, x, j)
    PROVE  Cardinality(C) <= MaxDepth + 1
<1>1. Chain(f, x, j) \subseteq Nodes(f)
    BY BelowLeast DEF Chain
<1>2. /\ IsFiniteSet(Chain(f, x, j)) /\ Cardinality(Chain(f, x, j)) \in Nat
      /\ Cardinality(C) \in Nat
    BY <1>1, ChainsFinite
<1>3. Cardinality(C) <= Cardinality(Chain(f, x, j))
    BY <1>2, FS_Subset
<1>4. Cardinality(Chain(f, x, j)) <= MaxDepth + 1
    BY DEF ShallowIn
<1> QED
    BY <1>2, <1>3, <1>4, VfsAssumption

(* A step that lists nothing new, and moves nothing, makes no walk longer.   *)
LEMMA ShallowSame ==
    ASSUME NEW f, GoodArena(f), ShallowIn(f), NEW g, GoodArena(g), Nodes(g) = Nodes(f),
           \A j \in Nodes(f) : g.parent[j] = f.parent[j],
           \A j \in Nodes(f), m \in Names :
              g.children[j][m] # None => g.children[j][m] = f.children[j][m]
    PROVE  ShallowIn(g)
<1> SUFFICES ASSUME NEW x \in Nodes(g), NEW j \in Below(g, x)
             PROVE  Cardinality(Chain(g, x, j)) <= MaxDepth + 1
    BY DEF ShallowIn
<1>1. x \in Below(f, x) /\ Below(f, x) \subseteq Nodes(f) /\ ChildClosed(f, Below(f, x))
    BY BelowLeast
<1>2. ChildClosed(g, Below(f, x))
    BY <1>1 DEF ChildClosed
<1>3. Below(g, x) \subseteq Below(f, x)
    BY <1>1, <1>2, BelowLeast
<1>4. j \in Nodes(f)
    BY <1>1, <1>3
<1>5. j \in Ancestors(f, j) /\ Ancestors(f, j) \subseteq Nodes(f) /\ ParentClosed(f, Ancestors(f, j))
    BY <1>4, AncestorsLeast
<1>6. ParentClosed(g, Ancestors(f, j))
    BY <1>5 DEF ParentClosed
<1>7. Ancestors(g, j) \subseteq Ancestors(f, j)
    BY <1>4, <1>5, <1>6, AncestorsLeast
<1> QED
    BY <1>3, <1>7, ChainShrinks DEF Chain

(* A new leaf is within the cap, because its parent's depth was below it.    *)
LEMMA InsertShallow ==
    ASSUME NEW f, GoodArena(f), ShallowIn(f), NEW p \in Nodes(f), NEW n \in Names,
           NEW k \in {"dir", "file", "link", "dynamic"}, NEW l \in Nat, Child(f, p, n) = None
    PROVE  ShallowIn(Insert(f, p, n, k, l).arena)
<1> DEFINE g == Insert(f, p, n, k, l).arena
           c == f.count
<1>1. CASE IsFull(f, p)
    BY <1>1 DEF Insert
<1>2. CASE ~IsFull(f, p)
  <2>1. /\ c \notin Nodes(f) /\ Nodes(g) = Nodes(f) \cup {c} /\ g.parent[c] = p /\ c # None
        /\ (\A j \in Nodes(f) : g.parent[j] = f.parent[j]) /\ g.children[c] = Empty
        /\ \A j \in Ids, m \in Names :
             g.children[j][m] # f.children[j][m] => j = p /\ g.children[j][m] = c
      BY <1>2, InsertFacts
  <2>2. GoodArena(g)
      BY InsertGood
  <2>3. ~(DepthOf(f, p) >= MaxDepth)
      BY <1>2 DEF IsFull
  <2> HIDE DEF g, c
  <2>4. ASSUME NEW j \in Nodes(f) PROVE Ancestors(g, j) \subseteq Ancestors(f, j)
    <3>1. j \in Ancestors(f, j) /\ Ancestors(f, j) \subseteq Nodes(f) /\ ParentClosed(f, Ancestors(f, j))
        BY AncestorsLeast
    <3>2. ParentClosed(g, Ancestors(f, j))
        BY <2>1, <3>1 DEF ParentClosed
    <3> QED
        BY <2>1, <2>2, <3>1, <3>2, AncestorsLeast
  <2>5. ASSUME NEW x \in Nodes(g) PROVE Cardinality(Chain(g, x, c)) <= MaxDepth + 1
    <3>1. Ancestors(g, c) \subseteq {c} \cup Ancestors(f, p)
        BY <2>1, <2>2, <2>4, AncestorsOfChild
    <3>2. /\ IsFiniteSet(Ancestors(f, p)) /\ Cardinality(Ancestors(f, p)) \in Nat
          /\ Ancestors(f, p) \subseteq Nodes(f)
        BY AncestorsLeast, ChainsFinite
    <3>3. /\ IsFiniteSet(Ancestors(f, p) \cup {c})
          /\ Cardinality(Ancestors(f, p) \cup {c}) = Cardinality(Ancestors(f, p)) + 1
        BY <2>1, <3>2, FS_AddElement
    <3>4. Chain(g, x, c) \in SUBSET (Ancestors(f, p) \cup {c})
        BY <3>1 DEF Chain
    <3>5. IsFiniteSet(Chain(g, x, c)) /\ Cardinality(Chain(g, x, c)) <= Cardinality(Ancestors(f, p) \cup {c})
        BY <3>3, <3>4, FS_Subset
    <3>6. Cardinality(Chain(g, x, c)) \in Nat
        BY <3>5, FS_CardinalityType
    <3>7. Cardinality(Ancestors(f, p)) - 1 < MaxDepth
        BY <2>3, <3>2, VfsAssumption DEF DepthOf
    <3> QED
        BY <3>2, <3>3, <3>5, <3>6, <3>7, VfsAssumption
  <2>6. ASSUME NEW x \in Nodes(f), NEW j \in Below(g, x), j # c
        PROVE  Cardinality(Chain(g, x, j)) <= MaxDepth + 1
    <3> DEFINE S == Below(f, x) \cup {c}
    <3>1. x \in Below(f, x) /\ Below(f, x) \subseteq Nodes(f) /\ ChildClosed(f, Below(f, x))
        BY BelowLeast
    <3>2. ChildClosed(g, S)
      <4> SUFFICES ASSUME NEW y \in S, NEW m \in Names, g.children[y][m] # None
                   PROVE  g.children[y][m] \in S
          BY DEF ChildClosed
      <4>1. y # c
          BY <2>1 DEF Empty
      <4>2. y \in Below(f, x) /\ y \in Ids
          BY <3>1, <4>1 DEF Nodes
      <4> QED
          BY <2>1, <3>1, <4>2 DEF ChildClosed
    <3>3. Below(g, x) \subseteq S
      <4>1. S \in SUBSET Nodes(g) /\ x \in S /\ x \in Nodes(g)
          BY <2>1, <3>1
      <4> HIDE DEF S
      <4> QED
          BY <2>2, <3>2, <4>1, BelowLeast
    <3>4. j \in Below(f, x) /\ j \in Nodes(f)
        BY <2>6, <3>1, <3>3
    <3>5. Ancestors(g, j) \subseteq Ancestors(f, j) /\ c \notin Ancestors(f, j)
        BY <2>1, <2>4, <3>4, AncestorsLeast
    <3>6. Chain(g, x, j) \subseteq Chain(f, x, j)
        BY <3>3, <3>5 DEF Chain
    <3> QED
        BY <3>4, <3>6, ChainShrinks
  <2>7. ASSUME NEW j \in Below(g, c) PROVE j = c
    <3>1. ChildClosed(g, {c}) /\ c \in Nodes(g)
        BY <2>1 DEF ChildClosed, Empty
    <3> QED
        BY <2>2, <3>1, BelowLeast
  <2>8. ASSUME NEW x \in Nodes(g), NEW j \in Below(g, x)
        PROVE  Cardinality(Chain(g, x, j)) <= MaxDepth + 1
    <3>1. CASE j = c
        BY <2>5, <3>1
    <3>2. CASE j # c
        BY <2>1, <2>6, <2>7, <3>2
    <3> QED
        BY <3>1, <3>2
  <2>9. ShallowIn(g)
      BY <2>8 DEF ShallowIn
  <2> QED
      BY <2>9 DEF g
<1> QED
    BY <1>1, <1>2

(* What a move changes. *)
LEMMA MovedFacts ==
    ASSUME NEW f, GoodArena(f), NEW i \in Nodes(f), NEW np \in Nodes(f), NEW n \in Names,
           Listed(f, i), f.kind[np] = "dir", ~IsAncestorOf(f, i, np)
    PROVE  LET g == Moved(f, i, np, n)
           IN  /\ GoodArena(g) /\ Nodes(g) = Nodes(f) /\ g.parent[i] = np /\ g.name[i] = n
               /\ g.children[np][n] = i /\ i \notin Ancestors(f, np)
               /\ \A j \in Nodes(f) \ {i} : g.parent[j] = f.parent[j] /\ g.name[j] = f.name[j]
               /\ \A j \in Nodes(f), m \in Names :
                    /\ g.children[j][m] # i => g.children[j][m] \in {None, f.children[j][m]}
                    /\ f.children[j][m] # i /\ <<j, m>> # <<np, n>>
                          => g.children[j][m] = f.children[j][m]
<1> DEFINE g == Moved(f, i, np, n)
           op == f.parent[i]
           on == f.name[i]
           ch == [f.children EXCEPT ![op] = [f.children[op] EXCEPT ![on] = None]]
<1>0. GoodArena(g) /\ i \notin Ancestors(f, np)
    BY RenameGood DEF IsAncestorOf
<1>1. i # Root /\ op \in Nodes(f) /\ on \in Names /\ f.kind[op] = "dir"
  <2>1. i # Root
      BY VfsAssumption DEF IsAncestorOf
  <2>2. op \in Nodes(f) /\ on \in Names
      BY <2>1 DEF GoodArena, TypeIn
  <2>3. f.kind[op] = "dir"
      BY <2>2, VfsAssumption DEF Listed, GoodArena, LinksIn, Nodes
  <2> QED
      BY <2>1, <2>2, <2>3
<1>2. /\ g.count = f.count
      /\ g.parent = [f.parent EXCEPT ![i] = np] /\ g.name = [f.name EXCEPT ![i] = n]
      /\ g.children = [ch EXCEPT ![np] = [ch[np] EXCEPT ![n] = i]]
    BY <1>1 DEF Moved, Detached, GoodArena, TypeIn, Arenas, Nodes
<1>3. /\ f.parent \in [Ids -> Ids \cup {None}] /\ f.name \in [Ids -> Names \cup {NoName}]
      /\ f.children \in [Ids -> [Names -> Ids \cup {None}]] /\ Nodes(f) \subseteq Ids
      /\ f.children[op][on] = i
    BY DEF GoodArena, TypeIn, Arenas, Nodes, Listed
<1> HIDE DEF g, op, on
<1>4. Nodes(g) = Nodes(f)
    BY <1>2 DEF Nodes
<1>5. /\ ch \in [Ids -> [Names -> Ids \cup {None}]]
      /\ \A j \in Nodes(f), m \in Names :
           ch[j][m] = IF j = op /\ m = on THEN None ELSE f.children[j][m]
    BY <1>1, <1>3
<1> HIDE DEF ch
<1>6. \A j \in Nodes(f), m \in Names :
        g.children[j][m] = IF j = np /\ m = n THEN i ELSE ch[j][m]
    BY <1>2, <1>3, <1>5
<1>7. /\ g.parent[i] = np /\ g.name[i] = n
      /\ \A j \in Nodes(f) \ {i} : g.parent[j] = f.parent[j] /\ g.name[j] = f.name[j]
    BY <1>2, <1>3
<1>8. \A j \in Nodes(f), m \in Names :
        /\ g.children[j][m] # i => g.children[j][m] \in {None, f.children[j][m]}
        /\ f.children[j][m] # i /\ <<j, m>> # <<np, n>> => g.children[j][m] = f.children[j][m]
    BY <1>3, <1>5, <1>6
<1> QED
    BY <1>0, <1>4, <1>6, <1>7, <1>8 DEF g

(* The move: a walk that does not come through i was as long before; one     *)
(* that does holds part of the new parent's chain and part of a walk from i. *)
LEMMA MovedShallow ==
    ASSUME NEW f, GoodArena(f), ShallowIn(f), NEW i \in Nodes(f), NEW np \in Nodes(f),
           NEW n \in Names, Listed(f, i), MayMove(f, i, np)
    PROVE  ShallowIn(Moved(f, i, np, n))
<1> DEFINE g == Moved(f, i, np, n)
<1>1. /\ GoodArena(g) /\ Nodes(g) = Nodes(f) /\ g.parent[i] = np /\ i \notin Ancestors(f, np)
      /\ \A j \in Nodes(f) \ {i} : g.parent[j] = f.parent[j]
      /\ \A j \in Nodes(f), m \in Names :
           g.children[j][m] # i => g.children[j][m] \in {None, f.children[j][m]}
    BY MovedFacts DEF MayMove
<1>2. DepthOf(f, np) + 1 + HeightOf(f, i) <= MaxDepth
    BY DEF MayMove
<1> HIDE DEF g
<1> SUFFICES ASSUME NEW x \in Nodes(g), NEW j \in Below(g, x)
             PROVE  Cardinality(Chain(g, x, j)) <= MaxDepth + 1
    BY DEF ShallowIn, g
<1>3. CASE i \in Chain(g, x, j)
  <2>1. i \in Ancestors(g, j) /\ i \in Below(g, x)
      BY <1>3 DEF Chain
  <2>2. j \in Below(g, i)
      BY <1>1, <2>1, BelowBetween
  <2>3. i \in Below(f, i) /\ Below(f, i) \subseteq Nodes(f) /\ ChildClosed(f, Below(f, i))
      BY BelowLeast
  <2>4. np \notin Below(f, i)
      BY <1>1, BelowHasAncestor
  <2>5. ChildClosed(g, Below(f, i))
    <3> SUFFICES ASSUME NEW y \in Below(f, i), NEW m \in Names, g.children[y][m] # None
                 PROVE  g.children[y][m] \in Below(f, i)
        BY DEF ChildClosed
    <3>1. CASE g.children[y][m] = i
        BY <2>3, <3>1
    <3>2. CASE g.children[y][m] # i
        BY <1>1, <2>3, <3>2 DEF ChildClosed
    <3> QED
        BY <3>1, <3>2
  <2>6. j \in Below(f, i)
      BY <1>1, <2>2, <2>3, <2>5, BelowLeast
  <2> DEFINE U == Chain(f, i, j) \cup Ancestors(f, np)
  <2>7. U \subseteq Nodes(f) /\ j \in U
    <3>1. j \in Nodes(f) /\ Chain(f, i, j) \subseteq Nodes(f) /\ j \in Ancestors(f, j)
        BY <2>3, <2>6, AncestorsLeast DEF Chain
    <3> QED
        BY <2>6, <3>1, AncestorsLeast DEF Chain
  <2>8. ParentClosed(g, U)
    <3> SUFFICES ASSUME NEW y \in U, g.parent[y] # None
                 PROVE  g.parent[y] \in U
        BY DEF ParentClosed
    <3>1. CASE y \in Ancestors(f, np)
      <4>1. y # i /\ y \in Nodes(f) /\ ParentClosed(f, Ancestors(f, np))
          BY <1>1, <3>1, AncestorsLeast
      <4> QED
          BY <1>1, <3>1, <4>1 DEF ParentClosed
    <3>2. CASE y = i
        BY <1>1, <3>2, AncestorsLeast
    <3>3. CASE y \in Chain(f, i, j) /\ y # i
      <4>1. y \in Ancestors(f, j) /\ y \in Below(f, i) /\ y \in Nodes(f) /\ j \in Nodes(f)
          BY <2>3, <2>6, <3>3 DEF Chain
      <4>2. f.parent[y] \in Below(f, i)
          BY <3>3, <4>1, BelowParent
      <4>3. g.parent[y] = f.parent[y] /\ ParentClosed(f, Ancestors(f, j))
          BY <1>1, <3>3, <4>1, AncestorsLeast
      <4> QED
          BY <4>1, <4>2, <4>3 DEF Chain, ParentClosed
    <3> QED
        BY <3>1, <3>2, <3>3
  <2>9. Ancestors(g, j) \subseteq U
    <3> HIDE DEF U
    <3> QED
        BY <1>1, <2>7, <2>8, AncestorsLeast
  <2>10. /\ IsFiniteSet(Chain(f, i, j)) /\ Cardinality(Chain(f, i, j)) \in Nat
         /\ IsFiniteSet(Ancestors(f, np)) /\ Cardinality(Ancestors(f, np)) \in Nat
    <3>1. Chain(f, i, j) \subseteq Nodes(f) /\ Ancestors(f, np) \subseteq Nodes(f)
        BY <2>7
    <3> QED
        BY <3>1, ChainsFinite
  <2>11. /\ IsFiniteSet(U)
         /\ Cardinality(U) <= Cardinality(Chain(f, i, j)) + Cardinality(Ancestors(f, np))
    <3> DEFINE both == Chain(f, i, j) \cap Ancestors(f, np)
    <3>1. IsFiniteSet(U) /\ Cardinality(U) = Cardinality(Chain(f, i, j))
                             + Cardinality(Ancestors(f, np)) - Cardinality(both)
        BY <2>10, FS_Union
    <3>2. IsFiniteSet(both)
        BY <2>10, FS_Intersection
    <3>3. Cardinality(both) \in Nat
        BY <3>2, FS_CardinalityType
    <3> HIDE DEF both, U
    <3> QED
        BY <2>10, <3>1, <3>3
  <2>12. Chain(g, x, j) \in SUBSET U
      BY <2>9 DEF Chain
  <2> HIDE DEF U
  <2>13. /\ Cardinality(Chain(g, x, j)) <= Cardinality(U)
         /\ Cardinality(Chain(g, x, j)) \in Nat /\ Cardinality(U) \in Nat
      BY <2>11, <2>12, FS_Subset, FS_CardinalityType
  <2>14. /\ Cardinality(Chain(f, i, j)) - 1 <= HeightOf(f, i) /\ HeightOf(f, i) \in Nat
         /\ DepthOf(f, np) = Cardinality(Ancestors(f, np)) - 1
      BY <2>6, HeightIsLongest DEF DepthOf
  <2>15. Cardinality(Chain(f, i, j)) + Cardinality(Ancestors(f, np)) <= MaxDepth + 1
      BY <1>2, <2>10, <2>14, VfsAssumption
  <2> QED
      BY <2>10, <2>11, <2>13, <2>15, VfsAssumption
<1>4. CASE i \notin Chain(g, x, j)
  <2> DEFINE T == {y \in Below(g, x) : \/ i \in Chain(g, x, y)
                                       \/ y \in Below(f, x) /\ Chain(g, x, y) \subseteq Chain(f, x, y)}
  <2>1. /\ x \in Below(g, x) /\ Below(g, x) \subseteq Nodes(f) /\ ChildClosed(g, Below(g, x))
        /\ x \in Below(f, x) /\ Below(f, x) \subseteq Nodes(f) /\ ChildClosed(f, Below(f, x))
      BY <1>1, BelowLeast
  <2>2. x \in T
      BY <1>1, <2>1, ChainOfTop DEF Chain
  <2>3. ChildClosed(g, T)
    <3> SUFFICES ASSUME NEW y \in T, NEW m \in Names, g.children[y][m] # None
                 PROVE  g.children[y][m] \in T
        BY DEF ChildClosed
    <3> DEFINE z == g.children[y][m]
    <3>1. z \in Below(g, x) /\ z \in Nodes(f) /\ y \in Nodes(f) /\ g.parent[z] = y
      <4>1. z \in Below(g, x)
          BY <2>1 DEF ChildClosed
      <4> QED
          BY <1>1, <2>1, <4>1, ChildParent
    <3>2. Ancestors(g, z) = {z} \cup Ancestors(g, y)
        BY <1>1, <3>1, AncestorsOfChild
    <3>3. CASE i \in Chain(g, x, y) \/ z = i
        BY <3>1, <3>2, <3>3 DEF Chain
    <3>4. CASE ~(i \in Chain(g, x, y) \/ z = i)
      <4>1. y \in Below(f, x) /\ Chain(g, x, y) \subseteq Chain(f, x, y)
          BY <3>4
      <4>2. f.children[y][m] = z
          BY <1>1, <3>1, <3>4
      <4>3. z \in Below(f, x) /\ f.parent[z] = y
          BY <2>1, <3>1, <4>1, <4>2, ChildParent DEF ChildClosed
      <4>4. Ancestors(f, z) = {z} \cup Ancestors(f, y)
          BY <3>1, <4>3, AncestorsOfChild
      <4> HIDE DEF z
      <4>5. Chain(g, x, z) \subseteq Chain(f, x, z)
          BY <3>2, <4>1, <4>3, <4>4 DEF Chain
      <4> QED
          BY <3>1, <4>3, <4>5 DEF z
    <3> QED
        BY <3>3, <3>4
  <2>4. T \in SUBSET Nodes(g)
      BY <1>1, <2>1
  <2>5. j \in T
    <3> HIDE DEF T
    <3> QED
        BY <1>1, <2>2, <2>3, <2>4, BelowLeast
  <2>6. j \in Below(f, x) /\ Chain(g, x, j) \subseteq Chain(f, x, j)
      BY <1>4, <2>5
  <2> QED
      BY <1>1, <2>6, ChainShrinks
<1> QED
    BY <1>3, <1>4

(* add_file puts a leaf where one was, or one more within the cap. *)
LEMMA AddFileShallow ==
    ASSUME NEW f, GoodArena(f), ShallowIn(f), NEW p \in Nodes(f), NEW n \in Names, NEW l \in Nat
    PROVE  ShallowIn(AddFile(f, p, n, l).arena)
<1> DEFINE e  == Child(f, p, n)
           b  == f.bytes - OldLen(f, e) + l
           cr == Insert(f, p, n, "file", l)
           g  == AddFile(f, p, n, l).arena
<1>1. GoodArena(g)
    BY AddFileGood
<1>2. CASE b > MaxBytes
    BY <1>2 DEF AddFile
<1>3. CASE ~(b > MaxBytes) /\ e # None
  <2>1. e \in Ids
      BY <1>3, ChildIsNode DEF Nodes
  <2>2. g = [Replace(f, e, "file", l) EXCEPT !.bytes = b]
      BY <1>3 DEF AddFile
  <2>3. /\ g.count = f.count /\ g.parent = f.parent
        /\ g.children = [f.children EXCEPT ![e] = Empty]
      BY <2>2 DEF Replace, GoodArena, TypeIn, Arenas
  <2> HIDE DEF g, e
  <2>4. /\ Nodes(g) = Nodes(f) /\ \A j \in Nodes(f) : g.parent[j] = f.parent[j]
        /\ \A j \in Nodes(f), m \in Names :
             g.children[j][m] # None => g.children[j][m] = f.children[j][m]
      BY <2>1, <2>3 DEF Nodes, Empty, GoodArena, TypeIn, Arenas
  <2>5. ShallowIn(g)
      BY <1>1, <2>4, ShallowSame
  <2> QED
      BY <2>5 DEF g
<1>4. CASE ~(b > MaxBytes) /\ e = None
  <2>1. ShallowIn(cr.arena) /\ GoodArena(cr.arena)
      BY <1>4, InsertShallow, InsertGood
  <2>2. CASE cr.id = p
      BY <1>4, <2>1, <2>2 DEF AddFile
  <2>3. CASE cr.id # p
    <3>1. g = [cr.arena EXCEPT !.bytes = @ + l]
        BY <1>4, <2>3 DEF AddFile
    <3> HIDE DEF cr, g
    <3>2. g.count = cr.arena.count /\ g.parent = cr.arena.parent /\ g.children = cr.arena.children
        BY <2>1, <3>1 DEF GoodArena, TypeIn, Arenas
    <3>3. Nodes(g) = Nodes(cr.arena)
        BY <3>2 DEF Nodes
    <3>4. ShallowIn(g)
        BY <1>1, <2>1, <3>2, <3>3, ShallowSame
    <3> QED
        BY <3>4 DEF g
  <2> QED
      BY <2>2, <2>3
<1> QED
    BY <1>2, <1>3, <1>4

(* No operation makes a walk longer than the cap. *)
LEMMA ShallowStep ==
    ASSUME GoodArena(fs), ShallowIn(fs), [VfsNext]_fs
    PROVE  ShallowIn(fs')
<1>0. GoodArena(fs') /\ fs.children \in [Ids -> [Names -> Ids \cup {None}]] /\ Nodes(fs) \subseteq Ids
    BY VfsStep DEF GoodArena, TypeIn, Arenas, Nodes
<1>1. CASE UNCHANGED fs
    BY <1>1
<1>2. ASSUME NEW p \in Ids, NEW n \in Names, Mkdir(p, n)
      PROVE  ShallowIn(fs')
    BY <1>2, InsertShallow DEF Mkdir, MkdirIn
<1>3. ASSUME NEW p \in Ids, NEW n \in Names, AddSymlink(p, n)
      PROVE  ShallowIn(fs')
    BY <1>3, InsertShallow DEF AddSymlink, AddLink
<1>4. ASSUME NEW p \in Ids, NEW n \in Names, AddDynamicFile(p, n)
      PROVE  ShallowIn(fs')
  <2> DEFINE e == Child(fs, p, n)
  <2>1. CASE e = None
      BY <1>4, <2>1, InsertShallow DEF AddDynamicFile, AddDynamic
  <2>2. CASE e # None
    <3>1. e \in Ids
        BY <1>4, <2>2, ChildIsNode DEF AddDynamicFile, Nodes
    <3>2. /\ fs'.count = fs.count /\ fs'.parent = fs.parent
          /\ fs'.children = [fs.children EXCEPT ![e] = Empty]
        BY <1>4, <2>2 DEF AddDynamicFile, AddDynamic, Replace, GoodArena, TypeIn, Arenas
    <3> HIDE DEF e
    <3>3. /\ Nodes(fs') = Nodes(fs)
          /\ \A j \in Nodes(fs), m \in Names :
               fs'.children[j][m] # None => fs'.children[j][m] = fs.children[j][m]
        BY <1>0, <3>1, <3>2 DEF Nodes, Empty
    <3> QED
        BY <1>0, <3>2, <3>3, ShallowSame
  <2> QED
      BY <2>1, <2>2
<1>5. ASSUME NEW p \in Ids, NEW n \in Names, Unlink(p, n)
      PROVE  ShallowIn(fs')
  <2>1. CASE fs.kind[p] # "dir"
      BY <1>5, <2>1 DEF Unlink, UnlinkIn
  <2>2. CASE fs.kind[p] = "dir"
    <3>1. /\ fs'.count = fs.count /\ fs'.parent = fs.parent
          /\ fs'.children = [fs.children EXCEPT ![p] = [fs.children[p] EXCEPT ![n] = None]]
        BY <1>5, <2>2 DEF Unlink, UnlinkIn, GoodArena, TypeIn, Arenas
    <3>2. /\ Nodes(fs') = Nodes(fs)
          /\ \A j \in Nodes(fs), m \in Names :
               fs'.children[j][m] # None => fs'.children[j][m] = fs.children[j][m]
        BY <1>0, <3>1 DEF Nodes
    <3> QED
        BY <1>0, <3>1, <3>2, ShallowSame
  <2> QED
      BY <2>1, <2>2
<1>6. ASSUME NEW p \in Ids, NEW n \in Names, NEW l \in 0..MaxLen, CreateFile(p, n, l)
      PROVE  ShallowIn(fs')
    BY <1>6, AddFileShallow, VfsAssumption DEF CreateFile
<1>7. ASSUME NEW i \in Ids, NEW p \in Ids, NEW n \in Names, Rename(i, p, n)
      PROVE  ShallowIn(fs')
    BY <1>7, MovedShallow DEF Rename
<1>8. ASSUME NEW i \in Ids, NEW l \in 0..MaxLen, NEW append \in BOOLEAN, WriteFile(i, l, append)
      PROVE  ShallowIn(fs')
  <2>1. fs'.count = fs.count /\ fs'.parent = fs.parent /\ fs'.children = fs.children
      BY <1>8 DEF WriteFile, GoodArena, TypeIn, Arenas
  <2>2. Nodes(fs') = Nodes(fs)
      BY <2>1 DEF Nodes
  <2> QED
      BY <1>0, <2>1, <2>2, ShallowSame
<1> QED
    BY <1>1, <1>2, <1>3, <1>4, <1>5, <1>6, <1>7, <1>8 DEF VfsNext

(* MAX_VFS_DEPTH bounds every walk down the tree, for any cap and any        *)
(* sequence of operations: moving a subtree cannot add its height to the     *)
(* depth of its new place beyond the cap.                                    *)
THEOREM VfsDepthBounded == VfsSpec => []DepthBounded
<1>1. VfsInit => ShallowIn(fs)
  <2> SUFFICES ASSUME NEW x \in Nodes(NewVfs), NEW j \in Below(NewVfs, x)
               PROVE  Cardinality(Chain(NewVfs, x, j)) <= MaxDepth + 1
      BY DEF ShallowIn, VfsInit
  <2>1. Nodes(NewVfs) = {Root}
      BY VfsAssumption DEF Nodes, NewVfs, Ids, Root
  <2>2. Chain(NewVfs, x, j) \in SUBSET {Root}
      BY <2>1 DEF Chain, Below
  <2>3. IsFiniteSet({Root}) /\ Cardinality({Root}) = 1
      BY FS_Singleton
  <2>4. IsFiniteSet(Chain(NewVfs, x, j)) /\ Cardinality(Chain(NewVfs, x, j)) <= 1
      BY <2>2, <2>3, FS_Subset
  <2>5. Cardinality(Chain(NewVfs, x, j)) \in Nat
      BY <2>4, FS_CardinalityType
  <2> QED
      BY <2>4, <2>5, VfsAssumption
<1>2. VfsInv /\ ShallowIn(fs) /\ [VfsNext]_fs => ShallowIn(fs)'
    BY ShallowStep DEF VfsInv
<1>3. VfsInv /\ ShallowIn(fs) => DepthBounded
    BY ShallowIsBounded DEF VfsInv, DepthBounded
<1> QED
    BY <1>1, <1>2, <1>3, VfsInvariant, PTL DEF VfsSpec

(* Both caps of the arena, together. *)
THEOREM VfsCapsKept == VfsSpec => []CapsKept
BY VfsDepthBounded, VfsBytesCovered, PTL DEF CapsKept

-----------------------------------------------------------------------------
(* What a move keeps. *)

(* The nodes the root reached, but for what the destination's occupant held, *)
(* are still reached after a move, and so is the node moved.                 *)
LEMMA MovedReaches ==
    ASSUME NEW f, GoodArena(f), NEW i \in Nodes(f), NEW np \in Below(f, Root), NEW n \in Names,
           Listed(f, i), f.kind[np] = "dir", ~IsAncestorOf(f, i, np), f.children[np][n] # i
    PROVE  LET occupant == f.children[np][n]
               lost     == IF occupant = None THEN {} ELSE Below(f, occupant)
           IN  (Below(f, Root) \ lost) \cup {i} \subseteq Below(Moved(f, i, np, n), Root)
<1> DEFINE g        == Moved(f, i, np, n)
           occupant == f.children[np][n]
           lost     == IF occupant = None THEN {} ELSE Below(f, occupant)
           R        == Below(f, Root)
           Q        == Below(g, Root)
<1>0. Root \in Nodes(f) /\ Root \in R /\ R \subseteq Nodes(f) /\ ChildClosed(f, R) /\ np \in Nodes(f)
    BY AncestorsOfRoot, BelowLeast
<1>1. /\ GoodArena(g) /\ Nodes(g) = Nodes(f) /\ g.children[np][n] = i /\ i \notin Ancestors(f, np)
      /\ \A j \in Nodes(f), m \in Names :
           f.children[j][m] # i /\ <<j, m>> # <<np, n>> => g.children[j][m] = f.children[j][m]
    BY <1>0, MovedFacts
<1>2. Root \in Q /\ Q \subseteq Nodes(f) /\ ChildClosed(g, Q)
    BY <1>0, <1>1, BelowLeast
<1>3. occupant # None => /\ occupant \in Nodes(f) /\ f.parent[occupant] = np
                         /\ occupant \in lost /\ ChildClosed(f, lost)
    BY <1>0, ChildParent, BelowLeast
<1>4. occupant # None => occupant \notin Ancestors(f, np)
  <2> SUFFICES ASSUME occupant # None, occupant \in Ancestors(f, np) PROVE FALSE
      OBVIOUS
  <2>1. np \in Ancestors(f, occupant)
      BY <1>0, <1>3, AncestorsOfChild, AncestorsLeast
  <2>2. occupant = np
      BY <1>0, <2>1, AncestorsAntisymmetric
  <2>3. {np} \in SUBSET (Nodes(f) \ {Root})
      BY <1>0, <1>3, <2>2, VfsAssumption DEF GoodArena, TypeIn, Nodes
  <2> QED
      BY <1>3, <2>2, <2>3 DEF GoodArena, AcyclicIn
<1> HIDE DEF g, occupant, lost, R, Q
<1>5. np \in Q
  <2> DEFINE T == {y \in R : i \in Ancestors(f, y) \/ occupant \in Ancestors(f, y) \/ y \in Q}
  <2>1. ChildClosed(f, T)
    <3> SUFFICES ASSUME NEW y \in T, NEW m \in Names, f.children[y][m] # None
                 PROVE  f.children[y][m] \in T
        BY DEF ChildClosed
    <3> DEFINE z == f.children[y][m]
    <3>1. z \in R /\ z \in Nodes(f) /\ y \in Nodes(f) /\ f.parent[z] = y
        BY <1>0, ChildParent DEF ChildClosed
    <3>2. Ancestors(f, z) = {z} \cup Ancestors(f, y)
        BY <3>1, AncestorsOfChild
    <3>3. CASE i \in Ancestors(f, y) \/ occupant \in Ancestors(f, y)
        BY <3>1, <3>2, <3>3
    <3>4. CASE z = i \/ <<y, m>> = <<np, n>>
        BY <3>1, <3>2, <3>4 DEF occupant
    <3>5. CASE y \in Q /\ z # i /\ <<y, m>> # <<np, n>>
      <4>1. g.children[y][m] = z
          BY <1>1, <3>1, <3>5
      <4> QED
          BY <1>2, <3>1, <3>5, <4>1 DEF ChildClosed
    <3> QED
        BY <3>3, <3>4, <3>5
  <2>2. T \in SUBSET Nodes(f) /\ Root \in T
      BY <1>0, <1>2
  <2> HIDE DEF T
  <2>3. np \in T
      BY <1>0, <2>1, <2>2, BelowLeast DEF R
  <2>4. occupant = None => occupant \notin Ancestors(f, np)
      BY <1>0, AncestorsLeast, VfsAssumption DEF Nodes
  <2> QED
      BY <1>1, <1>4, <2>3, <2>4 DEF T
<1>6. i \in Q
    BY <1>1, <1>2, <1>5, VfsAssumption DEF ChildClosed, Nodes
<1>7. R \ lost \subseteq Q
  <2> DEFINE T == {y \in R : y \in lost \/ y \in Q}
  <2>1. ChildClosed(f, T)
    <3> SUFFICES ASSUME NEW y \in T, NEW m \in Names, f.children[y][m] # None
                 PROVE  f.children[y][m] \in T
        BY DEF ChildClosed
    <3> DEFINE z == f.children[y][m]
    <3>1. z \in R /\ z \in Nodes(f) /\ y \in Nodes(f)
        BY <1>0, ChildParent DEF ChildClosed
    <3>2. CASE y \in lost
      <4>1. occupant # None
          BY <3>2 DEF lost
      <4> QED
          BY <1>3, <3>1, <3>2, <4>1 DEF ChildClosed
    <3>3. CASE <<y, m>> = <<np, n>>
      <4>1. z = occupant
          BY <3>3 DEF occupant
      <4> QED
          BY <1>3, <3>1, <4>1
    <3>4. CASE z = i
        BY <1>6, <3>1, <3>4
    <3>5. CASE y \in Q /\ z # i /\ <<y, m>> # <<np, n>>
      <4>1. g.children[y][m] = z
          BY <1>1, <3>1, <3>5
      <4> QED
          BY <1>2, <3>1, <3>5, <4>1 DEF ChildClosed
    <3> QED
        BY <3>2, <3>3, <3>4, <3>5
  <2>2. T \in SUBSET Nodes(f) /\ Root \in T
      BY <1>0, <1>2
  <2> HIDE DEF T
  <2>3. R \subseteq T
      BY <1>0, <2>1, <2>2, BelowLeast DEF R
  <2> QED
      BY <2>3 DEF T
<1> QED
    BY <1>6, <1>7 DEF g, occupant, lost, R, Q

(* What a step of the arena does to the place of a node that exists. *)
LEMMA OnlyMovesRelocate ==
    ASSUME GoodArena(fs), [VfsNext]_fs, NEW j \in Nodes(fs),
           <<fs'.parent[j], fs'.name[j]>> # <<fs.parent[j], fs.name[j]>>
    PROVE  \E i \in Ids, p \in Ids, n \in Names : Rename(i, p, n) /\ j = i
<1>0. /\ fs.parent \in [Ids -> Ids \cup {None}] /\ fs.name \in [Ids -> Names \cup {NoName}]
      /\ Nodes(fs) \subseteq Ids /\ \A e \in Ids : e = fs.count => e \notin Nodes(fs)
    BY DEF GoodArena, TypeIn, Arenas, Nodes, Ids
<1> DEFINE Same(g) == g.parent[j] = fs.parent[j] /\ g.name[j] = fs.name[j]
<1>1. ASSUME NEW p \in Nodes(fs), NEW n, NEW k, NEW l PROVE Same(Insert(fs, p, n, k, l).arena)
  <2>1. CASE IsFull(fs, p)
      BY <2>1 DEF Insert
  <2>2. CASE ~IsFull(fs, p)
    <3>1. j # fs.count /\ j \in Ids
        BY <1>0
    <3>2. /\ Insert(fs, p, n, k, l).arena.parent = [fs.parent EXCEPT ![fs.count] = p]
          /\ Insert(fs, p, n, k, l).arena.name = [fs.name EXCEPT ![fs.count] = n]
        BY <2>2 DEF Insert
    <3> QED
        BY <1>0, <3>1, <3>2
  <2> QED
      BY <2>1, <2>2
<1>2. ASSUME NEW e, NEW k, NEW l, NEW b
      PROVE  Same(Replace(fs, e, k, l)) /\ Same([Replace(fs, e, k, l) EXCEPT !.bytes = b])
    BY DEF Replace, GoodArena, TypeIn, Arenas
<1>3. ~UNCHANGED fs
    OBVIOUS
<1>4. ASSUME NEW p \in Ids, NEW n \in Names PROVE ~Mkdir(p, n) /\ ~AddSymlink(p, n)
    BY <1>1 DEF Mkdir, MkdirIn, AddSymlink, AddLink
<1>5. ASSUME NEW p \in Ids, NEW n \in Names PROVE ~AddDynamicFile(p, n)
    BY <1>1, <1>2 DEF AddDynamicFile, AddDynamic
<1>6. ASSUME NEW p \in Ids, NEW n \in Names PROVE ~Unlink(p, n)
    BY DEF Unlink, UnlinkIn, GoodArena, TypeIn, Arenas
<1>7. ASSUME NEW p \in Ids, NEW n \in Names, NEW l \in 0..MaxLen PROVE ~CreateFile(p, n, l)
  <2> SUFFICES ASSUME CreateFile(p, n, l) PROVE FALSE
      OBVIOUS
  <2> DEFINE e  == Child(fs, p, n)
             cr == Insert(fs, p, n, "file", l)
  <2>1. p \in Nodes(fs) /\ fs' = AddFile(fs, p, n, l).arena
      BY DEF CreateFile
  <2>2. Same(cr.arena)
      BY <1>1, <2>1
  <2>3. Same([cr.arena EXCEPT !.bytes = @ + l])
    <3>1. \A b : Same([cr.arena EXCEPT !.bytes = b])
      <4>1. "parent" \in DOMAIN cr.arena /\ "name" \in DOMAIN cr.arena
          BY DEF Insert, GoodArena, TypeIn, Arenas
      <4> HIDE DEF cr
      <4> QED
          BY <2>2, <4>1
    <3> QED
        BY <3>1
  <2>4. \/ fs' = fs \/ fs' = cr.arena \/ fs' = [cr.arena EXCEPT !.bytes = @ + l]
        \/ \E b : fs' = [Replace(fs, e, "file", l) EXCEPT !.bytes = b]
      BY <2>1 DEF AddFile
  <2> DEFINE charged == [cr.arena EXCEPT !.bytes = @ + l]
             Replaced(b) == [Replace(fs, e, "file", l) EXCEPT !.bytes = b]
  <2>5. Same(charged) /\ \A b : Same(Replaced(b))
      BY <1>2, <2>3
  <2>6. \/ fs' = fs \/ fs' = cr.arena \/ fs' = charged \/ \E b : fs' = Replaced(b)
      BY <2>4
  <2> HIDE DEF cr, e, charged, Replaced
  <2> QED
      BY <2>2, <2>5, <2>6
<1>8. ASSUME NEW i \in Ids, NEW l \in 0..MaxLen, NEW append \in BOOLEAN PROVE ~WriteFile(i, l, append)
    BY DEF WriteFile, GoodArena, TypeIn, Arenas
<1>9. ASSUME NEW i \in Ids, NEW p \in Ids, NEW n \in Names, Rename(i, p, n) PROVE j = i
    BY <1>0, <1>9 DEF Rename, Moved, GoodArena, TypeIn, Arenas
<1> HIDE DEF Same
<1> QED
    BY <1>3, <1>4, <1>5, <1>6, <1>7, <1>8, <1>9 DEF VfsNext

(* rename loses nothing but what it replaces, for any tree and caps. *)
THEOREM RenamesKeepNodes == VfsSpec => RenameKeepsNodes
<1>1. VfsInv /\ [VfsNext]_fs =>
        [\A i \in Nodes(fs) :
           LET np       == fs'.parent[i]
               n        == fs'.name[i]
               occupant == fs.children[np][n]
               lost     == IF occupant = None THEN {} ELSE Below(fs, occupant)
           IN  <<np, n>> # <<fs.parent[i], fs.name[i]>> /\ np \in Below(fs, Root)
                  => (Below(fs, Root) \ lost) \cup {i} \subseteq Below(fs', Root)]_fs
  <2> SUFFICES ASSUME VfsInv, [VfsNext]_fs, NEW i \in Nodes(fs),
                      <<fs'.parent[i], fs'.name[i]>> # <<fs.parent[i], fs.name[i]>>,
                      fs'.parent[i] \in Below(fs, Root)
               PROVE  LET occupant == fs.children[fs'.parent[i]][fs'.name[i]]
                          lost     == IF occupant = None THEN {} ELSE Below(fs, occupant)
                      IN  (Below(fs, Root) \ lost) \cup {i} \subseteq Below(fs', Root)
      OBVIOUS
  <2>1. GoodArena(fs)
      BY DEF VfsInv
  <2>2. PICK p \in Ids, n \in Names : Rename(i, p, n)
      BY <2>1, OnlyMovesRelocate
  <2>3. /\ p \in Nodes(fs) /\ Listed(fs, i) /\ fs.kind[p] = "dir" /\ ~IsAncestorOf(fs, i, p)
        /\ fs' = Moved(fs, i, p, n)
      BY <2>2 DEF Rename, MayMove
  <2>4. fs'.parent[i] = p /\ fs'.name[i] = n
      BY <2>1, <2>3, MovedFacts
  <2>5. fs.children[p][n] # i
      BY <2>1, <2>3, <2>4, VfsAssumption DEF GoodArena, LinksIn, Nodes
  <2>6. p \in Below(fs, Root)
      BY <2>4
  <2> QED
      BY <2>1, <2>3, <2>4, <2>5, <2>6, MovedReaches
<1> QED
    BY <1>1, VfsInvariant, PTL DEF VfsSpec, RenameKeepsNodes
=============================================================================
