--------------------------- MODULE InodeTreeProofs ---------------------------
(***************************************************************************)
(* Proofs about InodeTree, for any number of inodes.  The rows are a tree  *)
(* (Shape, Grounded): every statement keeps that.  MarkedBut and LocatedBut *)
(* say what a statement has broken before its triggers run: which inodes   *)
(* list what is no longer so, below which one paths are old.  The triggers *)
(* mend just that.  Ancestors and marks are least sets, so that what is    *)
(* closed contains them; the recursion of Closure needs an induction over  *)
(* its steps, which a minimum of the naturals gives (NatSet).              *)
(***************************************************************************)
EXTENDS InodeTree, WellFoundedInduction, FiniteSetTheorems, TLAPS

\* Induction on the naturals, for a set: what is missing would have a least element.
LEMMA NatSet ==
  ASSUME NEW S \in SUBSET Nat, 0 \in S, \A n \in S : n + 1 \in S
  PROVE  S = Nat
<1> DEFINE R == OpToRel(<, Nat)
           U == Nat \ S
<1>1. IsWellFoundedOn(R, Nat)
  BY NatLessThanWellFounded
<1>2. ASSUME U # {} PROVE FALSE
  <2> HIDE DEF R
  <2>1. PICK x \in U : \A y \in U : ~ (<<y, x>> \in R)
    BY <1>1, <1>2, WFMin DEF U
  <2>2. x - 1 \in Nat /\ x - 1 \in U
    BY DEF U
  <2>3. <<x - 1, x>> \in R
    BY <2>2 DEF R, OpToRel, U
  <2> QED  BY <2>1, <2>2, <2>3
<1> QED  BY <1>2 DEF U

\* The ancestors have the parent of the inode and of each of them (the recursive view vfs_inode_ancestors).
LEMMA AncestorsClosed ==
  ASSUME NEW T, NEW i
  PROVE  /\ Ancestors(T, i) \subseteq DOMAIN T
         /\ \A x \in Ancestors(T, i) \cup {i} :
              T[x].parent \in DOMAIN T => T[x].parent \in Ancestors(T, i)
BY DEF Ancestors

\* They are among whatever has those.
LEMMA AncestorsLeast ==
  ASSUME NEW T, NEW i, NEW A \in SUBSET DOMAIN T,
         \A x \in A \cup {i} : T[x].parent \in DOMAIN T => T[x].parent \in A
  PROVE  Ancestors(T, i) \subseteq A
BY DEF Ancestors

\* The ancestors are the parent and its ancestors.
LEMMA AncestorsStep ==
  ASSUME NEW T, NEW i
  PROVE  /\ T[i].parent \notin DOMAIN T => Ancestors(T, i) = {}
         /\ T[i].parent \in DOMAIN T =>
              Ancestors(T, i) = {T[i].parent} \cup Ancestors(T, T[i].parent)
<1> DEFINE p == T[i].parent
<1>1. CASE p \notin DOMAIN T
  <2>1. {} \in SUBSET DOMAIN T /\ \A x \in {} \cup {i} : T[x].parent \in DOMAIN T => T[x].parent \in {}
    BY <1>1
  <2>2. Ancestors(T, i) \subseteq {}
    BY <2>1, AncestorsLeast
  <2> QED  BY <1>1, <2>2
<1>2. CASE p \in DOMAIN T
  <2> DEFINE B == {p} \cup Ancestors(T, p)
  <2>1. Ancestors(T, i) \subseteq B
    <3>1. B \in SUBSET DOMAIN T /\ \A x \in B \cup {i} : T[x].parent \in DOMAIN T => T[x].parent \in B
      <4>1. Ancestors(T, p) \subseteq DOMAIN T
        BY AncestorsClosed
      <4>2. \A x \in Ancestors(T, p) \cup {p} : T[x].parent \in DOMAIN T => T[x].parent \in Ancestors(T, p)
        <5> HIDE DEF p
        <5> QED BY AncestorsClosed
      <4>3. T[i].parent \in B
        OBVIOUS
      <4>4. ASSUME NEW x \in B PROVE T[x].parent \in DOMAIN T => T[x].parent \in B
        <5> HIDE DEF p
        <5> QED BY <4>2
      <4>5. B \in SUBSET DOMAIN T
        BY <1>2, <4>1
      <4> HIDE DEF B, p
      <4> QED BY <4>3, <4>4, <4>5
    <3> HIDE DEF B, p
    <3> QED  BY <3>1, AncestorsLeast
  <2>2. p \in Ancestors(T, i)
    BY <1>2, AncestorsClosed
  <2>3. Ancestors(T, p) \subseteq Ancestors(T, i)
    BY <2>2, AncestorsClosed, AncestorsLeast
  <2> QED  BY <1>2, <2>1, <2>2, <2>3
<1> QED  BY <1>1, <1>2

\* An ancestor's ancestors are ancestors.
LEMMA AncestorsPass ==
  ASSUME NEW T, NEW i, NEW x \in Ancestors(T, i)
  PROVE  Ancestors(T, x) \subseteq Ancestors(T, i)
BY AncestorsClosed, AncestorsLeast

----------------------------------------------------------------------------
(* Trees. *)

IsRow(r) == r = [parent |-> r.parent, entity |-> r.entity, dirty |-> r.dirty, path |-> r.path]

IsEntity(e) == e = [id |-> e.id, name |-> e.name, body |-> e.body, entries |-> e.entries]

\* Rows of a tree below the root.
Shape(T) ==
  /\ T = [x \in DOMAIN T |-> T[x]]
  /\ Root \in DOMAIN T /\ DOMAIN T \subseteq Inodes
  /\ T[Root].parent = Nobody
  /\ \A x \in DOMAIN T :
       /\ IsRow(T[x]) /\ IsEntity(T[x].entity)
       /\ T[x].entity.id = x
       /\ T[x].dirty \in BOOLEAN
       /\ x \in Files => ~T[x].dirty /\ T[x].entity.entries = {}
       /\ x # Root => T[x].parent \in DOMAIN T \cap Dirs /\ T[x].entity.name \in Names

\* No way goes round, neither to the parents nor to the children.
Grounded(T) ==
  \A X \in SUBSET DOMAIN T : X # {} =>
    /\ \E x \in X : T[x].parent \notin X
    /\ \E x \in X : Children(T, x) \cap X = {}

ListsIn(T, i) == T[i].entity.entries = {T[x].entity : x \in Children(T, i)}

Marked(T) ==
  \A i \in DOMAIN T \cap Dirs :
    /\ ListsIn(T, i) \/ T[i].dirty
    /\ T[i].dirty /\ i # Root => T[T[i].parent].dirty

Located(T) == \A i \in DOMAIN T : T[i].path = Chain(T, i)

Good(T) == Shape(T) /\ Grounded(T) /\ Marked(T) /\ Located(T)

AllClean(T) == \A x \in DOMAIN T : ~T[x].dirty

Whole(T) == Good(T) /\ AllClean(T)

TreeOf(e) == \E T : Whole(T) /\ T[Root].entity = e

USE TreeAssumption

\* Nothing is above the root.
LEMMA RootHasNoAncestor ==
  ASSUME NEW T, Shape(T)
  PROVE  Ancestors(T, Root) = {}
BY AncestorsStep DEF Shape, Inodes

\* Where no way goes round, nothing is above itself.
LEMMA NotItsOwnAncestor ==
  ASSUME NEW T, Grounded(T), NEW i \in DOMAIN T
  PROVE  i \notin Ancestors(T, i)
<1> SUFFICES ASSUME i \in Ancestors(T, i) PROVE FALSE
  OBVIOUS
<1> DEFINE X == {y \in Ancestors(T, i) : i = y \/ i \in Ancestors(T, y)}
<1>1. i \in X /\ X \in SUBSET DOMAIN T
  BY AncestorsClosed
<1>2. PICK x \in X : T[x].parent \notin X
  BY <1>1 DEF Grounded
<1>3. i \in Ancestors(T, x)
  BY <1>2
<1>4. T[x].parent \in DOMAIN T /\ Ancestors(T, x) = {T[x].parent} \cup Ancestors(T, T[x].parent)
  BY <1>3, AncestorsStep
<1>5. T[x].parent \in Ancestors(T, i)
  BY <1>4, <1>2, AncestorsClosed
<1> QED  BY <1>2, <1>3, <1>4, <1>5

\* Two tables that agree on an inode and all above it have the same ancestors for it.
LEMMA AncestorsSame ==
  ASSUME NEW T, NEW V, NEW i \in DOMAIN T, i \in DOMAIN V,
         Ancestors(T, i) \subseteq DOMAIN V,
         \A x \in Ancestors(T, i) \cup {i} :
           /\ V[x].parent = T[x].parent
           /\ T[x].parent \in DOMAIN V => T[x].parent \in DOMAIN T
  PROVE  Ancestors(V, i) = Ancestors(T, i)
<1> DEFINE A == Ancestors(T, i)
           B == Ancestors(V, i)
<1>1. B \subseteq A
  <2>1. A \in SUBSET DOMAIN V /\ \A x \in A \cup {i} : V[x].parent \in DOMAIN V => V[x].parent \in A
    BY AncestorsClosed
  <2> QED  BY <2>1, AncestorsLeast
<1>2. A \subseteq A \cap B
  <2>1. A \cap B \in SUBSET DOMAIN T
    BY AncestorsClosed
  <2>2. ASSUME NEW x \in (A \cap B) \cup {i}, T[x].parent \in DOMAIN T PROVE T[x].parent \in A \cap B
    <3>1. T[x].parent \in A
      BY <2>2, AncestorsClosed
    <3>2. V[x].parent = T[x].parent /\ T[x].parent \in DOMAIN V
      BY <2>2, <3>1
    <3>3. V[x].parent \in B
      BY <2>2, <3>2, AncestorsClosed
    <3> QED  BY <3>1, <3>2, <3>3
  <2> HIDE DEF A, B
  <2>3. Ancestors(T, i) \subseteq A \cap B
    BY <2>1, <2>2, AncestorsLeast
  <2> QED  BY <2>3 DEF A
<1> QED  BY <1>1, <1>2

\* A row has finitely many ancestors.
LEMMA LevelsAreFinite ==
  ASSUME NEW T, Shape(T), NEW i \in DOMAIN T
  PROVE  IsFiniteSet(Ancestors(T, i)) /\ Level(T, i) \in Nat
<1>1. IsFiniteSet(Ancestors(T, i))
  BY AncestorsClosed, FS_Subset DEF Shape
<1> QED  BY <1>1, FS_CardinalityType DEF Level

\* A row is one level below its parent.
LEMMA LevelStep ==
  ASSUME NEW T, Shape(T), Grounded(T), NEW i \in DOMAIN T \ {Root}
  PROVE  /\ T[i].parent \in DOMAIN T
         /\ Ancestors(T, i) = {T[i].parent} \cup Ancestors(T, T[i].parent)
         /\ Level(T, i) = Level(T, T[i].parent) + 1
<1> DEFINE p == T[i].parent
<1>1. p \in DOMAIN T
  BY DEF Shape
<1>2. Ancestors(T, i) = Ancestors(T, p) \cup {p}
  BY <1>1, AncestorsStep
<1>3. p \notin Ancestors(T, p)
  BY <1>1, NotItsOwnAncestor
<1>4. IsFiniteSet(Ancestors(T, p))
  BY <1>1, LevelsAreFinite
<1>5. Cardinality(Ancestors(T, p) \cup {p}) = Cardinality(Ancestors(T, p)) + 1
  BY <1>3, <1>4, FS_AddElement
<1> QED  BY <1>1, <1>2, <1>5 DEF Level

\* On the way from the root to a row there is one on each level.
LEMMA EachLevel ==
  ASSUME NEW T, Shape(T), Grounded(T), NEW i \in DOMAIN T, NEW n \in 1 .. Level(T, i)
  PROVE  \E x \in Ancestors(T, i) \cup {i} : Level(T, x) = n
<1> DEFINE L == Ancestors(T, i) \cup {i}
           X == {x \in L : Level(T, x) > n}
<1> SUFFICES ASSUME \A x \in L : Level(T, x) # n PROVE FALSE
  OBVIOUS
<1>1. L \subseteq DOMAIN T
  BY AncestorsClosed
<1>2. i \in X
  BY LevelsAreFinite
<1>3. PICK x \in X : T[x].parent \notin X
  BY <1>1, <1>2 DEF Grounded
<1>4. x # Root
  <2>1. Level(T, Root) = 0
    BY RootHasNoAncestor, FS_EmptySet DEF Level
  <2> QED  BY <2>1, <1>3
<1>5. T[x].parent \in L /\ Level(T, x) = Level(T, T[x].parent) + 1 /\ Level(T, T[x].parent) \in Nat
  <2>1. x \in DOMAIN T \ {Root}
    BY <1>1, <1>3, <1>4
  <2>2. T[x].parent \in DOMAIN T /\ Level(T, x) = Level(T, T[x].parent) + 1
    BY <2>1, LevelStep
  <2>3. T[x].parent \in Ancestors(T, i)
    BY <2>2, <1>3, AncestorsClosed
  <2> QED  BY <2>2, <2>3, LevelsAreFinite
<1>6. Level(T, T[x].parent) # n
  BY <1>5
<1> QED  BY <1>3, <1>5, <1>6

\* Two tables that agree on parents and names from an inode to the root have the same names for it.
LEMMA ChainSame ==
  ASSUME NEW T, Shape(T), Grounded(T), NEW V, NEW i \in DOMAIN T, i \in DOMAIN V,
         Ancestors(T, i) \subseteq DOMAIN V,
         \A x \in Ancestors(T, i) \cup {i} :
           /\ V[x].parent = T[x].parent
           /\ T[x].parent \in DOMAIN V => T[x].parent \in DOMAIN T
           /\ V[x].entity.name = T[x].entity.name
  PROVE  Ancestors(V, i) = Ancestors(T, i) /\ Chain(V, i) = Chain(T, i)
<1> DEFINE L == Ancestors(T, i) \cup {i}
<1>1. \A x \in L : Ancestors(V, x) = Ancestors(T, x)
  <2> SUFFICES ASSUME NEW x \in L PROVE Ancestors(V, x) = Ancestors(T, x)
    OBVIOUS
  <2>1. Ancestors(T, x) \subseteq Ancestors(T, i) /\ x \in DOMAIN T /\ x \in DOMAIN V
    BY AncestorsPass, AncestorsClosed
  <2> QED  BY <2>1, AncestorsSame
<1>2. \A x \in L : Level(V, x) = Level(T, x)
  BY <1>1 DEF Level
<1>3. Ancestors(V, i) \cup {i} = L
  BY <1>1
<1> DEFINE OnT(n) == CHOOSE x \in L : Level(T, x) = n
           OnV(n) == CHOOSE x \in Ancestors(V, i) \cup {i} : Level(V, x) = n
<1>4. \A n : OnV(n) = OnT(n)
  BY <1>2, <1>3
<1>5. \A n \in 1 .. Level(T, i) : V[OnT(n)].entity.name = T[OnT(n)].entity.name
  <2> SUFFICES ASSUME NEW n \in 1 .. Level(T, i) PROVE OnT(n) \in L
    OBVIOUS
  <2>1. \E x \in L : Level(T, x) = n
    BY EachLevel
  <2> QED  BY <2>1
<1>6. Chain(V, i) = [n \in 1 .. Level(V, i) |-> V[OnV(n)].entity.name]
  BY DEF Chain
<1>7. Chain(T, i) = [n \in 1 .. Level(T, i) |-> T[OnT(n)].entity.name]
  BY DEF Chain
<1>8. Level(V, i) = Level(T, i) /\ Ancestors(V, i) = Ancestors(T, i)
  BY <1>1, <1>2
<1> HIDE DEF OnT, OnV
<1> QED  BY <1>4, <1>5, <1>6, <1>7, <1>8

\* A path is the path of the parent and one name.
LEMMA ChainStep ==
  ASSUME NEW T, Shape(T), Grounded(T), NEW i \in DOMAIN T \ {Root}
  PROVE  Chain(T, i) = Append(Chain(T, T[i].parent), T[i].entity.name)
<1> DEFINE p == T[i].parent
           L == Ancestors(T, p) \cup {p}
           n == Level(T, p)
           On(k) == CHOOSE x \in Ancestors(T, i) \cup {i} : Level(T, x) = k
           OnP(k) == CHOOSE x \in L : Level(T, x) = k
<1>1. p \in DOMAIN T /\ Ancestors(T, i) = L /\ Level(T, i) = n + 1 /\ n \in Nat
  BY LevelStep, LevelsAreFinite
<1>2. \A x \in L : Level(T, x) \in Nat /\ Level(T, x) <= n
  <2> SUFFICES ASSUME NEW x \in Ancestors(T, p) PROVE Level(T, x) \in Nat /\ Level(T, x) <= n
    BY <1>1
  <2>1. x \in DOMAIN T /\ Ancestors(T, x) \subseteq Ancestors(T, p)
    BY AncestorsClosed, AncestorsPass
  <2>2. IsFiniteSet(Ancestors(T, p))
    BY <1>1, LevelsAreFinite
  <2> QED  BY <2>1, <2>2, FS_Subset, LevelsAreFinite DEF Level
<1>3. \A k \in 1 .. n : On(k) = OnP(k)
  <2> SUFFICES ASSUME NEW k \in 1 .. n
               PROVE  \A x : (x \in L \cup {i} /\ Level(T, x) = k) <=> (x \in L /\ Level(T, x) = k)
    BY <1>1
  <2> QED  BY <1>1
<1>4. On(n + 1) = i
  <2>1. \A x : (x \in L \cup {i} /\ Level(T, x) = n + 1) <=> x = i
    BY <1>1, <1>2
  <2> QED  BY <1>1, <2>1
<1> HIDE DEF L, n
<1>5. Chain(T, i) = [k \in 1 .. n + 1 |-> T[On(k)].entity.name]
  BY <1>1 DEF Chain
<1>6. Chain(T, p) = [k \in 1 .. n |-> T[OnP(k)].entity.name]
  BY DEF Chain, L, n
<1> HIDE DEF On, OnP, p
<1> DEFINE name == T[i].entity.name
<1>7. Append(Chain(T, p), name) = [k \in 1 .. n + 1 |-> IF k = n + 1 THEN name ELSE Chain(T, p)[k]]
  <2>1. Chain(T, p) \in Seq({T[OnP(k)].entity.name : k \in 1 .. n}) /\ Len(Chain(T, p)) = n
    BY <1>1, <1>6
  <2> QED  BY <2>1, <1>1, <1>6
<1> HIDE DEF name
<1>8. \A k \in 1 .. n + 1 : T[On(k)].entity.name = IF k = n + 1 THEN name ELSE Chain(T, p)[k]
  <2> SUFFICES ASSUME NEW k \in 1 .. n + 1 PROVE T[On(k)].entity.name = IF k = n + 1 THEN name ELSE Chain(T, p)[k]
    OBVIOUS
  <2>1. CASE k = n + 1
    BY <2>1, <1>4 DEF name
  <2>2. CASE k \in 1 .. n
    BY <2>2, <1>1, <1>3, <1>6
  <2> QED  BY <2>1, <2>2, <1>1
<1> QED  BY <1>5, <1>7, <1>8 DEF p, name

\* A row other than the topmost is in a subtree just if its parent is.
LEMMA SubtreeEdge ==
  ASSUME NEW T, NEW i, NEW x \in DOMAIN T, x # i
  PROVE  x \in Subtree(T, i) <=> T[x].parent \in Subtree(T, i)
<1>1. CASE T[x].parent \in DOMAIN T
  <2>1. Ancestors(T, x) = {T[x].parent} \cup Ancestors(T, T[x].parent)
    BY <1>1, AncestorsStep
  <2> QED  BY <1>1, <2>1 DEF Subtree
<1>2. CASE T[x].parent \notin DOMAIN T
  BY <1>2, AncestorsStep DEF Subtree
<1> QED  BY <1>1, <1>2

\* The same rows, but for their dirty marks and paths.
SameTree(T, V) ==
  /\ DOMAIN V = DOMAIN T /\ V = [x \in DOMAIN V |-> V[x]]
  /\ \A x \in DOMAIN T : IsRow(V[x]) /\ V[x].parent = T[x].parent /\ V[x].entity = T[x].entity

MarkedBut(T, S) ==
  \A i \in DOMAIN T \cap Dirs :
    /\ ListsIn(T, i) \/ T[i].dirty \/ i \in S
    /\ T[i].dirty /\ i # Root => T[T[i].parent].dirty \/ T[i].parent \in S

LocatedBut(T, i) == \A x \in DOMAIN T \ Subtree(T, i) : T[x].path = Chain(T, x)

\* Dirty marks and paths have no part in the shape of the tree, in ancestors, names and what is listed.
LEMMA SameTreeSame ==
  ASSUME NEW T, Shape(T), Grounded(T), NEW V, SameTree(T, V)
  PROVE  /\ \A x \in DOMAIN T : Ancestors(V, x) = Ancestors(T, x) /\ Chain(V, x) = Chain(T, x)
         /\ \A x : Children(V, x) = Children(T, x)
         /\ \A x \in DOMAIN T : ListsIn(V, x) <=> ListsIn(T, x)
         /\ Grounded(V)
         /\ (\A x \in DOMAIN T : V[x].dirty \in BOOLEAN /\ (x \in Files => ~V[x].dirty)) => Shape(V)
<1>1. ASSUME NEW x \in DOMAIN T
      PROVE  Ancestors(V, x) = Ancestors(T, x) /\ Chain(V, x) = Chain(T, x)
  <2>1. x \in DOMAIN V /\ Ancestors(T, x) \subseteq DOMAIN V /\ Ancestors(T, x) \cup {x} \subseteq DOMAIN T
    BY AncestorsClosed DEF SameTree
  <2>2. \A y \in Ancestors(T, x) \cup {x} :
          /\ V[y].parent = T[y].parent
          /\ T[y].parent \in DOMAIN V => T[y].parent \in DOMAIN T
          /\ V[y].entity.name = T[y].entity.name
    BY <2>1 DEF SameTree
  <2> QED  BY <2>1, <2>2, ChainSame
<1>2. \A x : Children(V, x) = Children(T, x)
  BY DEF Children, SameTree
<1>3. ASSUME NEW x \in DOMAIN T PROVE ListsIn(V, x) <=> ListsIn(T, x)
  <2>1. {V[y].entity : y \in Children(V, x)} = {T[y].entity : y \in Children(T, x)}
    BY <1>2 DEF Children, SameTree
  <2> QED  BY <2>1 DEF ListsIn, SameTree
<1>4. Grounded(V)
  BY <1>2 DEF Grounded, SameTree
<1>5. ASSUME \A x \in DOMAIN T : V[x].dirty \in BOOLEAN /\ (x \in Files => ~V[x].dirty)
      PROVE  Shape(V)
  BY <1>5 DEF Shape, SameTree
<1> QED  BY <1>1, <1>2, <1>3, <1>4, <1>5

\* Computing paths anew changes those of a subtree and nothing else (vfs_update_inode_path_on_update).
LEMMA RepathRows ==
  ASSUME NEW T, NEW i, \A x \in DOMAIN T : IsRow(T[x])
  PROVE  /\ SameTree(T, Repath(T, i))
         /\ \A x \in DOMAIN T :
              /\ Repath(T, i)[x].dirty = T[x].dirty
              /\ Repath(T, i)[x].path = IF x \in Subtree(T, i) THEN Chain(T, x) ELSE T[x].path
<1> DEFINE V == Repath(T, i)
<1>1. V = [x \in DOMAIN T |-> IF x \in Subtree(T, i) THEN [T[x] EXCEPT !.path = Chain(T, x)] ELSE T[x]]
  BY DEF Repath
<1> HIDE DEF V
<1>2. ASSUME NEW x \in DOMAIN T
      PROVE  /\ IsRow(V[x]) /\ V[x].parent = T[x].parent /\ V[x].entity = T[x].entity
             /\ V[x].dirty = T[x].dirty
             /\ V[x].path = IF x \in Subtree(T, i) THEN Chain(T, x) ELSE T[x].path
  BY <1>1, <1>2 DEF IsRow
<1>3. DOMAIN V = DOMAIN T /\ V = [x \in DOMAIN V |-> V[x]]
  BY <1>1
<1> QED  BY <1>2, <1>3 DEF SameTree, V

\* It mends the paths where they were old.
LEMMA RepathLocates ==
  ASSUME NEW T, Shape(T), Grounded(T), NEW S, MarkedBut(T, S), NEW i, LocatedBut(T, i)
  PROVE  /\ Shape(Repath(T, i)) /\ Grounded(Repath(T, i))
         /\ MarkedBut(Repath(T, i), S) /\ Located(Repath(T, i))
<1> DEFINE V == Repath(T, i)
<1> HIDE DEF V
<1>1. SameTree(T, V)
  BY RepathRows DEF Shape, V
<1>2. \A x \in DOMAIN T :
        /\ V[x].dirty = T[x].dirty
        /\ V[x].path = IF x \in Subtree(T, i) THEN Chain(T, x) ELSE T[x].path
  BY RepathRows DEF Shape, V
<1>3. Shape(V) /\ Grounded(V)
  BY <1>1, <1>2, SameTreeSame DEF Shape
<1>4. MarkedBut(V, S)
  BY <1>1, <1>2, SameTreeSame DEF MarkedBut, SameTree, Shape
<1>5. Located(V)
  BY <1>1, <1>2, SameTreeSame DEF Located, LocatedBut, SameTree
<1> QED  BY <1>3, <1>4, <1>5 DEF V

\* Marks spread upwards until a row that was dirty, and reach directories alone.
LEMMA MarkDirtyRowsOf ==
  ASSUME NEW T, Shape(T), NEW S, S \cap DOMAIN T \subseteq Dirs
  PROVE  /\ SameTree(T, MarkDirty(T, S))
         /\ \A x \in DOMAIN T :
              LET v == MarkDirty(T, S)[x]
              IN  /\ v.path = T[x].path
                  /\ v.dirty \in BOOLEAN
                  /\ x \in Files => ~v.dirty
                  /\ T[x].dirty \/ x \in S => v.dirty
                  /\ v.dirty /\ ~T[x].dirty /\ x # Root => MarkDirty(T, S)[T[x].parent].dirty
<1> DEFINE V == MarkDirty(T, S)
           Clean(X) == {x \in X \cap DOMAIN T : ~T[x].dirty}
           Closed(M) == Clean(S) \cup Clean({T[x].parent : x \in M}) \subseteq M
           W == {x \in DOMAIN T : \A M \in SUBSET DOMAIN T : Closed(M) => x \in M}
<1>1. V = [x \in DOMAIN T |-> IF x \in W THEN [T[x] EXCEPT !.dirty = TRUE] ELSE T[x]]
  BY DEF MarkDirty
<1>2. Clean(S) \subseteq W
  OBVIOUS
<1>3. \A x \in W : Clean({T[x].parent}) \subseteq W
  OBVIOUS
<1>4. W \subseteq Dirs
  <2>1. Closed(DOMAIN T \cap Dirs)
    BY DEF Shape, Inodes
  <2> QED  BY <2>1
<1> HIDE DEF V, W
<1>5. DOMAIN V = DOMAIN T /\ V = [x \in DOMAIN V |-> V[x]]
  BY <1>1
<1>6. ASSUME NEW x \in DOMAIN T
      PROVE  /\ IsRow(V[x]) /\ V[x].parent = T[x].parent /\ V[x].entity = T[x].entity
             /\ V[x].path = T[x].path
             /\ V[x].dirty = (T[x].dirty \/ x \in W)
  <2>1. IsRow(T[x]) /\ T[x].dirty \in BOOLEAN
    BY DEF Shape
  <2>2. CASE x \in W
    BY <1>1, <2>1, <2>2 DEF IsRow
  <2>3. CASE x \notin W
    BY <1>1, <2>1, <2>3 DEF IsRow
  <2> QED  BY <2>2, <2>3
<1>7. SameTree(T, V)
  BY <1>5, <1>6 DEF SameTree
<1>8. ASSUME NEW x \in DOMAIN T
      PROVE  /\ V[x].dirty \in BOOLEAN
             /\ x \in Files => ~V[x].dirty
             /\ T[x].dirty \/ x \in S => V[x].dirty
             /\ V[x].dirty /\ ~T[x].dirty /\ x # Root => V[T[x].parent].dirty
  <2>1. V[x].dirty \in BOOLEAN /\ (x \in Files => ~V[x].dirty)
    BY <1>4, <1>6 DEF Shape
  <2>2. T[x].dirty \/ x \in S => V[x].dirty
    BY <1>2, <1>6
  <2>3. V[x].dirty /\ ~T[x].dirty /\ x # Root => V[T[x].parent].dirty
    <3> SUFFICES ASSUME V[x].dirty, ~T[x].dirty, x # Root PROVE V[T[x].parent].dirty
      OBVIOUS
    <3>1. x \in W /\ T[x].parent \in DOMAIN T
      BY <1>6 DEF Shape
    <3>2. T[T[x].parent].dirty \/ T[x].parent \in W
      BY <1>3, <3>1
    <3> QED  BY <1>6, <3>1, <3>2
  <2> QED  BY <2>1, <2>2, <2>3
<1> QED  BY <1>6, <1>7, <1>8 DEF V

\* Marking mends what a statement has left: those that list the wrong children, and above.
LEMMA MarkDirtyMarks ==
  ASSUME NEW T, Shape(T), Grounded(T), Located(T),
         NEW S, S \cap DOMAIN T \subseteq Dirs, MarkedBut(T, S)
  PROVE  Good(MarkDirty(T, S))
<1> DEFINE V == MarkDirty(T, S)
<1> HIDE DEF V
<1>1. SameTree(T, V)
  BY MarkDirtyRowsOf DEF V
<1>2. \A x \in DOMAIN T :
        /\ V[x].path = T[x].path
        /\ V[x].dirty \in BOOLEAN
        /\ x \in Files => ~V[x].dirty
        /\ T[x].dirty \/ x \in S => V[x].dirty
        /\ V[x].dirty /\ ~T[x].dirty /\ x # Root => V[T[x].parent].dirty
  BY MarkDirtyRowsOf DEF V
<1>3. Shape(V) /\ Grounded(V)
  BY <1>1, <1>2, SameTreeSame
<1>4. Located(V)
  BY <1>1, <1>2, SameTreeSame DEF Located, SameTree
<1>5. Marked(V)
  <2> SUFFICES ASSUME NEW x \in DOMAIN V \cap Dirs
               PROVE  /\ ListsIn(V, x) \/ V[x].dirty
                      /\ V[x].dirty /\ x # Root => V[V[x].parent].dirty
    BY DEF Marked
  <2>1. x \in DOMAIN T /\ V[x].parent = T[x].parent /\ (x # Root => T[x].parent \in DOMAIN T)
    BY <1>1 DEF SameTree, Shape
  <2>2. ListsIn(V, x) <=> ListsIn(T, x)
    BY <1>1, <2>1, SameTreeSame
  <2>3. ListsIn(V, x) \/ V[x].dirty
    BY <1>2, <2>1, <2>2 DEF MarkedBut
  <2>4. V[x].dirty /\ x # Root => V[V[x].parent].dirty
    BY <1>2, <2>1 DEF MarkedBut
  <2> QED  BY <2>3, <2>4
<1> QED  BY <1>3, <1>4, <1>5 DEF Good, V

\* What the statements have in common: rows changed, paths computed below i, S marked.
LEMMA StatementIsGood ==
  ASSUME NEW T, Shape(T), Grounded(T), NEW i, LocatedBut(T, i),
         NEW S, S \cap DOMAIN T \subseteq Dirs, MarkedBut(T, S)
  PROVE  Good(MarkDirty(Repath(T, i), S))
<1> DEFINE V == Repath(T, i)
<1>1. SameTree(T, V)
  BY RepathRows DEF Shape
<1>2. Shape(V) /\ Grounded(V) /\ MarkedBut(V, S) /\ Located(V)
  BY RepathLocates
<1>3. S \cap DOMAIN V \subseteq Dirs
  BY <1>1 DEF SameTree
<1> HIDE DEF V
<1>4. Good(MarkDirty(V, S))
  BY <1>2, <1>3, MarkDirtyMarks
<1> QED  BY <1>4 DEF V

\* create_inode leaves a good tree.
LEMMA InsertIsGood ==
  ASSUME NEW T, Good(T), NEW i \in Inodes \ DOMAIN T, NEW p \in DOMAIN T \cap Dirs,
         NEW e, IsEntity(e), e.id = i, e.entries = {}, e.name \in Names
  PROVE  Good(Insert(T, i, p, e))
<1> DEFINE row == [parent |-> p, entity |-> e, dirty |-> FALSE, path |-> <<>>]
           V == [x \in DOMAIN T \cup {i} |-> IF x = i THEN row ELSE T[x]]
<1>0. Insert(T, i, p, e) = MarkDirty(Repath(V, i), {p})
  BY DEF Insert
<1>1. /\ DOMAIN V = DOMAIN T \cup {i} /\ V = [x \in DOMAIN V |-> V[x]]
      /\ \A x \in DOMAIN T : V[x] = T[x]
      /\ V[i].parent = p /\ V[i].entity = e /\ V[i].dirty = FALSE /\ IsRow(V[i])
  BY DEF IsRow
<1> HIDE DEF V, row
<1>2. Shape(T) /\ Grounded(T) /\ Marked(T) /\ Located(T) /\ i # Root /\ i # p
  BY DEF Good, Shape
<1>3. Shape(V)
  <2>1. ASSUME NEW x \in DOMAIN V
        PROVE  /\ IsRow(V[x]) /\ IsEntity(V[x].entity)
               /\ V[x].entity.id = x
               /\ V[x].dirty \in BOOLEAN
               /\ x \in Files => ~V[x].dirty /\ V[x].entity.entries = {}
               /\ x # Root => V[x].parent \in DOMAIN V \cap Dirs /\ V[x].entity.name \in Names
    <3>1. CASE x = i
      BY <1>1, <3>1
    <3>2. CASE x \in DOMAIN T
      BY <1>1, <1>2, <3>2 DEF Shape
    <3> QED  BY <1>1, <3>1, <3>2
  <2> QED  BY <1>1, <1>2, <2>1 DEF Shape
<1>4. \A x \in DOMAIN T : T[x].parent # i
  BY <1>2 DEF Shape, Inodes
<1>5. /\ Children(V, i) = {}
      /\ \A x \in DOMAIN T : Children(V, x) = IF x = p THEN Children(T, x) \cup {i} ELSE Children(T, x)
  BY <1>1, <1>2, <1>4 DEF Children
<1>6. Grounded(V)
  <2> SUFFICES ASSUME NEW X \in SUBSET DOMAIN V, X # {}
               PROVE  /\ \E x \in X : V[x].parent \notin X
                      /\ \E x \in X : Children(V, x) \cap X = {}
    BY DEF Grounded
  <2>1. CASE i \notin X
    BY <1>1, <1>2, <1>5, <2>1 DEF Grounded
  <2>2. CASE X = {i}
    BY <1>1, <1>2, <1>5, <2>2
  <2>3. CASE i \in X /\ X # {i}
    <3>0. X \ {i} \in SUBSET DOMAIN T /\ X \ {i} # {}
      BY <1>1, <2>3
    <3>1. PICK x \in X \ {i} : T[x].parent \notin X \ {i}
      BY <1>2, <3>0 DEF Grounded
    <3>2. V[x].parent \notin X
      BY <1>1, <1>4, <3>1
    <3> QED  BY <1>5, <2>3, <3>1, <3>2
  <2> QED  BY <2>1, <2>2, <2>3
<1>7. MarkedBut(V, {p})
  <2> SUFFICES ASSUME NEW x \in DOMAIN V \cap Dirs
               PROVE  /\ ListsIn(V, x) \/ V[x].dirty \/ x \in {p}
                      /\ V[x].dirty /\ x # Root => V[V[x].parent].dirty \/ V[x].parent \in {p}
    BY DEF MarkedBut
  <2>1. CASE x = i
    BY <1>1, <1>5, <2>1 DEF ListsIn
  <2>2. CASE x = p
    BY <1>1, <1>2, <2>2 DEF Marked, Shape
  <2>3. CASE x \in DOMAIN T /\ x # p
    <3>1. ListsIn(V, x) <=> ListsIn(T, x)
      <4>1. Children(V, x) = Children(T, x) /\ Children(T, x) \subseteq DOMAIN T
        BY <1>5, <2>3 DEF Children
      <4>2. {V[y].entity : y \in Children(V, x)} = {T[y].entity : y \in Children(T, x)}
        BY <1>1, <4>1
      <4> QED  BY <1>1, <2>3, <4>2 DEF ListsIn
    <3> QED  BY <1>1, <1>2, <2>3, <3>1 DEF Marked, Shape
  <2> QED  BY <1>1, <2>1, <2>2, <2>3
<1>8. LocatedBut(V, i)
  <2> SUFFICES ASSUME NEW x \in DOMAIN V \ Subtree(V, i) PROVE V[x].path = Chain(V, x)
    BY DEF LocatedBut
  <2>1. x \in DOMAIN T
    BY <1>1 DEF Subtree
  <2>2. Ancestors(T, x) \cup {x} \subseteq DOMAIN T
    BY <2>1, AncestorsClosed
  <2>3. \A y \in Ancestors(T, x) \cup {x} :
          /\ V[y].parent = T[y].parent
          /\ T[y].parent \in DOMAIN V => T[y].parent \in DOMAIN T
          /\ V[y].entity.name = T[y].entity.name
    BY <1>1, <1>4, <2>2
  <2>4. Chain(V, x) = Chain(T, x)
    BY <1>1, <1>2, <2>1, <2>2, <2>3, ChainSame
  <2> QED  BY <1>1, <1>2, <2>1, <2>4 DEF Located
<1>9. Good(MarkDirty(Repath(V, i), {p}))
  BY <1>3, <1>6, <1>7, <1>8, StatementIsGood
<1> QED  BY <1>0, <1>9

\* delete_inode, with what is below by cascade, leaves a good tree.
LEMMA RemoveIsGood ==
  ASSUME NEW T, Good(T), NEW i \in DOMAIN T \ {Root}
  PROVE  Good(Remove(T, i))
<1> DEFINE B == Subtree(T, i)
           V == [x \in DOMAIN T \ B |-> T[x]]
           p == T[i].parent
<1>0. Remove(T, i) = MarkDirty(V, {p})
  BY DEF Remove
<1>1. DOMAIN V = DOMAIN T \ B /\ V = [x \in DOMAIN V |-> V[x]] /\ \A x \in DOMAIN T \ B : V[x] = T[x]
  OBVIOUS
<1>2. Shape(T) /\ Grounded(T) /\ Marked(T) /\ Located(T) /\ p \in DOMAIN T \cap Dirs
  BY DEF Good, Shape
<1>3. Root \notin B /\ i \in B
  BY <1>2, RootHasNoAncestor DEF Subtree
<1>4. \A x \in DOMAIN T : x # i => (x \in B <=> T[x].parent \in B)
  BY SubtreeEdge
<1> HIDE DEF V, B
<1>5. Shape(V)
  BY <1>1, <1>2, <1>3, <1>4 DEF Shape
<1>6. \A x \in DOMAIN V : Children(V, x) = IF x = p THEN Children(T, x) \ {i} ELSE Children(T, x)
  BY <1>1, <1>3, <1>4 DEF Children
<1>7. Grounded(V)
  BY <1>1, <1>2, <1>6 DEF Grounded
<1>8. MarkedBut(V, {p})
  <2> SUFFICES ASSUME NEW x \in DOMAIN V \cap Dirs
               PROVE  /\ ListsIn(V, x) \/ V[x].dirty \/ x \in {p}
                      /\ V[x].dirty /\ x # Root => V[V[x].parent].dirty \/ V[x].parent \in {p}
    BY DEF MarkedBut
  <2>1. x \in DOMAIN T /\ V[x] = T[x]
    BY <1>1
  <2>2. V[x].dirty /\ x # Root => V[V[x].parent].dirty
    <3>1. x # Root => V[x].parent \in DOMAIN V
      BY <1>5 DEF Shape
    <3> QED  BY <1>1, <1>2, <2>1, <3>1 DEF Marked
  <2>3. x # p => (ListsIn(V, x) <=> ListsIn(T, x))
    <3> SUFFICES ASSUME x # p PROVE ListsIn(V, x) <=> ListsIn(T, x)
      OBVIOUS
    <3>1. Children(V, x) = Children(T, x)
      BY <1>6
    <3>2. {V[y].entity : y \in Children(V, x)} = {T[y].entity : y \in Children(T, x)}
      BY <1>1, <3>1 DEF Children
    <3> QED  BY <2>1, <3>2 DEF ListsIn
  <2> QED  BY <1>2, <2>1, <2>2, <2>3 DEF Marked
<1>9. Located(V)
  <2> SUFFICES ASSUME NEW x \in DOMAIN V PROVE V[x].path = Chain(V, x)
    BY DEF Located
  <2>1. x \in DOMAIN T /\ V[x] = T[x] /\ x \notin B
    BY <1>1
  <2>2. Ancestors(T, x) \cup {x} \subseteq DOMAIN V
    <3> SUFFICES ASSUME NEW y \in Ancestors(T, x) PROVE y \in DOMAIN V
      BY <2>1
    <3>1. y \in DOMAIN T
      BY AncestorsClosed
    <3>2. y # i /\ i \notin Ancestors(T, y)
      BY <2>1, AncestorsPass DEF B, Subtree
    <3> QED  BY <1>1, <3>1, <3>2 DEF B, Subtree
  <2>3. \A y \in Ancestors(T, x) \cup {x} :
          /\ V[y].parent = T[y].parent
          /\ T[y].parent \in DOMAIN V => T[y].parent \in DOMAIN T
          /\ V[y].entity.name = T[y].entity.name
    BY <1>1, <2>2
  <2>4. Chain(V, x) = Chain(T, x)
    BY <1>2, <2>1, <2>2, <2>3, ChainSame
  <2> QED  BY <1>2, <2>1, <2>4 DEF Located
<1>10. Good(MarkDirty(V, {p}))
  BY <1>2, <1>5, <1>7, <1>8, <1>9, MarkDirtyMarks
<1> QED  BY <1>0, <1>10

\* Where a row's own change is not above, the path is what it was.
LEMMA ChainElsewhere ==
  ASSUME NEW T, Shape(T), NEW V, Shape(V), Grounded(V), DOMAIN V = DOMAIN T,
         NEW i \in DOMAIN T,
         \A x \in DOMAIN T \ {i} :
           V[x].parent = T[x].parent /\ V[x].entity.name = T[x].entity.name,
         NEW x \in DOMAIN V \ Subtree(V, i)
  PROVE  Chain(V, x) = Chain(T, x)
<1>1. i \notin Ancestors(V, x) \cup {x}
  BY DEF Subtree
<1>2. Ancestors(V, x) \cup {x} \subseteq DOMAIN V
  BY AncestorsClosed
<1>3. \A y \in Ancestors(V, x) \cup {x} :
        /\ T[y].parent = V[y].parent
        /\ V[y].parent \in DOMAIN T => V[y].parent \in DOMAIN V
        /\ T[y].entity.name = V[y].entity.name
  BY <1>1, <1>2
<1> QED  BY <1>2, <1>3, ChainSame

\* move_inode leaves a good tree, given that vfs_prevent_loops_on_update has let it pass.
LEMMA ReparentIsGood ==
  ASSUME NEW T, Good(T), NEW i \in DOMAIN T \ {Root}, NEW p \in DOMAIN T \cap Dirs, NoLoop(T, i, p)
  PROVE  Good(Reparent(T, i, p))
<1> DEFINE q == T[i].parent
           V == [T EXCEPT ![i].parent = p]
           B == Subtree(T, i)
<1>0. CASE q = p
  BY <1>0 DEF Reparent
<1>1. CASE q # p
  <2>0. Reparent(T, i, p) = MarkDirty(Repath(V, i), {p, q})
    BY <1>1 DEF Reparent
  <2>1. Shape(T) /\ Grounded(T) /\ Marked(T) /\ Located(T) /\ q \in DOMAIN T \cap Dirs
    BY DEF Good, Shape
  <2>2. /\ DOMAIN V = DOMAIN T /\ V = [x \in DOMAIN V |-> V[x]]
        /\ \A x \in DOMAIN T \ {i} : V[x] = T[x]
        /\ IsRow(V[i]) /\ V[i].parent = p /\ V[i].entity = T[i].entity
        /\ V[i].dirty = T[i].dirty
    <3>1. IsRow(T[i]) /\ T = [x \in DOMAIN T |-> T[x]]
      BY <2>1 DEF Shape
    <3>2. V[i] = [T[i] EXCEPT !.parent = p] /\ DOMAIN V = DOMAIN T
      BY <3>1
    <3>3. \A x \in DOMAIN T \ {i} : V[x] = T[x]
      BY <3>1
    <3>4. V = [x \in DOMAIN V |-> V[x]]
      BY <3>1
    <3>5. IsRow(V[i]) /\ V[i].parent = p /\ V[i].entity = T[i].entity /\ V[i].dirty = T[i].dirty
      BY <3>1, <3>2 DEF IsRow
    <3> QED  BY <3>2, <3>3, <3>4, <3>5
  <2>3. p \notin B /\ i \in B
    BY <1>1 DEF NoLoop, Subtree
  <2>4. \A x \in DOMAIN T : x # i => (x \in B <=> T[x].parent \in B)
    BY SubtreeEdge
  <2> HIDE DEF V, B
  <2>5. Shape(V)
    <3>1. ASSUME NEW x \in DOMAIN V
          PROVE  /\ IsRow(V[x]) /\ IsEntity(V[x].entity)
                 /\ V[x].entity.id = x
                 /\ V[x].dirty \in BOOLEAN
                 /\ x \in Files => ~V[x].dirty /\ V[x].entity.entries = {}
                 /\ x # Root => V[x].parent \in DOMAIN V \cap Dirs /\ V[x].entity.name \in Names
      <4>1. CASE x = i
        BY <2>1, <2>2, <4>1 DEF Shape
      <4>2. CASE x # i
        BY <2>1, <2>2, <4>2 DEF Shape
      <4> QED  BY <4>1, <4>2
    <3>2. V[Root].parent = Nobody /\ Root \in DOMAIN V /\ DOMAIN V \subseteq Inodes
      BY <2>1, <2>2 DEF Shape
    <3> QED  BY <2>2, <3>1, <3>2 DEF Shape
  <2>6. \A x \in DOMAIN V :
          /\ x = p => Children(V, x) = Children(T, x) \cup {i}
          /\ x = q => Children(V, x) = Children(T, x) \ {i}
          /\ x # p /\ x # q => Children(V, x) = Children(T, x)
    BY <1>1, <2>2 DEF Children
  <2>7. Grounded(V)
    <3> SUFFICES ASSUME NEW X \in SUBSET DOMAIN V, X # {}
                 PROVE  /\ \E x \in X : V[x].parent \notin X
                        /\ \E x \in X : Children(V, x) \cap X = {}
      BY DEF Grounded
    <3>1. CASE X \subseteq B
      <4>1. \E x \in X : V[x].parent \notin X
        BY <2>1, <2>2, <2>3, <3>1 DEF Grounded
      <4>2. PICK x \in X : Children(T, x) \cap X = {}
        BY <2>1, <2>2 DEF Grounded
      <4>3. Children(V, x) \cap X = {}
        BY <2>2, <2>3, <2>6, <3>1, <4>2
      <4> QED  BY <4>1, <4>2, <4>3
    <3>2. CASE X \ B # {}
      <4>1. PICK x \in X \ B : T[x].parent \notin X \ B
        BY <2>1, <2>2, <3>2 DEF Grounded
      <4>2. V[x].parent \notin X
        BY <2>2, <2>3, <2>4, <4>1
      <4>3. \E y \in X : Children(V, y) \cap X = {}
        <5>1. CASE X \cap B = {}
          <6>1. PICK y \in X : Children(T, y) \cap X = {}
            BY <2>1, <2>2 DEF Grounded
          <6>2. Children(V, y) \cap X = {}
            BY <2>2, <2>3, <2>6, <5>1, <6>1
          <6> QED  BY <6>1, <6>2
        <5>2. CASE X \cap B # {}
          <6>1. X \cap B \in SUBSET DOMAIN T
            BY <2>2
          <6>2. PICK y \in X \cap B : Children(T, y) \cap (X \cap B) = {}
            BY <2>1, <5>2, <6>1 DEF Grounded
          <6>3. y # p /\ y \in DOMAIN V /\ Children(V, y) \subseteq Children(T, y)
            BY <2>2, <2>3, <2>6, <6>2
          <6>4. Children(T, y) \subseteq B
            BY <2>3, <2>4, <6>2 DEF Children
          <6> QED  BY <6>2, <6>3, <6>4
        <5> QED  BY <5>1, <5>2
      <4> QED  BY <4>1, <4>2, <4>3
    <3> QED  BY <3>1, <3>2
  <2>8. MarkedBut(V, {p, q})
    <3> SUFFICES ASSUME NEW x \in DOMAIN V \cap Dirs
                 PROVE  /\ ListsIn(V, x) \/ V[x].dirty \/ x \in {p, q}
                        /\ V[x].dirty /\ x # Root => V[V[x].parent].dirty \/ V[x].parent \in {p, q}
      BY DEF MarkedBut
    <3>1. x \in DOMAIN T /\ V[x].entity = T[x].entity /\ V[x].dirty = T[x].dirty
      BY <2>2
    <3>2. V[x].dirty /\ x # Root => V[V[x].parent].dirty \/ V[x].parent \in {p, q}
      <4>1. CASE x = i
        BY <2>2, <4>1
      <4>2. CASE x # i
        <5>1. V[x].parent = T[x].parent /\ (x # Root => T[x].parent \in DOMAIN T)
          BY <2>1, <2>2, <4>2, <3>1 DEF Shape
        <5>2. \A y \in DOMAIN T : V[y].dirty = T[y].dirty
          BY <2>2
        <5> QED  BY <2>1, <3>1, <5>1, <5>2 DEF Marked
      <4> QED  BY <4>1, <4>2
    <3>3. x \notin {p, q} => (ListsIn(V, x) <=> ListsIn(T, x))
      <4> SUFFICES ASSUME x \notin {p, q} PROVE ListsIn(V, x) <=> ListsIn(T, x)
        OBVIOUS
      <4>1. Children(V, x) = Children(T, x) /\ Children(T, x) \subseteq DOMAIN T
        BY <2>6 DEF Children
      <4>2. \A y \in DOMAIN T : V[y].entity = T[y].entity
        BY <2>2
      <4>3. {V[y].entity : y \in Children(V, x)} = {T[y].entity : y \in Children(T, x)}
        BY <4>1, <4>2
      <4> QED  BY <3>1, <4>3 DEF ListsIn
    <3> QED  BY <2>1, <3>1, <3>2, <3>3 DEF Marked
  <2>9. LocatedBut(V, i)
    <3> SUFFICES ASSUME NEW x \in DOMAIN V \ Subtree(V, i) PROVE V[x].path = Chain(V, x)
      BY DEF LocatedBut
    <3>1. x # i
      BY DEF Subtree
    <3>2. \A y \in DOMAIN T \ {i} : V[y].parent = T[y].parent /\ V[y].entity.name = T[y].entity.name
      BY <2>2
    <3>3. Chain(V, x) = Chain(T, x)
      BY <2>1, <2>2, <2>5, <2>7, <3>2, ChainElsewhere
    <3> QED  BY <2>1, <2>2, <3>1, <3>3 DEF Located
  <2>10. Good(MarkDirty(Repath(V, i), {p, q}))
    BY <2>1, <2>2, <2>5, <2>7, <2>8, <2>9, StatementIsGood
  <2> QED  BY <2>0, <2>10
<1> QED  BY <1>0, <1>1

\* An entity that lists the children there are, none of them dirty.
LEMMA SetEntityIsGood ==
  ASSUME NEW T, Good(T), NEW i \in DOMAIN T, NEW e, IsEntity(e), e.id = i,
         i # Root => e.name \in Names,
         i \in Files => e.entries = {},
         i \in Dirs => e.entries = {T[x].entity : x \in Children(T, i)},
         \A x \in Children(T, i) : ~T[x].dirty
  PROVE  Good(SetEntity(T, i, e))
<1> DEFINE p == T[i].parent
           V == [T EXCEPT ![i].entity = e, ![i].dirty = FALSE]
           W == IF e.name = T[i].entity.name THEN V ELSE Repath(V, i)
<1>0. SetEntity(T, i, e) = IF e = T[i].entity THEN W ELSE MarkDirty(W, {p})
  BY DEF SetEntity
<1>1. Shape(T) /\ Grounded(T) /\ Marked(T) /\ Located(T)
  BY DEF Good
<1>2. /\ DOMAIN V = DOMAIN T /\ V = [x \in DOMAIN V |-> V[x]]
      /\ \A x \in DOMAIN T \ {i} : V[x] = T[x]
      /\ IsRow(V[i]) /\ V[i].parent = p /\ V[i].entity = e /\ V[i].dirty = FALSE /\ V[i].path = T[i].path
  <2>1. IsRow(T[i]) /\ T = [x \in DOMAIN T |-> T[x]]
    BY <1>1 DEF Shape
  <2>2. V[i] = [T[i] EXCEPT !.entity = e, !.dirty = FALSE] /\ DOMAIN V = DOMAIN T
    BY <2>1
  <2>3. \A x \in DOMAIN T \ {i} : V[x] = T[x]
    BY <2>1
  <2>4. V = [x \in DOMAIN V |-> V[x]]
    BY <2>1
  <2>5. IsRow(V[i]) /\ V[i].parent = p /\ V[i].entity = e /\ V[i].dirty = FALSE /\ V[i].path = T[i].path
    BY <2>1, <2>2 DEF IsRow
  <2> QED  BY <2>2, <2>3, <2>4, <2>5
<1> HIDE DEF V
<1>3. Shape(V)
  <2>1. ASSUME NEW x \in DOMAIN V
        PROVE  /\ IsRow(V[x]) /\ IsEntity(V[x].entity)
               /\ V[x].entity.id = x
               /\ V[x].dirty \in BOOLEAN
               /\ x \in Files => ~V[x].dirty /\ V[x].entity.entries = {}
               /\ x # Root => V[x].parent \in DOMAIN V \cap Dirs /\ V[x].entity.name \in Names
    <3>1. CASE x = i
      BY <1>1, <1>2, <3>1 DEF Shape
    <3>2. CASE x # i
      BY <1>1, <1>2, <3>2 DEF Shape
    <3> QED  BY <3>1, <3>2
  <2>2. V[Root].parent = Nobody /\ Root \in DOMAIN V /\ DOMAIN V \subseteq Inodes
    BY <1>1, <1>2 DEF Shape
  <2> QED  BY <1>2, <2>1, <2>2 DEF Shape
<1>4. \A x : Children(V, x) = Children(T, x)
  BY <1>2 DEF Children
<1>5. Grounded(V)
  BY <1>1, <1>2, <1>4 DEF Grounded
<1>6. i \notin Children(T, i)
  <2>1. {i} \in SUBSET DOMAIN T /\ {i} # {}
    OBVIOUS
  <2> QED  BY <1>1, <2>1 DEF Grounded
<1>7. ASSUME NEW x \in DOMAIN V \cap Dirs
      PROVE  /\ ListsIn(V, x) \/ V[x].dirty \/ (x = p /\ e # T[i].entity)
             /\ V[x].dirty /\ x # Root => V[V[x].parent].dirty
  <2>1. x \in DOMAIN T /\ V[x].parent = T[x].parent /\ (x # Root => T[x].parent \in DOMAIN T)
    BY <1>1, <1>2 DEF Shape
  <2>2. V[x].dirty /\ x # Root => V[V[x].parent].dirty
    BY <1>1, <1>2, <2>1 DEF Marked, Children
  <2>3. CASE x = i
    <3>1. {V[y].entity : y \in Children(V, x)} = {T[y].entity : y \in Children(T, x)}
      BY <1>2, <1>4, <1>6, <2>3 DEF Children
    <3> QED  BY <1>2, <2>2, <2>3, <3>1 DEF ListsIn
  <2>4. CASE x # i /\ (x # p \/ e = T[i].entity)
    <3>1. \A y \in Children(T, x) : V[y].entity = T[y].entity
      BY <1>2, <2>4 DEF Children
    <3>2. {V[y].entity : y \in Children(V, x)} = {T[y].entity : y \in Children(T, x)}
      BY <1>4, <3>1
    <3>3. ListsIn(V, x) <=> ListsIn(T, x)
      BY <1>2, <2>1, <2>4, <3>2 DEF ListsIn
    <3> QED  BY <1>1, <1>2, <2>1, <2>2, <2>4, <3>3 DEF Marked
  <2> QED  BY <2>2, <2>3, <2>4
<1>8. p \in Dirs \/ p \notin DOMAIN V
  BY <1>1, <1>2 DEF Shape, Inodes
<1>9. CASE e.name = T[i].entity.name
  <2>1. Located(V)
    <3> SUFFICES ASSUME NEW x \in DOMAIN V PROVE V[x].path = Chain(V, x)
      BY DEF Located
    <3>1. Ancestors(T, x) \cup {x} \subseteq DOMAIN T
      BY <1>2, AncestorsClosed
    <3>2. \A y \in Ancestors(T, x) \cup {x} :
            /\ V[y].parent = T[y].parent
            /\ T[y].parent \in DOMAIN V => T[y].parent \in DOMAIN T
            /\ V[y].entity.name = T[y].entity.name
      BY <1>2, <1>9, <3>1
    <3>3. Chain(V, x) = Chain(T, x)
      BY <1>1, <1>2, <3>1, <3>2, ChainSame
    <3> QED  BY <1>1, <1>2, <3>3 DEF Located
  <2>2. CASE e = T[i].entity
    <3>1. Marked(V)
      BY <1>7, <2>2 DEF Marked
    <3>2. SetEntity(T, i, e) = V
      BY <1>0, <1>9, <2>2
    <3> QED  BY <1>3, <1>5, <2>1, <3>1, <3>2 DEF Good
  <2>3. CASE e # T[i].entity
    <3>1. MarkedBut(V, {p})
      BY <1>7 DEF MarkedBut
    <3>2. SetEntity(T, i, e) = MarkDirty(V, {p})
      BY <1>0, <1>9, <2>3
    <3>3. {p} \cap DOMAIN V \subseteq Dirs
      BY <1>8
    <3> QED  BY <1>3, <1>5, <2>1, <3>1, <3>2, <3>3, MarkDirtyMarks
  <2> QED  BY <2>2, <2>3
<1>10. CASE e.name # T[i].entity.name
  <2>1. LocatedBut(V, i)
    <3> SUFFICES ASSUME NEW x \in DOMAIN V \ Subtree(V, i) PROVE V[x].path = Chain(V, x)
      BY DEF LocatedBut
    <3>1. \A y \in DOMAIN T \ {i} : V[y].parent = T[y].parent /\ V[y].entity.name = T[y].entity.name
      BY <1>2
    <3>2. Chain(V, x) = Chain(T, x)
      BY <1>1, <1>2, <1>3, <1>5, <3>1, ChainElsewhere
    <3> QED  BY <1>1, <1>2, <3>2 DEF Located
  <2>2. MarkedBut(V, {p})
    BY <1>7 DEF MarkedBut
  <2>3. SetEntity(T, i, e) = MarkDirty(Repath(V, i), {p})
    BY <1>0, <1>10
  <2>4. {p} \cap DOMAIN V \subseteq Dirs
    BY <1>8
  <2> QED  BY <1>3, <1>5, <2>1, <2>2, <2>3, <2>4, StatementIsGood
<1> QED  BY <1>9, <1>10

\* The recursion of Closure, one step and all of them.
Step(s) == s \cup UNION {x.entries : x \in s}

Steps(e) == CHOOSE F : F = [n \in Nat |-> IF n = 0 THEN {e} ELSE Step(F[n - 1])]

\* Closure is the recursion's last step.
LEMMA ClosureIsSteps ==
  ASSUME NEW e
  PROVE  Closure(e) = Steps(e)[Depth]
BY DEF Closure, Steps, Step

\* Its first n steps.
First(g, n, e, U) ==
  /\ g \in [0 .. n -> SUBSET U]
  /\ g[0] = {e}
  /\ \A k \in 1 .. n : g[k] = Step(g[k - 1])

\* A function for the first n steps exists, for every n.
LEMMA FirstSteps ==
  ASSUME NEW U, NEW e \in U, \A x \in U : x.entries \subseteq U
  PROVE  \A n \in Nat : \E g : First(g, n, e, U)
<1> DEFINE S == {n \in Nat : \E g : First(g, n, e, U)}
<1>1. 0 \in S
  <2>1. First([k \in 0 .. 0 |-> {e}], 0, e, U)
    BY DEF First
  <2> QED  BY <2>1
<1>2. ASSUME NEW n \in S PROVE n + 1 \in S
  <2>1. PICK g : First(g, n, e, U)
    OBVIOUS
  <2> DEFINE h == [k \in 0 .. n + 1 |-> IF k = n + 1 THEN Step(g[n]) ELSE g[k]]
  <2>2. g[n] \in SUBSET U
    BY <2>1 DEF First
  <2>3. Step(g[n]) \in SUBSET U
    BY <2>2 DEF Step
  <2>4. h \in [0 .. n + 1 -> SUBSET U]
    BY <2>1, <2>3 DEF First
  <2>5. h[0] = {e}
    BY <2>1 DEF First
  <2>6. ASSUME NEW k \in 1 .. n + 1 PROVE h[k] = Step(h[k - 1])
    <3>1. CASE k = n + 1
      BY <3>1
    <3>2. CASE k \in 1 .. n
      BY <2>1, <3>2 DEF First
    <3> QED  BY <3>1, <3>2
  <2> HIDE DEF h
  <2>7. First(h, n + 1, e, U)
    BY <2>4, <2>5, <2>6 DEF First
  <2> QED  BY <2>7
<1> HIDE DEF S
<1>3. S = Nat
  <2>1. S \in SUBSET Nat
    BY DEF S
  <2> QED  BY <1>1, <1>2, <2>1, NatSet
<1> QED  BY <1>3 DEF S

\* Two such functions agree where both go on.
LEMMA FirstStepsAgree ==
  ASSUME NEW U, NEW e, NEW n \in Nat, NEW m \in Nat, n <= m,
         NEW g, First(g, n, e, U), NEW h, First(h, m, e, U)
  PROVE  g[n] = h[n]
<1> DEFINE S == {k \in Nat : k <= n => g[k] = h[k]}
<1>1. 0 \in S
  BY DEF First
<1>2. ASSUME NEW k \in S PROVE k + 1 \in S
  <2> SUFFICES ASSUME k + 1 <= n PROVE g[k + 1] = h[k + 1]
    OBVIOUS
  <2>1. g[k + 1] = Step(g[k]) /\ h[k + 1] = Step(h[k])
    BY DEF First
  <2> QED  BY <2>1
<1> HIDE DEF S
<1>3. S = Nat
  <2>1. S \in SUBSET Nat
    BY DEF S
  <2> QED  BY <1>1, <1>2, <2>1, NatSet
<1> QED  BY <1>3 DEF S

\* So the recursion is what its equations say.
LEMMA StepByStep ==
  ASSUME NEW U, NEW e \in U, \A x \in U : x.entries \subseteq U
  PROVE  /\ Steps(e)[0] = {e}
         /\ \A n \in Nat : Steps(e)[n + 1] = Step(Steps(e)[n])
         /\ \A n \in Nat : Steps(e)[n] \subseteq U
<1> DEFINE G(n) == CHOOSE g : First(g, n, e, U)
           f == [n \in Nat |-> G(n)[n]]
<1>1. \A n \in Nat : First(G(n), n, e, U)
  BY FirstSteps
<1> HIDE DEF G
<1>2. f[0] = {e}
  BY <1>1 DEF First
<1>3. ASSUME NEW n \in Nat PROVE f[n + 1] = Step(f[n]) /\ f[n] \subseteq U
  <2>1. First(G(n + 1), n + 1, e, U) /\ First(G(n), n, e, U)
    BY <1>1
  <2>2. G(n + 1)[n + 1] = Step(G(n + 1)[n])
    BY <2>1 DEF First
  <2>3. G(n)[n] = G(n + 1)[n]
    BY <2>1, FirstStepsAgree
  <2>4. G(n)[n] \subseteq U
    BY <2>1 DEF First
  <2> QED  BY <2>2, <2>3, <2>4
<1>4. DOMAIN f = Nat /\ f = [n \in Nat |-> f[n]]
  OBVIOUS
<1> HIDE DEF f
<1>5. \A n \in Nat : f[n] = IF n = 0 THEN {e} ELSE Step(f[n - 1])
  <2> SUFFICES ASSUME NEW n \in Nat, n # 0 PROVE f[n] = Step(f[n - 1])
    BY <1>2
  <2>1. n - 1 \in Nat /\ (n - 1) + 1 = n
    OBVIOUS
  <2> QED  BY <1>3, <2>1
<1>6. f = [n \in Nat |-> IF n = 0 THEN {e} ELSE Step(f[n - 1])]
  BY <1>4, <1>5
<1> DEFINE F == Steps(e)
<1>7. F = [n \in Nat |-> IF n = 0 THEN {e} ELSE Step(F[n - 1])]
  BY <1>6 DEF Steps
<1> HIDE DEF F
<1>8. F[0] = {e}
  BY <1>7
<1>9. ASSUME NEW n \in Nat PROVE F[n + 1] = Step(F[n])
  <2>1. n + 1 \in Nat /\ n + 1 # 0 /\ (n + 1) - 1 = n
    OBVIOUS
  <2> QED  BY <1>7, <2>1
<1> DEFINE S == {n \in Nat : F[n] = f[n]}
<1>10. 0 \in S
  BY <1>2, <1>8
<1>11. \A n \in S : n + 1 \in S
  BY <1>3, <1>9
<1> HIDE DEF S
<1>12. S = Nat
  <2>1. S \in SUBSET Nat
    BY DEF S
  <2> QED  BY <1>10, <1>11, <2>1, NatSet
<1>13. \A n \in Nat : F[n] \subseteq U
  BY <1>3, <1>12 DEF S
<1> QED  BY <1>8, <1>9, <1>13 DEF F

\* In a tree without dirty rows everything lists its children, a file none.
LEMMA WholeLists ==
  ASSUME NEW T, Whole(T), NEW i \in DOMAIN T
  PROVE  ListsIn(T, i)
<1>1. Shape(T) /\ Marked(T) /\ ~T[i].dirty
  BY DEF Whole, Good, AllClean
<1>2. CASE i \in Dirs
  BY <1>1, <1>2 DEF Marked
<1>3. CASE i \in Files
  <2>1. Children(T, i) = {}
    <3> SUFFICES ASSUME NEW x \in Children(T, i) PROVE FALSE
      OBVIOUS
    <3>1. x \in DOMAIN T /\ T[x].parent = i
      BY DEF Children
    <3>2. i \in Dirs \/ i = Nobody
      BY <1>1, <3>1 DEF Shape
    <3> QED  BY <1>3, <3>2 DEF Inodes
  <2> QED  BY <1>1, <1>3, <2>1 DEF Shape, ListsIn
<1> QED  BY <1>1, <1>2, <1>3 DEF Shape, Inodes

\* Unfolding the root of a tree gives the tree: every directory is listed by the one above.
LEMMA ClosureOfTree ==
  ASSUME NEW T, Whole(T)
  PROVE  Closure(T[Root].entity) = {T[x].entity : x \in DOMAIN T}
<1> DEFINE U == {T[x].entity : x \in DOMAIN T}
           e == T[Root].entity
           F == Steps(e)
<1>0. Shape(T) /\ Grounded(T)
  BY DEF Whole, Good
<1>1. e \in U
  BY <1>0 DEF Shape
<1>2. \A y \in U : y.entries \subseteq U
  <2> SUFFICES ASSUME NEW x \in DOMAIN T PROVE T[x].entity.entries \subseteq U
    OBVIOUS
  <2> QED  BY WholeLists DEF ListsIn, Children
<1>3. /\ F[0] = {e}
      /\ \A n \in Nat : F[n + 1] = Step(F[n])
      /\ \A n \in Nat : F[n] \subseteq U
  <2> HIDE DEF U, e
  <2> QED  BY <1>1, <1>2, StepByStep
<1> HIDE DEF F
<1>4. Depth \in Nat
  BY FS_CardinalityType DEF Depth
<1>5. ASSUME NEW m \in Nat, NEW n \in Nat, m <= n PROVE F[m] \subseteq F[n]
  <2> DEFINE S == {k \in Nat : F[m] \subseteq F[m + k]}
  <2>1. 0 \in S
    OBVIOUS
  <2>2. ASSUME NEW k \in S PROVE k + 1 \in S
    <3>1. F[m + k + 1] = Step(F[m + k])
      BY <1>3
    <3> QED  BY <3>1 DEF Step
  <2> HIDE DEF S
  <2>3. S = Nat
    <3>1. S \in SUBSET Nat
      BY DEF S
    <3> QED  BY <2>1, <2>2, <3>1, NatSet
  <2>4. n - m \in S
    BY <1>5, <2>3
  <2> QED  BY <1>5, <2>4 DEF S
<1>6. ASSUME NEW x \in DOMAIN T PROVE Level(T, x) \in Nat /\ Level(T, x) <= Depth
  <2>1. Ancestors(T, x) \subseteq Inodes
    BY <1>0, AncestorsClosed DEF Shape
  <2>2. Cardinality(Ancestors(T, x)) <= Cardinality(Inodes)
    BY <2>1, FS_Subset
  <2> QED  BY <1>0, <2>2, LevelsAreFinite DEF Level, Depth
<1>7. \A x \in DOMAIN T : T[x].entity \in F[Level(T, x)]
  <2> DEFINE X == {x \in DOMAIN T : T[x].entity \notin F[Level(T, x)]}
  <2> SUFFICES ASSUME X # {} PROVE FALSE
    OBVIOUS
  <2>1. PICK x \in X : T[x].parent \notin X
    BY <1>0 DEF Grounded
  <2>2. CASE x = Root
    <3>1. Level(T, Root) = 0
      BY <1>0, RootHasNoAncestor, FS_EmptySet DEF Level
    <3> QED  BY <1>3, <2>1, <2>2, <3>1
  <2>3. CASE x # Root
    <3> DEFINE y == T[x].parent
    <3>1. y \in DOMAIN T /\ Level(T, x) = Level(T, y) + 1
      BY <1>0, <2>1, <2>3, LevelStep
    <3>2. T[y].entity \in F[Level(T, y)]
      BY <2>1, <3>1
    <3>3. T[x].entity \in T[y].entity.entries
      <4>1. ListsIn(T, y)
        BY <3>1, WholeLists
      <4> QED  BY <2>1, <4>1 DEF ListsIn, Children
    <3>4. F[Level(T, x)] = Step(F[Level(T, y)])
      BY <1>3, <1>6, <3>1
    <3> QED  BY <2>1, <3>2, <3>3, <3>4 DEF Step
  <2> QED  BY <2>2, <2>3
<1>8. U \subseteq F[Depth]
  BY <1>4, <1>5, <1>6, <1>7
<1>9. Closure(e) = F[Depth]
  BY ClosureIsSteps DEF F
<1> QED  BY <1>3, <1>4, <1>8, <1>9

\* The rebuild of a tree that was committed is that tree.
LEMMA UnfoldIsGood ==
  ASSUME NEW T, Whole(T)
  PROVE  LET V == Unfold(T[Root].entity)
         IN  /\ Good(V) /\ V[Root].entity = T[Root].entity
             /\ \A i \in DOMAIN V : ListsIn(V, i)
<1> DEFINE root == T[Root].entity
           All == Closure(root)
           Of(i) == CHOOSE e \in All : e.id = i
           Above(i) == IF i = Root THEN Nobody ELSE (CHOOSE e \in All : Of(i) \in e.entries).id
           Ids == {e.id : e \in All}
           W == [i \in Ids |->
                  [parent |-> Above(i), entity |-> Of(i), dirty |-> Of(i).entries # {}, path |-> <<>>]]
           V == Repath(W, Root)
<1>0. Shape(T) /\ Grounded(T)
  BY DEF Whole, Good
<1>1. Unfold(root) = V
  BY DEF Unfold
<1>2. All = {T[x].entity : x \in DOMAIN T}
  BY ClosureOfTree
<1> HIDE DEF All, root
<1>3. Ids = DOMAIN T
  <2>1. \A x \in DOMAIN T : T[x].entity.id = x
    BY <1>0 DEF Shape
  <2>2. \A x \in DOMAIN T : T[x].entity \in All
    BY <1>2
  <2>3. ASSUME NEW e \in All PROVE e.id \in DOMAIN T
    BY <1>2, <2>1
  <2>4. Ids \subseteq DOMAIN T
    BY <2>3
  <2>5. DOMAIN T \subseteq Ids
    BY <2>1, <2>2
  <2> QED  BY <2>4, <2>5
<1>4. ASSUME NEW i \in DOMAIN T PROVE Of(i) = T[i].entity
  <2>1. \A e \in All : e.id = i <=> e = T[i].entity
    BY <1>0, <1>2 DEF Shape
  <2>2. T[i].entity \in All
    BY <1>2
  <2> QED  BY <2>1, <2>2
<1> HIDE DEF Of
<1>5. ASSUME NEW i \in DOMAIN T PROVE Above(i) = T[i].parent
  <2>1. CASE i = Root
    BY <1>0, <2>1 DEF Shape
  <2>2. CASE i # Root
    <3> DEFINE p == T[i].parent
    <3>1. p \in DOMAIN T
      BY <1>0, <2>2 DEF Shape
    <3>2. ASSUME NEW x \in DOMAIN T PROVE T[i].entity \in T[x].entity.entries <=> x = p
      <4>1. ListsIn(T, x)
        BY WholeLists
      <4>2. \A y \in DOMAIN T : T[y].entity = T[i].entity => y = i
        BY <1>0 DEF Shape
      <4> QED  BY <4>1, <4>2 DEF ListsIn, Children
    <3>3. \A e \in All : Of(i) \in e.entries <=> e = T[p].entity
      BY <1>0, <1>2, <1>4, <3>1, <3>2 DEF Shape
    <3>4. T[p].entity \in All
      BY <1>2, <3>1
    <3>5. (CHOOSE e \in All : Of(i) \in e.entries) = T[p].entity
      BY <3>3, <3>4
    <3> QED  BY <1>0, <2>2, <3>1, <3>5 DEF Shape
  <2> QED  BY <2>1, <2>2
<1> HIDE DEF Above, Ids
<1>6. /\ DOMAIN W = DOMAIN T /\ W = [x \in DOMAIN W |-> W[x]]
      /\ \A x \in DOMAIN T : /\ IsRow(W[x]) /\ W[x].parent = T[x].parent /\ W[x].entity = T[x].entity
                             /\ W[x].dirty = (T[x].entity.entries # {})
  BY <1>3, <1>4, <1>5 DEF IsRow
<1> HIDE DEF W
<1>7. SameTree(T, W)
  BY <1>6 DEF SameTree
<1>8. Shape(W) /\ Grounded(W)
  <2>1. \A x \in DOMAIN T : W[x].dirty \in BOOLEAN /\ (x \in Files => ~W[x].dirty)
    BY <1>0, <1>6 DEF Shape
  <2> QED  BY <1>0, <1>7, <2>1, SameTreeSame
<1>9. \A x \in DOMAIN W : ListsIn(W, x)
  BY <1>0, <1>6, <1>7, SameTreeSame, WholeLists
<1>10. MarkedBut(W, {})
  <2> SUFFICES ASSUME NEW x \in DOMAIN W, W[x].dirty, x # Root PROVE W[W[x].parent].dirty
    BY <1>9 DEF MarkedBut
  <2>1. W[x].parent \in DOMAIN W /\ x \in Children(W, W[x].parent)
    BY <1>8 DEF Shape, Children
  <2>2. W[x].entity \in W[W[x].parent].entity.entries
    BY <1>9, <2>1 DEF ListsIn
  <2> QED  BY <1>6, <2>1, <2>2
<1>11. LocatedBut(W, Root)
  <2>1. ASSUME NEW x \in DOMAIN W PROVE x \in Subtree(W, Root)
    <3> DEFINE X == Ancestors(W, x) \cup {x}
    <3>1. X \in SUBSET DOMAIN W /\ X # {}
      BY AncestorsClosed
    <3>2. PICK y \in X : W[y].parent \notin X
      BY <1>8, <3>1 DEF Grounded
    <3>3. y = Root
      <4>1. y # Root => W[y].parent \in DOMAIN W
        BY <1>8, <3>1 DEF Shape
      <4> QED  BY <3>2, <4>1, AncestorsClosed
    <3> QED  BY <3>3 DEF Subtree
  <2> QED  BY <2>1 DEF LocatedBut
<1>12. Shape(V) /\ Grounded(V) /\ MarkedBut(V, {}) /\ Located(V)
  BY <1>8, <1>10, <1>11, RepathLocates
<1>13. SameTree(W, V)
  BY <1>8, RepathRows DEF Shape
<1> HIDE DEF V
<1>14. Good(V)
  BY <1>12 DEF Good, Marked, MarkedBut
<1>15. V[Root].entity = root /\ \A i \in DOMAIN V : ListsIn(V, i)
  <2>1. Root \in DOMAIN T /\ Root \in DOMAIN W
    BY <1>0, <1>8 DEF Shape
  <2>2. V[Root].entity = root
    BY <1>6, <1>13, <2>1 DEF SameTree, root
  <2>3. \A i \in DOMAIN V : ListsIn(V, i)
    BY <1>8, <1>9, <1>13, SameTreeSame DEF SameTree
  <2> QED  BY <2>2, <2>3
<1> QED  BY <1>1, <1>14, <1>15 DEF root

----------------------------------------------------------------------------
(* The invariant. *)

\* What a client has read is what the table has, as it was last committed.
HeldIsSaved ==
  /\ held = [c \in Clients |-> held[c]]
  /\ \A c \in Clients : held[c] # Nobody =>
       /\ held[c].id \in DOMAIN saved.vfs \ {Root}
       /\ held[c] = saved.vfs[held[c].id].entity

\* A pulled tree lists what it did from the start.
PulledTree ==
  txn = "pull" => vfs[Root].entity = head /\ \A i \in DOMAIN vfs : ListsIn(vfs, i)

SavedTree ==
  /\ saved = [vfs |-> saved.vfs, head |-> saved.head]
  /\ Whole(saved.vfs) /\ saved.head = saved.vfs[Root].entity
  /\ txn = "none" => vfs = saved.vfs /\ head = saved.head

TreeInv ==
  /\ Good(vfs) /\ SavedTree /\ PulledTree /\ HeldIsSaved
  /\ TreeOf(remote)
  /\ txn \in {"none", "write", "pull"}

\* A new volume has a root and nothing else (Vfs::create_new).
LEMMA InitIsTree == Init => TreeInv
<1> SUFFICES ASSUME Init PROVE TreeInv
  OBVIOUS
<1> DEFINE e == Directory(Root, "ROOT", {})
           T == [i \in {Root} |-> RootRow(e)]
<1>1. /\ vfs = T /\ head = e /\ saved = [vfs |-> vfs, head |-> head] /\ txn = "none"
      /\ held = [c \in Clients |-> Nobody] /\ remote = e
  BY DEF Init
<1>2. IsEntity(e) /\ e.id = Root /\ e.entries = {}
  BY DEF Directory, IsEntity
<1> HIDE DEF e
<1>3. /\ DOMAIN T = {Root} /\ T = [x \in DOMAIN T |-> T[x]]
      /\ IsRow(T[Root]) /\ T[Root].parent = Nobody /\ T[Root].entity = e /\ T[Root].dirty = FALSE
      /\ T[Root].path = <<>>
  BY DEF RootRow, IsRow
<1> HIDE DEF T
<1>4. Shape(T)
  BY <1>2, <1>3 DEF Shape, Inodes
<1>5. \A x : Children(T, x) \subseteq {Root} /\ (x \in DOMAIN T => Children(T, x) = {})
  BY <1>3 DEF Children, Inodes
<1>6. Grounded(T)
  <2> SUFFICES ASSUME NEW X \in SUBSET DOMAIN T, X # {}
               PROVE  T[Root].parent \notin X /\ Root \in X /\ Children(T, Root) \cap X = {}
    BY DEF Grounded
  <2> QED  BY <1>3, <1>5 DEF Inodes
<1>7. Marked(T)
  BY <1>2, <1>3, <1>5 DEF Marked, ListsIn
<1>8. Located(T)
  <2>1. Level(T, Root) = 0
    BY <1>4, RootHasNoAncestor, FS_EmptySet DEF Level
  <2>2. Chain(T, Root) = <<>>
    BY <2>1 DEF Chain
  <2> QED  BY <1>3, <2>2 DEF Located
<1>9. Whole(T)
  BY <1>3, <1>4, <1>6, <1>7, <1>8 DEF Whole, Good, AllClean
<1>10. TreeOf(remote)
  BY <1>1, <1>3, <1>9 DEF TreeOf
<1>11. Good(vfs) /\ SavedTree /\ PulledTree
  BY <1>1, <1>3, <1>9 DEF Whole, SavedTree, PulledTree
<1>12. HeldIsSaved
  BY <1>1 DEF HeldIsSaved
<1> QED  BY <1>1, <1>10, <1>11, <1>12 DEF TreeInv

\* Nothing is dirty when no dirty inode is without a dirty child.
LEMMA ReadyIsWhole ==
  ASSUME NEW T, Good(T),
         \A i \in DOMAIN T : T[i].dirty => \E x \in Children(T, i) : T[x].dirty
  PROVE  Whole(T)
<1> DEFINE X == {i \in DOMAIN T : T[i].dirty}
<1>1. CASE X # {}
  <2>1. PICK i \in X : Children(T, i) \cap X = {}
    BY <1>1 DEF Good, Grounded
  <2>2. PICK x \in Children(T, i) : T[x].dirty
    BY <2>1
  <2> QED  BY <2>1, <2>2 DEF Children
<1>2. CASE X = {}
  BY <1>2 DEF Whole, AllClean
<1> QED  BY <1>1, <1>2

\* A write transaction begins with a good tree.
LEMMA WriteIsTree ==
  ASSUME TreeInv, NEW T, Good(T), Write(T), HeldIsSaved'
  PROVE  TreeInv'
<1>1. vfs' = T /\ txn' = "write" /\ head' = head /\ saved' = saved /\ remote' = remote
  BY DEF Write
<1>2. Good(vfs') /\ SavedTree' /\ PulledTree' /\ TreeOf(remote')
  BY <1>1 DEF TreeInv, SavedTree, PulledTree
<1> QED  BY <1>1, <1>2 DEF TreeInv

\* Files and directories are created.
LEMMA CreateIsTree ==
  ASSUME TreeInv, NEW i \in Inodes, NEW p \in Dirs, NEW e, Create(i, p, e),
         IsEntity(e), e.id = i, e.entries = {}, e.name \in Names
  PROVE  TreeInv'
<1>1. i \in Inodes \ DOMAIN vfs /\ p \in DOMAIN vfs \cap Dirs /\ Write(Insert(vfs, i, p, e)) /\ held' = held
  BY DEF Create, Fresh
<1>2. Good(Insert(vfs, i, p, e))
  BY <1>1, InsertIsGood DEF TreeInv
<1>3. HeldIsSaved'
  BY <1>1 DEF TreeInv, HeldIsSaved, Write
<1> QED  BY <1>1, <1>2, <1>3, WriteIsTree

\* Vfs::update writes the entries the inode had when it was read: those it still has.
LEMMA UpdateIsTree ==
  ASSUME TreeInv, NEW c \in Clients, Update(c)
  PROVE  TreeInv'
<1> DEFINE i == held[c].id
<1>1. PICK e \in Changed(held[c]) :
        Write(SetEntity(vfs, i, e)) /\ held' = [held EXCEPT ![c] = Nobody]
  BY DEF Update
<1>2. /\ held[c] # Nobody /\ vfs = saved.vfs /\ Whole(vfs)
      /\ i \in DOMAIN vfs \ {Root} /\ held[c] = vfs[i].entity
  BY <1>1 DEF TreeInv, SavedTree, HeldIsSaved, Update, Write
<1>3. IsEntity(held[c]) /\ held[c].name \in Names /\ Shape(vfs) /\ ListsIn(vfs, i) /\ i \in Inodes
  BY <1>2, WholeLists DEF Whole, Good, Shape
<1>4. IsEntity(e) /\ e.id = i /\ e.name \in Names /\ e.entries = held[c].entries
  <2>1. CASE e \in {[held[c] EXCEPT !.name = n] : n \in Names \ {held[c].name}}
    BY <1>3, <2>1 DEF IsEntity
  <2>2. CASE e \in {[held[c] EXCEPT !.body = b] : b \in Bodies}
    BY <1>3, <2>2 DEF IsEntity
  <2> QED  BY <1>1, <2>1, <2>2 DEF Changed
<1>5. /\ i \in Files => e.entries = {}
      /\ i \in Dirs => e.entries = {vfs[x].entity : x \in Children(vfs, i)}
  BY <1>2, <1>3, <1>4 DEF ListsIn, Shape
<1>6. \A x \in Children(vfs, i) : ~vfs[x].dirty
  BY <1>2 DEF Whole, AllClean, Children
<1>7. Good(SetEntity(vfs, i, e))
  <2> HIDE DEF i
  <2> QED  BY <1>2, <1>4, <1>5, <1>6, SetEntityIsGood DEF Whole
<1>8. HeldIsSaved'
  BY <1>1 DEF TreeInv, HeldIsSaved, Write
<1> QED  BY <1>1, <1>7, <1>8, WriteIsTree

\* set_config rebuilds the tree of the commit it moves to.
LEMMA PullIsTree ==
  ASSUME TreeInv, Pull
  PROVE  TreeInv'
<1>1. PICK T : Whole(T) /\ T[Root].entity = remote
  BY DEF TreeInv, TreeOf
<1>2. /\ vfs' = Unfold(remote) /\ head' = remote /\ txn' = "pull"
      /\ saved' = saved /\ held' = held /\ remote' = remote
  BY DEF Pull
<1>3. /\ Good(Unfold(remote)) /\ Unfold(remote)[Root].entity = remote
      /\ \A i \in DOMAIN Unfold(remote) : ListsIn(Unfold(remote), i)
  BY <1>1, UnfoldIsGood
<1>4. PulledTree'
  BY <1>2, <1>3 DEF PulledTree, ListsIn, Children
<1>5. Good(vfs') /\ SavedTree' /\ HeldIsSaved' /\ TreeOf(remote')
  BY <1>2, <1>3 DEF TreeInv, SavedTree, HeldIsSaved
<1> QED  BY <1>2, <1>4, <1>5 DEF TreeInv

\* A dirty directory is written anew; one that a pull has brought stays the entity it was.
LEMMA ProcessIsTree ==
  ASSUME TreeInv, NEW i \in Inodes, ProcessDirtyInode(i)
  PROVE  TreeInv' /\ (txn = "pull" => vfs'[Root].entity = vfs[Root].entity)
<1> DEFINE entries == {vfs[x].entity : x \in Children(vfs, i)}
           e == [vfs[i].entity EXCEPT !.entries = entries]
<1>1. /\ vfs' = SetEntity(vfs, i, e) /\ txn # "none" /\ i \in DOMAIN vfs \cap Dirs
      /\ \A x \in Children(vfs, i) : ~vfs[x].dirty
      /\ head' = head /\ saved' = saved /\ txn' = txn /\ held' = held /\ remote' = remote
  BY DEF ProcessDirtyInode
<1>2. Good(vfs) /\ Shape(vfs)
  BY DEF TreeInv, Good
<1>3. IsEntity(e) /\ e.id = i /\ (i # Root => e.name \in Names) /\ e.name = vfs[i].entity.name
      /\ e.entries = entries
  <2>1. /\ IsEntity(vfs[i].entity) /\ vfs[i].entity.id = i
        /\ i # Root => vfs[i].entity.name \in Names
    BY <1>1, <1>2 DEF Shape
  <2> HIDE DEF entries
  <2> QED  BY <2>1 DEF IsEntity
<1>4. i \notin Files
  BY <1>1
<1>5. Good(SetEntity(vfs, i, e))
  <2> HIDE DEF e
  <2> QED  BY <1>1, <1>2, <1>3, <1>4, SetEntityIsGood
<1>6. SavedTree' /\ HeldIsSaved' /\ TreeOf(remote')
  BY <1>1 DEF TreeInv, SavedTree, HeldIsSaved
<1>7. ASSUME txn = "pull"
      PROVE  vfs'[Root].entity = vfs[Root].entity /\ \A x \in DOMAIN vfs' : ListsIn(vfs', x)
  <2>1. ListsIn(vfs, i)
    BY <1>1, <1>7 DEF TreeInv, PulledTree
  <2>2. e = vfs[i].entity
    <3>1. IsEntity(vfs[i].entity) /\ vfs[i].entity.entries = entries
      BY <1>1, <1>2, <2>1 DEF Shape, ListsIn
    <3> HIDE DEF entries
    <3> QED  BY <3>1 DEF IsEntity
  <2> HIDE DEF e
  <2>3. vfs' = [vfs EXCEPT ![i].entity = e, ![i].dirty = FALSE]
    BY <1>1, <2>2 DEF SetEntity
  <2>4. DOMAIN vfs' = DOMAIN vfs /\ vfs' = [x \in DOMAIN vfs' |-> vfs'[x]]
    <3> DEFINE V == [vfs EXCEPT ![i].entity = e, ![i].dirty = FALSE]
    <3>1. vfs = [x \in DOMAIN vfs |-> vfs[x]]
      BY <1>2 DEF Shape
    <3>2. DOMAIN V = DOMAIN vfs /\ V = [x \in DOMAIN V |-> V[x]]
      BY <3>1
    <3> HIDE DEF V
    <3>3. vfs' = V
      BY <2>3 DEF V
    <3> QED  BY <3>2, <3>3
  <2>5. ASSUME NEW x \in DOMAIN vfs
        PROVE  IsRow(vfs'[x]) /\ vfs'[x].parent = vfs[x].parent /\ vfs'[x].entity = vfs[x].entity
    <3>1. IsRow(vfs[x])
      BY <1>2 DEF Shape
    <3>2. CASE x = i
      <4>1. vfs'[i] = [vfs[i] EXCEPT !.entity = e, !.dirty = FALSE]
        BY <1>1, <2>3
      <4> QED  BY <2>2, <3>1, <3>2, <4>1 DEF IsRow
    <3>3. CASE x # i
      <4>1. vfs'[x] = vfs[x]
        BY <2>3, <3>3
      <4> QED  BY <3>1, <4>1
    <3> QED  BY <3>2, <3>3
  <2>6. SameTree(vfs, vfs')
    BY <2>4, <2>5 DEF SameTree
  <2>7. \A x \in DOMAIN vfs : ListsIn(vfs', x) <=> ListsIn(vfs, x)
    BY <1>2, <2>6, SameTreeSame DEF Good
  <2> QED  BY <1>2, <1>7, <2>4, <2>5, <2>7 DEF TreeInv, PulledTree, Shape
<1>8. PulledTree'
  BY <1>1, <1>7 DEF TreeInv, PulledTree, ListsIn, Children
<1> HIDE DEF e
<1> QED  BY <1>1, <1>5, <1>6, <1>7, <1>8 DEF TreeInv

\* Transaction::commit ends its loop with a tree that has no dirty row, and after a pull with the same root.
LEMMA CommitIsTree ==
  ASSUME ~StaleUpdates, TreeInv, Commit
  PROVE  TreeInv' /\ Whole(vfs) /\ (txn = "pull" => head' = head)
<1>1. /\ Ready /\ head' = vfs[Root].entity /\ saved' = [vfs |-> vfs, head |-> head'] /\ txn' = "none"
      /\ held' = [c \in Clients |-> IF StillCurrent(held[c]) THEN held[c] ELSE Nobody]
      /\ vfs' = vfs /\ remote' = remote
  BY DEF Commit
<1>2. Whole(vfs)
  BY <1>1, ReadyIsWhole DEF TreeInv, Ready
<1>3. SavedTree' /\ PulledTree'
  BY <1>1, <1>2 DEF SavedTree, PulledTree
<1>4. HeldIsSaved'
  <2> SUFFICES ASSUME NEW c \in Clients, held'[c] # Nobody
               PROVE  held'[c].id \in DOMAIN vfs \ {Root} /\ held'[c] = vfs[held'[c].id].entity
    BY <1>1 DEF HeldIsSaved
  <2>1. held'[c] = held[c] /\ StillCurrent(held[c]) /\ held[c] # Nobody
    BY <1>1
  <2> QED  BY <2>1 DEF StillCurrent, TreeInv, HeldIsSaved
<1>5. txn = "pull" => head' = head
  BY <1>1 DEF TreeInv, PulledTree
<1> QED  BY <1>1, <1>2, <1>3, <1>4, <1>5 DEF TreeInv

\* Every step keeps the invariant.
LEMMA NextIsTree ==
  ASSUME ~StaleUpdates, TreeInv, [Next]_vars
  PROVE  TreeInv'
<1>1. CASE CreateFile
  <2>1. PICK i \in Files, p \in Dirs, n \in Names, b \in Bodies : Create(i, p, File(i, n, b))
    BY <1>1 DEF CreateFile
  <2>2. LET e == File(i, n, b) IN IsEntity(e) /\ e.id = i /\ e.entries = {} /\ e.name \in Names
    BY DEF File, IsEntity
  <2> QED  BY <2>1, <2>2, CreateIsTree DEF Inodes
<1>2. CASE CreateDir
  <2>1. PICK i \in Dirs, p \in Dirs, n \in Names : Create(i, p, Directory(i, n, {}))
    BY <1>2 DEF CreateDir
  <2>2. LET e == Directory(i, n, {}) IN IsEntity(e) /\ e.id = i /\ e.entries = {} /\ e.name \in Names
    BY DEF Directory, IsEntity
  <2> QED  BY <2>1, <2>2, CreateIsTree DEF Inodes
<1>3. ASSUME NEW i \in Inodes, Delete(i) PROVE TreeInv'
  <2>1. i \in DOMAIN vfs \ {Root} /\ Write(Remove(vfs, i)) /\ held' = held
    BY <1>3 DEF Delete
  <2>2. Good(Remove(vfs, i))
    BY <2>1, RemoveIsGood DEF TreeInv
  <2>3. HeldIsSaved'
    BY <2>1 DEF TreeInv, HeldIsSaved, Write
  <2> QED  BY <2>1, <2>2, <2>3, WriteIsTree
<1>4. ASSUME NEW i \in Inodes, ProcessDirtyInode(i) PROVE TreeInv'
  BY <1>4, ProcessIsTree
<1>5. ASSUME NEW i \in Inodes, NEW p \in Dirs, Mv(i, p) PROVE TreeInv'
  <2>1. i \in DOMAIN vfs \ {Root} /\ p \in DOMAIN vfs \cap Dirs /\ NoLoop(vfs, i, p)
        /\ Write(Reparent(vfs, i, p)) /\ held' = held
    BY <1>5 DEF Mv
  <2>2. Good(Reparent(vfs, i, p))
    BY <2>1, ReparentIsGood DEF TreeInv
  <2>3. HeldIsSaved'
    BY <2>1 DEF TreeInv, HeldIsSaved, Write
  <2> QED  BY <2>1, <2>2, <2>3, WriteIsTree
<1>6. ASSUME NEW c \in Clients, NEW i \in Inodes, Read(c, i) PROVE TreeInv'
  <2>1. /\ i \in DOMAIN saved.vfs \ {Root} /\ held' = [held EXCEPT ![c] = saved.vfs[i].entity]
        /\ UNCHANGED <<vfs, head, saved, txn, remote>>
    BY <1>6 DEF Read
  <2>2. saved.vfs[i].entity.id = i
    BY <2>1 DEF TreeInv, SavedTree, Whole, Good, Shape
  <2>3. HeldIsSaved'
    BY <2>1, <2>2 DEF TreeInv, HeldIsSaved
  <2>4. Good(vfs') /\ SavedTree' /\ PulledTree' /\ TreeOf(remote')
    BY <2>1 DEF TreeInv, SavedTree, PulledTree
  <2> QED  BY <2>1, <2>3, <2>4 DEF TreeInv
<1>7. ASSUME NEW c \in Clients, Update(c) PROVE TreeInv'
  BY <1>7, UpdateIsTree
<1>8. CASE Pull
  BY <1>8, PullIsTree
<1>9. CASE Publish
  <2>1. remote' = saved.head /\ UNCHANGED <<vfs, head, saved, txn, held>>
    BY <1>9 DEF Publish
  <2>2. TreeOf(remote')
    BY <2>1 DEF TreeInv, SavedTree, TreeOf
  <2>3. Good(vfs') /\ SavedTree' /\ PulledTree' /\ HeldIsSaved'
    BY <2>1 DEF TreeInv, SavedTree, PulledTree, HeldIsSaved
  <2> QED  BY <2>1, <2>2, <2>3 DEF TreeInv
<1>10. CASE Commit
  BY <1>10, CommitIsTree
<1>11. CASE Rollback
  <2>1. vfs' = saved.vfs /\ head' = saved.head /\ txn' = "none" /\ UNCHANGED <<saved, held, remote>>
    BY <1>11 DEF Rollback
  <2>2. Good(vfs') /\ SavedTree' /\ PulledTree' /\ HeldIsSaved' /\ TreeOf(remote')
    BY <2>1 DEF TreeInv, SavedTree, Whole, PulledTree, HeldIsSaved
  <2> QED  BY <2>1, <2>2 DEF TreeInv
<1>12. CASE UNCHANGED vars
  <2>1. UNCHANGED <<vfs, head, saved, txn, held, remote>>
    BY <1>12 DEF vars
  <2>2. Good(vfs') /\ SavedTree' /\ PulledTree' /\ HeldIsSaved' /\ TreeOf(remote')
    BY <2>1 DEF TreeInv, SavedTree, PulledTree, HeldIsSaved
  <2> QED  BY <2>1, <2>2 DEF TreeInv
<1> QED  BY <1>1, <1>2, <1>3, <1>4, <1>5, <1>6, <1>7, <1>8, <1>9, <1>10, <1>11, <1>12 DEF Next

\* The invariant, for callers that update by what is current.
LEMMA TreeIsInvariant ==
  ASSUME ~StaleUpdates
  PROVE  Spec => []TreeInv
<1>1. Init => TreeInv
  BY InitIsTree
<1>2. TreeInv /\ [Next]_vars => TreeInv'
  BY NextIsTree
<1> QED  BY <1>1, <1>2, PTL DEF Spec

\* However inodes are created, moved, renamed and deleted, a directory whose entity does not list its children as
\* they are is dirty, and so is all above: the triggers vfs_mark_dirty_inodes miss nothing.
THEOREM StaleMarked ==
  ASSUME ~StaleUpdates
  PROVE  Spec => []StaleIsDirty
<1>1. TreeInv => StaleIsDirty
  BY DEF TreeInv, Good, Marked, StaleIsDirty, ListsIn, Lists
<1> QED  BY <1>1, TreeIsInvariant, PTL

\* Whenever no transaction is open, the head commit's root entity, unfolded, is the table of inodes row by row
\* (Transaction::commit, update_commit).
THEOREM CommitIsTheTree ==
  ASSUME ~StaleUpdates
  PROVE  Spec => []TreeIsCommitted
<1>1. TreeInv => TreeIsCommitted
  <2> SUFFICES ASSUME TreeInv, txn = "none"
               PROVE  /\ \A i \in DOMAIN vfs : ~vfs[i].dirty
                      /\ {vfs[i].entity : i \in DOMAIN vfs} = Closure(head)
                      /\ \A i \in DOMAIN vfs \ {Root} : vfs[i].entity \in vfs[vfs[i].parent].entity.entries
    BY DEF TreeIsCommitted
  <2>1. Whole(vfs) /\ head = vfs[Root].entity /\ Shape(vfs)
    BY DEF TreeInv, SavedTree, Good
  <2>2. {vfs[i].entity : i \in DOMAIN vfs} = Closure(head)
    BY <2>1, ClosureOfTree
  <2>3. ASSUME NEW i \in DOMAIN vfs \ {Root} PROVE vfs[i].entity \in vfs[vfs[i].parent].entity.entries
    <3>1. vfs[i].parent \in DOMAIN vfs
      BY <2>1 DEF Shape
    <3> QED  BY <2>1, <3>1, WholeLists DEF ListsIn, Children
  <2> QED  BY <2>1, <2>2, <2>3 DEF Whole, AllClean
<1> QED  BY <1>1, TreeIsInvariant, PTL

\* The path column is the names from the root, after every statement (vfs_update_inode_path_on_update_recursive).
THEOREM PathsAreNames ==
  ASSUME ~StaleUpdates
  PROVE  Spec => []PathsFollowNames
<1>1. TreeInv => PathsFollowNames
  BY DEF TreeInv, Good, Located, PathsFollowNames
<1> QED  BY <1>1, TreeIsInvariant, PTL

\* A pull that rebuilt the tree commits the very root it was told to, although it wrote every directory anew
\* (set_config, process_dirty_inode).
THEOREM PullsKeepTheCommit ==
  ASSUME ~StaleUpdates
  PROVE  Spec => PulledAsCommitted
<1>1. TreeInv /\ [Next]_vars => [Commit /\ txn = "pull" => head' = head]_vars
  BY CommitIsTree
<1> QED  BY <1>1, TreeIsInvariant, PTL DEF Spec, PulledAsCommitted

\* Rows keep their shape: a parent is a directory in the table, a file is never dirty (DirtyFile does not
\* arise), and between transactions the table is what was committed.
THEOREM RowsKeepTheirShape ==
  ASSUME ~StaleUpdates
  PROVE  Spec => []TypeOK
<1>1. TreeInv => TypeOK
  <2> SUFFICES ASSUME TreeInv PROVE TypeOK
    OBVIOUS
  <2>1. /\ Root \in DOMAIN vfs /\ DOMAIN vfs \subseteq Inodes
        /\ \A i \in DOMAIN vfs :
             /\ vfs[i].parent \in IF i = Root THEN {Nobody} ELSE DOMAIN vfs \cap Dirs
             /\ vfs[i].entity.id = i /\ (i # Root => vfs[i].entity.name \in Names)
             /\ vfs[i].dirty \in IF i \in Files THEN {FALSE} ELSE BOOLEAN
    BY DEF TreeInv, Good, Shape
  <2>2. txn = "none" => saved = [vfs |-> vfs, head |-> head]
    BY DEF TreeInv, SavedTree
  <2> QED  BY <2>1, <2>2 DEF TypeOK, TreeInv
<1> QED  BY <1>1, TreeIsInvariant, PTL

\* A row's path is its parent's path column and its name, as the trigger computes it, at all times.
PathsGrowByNames ==
  \A i \in DOMAIN vfs \ {Root} : vfs[i].path = Append(vfs[vfs[i].parent].path, vfs[i].entity.name)

\* So it is after every statement, and not only right after the row's own path was computed.
THEOREM PathsAreParentsPaths ==
  ASSUME ~StaleUpdates
  PROVE  Spec => []PathsGrowByNames
<1>1. TreeInv => PathsGrowByNames
  <2> SUFFICES ASSUME TreeInv, NEW i \in DOMAIN vfs \ {Root}
               PROVE  vfs[i].path = Append(vfs[vfs[i].parent].path, vfs[i].entity.name)
    BY DEF PathsGrowByNames
  <2>1. Shape(vfs) /\ Grounded(vfs) /\ Located(vfs) /\ vfs[i].parent \in DOMAIN vfs
    BY DEF TreeInv, Good, Shape
  <2>2. Chain(vfs, i) = Append(Chain(vfs, vfs[i].parent), vfs[i].entity.name)
    BY <2>1, ChainStep
  <2> QED  BY <2>1, <2>2 DEF Located
<1> QED  BY <1>1, TreeIsInvariant, PTL
=============================================================================
