-------------------------- MODULE ComponentsProofs --------------------------
(***************************************************************************)
(* Proofs about the components that share nothing, for any commands and    *)
(* requests: snapshots, powering and customizing, affinity rules, finding  *)
(* an address, what a customization spec says, what the names of port      *)
(* groups tell, and then all of them in one invariant.  Names begin with   *)
(* the part they are about (Sn, Pw, Ru, Ad, Cs, Nw).  What is proved of    *)
(* reconfigurations and saves is in modules of their own.                  *)
(***************************************************************************)
EXTENDS Components, FiniteSetTheorems, SequenceTheorems, WellFoundedInduction, TLAPS

LEMMA Least ==
    ASSUME NEW T, T \subseteq Nat, T # {}
    PROVE  \E x \in T : \A y \in T : x <= y
<1> DEFINE I == {0 .. n : n \in T}
<1>1. I \subseteq FiniteSubsetsOf(Nat) /\ I # {}
  <2>1. ASSUME NEW n \in T PROVE 0 .. n \in FiniteSubsetsOf(Nat)
    <3>1. 0 \in Int /\ n \in Int
      OBVIOUS
    <3>2. IsFiniteSet(0 .. n)
      BY <3>1, FS_Interval
    <3>3. 0 .. n \in SUBSET Nat
      OBVIOUS
    <3> QED BY <3>2, <3>3 DEF FiniteSubsetsOf
  <2> QED BY <2>1
<1>2. PICK i \in I : \A j \in I : <<j, i>> \notin StrictSubsetOrdering(Nat)
  BY <1>1, FS_StrictSubsetOrderingWellFounded, WFMin
<1>3. PICK x \in T : i = 0 .. x
  OBVIOUS
<1>4. ASSUME NEW y \in T, y < x PROVE FALSE
  <2>1. 0 .. y \in I /\ 0 .. y \subseteq 0 .. x /\ 0 .. y # 0 .. x
    <3>1. x \in 0 .. x /\ x \notin 0 .. y
      BY <1>4
    <3> QED BY <1>4, <3>1
  <2>2. <<0 .. y, 0 .. x>> \in StrictSubsetOrdering(Nat)
    BY <2>1, <1>3 DEF StrictSubsetOrdering
  <2> QED BY <1>2, <1>3, <2>1, <2>2
<1> QED BY <1>4

LEMMA Induction ==
    ASSUME NEW S, 0 \in S, \A n \in Nat : n \in S => n + 1 \in S
    PROVE  Nat \subseteq S
<1> SUFFICES ASSUME Nat \ S # {} PROVE FALSE
  OBVIOUS
<1>1. PICK x \in Nat \ S : \A y \in Nat \ S : x <= y
  BY Least
<1>2. x - 1 \in Nat /\ x - 1 \notin Nat \ S
  BY <1>1
<1> QED BY <1>1, <1>2

-----------------------------------------------------------------------------
(* The tree: parents are made before their children.                       *)
SnGrown(tree, n) ==
    /\ n \in Nat /\ DOMAIN tree \subseteq 1 .. n
    /\ \A s \in DOMAIN tree :
          /\ tree[s].parent \in {0} \cup DOMAIN tree
          /\ tree[s].parent < s

SnPathFrom(tree, f, s) ==
    IF tree[s].parent = 0 THEN tree[s].name ELSE f[tree[s].parent] \o tree[s].name

SnUpTo(tree, n) == {s \in DOMAIN tree : s <= n}

LEMMA SnPathExists ==
    ASSUME NEW tree, NEW n, SnGrown(tree, n)
    PROVE  \E f : f = [s \in DOMAIN tree |-> SnPathFrom(tree, f, s)]
<1> DEFINE S == {k \in Nat : \E f : f = [s \in SnUpTo(tree, k) |-> SnPathFrom(tree, f, s)]}
<1>1. 0 \in S
  <2>1. SnUpTo(tree, 0) = {}
    BY DEF SnUpTo, SnGrown
  <2> DEFINE f == [s \in {} |-> 0]
  <2>2. f = [s \in SnUpTo(tree, 0) |-> SnPathFrom(tree, f, s)]
    BY <2>1
  <2> QED BY <2>2
<1>2. ASSUME NEW k \in Nat, k \in S PROVE k + 1 \in S
  <2>1. PICK f : f = [s \in SnUpTo(tree, k) |-> SnPathFrom(tree, f, s)]
    BY <1>2
  <2> DEFINE g == [s \in SnUpTo(tree, k + 1) |-> SnPathFrom(tree, f, s)]
  <2>2. ASSUME NEW s \in SnUpTo(tree, k + 1) PROVE g[s] = SnPathFrom(tree, g, s)
    <3>1. CASE tree[s].parent = 0
      BY <3>1 DEF SnPathFrom
    <3>2. CASE tree[s].parent # 0
      <4>1. tree[s].parent \in SnUpTo(tree, k) /\ tree[s].parent \in SnUpTo(tree, k + 1)
        BY <2>2, <3>2 DEF SnUpTo, SnGrown
      <4>2. g[tree[s].parent] = f[tree[s].parent]
        <5>1. PICK t : t = tree[s].parent
          OBVIOUS
        <5>2. f[t] = SnPathFrom(tree, f, t) /\ g[t] = SnPathFrom(tree, f, t)
          BY <2>1, <4>1, <5>1
        <5> QED BY <5>1, <5>2
      <4> QED BY <4>2 DEF SnPathFrom
    <3> QED BY <3>1, <3>2
  <2> HIDE DEF g
  <2>3. g = [s \in SnUpTo(tree, k + 1) |-> SnPathFrom(tree, g, s)]
    BY <2>2 DEF g
  <2> QED BY <2>3
<1>3. n \in S
  <2>1. n \in Nat
    BY DEF SnGrown
  <2> HIDE DEF S
  <2> QED BY <1>1, <1>2, <2>1, Induction
<1>4. SnUpTo(tree, n) = DOMAIN tree
  BY DEF SnUpTo, SnGrown
<1> QED BY <1>3, <1>4

(* The path of a snapshot is its parent's and its name.                    *)
LEMMA SnPathOf ==
    ASSUME NEW tree, NEW n, SnGrown(tree, n), NEW s \in DOMAIN tree
    PROVE  Snaps!Path(tree)[s] = SnPathFrom(tree, Snaps!Path(tree), s)
<1>1. Snaps!Path(tree) = CHOOSE f : f = [t \in DOMAIN tree |-> SnPathFrom(tree, f, t)]
  BY DEF Snaps!Path, SnPathFrom
<1>2. PICK f : f = Snaps!Path(tree)
  OBVIOUS
<1>3. f = [t \in DOMAIN tree |-> SnPathFrom(tree, f, t)]
  BY <1>1, <1>2, SnPathExists
<1> QED BY <1>2, <1>3

(* Paths stay as they are when a tree grows or is cut.                     *)
LEMMA SnPathsKept ==
    ASSUME NEW tree, NEW sub, NEW n, NEW m, SnGrown(tree, n), SnGrown(sub, m),
           DOMAIN sub \subseteq DOMAIN tree, \A s \in DOMAIN sub : sub[s] = tree[s]
    PROVE  \A s \in DOMAIN sub : Snaps!Path(sub)[s] = Snaps!Path(tree)[s]
<1> DEFINE S == {k \in Nat : \A s \in SnUpTo(sub, k) : Snaps!Path(sub)[s] = Snaps!Path(tree)[s]}
<1>1. 0 \in S
  BY DEF SnUpTo, SnGrown
<1>2. ASSUME NEW k \in Nat, k \in S PROVE k + 1 \in S
  <2>1. ASSUME NEW s \in SnUpTo(sub, k + 1) PROVE Snaps!Path(sub)[s] = Snaps!Path(tree)[s]
    <3>1. s \in DOMAIN sub /\ s \in DOMAIN tree /\ sub[s] = tree[s]
      BY <2>1 DEF SnUpTo
    <3>2. /\ Snaps!Path(sub)[s] = SnPathFrom(sub, Snaps!Path(sub), s)
          /\ Snaps!Path(tree)[s] = SnPathFrom(tree, Snaps!Path(tree), s)
      BY <3>1, SnPathOf
    <3>3. sub[s].parent # 0 => sub[s].parent \in SnUpTo(sub, k)
      BY <2>1, <3>1 DEF SnUpTo, SnGrown
    <3>4. sub[s].parent # 0 => Snaps!Path(sub)[sub[s].parent] = Snaps!Path(tree)[sub[s].parent]
      BY <1>2, <3>3
    <3> QED BY <3>1, <3>2, <3>4 DEF SnPathFrom
  <2> QED BY <2>1
<1>3. m \in S
  <2>1. m \in Nat
    BY DEF SnGrown
  <2> HIDE DEF S
  <2> QED BY <1>1, <1>2, <2>1, Induction
<1> QED BY <1>3 DEF SnUpTo, SnGrown

(* The subtree of a snapshot: it, and all whose parent is in it; its        *)
(* members are not older.                                                  *)
SnInside(tree, f, s, t) == t = s \/ (tree[t].parent # 0 /\ f[tree[t].parent])

LEMMA SnInsideExists ==
    ASSUME NEW tree, NEW n, SnGrown(tree, n), NEW s
    PROVE  \E f : f = [t \in DOMAIN tree |-> SnInside(tree, f, s, t)]
<1> DEFINE S == {k \in Nat : \E f : f = [t \in SnUpTo(tree, k) |-> SnInside(tree, f, s, t)]}
<1>1. 0 \in S
  <2>1. SnUpTo(tree, 0) = {}
    BY DEF SnUpTo, SnGrown
  <2> DEFINE f == [t \in {} |-> 0]
  <2>2. f = [t \in SnUpTo(tree, 0) |-> SnInside(tree, f, s, t)]
    BY <2>1
  <2> QED BY <2>2
<1>2. ASSUME NEW k \in Nat, k \in S PROVE k + 1 \in S
  <2>1. PICK f : f = [t \in SnUpTo(tree, k) |-> SnInside(tree, f, s, t)]
    BY <1>2
  <2> DEFINE g == [t \in SnUpTo(tree, k + 1) |-> SnInside(tree, f, s, t)]
  <2>2. ASSUME NEW t \in SnUpTo(tree, k + 1) PROVE g[t] = SnInside(tree, g, s, t)
    <3>1. CASE tree[t].parent = 0
      BY <3>1 DEF SnInside
    <3>2. CASE tree[t].parent # 0
      <4>1. tree[t].parent \in SnUpTo(tree, k) /\ tree[t].parent \in SnUpTo(tree, k + 1)
        BY <2>2, <3>2 DEF SnUpTo, SnGrown
      <4>2. g[tree[t].parent] = f[tree[t].parent]
        <5>1. PICK u : u = tree[t].parent
          OBVIOUS
        <5>2. f[u] = SnInside(tree, f, s, u) /\ g[u] = SnInside(tree, f, s, u)
          BY <2>1, <4>1, <5>1
        <5> QED BY <5>1, <5>2
      <4> QED BY <4>2 DEF SnInside
    <3> QED BY <3>1, <3>2
  <2> HIDE DEF g
  <2>3. g = [t \in SnUpTo(tree, k + 1) |-> SnInside(tree, g, s, t)]
    BY <2>2 DEF g
  <2> QED BY <2>3
<1>3. n \in S
  <2>1. n \in Nat
    BY DEF SnGrown
  <2> HIDE DEF S
  <2> QED BY <1>1, <1>2, <2>1, Induction
<1>4. SnUpTo(tree, n) = DOMAIN tree
  BY DEF SnUpTo, SnGrown
<1> QED BY <1>3, <1>4

LEMMA SnUnderOf ==
    ASSUME NEW tree, NEW n, SnGrown(tree, n), NEW s \in DOMAIN tree
    PROVE  /\ Snaps!Under(tree, s) \subseteq DOMAIN tree /\ s \in Snaps!Under(tree, s)
           /\ \A t \in DOMAIN tree :
                 t \in Snaps!Under(tree, s)
                     <=> t = s \/ (tree[t].parent # 0 /\ tree[t].parent \in Snaps!Under(tree, s))
<1> DEFINE I == CHOOSE f : f = [t \in DOMAIN tree |-> SnInside(tree, f, s, t)]
<1>1. Snaps!Under(tree, s) = {t \in DOMAIN tree : I[t]}
  BY DEF Snaps!Under, SnInside
<1>2. PICK f : f = I
  OBVIOUS
<1>3. f = [t \in DOMAIN tree |-> SnInside(tree, f, s, t)]
  BY <1>2, SnInsideExists
<1>4. Snaps!Under(tree, s) = {t \in DOMAIN tree : f[t]}
  BY <1>1, <1>2
<1> HIDE DEF I
<1>5. \A t \in DOMAIN tree : tree[t].parent \in {0} \cup DOMAIN tree
  BY DEF SnGrown
<1>6. \A t \in DOMAIN tree : f[t] = SnInside(tree, f, s, t)
  BY <1>3
<1> QED BY <1>4, <1>5, <1>6 DEF SnInside

(* A subtree has nothing older than its root.                              *)
LEMMA SnUnderIsYounger ==
    ASSUME NEW tree, NEW n, SnGrown(tree, n), NEW s \in DOMAIN tree
    PROVE  \A t \in Snaps!Under(tree, s) : s <= t
<1> DEFINE S == {k \in Nat : \A t \in Snaps!Under(tree, s) : t <= k => s <= t}
<1>0. /\ Snaps!Under(tree, s) \subseteq DOMAIN tree /\ DOMAIN tree \subseteq Nat
      /\ \A t \in DOMAIN tree : t # 0 /\ tree[t].parent \in {0} \cup DOMAIN tree
                                /\ tree[t].parent < t
  <2>1. DOMAIN tree \subseteq Nat /\ \A t \in DOMAIN tree : t # 0
    BY DEF SnGrown
  <2>2. \A t \in DOMAIN tree : tree[t].parent \in {0} \cup DOMAIN tree /\ tree[t].parent < t
    BY DEF SnGrown
  <2> QED BY <2>1, <2>2, SnUnderOf
<1>1. 0 \in S
  BY <1>0
<1>2. ASSUME NEW k \in Nat, k \in S PROVE k + 1 \in S
  <2>1. ASSUME NEW t \in Snaps!Under(tree, s), t <= k + 1 PROVE s <= t
    <3>1. t = s \/ (tree[t].parent # 0 /\ tree[t].parent \in Snaps!Under(tree, s))
      BY <1>0, <2>1, SnUnderOf
    <3>2. CASE tree[t].parent # 0 /\ tree[t].parent \in Snaps!Under(tree, s)
      <4>1. tree[t].parent <= k /\ tree[t].parent \in Nat /\ t \in Nat /\ s \in Nat
        BY <1>0, <2>1, <3>2
      <4>2. s <= tree[t].parent
        BY <1>2, <3>2, <4>1
      <4> QED BY <1>0, <2>1, <4>1, <4>2
    <3> QED BY <1>0, <3>1, <3>2
  <2> QED BY <2>1
<1>3. n \in S
  <2>1. n \in Nat
    BY DEF SnGrown
  <2> HIDE DEF S
  <2> QED BY <1>1, <1>2, <2>1, Induction
<1> QED BY <1>0, <1>3 DEF SnGrown

-----------------------------------------------------------------------------
SnIsJob(j) ==
    /\ j \in [pc : {j.pc}, ask : {j.ask}, path : {j.path}, snap : Nat, tree : {j.tree},
              hints : {j.hints}]
    /\ j.ask.do \in Snaps!Kinds
    /\ j.pc \in {"new", "look", "take", "list", "find", "restore", "remove"} \cup Snaps!Over
    /\ j.pc = "new" => j.ask.do = "list"
    /\ j.pc \in {"look", "take"} => j.ask.do = "create"
    /\ j.pc \notin {"look", "take"} \cup Snaps!Over => j.ask.do # "create"

SnTypes ==
    /\ job = [c \in Cmds |-> job[c]]
    /\ \A c \in Cmds : SnIsJob(job[c])
    /\ SnGrown(snaps, made) /\ current \in {0} \cup DOMAIN snaps
    /\ \A s \in DOMAIN snaps : snaps[s] \in [name : {snaps[s].name}, parent : Nat]
    /\ tangled \in BOOLEAN

SnActive(j) == j.pc \notin {"new"} \cup Snaps!Over
SnAlone == \A c, d \in Cmds : SnActive(job[c]) /\ SnActive(job[d]) => c = d

(* No two snapshots have a path in common.                                 *)
SnDistinct == \A s, t \in DOMAIN snaps : Snaps!Path(snaps)[s] = Snaps!Path(snaps)[t] => s = t

(* The path that is free is still the one the snapshot will have.          *)
SnLooked(j) == j.pc = "take" => j.path = Snaps!NewPath(j.ask.name) /\ Snaps!AtPath(j.path) = {}

SnNumbered(j) == j.pc = "done" /\ j.ask.do = "create" => j.snap <= made
SnTold(j) ==
    j.pc = "done" /\ j.ask.do = "create" /\ j.snap \in DOMAIN snaps
        => Snaps!Path(snaps)[j.snap] = j.path

SnUntangled == SnAlone /\ SnDistinct /\ \A c \in Cmds : SnLooked(job[c]) /\ SnTold(job[c])

SnIInv ==
    /\ SnTypes
    /\ \A c \in Cmds : SnNumbered(job[c])
    /\ ~tangled => SnUntangled

-----------------------------------------------------------------------------
LEMMA SnMoved ==
    ASSUME SnTypes, NEW c \in Cmds, NEW j, SnIsJob(j), Snaps!Update(c, j)
    PROVE  /\ job' = [d \in Cmds |-> job'[d]]
           /\ job'[c] = j /\ \A d \in Cmds \ {c} : job'[d] = job[d]
           /\ \A d \in Cmds : SnIsJob(job'[d])
<1>1. job' = [d \in Cmds |-> job'[d]] /\ job'[c] = j /\ \A d \in Cmds \ {c} : job'[d] = job[d]
  BY DEF Snaps!Update, SnTypes
<1> QED BY <1>1 DEF SnTypes

(* The locals after a step.                                                *)
SnLocals(j, p, a, l, s) ==
    j \in [pc : {p}, ask : {a}, path : {l}, snap : {s}, tree : {j.tree}, hints : {j.hints}]

LEMMA SnJobAfter ==
    ASSUME NEW k, NEW p, NEW a, NEW l, NEW s \in Nat, SnLocals(k, p, a, l, s),
           a.do \in Snaps!Kinds,
           p \in {"look", "take", "list", "find", "restore", "remove"} \cup Snaps!Over,
           p \in {"look", "take"} => a.do = "create",
           p \notin {"look", "take"} \cup Snaps!Over => a.do # "create"
    PROVE  SnIsJob(k) /\ k.pc = p /\ k.ask = a /\ k.path = l /\ k.snap = s
<1>1. k.pc = p /\ k.ask = a /\ k.path = l /\ k.snap = s
  BY DEF SnLocals
<1>2. k \in [pc : {k.pc}, ask : {k.ask}, path : {k.path}, snap : Nat, tree : {k.tree},
             hints : {k.hints}]
  BY <1>1 DEF SnLocals
<1> QED BY <1>1, <1>2 DEF SnIsJob, Snaps!Over

LEMMA SnGoes ==
    ASSUME NEW j, SnIsJob(j), NEW p
    PROVE  SnLocals([j EXCEPT !.pc = p], p, j.ask, j.path, j.snap)
<1>1. j \in [pc : {j.pc}, ask : {j.ask}, path : {j.path}, snap : Nat, tree : {j.tree},
             hints : {j.hints}]
  BY DEF SnIsJob
<1> QED BY <1>1 DEF SnLocals

LEMMA SnGoesFor ==
    ASSUME NEW j, SnIsJob(j), NEW p, NEW l
    PROVE  SnLocals([j EXCEPT !.pc = p, !.path = l], p, j.ask, l, j.snap)
<1>1. j \in [pc : {j.pc}, ask : {j.ask}, path : {j.path}, snap : Nat, tree : {j.tree},
             hints : {j.hints}]
  BY DEF SnIsJob
<1> QED BY <1>1 DEF SnLocals

LEMMA SnGoesWith ==
    ASSUME NEW j, SnIsJob(j), NEW p, NEW s
    PROVE  SnLocals([j EXCEPT !.pc = p, !.snap = s], p, j.ask, j.path, s)
<1>1. j \in [pc : {j.pc}, ask : {j.ask}, path : {j.path}, snap : Nat, tree : {j.tree},
             hints : {j.hints}]
  BY DEF SnIsJob
<1> QED BY <1>1 DEF SnLocals

LEMMA SnBegins ==
    ASSUME NEW j, SnIsJob(j), NEW p, NEW r, NEW l
    PROVE  SnLocals([j EXCEPT !.ask = r, !.path = l, !.pc = p], p, r, l, j.snap)
<1>1. j \in [pc : {j.pc}, ask : {j.ask}, path : {j.path}, snap : Nat, tree : {j.tree},
             hints : {j.hints}]
  BY DEF SnIsJob
<1> QED BY <1>1 DEF SnLocals

LEMMA SnLists ==
    ASSUME NEW j, SnIsJob(j), NEW p, NEW t, NEW h
    PROVE  SnLocals([j EXCEPT !.pc = p, !.tree = t, !.hints = h], p, j.ask, j.path, j.snap)
<1>1. j \in [pc : {j.pc}, ask : {j.ask}, path : {j.path}, snap : Nat, tree : {j.tree},
             hints : {j.hints}]
  BY DEF SnIsJob
<1> QED BY <1>1 DEF SnLocals

LEMMA SnBefore ==
    ASSUME SnIInv, NEW c \in Cmds
    PROVE  /\ SnTypes /\ SnIsJob(job[c]) /\ job[c].snap \in Nat /\ job[c].ask.do \in Snaps!Kinds
           /\ SnGrown(snaps, made) /\ made \in Nat /\ current \in {0} \cup DOMAIN snaps
           /\ SnNumbered(job[c])
           /\ ~tangled => SnUntangled
<1>1. SnTypes /\ SnIsJob(job[c]) /\ SnNumbered(job[c]) /\ (~tangled => SnUntangled)
  BY DEF SnIInv, SnTypes
<1>2. job[c].snap \in Nat /\ job[c].ask.do \in Snaps!Kinds
  BY <1>1 DEF SnIsJob
<1>3. SnGrown(snaps, made) /\ made \in Nat /\ current \in {0} \cup DOMAIN snaps
  BY <1>1 DEF SnTypes, SnGrown
<1> QED BY <1>1, <1>2, <1>3

(* A step of a command at work that leaves the snapshots as they are.      *)
LEMMA SnStaysKeeps ==
    ASSUME SnIInv, NEW c \in Cmds, SnActive(job[c]), NEW j, SnIsJob(j), Snaps!Update(c, j),
           UNCHANGED Snaps!vm,
           UNCHANGED tangled, SnNumbered(j), ~tangled => SnLooked(j) /\ SnTold(j)
    PROVE  SnIInv'
<1>1. /\ job' = [d \in Cmds |-> job'[d]]
      /\ job'[c] = j /\ \A d \in Cmds \ {c} : job'[d] = job[d]
      /\ \A d \in Cmds : SnIsJob(job'[d])
  BY SnBefore, SnMoved
<1>2. snaps' = snaps /\ made' = made /\ current' = current /\ tangled' = tangled
  BY DEF Snaps!vm
<1>3. SnTypes'
  <2>1. (\A d \in Cmds : SnIsJob(job[d]))'
    BY <1>1 DEF SnIsJob
  <2> QED BY <1>1, <1>2, <2>1 DEF SnIInv, SnTypes
<1>4. ASSUME NEW d \in Cmds PROVE SnNumbered(job[d])'
  <2>1. SnNumbered(job[d])
    BY DEF SnIInv
  <2> QED BY <1>1, <1>2, <2>1 DEF SnNumbered
<1>5. ASSUME ~tangled PROVE SnUntangled'
  <2>1. SnUntangled
    BY <1>5 DEF SnIInv
  <2>2. SnAlone'
    BY <1>1, <2>1 DEF SnUntangled, SnAlone, SnActive
  <2>3. SnDistinct'
    BY <1>2, <2>1 DEF SnUntangled, SnDistinct
  <2>4. ASSUME NEW d \in Cmds PROVE SnLooked(job[d])' /\ SnTold(job[d])'
    <3>1. SnLooked(job'[d]) /\ SnTold(job'[d])
      BY <1>1, <1>5, <2>1 DEF SnUntangled
    <3> QED BY <1>2, <3>1 DEF SnLooked, SnTold, Snaps!NewPath, Snaps!AtPath
  <2> QED BY <2>2, <2>3, <2>4 DEF SnUntangled
<1> QED BY <1>2, <1>3, <1>4, <1>5 DEF SnIInv

(* A step that ends a command and changes the snapshots.                   *)
LEMMA SnTreeKeeps ==
    ASSUME SnIInv, NEW c \in Cmds, SnActive(job[c]), NEW j, SnIsJob(j), Snaps!Update(c, j),
           j.pc \in Snaps!Over,
           SnGrown(snaps', made'), current' \in {0} \cup DOMAIN snaps', made' >= made,
           \A s \in DOMAIN snaps' : snaps'[s] \in [name : {snaps'[s].name}, parent : Nat],
           tangled' \in BOOLEAN, SnNumbered(j)',
           \A s \in DOMAIN snaps' : s \in DOMAIN snaps \/ s > made,
           ~tangled' =>
               /\ ~tangled /\ SnDistinct' /\ SnTold(j)'
               /\ \A s \in DOMAIN snaps' :
                     s \in DOMAIN snaps => Snaps!Path(snaps')[s] = Snaps!Path(snaps)[s]
    PROVE  SnIInv'
<1>1. /\ job' = [d \in Cmds |-> job'[d]]
      /\ job'[c] = j /\ \A d \in Cmds \ {c} : job'[d] = job[d]
      /\ \A d \in Cmds : SnIsJob(job'[d])
  BY SnBefore, SnMoved
<1>2. made \in Nat /\ made' \in Nat
  BY SnBefore DEF SnGrown
<1>3. SnTypes'
  <2>1. (\A d \in Cmds : SnIsJob(job[d]))'
    BY <1>1 DEF SnIsJob
  <2>2. SnGrown(snaps, made)'
    BY DEF SnGrown
  <2> QED BY <1>1, <2>1, <2>2 DEF SnTypes
<1>4. ASSUME NEW d \in Cmds PROVE SnNumbered(job[d])'
  <2>1. CASE d = c
    BY <1>1, <2>1 DEF SnNumbered
  <2>2. CASE d # c
    <3>1. SnNumbered(job[d]) /\ job[d].snap \in Nat
      BY SnBefore
    <3> QED BY <1>1, <1>2, <2>2, <3>1 DEF SnNumbered
  <2> QED BY <2>1, <2>2
<1>5. ASSUME ~tangled' PROVE SnUntangled'
  <2>1. SnUntangled
    BY <1>5 DEF SnIInv
  <2>2. SnAlone'
    BY <1>1, <2>1 DEF SnUntangled, SnAlone, SnActive
  <2>3. ASSUME NEW d \in Cmds PROVE SnLooked(job[d])' /\ SnTold(job[d])'
    <3>1. CASE d = c
      BY <1>1, <1>5, <3>1 DEF SnLooked, SnTold, Snaps!Over
    <3>2. CASE d # c
      <4>1. ~SnActive(job[d]) /\ SnTold(job[d]) /\ SnNumbered(job[d]) /\ job[d].snap \in Nat
        BY <2>1, <3>2, SnBefore DEF SnUntangled, SnAlone
      <4>2. SnLooked(job[d])'
        BY <1>1, <3>2, <4>1 DEF SnLooked, SnActive, Snaps!Over
      <4>3. job[d].pc = "done" /\ job[d].ask.do = "create" /\ job[d].snap \in DOMAIN snaps'
                => job[d].snap \in DOMAIN snaps
        BY <1>2, <4>1 DEF SnNumbered
      <4> QED BY <1>1, <1>5, <3>2, <4>1, <4>2, <4>3 DEF SnTold
    <3> QED BY <3>1, <3>2
  <2> QED BY <1>5, <2>2, <2>3 DEF SnUntangled
<1> QED BY <1>3, <1>4, <1>5 DEF SnIInv

(* A step to an end without the snapshots.                                 *)
LEMMA SnFailKeeps ==
    ASSUME SnIInv, NEW c \in Cmds, SnActive(job[c]), Snaps!Goto(c, "failed"),
           UNCHANGED <<Snaps!vm, tangled>>
    PROVE  SnIInv'
<1>1. SnIsJob(job[c]) /\ job[c].snap \in Nat /\ job[c].ask.do \in Snaps!Kinds
  BY SnBefore
<1>2. PICK j : j = [job[c] EXCEPT !.pc = "failed"]
  OBVIOUS
<1>3. Snaps!Update(c, j)
  BY <1>2 DEF Snaps!Goto
<1>4. SnIsJob(j) /\ j.pc = "failed"
  <2>1. SnLocals(j, "failed", job[c].ask, job[c].path, job[c].snap)
    BY <1>1, <1>2, SnGoes
  <2> QED BY <1>1, <2>1, SnJobAfter DEF Snaps!Over
<1>5. SnNumbered(j) /\ SnLooked(j) /\ SnTold(j)
  BY <1>4 DEF SnNumbered, SnLooked, SnTold
<1> QED BY <1>3, <1>4, <1>5, SnStaysKeeps

LEMMA SnLookKeeps == ASSUME SnIInv, NEW c \in Cmds, Snaps!Look(c) PROVE SnIInv'
<1>1. /\ SnIsJob(job[c]) /\ SnActive(job[c]) /\ job[c].snap \in Nat /\ job[c].ask.do = "create"
      /\ job[c].pc = "look"
  BY SnBefore DEF Snaps!Look, Snaps!At, SnActive, Snaps!Over, SnIsJob
<1>2. UNCHANGED <<Snaps!vm, tangled>>
  BY DEF Snaps!Look
<1>3. CASE Snaps!Goto(c, "failed")
  BY <1>1, <1>2, <1>3, SnFailKeeps
<1>4. CASE ~(/\ DOMAIN snaps # {}
             /\ current = 0 \/ Snaps!AtPath(Snaps!NewPath(job[c].ask.name)) # {})
  <2>1. PICK p : p = Snaps!NewPath(job[c].ask.name)
    OBVIOUS
  <2>2. PICK j : j = [job[c] EXCEPT !.pc = "take", !.path = p]
    OBVIOUS
  <2>3. Snaps!Update(c, j)
    BY <1>4, <2>1, <2>2 DEF Snaps!Look
  <2>4. SnIsJob(j) /\ j.pc = "take" /\ j.ask = job[c].ask /\ j.path = p
    <3>1. SnLocals(j, "take", job[c].ask, p, job[c].snap)
      BY <1>1, <2>2, SnGoesFor
    <3> QED BY <1>1, <3>1, SnJobAfter DEF Snaps!Kinds
  <2>5. Snaps!AtPath(p) = {}
    BY <1>4, <2>1 DEF Snaps!AtPath
  <2>6. SnNumbered(j) /\ SnLooked(j) /\ SnTold(j)
    BY <2>1, <2>4, <2>5 DEF SnNumbered, SnLooked, SnTold
  <2> QED BY <1>1, <1>2, <2>3, <2>4, <2>6, SnStaysKeeps
<1> QED BY <1>3, <1>4 DEF Snaps!Look

LEMMA SnFindKeeps == ASSUME SnIInv, NEW c \in Cmds, Snaps!Find(c) PROVE SnIInv'
<1>1. /\ SnIsJob(job[c]) /\ SnActive(job[c]) /\ job[c].ask.do \in Snaps!Kinds \ {"create"}
      /\ job[c].pc = "find"
  BY SnBefore DEF Snaps!Find, Snaps!At, SnActive, Snaps!Over, SnIsJob
<1>2. UNCHANGED <<Snaps!vm, tangled>>
  BY DEF Snaps!Find
<1>3. CASE Snaps!Goto(c, "failed")
  BY <1>1, <1>2, <1>3, SnFailKeeps
<1>4. ASSUME NEW s \in Snaps!AtPath(job[c].path),
             Snaps!Update(c, [job[c] EXCEPT !.pc = job[c].ask.do, !.snap = s])
      PROVE  SnIInv'
  <2>1. PICK j : j = [job[c] EXCEPT !.pc = job[c].ask.do, !.snap = s]
    OBVIOUS
  <2>2. s \in Nat
    BY SnBefore DEF Snaps!AtPath, SnGrown
  <2>3. SnIsJob(j) /\ j.pc = job[c].ask.do /\ j.ask = job[c].ask
    <3>1. SnLocals(j, job[c].ask.do, job[c].ask, job[c].path, s)
      BY <1>1, <2>1, SnGoesWith
    <3> QED BY <1>1, <2>2, <3>1, SnJobAfter DEF Snaps!Kinds, Snaps!Over
  <2>4. SnNumbered(j) /\ SnLooked(j) /\ SnTold(j)
    BY <1>1, <2>3 DEF SnNumbered, SnLooked, SnTold, Snaps!Kinds
  <2> QED BY <1>1, <1>2, <1>4, <2>1, <2>3, <2>4, SnStaysKeeps
<1> QED BY <1>3, <1>4 DEF Snaps!Find

LEMMA SnListHintsKeeps == ASSUME SnIInv, NEW c \in Cmds, Snaps!ListHints(c) PROVE SnIInv'
<1>1. /\ SnIsJob(job[c]) /\ SnActive(job[c]) /\ job[c].snap \in Nat
      /\ job[c].ask.do \in Snaps!Kinds \ {"create"}
  BY SnBefore DEF Snaps!ListHints, Snaps!At, SnActive, Snaps!Over, SnIsJob
<1>2. PICK t, h : t = snaps /\ h = Snaps!Hints(snaps)
  OBVIOUS
<1>3. PICK j : j = [job[c] EXCEPT !.pc = "done", !.tree = t, !.hints = h]
  OBVIOUS
<1>4. Snaps!Update(c, j) /\ UNCHANGED <<Snaps!vm, tangled>>
  BY <1>2, <1>3 DEF Snaps!ListHints
<1>5. SnIsJob(j) /\ j.ask = job[c].ask /\ j.pc = "done"
  <2>1. SnLocals(j, "done", job[c].ask, job[c].path, job[c].snap)
    BY <1>1, <1>3, SnLists
  <2> QED BY <1>1, <2>1, SnJobAfter DEF Snaps!Over
<1>6. SnNumbered(j) /\ SnLooked(j) /\ SnTold(j)
  BY <1>1, <1>5 DEF SnNumbered, SnLooked, SnTold
<1> QED BY <1>1, <1>4, <1>5, <1>6, SnStaysKeeps

LEMMA SnTakeKeeps == ASSUME SnIInv, NEW c \in Cmds, Snaps!Take(c) PROVE SnIInv'
<1>1. /\ SnIsJob(job[c]) /\ SnActive(job[c]) /\ job[c].ask.do = "create" /\ job[c].pc = "take"
      /\ SnTypes /\ SnGrown(snaps, made) /\ made \in Nat /\ current \in {0} \cup DOMAIN snaps
      /\ ~tangled => SnUntangled
  BY SnBefore DEF Snaps!Take, Snaps!At, SnActive, Snaps!Over, SnIsJob
<1>2. UNCHANGED tangled
  BY DEF Snaps!Take
<1>3. CASE Snaps!Goto(c, "failed") /\ UNCHANGED Snaps!vm
  BY <1>1, <1>2, <1>3, SnFailKeeps
<1>4. CASE /\ made' = made + 1
           /\ snaps' = [s \in DOMAIN snaps \cup {made + 1} |->
                          IF s \in DOMAIN snaps THEN snaps[s]
                          ELSE [name |-> job[c].ask.name, parent |-> current]]
           /\ current' = made + 1
           /\ Snaps!Update(c, [job[c] EXCEPT !.pc = "done", !.snap = made + 1])
  <2>1. PICK j : j = [job[c] EXCEPT !.pc = "done", !.snap = made + 1]
    OBVIOUS
  <2>2. /\ SnIsJob(j) /\ j.pc = "done" /\ j.ask = job[c].ask /\ j.snap = made + 1
        /\ j.path = job[c].path
    <3>1. SnLocals(j, "done", job[c].ask, job[c].path, made + 1)
      BY <1>1, <2>1, SnGoesWith
    <3> QED BY <1>1, <3>1, SnJobAfter DEF Snaps!Kinds, Snaps!Over
  <2>3. DOMAIN snaps \subseteq 1 .. made /\ made + 1 \notin DOMAIN snaps
    BY <1>1 DEF SnGrown
  <2>4. /\ DOMAIN snaps' = DOMAIN snaps \cup {made + 1}
        /\ \A s \in DOMAIN snaps : snaps'[s] = snaps[s]
        /\ snaps'[made + 1] = [name |-> job[c].ask.name, parent |-> current]
    BY <1>4, <2>3
  <2>5. SnGrown(snaps', made')
    <3>1. \A s \in DOMAIN snaps :
             snaps[s].parent \in {0} \cup DOMAIN snaps /\ snaps[s].parent < s
      BY <1>1 DEF SnGrown
    <3>2. snaps'[made + 1].parent = current /\ current < made + 1
      BY <1>1, <2>3, <2>4
    <3>3. DOMAIN snaps' \subseteq 1 .. made'
      BY <1>1, <1>4, <2>3, <2>4
    <3>4. ASSUME NEW s \in DOMAIN snaps'
          PROVE  snaps'[s].parent \in {0} \cup DOMAIN snaps' /\ snaps'[s].parent < s
      BY <1>1, <2>4, <3>1, <3>2, <3>4
    <3> QED BY <1>1, <1>4, <3>3, <3>4 DEF SnGrown
  <2>6. \A s \in DOMAIN snaps' : snaps'[s] \in [name : {snaps'[s].name}, parent : Nat]
    <3>1. \A s \in DOMAIN snaps : snaps[s] \in [name : {snaps[s].name}, parent : Nat]
      BY <1>1 DEF SnTypes
    <3>2. current \in Nat
      BY <1>1, <2>3
    <3>3. snaps'[made + 1] \in [name : {snaps'[made + 1].name}, parent : Nat]
      BY <2>4, <3>2
    <3> QED BY <2>4, <3>1, <3>3
  <2>7. \A s \in DOMAIN snaps : Snaps!Path(snaps')[s] = Snaps!Path(snaps)[s]
    <3>1. PICK t : t = snaps'
      OBVIOUS
    <3>2. \A s \in DOMAIN snaps : Snaps!Path(snaps)[s] = Snaps!Path(t)[s]
      BY <1>1, <2>4, <2>5, <3>1, SnPathsKept
    <3> QED BY <3>1, <3>2
  <2>8. Snaps!Path(snaps')[made + 1] = Snaps!NewPath(job[c].ask.name)
    <3>1. PICK t : t = snaps'
      OBVIOUS
    <3>2. Snaps!Path(t)[made + 1] = SnPathFrom(t, Snaps!Path(t), made + 1)
      BY <2>4, <2>5, <3>1, SnPathOf
    <3>3. SnPathFrom(t, Snaps!Path(t), made + 1) =
              IF current = 0 THEN job[c].ask.name ELSE Snaps!Path(t)[current] \o job[c].ask.name
      BY <2>4, <3>1 DEF SnPathFrom
    <3>4. current # 0 => Snaps!Path(t)[current] = Snaps!Path(snaps)[current]
      BY <1>1, <2>7, <3>1
    <3> QED BY <3>1, <3>2, <3>3, <3>4 DEF Snaps!NewPath
  <2>9. ASSUME ~tangled PROVE SnDistinct' /\ SnTold(j)'
    <3>1. /\ job[c].path = Snaps!NewPath(job[c].ask.name)
          /\ \A s \in DOMAIN snaps : Snaps!Path(snaps)[s] # Snaps!NewPath(job[c].ask.name)
      BY <1>1, <2>9 DEF SnUntangled, SnLooked, Snaps!AtPath
    <3>2. \A s, t \in DOMAIN snaps : Snaps!Path(snaps)[s] = Snaps!Path(snaps)[t] => s = t
      BY <1>1, <2>9 DEF SnUntangled, SnDistinct
    <3>3. SnDistinct'
      BY <2>4, <2>7, <2>8, <3>1, <3>2 DEF SnDistinct
    <3>4. SnTold(j)'
      BY <2>2, <2>8, <3>1 DEF SnTold
    <3> QED BY <3>3, <3>4
  <2>10. SnNumbered(j)' /\ made' >= made /\ tangled' \in BOOLEAN
         /\ current' \in {0} \cup DOMAIN snaps'
         /\ \A s \in DOMAIN snaps' : s \in DOMAIN snaps \/ s > made
    BY <1>1, <1>2, <1>4, <2>2, <2>4 DEF SnNumbered, SnTypes
  <2>11. Snaps!Update(c, j) /\ j.pc \in Snaps!Over
    BY <1>4, <2>1, <2>2 DEF Snaps!Over
  <2> QED BY <1>1, <1>2, <2>2, <2>4, <2>5, <2>6, <2>7, <2>9, <2>10, <2>11, SnTreeKeeps
<1> QED BY <1>3, <1>4 DEF Snaps!Take

LEMMA SnRestoreKeeps == ASSUME SnIInv, NEW c \in Cmds, Snaps!Restore(c) PROVE SnIInv'
<1>1. /\ SnIsJob(job[c]) /\ SnActive(job[c]) /\ job[c].ask.do \in Snaps!Kinds \ {"create"}
      /\ SnTypes /\ SnGrown(snaps, made) /\ made \in Nat
      /\ ~tangled => SnUntangled
  BY SnBefore DEF Snaps!Restore, Snaps!At, SnActive, Snaps!Over, SnIsJob
<1>2. UNCHANGED <<snaps, made, tangled>>
  BY DEF Snaps!Restore
<1>3. CASE Snaps!Goto(c, "failed") /\ UNCHANGED current
  BY <1>1, <1>2, <1>3, SnFailKeeps DEF Snaps!vm
<1>4. CASE job[c].snap \in DOMAIN snaps /\ current' = job[c].snap /\ Snaps!Goto(c, "done")
  <2>1. PICK j : j = [job[c] EXCEPT !.pc = "done"]
    OBVIOUS
  <2>2. SnIsJob(j) /\ j.pc = "done" /\ j.ask = job[c].ask
    <3>1. SnLocals(j, "done", job[c].ask, job[c].path, job[c].snap)
      BY <1>1, <2>1, SnGoes
    <3>2. job[c].snap \in Nat
      BY SnBefore
    <3> QED BY <1>1, <3>1, <3>2, SnJobAfter DEF Snaps!Over
  <2>3. /\ SnGrown(snaps', made') /\ current' \in {0} \cup DOMAIN snaps' /\ made' >= made
        /\ tangled' \in BOOLEAN
        /\ \A s \in DOMAIN snaps' : snaps'[s] \in [name : {snaps'[s].name}, parent : Nat]
    BY <1>1, <1>2, <1>4 DEF SnTypes
  <2>4. SnNumbered(j)' /\ SnTold(j)'
    BY <1>1, <2>2 DEF SnNumbered, SnTold
  <2>5. ~tangled => SnDistinct'
    BY <1>1, <1>2 DEF SnUntangled, SnDistinct
  <2>6. Snaps!Update(c, j) /\ j.pc \in Snaps!Over
    BY <1>4, <2>1, <2>2 DEF Snaps!Goto, Snaps!Over
  <2> QED BY <1>1, <1>2, <2>2, <2>3, <2>4, <2>5, <2>6, SnTreeKeeps
<1> QED BY <1>3, <1>4 DEF Snaps!Restore

LEMMA SnRemoveKeeps == ASSUME SnIInv, NEW c \in Cmds, Snaps!Remove(c) PROVE SnIInv'
<1>1. /\ SnIsJob(job[c]) /\ SnActive(job[c]) /\ job[c].ask.do \in Snaps!Kinds \ {"create"}
      /\ SnTypes /\ SnGrown(snaps, made) /\ made \in Nat /\ current \in {0} \cup DOMAIN snaps
      /\ ~tangled => SnUntangled
  BY SnBefore DEF Snaps!Remove, Snaps!At, SnActive, Snaps!Over, SnIsJob
<1>2. made' = made
  BY DEF Snaps!Remove
<1>3. CASE Snaps!Goto(c, "failed") /\ UNCHANGED <<snaps, current, tangled>>
  BY <1>1, <1>2, <1>3, SnFailKeeps DEF Snaps!vm
<1>4. PICK s, gone : /\ s = job[c].snap
                     /\ gone = IF job[c].ask.children THEN Snaps!Under(snaps, s) ELSE {s}
  OBVIOUS
<1>5. CASE /\ s \in DOMAIN snaps
           /\ snaps' = [t \in DOMAIN snaps \ gone |->
                            IF snaps[t].parent = s
                            THEN [snaps[t] EXCEPT !.parent = snaps[s].parent] ELSE snaps[t]]
           /\ current' = IF current \in gone THEN snaps[s].parent ELSE current
           /\ Snaps!Goto(c, "done")
           /\ tangled' = (tangled \/ (Snaps!Children(snaps, s) # {} /\ ~job[c].ask.children))
  <2>1. PICK j : j = [job[c] EXCEPT !.pc = "done"]
    OBVIOUS
  <2>2. SnIsJob(j) /\ j.pc = "done" /\ j.ask = job[c].ask
    <3>1. SnLocals(j, "done", job[c].ask, job[c].path, job[c].snap)
      BY <1>1, <2>1, SnGoes
    <3>2. job[c].snap \in Nat
      BY SnBefore
    <3> QED BY <1>1, <3>1, <3>2, SnJobAfter DEF Snaps!Over
  <2>3. /\ DOMAIN snaps \subseteq Nat
        /\ \A t \in DOMAIN snaps :
              snaps[t].parent \in {0} \cup DOMAIN snaps /\ snaps[t].parent < t
    BY <1>1 DEF SnGrown
  <2>4. s \in gone /\ (\A t \in gone : t \in DOMAIN snaps /\ s <= t)
    <3>1. CASE job[c].ask.children
      BY <1>1, <1>4, <1>5, <3>1, SnUnderOf, SnUnderIsYounger
    <3>2. CASE ~job[c].ask.children
      BY <1>4, <1>5, <2>3, <3>2
    <3> QED BY <3>1, <3>2
  <2>5. /\ DOMAIN snaps' = DOMAIN snaps \ gone
        /\ \A t \in DOMAIN snaps' :
              snaps'[t] = IF snaps[t].parent = s
                          THEN [snaps[t] EXCEPT !.parent = snaps[s].parent] ELSE snaps[t]
    BY <1>5
  <2>6. snaps[s].parent \in {0} \cup DOMAIN snaps' /\ snaps[s].parent < s
    <3>1. snaps[s].parent \in {0} \cup DOMAIN snaps /\ snaps[s].parent < s
          /\ s \in Nat /\ snaps[s].parent \in Nat
      BY <1>5, <2>3
    <3>2. snaps[s].parent \notin gone
      BY <2>3, <2>4, <3>1
    <3> QED BY <2>5, <3>1, <3>2
  <2>7. ASSUME NEW t \in DOMAIN snaps', snaps[t].parent # s PROVE snaps[t].parent \notin gone
    <3>1. t \in DOMAIN snaps /\ t \notin gone /\ t # 0
      BY <2>4, <2>5, <2>7, <1>1 DEF SnGrown
    <3>2. CASE job[c].ask.children
      <4>1. t \notin Snaps!Under(snaps, s)
        BY <1>4, <3>1, <3>2
      <4>2. ~(snaps[t].parent # 0 /\ snaps[t].parent \in Snaps!Under(snaps, s))
        BY <1>1, <1>5, <3>1, <4>1, SnUnderOf
      <4>3. 0 \notin Snaps!Under(snaps, s)
        <5>1. 0 \notin DOMAIN snaps
          BY <1>1 DEF SnGrown
        <5> QED BY <1>1, <1>5, <5>1, SnUnderOf
      <4> QED BY <1>4, <3>2, <4>2, <4>3
    <3>3. CASE ~job[c].ask.children
      BY <1>4, <2>7, <3>3
    <3> QED BY <3>2, <3>3
  <2>8. ASSUME NEW t \in DOMAIN snaps'
        PROVE  /\ snaps'[t] \in [name : {snaps'[t].name}, parent : Nat]
               /\ snaps'[t].parent = IF snaps[t].parent = s THEN snaps[s].parent
                                     ELSE snaps[t].parent
    <3>1. /\ snaps[t] \in [name : {snaps[t].name}, parent : Nat]
          /\ snaps[s].parent \in Nat
      BY <1>1, <1>5, <2>5, <2>8 DEF SnTypes
    <3>2. CASE snaps[t].parent = s
      BY <2>5, <3>1, <3>2
    <3>3. CASE snaps[t].parent # s
      BY <2>5, <3>1, <3>3
    <3> QED BY <3>2, <3>3
  <2>9. SnGrown(snaps', made')
    <3>1. ASSUME NEW t \in DOMAIN snaps'
          PROVE  snaps'[t].parent \in {0} \cup DOMAIN snaps' /\ snaps'[t].parent < t
      <4>1. CASE snaps[t].parent = s
        <5>1. s < t /\ s \in Nat /\ t \in Nat /\ snaps[s].parent \in Nat
          BY <1>5, <2>3, <2>5, <4>1
        <5> QED BY <2>6, <2>8, <4>1, <5>1
      <4>2. CASE snaps[t].parent # s
        BY <2>3, <2>5, <2>7, <2>8, <4>2
      <4> QED BY <4>1, <4>2
    <3>2. DOMAIN snaps' \subseteq 1 .. made'
      BY <1>1, <1>2, <2>5 DEF SnGrown
    <3> QED BY <1>1, <1>2, <3>1, <3>2 DEF SnGrown
  <2>10. current' \in {0} \cup DOMAIN snaps' /\ tangled' \in BOOLEAN /\ made' >= made
         /\ \A t \in DOMAIN snaps' : t \in DOMAIN snaps
    BY <1>1, <1>2, <1>5, <2>5, <2>6 DEF SnTypes
  <2>11. SnNumbered(j)' /\ SnTold(j)'
    BY <1>1, <2>2 DEF SnNumbered, SnTold
  <2>12. ASSUME ~tangled'
         PROVE  /\ ~tangled /\ SnDistinct'
                /\ \A t \in DOMAIN snaps' : Snaps!Path(snaps')[t] = Snaps!Path(snaps)[t]
    <3>1. ~tangled /\ (Snaps!Children(snaps, s) = {} \/ job[c].ask.children)
      BY <1>5, <2>12
    <3>2. \A t \in DOMAIN snaps' : snaps'[t] = snaps[t]
      <4>1. ASSUME NEW t \in DOMAIN snaps' PROVE snaps[t].parent # s
        <5>1. t \in DOMAIN snaps /\ t \notin gone
          BY <2>5, <4>1
        <5>2. CASE Snaps!Children(snaps, s) = {}
          BY <5>1, <5>2 DEF Snaps!Children
        <5>3. CASE job[c].ask.children
          <6>1. t \notin Snaps!Under(snaps, s) /\ s \in Snaps!Under(snaps, s) /\ s # 0
            BY <1>1, <1>4, <1>5, <5>1, <5>3, SnUnderOf DEF SnGrown
          <6> QED BY <1>1, <1>5, <5>1, <6>1, SnUnderOf
        <5> QED BY <3>1, <5>2, <5>3
      <4> QED BY <2>5, <4>1
    <3>3. \A t \in DOMAIN snaps' : Snaps!Path(snaps')[t] = Snaps!Path(snaps)[t]
      <4>1. PICK u : u = snaps'
        OBVIOUS
      <4>2. \A t \in DOMAIN u : Snaps!Path(u)[t] = Snaps!Path(snaps)[t]
        BY <1>1, <2>9, <2>10, <3>2, <4>1, SnPathsKept
      <4> QED BY <4>1, <4>2
    <3>4. SnDistinct'
      BY <1>1, <2>10, <3>1, <3>3 DEF SnUntangled, SnDistinct
    <3> QED BY <3>1, <3>3, <3>4
  <2>13. Snaps!Update(c, j) /\ j.pc \in Snaps!Over
    BY <1>5, <2>1, <2>2 DEF Snaps!Goto, Snaps!Over
  <2> QED BY <1>1, <2>2, <2>8, <2>9, <2>10, <2>11, <2>12, <2>13, SnTreeKeeps
<1> QED BY <1>3, <1>4, <1>5 DEF Snaps!Remove

LEMMA SnBeginKeeps ==
    ASSUME Snaps!AsksAssumption, SnIInv, NEW c \in Cmds, Snaps!Begin(c)
    PROVE  SnIInv'
<1>1. PICK r \in SnapshotAsks[c], p \in Snaps!KnownPaths :
        /\ Snaps!At(c, "new")
        /\ Snaps!Update(c, [job[c] EXCEPT !.ask = r, !.path = p,
                                          !.pc = CASE r.do = "create" -> "look"
                                                   [] r.do = "list" -> "list"
                                                   [] OTHER -> "find"])
        /\ tangled' = (tangled \/ \E d \in Cmds : job[d].pc \notin {"new"} \cup Snaps!Over)
        /\ UNCHANGED Snaps!vm
  BY DEF Snaps!Begin
<1>2. /\ SnIsJob(job[c]) /\ job[c].pc = "new" /\ job[c].snap \in Nat /\ r.do \in Snaps!Kinds
      /\ SnTypes
  BY <1>1, SnBefore DEF Snaps!At, Snaps!AsksAssumption
<1>3. PICK q : q = CASE r.do = "create" -> "look" [] r.do = "list" -> "list" [] OTHER -> "find"
  OBVIOUS
<1>4. PICK j : j = [job[c] EXCEPT !.ask = r, !.path = p, !.pc = q]
  OBVIOUS
<1>5. Snaps!Update(c, j)
  BY <1>1, <1>3, <1>4
<1>6. /\ q \in {"look", "list", "find"} /\ (q = "look" => r.do = "create")
      /\ (q # "look" => r.do # "create")
  BY <1>3
<1>7. SnIsJob(j) /\ j.pc = q
  <2>1. SnLocals(j, q, r, p, job[c].snap)
    BY <1>2, <1>4, SnBegins
  <2> QED BY <1>2, <1>6, <2>1, SnJobAfter
<1>8. /\ job' = [d \in Cmds |-> job'[d]]
      /\ job'[c] = j /\ \A d \in Cmds \ {c} : job'[d] = job[d]
      /\ \A d \in Cmds : SnIsJob(job'[d])
  BY <1>2, <1>5, <1>7, SnMoved
<1>9. snaps' = snaps /\ made' = made /\ current' = current /\ tangled' \in BOOLEAN
  <2>1. tangled \in BOOLEAN
    BY <1>2 DEF SnTypes
  <2> QED BY <1>1, <2>1 DEF Snaps!vm
<1>10. SnTypes'
  <2>1. (\A d \in Cmds : SnIsJob(job[d]))'
    BY <1>8 DEF SnIsJob
  <2> QED BY <1>2, <1>8, <1>9, <2>1 DEF SnTypes
<1>11. ASSUME NEW d \in Cmds PROVE SnNumbered(job[d])'
  <2>1. CASE d = c
    BY <1>6, <1>7, <1>8, <2>1 DEF SnNumbered
  <2>2. CASE d # c
    <3>1. SnNumbered(job[d])
      BY DEF SnIInv
    <3> QED BY <1>8, <1>9, <2>2, <3>1 DEF SnNumbered
  <2> QED BY <2>1, <2>2
<1>12. ASSUME ~tangled' PROVE SnUntangled'
  <2>1. ~tangled /\ \A d \in Cmds : ~SnActive(job[d])
    BY <1>1, <1>12 DEF SnActive
  <2>2. SnUntangled
    BY <2>1 DEF SnIInv
  <2>3. SnAlone'
    BY <1>8, <2>1 DEF SnAlone, SnActive
  <2>4. SnDistinct'
    BY <1>9, <2>2 DEF SnUntangled, SnDistinct
  <2>5. ASSUME NEW d \in Cmds PROVE SnLooked(job[d])' /\ SnTold(job[d])'
    <3>1. CASE d = c
      BY <1>6, <1>7, <1>8, <3>1 DEF SnLooked, SnTold
    <3>2. CASE d # c
      <4>1. SnLooked(job[d]) /\ SnTold(job[d])
        BY <2>2 DEF SnUntangled
      <4> QED BY <1>8, <1>9, <3>2, <4>1 DEF SnLooked, SnTold, Snaps!NewPath, Snaps!AtPath
    <3> QED BY <3>1, <3>2
  <2> QED BY <2>3, <2>4, <2>5 DEF SnUntangled
<1> QED BY <1>10, <1>11, <1>12 DEF SnIInv

-----------------------------------------------------------------------------
LEMMA SnStutterKeeps == ASSUME SnIInv, UNCHANGED Snaps!vars PROVE SnIInv'
BY DEF SnIInv, SnTypes, SnNumbered, SnUntangled, SnAlone, SnActive, SnDistinct, SnLooked,
   SnTold, Snaps!NewPath, Snaps!AtPath,
       SnIsJob, Snaps!vars

LEMMA SnStepKeepsInv ==
    ASSUME Snaps!AsksAssumption, SnIInv, [Snaps!Next]_(Snaps!vars)
    PROVE  SnIInv'
BY SnBeginKeeps, SnLookKeeps, SnTakeKeeps, SnFindKeeps, SnRestoreKeeps, SnRemoveKeeps,
   SnListHintsKeeps,
   SnStutterKeeps DEF Snaps!Next, Snaps!Working

LEMMA SnInitInv == ASSUME Snaps!Init PROVE SnIInv
<1>1. ASSUME NEW c \in Cmds
      PROVE  job[c] = [pc |-> "new", ask |-> [do |-> "list"], path |-> <<>>,
                       snap |-> 0, tree |-> <<>>, hints |-> <<>>]
  BY DEF Snaps!Init
<1>2. ASSUME NEW c \in Cmds PROVE SnIsJob(job[c]) /\ job[c].pc = "new"
  BY <1>1 DEF SnIsJob, Snaps!Kinds, Snaps!Over
<1>3. /\ SnGrown(snaps, made) /\ current \in {0} \cup DOMAIN snaps
      /\ \A s \in DOMAIN snaps : snaps[s] \in [name : {snaps[s].name}, parent : Nat]
  <2>1. CASE snaps = <<>> /\ made = 0 /\ current = 0
    BY <2>1 DEF SnGrown
  <2>2. CASE /\ snaps = <<[name |-> <<"a">>, parent |-> 0], [name |-> <<"b">>, parent |-> 1]>>
             /\ made = 2
             /\ current \in 1 .. 2
    <3>1. /\ DOMAIN snaps = 1 .. 2 /\ snaps[1] = [name |-> <<"a">>, parent |-> 0]
          /\ snaps[2] = [name |-> <<"b">>, parent |-> 1]
      BY <2>2
    <3>2. /\ snaps[1].parent = 0 /\ snaps[2].parent = 1
          /\ snaps[1] \in [name : {snaps[1].name}, parent : Nat]
          /\ snaps[2] \in [name : {snaps[2].name}, parent : Nat]
      BY <3>1
    <3> QED BY <2>2, <3>1, <3>2 DEF SnGrown
  <2> QED BY <2>1, <2>2 DEF Snaps!Init
<1>4. SnTypes /\ tangled = FALSE
  BY <1>2, <1>3 DEF Snaps!Init, SnTypes
<1>5. SnDistinct
  <2>1. CASE snaps = <<>>
    BY <2>1 DEF SnDistinct
  <2>2. CASE snaps = <<[name |-> <<"a">>, parent |-> 0], [name |-> <<"b">>, parent |-> 1]>>
    <3>1. /\ DOMAIN snaps = 1 .. 2 /\ snaps[1] = [name |-> <<"a">>, parent |-> 0]
          /\ snaps[2] = [name |-> <<"b">>, parent |-> 1]
      BY <2>2
    <3>2. Snaps!Path(snaps)[1] = SnPathFrom(snaps, Snaps!Path(snaps), 1)
          /\ Snaps!Path(snaps)[2] = SnPathFrom(snaps, Snaps!Path(snaps), 2)
      BY <1>3, <3>1, SnPathOf
    <3>3. Snaps!Path(snaps)[1] = <<"a">> /\ Snaps!Path(snaps)[2] = <<"a">> \o <<"b">>
      <4>1. /\ snaps[1].parent = 0 /\ snaps[1].name = <<"a">>
            /\ snaps[2].parent = 1 /\ snaps[2].name = <<"b">>
        BY <3>1
      <4> DEFINE p == Snaps!Path(snaps)
      <4>2. p[1] = <<"a">>
        BY <3>2, <4>1 DEF SnPathFrom
      <4> HIDE DEF p
      <4>3. SnPathFrom(snaps, p, 2) = p[1] \o <<"b">>
        BY <4>1 DEF SnPathFrom
      <4> QED BY <3>2, <4>2, <4>3 DEF p
    <3>4. Len(<<"a">> \o <<"b">>) = 2 /\ Len(<<"a">>) = 1
      OBVIOUS
    <3>5. <<"a">> # <<"a">> \o <<"b">>
      BY <3>4
    <3> QED BY <3>1, <3>3, <3>5 DEF SnDistinct
  <2> QED BY <2>1, <2>2 DEF Snaps!Init
<1> QED BY <1>2, <1>4, <1>5 DEF SnIInv, SnUntangled, SnAlone, SnActive, SnLooked, SnTold,
           SnNumbered

LEMMA SnInvImplies == ASSUME SnIInv PROVE Snaps!PathFindsSnapshot
<1> SUFFICES ASSUME NEW c \in Cmds, ~tangled, job[c].pc = "done", job[c].ask.do = "create",
                    job[c].snap \in DOMAIN snaps
             PROVE  Snaps!AtPath(job[c].path) = {job[c].snap}
  BY DEF Snaps!PathFindsSnapshot, Snaps!At
<1>1. Snaps!Path(snaps)[job[c].snap] = job[c].path
  BY DEF SnIInv, SnUntangled, SnTold
<1> QED BY <1>1 DEF SnIInv, SnUntangled, SnDistinct, Snaps!AtPath

-----------------------------------------------------------------------------
(* The hints: what they are made of, and how long they are.                *)
(* Facts of sequences, as the provers need them.                            *)
LEMMA SnOfFunction ==
    ASSUME NEW S, NEW n \in Nat, NEW f \in [1 .. n -> S]
    PROVE  f \in Seq(S) /\ Len(f) = n
<1>1. f \in Seq(S)
  BY SeqDef
<1>2. DOMAIN f = 1 .. n /\ DOMAIN f = 1 .. Len(f) /\ Len(f) \in Nat
  BY <1>1, LenProperties
<1>3. 1 .. n = 1 .. Len(f)
  BY <1>2
<1>4. Len(f) = n
  <2>1. CASE n = 0
    BY <1>2, <1>3, <2>1
  <2>2. CASE n # 0
    <3>1. n \in 1 .. Len(f)
      BY <1>3, <2>2
    <3>2. Len(f) >= 1
      BY <1>2, <3>1
    <3>3. Len(f) \in 1 .. n
      BY <1>2, <1>3, <3>2
    <3> QED BY <1>2, <3>1, <3>3
  <2> QED BY <2>1, <2>2
<1> QED BY <1>1, <1>4

(* What names and hints are made of.                                        *)
SnWords == STRING \cup {"a", "b", "/"}
SnNames == Seq(SnWords) \ {<<>>}

LEMMA SnNamesOfAsks == ASSUME NEW e \in Seq(STRING) \ {<<>>} PROVE e \in SnNames
<1>1. e \in [1 .. Len(e) -> STRING] /\ Len(e) \in Nat
  OBVIOUS
<1>2. e \in [1 .. Len(e) -> SnWords]
  BY <1>1 DEF SnWords
<1> QED BY <1>1, <1>2, SeqDef DEF SnNames

LEMMA SnFirstNames == <<"a">> \in SnNames /\ <<"b">> \in SnNames
BY DEF SnNames, SnWords

LEMMA SnSpelledIs ==
    ASSUME NEW path \in SnNames
    PROVE  /\ Len(path) \in Nat /\ Len(path) >= 1
           /\ Snaps!Spelled(path) \in Seq(SnWords)
           /\ Len(Snaps!Spelled(path)) = 2 * Len(path) - 1
           /\ \A i \in 1 .. 2 * Len(path) - 1 :
                 Snaps!Spelled(path)[i] = IF i % 2 = 1 THEN path[(i + 1) \div 2] ELSE "/"
<1>1. Len(path) \in Nat /\ Len(path) >= 1 /\ path \in Seq(SnWords)
  BY DEF SnNames
<1>2. PICK n \in Nat : n = 2 * Len(path) - 1
  BY <1>1
<1>3. PICK s : s = Snaps!Spelled(path)
  OBVIOUS
<1>4. s = [i \in 1 .. n |-> IF i % 2 = 1 THEN path[(i + 1) \div 2] ELSE "/"]
  BY <1>2, <1>3 DEF Snaps!Spelled
<1>5. \A i \in 1 .. n : i % 2 = 1 => (i + 1) \div 2 \in 1 .. Len(path)
  BY <1>1, <1>2
<1>6. s \in [1 .. n -> SnWords]
  <2>1. ASSUME NEW i \in 1 .. n PROVE s[i] \in SnWords
    <3>1. CASE i % 2 = 1
      <4>1. path[(i + 1) \div 2] \in SnWords
        BY <1>1, <1>5, <3>1, ElementOfSeq
      <4> QED BY <1>4, <3>1, <4>1
    <3>2. CASE i % 2 # 1
      <4>1. s[i] = "/"
        BY <1>4, <3>2
      <4> QED BY <4>1 DEF SnWords
    <3> QED BY <3>1, <3>2
  <2>2. s = [i \in 1 .. n |-> s[i]]
    BY <1>4
  <2> QED BY <2>1, <2>2
<1>7. s \in Seq(SnWords) /\ Len(s) = n
  BY <1>6, SnOfFunction
<1> QED BY <1>1, <1>2, <1>3, <1>4, <1>7

LEMMA SnSpelledConcat ==
    ASSUME NEW p \in SnNames, NEW q \in SnNames
    PROVE  Snaps!Spelled(p \o q) = Snaps!Spelled(p) \o <<"/">> \o Snaps!Spelled(q)
<1>1. PICK m \in Nat, n \in Nat : m = Len(p) /\ n = Len(q) /\ m >= 1 /\ n >= 1
  BY SnSpelledIs
<1>2. PICK pq : pq = p \o q
  OBVIOUS
<1>3. /\ pq \in SnNames /\ Len(pq) = m + n
      /\ \A i \in 1 .. m : pq[i] = p[i]
      /\ \A i \in 1 .. n : pq[m + i] = q[i]
  BY <1>1, <1>2 DEF SnNames
<1>4. PICK a, b, l, r : /\ a = Snaps!Spelled(p) /\ b = Snaps!Spelled(q)
                        /\ l = Snaps!Spelled(pq) /\ r = a \o <<"/">> \o b
  OBVIOUS
<1>5. /\ l \in Seq(SnWords) /\ Len(l) = 2 * (m + n) - 1
      /\ \A i \in 1 .. 2 * (m + n) - 1 : l[i] = IF i % 2 = 1 THEN pq[(i + 1) \div 2] ELSE "/"
  BY <1>3, <1>4, SnSpelledIs
<1>6. /\ a \in Seq(SnWords) /\ Len(a) = 2 * m - 1
      /\ \A i \in 1 .. 2 * m - 1 : a[i] = IF i % 2 = 1 THEN p[(i + 1) \div 2] ELSE "/"
  BY <1>1, <1>4, SnSpelledIs
<1>7. /\ b \in Seq(SnWords) /\ Len(b) = 2 * n - 1
      /\ \A i \in 1 .. 2 * n - 1 : b[i] = IF i % 2 = 1 THEN q[(i + 1) \div 2] ELSE "/"
  BY <1>1, <1>4, SnSpelledIs
<1>8. /\ r \in Seq(SnWords) /\ Len(r) = 2 * (m + n) - 1
      /\ \A i \in 1 .. 2 * m - 1 : r[i] = a[i]
      /\ r[2 * m] = "/"
      /\ \A i \in 1 .. 2 * n - 1 : r[2 * m + i] = b[i]
  <2>1. PICK u, e : u = a \o e /\ e = <<"/">>
    OBVIOUS
  <2>2. e \in Seq(SnWords) /\ Len(e) = 1 /\ e[1] = "/"
    BY <2>1 DEF SnWords
  <2>3. /\ u \in Seq(SnWords) /\ Len(u) = 2 * m
        /\ \A i \in 1 .. 2 * m : u[i] = IF i <= Len(a) THEN a[i] ELSE e[i - Len(a)]
    BY <1>6, <2>1, <2>2, ConcatProperties
  <2>4. r = u \o b
    BY <1>4, <2>1
  <2>5. /\ r \in Seq(SnWords) /\ Len(r) = Len(u) + Len(b)
        /\ \A i \in 1 .. Len(u) + Len(b) : r[i] = IF i <= Len(u) THEN u[i] ELSE b[i - Len(u)]
    BY <1>7, <2>3, <2>4, ConcatProperties
  <2>6. ASSUME NEW i \in 1 .. 2 * m - 1 PROVE r[i] = a[i]
    <3>1. /\ i \in 1 .. Len(u) + Len(b) /\ i <= Len(u)
          /\ i \in 1 .. 2 * m /\ i <= Len(a)
      BY <1>1, <1>6, <1>7, <2>3
    <3>2. r[i] = u[i]
      BY <2>5, <3>1
    <3> QED BY <2>3, <3>1, <3>2
  <2>7. r[2 * m] = "/"
    <3>1. 2 * m \in 1 .. 2 * m /\ ~(2 * m <= Len(a)) /\ 2 * m - Len(a) = 1
      BY <1>1, <1>6
    <3>2. r[2 * m] = u[2 * m]
      BY <1>1, <1>7, <2>3, <2>5
    <3> QED BY <2>2, <2>3, <3>1, <3>2
  <2>8. ASSUME NEW i \in 1 .. 2 * n - 1 PROVE r[2 * m + i] = b[i]
    <3>1. /\ 2 * m + i \in 1 .. Len(u) + Len(b) /\ ~(2 * m + i <= Len(u))
          /\ (2 * m + i) - Len(u) = i
      BY <1>1, <1>7, <2>3
    <3> QED BY <2>5, <3>1
  <2>9. Len(r) = 2 * (m + n) - 1
    BY <1>1, <1>7, <2>3, <2>5
  <2> QED BY <2>5, <2>6, <2>7, <2>8, <2>9
<1>9. ASSUME NEW i \in 1 .. 2 * (m + n) - 1 PROVE l[i] = r[i]
  <2>1. l[i] = IF i % 2 = 1 THEN pq[(i + 1) \div 2] ELSE "/"
    BY <1>5
  <2>2. CASE i <= 2 * m - 1
    <3>1. i \in 1 .. 2 * m - 1 /\ r[i] = a[i]
      BY <1>8, <2>2
    <3>2. i % 2 = 1 => (i + 1) \div 2 \in 1 .. m
      BY <2>2
    <3>3. i % 2 = 1 => pq[(i + 1) \div 2] = p[(i + 1) \div 2]
      BY <1>3, <3>2
    <3> QED BY <1>6, <2>1, <3>1, <3>3
  <2>3. CASE i = 2 * m
    <3>1. i % 2 # 1
      BY <2>3
    <3> QED BY <1>8, <2>1, <2>3, <3>1
  <2>4. CASE i > 2 * m
    <3>1. PICK k \in 1 .. 2 * n - 1 : i = 2 * m + k
      <4>1. i - 2 * m \in 1 .. 2 * n - 1 /\ i = 2 * m + (i - 2 * m)
        BY <2>4
      <4> QED BY <4>1
    <3>2. r[i] = b[k] /\ b[k] = IF k % 2 = 1 THEN q[(k + 1) \div 2] ELSE "/"
      BY <1>7, <1>8, <3>1
    <3>3. PICK h \in Nat : h = (k + 1) \div 2
      BY <3>1
    <3>4. i % 2 = k % 2 /\ (i + 1) \div 2 = m + h
      BY <3>1, <3>3
    <3>5. k % 2 = 1 => h \in 1 .. n
      BY <3>1, <3>3
    <3>6. k % 2 = 1 => pq[m + h] = q[h]
      BY <1>3, <3>5
    <3> QED BY <2>1, <3>2, <3>3, <3>4, <3>6
  <2> QED BY <2>2, <2>3, <2>4
<1>10. l = r
  BY <1>5, <1>8, <1>9, SeqEqual
<1> QED BY <1>2, <1>4, <1>10

-----------------------------------------------------------------------------
(* The sibling before a snapshot.                                           *)
SnLast(tree, s) ==
    CHOOSE t \in Snaps!ElderSiblings(tree, s) : \A u \in Snaps!ElderSiblings(tree, s) : u <= t

LEMMA SnGreatest ==
    ASSUME NEW T, T \subseteq Nat, T # {}, NEW n \in Nat, \A y \in T : y <= n
    PROVE  \E x \in T : \A y \in T : y <= x
<1> DEFINE U == {k \in Nat : \A y \in T : y <= k}
<1>1. PICK x \in U : \A k \in U : x <= k
  <2>1. U \subseteq Nat /\ U # {}
    OBVIOUS
  <2> HIDE DEF U
  <2> QED BY <2>1, Least
<1>2. ASSUME x \notin T PROVE FALSE
  <2>1. \A y \in T : y <= x - 1
    BY <1>2
  <2>2. x - 1 \in Nat
    <3>1. PICK y \in T : y <= x - 1
      BY <2>1
    <3>2. y \in Nat /\ x \in Nat
      OBVIOUS
    <3> QED BY <3>1, <3>2
  <2>3. x - 1 \in U
    BY <2>1, <2>2
  <2>4. ~(x <= x - 1)
    BY <2>2
  <2> HIDE DEF U
  <2> QED BY <1>1, <2>3, <2>4
<1> QED BY <1>2

LEMMA SnLastOf ==
    ASSUME NEW tree, NEW n, SnGrown(tree, n), NEW s \in DOMAIN tree,
           Snaps!ElderSiblings(tree, s) # {}
    PROVE  /\ SnLast(tree, s) \in DOMAIN tree /\ SnLast(tree, s) < s
           /\ tree[SnLast(tree, s)].parent = tree[s].parent
<1>1. /\ Snaps!ElderSiblings(tree, s) \subseteq Nat /\ n \in Nat
      /\ \A y \in Snaps!ElderSiblings(tree, s) : y <= n
  BY DEF Snaps!ElderSiblings, Snaps!Children, SnGrown
<1>2. SnLast(tree, s) \in Snaps!ElderSiblings(tree, s)
  <2>1. \E x \in Snaps!ElderSiblings(tree, s) : \A y \in Snaps!ElderSiblings(tree, s) : y <= x
    BY <1>1, SnGreatest
  <2> QED BY <2>1 DEF SnLast
<1> QED BY <1>2 DEF Snaps!ElderSiblings, Snaps!Children

(* What precedes the name of a snapshot in its hint.                        *)
SnPrefix(tree, h, s) ==
    CASE Snaps!ElderSiblings(tree, s) # {} /\ Snaps!Children(tree, SnLast(tree, s)) # {} ->
             h[SnLast(tree, s)] \o <<"/">>
      [] Snaps!ElderSiblings(tree, s) # {} /\ Snaps!Children(tree, SnLast(tree, s)) = {} ->
             h[SnLast(tree, s)]
      [] Snaps!ElderSiblings(tree, s) = {} /\ tree[s].parent # 0 -> h[tree[s].parent] \o <<"/">>
      [] OTHER -> <<>>
SnHintFrom(tree, h, s) == SnPrefix(tree, h, s) \o Snaps!Spelled(tree[s].name)

LEMMA SnPrefixKept ==
    ASSUME NEW tree, NEW n, SnGrown(tree, n), NEW s \in DOMAIN tree, NEW f, NEW g,
           \A t \in DOMAIN tree : t < s => f[t] = g[t]
    PROVE  SnHintFrom(tree, f, s) = SnHintFrom(tree, g, s)
<1>1. Snaps!ElderSiblings(tree, s) # {} => f[SnLast(tree, s)] = g[SnLast(tree, s)]
  BY SnLastOf
<1>2. tree[s].parent # 0 => f[tree[s].parent] = g[tree[s].parent]
  BY DEF SnGrown
<1>3. SnPrefix(tree, f, s) = SnPrefix(tree, g, s)
  <2>1. PICK l, q, e, k : /\ l = SnLast(tree, s) /\ q = tree[s].parent
                          /\ e = Snaps!ElderSiblings(tree, s) /\ k = Snaps!Children(tree, l)
    OBVIOUS
  <2>2. (e # {} => f[l] = g[l]) /\ (q # 0 => f[q] = g[q])
    BY <1>1, <1>2, <2>1
  <2>3. CASE e # {} /\ k # {}
    BY <2>1, <2>2, <2>3 DEF SnPrefix
  <2>4. CASE e # {} /\ k = {}
    BY <2>1, <2>2, <2>4 DEF SnPrefix
  <2>5. CASE e = {} /\ q # 0
    BY <2>1, <2>2, <2>5 DEF SnPrefix
  <2>6. CASE e = {} /\ q = 0
    BY <2>1, <2>6 DEF SnPrefix
  <2> QED BY <2>3, <2>4, <2>5, <2>6
<1> QED BY <1>3 DEF SnHintFrom

LEMMA SnHintsExist ==
    ASSUME NEW tree, NEW n, SnGrown(tree, n)
    PROVE  \E f : f = [s \in DOMAIN tree |-> SnHintFrom(tree, f, s)]
<1> DEFINE S == {k \in Nat : \E f : f = [s \in SnUpTo(tree, k) |-> SnHintFrom(tree, f, s)]}
<1>1. 0 \in S
  <2>1. SnUpTo(tree, 0) = {}
    BY DEF SnUpTo, SnGrown
  <2> DEFINE f == [s \in {} |-> 0]
  <2>2. f = [s \in SnUpTo(tree, 0) |-> SnHintFrom(tree, f, s)]
    BY <2>1
  <2> QED BY <2>2
<1>2. ASSUME NEW k \in Nat, k \in S PROVE k + 1 \in S
  <2>1. PICK f : f = [s \in SnUpTo(tree, k) |-> SnHintFrom(tree, f, s)]
    BY <1>2
  <2>2. PICK g : g = [s \in SnUpTo(tree, k + 1) |-> SnHintFrom(tree, f, s)]
    OBVIOUS
  <2>3. ASSUME NEW s \in SnUpTo(tree, k + 1) PROVE g[s] = SnHintFrom(tree, g, s)
    <3>1. s \in DOMAIN tree /\ s <= k + 1 /\ DOMAIN tree \subseteq Nat
      BY <2>3 DEF SnUpTo, SnGrown
    <3>2. ASSUME NEW t \in DOMAIN tree, t < s PROVE f[t] = g[t]
      <4>1. t \in SnUpTo(tree, k) /\ t \in SnUpTo(tree, k + 1)
        BY <3>1, <3>2 DEF SnUpTo
      <4>2. f[t] = SnHintFrom(tree, f, t) /\ g[t] = SnHintFrom(tree, f, t)
        BY <2>1, <2>2, <4>1
      <4> QED BY <4>2
    <3>3. SnHintFrom(tree, f, s) = SnHintFrom(tree, g, s)
      BY <3>1, <3>2, SnPrefixKept
    <3> QED BY <2>2, <2>3, <3>3
  <2>4. g = [s \in SnUpTo(tree, k + 1) |-> SnHintFrom(tree, g, s)]
    BY <2>2, <2>3
  <2> QED BY <2>4
<1>3. n \in S
  <2>1. n \in Nat
    BY DEF SnGrown
  <2> HIDE DEF S
  <2> QED BY <1>1, <1>2, <2>1, Induction
<1>4. SnUpTo(tree, n) = DOMAIN tree
  BY DEF SnUpTo, SnGrown
<1> QED BY <1>3, <1>4

LEMMA SnHintOf ==
    ASSUME NEW tree, NEW n, SnGrown(tree, n), NEW s \in DOMAIN tree
    PROVE  Snaps!Hints(tree)[s] = SnHintFrom(tree, Snaps!Hints(tree), s)
<1>1. Snaps!Hints(tree) = CHOOSE f : f = [t \in DOMAIN tree |-> SnHintFrom(tree, f, t)]
  BY DEF Snaps!Hints, SnHintFrom, SnPrefix, SnLast
<1>2. PICK f : f = Snaps!Hints(tree)
  OBVIOUS
<1>3. f = [t \in DOMAIN tree |-> SnHintFrom(tree, f, t)]
  BY <1>1, <1>2, SnHintsExist
<1> QED BY <1>2, <1>3

(* Neither the snapshot nor one above it has an elder sibling.              *)
SnChain(tree, s) ==
    \A t \in DOMAIN tree : s \in Snaps!Under(tree, t) => Snaps!ElderSiblings(tree, t) = {}

LEMMA SnChainOf ==
    ASSUME NEW tree, NEW n, SnGrown(tree, n), NEW s \in DOMAIN tree
    PROVE  /\ SnChain(tree, s) => Snaps!ElderSiblings(tree, s) = {}
           /\ tree[s].parent # 0 => (SnChain(tree, s) => SnChain(tree, tree[s].parent))
           /\ Snaps!ElderSiblings(tree, s) = {}
                 /\ (tree[s].parent # 0 => SnChain(tree, tree[s].parent)) => SnChain(tree, s)
<1>1. \A t \in DOMAIN tree :
          s \in Snaps!Under(tree, t)
              <=> s = t \/ (tree[s].parent # 0 /\ tree[s].parent \in Snaps!Under(tree, t))
  BY SnUnderOf
<1> QED BY <1>1 DEF SnChain

SnNamed(tree) == \A s \in DOMAIN tree : tree[s].name \in SnNames

(* A hint is the path spelled out, or longer.                               *)
SnFits(tree, s) ==
    LET p == Snaps!Path(tree)[s]
        h == Snaps!Hints(tree)[s]
    IN  /\ p \in SnNames /\ h \in Seq(SnWords)
        /\ SnChain(tree, s) => h = Snaps!Spelled(p)
        /\ ~SnChain(tree, s) => Len(h) > 2 * Len(p) - 1

LEMMA SnConcats ==
    ASSUME NEW u \in Seq(SnWords), NEW p \in SnNames
    PROVE  /\ u \o Snaps!Spelled(p) \in Seq(SnWords)
           /\ Len(u \o Snaps!Spelled(p)) = Len(u) + 2 * Len(p) - 1
           /\ Len(u) \in Nat /\ Len(p) \in Nat /\ Len(p) >= 1
<1>1. PICK e : e = Snaps!Spelled(p)
  OBVIOUS
<1>2. e \in Seq(SnWords) /\ Len(e) = 2 * Len(p) - 1 /\ Len(p) \in Nat /\ Len(p) >= 1
  BY <1>1, SnSpelledIs
<1>3. u \o e \in Seq(SnWords) /\ Len(u \o e) = Len(u) + Len(e)
  <2>1. e \in Seq(SnWords)
    BY <1>2
  <2> QED BY <2>1, ConcatProperties
<1>4. Len(u) \in Nat
  BY LenProperties
<1> QED BY <1>1, <1>2, <1>3, <1>4

LEMMA SnSlashed ==
    ASSUME NEW u \in Seq(SnWords)
    PROVE  u \o <<"/">> \in Seq(SnWords) /\ Len(u \o <<"/">>) = Len(u) + 1
<1>1. PICK e : e = <<"/">>
  OBVIOUS
<1>2. e \in Seq(SnWords) /\ Len(e) = 1
  BY <1>1 DEF SnWords
<1>3. u \o e \in Seq(SnWords) /\ Len(u \o e) = Len(u) + Len(e) /\ Len(e) = 1
  <2>1. e \in Seq(SnWords)
    BY <1>2
  <2>2. u \o e \in Seq(SnWords) /\ Len(u \o e) = Len(u) + Len(e)
    BY <2>1, ConcatProperties
  <2> QED BY <1>2, <2>2
<1> QED BY <1>1, <1>3

LEMMA SnAfterSiblings ==
    ASSUME NEW tree, NEW n, SnGrown(tree, n), SnNamed(tree), NEW s \in DOMAIN tree,
           Snaps!ElderSiblings(tree, s) # {}, SnFits(tree, SnLast(tree, s)),
           tree[s].parent # 0 => SnFits(tree, tree[s].parent)
    PROVE  SnFits(tree, s)
<1>1. PICK l, q, a, b, h, p : /\ l = SnLast(tree, s) /\ q = tree[s].parent
                              /\ a = tree[s].name /\ b = tree[l].name
                              /\ h = Snaps!Hints(tree) /\ p = Snaps!Path(tree)
  OBVIOUS
<1>2. l \in DOMAIN tree /\ tree[l].parent = q /\ a \in SnNames /\ b \in SnNames
  BY <1>1, SnLastOf DEF SnNamed
<1>3. /\ p[s] = IF q = 0 THEN a ELSE p[q] \o a
      /\ p[l] = IF q = 0 THEN b ELSE p[q] \o b
  BY <1>1, <1>2, SnPathOf DEF SnPathFrom
<1>4. h[l] \in Seq(SnWords) /\ p[l] \in SnNames /\ Len(h[l]) >= 2 * Len(p[l]) - 1
  <2>1. /\ h[l] \in Seq(SnWords) /\ p[l] \in SnNames
        /\ h[l] = Snaps!Spelled(p[l]) \/ Len(h[l]) > 2 * Len(p[l]) - 1
    BY <1>1 DEF SnFits
  <2>2. PICK r, g : r = p[l] /\ g = h[l]
    OBVIOUS
  <2>3. Len(Snaps!Spelled(r)) = 2 * Len(r) - 1 /\ Len(r) \in Nat /\ Len(g) \in Nat
    BY <2>1, <2>2, SnSpelledIs, LenProperties
  <2>4. Len(g) >= 2 * Len(r) - 1
    BY <2>1, <2>2, <2>3
  <2> QED BY <2>1, <2>2, <2>4
<1>5. PICK u : h[s] = u \o Snaps!Spelled(a) /\ u \in Seq(SnWords) /\ Len(u) >= Len(h[l])
  <2>1. h[s] = SnPrefix(tree, h, s) \o Snaps!Spelled(a)
    BY <1>1, SnHintOf DEF SnHintFrom
  <2>2. SnPrefix(tree, h, s) = h[l] \o <<"/">> \/ SnPrefix(tree, h, s) = h[l]
    <3>1. CASE Snaps!Children(tree, l) # {}
      BY <1>1, <3>1 DEF SnPrefix
    <3>2. CASE Snaps!Children(tree, l) = {}
      BY <1>1, <3>2 DEF SnPrefix
    <3> QED BY <3>1, <3>2
  <2>3. /\ h[l] \o <<"/">> \in Seq(SnWords) /\ Len(h[l] \o <<"/">>) = Len(h[l]) + 1
        /\ Len(h[l]) \in Nat
    BY <1>4, SnSlashed
  <2>4. PICK u : u = SnPrefix(tree, h, s)
    OBVIOUS
  <2>5. u \in Seq(SnWords) /\ Len(u) >= Len(h[l])
    <3>1. CASE u = h[l] \o <<"/">>
      <4>1. u \in Seq(SnWords) /\ Len(u) = Len(h[l]) + 1 /\ Len(h[l]) \in Nat
        BY <2>3, <3>1
      <4> QED BY <4>1
    <3>2. CASE u = h[l]
      BY <1>4, <2>3, <3>2
    <3> QED BY <2>2, <2>4, <3>1, <3>2
  <2> QED BY <2>1, <2>4, <2>5
<1>6. h[s] \in Seq(SnWords) /\ Len(h[s]) = Len(u) + 2 * Len(a) - 1
      /\ Len(u) \in Nat /\ Len(a) \in Nat
  BY <1>2, <1>5, SnConcats
<1>7. p[s] \in SnNames /\ Len(h[s]) > 2 * Len(p[s]) - 1
  <2>1. CASE q = 0
    <3>1. p[s] = a /\ p[l] = b /\ Len(b) \in Nat /\ Len(b) >= 1
      BY <1>2, <1>3, <2>1, SnSpelledIs
    <3> QED BY <1>2, <1>4, <1>5, <1>6, <3>1, SMTT(30)
  <2>2. CASE q # 0
    <3>1. PICK r : r = p[q]
      OBVIOUS
    <3>2. r \in SnNames
      BY <1>1, <2>2, <3>1 DEF SnFits
    <3>3. /\ p[s] = r \o a /\ p[l] = r \o b
          /\ Len(b) \in Nat /\ Len(b) >= 1 /\ Len(r) \in Nat
      BY <1>2, <1>3, <2>2, <3>1, <3>2, SnSpelledIs
    <3>4. /\ r \o a \in SnNames /\ Len(r \o a) = Len(r) + Len(a)
          /\ Len(r \o b) = Len(r) + Len(b)
      BY <1>2, <3>2 DEF SnNames
    <3>5. Len(h[l]) \in Nat
      BY <1>4
    <3> QED BY <1>4, <1>5, <1>6, <3>3, <3>4, <3>5
  <2> QED BY <2>1, <2>2
<1>8. ~SnChain(tree, s)
  BY SnChainOf
<1> QED BY <1>1, <1>6, <1>7, <1>8 DEF SnFits

LEMMA SnFirstOfSiblings ==
    ASSUME NEW tree, NEW n, SnGrown(tree, n), SnNamed(tree), NEW s \in DOMAIN tree,
           Snaps!ElderSiblings(tree, s) = {}, tree[s].parent # 0 => SnFits(tree, tree[s].parent)
    PROVE  SnFits(tree, s)
<1>1. PICK q, a, h, p : /\ q = tree[s].parent /\ a = tree[s].name
                        /\ h = Snaps!Hints(tree) /\ p = Snaps!Path(tree)
  OBVIOUS
<1>2. a \in SnNames /\ p[s] = (IF q = 0 THEN a ELSE p[q] \o a)
  BY <1>1, SnPathOf DEF SnPathFrom, SnNamed
<1>3. h[s] = SnPrefix(tree, h, s) \o Snaps!Spelled(a)
  BY <1>1, SnHintOf DEF SnHintFrom
<1>4. CASE q = 0
  <2>1. SnPrefix(tree, h, s) = <<>>
    BY <1>1, <1>4 DEF SnPrefix
  <2>2. h[s] = Snaps!Spelled(a) /\ p[s] = a
    BY <1>2, <1>3, <1>4, <2>1, SnSpelledIs
  <2>3. SnChain(tree, s)
    BY <1>1, <1>4, SnChainOf
  <2> QED BY <1>1, <1>2, <2>2, <2>3, SnSpelledIs DEF SnFits
<1>5. CASE q # 0
  <2>1. PICK r, g : r = p[q] /\ g = h[q]
    OBVIOUS
  <2>2. /\ r \in SnNames /\ g \in Seq(SnWords)
        /\ SnChain(tree, q) => g = Snaps!Spelled(r)
        /\ ~SnChain(tree, q) => Len(g) > 2 * Len(r) - 1
    BY <1>1, <1>5, <2>1 DEF SnFits
  <2>3. SnPrefix(tree, h, s) = g \o <<"/">>
    BY <1>1, <1>5, <2>1 DEF SnPrefix
  <2>4. /\ p[s] = r \o a /\ r \o a \in SnNames /\ Len(r \o a) = Len(r) + Len(a)
        /\ Len(r) \in Nat /\ Len(a) \in Nat
    BY <1>2, <1>5, <2>1, <2>2 DEF SnNames
  <2>5. /\ g \o <<"/">> \in Seq(SnWords) /\ Len(g \o <<"/">>) = Len(g) + 1
    BY <2>2, SnSlashed
  <2>6. h[s] \in Seq(SnWords) /\ Len(h[s]) = Len(g) + 2 * Len(a) /\ Len(g) \in Nat
    BY <1>2, <1>3, <2>2, <2>3, <2>4, <2>5, SnConcats
  <2>7. CASE SnChain(tree, q)
    <3>1. h[s] = Snaps!Spelled(p[s])
      <4>1. Snaps!Spelled(r \o a) = Snaps!Spelled(r) \o <<"/">> \o Snaps!Spelled(a)
        BY <1>2, <2>2, SnSpelledConcat
      <4>2. g = Snaps!Spelled(r)
        BY <2>2, <2>7
      <4> QED BY <1>3, <2>3, <2>4, <4>1, <4>2
    <3>2. SnChain(tree, s)
      BY <1>1, <2>7, SnChainOf
    <3> QED BY <1>1, <2>4, <2>6, <3>1, <3>2 DEF SnFits
  <2>8. CASE ~SnChain(tree, q)
    <3>1. Len(h[s]) > 2 * Len(p[s]) - 1
      BY <2>2, <2>4, <2>6, <2>8
    <3>2. ~SnChain(tree, s)
      BY <1>1, <1>5, <2>8, SnChainOf
    <3> QED BY <1>1, <2>4, <2>6, <3>1, <3>2 DEF SnFits
  <2> QED BY <2>7, <2>8
<1> QED BY <1>4, <1>5

LEMMA SnAllFit ==
    ASSUME NEW tree, NEW n, SnGrown(tree, n), SnNamed(tree), NEW s \in DOMAIN tree
    PROVE  SnFits(tree, s)
<1> DEFINE S == {k \in Nat : \A t \in SnUpTo(tree, k) : SnFits(tree, t)}
<1>1. 0 \in S
  BY DEF SnUpTo, SnGrown
<1>2. ASSUME NEW k \in Nat, k \in S PROVE k + 1 \in S
  <2>1. ASSUME NEW t \in SnUpTo(tree, k + 1) PROVE SnFits(tree, t)
    <3>1. t \in DOMAIN tree /\ t <= k + 1 /\ DOMAIN tree \subseteq Nat
      BY <2>1 DEF SnUpTo, SnGrown
    <3>2. \A u \in DOMAIN tree : u < t => SnFits(tree, u)
      <4>1. \A u \in DOMAIN tree : u < t => u \in SnUpTo(tree, k)
        BY <3>1 DEF SnUpTo
      <4> QED BY <1>2, <4>1
    <3>3. tree[t].parent # 0 => SnFits(tree, tree[t].parent)
      BY <3>1, <3>2 DEF SnGrown
    <3>4. CASE Snaps!ElderSiblings(tree, t) = {}
      BY <3>1, <3>3, <3>4, SnFirstOfSiblings
    <3>5. CASE Snaps!ElderSiblings(tree, t) # {}
      BY <3>1, <3>2, <3>3, <3>5, SnLastOf, SnAfterSiblings
    <3> QED BY <3>4, <3>5
  <2> QED BY <2>1
<1>3. n \in S
  <2>1. n \in Nat
    BY DEF SnGrown
  <2> HIDE DEF S
  <2> QED BY <1>1, <1>2, <2>1, Induction
<1> QED BY <1>3 DEF SnUpTo, SnGrown

LEMMA SnHintFits ==
    ASSUME NEW tree, NEW n, SnGrown(tree, n), SnNamed(tree), NEW s \in DOMAIN tree
    PROVE  Snaps!Hints(tree)[s] = Snaps!Spelled(Snaps!Path(tree)[s]) <=> SnChain(tree, s)
<1>1. SnFits(tree, s)
  BY SnAllFit
<1>2. PICK p, h : p = Snaps!Path(tree)[s] /\ h = Snaps!Hints(tree)[s]
  OBVIOUS
<1>3. /\ p \in SnNames
      /\ SnChain(tree, s) => h = Snaps!Spelled(p)
      /\ ~SnChain(tree, s) => Len(h) > 2 * Len(p) - 1
  BY <1>1, <1>2 DEF SnFits
<1>4. Len(p) \in Nat /\ Len(Snaps!Spelled(p)) = 2 * Len(p) - 1
  BY <1>3, SnSpelledIs
<1> QED BY <1>2, <1>3, <1>4

-----------------------------------------------------------------------------
(* What is listed is a tree with its hints.                                 *)
SnAskNamed(j) == j.ask.do = "create" => j.ask.name \in SnNames
SnListed(j) ==
    \/ j.tree = <<>>
    \/ (\E n : SnGrown(j.tree, n)) /\ SnNamed(j.tree) /\ j.hints = Snaps!Hints(j.tree)
SnHInv ==
    /\ SnNamed(snaps)
    /\ \A c \in Cmds : SnAskNamed(job[c]) /\ SnListed(job[c])

SnSame(j, k) == k.ask = j.ask /\ k.tree = j.tree /\ k.hints = j.hints

LEMMA SnHintsStay ==
    ASSUME SnTypes, SnHInv, NEW c \in Cmds, NEW j, Snaps!Update(c, j), SnAskNamed(j),
           SnListed(j), SnNamed(snaps)'
    PROVE  SnHInv'
<1>1. job'[c] = j /\ \A d \in Cmds \ {c} : job'[d] = job[d]
  BY DEF Snaps!Update, SnTypes
<1>2. ASSUME NEW d \in Cmds PROVE SnAskNamed(job[d])' /\ SnListed(job[d])'
  <2>1. CASE d = c
    <3>1. SnAskNamed(job'[c]) /\ SnListed(job'[c])
      BY <1>1
    <3> QED BY <2>1, <3>1 DEF SnAskNamed, SnListed
  <2>2. CASE d # c
    <3>1. job'[d] = job[d] /\ SnAskNamed(job[d]) /\ SnListed(job[d])
      BY <1>1, <2>2 DEF SnHInv
    <3> QED BY <3>1 DEF SnAskNamed, SnListed
  <2> QED BY <2>1, <2>2
<1> QED BY <1>2 DEF SnHInv

LEMMA SnSameStay ==
    ASSUME SnTypes, SnHInv, NEW c \in Cmds, NEW j, Snaps!Update(c, j), SnSame(job[c], j),
           SnNamed(snaps)'
    PROVE  SnHInv'
<1>1. SnAskNamed(job[c]) /\ SnListed(job[c])
  BY DEF SnHInv
<1>2. SnAskNamed(j) /\ SnListed(j)
  BY <1>1 DEF SnSame, SnAskNamed, SnListed
<1> QED BY <1>2, SnHintsStay

LEMMA SnSames ==
    ASSUME NEW j, SnIsJob(j), NEW p, NEW l, NEW s
    PROVE  /\ SnSame(j, [j EXCEPT !.pc = p])
           /\ SnSame(j, [j EXCEPT !.pc = p, !.path = l])
           /\ SnSame(j, [j EXCEPT !.pc = p, !.snap = s])
<1>1. j \in [pc : {j.pc}, ask : {j.ask}, path : {j.path}, snap : Nat, tree : {j.tree},
             hints : {j.hints}]
  BY DEF SnIsJob
<1>2. PICK k : k = [j EXCEPT !.pc = p]
  OBVIOUS
<1>3. PICK m : m = [j EXCEPT !.pc = p, !.path = l]
  OBVIOUS
<1>4. PICK n : n = [j EXCEPT !.pc = p, !.snap = s]
  OBVIOUS
<1>5. SnSame(j, k)
  BY <1>1, <1>2 DEF SnSame
<1>6. SnSame(j, m)
  BY <1>1, <1>3 DEF SnSame
<1>7. SnSame(j, n)
  BY <1>1, <1>4 DEF SnSame
<1> QED BY <1>2, <1>3, <1>4, <1>5, <1>6, <1>7

LEMMA SnNamesStay == ASSUME SnHInv, snaps' = snaps PROVE SnNamed(snaps)'
BY DEF SnHInv, SnNamed

LEMMA SnHintsStep ==
    ASSUME Snaps!AsksAssumption, SnIInv, SnHInv, [Snaps!Next]_(Snaps!vars)
    PROVE  SnHInv'
<1>0. SnTypes
  BY DEF SnIInv
<1>1. CASE UNCHANGED Snaps!vars
  BY <1>1 DEF SnHInv, SnNamed, SnAskNamed, SnListed, Snaps!vars
<1>2. ASSUME NEW c \in Cmds, Snaps!Begin(c) PROVE SnHInv'
  <2>1. PICK r \in SnapshotAsks[c], p \in Snaps!KnownPaths :
          \E q : /\ Snaps!Update(c, [job[c] EXCEPT !.ask = r, !.path = p, !.pc = q])
                 /\ UNCHANGED Snaps!vm
    BY <1>2 DEF Snaps!Begin
  <2>2. PICK q : Snaps!Update(c, [job[c] EXCEPT !.ask = r, !.path = p, !.pc = q])
    BY <2>1
  <2>2a. PICK j : j = [job[c] EXCEPT !.ask = r, !.path = p, !.pc = q]
    OBVIOUS
  <2>3. j.ask = r /\ j.tree = job[c].tree /\ j.hints = job[c].hints
    <3>1. SnIsJob(job[c])
      BY <1>0 DEF SnTypes
    <3> QED BY <2>2a, <3>1 DEF SnIsJob
  <2>4. SnAskNamed(j)
    BY <2>3, SnNamesOfAsks DEF SnAskNamed, Snaps!AsksAssumption, Snaps!IsName
  <2>5. SnListed(j)
    <3>1. SnListed(job[c])
      BY DEF SnHInv
    <3> QED BY <2>3, <3>1 DEF SnListed
  <2>6. snaps' = snaps
    BY <2>1 DEF Snaps!vm
  <2> QED BY <1>0, <2>2, <2>2a, <2>4, <2>5, <2>6, SnHintsStay, SnNamesStay
<1>3. ASSUME NEW c \in Cmds, Snaps!Look(c) \/ Snaps!Find(c) \/ Snaps!Restore(c) PROVE SnHInv'
  <2>1. SnIsJob(job[c])
    BY <1>0 DEF SnTypes
  <2>2. PICK j : Snaps!Update(c, j) /\ SnSame(job[c], j)
    <3>1. CASE Snaps!Look(c)
      BY <2>1, <3>1, SnSames DEF Snaps!Look, Snaps!Goto
    <3>2. CASE Snaps!Find(c)
      BY <2>1, <3>2, SnSames DEF Snaps!Find, Snaps!Goto
    <3>3. CASE Snaps!Restore(c)
      BY <2>1, <3>3, SnSames DEF Snaps!Restore, Snaps!Goto
    <3> QED BY <1>3, <3>1, <3>2, <3>3
  <2>3. snaps' = snaps
    BY <1>3 DEF Snaps!Look, Snaps!Find, Snaps!Restore, Snaps!vm
  <2> QED BY <1>0, <2>2, <2>3, SnSameStay, SnNamesStay
<1>4. ASSUME NEW c \in Cmds, Snaps!Take(c) PROVE SnHInv'
  <2>1. SnIsJob(job[c]) /\ job[c].ask.do = "create" /\ SnAskNamed(job[c])
    BY <1>0, <1>4 DEF SnTypes, SnIsJob, Snaps!Take, Snaps!At, SnHInv, Snaps!Over
  <2>2. PICK j : Snaps!Update(c, j) /\ SnSame(job[c], j)
    BY <1>4, <2>1, SnSames DEF Snaps!Take, Snaps!Goto
  <2>3. CASE snaps' = snaps
    BY <1>0, <2>2, <2>3, SnSameStay, SnNamesStay
  <2>4. CASE snaps' = [s \in DOMAIN snaps \cup {made + 1} |->
                          IF s \in DOMAIN snaps THEN snaps[s]
                          ELSE [name |-> job[c].ask.name, parent |-> current]]
    <3>1. \A s \in DOMAIN snaps : snaps[s].name \in SnNames
      BY DEF SnHInv, SnNamed
    <3>2. job[c].ask.name \in SnNames
      BY <2>1 DEF SnAskNamed
    <3>3. SnNamed(snaps)'
      BY <2>4, <3>1, <3>2 DEF SnNamed
    <3> QED BY <1>0, <2>2, <3>3, SnSameStay
  <2> QED BY <1>4, <2>3, <2>4 DEF Snaps!Take, Snaps!vm
<1>5. ASSUME NEW c \in Cmds, Snaps!Remove(c) PROVE SnHInv'
  <2>1. SnIsJob(job[c])
    BY <1>0 DEF SnTypes
  <2>2. PICK j : Snaps!Update(c, j) /\ SnSame(job[c], j)
    BY <1>5, <2>1, SnSames DEF Snaps!Remove, Snaps!Goto
  <2>3. CASE snaps' = snaps
    BY <1>0, <2>2, <2>3, SnSameStay, SnNamesStay
  <2>4. CASE snaps' # snaps
    <3>1. PICK s, gone :
            snaps' = [t \in DOMAIN snaps \ gone |->
                         IF snaps[t].parent = s
                         THEN [snaps[t] EXCEPT !.parent = snaps[s].parent] ELSE snaps[t]]
      BY <1>5, <2>4 DEF Snaps!Remove
    <3>2. ASSUME NEW t \in DOMAIN snaps' PROVE snaps'[t].name \in SnNames
      <4>1. /\ t \in DOMAIN snaps /\ snaps[t].name \in SnNames
            /\ snaps[t] \in [name : {snaps[t].name}, parent : Nat]
        BY <1>0, <3>1 DEF SnTypes, SnHInv, SnNamed
      <4>2. CASE snaps[t].parent = s
        BY <3>1, <4>1, <4>2
      <4>3. CASE snaps[t].parent # s
        BY <3>1, <4>1, <4>3
      <4> QED BY <4>2, <4>3
    <3>3. SnNamed(snaps)'
      BY <3>2 DEF SnNamed
    <3> QED BY <1>0, <2>2, <3>3, SnSameStay
  <2> QED BY <2>3, <2>4
<1>6. ASSUME NEW c \in Cmds, Snaps!ListHints(c) PROVE SnHInv'
  <2>1. PICK t, h : t = snaps /\ h = Snaps!Hints(snaps)
    OBVIOUS
  <2>2. PICK j : j = [job[c] EXCEPT !.pc = "done", !.tree = t, !.hints = h]
    OBVIOUS
  <2>3. Snaps!Update(c, j) /\ snaps' = snaps
    BY <1>6, <2>1, <2>2 DEF Snaps!ListHints, Snaps!vm
  <2>4. j.ask = job[c].ask /\ j.tree = t /\ j.hints = h
    <3>1. SnIsJob(job[c])
      BY <1>0 DEF SnTypes
    <3> QED BY <2>2, <3>1 DEF SnIsJob
  <2>5. SnAskNamed(j)
    BY <2>4 DEF SnHInv, SnAskNamed
  <2>6. SnListed(j)
    <3>1. SnGrown(t, made) /\ SnNamed(t)
      BY <1>0, <2>1 DEF SnTypes, SnHInv
    <3> QED BY <2>1, <2>4, <3>1 DEF SnListed
  <2> QED BY <1>0, <2>3, <2>5, <2>6, SnHintsStay, SnNamesStay
<1> QED BY <1>1, <1>2, <1>3, <1>4, <1>5, <1>6 DEF Snaps!Next, Snaps!Working

LEMMA SnHintsInit == ASSUME Snaps!Init PROVE SnHInv
<1>1. ASSUME NEW c \in Cmds PROVE SnAskNamed(job[c]) /\ SnListed(job[c])
  BY <1>1 DEF Snaps!Init, SnAskNamed, SnListed
<1>2. CASE snaps = <<>>
  BY <1>1, <1>2 DEF SnHInv, SnNamed
<1>3. CASE snaps = <<[name |-> <<"a">>, parent |-> 0], [name |-> <<"b">>, parent |-> 1]>>
  <2>1. DOMAIN snaps = 1 .. 2 /\ snaps[1].name = <<"a">> /\ snaps[2].name = <<"b">>
    BY <1>3
  <2>2. \A s \in DOMAIN snaps : s = 1 \/ s = 2
    BY <2>1
  <2>3. SnNamed(snaps)
    BY <2>1, <2>2, SnFirstNames DEF SnNamed
  <2> QED BY <1>1, <2>3 DEF SnHInv
<1> QED BY <1>2, <1>3 DEF Snaps!Init

LEMMA SnHintsInvImplies == ASSUME SnHInv PROVE Snaps!HintsOfChain
<1> SUFFICES ASSUME NEW c \in Cmds, NEW s \in DOMAIN job[c].tree
             PROVE  job[c].hints[s] = Snaps!Spelled(Snaps!Path(job[c].tree)[s])
                        <=> \A t \in DOMAIN job[c].tree :
                               s \in Snaps!Under(job[c].tree, t)
                                   => Snaps!ElderSiblings(job[c].tree, t) = {}
  BY DEF Snaps!HintsOfChain
<1>1. PICK tree : tree = job[c].tree
  OBVIOUS
<1>2. (\E n : SnGrown(tree, n)) /\ SnNamed(tree) /\ job[c].hints = Snaps!Hints(tree)
  <2>1. tree # <<>>
    BY <1>1
  <2> QED BY <1>1, <2>1 DEF SnHInv, SnListed
<1>3. Snaps!Hints(tree)[s] = Snaps!Spelled(Snaps!Path(tree)[s]) <=> SnChain(tree, s)
  BY <1>1, <1>2, SnHintFits
<1> QED BY <1>1, <1>2, <1>3 DEF SnChain

-----------------------------------------------------------------------------
(* Powering and customizing a VM.                                          *)

PwSpecs == [version : Nat, params : SUBSET Cmds, nics : Nat]

(* Where a command can be, by what it was asked.                           *)
PwSteps(do) ==
    CASE do = "on" -> {"find", "apply", "state", "task", "awaitstart", "awaitend", "drop"}
      [] do \in {"soft", "hard"} -> {"state", "task"}
      [] do = "vnic" -> {"nic", "last", "nicspec", "overwrite"}
      [] do = "customize" -> {"clear", "look", "prepare", "read", "params", "create",
                              "overwrite"}

PwIsJob(j) ==
    /\ j \in [pc : {j.pc}, ask : Power!Requests, source : {j.source}, spec : PwSpecs, mark : Nat,
            own : BOOLEAN]
    /\ j.pc = "new" => j.ask.do = "on" /\ j.spec = Power!NoSpec
    /\ j.pc \notin {"new"} \cup Power!Over => j.pc \in PwSteps(j.ask.do)
    /\ j.ask.do = "customize" /\ j.pc \in {"clear", "look", "prepare", "read"}
           => j.spec = Power!NoSpec
    /\ j.ask.do = "vnic" /\ j.pc \in {"nic", "last", "nicspec"} => j.spec = Power!NoSpec
    /\ j.ask.do = "customize" /\ j.pc = "params" /\ j.source = "none" => j.spec = Power!NoSpec
    /\ j.pc = "read" => j.source # "none"

PwTypes ==
    /\ job = [c \in Cmds |-> job[c]]
    /\ \A c \in Cmds : PwIsJob(job[c])
    /\ spec \in PwSpecs /\ made \in Nat /\ vnics \in Nat
    /\ kept \subseteq Cmds /\ raced \in BOOLEAN

(* Who has the spec's version has all parameters written into it.          *)
PwVersions ==
    /\ spec = Power!NoSpec => kept = {}
    /\ spec # Power!NoSpec => spec.version > 0
    /\ spec.version <= made
    /\ kept \subseteq spec.params

PwHolds(c, j) ==
    /\ j.spec.version <= made
    /\ j.pc \in {"params", "overwrite"} /\ spec # Power!NoSpec /\ j.spec.version = spec.version
           => kept \subseteq j.spec.params
    /\ j.ask.do = "customize" /\ j.pc \in {"create", "overwrite"} /\ j.ask.params
           => c \in j.spec.params

(* Adapters, while no vNIC has been added and the spec prepared at once.    *)
PwActive(j) == j.pc \notin {"new"} \cup Power!Over
PwCovers(s) == s.params = {} \/ s.nics = 0 \/ s.nics >= vnics
PwAdding(j) == j.ask.do = "vnic" /\ j.pc \in {"last", "nicspec", "overwrite"}

PwAlone(c) ==
    job[c].ask.do = "vnic" /\ PwActive(job[c])
        => \A d \in Cmds \ {c} : PwActive(job[d]) => job[d].ask.do \notin {"vnic", "customize"}

PwPrepares(j) ==
    /\ j.ask.do = "customize" /\ j.pc \in {"params", "overwrite", "create"} => PwCovers(j.spec)
    /\ j.ask.do = "vnic" /\ j.pc = "last" => j.mark = vnics
    /\ j.ask.do = "vnic" /\ j.pc \in {"last", "nicspec"}
           => spec.params = {} \/ spec.nics = 0 \/ spec.nics + 1 >= vnics
    /\ j.ask.do = "vnic" /\ j.pc = "overwrite"
           => PwCovers(j.spec) /\ (spec = Power!NoSpec \/ spec.version = j.spec.version)

PwAdapters ==
    /\ \A c \in Cmds : PwAlone(c) /\ PwPrepares(job[c])
    /\ (\A c \in Cmds : ~PwAdding(job[c])) => PwCovers(spec)

PwIInv ==
    /\ PwTypes /\ PwVersions
    /\ \A c \in Cmds : PwHolds(c, job[c])
    /\ ~raced => PwAdapters

-----------------------------------------------------------------------------
LEMMA PwNoSpecIsSpec ==
    /\ Power!NoSpec \in PwSpecs
    /\ Power!NoSpec.version = 0 /\ Power!NoSpec.params = {} /\ Power!NoSpec.nics = 0
BY DEF Power!NoSpec, PwSpecs

LEMMA PwMaxOfTwo ==
    ASSUME NEW a \in Nat, NEW b \in Nat
    PROVE  Power!Max({a, b}) \in {a, b} /\ Power!Max({a, b}) >= a /\ Power!Max({a, b}) >= b
BY DEF Power!Max

LEMMA PwRequestKinds ==
    ASSUME NEW r \in Power!Requests
    PROVE  r.do \in {"on", "soft", "hard", "vnic", "customize"}
<1>1. \/ r \in [do : {"on", "soft", "hard"}]
      \/ r \in [do : {"vnic"}, index : 1 .. MaxVnics]
      \/ r \in [do : {"customize"}, source : {"none", "own", "library", "otherOS", "unknown"},
                params : BOOLEAN, override : BOOLEAN]
  BY DEF Power!Requests
<1>2. CASE r \in [do : {"on", "soft", "hard"}]
  BY <1>2
<1>3. CASE r \in [do : {"vnic"}, index : 1 .. MaxVnics]
  BY <1>3
<1>4. CASE r \in [do : {"customize"}, source : {"none", "own", "library", "otherOS", "unknown"},
                   params : BOOLEAN, override : BOOLEAN]
  <2>1. r.do \in {"customize"}
    BY <1>4
  <2> QED BY <2>1
<1> QED BY <1>1, <1>2, <1>3, <1>4

LEMMA PwStepsOf ==
    /\ PwSteps("on") = {"find", "apply", "state", "task", "awaitstart", "awaitend", "drop"}
    /\ PwSteps("soft") = {"state", "task"} /\ PwSteps("hard") = {"state", "task"}
    /\ PwSteps("vnic") = {"nic", "last", "nicspec", "overwrite"}
    /\ PwSteps("customize") =
           {"clear", "look", "prepare", "read", "params", "create", "overwrite"}
BY DEF PwSteps

(* What a command was asked follows from where it is.                      *)
LEMMA PwAsked ==
    ASSUME NEW j, PwIsJob(j)
    PROVE  /\ j.ask \in Power!Requests /\ j.spec \in PwSpecs /\ j.mark \in Nat
           /\ j.pc \in {"find", "apply", "awaitstart", "awaitend", "drop"} => j.ask.do = "on"
           /\ j.pc \in {"state", "task"} => j.ask.do \in {"on", "soft", "hard"}
           /\ j.pc \in {"nic", "last", "nicspec"} => j.ask.do = "vnic"
           /\ j.pc \in {"clear", "look", "prepare", "read", "params", "create"}
                  => j.ask.do = "customize"
           /\ j.pc = "overwrite" => j.ask.do \in {"vnic", "customize"}
<1>1. j.ask \in Power!Requests /\ j.spec \in PwSpecs /\ j.mark \in Nat
  BY DEF PwIsJob
<1>2. j.ask.do \in {"on", "soft", "hard", "vnic", "customize"}
  BY <1>1, PwRequestKinds
<1>3. j.pc \notin {"new"} \cup Power!Over => j.pc \in PwSteps(j.ask.do)
  BY DEF PwIsJob
<1> QED BY <1>1, <1>2, <1>3, PwStepsOf DEF Power!Over

LEMMA PwMoved ==
    ASSUME PwTypes, NEW c \in Cmds, NEW j, PwIsJob(j), Power!Update(c, j)
    PROVE  /\ job' = [d \in Cmds |-> job'[d]]
           /\ job'[c] = j /\ \A d \in Cmds \ {c} : job'[d] = job[d]
           /\ \A d \in Cmds : PwIsJob(job'[d])
<1>1. job' = [d \in Cmds |-> job'[d]] /\ job'[c] = j /\ \A d \in Cmds \ {c} : job'[d] = job[d]
  BY DEF Power!Update, PwTypes
<1> QED BY <1>1 DEF PwTypes

(* What a step may do to the spec.                                         *)
PwWritten ==
    /\ spec' \in PwSpecs /\ made' = made + 1 /\ spec'.version = made + 1
    /\ kept' \subseteq spec'.params /\ kept' \subseteq Cmds

LEMMA PwSpecsKept ==
    ASSUME PwTypes, PwVersions, UNCHANGED Power!specs \/ Power!DeleteSpec \/ PwWritten
    PROVE  /\ spec' \in PwSpecs /\ made' \in Nat /\ kept' \subseteq Cmds /\ PwVersions'
           /\ \A d \in Cmds : \A j : PwIsJob(j) /\ PwHolds(d, j) => PwHolds(d, j)'
<1>1. spec \in PwSpecs /\ made \in Nat /\ kept \subseteq Cmds
  BY DEF PwTypes
<1>2. CASE UNCHANGED Power!specs
  <2>1. spec' = spec /\ made' = made /\ kept' = kept
    BY <1>2 DEF Power!specs
  <2> QED BY <1>1, <2>1 DEF PwVersions, PwHolds
<1>3. CASE Power!DeleteSpec
  <2>1. spec' = Power!NoSpec /\ made' = made /\ kept' = {}
    BY <1>3 DEF Power!DeleteSpec
  <2>2. PwVersions'
    BY <1>1, <2>1, PwNoSpecIsSpec DEF PwVersions
  <2> QED BY <1>1, <2>1, <2>2, PwNoSpecIsSpec DEF PwHolds
<1>4. CASE PwWritten
  <2>1. spec' # Power!NoSpec /\ spec'.version = made + 1 /\ made' = made + 1
    BY <1>1, <1>4, PwNoSpecIsSpec DEF PwWritten
  <2>2. PwVersions'
    BY <1>1, <1>4, <2>1 DEF PwVersions, PwWritten
  <2>3. ASSUME NEW d \in Cmds, NEW j, PwIsJob(j), PwHolds(d, j) PROVE PwHolds(d, j)'
    <3>1. j.spec.version \in Nat
      <4>1. j.spec \in PwSpecs
        BY <2>3, PwAsked
      <4> QED BY <4>1 DEF PwSpecs
    <3>2. j.spec.version <= made /\ j.spec.version # spec'.version
      BY <1>1, <2>1, <2>3, <3>1 DEF PwHolds
    <3> QED BY <1>1, <2>1, <2>3, <3>1, <3>2 DEF PwHolds
  <2> QED BY <1>1, <1>4, <2>1, <2>2, <2>3 DEF PwWritten
<1> QED BY <1>2, <1>3, <1>4

(* A command's step on its own locals and the spec: it keeps the invariant  *)
(* if its own part of it holds afterwards.                                 *)
LEMMA PwStepKeeps ==
    ASSUME PwIInv, NEW c \in Cmds, PwActive(job[c]), NEW j, PwIsJob(j), Power!Update(c, j),
           j.ask = job[c].ask, UNCHANGED <<vnics, raced>>,
           \/ UNCHANGED Power!specs
           \/ Power!DeleteSpec
           \/ PwWritten /\ job[c].ask.do \in {"vnic", "customize"},
           PwHolds(c, j)',
           ~raced => PwPrepares(j)' /\ (\/ PwAdding(j)
                                        \/ PwCovers(spec)'
                                        \/ UNCHANGED Power!specs /\ ~PwAdding(job[c]))
    PROVE  PwIInv'
<1>t. PwTypes /\ PwVersions
  BY DEF PwIInv
<1>1. /\ job' = [d \in Cmds |-> job'[d]]
      /\ job'[c] = j /\ \A d \in Cmds \ {c} : job'[d] = job[d]
      /\ \A d \in Cmds : PwIsJob(job'[d])
  BY <1>t, PwMoved
<1>2. /\ spec' \in PwSpecs /\ made' \in Nat /\ kept' \subseteq Cmds /\ PwVersions'
      /\ \A d \in Cmds : \A k : PwIsJob(k) /\ PwHolds(d, k) => PwHolds(d, k)'
  BY <1>t, PwSpecsKept
<1>3. PwTypes'
  <2>1. (\A d \in Cmds : PwIsJob(job[d]))'
    BY <1>1 DEF PwIsJob
  <2> QED BY <1>t, <1>1, <1>2, <2>1 DEF PwTypes
<1>4. ASSUME NEW d \in Cmds PROVE PwHolds(d, job[d])'
  <2>1. PICK k : k = job'[d]
    OBVIOUS
  <2>2. PwIsJob(job[d]) /\ PwHolds(d, job[d])
    BY DEF PwIInv, PwTypes
  <2>3. PwHolds(d, k)'
    <3>1. CASE d = c
      <4>1. k = j
        BY <1>1, <2>1, <3>1
      <4> QED BY <3>1, <4>1 DEF PwHolds
    <3>2. CASE d # c
      <4>1. k = job[d]
        BY <1>1, <2>1, <3>2
      <4>2. PwHolds(d, k)'
        BY <1>2, <2>2, <4>1
      <4> QED BY <2>2, <4>1, <4>2
    <3> QED BY <3>1, <3>2
  <2> QED BY <2>1, <2>3 DEF PwHolds
<1>5. ASSUME ~raced PROVE PwAdapters'
  <2>0. PwAdapters
    BY <1>5 DEF PwIInv
  <2>1. ASSUME NEW d \in Cmds PROVE PwAlone(d)'
    <3>1. \A e \in Cmds : job'[e].ask = job[e].ask /\ (PwActive(job[e])' => PwActive(job[e]))
      BY <1>1 DEF PwActive
    <3> QED BY <2>0, <2>1, <3>1 DEF PwAdapters, PwAlone
  <2>2. ASSUME NEW d \in Cmds \ {c} PROVE PwPrepares(job[d])'
    <3>1. PICK k : k = job'[d] /\ k = job[d] /\ PwIsJob(k)
      BY <1>1
    <3>2. PwPrepares(k)
      BY <2>0, <3>1 DEF PwAdapters
    <3>3. CASE UNCHANGED Power!specs
      BY <3>1, <3>2, <3>3 DEF PwPrepares, PwCovers, Power!specs
    <3>4. CASE Power!DeleteSpec
      <4>1. spec' = Power!NoSpec /\ Power!NoSpec.params = {}
        BY <3>4, PwNoSpecIsSpec DEF Power!DeleteSpec
      <4> QED BY <3>1, <3>2, <4>1 DEF PwPrepares, PwCovers
    <3>5. CASE PwWritten /\ job[c].ask.do \in {"vnic", "customize"}
      <4>1. PwActive(k) => k.ask.do # "vnic"
        BY <2>0, <2>2, <3>1, <3>5 DEF PwAdapters, PwAlone
      <4>2. k.pc \in {"last", "nicspec", "overwrite"} => k.ask.do # "vnic"
        BY <4>1 DEF PwActive, Power!Over
      <4> QED BY <3>1, <3>2, <4>2 DEF PwPrepares, PwCovers
    <3> QED BY <3>3, <3>4, <3>5
  <2>3. PwPrepares(job[c])'
    <3>1. PICK k : k = job'[c] /\ k = j
      BY <1>1
    <3>2. PwPrepares(k)'
      BY <1>5, <3>1 DEF PwPrepares, PwCovers
    <3> QED BY <3>1, <3>2 DEF PwPrepares, PwCovers
  <2>4. ASSUME \A d \in Cmds : ~PwAdding(job'[d]) PROVE PwCovers(spec)'
    <3>1. ~PwAdding(j) /\ \A d \in Cmds \ {c} : ~PwAdding(job[d])
      BY <1>1, <2>4
    <3>2. CASE UNCHANGED Power!specs /\ ~PwAdding(job[c])
      <4>1. PwCovers(spec)
        BY <2>0, <3>1, <3>2 DEF PwAdapters
      <4> QED BY <3>2, <4>1 DEF PwCovers, Power!specs
    <3> QED BY <1>5, <3>1, <3>2
  <2> QED BY <2>1, <2>2, <2>3, <2>4 DEF PwAdapters, PwAdding
<1> QED BY <1>2, <1>3, <1>4, <1>5 DEF PwIInv

-----------------------------------------------------------------------------
(* Facts that every step of a command starts from.                         *)
LEMMA PwBefore ==
    ASSUME PwIInv, NEW c \in Cmds
    PROVE  /\ PwTypes /\ PwVersions /\ PwIsJob(job[c]) /\ PwHolds(c, job[c])
           /\ spec \in PwSpecs /\ made \in Nat /\ vnics \in Nat /\ kept \subseteq Cmds
           /\ ~raced => PwPrepares(job[c]) /\ PwAlone(c)
           /\ ~raced /\ (\A d \in Cmds : ~PwAdding(job[d])) => PwCovers(spec)
BY DEF PwIInv, PwTypes, PwAdapters

(* The locals after a step.                                                *)
PwLocals(j, p, a, q, s, m) ==
    j \in [pc : {p}, ask : {a}, source : {q}, spec : {s}, mark : {m}, own : BOOLEAN]

PwFits(a, p, q, s) ==
    /\ p # "new" /\ (p \in Power!Over \/ p \in PwSteps(a.do))
    /\ a.do = "customize" /\ p \in {"clear", "look", "prepare", "read"} => s = Power!NoSpec
    /\ a.do = "vnic" /\ p \in {"nic", "last", "nicspec"} => s = Power!NoSpec
    /\ a.do = "customize" /\ p = "params" /\ q = "none" => s = Power!NoSpec
    /\ p = "read" => q # "none"

LEMMA PwJobAfter ==
    ASSUME NEW k, NEW p, NEW a \in Power!Requests, NEW q, NEW s \in PwSpecs, NEW m \in Nat,
           PwLocals(k, p, a, q, s, m), PwFits(a, p, q, s)
    PROVE  PwIsJob(k) /\ k.pc = p /\ k.ask = a /\ k.source = q /\ k.spec = s /\ k.mark = m
<1>1. k.pc = p /\ k.ask = a /\ k.source = q /\ k.spec = s /\ k.mark = m
  BY DEF PwLocals
<1>2. k \in [pc : {k.pc}, ask : Power!Requests, source : {k.source}, spec : PwSpecs, mark : Nat,
             own : BOOLEAN]
  BY DEF PwLocals
<1> QED BY <1>1, <1>2 DEF PwIsJob, PwFits, Power!Over

LEMMA PwGoes ==
    ASSUME NEW j, PwIsJob(j), NEW p
    PROVE  PwLocals([j EXCEPT !.pc = p], p, j.ask, j.source, j.spec, j.mark)
<1>1. j \in [pc : {j.pc}, ask : Power!Requests, source : {j.source}, spec : PwSpecs, mark : Nat,
             own : BOOLEAN]
  BY DEF PwIsJob
<1> QED BY <1>1 DEF PwLocals

LEMMA PwReads ==
    ASSUME NEW j, PwIsJob(j), NEW p, NEW s
    PROVE  PwLocals([j EXCEPT !.spec = s, !.pc = p], p, j.ask, j.source, s, j.mark)
<1>1. j \in [pc : {j.pc}, ask : Power!Requests, source : {j.source}, spec : PwSpecs, mark : Nat,
             own : BOOLEAN]
  BY DEF PwIsJob
<1> QED BY <1>1 DEF PwLocals

LEMMA PwMarks ==
    ASSUME NEW j, PwIsJob(j), NEW p, NEW m
    PROVE  PwLocals([j EXCEPT !.pc = p, !.mark = m], p, j.ask, j.source, j.spec, m)
<1>1. j \in [pc : {j.pc}, ask : Power!Requests, source : {j.source}, spec : PwSpecs, mark : Nat,
             own : BOOLEAN]
  BY DEF PwIsJob
<1> QED BY <1>1 DEF PwLocals

LEMMA PwTakes ==
    ASSUME NEW j, PwIsJob(j), NEW p, NEW s
    PROVE  PwLocals([j EXCEPT !.pc = p, !.spec = s], p, j.ask, j.source, s, j.mark)
<1>1. j \in [pc : {j.pc}, ask : Power!Requests, source : {j.source}, spec : PwSpecs, mark : Nat,
             own : BOOLEAN]
  BY DEF PwIsJob
<1> QED BY <1>1 DEF PwLocals

LEMMA PwCounts ==
    ASSUME NEW j, PwIsJob(j), NEW p, NEW m, NEW o \in BOOLEAN
    PROVE  PwLocals([j EXCEPT !.mark = m, !.own = o, !.pc = p],
                    p, j.ask, j.source, j.spec, m)
<1>1. j \in [pc : {j.pc}, ask : Power!Requests, source : {j.source}, spec : PwSpecs, mark : Nat,
             own : BOOLEAN]
  BY DEF PwIsJob
<1> QED BY <1>1 DEF PwLocals

LEMMA PwSources ==
    ASSUME NEW j, PwIsJob(j), NEW p, NEW q
    PROVE  PwLocals([j EXCEPT !.pc = p, !.source = q], p, j.ask, q, j.spec, j.mark)
<1>1. j \in [pc : {j.pc}, ask : Power!Requests, source : {j.source}, spec : PwSpecs, mark : Nat,
             own : BOOLEAN]
  BY DEF PwIsJob
<1> QED BY <1>1 DEF PwLocals

LEMMA PwBegins ==
    ASSUME NEW j, PwIsJob(j), NEW p, NEW q, NEW r
    PROVE  PwLocals([j EXCEPT !.ask = r, !.source = q, !.pc = p], p, r, q, j.spec, j.mark)
<1>1. j \in [pc : {j.pc}, ask : Power!Requests, source : {j.source}, spec : PwSpecs, mark : Nat,
             own : BOOLEAN]
  BY DEF PwIsJob
<1> QED BY <1>1 DEF PwLocals

(* A step that only moves on.                                              *)
LEMMA PwMoves ==
    ASSUME PwIInv, NEW c \in Cmds, PwActive(job[c]), NEW p, Power!Goto(c, p),
           p \in Power!Over \/ p \in PwSteps(job[c].ask.do), p \notin {"new", "create"},
           job[c].ask.do = "customize" /\ p \in {"clear", "look", "prepare", "read", "params"}
               => job[c].spec = Power!NoSpec,
           job[c].ask.do = "vnic" => p \in Power!Over \/ (job[c].pc = "last" /\ p = "nicspec"),
           p = "read" => job[c].source # "none",
           p = "overwrite" => (job[c].pc = "params" /\ ~job[c].ask.params),
           UNCHANGED <<vnics, raced>>,
           UNCHANGED Power!specs \/ Power!DeleteSpec
               \/ (/\ PwWritten /\ job[c].ask.do \in {"vnic", "customize"}
                   /\ p \in {"read"} \cup Power!Over),
           ~raced => \/ job[c].pc = "last" /\ p = "nicspec" /\ UNCHANGED Power!specs
                     \/ PwCovers(spec)'
                     \/ UNCHANGED Power!specs /\ ~PwAdding(job[c])
    PROVE  PwIInv'
<1>0. PICK k : k = [job[c] EXCEPT !.pc = p]
  OBVIOUS
<1>1. /\ PwIsJob(job[c]) /\ PwHolds(c, job[c]) /\ PwTypes /\ PwVersions
      /\ spec \in PwSpecs /\ made \in Nat /\ vnics \in Nat
      /\ job[c].spec \in PwSpecs /\ job[c].mark \in Nat
  BY PwBefore, PwAsked
<1>2. /\ PwIsJob(k) /\ k.pc = p /\ k.ask = job[c].ask /\ k.spec = job[c].spec
      /\ k.mark = job[c].mark
  <2>1. job[c].ask.do = "vnic" /\ p \in {"nic", "last", "nicspec"} => job[c].spec = Power!NoSpec
    BY <1>1 DEF PwIsJob, Power!Over
  <2>2. PwLocals(k, p, job[c].ask, job[c].source, job[c].spec, job[c].mark)
    BY <1>0, <1>1, PwGoes
  <2>3. PwFits(job[c].ask, p, job[c].source, job[c].spec)
    BY <2>1 DEF PwFits
  <2>4. job[c].ask \in Power!Requests /\ job[c].spec \in PwSpecs /\ job[c].mark \in Nat
    BY <1>1, PwAsked
  <2> QED BY <2>2, <2>3, <2>4, PwJobAfter
<1>3. Power!Update(c, k)
  BY <1>0 DEF Power!Goto
<1>5. PwVersions' /\ made' \in Nat /\ made' >= made
  BY <1>1, PwSpecsKept DEF Power!specs, Power!DeleteSpec, PwWritten
<1>6. PwHolds(c, k)'
  <2>1. k.spec.version <= made'
    BY <1>1, <1>2, <1>5 DEF PwHolds, PwSpecs
  <2>2. ~(k.ask.do = "customize" /\ k.pc \in {"create", "overwrite"} /\ k.ask.params)
    BY <1>2
  <2>3. ASSUME k.pc \in {"params", "overwrite"}, spec' # Power!NoSpec,
               k.spec.version = spec'.version
        PROVE  kept' \subseteq k.spec.params
    <3>1. job[c].ask.do = "customize" /\ k.ask = job[c].ask
      <4>1. job[c].ask.do # "vnic"
        BY <1>2, <2>3 DEF Power!Over
      <4> QED BY <1>1, <1>2, <2>3, <4>1, PwAsked, PwStepsOf, PwRequestKinds DEF Power!Over
    <3>2. CASE p = "params"
      <4>1. k.spec = Power!NoSpec /\ spec'.version > 0
        BY <1>2, <1>5, <2>3, <3>1, <3>2 DEF PwVersions
      <4> QED BY <2>3, <4>1, PwNoSpecIsSpec
    <3>3. CASE p = "overwrite"
      <4>1. UNCHANGED Power!specs
        BY <1>2, <2>3, <3>3, PwNoSpecIsSpec DEF Power!DeleteSpec, Power!Over
      <4> QED BY <1>1, <1>2, <2>3, <3>3, <4>1 DEF PwHolds, Power!specs
    <3> QED BY <1>2, <2>3, <3>2, <3>3
  <2> QED BY <2>1, <2>2, <2>3 DEF PwHolds
<1>7. ASSUME ~raced
      PROVE  /\ PwPrepares(k)'
             /\ PwAdding(k) \/ PwCovers(spec)' \/ (UNCHANGED Power!specs /\ ~PwAdding(job[c]))
  <2>1. PwPrepares(job[c])
    BY <1>7, PwBefore
  <2>2. p = "params" /\ k.ask.do = "customize" => PwCovers(k.spec)
    BY <1>2, PwNoSpecIsSpec DEF PwCovers
  <2>3. p = "overwrite" /\ k.ask.do = "customize" => PwCovers(k.spec)
    BY <1>2, <2>1 DEF PwPrepares
  <2>4. k.ask.do = "vnic" => p \in Power!Over \/ (p = "nicspec" /\ job[c].pc = "last")
    BY <1>2
  <2>5. job[c].pc = "last" /\ p = "nicspec" /\ k.ask.do = "vnic" /\ ~PwCovers(spec)'
            => /\ UNCHANGED Power!specs
               /\ spec.params = {} \/ spec.nics = 0 \/ spec.nics + 1 >= vnics
    <3>1. job[c].pc = "last" /\ p = "nicspec" /\ k.ask.do = "vnic" /\ ~PwCovers(spec)'
              => UNCHANGED Power!specs
      BY <1>7
    <3> QED BY <1>2, <2>1, <3>1 DEF PwPrepares
  <2>6. PwPrepares(k)'
    <3>1. k.ask.do = "customize" /\ k.pc \in {"params", "overwrite", "create"}
              => PwCovers(k.spec)'
      BY <1>2, <2>2, <2>3 DEF PwCovers
    <3>2. k.ask.do = "vnic" /\ k.pc \in {"last", "nicspec"}
              => (spec.params = {} \/ spec.nics = 0 \/ spec.nics + 1 >= vnics)'
      <4>1. ASSUME k.ask.do = "vnic", k.pc \in {"last", "nicspec"}
            PROVE  (spec.params = {} \/ spec.nics = 0 \/ spec.nics + 1 >= vnics)'
        <5>1. job[c].pc = "last" /\ p = "nicspec"
          BY <1>2, <2>4, <4>1 DEF Power!Over
        <5>2. CASE PwCovers(spec)'
          <6>1. spec' \in PwSpecs
            BY <1>1, PwSpecsKept
          <6> QED BY <1>1, <5>2, <6>1 DEF PwCovers, PwSpecs
        <5>3. CASE ~PwCovers(spec)'
          BY <2>5, <4>1, <5>1, <5>3 DEF Power!specs
        <5> QED BY <5>2, <5>3
      <4> QED BY <4>1
    <3>3. k.ask.do = "vnic" => k.pc \notin {"last", "overwrite"}
      BY <1>2, <2>4 DEF Power!Over
    <3> QED BY <3>1, <3>2, <3>3 DEF PwPrepares
  <2>7. PwAdding(k) \/ PwCovers(spec)' \/ (UNCHANGED Power!specs /\ ~PwAdding(job[c]))
    <3>1. CASE job[c].pc = "last" /\ p = "nicspec" /\ UNCHANGED Power!specs
      BY <1>1, <1>2, <3>1, PwAsked DEF PwAdding
    <3> QED BY <1>7, <3>1
  <2> QED BY <2>6, <2>7
<1>8. \/ UNCHANGED Power!specs
      \/ Power!DeleteSpec
      \/ PwWritten /\ job[c].ask.do \in {"vnic", "customize"}
  OBVIOUS
<1> QED BY <1>2, <1>3, <1>6, <1>7, <1>8, PwStepKeeps

-----------------------------------------------------------------------------
(* The commands' steps, in the order of Working.                           *)
LEMMA PwFindSpecKeeps == ASSUME PwIInv, NEW c \in Cmds, Power!FindSpec(c) PROVE PwIInv'
<1>1. /\ PwIsJob(job[c]) /\ spec \in PwSpecs /\ PwVersions /\ job[c].pc = "find"
      /\ job[c].ask.do = "on" /\ PwActive(job[c]) /\ job[c].ask \in Power!Requests
      /\ job[c].mark \in Nat
  BY PwBefore, PwAsked DEF Power!FindSpec, Power!At, PwActive, Power!Over
<1>2. PICK p : p = IF spec = Power!NoSpec THEN "state" ELSE "apply"
  OBVIOUS
<1>3. PICK j : j = [job[c] EXCEPT !.spec = spec, !.pc = p]
  OBVIOUS
<1>4. Power!Update(c, j)
  BY <1>2, <1>3 DEF Power!FindSpec
<1>5. PwIsJob(j) /\ j.pc = p /\ j.ask = job[c].ask /\ j.spec = spec
  <2>1. PwLocals(j, p, job[c].ask, job[c].source, spec, job[c].mark)
    BY <1>1, <1>3, PwReads
  <2>2. PwFits(job[c].ask, p, job[c].source, spec)
    BY <1>1, <1>2, PwStepsOf DEF PwFits
  <2> QED BY <1>1, <2>1, <2>2, PwJobAfter
<1>6. UNCHANGED <<vnics, raced>> /\ UNCHANGED Power!specs
  BY DEF Power!FindSpec, Power!vm
<1>7. PwHolds(c, j)' /\ PwPrepares(j)'
  BY <1>1, <1>2, <1>5, <1>6 DEF PwHolds, PwPrepares, Power!specs, PwVersions
<1>8. ~PwAdding(job[c])
  BY <1>1 DEF PwAdding
<1> QED BY <1>1, <1>4, <1>5, <1>6, <1>7, <1>8, PwStepKeeps

LEMMA PwApplySpecKeeps == ASSUME PwIInv, NEW c \in Cmds, Power!ApplySpec(c) PROVE PwIInv'
<1>1. PwIsJob(job[c]) /\ job[c].pc = "apply" /\ job[c].ask.do = "on" /\ PwActive(job[c])
  BY PwBefore, PwAsked DEF Power!ApplySpec, Power!At, PwActive, Power!Over
<1>2. UNCHANGED <<vnics, raced>> /\ UNCHANGED Power!specs /\ ~PwAdding(job[c])
  BY <1>1 DEF Power!ApplySpec, PwAdding
<1>3. PICK p \in {"state", "failed"} : Power!Goto(c, p)
  BY DEF Power!ApplySpec
<1> QED BY <1>1, <1>2, <1>3, PwStepsOf, PwMoves DEF Power!Over

LEMMA PwPoweredOnKeeps ==
    ASSUME PwIInv, NEW c \in Cmds, NEW m \in Nat, NEW o \in BOOLEAN, Power!PoweredOn(c, m, o),
           PwActive(job[c]), job[c].ask.do = "on",
           UNCHANGED <<vnics, raced>>, UNCHANGED Power!specs
    PROVE  PwIInv'
<1>1. /\ PwIsJob(job[c]) /\ job[c].ask \in Power!Requests
      /\ job[c].spec \in PwSpecs
      /\ made \in Nat /\ job[c].spec.version <= made /\ ~PwAdding(job[c])
  BY PwBefore, PwAsked DEF PwHolds, PwAdding
<1>2. CASE job[c].spec = Power!NoSpec
  <2>1. Power!Goto(c, "done")
    BY <1>2 DEF Power!PoweredOn
  <2> QED BY <1>1, <2>1, PwMoves DEF Power!Over
<1>3. CASE job[c].spec # Power!NoSpec
  <2>1. PICK j : j = [job[c] EXCEPT !.mark = m, !.own = o, !.pc = "awaitstart"]
    OBVIOUS
  <2>2. Power!Update(c, j)
    BY <1>3, <2>1 DEF Power!PoweredOn
  <2>3. PwIsJob(j) /\ j.pc = "awaitstart" /\ j.ask = job[c].ask /\ j.spec = job[c].spec
    <3>1. PwLocals(j, "awaitstart", job[c].ask, job[c].source, job[c].spec, m)
      BY <1>1, <2>1, PwCounts
    <3>2. PwFits(job[c].ask, "awaitstart", job[c].source, job[c].spec)
      BY <1>1, PwStepsOf DEF PwFits, Power!Over
    <3> QED BY <1>1, <3>1, <3>2, PwJobAfter
  <2>4. PwHolds(c, j)' /\ PwPrepares(j)'
    BY <1>1, <2>3 DEF PwHolds, PwPrepares, Power!specs
  <2> QED BY <1>1, <2>2, <2>3, <2>4, PwStepKeeps
<1> QED BY <1>2, <1>3

LEMMA PwLookAtPowerKeeps == ASSUME PwIInv, NEW c \in Cmds, Power!LookAtPower(c) PROVE PwIInv'
<1>1. /\ PwIsJob(job[c]) /\ job[c].pc = "state" /\ PwActive(job[c])
      /\ job[c].ask.do \in {"on", "soft", "hard"} /\ ~PwAdding(job[c])
  BY PwBefore, PwAsked DEF Power!LookAtPower, Power!At, PwActive, Power!Over, PwAdding
<1>2. UNCHANGED <<vnics, raced>> /\ UNCHANGED Power!specs
  BY DEF Power!LookAtPower, Power!vm
<1>3. ASSUME NEW m \in 0 .. Len(events) + MaxAhead, Power!PoweredOn(c, m, FALSE),
             job[c].ask.do = "on"
      PROVE  PwIInv'
  <2>1. m \in Nat
    OBVIOUS
  <2> QED BY <1>1, <1>2, <1>3, <2>1, PwPoweredOnKeeps
<1>4. CASE Power!Goto(c, "done") /\ job[c].ask.do # "on"
  BY <1>1, <1>2, <1>4, PwMoves DEF Power!Over
<1>5. CASE Power!Goto(c, "task")
  BY <1>1, <1>2, <1>5, PwStepsOf, PwMoves DEF Power!Over
<1> QED BY <1>3, <1>4, <1>5 DEF Power!LookAtPower

LEMMA PwPowerOnKeeps ==
    ASSUME PwIInv, events \in Seq({"started", "ended"}), NEW c \in Cmds, Power!PowerOn(c)
    PROVE  PwIInv'
<1>1. PwActive(job[c]) /\ job[c].ask.do = "on" /\ ~PwAdding(job[c]) /\ Len(events) \in Nat
  BY PwBefore DEF Power!PowerOn, Power!At, PwActive, Power!Over, PwAdding
<1>2. UNCHANGED <<vnics, raced>> /\ UNCHANGED Power!specs
  BY DEF Power!PowerOn
<1>3. CASE Power!PoweredOn(c, Len(events), TRUE)
  BY <1>1, <1>2, <1>3, PwPoweredOnKeeps
<1>4. CASE Power!Goto(c, "failed")
  BY <1>1, <1>2, <1>4, PwMoves DEF Power!Over
<1> QED BY <1>3, <1>4 DEF Power!PowerOn

LEMMA PwAwaitStartKeeps == ASSUME PwIInv, NEW c \in Cmds, Power!AwaitStart(c) PROVE PwIInv'
<1>1. PwActive(job[c]) /\ job[c].ask.do = "on" /\ ~PwAdding(job[c])
  BY PwBefore, PwAsked DEF Power!AwaitStart, Power!At, PwActive, Power!Over, PwAdding
<1>2. UNCHANGED <<vnics, raced>> /\ UNCHANGED Power!specs
  BY DEF Power!AwaitStart, Power!vm
<1>3. CASE Power!Since(job[c].mark, "started") /\ Power!Goto(c, "awaitend")
  BY <1>1, <1>2, <1>3, PwStepsOf, PwMoves
<1>4. CASE Power!Goto(c, "failed")
  BY <1>1, <1>2, <1>4, PwMoves DEF Power!Over
<1> QED BY <1>3, <1>4 DEF Power!AwaitStart

LEMMA PwAwaitEndKeeps == ASSUME PwIInv, NEW c \in Cmds, Power!AwaitEnd(c) PROVE PwIInv'
<1>1. /\ PwActive(job[c]) /\ job[c].ask.do = "on" /\ ~PwAdding(job[c])
  BY PwBefore, PwAsked DEF Power!AwaitEnd, Power!At, PwActive, Power!Over, PwAdding
<1>2. UNCHANGED <<vnics, raced>> /\ UNCHANGED Power!specs /\ Power!Goto(c, "drop")
  BY DEF Power!AwaitEnd, Power!vm
<1> QED BY <1>1, <1>2, PwStepsOf, PwMoves

LEMMA PwDropSpecKeeps == ASSUME PwIInv, NEW c \in Cmds, Power!DropSpec(c) PROVE PwIInv'
<1>1. PwActive(job[c]) /\ job[c].ask.do = "on"
  BY PwBefore, PwAsked DEF Power!DropSpec, Power!At, PwActive, Power!Over
<1>2. UNCHANGED <<vnics, raced>> /\ Power!DeleteSpec /\ Power!Goto(c, "done")
  BY DEF Power!DropSpec, Power!vm
<1>3. PwCovers(spec)'
  BY <1>2, PwNoSpecIsSpec DEF Power!DeleteSpec, PwCovers
<1> QED BY <1>1, <1>2, <1>3, PwMoves DEF Power!Over

LEMMA PwPowerOffKeeps == ASSUME PwIInv, NEW c \in Cmds, Power!PowerOff(c) PROVE PwIInv'
<1>1. PwActive(job[c]) /\ job[c].ask.do \in {"soft", "hard"} /\ ~PwAdding(job[c])
  BY PwBefore, PwAsked DEF Power!PowerOff, Power!At, PwActive, Power!Over, PwAdding
<1>2. UNCHANGED <<vnics, raced>> /\ UNCHANGED Power!specs
  BY DEF Power!PowerOff
<1>3. PICK p \in {"done", "failed"} : Power!Goto(c, p)
  BY DEF Power!PowerOff
<1> QED BY <1>1, <1>2, <1>3, PwMoves DEF Power!Over

LEMMA PwClearSpecKeeps == ASSUME PwIInv, NEW c \in Cmds, Power!ClearSpec(c) PROVE PwIInv'
<1>1. PwActive(job[c]) /\ job[c].ask.do = "customize" /\ job[c].spec = Power!NoSpec
  BY PwBefore, PwAsked DEF Power!ClearSpec, Power!At, PwActive, Power!Over, PwIsJob
<1>2. UNCHANGED <<vnics, raced>> /\ Power!DeleteSpec /\ Power!Goto(c, "prepare")
  BY DEF Power!ClearSpec, Power!vm
<1>3. PwCovers(spec)'
  BY <1>2, PwNoSpecIsSpec DEF Power!DeleteSpec, PwCovers
<1> QED BY <1>1, <1>2, <1>3, PwStepsOf, PwMoves

LEMMA PwLookForSpecKeeps == ASSUME PwIInv, NEW c \in Cmds, Power!LookForSpec(c) PROVE PwIInv'
<1>1. /\ PwIsJob(job[c]) /\ PwActive(job[c]) /\ job[c].ask.do = "customize"
      /\ job[c].spec = Power!NoSpec
      /\ ~PwAdding(job[c]) /\ job[c].ask \in Power!Requests /\ job[c].mark \in Nat
      /\ made \in Nat
  BY PwBefore, PwAsked DEF Power!LookForSpec, Power!At, PwActive, Power!Over, PwIsJob, PwAdding
<1>2. UNCHANGED <<vnics, raced>> /\ UNCHANGED Power!specs
  BY DEF Power!LookForSpec, Power!vm
<1>3. CASE Power!Goto(c, "failed")
  BY <1>1, <1>2, <1>3, PwMoves DEF Power!Over
<1>4. CASE ~(spec # Power!NoSpec /\ job[c].source # "none")
  <2>1. PICK q : q = IF spec = Power!NoSpec THEN job[c].source ELSE "own"
    OBVIOUS
  <2>2. PICK j : j = [job[c] EXCEPT !.pc = "prepare", !.source = q]
    OBVIOUS
  <2>3. Power!Update(c, j)
    BY <1>4, <2>1, <2>2 DEF Power!LookForSpec
  <2>4. PwIsJob(j) /\ j.pc = "prepare" /\ j.ask = job[c].ask /\ j.spec = Power!NoSpec
    <3>1. PwLocals(j, "prepare", job[c].ask, q, Power!NoSpec, job[c].mark)
      BY <1>1, <2>2, PwSources
    <3>2. PwFits(job[c].ask, "prepare", q, Power!NoSpec)
      BY <1>1, PwStepsOf DEF PwFits
    <3> QED BY <1>1, <3>1, <3>2, PwNoSpecIsSpec, PwJobAfter
  <2>5. PwHolds(c, j)' /\ PwPrepares(j)'
    BY <1>1, <1>2, <2>4, PwNoSpecIsSpec DEF PwHolds, PwPrepares, Power!specs
  <2> QED BY <1>1, <1>2, <2>3, <2>4, <2>5, PwStepKeeps
<1> QED BY <1>3, <1>4 DEF Power!LookForSpec

LEMMA PwPrepareKeeps == ASSUME PwIInv, NEW c \in Cmds, Power!Prepare(c) PROVE PwIInv'
<1>1. /\ PwActive(job[c]) /\ job[c].ask.do = "customize" /\ job[c].spec = Power!NoSpec
      /\ ~PwAdding(job[c]) /\ PwVersions /\ made \in Nat
  BY PwBefore, PwAsked DEF Power!Prepare, Power!At, PwActive, Power!Over, PwIsJob, PwAdding
<1>2. UNCHANGED <<vnics, raced>>
  BY DEF Power!Prepare, Power!vm
<1>3. ASSUME UNCHANGED Power!specs, NEW p \in {"read", "params", "done", "failed"},
             Power!Goto(c, p),
             p = "read" => job[c].source # "none"
      PROVE  PwIInv'
  <2>1. p \in Power!Over \/ p \in PwSteps(job[c].ask.do)
    BY <1>1, PwStepsOf DEF Power!Over
  <2> QED BY <1>1, <1>2, <1>3, <2>1, PwMoves
<1>4. ASSUME Power!Goto(c, "read"), spec = Power!NoSpec, made' = made + 1, kept' = kept,
             job[c].source # "none", spec' = [Power!NoSpec EXCEPT !.version = made + 1]
      PROVE  PwIInv'
  <2>1. kept = {}
    BY <1>1, <1>4 DEF PwVersions
  <2>2. spec' \in PwSpecs /\ spec'.version = made + 1 /\ spec'.params = {}
    BY <1>1, <1>4 DEF Power!NoSpec, PwSpecs
  <2>3. PwWritten /\ PwCovers(spec)'
    BY <1>4, <2>1, <2>2 DEF PwWritten, PwCovers
  <2> QED BY <1>1, <1>2, <1>4, <2>3, PwStepsOf, PwMoves
<1>5. CASE job[c].source = "own"
  BY <1>3, <1>5 DEF Power!Prepare
<1>6. CASE job[c].source = "none"
  <2>1. PICK p \in {"params", "done"} : Power!Goto(c, p) /\ UNCHANGED Power!specs
    BY <1>6 DEF Power!Prepare
  <2> QED BY <1>3, <2>1
<1>7. CASE job[c].source \notin {"own", "none"}
  BY <1>3, <1>4, <1>7 DEF Power!Prepare
<1> QED BY <1>5, <1>6, <1>7

(* While a command customizes, nobody is about to extend the spec.         *)
LEMMA PwCustomizesCovered ==
    ASSUME PwIInv, NEW c \in Cmds, PwActive(job[c]), job[c].ask.do = "customize", ~raced
    PROVE  PwCovers(spec)
<1>1. \A d \in Cmds : PwAlone(d)
  BY DEF PwIInv, PwAdapters
<1>2. ASSUME NEW d \in Cmds, PwAdding(job[d]) PROVE FALSE
  <2>1. d # c /\ job[d].ask.do = "vnic" /\ PwActive(job[d])
    BY <1>2 DEF PwAdding, PwActive, Power!Over
  <2> QED BY <1>1, <2>1 DEF PwAlone
<1> QED BY <1>2, PwBefore

LEMMA PwReadSpecKeeps == ASSUME PwIInv, NEW c \in Cmds, Power!ReadSpec(c) PROVE PwIInv'
<1>1. /\ PwIsJob(job[c]) /\ PwActive(job[c]) /\ job[c].ask.do = "customize" /\ ~PwAdding(job[c])
      /\ job[c].ask \in Power!Requests /\ job[c].mark \in Nat /\ spec \in PwSpecs /\ PwVersions
      /\ job[c].source # "none"
  BY PwBefore, PwAsked DEF Power!ReadSpec, Power!At, PwActive, Power!Over, PwAdding, PwIsJob
<1>2. UNCHANGED <<vnics, raced>> /\ UNCHANGED Power!specs
  BY DEF Power!ReadSpec, Power!vm
<1>3. PICK p : p = IF spec = Power!NoSpec THEN "failed" ELSE "params"
  OBVIOUS
<1>4. PICK j : j = [job[c] EXCEPT !.spec = spec, !.pc = p]
  OBVIOUS
<1>5. Power!Update(c, j)
  BY <1>3, <1>4 DEF Power!ReadSpec
<1>6. PwIsJob(j) /\ j.pc = p /\ j.ask = job[c].ask /\ j.spec = spec
  <2>1. PwLocals(j, p, job[c].ask, job[c].source, spec, job[c].mark)
    BY <1>1, <1>4, PwReads
  <2>2. PwFits(job[c].ask, p, job[c].source, spec)
    BY <1>1, <1>3, PwStepsOf DEF PwFits, Power!Over
  <2> QED BY <1>1, <2>1, <2>2, PwJobAfter
<1>7. PwHolds(c, j)'
  BY <1>1, <1>2, <1>3, <1>6 DEF PwHolds, Power!specs, PwVersions
<1>8. ASSUME ~raced PROVE PwPrepares(j)'
  <2>1. PwCovers(j.spec)
    BY <1>1, <1>6, <1>8, PwCustomizesCovered
  <2> QED BY <1>1, <1>2, <1>6, <2>1 DEF PwPrepares, PwCovers
<1> QED BY <1>1, <1>2, <1>5, <1>6, <1>7, <1>8, PwStepKeeps

LEMMA PwSetParamsKeeps == ASSUME PwIInv, NEW c \in Cmds, Power!SetParams(c) PROVE PwIInv'
<1>1. /\ PwIsJob(job[c]) /\ PwActive(job[c]) /\ job[c].ask.do = "customize" /\ ~PwAdding(job[c])
      /\ job[c].ask \in Power!Requests /\ job[c].mark \in Nat /\ job[c].spec \in PwSpecs
      /\ vnics \in Nat /\ PwHolds(c, job[c]) /\ job[c].pc = "params"
  BY PwBefore, PwAsked DEF Power!SetParams, Power!At, PwActive, Power!Over, PwAdding
<1>2. UNCHANGED <<vnics, raced>> /\ UNCHANGED Power!specs
  BY DEF Power!SetParams, Power!vm
<1>3. CASE ~job[c].ask.params
  <2>1. Power!Goto(c, "overwrite")
    BY <1>3 DEF Power!SetParams
  <2> QED BY <1>1, <1>2, <1>3, <2>1, PwStepsOf, PwMoves
<1>4. CASE job[c].ask.params /\ job[c].source = "otherOS"
  <2>1. Power!Goto(c, "failed")
    BY <1>4 DEF Power!SetParams
  <2> QED BY <1>1, <1>2, <2>1, PwMoves DEF Power!Over
<1>5. CASE job[c].ask.params /\ job[c].source # "otherOS"
  <2>1. PICK s : s = [job[c].spec EXCEPT !.params = @ \cup {c}, !.nics = Power!Max({@, vnics})]
    OBVIOUS
  <2>2. PICK p : p = IF job[c].source = "none" THEN "create" ELSE "overwrite"
    OBVIOUS
  <2>3. PICK j : j = [job[c] EXCEPT !.spec = s, !.pc = p]
    OBVIOUS
  <2>4. Power!Update(c, j)
    BY <1>5, <2>1, <2>2, <2>3 DEF Power!SetParams
  <2>5. /\ s \in PwSpecs /\ s.version = job[c].spec.version
        /\ s.params = job[c].spec.params \cup {c} /\ s.nics >= vnics
    <3>1. /\ Power!Max({job[c].spec.nics, vnics}) \in Nat
          /\ Power!Max({job[c].spec.nics, vnics}) >= vnics
      BY <1>1, PwMaxOfTwo DEF PwSpecs
    <3> QED BY <1>1, <2>1, <3>1 DEF PwSpecs
  <2>6. PwIsJob(j) /\ j.pc = p /\ j.ask = job[c].ask /\ j.spec = s
    <3>1. PwLocals(j, p, job[c].ask, job[c].source, s, job[c].mark)
      BY <1>1, <2>3, PwReads
    <3>2. PwFits(job[c].ask, p, job[c].source, s)
      BY <1>1, <2>2, PwStepsOf DEF PwFits
    <3> QED BY <1>1, <2>5, <3>1, <3>2, PwJobAfter
  <2>7. PwHolds(c, j)'
    BY <1>1, <1>2, <2>2, <2>5, <2>6 DEF PwHolds, Power!specs
  <2>8. PwPrepares(j)'
    BY <1>1, <1>2, <2>5, <2>6 DEF PwPrepares, PwCovers
  <2> QED BY <1>1, <1>2, <2>4, <2>6, <2>7, <2>8, PwStepKeeps
<1> QED BY <1>3, <1>4, <1>5

(* Writing a spec that holds what has been written before.                 *)
LEMMA PwWritesKeep ==
    ASSUME PwIInv, NEW c \in Cmds, PwActive(job[c]), job[c].pc \in {"create", "overwrite"},
           \/ spec = Power!NoSpec
           \/ spec.version = job[c].spec.version /\ job[c].pc = "overwrite",
           Power!NewVersion(c, job[c].spec), Power!Goto(c, "done"),
           UNCHANGED <<vnics, raced>>
    PROVE  PwIInv'
<1>1. /\ PwIsJob(job[c]) /\ job[c].ask.do \in {"vnic", "customize"} /\ PwVersions
      /\ PwHolds(c, job[c])
      /\ job[c].spec \in PwSpecs /\ made \in Nat /\ kept \subseteq Cmds
      /\ ~raced => PwPrepares(job[c])
      /\ job[c].pc = "create" => job[c].ask.do = "customize"
  BY PwBefore, PwAsked
<1>2. /\ made' = made + 1 /\ spec' = [job[c].spec EXCEPT !.version = made + 1]
      /\ kept' = IF job[c].ask.do = "customize" /\ job[c].ask.params THEN kept \cup {c} ELSE kept
  BY DEF Power!NewVersion
<1>3. /\ spec' \in PwSpecs /\ spec'.version = made + 1 /\ spec'.params = job[c].spec.params
      /\ spec'.nics = job[c].spec.nics
  BY <1>1, <1>2 DEF PwSpecs
<1>4. kept \subseteq job[c].spec.params
  BY <1>1, PwNoSpecIsSpec DEF PwVersions, PwHolds
<1>5. PwWritten
  BY <1>1, <1>2, <1>3, <1>4 DEF PwWritten, PwHolds
<1>6. ~raced => PwCovers(spec)'
  BY <1>1, <1>3 DEF PwPrepares, PwCovers
<1> QED BY <1>1, <1>5, <1>6, PwMoves DEF Power!Over

LEMMA PwCreateSpecKeeps == ASSUME PwIInv, NEW c \in Cmds, Power!CreateSpec(c) PROVE PwIInv'
<1>1. /\ PwActive(job[c]) /\ job[c].ask.do = "customize" /\ ~PwAdding(job[c])
      /\ job[c].pc = "create"
  BY PwBefore, PwAsked DEF Power!CreateSpec, Power!At, PwActive, Power!Over, PwAdding
<1>2. UNCHANGED <<vnics, raced>>
  BY DEF Power!CreateSpec, Power!vm
<1>3. CASE Power!Goto(c, "failed") /\ UNCHANGED Power!specs
  BY <1>1, <1>2, <1>3, PwMoves DEF Power!Over
<1>4. CASE spec = Power!NoSpec /\ Power!NewVersion(c, job[c].spec) /\ Power!Goto(c, "done")
  BY <1>1, <1>2, <1>4, PwWritesKeep
<1> QED BY <1>3, <1>4 DEF Power!CreateSpec

LEMMA PwOverwriteSpecKeeps == ASSUME PwIInv, NEW c \in Cmds, Power!OverwriteSpec(c) PROVE PwIInv'
<1>1. /\ PwIsJob(job[c]) /\ PwActive(job[c]) /\ job[c].ask.do \in {"vnic", "customize"}
      /\ job[c].pc = "overwrite" /\ (~raced => PwPrepares(job[c])) /\ PwVersions
  BY PwBefore, PwAsked DEF Power!OverwriteSpec, Power!At, PwActive, Power!Over
<1>2. UNCHANGED <<vnics, raced>>
  BY DEF Power!OverwriteSpec, Power!vm
<1>3. CASE spec # Power!NoSpec /\ spec.version = job[c].spec.version
  BY <1>1, <1>2, <1>3, PwWritesKeep DEF Power!OverwriteSpec
<1>4. CASE ~(spec # Power!NoSpec /\ spec.version = job[c].spec.version)
  <2>1. Power!Goto(c, "failed") /\ UNCHANGED Power!specs
    BY <1>4 DEF Power!OverwriteSpec
  <2>2. ~raced => \/ PwCovers(spec)'
                  \/ (UNCHANGED Power!specs /\ ~PwAdding(job[c]))
    <3>1. ASSUME ~raced, job[c].ask.do = "vnic" PROVE PwCovers(spec)'
      <4>1. spec = Power!NoSpec
        BY <1>1, <1>4, <3>1 DEF PwPrepares
      <4> QED BY <2>1, <4>1, PwNoSpecIsSpec DEF PwCovers, Power!specs
    <3> QED BY <2>1, <3>1 DEF PwAdding
  <2> QED BY <1>1, <1>2, <2>1, <2>2, PwMoves DEF Power!Over
<1> QED BY <1>3, <1>4

LEMMA PwTakeLastVnicKeeps == ASSUME PwIInv, NEW c \in Cmds, Power!TakeLastVnic(c) PROVE PwIInv'
<1>1. /\ PwActive(job[c]) /\ job[c].ask.do = "vnic" /\ job[c].pc = "last"
      /\ (~raced => PwPrepares(job[c]))
  BY PwBefore, PwAsked DEF Power!TakeLastVnic, Power!At, PwActive, Power!Over
<1>2. UNCHANGED <<vnics, raced>> /\ UNCHANGED Power!specs
  BY DEF Power!TakeLastVnic, Power!vm
<1>3. CASE Power!Goto(c, "nicspec")
  BY <1>1, <1>2, <1>3, PwStepsOf, PwMoves
<1>4. CASE vnics # job[c].mark /\ Power!Goto(c, "failed")
  <2>1. raced
    BY <1>1, <1>4 DEF PwPrepares
  <2> QED BY <1>1, <1>2, <1>4, <2>1, PwMoves DEF Power!Over
<1> QED BY <1>3, <1>4 DEF Power!TakeLastVnic

LEMMA PwExtendSpecKeeps == ASSUME PwIInv, NEW c \in Cmds, Power!ExtendSpec(c) PROVE PwIInv'
<1>1. /\ PwIsJob(job[c]) /\ PwActive(job[c]) /\ job[c].ask.do = "vnic" /\ job[c].pc = "nicspec"
      /\ job[c].ask \in Power!Requests /\ job[c].mark \in Nat /\ spec \in PwSpecs
      /\ vnics \in Nat
      /\ PwVersions /\ (~raced => PwPrepares(job[c]))
  BY PwBefore, PwAsked DEF Power!ExtendSpec, Power!At, PwActive, Power!Over
<1>2. UNCHANGED <<vnics, raced>> /\ UNCHANGED Power!specs
  BY DEF Power!ExtendSpec, Power!vm
<1>3. CASE spec.nics = 0
  <2>1. Power!Goto(c, "done") /\ PwCovers(spec)'
    BY <1>2, <1>3 DEF Power!ExtendSpec, PwCovers, Power!specs
  <2> QED BY <1>1, <1>2, <2>1, PwMoves DEF Power!Over
<1>4. CASE spec.nics # 0
  <2>1. PICK s : s = [spec EXCEPT !.nics = @ + 1]
    OBVIOUS
  <2>2. PICK j : j = [job[c] EXCEPT !.pc = "overwrite", !.spec = s]
    OBVIOUS
  <2>3. Power!Update(c, j)
    BY <1>4, <2>1, <2>2 DEF Power!ExtendSpec
  <2>4. /\ s \in PwSpecs /\ s.version = spec.version /\ s.params = spec.params
        /\ s.nics = spec.nics + 1
    BY <1>1, <2>1 DEF PwSpecs
  <2>5. PwIsJob(j) /\ j.pc = "overwrite" /\ j.ask = job[c].ask /\ j.spec = s
    <3>1. PwLocals(j, "overwrite", job[c].ask, job[c].source, s, job[c].mark)
      BY <1>1, <2>2, PwTakes
    <3>2. PwFits(job[c].ask, "overwrite", job[c].source, s)
      BY <1>1, PwStepsOf DEF PwFits
    <3> QED BY <1>1, <2>4, <3>1, <3>2, PwJobAfter
  <2>6. PwHolds(c, j)' /\ PwAdding(j)
    BY <1>1, <1>2, <2>4, <2>5 DEF PwHolds, Power!specs, PwVersions, PwAdding
  <2>7. ASSUME ~raced PROVE PwPrepares(j)'
    <3>1. spec.params = {} \/ spec.nics = 0 \/ spec.nics + 1 >= vnics
      BY <1>1, <2>7 DEF PwPrepares
    <3>2. j.spec.params = {} \/ j.spec.nics = 0 \/ j.spec.nics >= vnics
      BY <1>1, <1>4, <2>4, <2>5, <3>1 DEF PwSpecs
    <3> QED BY <1>1, <1>2, <2>4, <2>5, <3>2 DEF PwPrepares, PwCovers, Power!specs
  <2> QED BY <1>1, <1>2, <2>3, <2>5, <2>6, <2>7, PwStepKeeps
<1> QED BY <1>3, <1>4

(* A vNIC more: nobody else prepares a spec, or it has raced.              *)
LEMMA PwAddVnicKeeps == ASSUME PwIInv, NEW c \in Cmds, Power!AddVnic(c) PROVE PwIInv'
<1>1. /\ PwIsJob(job[c]) /\ PwActive(job[c]) /\ job[c].ask.do = "vnic" /\ job[c].pc = "nic"
      /\ job[c].ask \in Power!Requests /\ job[c].mark \in Nat /\ spec \in PwSpecs
      /\ vnics \in Nat
      /\ PwTypes /\ PwVersions /\ PwHolds(c, job[c]) /\ ~PwAdding(job[c])
      /\ job[c].spec = Power!NoSpec
  BY PwBefore, PwAsked DEF Power!AddVnic, Power!At, PwActive, Power!Over, PwAdding, PwIsJob
<1>2. UNCHANGED raced /\ UNCHANGED Power!specs
  BY DEF Power!AddVnic
<1>3. CASE Power!Goto(c, "failed") /\ UNCHANGED vnics
  BY <1>1, <1>2, <1>3, PwMoves DEF Power!Over
<1>4. CASE /\ vnics' = vnics + 1
           /\ Power!Update(c, [job[c] EXCEPT !.pc = "last", !.mark = vnics + 1])
  <2>1. PICK j : j = [job[c] EXCEPT !.pc = "last", !.mark = vnics + 1]
    OBVIOUS
  <2>2. /\ PwIsJob(j) /\ j.pc = "last" /\ j.ask = job[c].ask /\ j.spec = Power!NoSpec
        /\ j.mark = vnics'
    <3>1. PwLocals(j, "last", job[c].ask, job[c].source, Power!NoSpec, vnics + 1)
      BY <1>1, <2>1, PwMarks
    <3>2. PwFits(job[c].ask, "last", job[c].source, Power!NoSpec)
      BY <1>1, PwStepsOf DEF PwFits
    <3> QED BY <1>1, <1>4, <3>1, <3>2, PwNoSpecIsSpec, PwJobAfter
  <2>3. /\ job' = [d \in Cmds |-> job'[d]]
        /\ job'[c] = j /\ \A d \in Cmds \ {c} : job'[d] = job[d]
        /\ \A d \in Cmds : PwIsJob(job'[d])
    BY <1>1, <1>4, <2>1, <2>2, PwMoved
  <2>4. PwTypes' /\ PwVersions'
    <3>1. (\A d \in Cmds : PwIsJob(job[d]))'
      BY <2>3 DEF PwIsJob
    <3>2. PwTypes'
      BY <1>1, <1>2, <1>4, <2>3, <3>1 DEF PwTypes, Power!specs
    <3> QED BY <1>1, <1>2, <3>2 DEF PwVersions, Power!specs
  <2>5. ASSUME NEW d \in Cmds PROVE PwHolds(d, job[d])'
    <3>1. CASE d = c
      BY <1>1, <1>2, <2>2, <2>3, <3>1, PwNoSpecIsSpec DEF PwHolds, Power!specs
    <3>2. CASE d # c
      <4>1. PwHolds(d, job[d])
        BY DEF PwIInv
      <4> QED BY <1>2, <2>3, <3>2, <4>1 DEF PwHolds, Power!specs
    <3> QED BY <3>1, <3>2
  <2>6. ASSUME ~raced PROVE PwAdapters'
    <3>1. PwAlone(c)
      BY <2>6, PwBefore
    <3>2. \A d \in Cmds \ {c} : PwActive(job[d]) => job[d].ask.do \notin {"vnic", "customize"}
      BY <1>1, <3>1 DEF PwAlone
    <3>3. \A d \in Cmds \ {c} : ~PwAdding(job[d])
      BY <3>2 DEF PwAdding, PwActive, Power!Over
    <3>4. PwCovers(spec)
      BY <1>1, <2>6, <3>3, PwBefore
    <3>5. \A d \in Cmds : PwAlone(d)'
      BY <1>1, <2>2, <2>3, <3>2 DEF PwAlone, PwActive
    <3>6. ASSUME NEW d \in Cmds \ {c} PROVE PwPrepares(job[d])'
      <4>1. job'[d].pc \in {"params", "overwrite", "create", "last", "nicspec"}
                => job'[d].ask.do \notin {"vnic", "customize"}
        BY <2>3, <3>2 DEF PwActive, Power!Over
      <4> QED BY <4>1 DEF PwPrepares
    <3>7. PwPrepares(job[c])'
      <4>1. spec.params = {} \/ spec.nics = 0 \/ spec.nics + 1 >= vnics + 1
        BY <1>1, <3>4 DEF PwCovers, PwSpecs
      <4> QED BY <1>1, <1>2, <1>4, <2>2, <2>3, <4>1 DEF PwPrepares, Power!specs
    <3>8. PwAdding(job'[c])
      BY <1>1, <2>2, <2>3 DEF PwAdding
    <3>9. ~(\A d \in Cmds : ~PwAdding(job[d]))'
      BY <3>8 DEF PwAdding
    <3> QED BY <3>5, <3>6, <3>7, <3>9 DEF PwAdapters
  <2> QED BY <1>2, <2>4, <2>5, <2>6 DEF PwIInv
<1> QED BY <1>3, <1>4 DEF Power!AddVnic

(* A command begins: from now on vNICs and specs have raced, or it is alone.*)
LEMMA PwBeginKeeps ==
    ASSUME Power!AsksAssumption, PwIInv, NEW c \in Cmds, Power!Begin(c) PROVE PwIInv'
<1>1. PICK r \in PowerAsks[c] :
        /\ Power!At(c, "new")
        /\ Power!Update(c, [job[c] EXCEPT
                !.ask = r,
                !.source = IF r.do = "customize" THEN r.source ELSE "none",
                !.pc = CASE r.do = "on" -> "find"
                         [] r.do \in {"soft", "hard"} -> "state"
                         [] r.do = "vnic" -> "nic"
                         [] r.do = "customize" -> IF r.override THEN "clear" ELSE "look"])
        /\ raced' = (raced \/ \E d \in Cmds :
                        \/ r.do = "vnic" /\ Power!Running(d, {"vnic", "customize"})
                        \/ r.do = "customize" /\ Power!Running(d, {"vnic"}))
        /\ UNCHANGED <<Power!vm, Power!specs>>
  BY DEF Power!Begin
<1>2. /\ PwIsJob(job[c]) /\ job[c].pc = "new" /\ PwTypes /\ PwVersions /\ PwHolds(c, job[c])
      /\ job[c].spec = Power!NoSpec /\ job[c].mark \in Nat /\ job[c].ask.do = "on"
      /\ spec \in PwSpecs /\ made \in Nat
  BY <1>1, PwBefore, PwAsked DEF Power!At, PwIsJob
<1>3. r \in Power!Requests /\ r.do \in {"on", "soft", "hard", "vnic", "customize"}
  BY PwRequestKinds DEF Power!AsksAssumption
<1>4. UNCHANGED vnics /\ UNCHANGED Power!specs /\ raced' \in BOOLEAN
  <2>1. raced \in BOOLEAN
    BY <1>2 DEF PwTypes
  <2> QED BY <1>1, <2>1 DEF Power!vm
<1>5. PICK q : q = IF r.do = "customize" THEN r.source ELSE "none"
  OBVIOUS
<1>6. PICK p : p = CASE r.do = "on" -> "find"
                     [] r.do \in {"soft", "hard"} -> "state"
                     [] r.do = "vnic" -> "nic"
                     [] r.do = "customize" -> IF r.override THEN "clear" ELSE "look"
  OBVIOUS
<1>7. /\ p \in PwSteps(r.do) /\ p \in {"find", "state", "nic", "clear", "look"}
      /\ r.do = "customize" => p \in {"clear", "look"}
      /\ p = "nic" => r.do = "vnic"
  BY <1>3, <1>6, PwStepsOf
<1>8. PICK j : j = [job[c] EXCEPT !.ask = r, !.source = q, !.pc = p]
  OBVIOUS
<1>9. Power!Update(c, j)
  BY <1>1, <1>5, <1>6, <1>8
<1>10. PwIsJob(j) /\ j.pc = p /\ j.ask = r /\ j.spec = Power!NoSpec
  <2>1. PwLocals(j, p, r, q, Power!NoSpec, job[c].mark)
    BY <1>2, <1>8, PwBegins
  <2>2. PwFits(r, p, q, Power!NoSpec)
    BY <1>7 DEF PwFits
  <2> QED BY <1>2, <1>3, <2>1, <2>2, PwNoSpecIsSpec, PwJobAfter
<1>11. /\ job' = [d \in Cmds |-> job'[d]]
       /\ job'[c] = j /\ \A d \in Cmds \ {c} : job'[d] = job[d]
       /\ \A d \in Cmds : PwIsJob(job'[d])
  BY <1>2, <1>9, <1>10, PwMoved
<1>12. PwTypes' /\ PwVersions'
  <2>1. (\A d \in Cmds : PwIsJob(job[d]))'
    BY <1>11 DEF PwIsJob
  <2>2. PwTypes'
    BY <1>2, <1>4, <1>11, <2>1 DEF PwTypes, Power!specs
  <2> QED BY <1>2, <1>4, <2>2 DEF PwVersions, Power!specs
<1>13. ASSUME NEW d \in Cmds PROVE PwHolds(d, job[d])'
  <2>1. CASE d = c
    BY <1>2, <1>4, <1>7, <1>10, <1>11, <2>1, PwNoSpecIsSpec DEF PwHolds, Power!specs
  <2>2. CASE d # c
    <3>1. PwHolds(d, job[d])
      BY DEF PwIInv
    <3> QED BY <1>4, <1>11, <2>2, <3>1 DEF PwHolds, Power!specs
  <2> QED BY <2>1, <2>2
<1>14. ASSUME ~raced' PROVE PwAdapters'
  <2>1. /\ ~raced
        /\ \A d \in Cmds : /\ ~(r.do = "vnic" /\ Power!Running(d, {"vnic", "customize"}))
                           /\ ~(r.do = "customize" /\ Power!Running(d, {"vnic"}))
    BY <1>1, <1>14
  <2>2. PwAdapters
    BY <2>1 DEF PwIInv
  <2>3. /\ r.do = "vnic" =>
              \A d \in Cmds : PwActive(job[d]) => job[d].ask.do \notin {"vnic", "customize"}
        /\ r.do = "customize" => \A d \in Cmds : PwActive(job[d]) => job[d].ask.do # "vnic"
    BY <2>1 DEF Power!Running, PwActive
  <2>4. ASSUME NEW d \in Cmds PROVE PwAlone(d)'
    <3>1. CASE d = c
      BY <1>10, <1>11, <2>3, <3>1 DEF PwAlone, PwActive
    <3>2. CASE d # c
      <4>1. PwAlone(d)
        BY <2>2 DEF PwAdapters
      <4> QED BY <1>10, <1>11, <2>3, <3>2, <4>1 DEF PwAlone, PwActive
    <3> QED BY <3>1, <3>2
  <2>5. ASSUME NEW d \in Cmds PROVE PwPrepares(job[d])'
    <3>1. CASE d = c
      BY <1>7, <1>10, <1>11, <3>1 DEF PwPrepares
    <3>2. CASE d # c
      <4>1. PwPrepares(job[d])
        BY <2>2 DEF PwAdapters
      <4> QED BY <1>4, <1>11, <3>2, <4>1 DEF PwPrepares, PwCovers, Power!specs
    <3> QED BY <3>1, <3>2
  <2>6. (\A d \in Cmds : ~PwAdding(job[d]))' => PwCovers(spec)'
    <3>1. ASSUME \A d \in Cmds : ~PwAdding(job'[d]) PROVE PwCovers(spec)'
      <4>1. ~PwAdding(job[c])
        BY <1>2 DEF PwAdding
      <4>2. \A d \in Cmds : ~PwAdding(job[d])
        BY <1>11, <3>1, <4>1
      <4> QED BY <1>4, <2>2, <4>2 DEF PwAdapters, PwCovers, Power!specs
    <3> QED BY <3>1 DEF PwAdding
  <2> QED BY <2>4, <2>5, <2>6 DEF PwAdapters
<1> QED BY <1>12, <1>13, <1>14 DEF PwIInv

(* vCenter, the guest and a user of vCenter leave commands and specs alone. *)
LEMMA PwGuestKeeps ==
    ASSUME PwIInv,
           Power!GuestStarts \/ Power!GuestEnds \/ Power!GuestHalts \/ Power!Suspend
    PROVE  PwIInv'
<1>1. UNCHANGED <<vnics, job, raced>> /\ UNCHANGED Power!specs
  BY DEF Power!GuestStarts, Power!GuestEnds, Power!GuestHalts, Power!Suspend
<1>2. PwTypes' /\ PwVersions'
  BY <1>1 DEF PwIInv, PwTypes, PwVersions, Power!specs, PwIsJob
<1>3. ASSUME NEW c \in Cmds PROVE PwHolds(c, job[c])'
  BY <1>1 DEF PwIInv, PwHolds, Power!specs
<1>4. ASSUME ~raced' PROVE PwAdapters'
  BY <1>1, <1>4 DEF PwIInv, PwAdapters, PwAlone, PwPrepares, PwCovers, PwAdding, PwActive,
     Power!specs
<1> QED BY <1>2, <1>3, <1>4 DEF PwIInv

-----------------------------------------------------------------------------
LEMMA PwWorkingKeeps ==
    ASSUME PwIInv, events \in Seq({"started", "ended"}), NEW c \in Cmds, Power!Working(c)
    PROVE  PwIInv'
BY PwFindSpecKeeps, PwApplySpecKeeps, PwLookAtPowerKeeps, PwPowerOnKeeps, PwAwaitStartKeeps,
   PwAwaitEndKeeps, PwDropSpecKeeps, PwPowerOffKeeps, PwClearSpecKeeps, PwLookForSpecKeeps,
   PwPrepareKeeps, PwReadSpecKeeps, PwSetParamsKeeps, PwCreateSpecKeeps, PwOverwriteSpecKeeps,
   PwAddVnicKeeps, PwTakeLastVnicKeeps, PwExtendSpecKeeps DEF Power!Working

LEMMA PwStutterKeeps == ASSUME PwIInv, UNCHANGED Power!vars PROVE PwIInv'
BY DEF PwIInv, PwTypes, PwVersions, PwHolds, PwAdapters, PwAlone,
   PwPrepares, PwCovers, PwAdding,
       PwActive, PwIsJob, Power!vars

-----------------------------------------------------------------------------
(* The power-ons: a spec that is applied waits in the guest until the       *)
(* customization with it begins, and an event that began after the power-on *)
(* while it waited is that of its own customization.                       *)
PwVm ==
    /\ guest \in [phase : {"idle", "pending", "running"}, of : SUBSET Cmds, begun : SUBSET Cmds]
    /\ events \in Seq({"started", "ended"})

PwWaits(c) == guest.phase = "pending" /\ guest.of = {c}

PwBooted(c, j) ==
    j.ask.do = "on" /\ j.spec # Power!NoSpec =>
        /\ j.pc \in {"state", "task"} => c \in guest.begun \/ PwWaits(c)
        /\ j.own /\ j.pc = "awaitstart"
               => c \in guest.begun \/ (PwWaits(c) /\ ~Power!Since(j.mark, "started"))
        /\ j.own /\ j.pc \in {"awaitend", "drop", "done"} => c \in guest.begun

PwBoots == PwVm /\ \A c \in Cmds : PwBooted(c, job[c])

(* What a step may do to the guest. *)
PwLater ==
    /\ PwVm'
    /\ guest.begun \subseteq guest'.begun
    /\ guest.phase = "pending"
           => (guest' = guest /\ events' = events) \/ guest.of \subseteq guest'.begun

LEMMA PwPowerLost ==
    ASSUME PwVm, Power!PowerLost, UNCHANGED events
    PROVE  PwLater
<1>1. CASE guest.phase = "running"
  <2>1. guest' = [guest EXCEPT !.phase = "idle"]
    BY <1>1 DEF Power!PowerLost
  <2> QED BY <1>1, <2>1 DEF PwVm, PwLater
<1>2. CASE guest.phase # "running"
  <2>1. guest' = guest
    BY <1>2 DEF Power!PowerLost
  <2> QED BY <2>1 DEF PwVm, PwLater
<1> QED BY <1>1, <1>2

LEMMA PwAppends ==
    ASSUME PwVm, NEW e \in {"started", "ended"}, events' = Append(events, e)
    PROVE  events' \in Seq({"started", "ended"})
BY DEF PwVm

LEMMA PwGuestLater ==
    ASSUME PwVm, [Power!Next]_(Power!vars)
    PROVE  PwLater
<1>1. CASE UNCHANGED <<guest, events>>
  BY <1>1 DEF PwVm, PwLater
<1>2. ASSUME NEW c \in Cmds, Power!ApplySpec(c) PROVE PwLater
  <2>1. CASE UNCHANGED guest
    BY <1>1, <1>2, <2>1 DEF Power!ApplySpec
  <2>2. CASE guest.phase = "idle" /\ guest' = [guest EXCEPT !.phase = "pending", !.of = {c}]
    <3>1. UNCHANGED events
      BY <1>2 DEF Power!ApplySpec
    <3> QED BY <2>2, <3>1 DEF PwVm, PwLater
  <2> QED BY <1>2, <2>1, <2>2 DEF Power!ApplySpec
<1>3. ASSUME NEW c \in Cmds, Power!PowerOff(c) PROVE PwLater
  <2>1. UNCHANGED events /\ (UNCHANGED guest \/ Power!PowerLost)
    BY <1>3 DEF Power!PowerOff
  <2> QED BY <1>1, <2>1, PwPowerLost
<1>4. CASE Power!GuestStarts
  <2>1. /\ guest' = [guest EXCEPT !.phase = "running", !.begun = @ \cup guest.of]
        /\ events' = Append(events, "started")
    BY <1>4 DEF Power!GuestStarts
  <2>2. events' \in Seq({"started", "ended"})
    BY <2>1, PwAppends
  <2> QED BY <2>1, <2>2 DEF PwVm, PwLater
<1>5. CASE Power!GuestEnds
  <2>1. /\ guest.phase = "running" /\ guest' = [guest EXCEPT !.phase = "idle"]
        /\ events' = Append(events, "ended")
    BY <1>5 DEF Power!GuestEnds
  <2>2. events' \in Seq({"started", "ended"})
    BY <2>1, PwAppends
  <2> QED BY <2>1, <2>2 DEF PwVm, PwLater
<1>6. CASE Power!GuestHalts
  BY <1>6, PwPowerLost DEF Power!GuestHalts
<1>7. ASSUME NEW c \in Cmds,
             \/ Power!Begin(c) \/ Power!FindSpec(c) \/ Power!LookAtPower(c)
             \/ Power!PowerOn(c) \/ Power!AwaitStart(c) \/ Power!AwaitEnd(c)
             \/ Power!DropSpec(c) \/ Power!ClearSpec(c) \/ Power!LookForSpec(c)
             \/ Power!Prepare(c) \/ Power!ReadSpec(c) \/ Power!SetParams(c)
             \/ Power!CreateSpec(c) \/ Power!OverwriteSpec(c) \/ Power!AddVnic(c)
             \/ Power!TakeLastVnic(c) \/ Power!ExtendSpec(c)
      PROVE  PwLater
  <2>1. UNCHANGED <<guest, events>>
    BY <1>7 DEF Power!Begin, Power!FindSpec, Power!LookAtPower, Power!PowerOn,
       Power!AwaitStart, Power!AwaitEnd, Power!DropSpec, Power!ClearSpec, Power!LookForSpec,
       Power!Prepare, Power!ReadSpec, Power!SetParams, Power!CreateSpec, Power!OverwriteSpec,
       Power!AddVnic, Power!TakeLastVnic, Power!ExtendSpec, Power!vm
  <2> QED BY <1>1, <2>1
<1>8. CASE Power!Suspend \/ UNCHANGED Power!vars
  BY <1>1, <1>8 DEF Power!Suspend, Power!vars
<1> QED BY <1>2, <1>3, <1>4, <1>5, <1>6, <1>7, <1>8 DEF Power!Next, Power!Working

(* Nobody loses what the guest has begun, or has to begin, for it.         *)
LEMMA PwBootedKept ==
    ASSUME PwLater, NEW c \in Cmds, NEW j, PwBooted(c, j)
    PROVE  PwBooted(c, j)'
<1>1. c \in guest.begun => c \in guest'.begun
  BY DEF PwLater
<1>2. PwWaits(c) => c \in guest'.begun \/ (PwWaits(c)' /\ events' = events)
  BY DEF PwLater, PwWaits
<1>3. events' = events => (Power!Since(j.mark, "started")' <=> Power!Since(j.mark, "started"))
  BY DEF Power!Since
<1> QED BY <1>1, <1>2, <1>3 DEF PwBooted

LEMMA PwBootsMove ==
    ASSUME PwTypes, PwBoots, PwLater, NEW c \in Cmds, NEW j, Power!Update(c, j),
           PwBooted(c, j)'
    PROVE  PwBoots'
<1>1. job'[c] = j /\ \A d \in Cmds \ {c} : job'[d] = job[d]
  BY DEF Power!Update, PwTypes
<1>2. ASSUME NEW d \in Cmds PROVE PwBooted(d, job[d])'
  <2>1. PICK k : k = job'[d]
    OBVIOUS
  <2>2. PwBooted(d, k)'
    <3>1. CASE d = c
      BY <1>1, <2>1, <3>1
    <3>2. CASE d # c
      <4>1. k = job[d] /\ PwBooted(d, job[d])
        BY <1>1, <2>1, <3>2 DEF PwBoots
      <4>2. PwBooted(d, k)
        BY <4>1
      <4> QED BY <4>2, PwBootedKept
    <3> QED BY <3>1, <3>2
  <2> QED BY <2>1, <2>2 DEF PwBooted, PwWaits, Power!Since
<1>3. PwVm'
  BY DEF PwLater
<1> QED BY <1>2, <1>3 DEF PwBoots

(* A step to a place where nothing is asked of the guest.                  *)
LEMMA PwBootsLeave ==
    ASSUME PwTypes, PwBoots, PwLater, NEW c \in Cmds, NEW j, Power!Update(c, j),
           \/ j.ask.do # "on"
           \/ j.spec = Power!NoSpec
           \/ j.pc \in {"apply", "failed"}
    PROVE  PwBoots'
<1>1. PwBooted(c, j)'
  BY DEF PwBooted
<1> QED BY <1>1, PwBootsMove

(* The locals that a step leaves alone.                                    *)
LEMMA PwKept ==
    ASSUME NEW j, PwIsJob(j), NEW p, NEW k, k = [j EXCEPT !.pc = p]
    PROVE  k.pc = p /\ k.ask = j.ask /\ k.spec = j.spec /\ k.mark = j.mark /\ k.own = j.own
BY DEF PwIsJob

LEMMA PwGoesOn ==
    ASSUME PwTypes, PwBoots, PwLater, NEW c \in Cmds, NEW p, Power!Goto(c, p),
           \/ job[c].ask.do # "on"
           \/ p \in {"apply", "failed"}
           \/ job[c].pc \in {"awaitend", "drop"} /\ p \in {"drop", "done"}
           \/ job[c].pc = "state" /\ p = "task"
           \/ job[c].spec = Power!NoSpec
    PROVE  PwBoots'
<1>1. PICK k : k = [job[c] EXCEPT !.pc = p]
  OBVIOUS
<1>2. /\ Power!Update(c, k) /\ k.pc = p /\ k.ask = job[c].ask /\ k.spec = job[c].spec
      /\ k.mark = job[c].mark /\ k.own = job[c].own
  BY <1>1, PwKept DEF Power!Goto, PwTypes
<1>3. ASSUME \/ job[c].pc \in {"awaitend", "drop"} /\ p \in {"drop", "done"}
             \/ job[c].pc = "state" /\ p = "task"
      PROVE  PwBooted(c, k)'
  <2>1. PwBooted(c, job[c])
    BY DEF PwBoots
  <2>2. PwBooted(c, k)
    BY <1>2, <1>3, <2>1 DEF PwBooted
  <2> QED BY <2>2, PwBootedKept
<1> QED BY <1>2, <1>3, PwBootsLeave, PwBootsMove

LEMMA PwBootsApply ==
    ASSUME PwTypes, PwBoots, PwLater, NEW c \in Cmds, Power!ApplySpec(c)
    PROVE  PwBoots'
<1>1. CASE Power!Goto(c, "failed")
  BY <1>1, PwGoesOn
<1>2. CASE guest' = [guest EXCEPT !.phase = "pending", !.of = {c}] /\ Power!Goto(c, "state")
  <2>1. PICK k : k = [job[c] EXCEPT !.pc = "state"]
    OBVIOUS
  <2>2. Power!Update(c, k) /\ k.pc = "state"
    BY <1>2, <2>1, PwKept DEF Power!Goto, PwTypes
  <2>3. PwWaits(c)'
    BY <1>2 DEF PwBoots, PwVm, PwWaits
  <2>4. PwBooted(c, k)'
    BY <2>2, <2>3 DEF PwBooted
  <2> QED BY <2>2, <2>4, PwBootsMove
<1> QED BY <1>1, <1>2 DEF Power!ApplySpec

LEMMA PwBootsPowered ==
    ASSUME PwTypes, PwBoots, PwLater, NEW c \in Cmds, job[c].pc \in {"state", "task"},
           NEW m \in Nat, NEW o \in BOOLEAN, Power!PoweredOn(c, m, o),
           o => m = Len(events), UNCHANGED <<guest, events>>
    PROVE  PwBoots'
<1>1. CASE job[c].spec = Power!NoSpec
  BY <1>1, PwGoesOn DEF Power!PoweredOn
<1>2. CASE job[c].spec # Power!NoSpec
  <2>1. PICK k : k = [job[c] EXCEPT !.mark = m, !.own = o, !.pc = "awaitstart"]
    OBVIOUS
  <2>2. Power!Update(c, k)
    BY <1>2, <2>1 DEF Power!PoweredOn
  <2>3. /\ k.pc = "awaitstart" /\ k.ask = job[c].ask /\ k.spec = job[c].spec
        /\ k.mark = m /\ k.own = o
    <3>1. PwIsJob(job[c])
      BY DEF PwTypes
    <3> QED BY <2>1, <3>1 DEF PwIsJob
  <2>4. o => ~Power!Since(m, "started")'
    <3>1. Len(events) \in Nat
      BY DEF PwBoots, PwVm
    <3> QED BY <3>1 DEF Power!Since
  <2>5. k.ask.do = "on" => c \in guest'.begun \/ PwWaits(c)'
    <3>1. PwBooted(c, job[c])
      BY DEF PwBoots
    <3> QED BY <1>2, <2>3, <3>1 DEF PwBooted, PwWaits
  <2>6. PwBooted(c, k)'
    BY <2>3, <2>4, <2>5 DEF PwBooted, Power!Since
  <2> QED BY <2>2, <2>6, PwBootsMove
<1> QED BY <1>1, <1>2

LEMMA PwBootsAwait ==
    ASSUME PwTypes, PwBoots, PwLater, NEW c \in Cmds, Power!AwaitStart(c)
    PROVE  PwBoots'
<1>1. CASE Power!Goto(c, "failed")
  BY <1>1, PwGoesOn
<1>2. CASE Power!Since(job[c].mark, "started") /\ Power!Goto(c, "awaitend")
  <2>1. PICK k : k = [job[c] EXCEPT !.pc = "awaitend"]
    OBVIOUS
  <2>2. /\ Power!Update(c, k) /\ k.pc = "awaitend" /\ k.ask = job[c].ask
        /\ k.spec = job[c].spec /\ k.mark = job[c].mark /\ k.own = job[c].own
    BY <1>2, <2>1, PwKept DEF Power!Goto, PwTypes
  <2>3. PwBooted(c, k)
    <3>1. PwBooted(c, job[c]) /\ job[c].pc = "awaitstart"
      BY DEF PwBoots, Power!AwaitStart, Power!At
    <3> QED BY <1>2, <2>2, <3>1 DEF PwBooted
  <2> QED BY <2>2, <2>3, PwBootedKept, PwBootsMove
<1> QED BY <1>1, <1>2 DEF Power!AwaitStart

(* Going on changes nothing of what a command was asked.                   *)
LEMMA PwGotoKeepsAsk ==
    ASSUME NEW c \in Cmds, PwIsJob(job[c]), NEW p, Power!Goto(c, p)
    PROVE  \E k : Power!Update(c, k) /\ k.ask = job[c].ask
<1>1. PICK k : k = [job[c] EXCEPT !.pc = p]
  OBVIOUS
<1>2. Power!Update(c, k) /\ k.ask = job[c].ask
  BY <1>1 DEF Power!Goto, PwIsJob
<1> QED BY <1>2

(* The steps of the power-ons, and all others. *)
LEMMA PwBootsWork ==
    ASSUME PwTypes, PwBoots, PwLater, NEW c \in Cmds, Power!Working(c)
    PROVE  PwBoots'
<1>j. PwIsJob(job[c])
  BY DEF PwTypes
<1>1. CASE Power!FindSpec(c)
  <2>1. PICK k : k = [job[c] EXCEPT !.spec = spec,
                                    !.pc = IF spec = Power!NoSpec THEN "state" ELSE "apply"]
    OBVIOUS
  <2>2. Power!Update(c, k) /\ (k.spec = Power!NoSpec \/ k.pc = "apply")
    BY <1>j, <1>1, <2>1 DEF Power!FindSpec, PwIsJob
  <2> QED BY <2>2, PwBootsLeave
<1>2. CASE Power!ApplySpec(c)
  BY <1>2, PwBootsApply
<1>3. CASE Power!LookAtPower(c)
  <2>1. job[c].pc = "state" /\ UNCHANGED <<guest, events>>
    BY <1>3 DEF Power!LookAtPower, Power!At, Power!vm
  <2>2. ASSUME NEW m \in 0 .. Len(events) + MaxAhead, Power!PoweredOn(c, m, FALSE)
        PROVE  PwBoots'
    <3>1. m \in Nat
      OBVIOUS
    <3> QED BY <2>1, <2>2, <3>1, PwBootsPowered
  <2>3. CASE Power!Goto(c, "done") /\ job[c].ask.do # "on"
    BY <2>3, PwGoesOn
  <2>4. CASE Power!Goto(c, "task")
    BY <2>1, <2>4, PwGoesOn
  <2> QED BY <1>3, <2>2, <2>3, <2>4 DEF Power!LookAtPower
<1>4. CASE Power!PowerOn(c)
  <2>1. job[c].pc = "task" /\ UNCHANGED <<guest, events>>
    BY <1>4 DEF Power!PowerOn, Power!At
  <2>2. CASE Power!PoweredOn(c, Len(events), TRUE)
    <3>1. Len(events) \in Nat
      BY DEF PwBoots, PwVm
    <3> QED BY <2>1, <2>2, <3>1, PwBootsPowered
  <2>3. CASE Power!Goto(c, "failed")
    BY <2>3, PwGoesOn
  <2> QED BY <1>4, <2>2, <2>3 DEF Power!PowerOn
<1>5. CASE Power!AwaitStart(c)
  BY <1>5, PwBootsAwait
<1>6. CASE Power!AwaitEnd(c)
  BY <1>6, PwGoesOn DEF Power!AwaitEnd, Power!At
<1>7. CASE Power!DropSpec(c)
  BY <1>7, PwGoesOn DEF Power!DropSpec, Power!At
<1>8. ASSUME \/ Power!PowerOff(c) \/ Power!ClearSpec(c) \/ Power!LookForSpec(c)
             \/ Power!Prepare(c) \/ Power!ReadSpec(c) \/ Power!SetParams(c)
             \/ Power!CreateSpec(c) \/ Power!OverwriteSpec(c) \/ Power!AddVnic(c)
             \/ Power!TakeLastVnic(c) \/ Power!ExtendSpec(c)
      PROVE  PwBoots'
  <2>1. job[c].ask.do # "on"
    BY <1>j, <1>8, PwAsked DEF Power!At, Power!PowerOff, Power!ClearSpec, Power!LookForSpec,
       Power!Prepare, Power!ReadSpec, Power!SetParams, Power!CreateSpec, Power!OverwriteSpec,
       Power!AddVnic, Power!TakeLastVnic, Power!ExtendSpec
  <2>2. PICK k : Power!Update(c, k) /\ k.ask = job[c].ask
    <3>1. CASE \E p : Power!Goto(c, p)
      BY <1>j, <3>1, PwGotoKeepsAsk
    <3>2. CASE Power!PowerOff(c) \/ Power!ClearSpec(c) \/ Power!Prepare(c)
               \/ Power!CreateSpec(c) \/ Power!OverwriteSpec(c) \/ Power!TakeLastVnic(c)
      <4>1. \E p : Power!Goto(c, p)
        BY <3>2 DEF Power!PowerOff, Power!ClearSpec, Power!Prepare, Power!CreateSpec,
           Power!OverwriteSpec, Power!TakeLastVnic
      <4> QED BY <3>1, <4>1
    <3>3. CASE Power!LookForSpec(c)
      <4>1. CASE spec # Power!NoSpec /\ job[c].source # "none"
        BY <3>1, <3>3, <4>1 DEF Power!LookForSpec
      <4>2. CASE ~(spec # Power!NoSpec /\ job[c].source # "none")
        <5>1. PICK q : q = IF spec = Power!NoSpec THEN job[c].source ELSE "own"
          OBVIOUS
        <5>2. PICK k : k = [job[c] EXCEPT !.pc = "prepare", !.source = q]
          OBVIOUS
        <5>3. Power!Update(c, k)
          BY <3>3, <4>2, <5>1, <5>2 DEF Power!LookForSpec
        <5>4. k.ask = job[c].ask
          BY <1>j, <5>2 DEF PwIsJob
        <5> QED BY <5>3, <5>4
      <4> QED BY <4>1, <4>2
    <3>4. CASE Power!ReadSpec(c)
      <4>1. PICK p : p = IF spec = Power!NoSpec THEN "failed" ELSE "params"
        OBVIOUS
      <4>2. PICK k : k = [job[c] EXCEPT !.spec = spec, !.pc = p]
        OBVIOUS
      <4>3. Power!Update(c, k)
        BY <3>4, <4>1, <4>2 DEF Power!ReadSpec
      <4>4. k.ask = job[c].ask
        BY <1>j, <4>2 DEF PwIsJob
      <4> QED BY <4>3, <4>4
    <3>5. CASE Power!SetParams(c)
      <4>1. CASE ~job[c].ask.params \/ job[c].source = "otherOS"
        <5>1. \E p : Power!Goto(c, p)
          BY <3>5, <4>1 DEF Power!SetParams
        <5> QED BY <3>1, <5>1
      <4>2. CASE ~(~job[c].ask.params \/ job[c].source = "otherOS")
        <5>1. PICK s : s = [job[c].spec EXCEPT !.params = @ \cup {c},
                                               !.nics = Power!Max({@, vnics})]
          OBVIOUS
        <5>2. PICK p : p = IF job[c].source = "none" THEN "create" ELSE "overwrite"
          OBVIOUS
        <5>3. PICK k : k = [job[c] EXCEPT !.spec = s, !.pc = p]
          OBVIOUS
        <5>4. Power!Update(c, k)
          BY <3>5, <4>2, <5>1, <5>2, <5>3 DEF Power!SetParams
        <5>5. k.ask = job[c].ask
          BY <1>j, <5>3 DEF PwIsJob
        <5> QED BY <5>4, <5>5
      <4> QED BY <4>1, <4>2
    <3>6. CASE Power!AddVnic(c)
      <4>1. CASE Power!Goto(c, "failed")
        BY <3>1, <4>1
      <4>2. CASE ~Power!Goto(c, "failed")
        <5>1. PICK k : k = [job[c] EXCEPT !.pc = "last", !.mark = vnics + 1]
          OBVIOUS
        <5>2. Power!Update(c, k)
          BY <3>6, <4>2, <5>1 DEF Power!AddVnic
        <5>3. k.ask = job[c].ask
          BY <1>j, <5>1 DEF PwIsJob
        <5> QED BY <5>2, <5>3
      <4> QED BY <4>1, <4>2
    <3>7. CASE Power!ExtendSpec(c)
      <4>1. CASE spec.nics = 0
        BY <3>1, <3>7, <4>1 DEF Power!ExtendSpec
      <4>2. CASE spec.nics # 0
        <5>1. PICK s : s = [spec EXCEPT !.nics = @ + 1]
          OBVIOUS
        <5>2. PICK k : k = [job[c] EXCEPT !.pc = "overwrite", !.spec = s]
          OBVIOUS
        <5>3. Power!Update(c, k)
          BY <3>7, <4>2, <5>1, <5>2 DEF Power!ExtendSpec
        <5>4. k.ask = job[c].ask
          BY <1>j, <5>2 DEF PwIsJob
        <5> QED BY <5>3, <5>4
      <4> QED BY <4>1, <4>2
    <3> QED BY <1>8, <3>2, <3>3, <3>4, <3>5, <3>6, <3>7
  <2> QED BY <2>1, <2>2, PwBootsLeave
<1> QED BY <1>1, <1>2, <1>3, <1>4, <1>5, <1>6, <1>7, <1>8 DEF Power!Working

LEMMA PwBootsStep ==
    ASSUME PwTypes, PwBoots, [Power!Next]_(Power!vars)
    PROVE  PwBoots'
<1>1. PwLater
  BY PwGuestLater DEF PwBoots
<1>2. ASSUME NEW c \in Cmds, Power!Begin(c) PROVE PwBoots'
  <2>1. PICK q, p, r :
            Power!Update(c, [job[c] EXCEPT !.ask = r, !.source = q, !.pc = p])
    BY <1>2 DEF Power!Begin
  <2>2. PICK k : k = [job[c] EXCEPT !.ask = r, !.source = q, !.pc = p]
    OBVIOUS
  <2>3. k.spec = Power!NoSpec
    <3>1. PwIsJob(job[c]) /\ job[c].pc = "new"
      BY <1>2 DEF PwTypes, Power!Begin, Power!At
    <3> QED BY <2>2, <3>1 DEF PwIsJob
  <2> QED BY <1>1, <2>1, <2>2, <2>3, PwBootsLeave
<1>3. ASSUME NEW c \in Cmds, Power!Working(c) PROVE PwBoots'
  BY <1>1, <1>3, PwBootsWork
<1>4. CASE UNCHANGED job
  <2>1. ASSUME NEW c \in Cmds PROVE PwBooted(c, job[c])'
    <3>1. PICK k : k = job[c]
      OBVIOUS
    <3>2. PwBooted(c, k)
      BY <3>1 DEF PwBoots
    <3>3. PwBooted(c, k)'
      BY <1>1, <3>2, PwBootedKept
    <3> QED BY <1>4, <3>1, <3>3 DEF PwBooted, PwWaits, Power!Since
  <2> QED BY <1>1, <2>1 DEF PwBoots, PwLater
<1> QED BY <1>2, <1>3, <1>4 DEF Power!Next, Power!GuestStarts, Power!GuestEnds,
       Power!GuestHalts, Power!Suspend, Power!vars

-----------------------------------------------------------------------------
PwInv == PwIInv /\ PwBoots

LEMMA PwStepKeepsInv ==
    ASSUME Power!AsksAssumption, PwInv, [Power!Next]_(Power!vars)
    PROVE  PwInv'
<1>1. events \in Seq({"started", "ended"}) /\ PwTypes
  BY DEF PwInv, PwIInv, PwBoots, PwVm
<1>2. PwIInv'
  BY <1>1, PwBeginKeeps, PwWorkingKeeps, PwGuestKeeps, PwStutterKeeps DEF PwInv, Power!Next
<1>3. PwBoots'
  BY <1>1, PwBootsStep DEF PwInv
<1> QED BY <1>2, <1>3 DEF PwInv

LEMMA PwInitInv == ASSUME Power!Init PROVE PwInv
<1>1. [do |-> "on"] \in Power!Requests
  BY DEF Power!Requests
<1>2. ASSUME NEW c \in Cmds
      PROVE  job[c] = [pc |-> "new", ask |-> [do |-> "on"], source |-> "none",
                       spec |-> Power!NoSpec, mark |-> 0, own |-> FALSE]
  <2>1. job = [d \in Cmds |-> [pc |-> "new", ask |-> [do |-> "on"], source |-> "none",
                               spec |-> Power!NoSpec, mark |-> 0, own |-> FALSE]]
    BY DEF Power!Init
  <2> QED BY <2>1
<1>3. ASSUME NEW c \in Cmds
      PROVE  /\ PwIsJob(job[c]) /\ job[c].pc = "new" /\ job[c].spec = Power!NoSpec
             /\ job[c].ask.do = "on"
  <2>1. PICK j : j = job[c]
    OBVIOUS
  <2>2. /\ j.pc = "new" /\ j.ask = [do |-> "on"] /\ j.source = "none"
        /\ j.spec = Power!NoSpec
    BY <1>2, <2>1
  <2>3. j \in [pc : {j.pc}, ask : Power!Requests, source : {j.source}, spec : PwSpecs,
               mark : Nat, own : BOOLEAN]
    <3>1. PICK a \in Power!Requests, n \in PwSpecs : a = [do |-> "on"] /\ n = Power!NoSpec
      BY <1>1, PwNoSpecIsSpec
    <3>2. j = [pc |-> "new", ask |-> a, source |-> "none", spec |-> n, mark |-> 0,
               own |-> FALSE]
      BY <1>2, <2>1, <3>1
    <3> QED BY <3>2
  <2>4. PwIsJob(j)
    BY <2>2, <2>3 DEF PwIsJob, Power!Over
  <2> QED BY <2>1, <2>2, <2>4
<1>4. spec \in PwSpecs /\ vnics \in Nat /\ spec.params = {} /\ spec.version <= 1
      /\ (spec # Power!NoSpec => spec.version > 0) /\ made = 1 /\ kept = {} /\ raced = FALSE
  BY PwNoSpecIsSpec DEF Power!Init, PwSpecs
<1>5. job = [c \in Cmds |-> job[c]]
  BY DEF Power!Init
<1>6. PwTypes /\ PwVersions
  BY <1>3, <1>4, <1>5 DEF PwTypes, PwVersions
<1>7. ASSUME NEW c \in Cmds PROVE PwHolds(c, job[c])
  BY <1>3, <1>4, PwNoSpecIsSpec DEF PwHolds
<1>8. PwAdapters
  BY <1>3, <1>4 DEF PwAdapters, PwAlone, PwActive, PwPrepares, PwCovers
<1>9. PwBoots
  <2>1. guest = [phase |-> "idle", of |-> {}, begun |-> {}] /\ events = <<"started", "ended">>
    BY DEF Power!Init
  <2>2. PwVm
    <3>1. guest \in [phase : {"idle", "pending", "running"}, of : SUBSET Cmds,
                     begun : SUBSET Cmds]
      BY <2>1
    <3>2. events \in Seq({"started", "ended"})
      BY <2>1
    <3> QED BY <3>1, <3>2 DEF PwVm
  <2>3. ASSUME NEW c \in Cmds PROVE PwBooted(c, job[c])
    BY <1>3 DEF PwBooted
  <2> QED BY <2>2, <2>3 DEF PwBoots
<1> QED BY <1>6, <1>7, <1>8, <1>9 DEF PwIInv, PwInv

LEMMA PwInvImplies == ASSUME PwInv PROVE Power!SpecComplete /\ Power!PoweredOnIsCustomized
<1>1. Power!ParamsKept
  BY DEF PwInv, PwIInv, PwVersions, Power!ParamsKept
<1>2. Power!NicsCovered
  <2>1. ASSUME ~raced, \A c \in Cmds : job[c].pc \in {"new"} \cup Power!Over PROVE PwCovers(spec)
    <3>1. \A c \in Cmds : ~PwAdding(job[c])
      BY <2>1 DEF PwAdding, Power!Over
    <3> QED BY <2>1, <3>1 DEF PwInv, PwIInv, PwAdapters
  <2> QED BY <2>1 DEF Power!NicsCovered, PwCovers
<1>3. Power!PoweredOnIsCustomized
  BY DEF PwInv, PwBoots, PwBooted, Power!PoweredOnIsCustomized, Power!At
<1> QED BY <1>1, <1>2, <1>3 DEF Power!SpecComplete

-----------------------------------------------------------------------------
(* Affinity rules: what a command that had the cluster for itself has done *)
(* stays done, though later commands read, edit and write back at once.    *)

RuAllVms == UNION {UNION {r.vms : r \in RuleAsks[c]} : c \in Cmds}
RuRule == [name : Nat, vms : SUBSET RuAllVms, enabled : BOOLEAN]
RuJob == [pc : {"new", "name", "get", "add", "edit", "verify"} \cup Rules!Over,
        vms : SUBSET RuAllVms, given : Nat, name : Nat, key : Nat, enabled : BOOLEAN,
        with : SUBSET Cmds]

RuTypes == rules \in Seq(RuRule) /\ job \in [Cmds -> RuJob]

RuAlone(c) == job[c].with = {}

(* Of two commands at work each one knows.                                 *)
RuOverlap == \A c, d \in Rules!Running : c # d => ~RuAlone(c)

RuGivenNames == \A c \in Cmds : job[c].pc \in {"get", "edit"} => job[c].given # Generate
RuEditsNamed == \A c \in Cmds : Rules!At(c, "edit") => job[c].key \in Rules!Named(job[c].name)
RuAddsNew == \A c \in Cmds : Rules!At(c, "add") /\ RuAlone(c) => Rules!Named(job[c].name) = {}

(* Rule k holds the VMs of c and will after every edit that is under way;  *)
(* nobody is about to add a second rule of a generated name.               *)
RuKeptIn(c, k) ==
    /\ job[c].vms \subseteq rules[k].vms
    /\ \A d \in Cmds : Rules!At(d, "edit") /\ job[d].key = k => job[c].vms \subseteq job[d].vms
    /\ job[c].given = Generate =>
          /\ Rules!Named(job[c].name) = {k}
          /\ \A d \in Cmds : Rules!At(d, "add") => job[d].name # job[c].name

RuKept ==
    \A c \in Cmds :
        job[c].pc \in {"verify", "done"} /\ RuAlone(c) =>
            \E k \in Rules!Named(job[c].name) : RuKeptIn(c, k)

RuIInv == RuTypes /\ RuOverlap /\ RuGivenNames /\ RuEditsNamed /\ RuAddsNew /\ RuKept

LEMMA RuInitInv == Rules!RulesAssumption /\ Rules!Init => RuIInv
BY DEF Rules!RulesAssumption, Rules!Init, RuIInv, RuTypes, RuJob, RuRule, RuOverlap,
   RuGivenNames, RuEditsNamed, RuAddsNew,
       RuKept, Rules!Running, Rules!At, Rules!Over

(* get_affinity_rule finds a rule of the name if there is one.             *)
LEMMA RuRuleOfNamed ==
    ASSUME RuTypes, NEW n, Rules!Named(n) # {}
    PROVE  Rules!RuleOf(n) \in Rules!Named(n)
<1>1. Rules!Named(n) \subseteq Nat
  BY DEF RuTypes, Rules!Named
<1> DEFINE R == OpToRel(<, Nat)
<1>2. \A x, y \in Nat : y < x => <<y, x>> \in R
  BY DEF OpToRel
<1>3. IsWellFoundedOn(R, Nat)
  BY NatLessThanWellFounded
<1> HIDE DEF R
<1>4. \E x \in Rules!Named(n) : \A y \in Rules!Named(n) : ~(<<y, x>> \in R)
  BY <1>1, <1>3, WFMin
<1>5. PICK x \in Rules!Named(n) : \A y \in Rules!Named(n) : ~(<<y, x>> \in R)
  BY <1>4
<1>6. ASSUME NEW y \in Rules!Named(n) PROVE x <= y
  <2>1. x \in Nat /\ y \in Nat /\ ~(y < x)
    BY <1>1, <1>2, <1>5
  <2> QED BY <2>1
<1> QED BY <1>6 DEF Rules!RuleOf

(* An added rule is a new one, an edited rule keeps its name.              *)
LEMMA RuAddedRule ==
    ASSUME RuTypes, NEW r \in RuRule, rules' = Append(rules, r)
    PROVE  /\ rules' \in Seq(RuRule)
           /\ \A k \in DOMAIN rules : k \in DOMAIN rules' /\ rules'[k] = rules[k]
           /\ DOMAIN rules' = DOMAIN rules \cup {Len(rules) + 1}
           /\ rules'[Len(rules) + 1] = r
           /\ Len(rules) + 1 \notin DOMAIN rules
BY DEF RuTypes

LEMMA RuEditedRule ==
    ASSUME RuTypes, NEW i \in DOMAIN rules, NEW vms \in SUBSET RuAllVms, NEW enabled \in BOOLEAN,
           rules' = [rules EXCEPT ![i] = [@ EXCEPT !.vms = vms, !.enabled = enabled]]
    PROVE  /\ rules' \in Seq(RuRule)
           /\ DOMAIN rules' = DOMAIN rules
           /\ \A k \in DOMAIN rules \ {i} : rules'[k] = rules[k]
           /\ rules'[i].name = rules[i].name /\ rules'[i].vms = vms
<1> DEFINE r == [rules[i] EXCEPT !.vms = vms, !.enabled = enabled]
<1>1. rules \in Seq(RuRule) /\ rules[i] \in RuRule /\ rules' = [rules EXCEPT ![i] = r]
  BY DEF RuTypes
<1>2. r \in RuRule /\ r.name = rules[i].name /\ r.vms = vms
  BY <1>1 DEF RuRule
<1> HIDE DEF r
<1>3. rules' \in Seq(RuRule) /\ Len(rules') = Len(rules)
  BY <1>1, <1>2, ExceptSeq
<1>4. DOMAIN rules' = DOMAIN rules /\ rules'[i] = r
  BY <1>1
<1>5. \A k \in DOMAIN rules \ {i} : rules'[k] = rules[k]
  BY <1>1
<1> QED BY <1>2, <1>3, <1>4, <1>5

(* Whoever runs on was at work before and knows of the same others.        *)
RuContinues(d) ==
    /\ d \in Rules!Running
    /\ job'[d].pc # "new" /\ job'[d].with = job[d].with
    /\ job'[d].given = job[d].given /\ job'[d].name \in Nat
    /\ \A e \in Cmds \ {d} : job'[e] = job[e]

LEMMA RuOverlapKept ==
    ASSUME RuIInv, NEW d \in Cmds, RuContinues(d)
    PROVE  RuOverlap'
<1>1. \A e \in Cmds : RuAlone(e)' = RuAlone(e)
  BY DEF RuContinues, RuAlone
<1>2. Rules!Running' \subseteq Rules!Running
  BY DEF Rules!Running, RuContinues
<1> QED BY <1>1, <1>2 DEF RuIInv, RuOverlap, Rules!Running

(* Somebody at work while another one goes on is not alone.                *)
LEMMA RuNobodyElse ==
    ASSUME RuIInv, NEW d \in Cmds, RuContinues(d),
           NEW c \in Cmds, c # d, c \in Rules!Running
    PROVE  ~RuAlone(c)
BY DEF RuIInv, RuOverlap, RuContinues

LEMMA RuBeginInv ==
    ASSUME Rules!RulesAssumption, RuIInv, NEW d \in Cmds, Rules!Begin(d)
    PROVE  RuIInv'
<1>1. PICK r \in RuleAsks[d] :
         job' = [e \in Cmds |->
              IF e = d
              THEN [job[d] EXCEPT !.pc = IF r.given = Generate THEN "name" ELSE "get",
                                  !.given = r.given, !.vms = r.vms, !.with = Rules!Running,
                                  !.name = IF r.given = Generate THEN 0 ELSE r.given]
              ELSE IF e \in Rules!Running THEN [job[e] EXCEPT !.with = @ \cup {d}] ELSE job[e]]
  BY DEF Rules!Begin
<1>2. job[d].pc = "new" /\ rules' = rules
  BY DEF Rules!Begin, Rules!At
<1>3. r.vms \in SUBSET RuAllVms /\ r.given \in Nat
  BY DEF RuAllVms, Rules!RulesAssumption
<1>t. job \in [Cmds -> RuJob] /\ rules \in Seq(RuRule)
  BY DEF RuIInv, RuTypes
<1>4. /\ job'[d] \in RuJob
      /\ job'[d].pc = IF r.given = Generate THEN "name" ELSE "get"
      /\ job'[d].given = r.given /\ job'[d].with = Rules!Running
  <2> DEFINE j == [job[d] EXCEPT !.pc = IF r.given = Generate THEN "name" ELSE "get",
                                 !.given = r.given, !.vms = r.vms, !.with = Rules!Running,
                                 !.name = IF r.given = Generate THEN 0 ELSE r.given]
  <2>1. job'[d] = j
    BY <1>1
  <2>a. job[d] \in RuJob /\ Rules!Running \in SUBSET Cmds
    BY <1>t DEF Rules!Running
  <2>b. (IF r.given = Generate THEN 0 ELSE r.given) \in Nat
    BY <1>3
  <2>2. j \in RuJob
    BY <1>3, <2>a, <2>b DEF RuJob
  <2>3. /\ j.pc = IF r.given = Generate THEN "name" ELSE "get"
        /\ j.given = r.given /\ j.with = Rules!Running
    BY <1>t DEF RuJob
  <2> HIDE DEF j
  <2> QED BY <2>1, <2>2, <2>3
<1>5. ASSUME NEW e \in Cmds \ {d}
      PROVE  /\ job'[e] \in RuJob
             /\ job'[e].pc = job[e].pc /\ job'[e].vms = job[e].vms
             /\ job'[e].given = job[e].given /\ job'[e].name = job[e].name
             /\ job'[e].key = job[e].key
             /\ job'[e].with = IF e \in Rules!Running THEN job[e].with \cup {d} ELSE job[e].with
  <2>1. job'[e] = IF e \in Rules!Running THEN [job[e] EXCEPT !.with = @ \cup {d}] ELSE job[e]
    BY <1>1
  <2>2. job[e] \in RuJob
    BY <1>t
  <2> QED BY <2>1, <2>2 DEF RuJob
<1>6. RuTypes'
  <2>1. job' = [e \in Cmds |-> job'[e]]
    BY <1>1
  <2>2. \A e \in Cmds : job'[e] \in RuJob
    BY <1>4, <1>5
  <2> QED BY <1>2, <1>t, <2>1, <2>2 DEF RuTypes
<1>7. ASSUME NEW e \in Cmds \ {d}, RuAlone(e)'
      PROVE  RuAlone(e) /\ e \notin Rules!Running
  BY <1>5, <1>7 DEF RuAlone
<1>8. RuOverlap'
  <2>1. ASSUME NEW e \in Cmds \ {d}, e \in Rules!Running'
        PROVE  e \in Rules!Running /\ ~RuAlone(d)'
    BY <1>4, <1>5, <2>1 DEF Rules!Running, RuAlone
  <2> QED BY <1>7, <2>1 DEF RuOverlap, Rules!Running
<1>9. RuGivenNames'
  BY <1>4, <1>5 DEF RuIInv, RuGivenNames
<1>a. RuAddsNew'
  <2>1. SUFFICES ASSUME NEW c \in Cmds, job'[c].pc = "add", RuAlone(c)'
                 PROVE  Rules!Named(job[c].name)' = {}
    BY DEF RuAddsNew, Rules!At
  <2>2. c # d /\ job[c].pc = "add" /\ RuAlone(c) /\ job'[c].name = job[c].name
    BY <1>4, <1>5, <1>7, <2>1
  <2>3. Rules!Named(job[c].name) = {}
    BY <2>2 DEF RuIInv, RuAddsNew, Rules!At
  <2> QED BY <1>2, <2>2, <2>3 DEF Rules!Named
<1>10. RuEditsNamed'
  BY <1>2, <1>4, <1>5 DEF RuIInv, RuEditsNamed, Rules!At, Rules!Named
<1>11. RuKept'
  <2>1. SUFFICES ASSUME NEW c \in Cmds, job'[c].pc \in {"verify", "done"}, RuAlone(c)'
                 PROVE  \E k \in Rules!Named(job[c].name)' : RuKeptIn(c, k)'
    BY DEF RuKept
  <2>2. c # d /\ job[c].pc \in {"verify", "done"} /\ RuAlone(c)
    BY <1>4, <1>5, <1>7, <2>1
  <2>3. PICK k \in Rules!Named(job[c].name) : RuKeptIn(c, k)
    BY <2>2 DEF RuIInv, RuKept
  <2>4. k \in Rules!Named(job[c].name)' /\ Rules!Named(job[c].name)' = Rules!Named(job[c].name)
    BY <1>2, <1>5, <2>2 DEF Rules!Named
  <2>5. RuKeptIn(c, k)'
    <3>1. /\ rules' = rules /\ job'[c].vms = job[c].vms /\ job'[c].given = job[c].given
          /\ job'[c].name = job[c].name
      BY <1>2, <1>5, <2>2
    <3>2. ASSUME NEW e \in Cmds, job'[e].pc \in {"edit", "add"}
          PROVE  /\ job'[e].pc = job[e].pc /\ job'[e].key = job[e].key
                 /\ job'[e].vms = job[e].vms /\ job'[e].name = job[e].name
      BY <1>4, <1>5, <3>2
    <3> QED BY <2>3, <2>4, <3>1, <3>2 DEF RuKeptIn, Rules!At
  <2> QED BY <2>4, <2>5
<1> QED BY <1>6, <1>8, <1>9, <1>a, <1>10, <1>11 DEF RuIInv

(* A step that leaves the rules alone keeps everybody's rule: one who goes  *)
(* on to edit has read what the rule holds, one who goes on to add has      *)
(* found the name free.                                                    *)
LEMMA RuSameRules ==
    ASSUME RuIInv, NEW d \in Cmds, RuContinues(d), RuTypes', rules' = rules,
           job'[d].pc \in {"get", "edit"} => job'[d].given # Generate,
           job'[d].pc = "edit" =>
               /\ job'[d].key \in Rules!Named(job'[d].name)
               /\ rules[job'[d].key].vms \subseteq job'[d].vms,
           job'[d].pc = "add" => Rules!Named(job'[d].name) = {},
           job'[d].pc \in {"verify", "done"} =>
               /\ job[d].pc = "verify"
               /\ job'[d].vms = job[d].vms /\ job'[d].name = job[d].name
    PROVE  RuIInv'
<1>1. \A n : Rules!Named(n)' = Rules!Named(n)
  BY DEF Rules!Named
<1>2. \A e \in Cmds \ {d} : job'[e] = job[e]
  BY DEF RuContinues
<1>3. RuOverlap'
  BY RuOverlapKept
<1>4. RuGivenNames'
  BY <1>2 DEF RuIInv, RuGivenNames
<1>5. RuEditsNamed'
  BY <1>1, <1>2 DEF RuIInv, RuEditsNamed, Rules!At, Rules!Named
<1>6. RuAddsNew'
  BY <1>1, <1>2 DEF RuIInv, RuAddsNew, Rules!At, RuAlone, Rules!Named
<1>7. RuKept'
  <2>1. SUFFICES ASSUME NEW c \in Cmds, job'[c].pc \in {"verify", "done"}, RuAlone(c)'
                 PROVE  \E k \in Rules!Named(job[c].name)' : RuKeptIn(c, k)'
    BY DEF RuKept
  <2>2. /\ job[c].pc \in {"verify", "done"} /\ RuAlone(c)
        /\ job'[c].vms = job[c].vms /\ job'[c].name = job[c].name
        /\ job'[c].given = job[c].given
    BY <1>2, <2>1 DEF RuContinues, RuAlone
  <2>3. PICK k \in Rules!Named(job[c].name) : RuKeptIn(c, k)
    BY <2>2 DEF RuIInv, RuKept
  <2>4. k \in Rules!Named(job[c].name)' /\ Rules!Named(job[c].name)' = Rules!Named(job[c].name)
    BY <2>2, <2>3 DEF Rules!Named
  <2>5. ASSUME NEW e \in Cmds, job'[e].pc = "edit", job'[e].key = k
        PROVE  job'[c].vms \subseteq job'[e].vms
    <3>1. CASE e = d
      BY <2>2, <2>3, <2>5, <3>1 DEF RuKeptIn
    <3>2. CASE e # d
      BY <1>2, <2>2, <2>3, <2>5, <3>2 DEF RuKeptIn, Rules!At
    <3> QED BY <3>1, <3>2
  <2>6. ASSUME NEW e \in Cmds, job'[e].pc = "add", job'[c].given = Generate
        PROVE  job'[e].name # job'[c].name
    <3>1. CASE e = d
      BY <2>2, <2>3, <2>6, <3>1
    <3>2. CASE e # d
      BY <1>2, <2>2, <2>3, <2>6, <3>2 DEF RuKeptIn, Rules!At
    <3> QED BY <3>1, <3>2
  <2>7. job'[c].vms \subseteq rules'[k].vms
    BY <2>2, <2>3 DEF RuKeptIn
  <2>8. job'[c].given = Generate => Rules!Named(job[c].name)' = {k}
    BY <2>2, <2>3, <2>4 DEF RuKeptIn
  <2>9. RuKeptIn(c, k)'
    BY <2>5, <2>6, <2>7, <2>8 DEF RuKeptIn, Rules!At
  <2> QED BY <2>4, <2>9
<1> QED BY <1>3, <1>4, <1>5, <1>6, <1>7 DEF RuIInv

(* What a step of d does to its own locals.                                *)
LEMMA RuUpdateTypes ==
    ASSUME RuIInv, NEW d \in Cmds, NEW j \in RuJob, Rules!Update(d, j), d \in Rules!Running,
           j.pc # "new",
           j.with = job[d].with, j.given = job[d].given, rules' \in Seq(RuRule)
    PROVE  RuTypes' /\ RuContinues(d) /\ job'[d] = j
<1>1. job' = [job EXCEPT ![d] = j] /\ job \in [Cmds -> RuJob]
  BY DEF Rules!Update, RuIInv, RuTypes
<1>2. job' \in [Cmds -> RuJob] /\ job'[d] = j /\ \A e \in Cmds \ {d} : job'[e] = job[e]
  BY <1>1
<1>3. j.name \in Nat
  BY DEF RuJob
<1> QED BY <1>2, <1>3 DEF RuTypes, RuContinues

LEMMA RuGotoTypes ==
    ASSUME RuIInv, NEW d \in Cmds, d \in Rules!Running, rules' \in Seq(RuRule),
           NEW label \in {"name", "get", "add", "edit", "verify"} \cup Rules!Over,
           Rules!Goto(d, label)
    PROVE  /\ RuTypes' /\ RuContinues(d)
           /\ job'[d].pc = label /\ job'[d].vms = job[d].vms
           /\ job'[d].given = job[d].given
           /\ job'[d].name = job[d].name /\ job'[d].key = job[d].key
<1> DEFINE j == [job[d] EXCEPT !.pc = label]
<1>1. job[d] \in RuJob
  BY DEF RuIInv, RuTypes
<1>2. /\ j \in RuJob /\ j.pc = label /\ j.vms = job[d].vms /\ j.given = job[d].given
      /\ j.name = job[d].name /\ j.key = job[d].key /\ j.with = job[d].with
  BY <1>1 DEF RuJob
<1>3. j.pc # "new" /\ Rules!Update(d, j)
  BY <1>2 DEF Rules!Goto, Rules!Over
<1> HIDE DEF j
<1>4. RuTypes' /\ RuContinues(d) /\ job'[d] = j
  BY <1>2, <1>3, RuUpdateTypes
<1> QED BY <1>2, <1>4

LEMMA RuTryNameInv ==
    ASSUME RuIInv, NEW d \in Cmds, Rules!TryName(d)
    PROVE  RuIInv'
<1>1. d \in Rules!Running /\ rules' = rules /\ rules' \in Seq(RuRule)
  BY DEF Rules!TryName, Rules!At, Rules!Running, Rules!Over, RuIInv, RuTypes
<1>2. CASE Rules!Named(job[d].name) = {}
  <2>1. Rules!Goto(d, "add")
    BY <1>2 DEF Rules!TryName
  <2>2. RuTypes' /\ RuContinues(d) /\ job'[d].pc = "add" /\ job'[d].name = job[d].name
    BY <1>1, <2>1, RuGotoTypes
  <2> QED BY <1>1, <1>2, <2>2, RuSameRules
<1>3. CASE Rules!Named(job[d].name) # {}
  <2> DEFINE j == [job[d] EXCEPT !.name = @ + 1]
  <2>1. Rules!Update(d, j) /\ job[d].pc = "name"
    BY <1>3 DEF Rules!TryName, Rules!At
  <2>2. job[d] \in RuJob
    BY DEF RuIInv, RuTypes
  <2>3. j \in RuJob /\ j.pc = "name" /\ j.with = job[d].with /\ j.given = job[d].given
    BY <2>1, <2>2 DEF RuJob
  <2> HIDE DEF j
  <2>4. RuTypes' /\ RuContinues(d) /\ job'[d].pc = "name"
    BY <1>1, <2>1, <2>3, RuUpdateTypes
  <2> QED BY <1>1, <2>4, RuSameRules
<1> QED BY <1>2, <1>3

LEMMA RuGetRuleInv ==
    ASSUME RuIInv, NEW d \in Cmds, Rules!GetRule(d)
    PROVE  RuIInv'
<1> DEFINE k == Rules!RuleOf(job[d].name)
<1>1. /\ d \in Rules!Running /\ rules' = rules /\ rules' \in Seq(RuRule)
      /\ job[d].given # Generate /\ job[d] \in RuJob
  BY DEF Rules!GetRule, Rules!At, Rules!Running, Rules!Over, RuIInv, RuTypes, RuGivenNames
<1>2. CASE k = 0
  <2>1. Rules!Goto(d, "add")
    BY <1>2 DEF Rules!GetRule, Rules!Goto
  <2>2. RuTypes' /\ RuContinues(d) /\ job'[d].pc = "add" /\ job'[d].name = job[d].name
    BY <1>1, <2>1, RuGotoTypes
  <2>3. Rules!Named(job[d].name) = {}
    <3>1. 0 \notin Rules!Named(job[d].name)
      BY <1>1 DEF Rules!Named
    <3> QED BY <1>2, <3>1, RuRuleOfNamed DEF RuIInv
  <2> QED BY <1>1, <2>2, <2>3, RuSameRules
<1>3. CASE k # 0
  <2> DEFINE j == [job[d] EXCEPT !.pc = "edit", !.key = k, !.vms = @ \cup rules[k].vms,
                                 !.enabled = rules[k].enabled]
  <2>1. Rules!Update(d, j)
    BY <1>3 DEF Rules!GetRule
  <2>2. k \in Rules!Named(job[d].name)
    BY <1>3, RuRuleOfNamed DEF Rules!RuleOf, RuIInv
  <2>3. k \in Nat /\ rules[k] \in RuRule
    BY <1>1, <2>2 DEF Rules!Named
  <2> HIDE DEF k
  <2>4. rules[k].vms \in SUBSET RuAllVms /\ rules[k].enabled \in BOOLEAN
    BY <2>3 DEF RuRule
  <2>5. /\ j \in RuJob /\ j.pc = "edit" /\ j.key = k /\ j.with = job[d].with
        /\ j.given = job[d].given /\ j.name = job[d].name
        /\ j.vms = job[d].vms \cup rules[k].vms
    BY <1>1, <2>3, <2>4 DEF RuJob
  <2> HIDE DEF j
  <2>6. RuTypes' /\ RuContinues(d) /\ job'[d] = j
    BY <1>1, <2>1, <2>5, RuUpdateTypes
  <2>7. /\ job'[d].pc = "edit" /\ job'[d].given # Generate
        /\ job'[d].key \in Rules!Named(job'[d].name)
        /\ rules[job'[d].key].vms \subseteq job'[d].vms
    BY <1>1, <2>2, <2>5, <2>6
  <2> QED BY <1>1, <2>6, <2>7, RuSameRules
<1> QED BY <1>2, <1>3

LEMMA RuVerifyInv ==
    ASSUME RuIInv, NEW d \in Cmds, Rules!Verify(d)
    PROVE  RuIInv'
<1> DEFINE label == IF rules[Rules!RuleOf(job[d].name)].enabled THEN "done" ELSE "failed"
<1>1. /\ d \in Rules!Running /\ rules' = rules /\ rules' \in Seq(RuRule)
      /\ job[d].pc = "verify" /\ Rules!Goto(d, label)
  BY DEF Rules!Verify, Rules!At, Rules!Running, Rules!Over, RuIInv, RuTypes
<1>2. label \in Rules!Over
  BY DEF Rules!Over
<1> HIDE DEF label
<1>3. /\ RuTypes' /\ RuContinues(d) /\ job'[d].pc = label /\ job'[d].vms = job[d].vms
      /\ job'[d].name = job[d].name
  BY <1>1, <1>2, RuGotoTypes
<1> QED BY <1>1, <1>2, <1>3, RuSameRules DEF Rules!Over

LEMMA RuAddRuleInv ==
    ASSUME RuIInv, NEW d \in Cmds, Rules!AddRule(d)
    PROVE  RuIInv'
<1>t. job \in [Cmds -> RuJob] /\ rules \in Seq(RuRule) /\ job[d] \in RuJob
  BY DEF RuIInv, RuTypes
<1>1. d \in Rules!Running /\ job[d].pc = "add"
  BY DEF Rules!AddRule, Rules!At, Rules!Running, Rules!Over
<1>2. CASE Rules!Goto(d, "failed") /\ UNCHANGED rules
  <2>1. RuTypes' /\ RuContinues(d) /\ job'[d].pc = "failed"
    BY <1>t, <1>1, <1>2, RuGotoTypes DEF Rules!Over
  <2> QED BY <1>2, <2>1, RuSameRules
<1>3. ASSUME NEW enabled \in BOOLEAN, Rules!Goto(d, "verify"),
             rules' = Append(rules, [name |-> job[d].name, vms |-> job[d].vms,
                                     enabled |-> enabled])
      PROVE  RuIInv'
  <2> DEFINE r == [name |-> job[d].name, vms |-> job[d].vms, enabled |-> enabled]
  <2>a. PICK new \in Nat : new = Len(rules) + 1
    BY <1>t
  <2>1. r \in RuRule /\ r.name = job[d].name /\ r.vms = job[d].vms
    BY <1>t DEF RuRule, RuJob
  <2> HIDE DEF r
  <2>2. rules' = Append(rules, r)
    BY <1>3 DEF r
  <2>3. /\ rules' \in Seq(RuRule)
        /\ \A k \in DOMAIN rules : k \in DOMAIN rules' /\ rules'[k] = rules[k]
        /\ DOMAIN rules' = DOMAIN rules \cup {new}
        /\ rules'[new] = r /\ new \notin DOMAIN rules
    BY <2>a, <2>1, <2>2, RuAddedRule DEF RuIInv
  <2>4. /\ RuTypes' /\ RuContinues(d) /\ job'[d].pc = "verify" /\ job'[d].vms = job[d].vms
        /\ job'[d].given = job[d].given /\ job'[d].name = job[d].name
    BY <1>1, <1>3, <2>3, RuGotoTypes
  <2>5. \A e \in Cmds \ {d} : job'[e] = job[e]
    BY <2>4 DEF RuContinues
  <2>6. \A n : Rules!Named(n)' = IF n = job[d].name THEN Rules!Named(n) \cup {new}
                                 ELSE Rules!Named(n)
    BY <2>1, <2>3 DEF Rules!Named
  <2>7. RuOverlap' /\ RuGivenNames'
    BY <2>4, <2>5, RuOverlapKept DEF RuIInv, RuGivenNames
  <2>8. RuEditsNamed'
    <3>1. SUFFICES ASSUME NEW e \in Cmds, job'[e].pc = "edit"
                   PROVE  job'[e].key \in Rules!Named(job[e].name)'
      BY DEF RuEditsNamed, Rules!At
    <3>2. job'[e] = job[e] /\ job[e].key \in Rules!Named(job[e].name)
      BY <2>4, <2>5, <3>1 DEF RuIInv, RuEditsNamed, Rules!At
    <3> QED BY <2>3, <3>2 DEF Rules!Named
  <2>9. RuAddsNew'
    <3>1. SUFFICES ASSUME NEW e \in Cmds, job'[e].pc = "add", RuAlone(e)' PROVE FALSE
      BY DEF RuAddsNew, Rules!At
    <3>2. e # d /\ e \in Rules!Running /\ RuAlone(e)
      BY <2>4, <2>5, <3>1 DEF Rules!Running, Rules!Over, RuAlone
    <3> QED BY <2>4, <3>2, RuNobodyElse
  <2>10. RuKept'
    <3>1. SUFFICES ASSUME NEW c \in Cmds, job'[c].pc \in {"verify", "done"}, RuAlone(c)'
                   PROVE  \E k \in Rules!Named(job[c].name)' : RuKeptIn(c, k)'
      BY DEF RuKept
    <3>2. CASE c = d
      <4>1. RuAlone(d)
        BY <2>4, <3>1, <3>2 DEF RuAlone, RuContinues
      <4>2. Rules!Named(job[d].name) = {}
        BY <1>1, <4>1 DEF RuIInv, RuAddsNew, Rules!At
      <4>3. \A e \in Cmds \ {d} : e \notin Rules!Running
        BY <1>1, <4>1 DEF RuIInv, RuOverlap
      <4>4. \A e \in Cmds : job'[e].pc \notin {"edit", "add"}
        BY <2>4, <2>5, <4>3 DEF Rules!Running, Rules!Over
      <4>5. Rules!Named(job[c].name)' = {new}
        <5>1. PICK n : n = job[d].name
          OBVIOUS
        <5>2. job'[c].name = n
          BY <2>4, <3>2, <5>1
        <5>3. Rules!Named(n)' = {new}
          BY <2>6, <4>2, <5>1
        <5> QED BY <5>2, <5>3 DEF Rules!Named
      <4>6. RuKeptIn(c, new)'
        BY <2>1, <2>3, <2>4, <3>2, <4>4, <4>5 DEF RuKeptIn, Rules!At
      <4> QED BY <4>5, <4>6
    <3>3. CASE c # d
      <4>1. job'[c] = job[c] /\ job[c].pc \in {"verify", "done"} /\ RuAlone(c)
        BY <2>5, <3>1, <3>3 DEF RuAlone
      <4>2. PICK k \in Rules!Named(job[c].name) : RuKeptIn(c, k)
        BY <4>1 DEF RuIInv, RuKept
      <4>3. k \in Rules!Named(job[c].name)' /\ rules'[k] = rules[k]
        BY <2>3, <4>1, <4>2 DEF Rules!Named
      <4>4. ASSUME job[c].given = Generate
            PROVE  /\ Rules!Named(job[c].name)' = {k}
                   /\ \A e \in Cmds : job'[e].pc = "add" => job'[e].name # job'[c].name
        <5>1. /\ Rules!Named(job[c].name) = {k}
              /\ \A e \in Cmds : job[e].pc = "add" => job[e].name # job[c].name
          BY <4>2, <4>4 DEF RuKeptIn, Rules!At
        <5>2. job[d].name # job[c].name
          BY <1>1, <5>1
        <5>3. \A n \in DOMAIN rules' :
                 rules'[n].name = job'[c].name <=> n \in Rules!Named(job[c].name)
          BY <2>1, <2>3, <4>1, <5>2 DEF Rules!Named
        <5>4. Rules!Named(job[c].name)' = {k}
          BY <2>3, <4>3, <5>1, <5>3 DEF Rules!Named
        <5> QED BY <2>4, <2>5, <4>1, <5>1, <5>4
      <4>5. \A e \in Cmds : job'[e].pc = "edit" => job'[e] = job[e]
        BY <2>4, <2>5
      <4>6. RuKeptIn(c, k)'
        BY <4>1, <4>2, <4>3, <4>4, <4>5 DEF RuKeptIn, Rules!At
      <4> QED BY <4>3, <4>6
    <3> QED BY <3>2, <3>3
  <2> QED BY <2>4, <2>7, <2>8, <2>9, <2>10 DEF RuIInv
<1> QED BY <1>2, <1>3 DEF Rules!AddRule

LEMMA RuEditRuleInv ==
    ASSUME RuIInv, NEW d \in Cmds, Rules!EditRule(d)
    PROVE  RuIInv'
<1>t. job[d] \in RuJob
  BY DEF RuIInv, RuTypes
<1>i. PICK i \in Nat : i = job[d].key
  BY <1>t DEF RuJob
<1>1. d \in Rules!Running /\ job[d].pc = "edit" /\ Rules!Goto(d, "verify")
  BY DEF Rules!EditRule, Rules!At, Rules!Running, Rules!Over
<1>2. i \in Rules!Named(job[d].name) /\ i \in DOMAIN rules /\ job[d].given # Generate
  BY <1>i, <1>1 DEF RuIInv, RuEditsNamed, RuGivenNames, Rules!At, Rules!Named
<1>3. PICK enabled \in BOOLEAN :
         rules' = [rules EXCEPT ![i] = [@ EXCEPT !.vms = job[d].vms, !.enabled = enabled]]
  <2>1. \E enabled \in {job[d].enabled, FALSE} :
           rules' = [rules EXCEPT ![i] = [@ EXCEPT !.vms = job[d].vms, !.enabled = enabled]]
    BY <1>i DEF Rules!EditRule
  <2>2. job[d].enabled \in BOOLEAN
    BY <1>t DEF RuJob
  <2> QED BY <2>1, <2>2
<1>4. job[d].vms \in SUBSET RuAllVms
  BY <1>t DEF RuJob
<1>5. /\ rules' \in Seq(RuRule) /\ DOMAIN rules' = DOMAIN rules
      /\ \A k \in DOMAIN rules \ {i} : rules'[k] = rules[k]
      /\ rules'[i].name = rules[i].name /\ rules'[i].vms = job[d].vms
  BY <1>2, <1>3, <1>4, RuEditedRule DEF RuIInv
<1>6. \A n : Rules!Named(n)' = Rules!Named(n)
  BY <1>5 DEF Rules!Named
<1>7. /\ RuTypes' /\ RuContinues(d) /\ job'[d].pc = "verify" /\ job'[d].vms = job[d].vms
      /\ job'[d].given = job[d].given /\ job'[d].name = job[d].name
  BY <1>1, <1>5, RuGotoTypes
<1>8. \A e \in Cmds \ {d} : job'[e] = job[e]
  BY <1>7 DEF RuContinues
<1>9. RuOverlap' /\ RuGivenNames'
  BY <1>7, <1>8, RuOverlapKept DEF RuIInv, RuGivenNames
<1>10. RuEditsNamed'
  BY <1>5, <1>7, <1>8 DEF RuIInv, RuEditsNamed, Rules!At, Rules!Named
<1>11. RuAddsNew'
  BY <1>5, <1>7, <1>8 DEF RuIInv, RuAddsNew, Rules!At, RuAlone, Rules!Named
<1>12. RuKept'
  <2>1. SUFFICES ASSUME NEW c \in Cmds, job'[c].pc \in {"verify", "done"}, RuAlone(c)'
                 PROVE  \E k \in Rules!Named(job[c].name)' : RuKeptIn(c, k)'
    BY DEF RuKept
  <2>2. CASE c = d
    <3>1. RuAlone(d)
      BY <1>7, <2>1, <2>2 DEF RuAlone, RuContinues
    <3>2. \A e \in Cmds \ {d} : e \notin Rules!Running
      BY <1>1, <3>1 DEF RuIInv, RuOverlap
    <3>3. \A e \in Cmds : job'[e].pc \notin {"edit", "add"}
      BY <1>7, <1>8, <3>2 DEF Rules!Running, Rules!Over
    <3>4. i \in Rules!Named(job[c].name)'
      BY <1>2, <1>5, <1>7, <2>2 DEF Rules!Named
    <3>5. RuKeptIn(c, i)'
      BY <1>2, <1>5, <1>7, <2>2, <3>3 DEF RuKeptIn, Rules!At
    <3> QED BY <3>4, <3>5
  <2>3. CASE c # d
    <3>1. job'[c] = job[c] /\ job[c].pc \in {"verify", "done"} /\ RuAlone(c)
      BY <1>8, <2>1, <2>3 DEF RuAlone
    <3>2. PICK k \in Rules!Named(job[c].name) : RuKeptIn(c, k)
      BY <3>1 DEF RuIInv, RuKept
    <3>3. k \in DOMAIN rules /\ Rules!Named(job[c].name)' = Rules!Named(job[c].name)
      BY <1>5, <3>1, <3>2 DEF Rules!Named
    <3>4. job[c].vms \subseteq rules'[k].vms
      <4>1. CASE k = i
        BY <1>i, <1>1, <1>5, <3>2, <4>1 DEF RuKeptIn, Rules!At
      <4>2. CASE k # i
        BY <1>5, <3>2, <3>3, <4>2 DEF RuKeptIn
      <4> QED BY <4>1, <4>2
    <3>5. \A e \in Cmds : job'[e].pc \in {"edit", "add"} => job'[e] = job[e]
      BY <1>7, <1>8
    <3>6. RuKeptIn(c, k)'
      BY <3>1, <3>2, <3>3, <3>4, <3>5 DEF RuKeptIn, Rules!At
    <3> QED BY <3>2, <3>3, <3>6
  <2> QED BY <2>2, <2>3
<1> QED BY <1>7, <1>9, <1>10, <1>11, <1>12 DEF RuIInv

LEMMA RuStepInv == Rules!RulesAssumption /\ RuIInv /\ [Rules!Next]_(Rules!vars) => RuIInv'
<1> SUFFICES ASSUME Rules!RulesAssumption, RuIInv, [Rules!Next]_(Rules!vars) PROVE RuIInv'
  OBVIOUS
<1>1. ASSUME NEW c \in Cmds, Rules!Begin(c) \/ Rules!Working(c) PROVE RuIInv'
  BY <1>1, RuBeginInv, RuGetRuleInv, RuTryNameInv, RuAddRuleInv, RuEditRuleInv, RuVerifyInv
     DEF Rules!Working
<1>2. CASE UNCHANGED Rules!vars
  BY <1>2 DEF Rules!vars, RuIInv, RuTypes, RuOverlap, Rules!Running, RuGivenNames, RuEditsNamed,
     RuAddsNew, RuKept,
              RuKeptIn, RuAlone, Rules!At, Rules!Named
<1> QED BY <1>1, <1>2 DEF Rules!Next

LEMMA RuRuleHasVmsByInv == RuIInv => Rules!RuleHasVms
BY DEF RuIInv, RuKept, RuKeptIn, RuAlone, Rules!RuleHasVms, Rules!At

-----------------------------------------------------------------------------
(* Finding the address of a VM while the guest gets and loses addresses.    *)

AdLabels ==
    {"new", "primary", "takeprimary", "nic", "takenic", "late", "found", "describe"} \cup Addr!Over
AdSearching == {"takeprimary", "nic", "takenic", "late", "found"}

AdIsJob(j) ==
    /\ j \in [pc : AdLabels, ask : {j.ask}, nic : Nat, ip : {j.ip}, time : {j.time},
              listed : {j.listed}, began : BOOLEAN, steady : {j.steady}, moved : BOOLEAN,
              lost : BOOLEAN]
    /\ j.pc \in {"nic", "takenic"} => j.nic >= 1

AdTypes ==
    /\ job = [c \in Cmds |-> job[c]]
    /\ \A c \in Cmds : AdIsJob(job[c])
    /\ guest.nics \in Seq([net : STRING, ips : Seq(V4 \cup V6)])

(* What has been on offer all the time is on offer now, and the search has  *)
(* it still ahead; while the guest does not change, what has been checked   *)
(* is what will be taken.                                                  *)
AdHolds(c, j) ==
    /\ j.pc \in AdSearching \cup {"timedout"} => j.began
    /\ j.pc = "new" => ~j.began
    /\ j.began /\ j.pc \notin Addr!Over => j.steady \subseteq Addr!Offered(c, guest)
    /\ j.began /\ j.pc = "nic" => \A o \in j.steady : o[1] \notin 0 .. j.nic - 1
    /\ j.began /\ j.pc \in {"late", "timedout"} /\ ~j.lost => j.steady = {}
    /\ j.began /\ j.pc = "takeprimary" /\ ~j.moved => Addr!Passes(c, Addr!Primary(c, guest))
    /\ j.began /\ j.pc = "takenic" /\ ~j.moved =>
          /\ j.nic \in DOMAIN guest.nics /\ ~Addr!Skipped(c, j.nic)
          /\ Addr!Passes(c, Addr!NicIp(c, guest, j.nic))
    /\ j.began /\ j.pc = "found" /\ ~j.moved => \E o \in Addr!Offered(c, guest) : o[2] = j.ip

AdIInv == AdTypes /\ \A c \in Cmds : AdHolds(c, job[c])

-----------------------------------------------------------------------------
LEMMA AdOffers ==
    ASSUME NEW c, NEW g, NEW o
    PROVE  o \in Addr!Offered(c, g) <=>
              /\ \/ o = <<0, Addr!Primary(c, g)>>
                 \/ \E n \in DOMAIN g.nics : ~Addr!Skipped(c, n) /\ o = <<n, Addr!NicIp(c, g, n)>>
              /\ Addr!Passes(c, o[2])
BY DEF Addr!Offered

(* What is offered depends on the guest and on what the command asks for.   *)
LEMMA AdOffersKept ==
    ASSUME NEW c, job'[c].ask = job[c].ask, guest' = guest
    PROVE  /\ Addr!Offered(c, guest)' = Addr!Offered(c, guest)
           /\ Addr!Primary(c, guest)' = Addr!Primary(c, guest)
           /\ \A ip : Addr!Passes(c, ip)' = Addr!Passes(c, ip)
           /\ \A n : Addr!Skipped(c, n)' = Addr!Skipped(c, n)
           /\ \A n : Addr!NicIp(c, guest, n)' = Addr!NicIp(c, guest, n)
<1>1. Addr!Version(c)' = Addr!Version(c) /\ Addr!Regex(c)' = Addr!Regex(c)
  BY DEF Addr!Version, Addr!Regex
<1>2. \A ip : Addr!Passes(c, ip)' = Addr!Passes(c, ip)
  BY <1>1 DEF Addr!Passes
<1>3. Addr!Primary(c, guest)' = Addr!Primary(c, guest)
  BY <1>1 DEF Addr!Primary
<1>4. \A n : Addr!Skipped(c, n)' = Addr!Skipped(c, n)
  BY DEF Addr!Skipped
<1>5. \A n : Addr!NicIp(c, guest, n)' = Addr!NicIp(c, guest, n)
  BY <1>1 DEF Addr!NicIp
<1>6. Addr!Offered(c, guest)' = Addr!Offered(c, guest)
  BY <1>2, <1>3, <1>4, <1>5 DEF Addr!Offered
<1> QED BY <1>2, <1>3, <1>4, <1>5, <1>6

LEMMA AdMoved ==
    ASSUME AdTypes, NEW c \in Cmds, NEW j, AdIsJob(j), Addr!Update(c, j)
    PROVE  /\ job' = [d \in Cmds |-> job'[d]]
           /\ job'[c] = j /\ \A d \in Cmds \ {c} : job'[d] = job[d]
           /\ \A d \in Cmds : AdIsJob(job'[d])
<1>1. job' = [d \in Cmds |-> job'[d]] /\ job'[c] = j /\ \A d \in Cmds \ {c} : job'[d] = job[d]
  BY DEF Addr!Update, AdTypes
<1> QED BY <1>1 DEF AdTypes

LEMMA AdStepKeeps ==
    ASSUME AdIInv, NEW c \in Cmds, NEW j, AdIsJob(j), Addr!Update(c, j), UNCHANGED Addr!vm,
           AdHolds(c, j),
           j.ask = job[c].ask \/ ~j.began
    PROVE  AdIInv'
<1>1. /\ job' = [d \in Cmds |-> job'[d]]
      /\ job'[c] = j /\ \A d \in Cmds \ {c} : job'[d] = job[d]
      /\ \A d \in Cmds : AdIsJob(job'[d])
  BY AdMoved DEF AdIInv
<1>2. guest' = guest
  BY DEF Addr!vm
<1>3. AdTypes'
  BY <1>1, <1>2 DEF AdIInv, AdTypes, AdIsJob
<1>4. ASSUME NEW d \in Cmds, NEW k, k = job'[d], AdHolds(d, k), k.ask = job[d].ask \/ ~k.began
      PROVE  AdHolds(d, job[d])'
  <2>1. CASE ~k.began
    BY <1>4, <2>1 DEF AdHolds
  <2>2. CASE k.ask = job[d].ask
    BY <1>2, <1>4, <2>2, AdOffersKept DEF AdHolds
  <2> QED BY <1>4, <2>1, <2>2
<1>5. ASSUME NEW d \in Cmds PROVE AdHolds(d, job[d])'
  BY <1>1, <1>4, <1>5 DEF AdIInv
<1> QED BY <1>3, <1>5 DEF AdIInv

LEMMA AdBefore ==
    ASSUME AdIInv, NEW c \in Cmds
    PROVE  /\ AdIsJob(job[c]) /\ AdHolds(c, job[c])
           /\ job[c].nic \in Nat /\ job[c].began \in BOOLEAN /\ job[c].moved \in BOOLEAN
           /\ job[c].lost \in BOOLEAN
<1>1. AdIsJob(job[c]) /\ AdHolds(c, job[c])
  BY DEF AdIInv, AdTypes
<1> QED BY <1>1 DEF AdIsJob

(* A step that only moves on.                                              *)
LEMMA AdGoes ==
    ASSUME AdIInv, NEW c \in Cmds, NEW p \in AdLabels, Addr!Goto(c, p),
           p \in {"nic", "takenic"} => job[c].nic >= 1
    PROVE  \E j : /\ Addr!Update(c, j) /\ AdIsJob(j) /\ j.pc = p /\ j.ask = job[c].ask
                  /\ j.nic = job[c].nic /\ j.began = job[c].began /\ j.moved = job[c].moved
                  /\ j.lost = job[c].lost /\ j.steady = job[c].steady /\ j.ip = job[c].ip
<1>1. PICK j : j = [job[c] EXCEPT !.pc = p]
  OBVIOUS
<1>2. AdIsJob(job[c])
  BY AdBefore
<1>3. /\ AdIsJob(j) /\ j.pc = p /\ j.ask = job[c].ask
      /\ j.nic = job[c].nic /\ j.began = job[c].began /\ j.moved = job[c].moved
      /\ j.lost = job[c].lost /\ j.steady = job[c].steady /\ j.ip = job[c].ip
  BY <1>1, <1>2 DEF AdIsJob
<1>4. Addr!Update(c, j)
  BY <1>1 DEF Addr!Goto
<1> QED BY <1>3, <1>4

-----------------------------------------------------------------------------
LEMMA AdBeginKeeps == ASSUME AdIInv, NEW c \in Cmds, Addr!Begin(c) PROVE AdIInv'
<1>1. PICK r \in AddressAsks[c], p \in {"failed", "describe", "primary"} :
         /\ Addr!Update(c, [job[c] EXCEPT !.ask = r, !.pc = p])
         /\ job[c].pc = "new" /\ UNCHANGED Addr!vm
  BY DEF Addr!Begin, Addr!At
<1>2. PICK j : j = [job[c] EXCEPT !.ask = r, !.pc = p]
  OBVIOUS
<1>3. AdIsJob(job[c]) /\ ~job[c].began
  BY <1>1, AdBefore DEF AdHolds
<1>4. AdIsJob(j) /\ j.pc = p /\ ~j.began
  BY <1>2, <1>3 DEF AdIsJob, AdLabels, Addr!Over
<1>5. AdHolds(c, j)
  BY <1>4 DEF AdHolds, AdSearching
<1> QED BY <1>1, <1>2, <1>4, <1>5, AdStepKeeps

(* A search begins, or goes on, at the primary address.                    *)
LEMMA AdLookAtPrimaryKeeps == ASSUME AdIInv, NEW c \in Cmds, Addr!LookAtPrimary(c) PROVE AdIInv'
<1>1. /\ AdIsJob(job[c]) /\ AdHolds(c, job[c]) /\ job[c].pc = "primary"
      /\ job[c].nic \in Nat /\ job[c].moved \in BOOLEAN /\ job[c].lost \in BOOLEAN
  BY AdBefore DEF Addr!LookAtPrimary, Addr!At
<1>2. Addr!Steady(c) \subseteq Addr!Offered(c, guest)
  BY <1>1 DEF Addr!Steady, AdHolds, Addr!Over
<1>3. UNCHANGED Addr!vm
  BY DEF Addr!LookAtPrimary
<1>4. CASE Addr!Passes(c, Addr!Primary(c, guest))
  <2>1. PICK j : j = [job[c] EXCEPT !.pc = "takeprimary", !.began = TRUE, !.steady = Addr!Steady(c)]
    OBVIOUS
  <2>2. Addr!Update(c, j)
    BY <1>4, <2>1 DEF Addr!LookAtPrimary, Addr!Search
  <2>4. /\ AdIsJob(j) /\ j.pc = "takeprimary" /\ j.ask = job[c].ask /\ j.began
        /\ j.steady = Addr!Steady(c)
    BY <1>1, <2>1 DEF AdIsJob, AdLabels
  <2>5. AdHolds(c, j)
    BY <1>2, <1>4, <2>4 DEF AdHolds
  <2> QED BY <1>3, <2>2, <2>4, <2>5, AdStepKeeps
<1>5. CASE ~Addr!Passes(c, Addr!Primary(c, guest))
  <2>1. PICK k : k = IF Addr!Passes(c, Addr!Primary(c, guest))
                     THEN [job[c] EXCEPT !.pc = "takeprimary"] ELSE Addr!ToNics(c)
    OBVIOUS
  <2>3. PICK j : j = [k EXCEPT !.began = TRUE, !.steady = Addr!Steady(c)]
    OBVIOUS
  <2>2. Addr!Update(c, j)
    <3>1. Addr!Search(c, k)
      BY <2>1 DEF Addr!LookAtPrimary
    <3> QED BY <2>3, <3>1 DEF Addr!Search
  <2>7. k = Addr!ToNics(c)
    BY <1>5, <2>1
  <2>4. /\ AdIsJob(j) /\ j.pc = "nic" /\ j.ask = job[c].ask /\ j.nic = 1 /\ j.began
        /\ j.steady = Addr!Steady(c)
    <3>1. /\ AdIsJob(k) /\ k.pc = "nic" /\ k.ask = job[c].ask /\ k.nic = 1
      <4>1. PICK m \in Nat : m = 1
        OBVIOUS
      <4>2. k = [job[c] EXCEPT !.pc = "nic", !.nic = m]
        BY <2>7, <4>1 DEF Addr!ToNics
      <4>3. AdIsJob(k) /\ k.pc = "nic" /\ k.ask = job[c].ask /\ k.nic = m
        <5>1. job[c] = [pc |-> job[c].pc, ask |-> job[c].ask, nic |-> job[c].nic,
                        ip |-> job[c].ip, time |-> job[c].time, listed |-> job[c].listed,
                        began |-> job[c].began, steady |-> job[c].steady,
                        moved |-> job[c].moved, lost |-> job[c].lost]
          BY <1>1 DEF AdIsJob
        <5>2. k = [pc |-> "nic", ask |-> job[c].ask, nic |-> m,
                        ip |-> job[c].ip, time |-> job[c].time, listed |-> job[c].listed,
                        began |-> job[c].began, steady |-> job[c].steady,
                        moved |-> job[c].moved, lost |-> job[c].lost]
          BY <4>2, <5>1
        <5>3. job[c].began \in BOOLEAN /\ job[c].moved \in BOOLEAN /\ job[c].lost \in BOOLEAN
          BY <1>1 DEF AdIsJob
        <5> QED BY <4>1, <5>2, <5>3 DEF AdIsJob, AdLabels
      <4> QED BY <4>1, <4>3
    <3> QED BY <2>3, <3>1 DEF AdIsJob
  <2>5. ASSUME NEW o \in Addr!Offered(c, guest) PROVE o[1] \notin 0 .. 1 - 1
    <3>1. CASE o = <<0, Addr!Primary(c, guest)>>
      BY <1>5, <3>1, AdOffers
    <3>2. ASSUME NEW n \in DOMAIN guest.nics, o = <<n, Addr!NicIp(c, guest, n)>>
          PROVE  o[1] \notin 0 .. 1 - 1
      <4>1. n \in Nat /\ n >= 1
        BY DEF AdIInv, AdTypes
      <4> QED BY <3>2, <4>1
    <3> QED BY <3>1, <3>2, AdOffers
  <2>6. AdHolds(c, j)
    BY <1>2, <2>4, <2>5 DEF AdHolds
  <2> QED BY <1>3, <2>2, <2>4, <2>6, AdStepKeeps
<1> QED BY <1>4, <1>5

(* The address is read once more.                                          *)
LEMMA AdTakeKeeps ==
    ASSUME AdIInv, NEW c \in Cmds, NEW ip, Addr!Take(c, ip),
           job[c].pc \in {"takeprimary", "takenic"},
           ~job[c].moved /\ ip # Addr!NoIp => \E o \in Addr!Offered(c, guest) : o[2] = ip
    PROVE  AdIInv'
<1>1. /\ AdIsJob(job[c]) /\ AdHolds(c, job[c]) /\ job[c].nic \in Nat
      /\ job[c].moved \in BOOLEAN /\ job[c].lost \in BOOLEAN
  BY AdBefore
<1>2. job[c].began /\ job[c].steady \subseteq Addr!Offered(c, guest)
  BY <1>1 DEF AdHolds, AdSearching, Addr!Over
<1>3. UNCHANGED Addr!vm
  BY DEF Addr!Take
<1>4. PICK j : j = [job[c] EXCEPT !.ip = ip, !.lost = @ \/ ip = Addr!NoIp,
                                  !.pc = IF ip = Addr!NoIp THEN "late" ELSE "found"]
  OBVIOUS
<1>5. Addr!Update(c, j)
  BY <1>4 DEF Addr!Take
<1>6. /\ AdIsJob(j) /\ j.ask = job[c].ask /\ j.began = job[c].began /\ j.steady = job[c].steady
      /\ j.moved = job[c].moved /\ j.ip = ip
      /\ j.pc = (IF ip = Addr!NoIp THEN "late" ELSE "found")
      /\ j.lost = (job[c].lost \/ ip = Addr!NoIp)
  BY <1>1, <1>4 DEF AdIsJob, AdLabels
<1>7. AdHolds(c, j)
  BY <1>2, <1>6 DEF AdHolds
<1> QED BY <1>3, <1>5, <1>6, <1>7, AdStepKeeps

LEMMA AdTakePrimaryKeeps == ASSUME AdIInv, NEW c \in Cmds, Addr!TakePrimary(c) PROVE AdIInv'
<1>1. Addr!Take(c, Addr!Primary(c, guest)) /\ job[c].pc = "takeprimary"
  BY DEF Addr!TakePrimary, Addr!At
<1>2. ASSUME ~job[c].moved PROVE \E o \in Addr!Offered(c, guest) : o[2] = Addr!Primary(c, guest)
  <2>1. Addr!Passes(c, Addr!Primary(c, guest))
    BY <1>1, <1>2, AdBefore DEF AdHolds, AdSearching
  <2>2. <<0, Addr!Primary(c, guest)>> \in Addr!Offered(c, guest)
    BY <2>1, AdOffers
  <2> QED BY <2>2
<1> QED BY <1>1, <1>2, AdTakeKeeps

LEMMA AdTakeNicIpKeeps == ASSUME AdIInv, NEW c \in Cmds, Addr!TakeNicIp(c) PROVE AdIInv'
<1>1. Addr!Take(c, Addr!NicIp(c, guest, job[c].nic)) /\ job[c].pc = "takenic"
  BY DEF Addr!TakeNicIp, Addr!At
<1>2. ASSUME ~job[c].moved
      PROVE  \E o \in Addr!Offered(c, guest) : o[2] = Addr!NicIp(c, guest, job[c].nic)
  <2>1. /\ job[c].nic \in DOMAIN guest.nics /\ ~Addr!Skipped(c, job[c].nic)
        /\ Addr!Passes(c, Addr!NicIp(c, guest, job[c].nic))
    BY <1>1, <1>2, AdBefore DEF AdHolds, AdSearching
  <2>2. <<job[c].nic, Addr!NicIp(c, guest, job[c].nic)>> \in Addr!Offered(c, guest)
    BY <2>1, AdOffers
  <2> QED BY <2>2
<1> QED BY <1>1, <1>2, AdTakeKeeps

LEMMA AdLookAtNicKeeps == ASSUME AdIInv, NEW c \in Cmds, Addr!LookAtNic(c) PROVE AdIInv'
<1>1. /\ AdIsJob(job[c]) /\ AdHolds(c, job[c]) /\ job[c].pc = "nic"
      /\ job[c].nic \in Nat /\ job[c].nic >= 1 /\ job[c].moved \in BOOLEAN
      /\ job[c].lost \in BOOLEAN
  BY AdBefore DEF Addr!LookAtNic, Addr!At, AdIsJob
<1>2. /\ job[c].began /\ job[c].steady \subseteq Addr!Offered(c, guest)
      /\ \A o \in job[c].steady : o[1] \notin 0 .. job[c].nic - 1
  BY <1>1 DEF AdHolds, AdSearching, Addr!Over
<1>3. UNCHANGED Addr!vm
  BY DEF Addr!LookAtNic
<1>4. ASSUME NEW o \in job[c].steady
      PROVE  \E n \in DOMAIN guest.nics :
                /\ o = <<n, Addr!NicIp(c, guest, n)>> /\ o[1] = n
                /\ o[2] = Addr!NicIp(c, guest, n)
                /\ ~Addr!Skipped(c, n) /\ Addr!Passes(c, o[2]) /\ n \in Nat /\ n >= job[c].nic
                /\ n <= Len(guest.nics)
  <2>1. o \in Addr!Offered(c, guest) /\ o[1] \notin 0 .. job[c].nic - 1
    BY <1>2
  <2>2. o # <<0, Addr!Primary(c, guest)>>
    BY <1>1, <2>1
  <2>3. PICK n \in DOMAIN guest.nics : ~Addr!Skipped(c, n) /\ o = <<n, Addr!NicIp(c, guest, n)>>
    BY <2>1, <2>2, AdOffers
  <2>4. n \in Nat /\ n <= Len(guest.nics)
    BY DEF AdIInv, AdTypes
  <2> QED BY <1>1, <2>1, <2>3, <2>4, AdOffers
<1>5. CASE job[c].nic > Len(guest.nics)
  <2>1. job[c].steady = {}
    BY <1>1, <1>4, <1>5 DEF AdIInv, AdTypes
  <2>2. Addr!Goto(c, "late")
    BY <1>5 DEF Addr!LookAtNic
  <2>3. PICK j : /\ Addr!Update(c, j) /\ AdIsJob(j) /\ j.pc = "late" /\ j.ask = job[c].ask
                /\ j.nic = job[c].nic /\ j.began = job[c].began /\ j.moved = job[c].moved
                /\ j.lost = job[c].lost /\ j.steady = job[c].steady
    BY <1>1, <2>2, AdGoes DEF AdLabels
  <2>9. AdHolds(c, j)
    BY <1>2, <2>1, <2>3 DEF AdHolds, AdSearching, Addr!Over
  <2> QED BY <1>1, <1>3, <2>3, <2>9, AdStepKeeps
<1>6. CASE ~(job[c].nic > Len(guest.nics)) /\ guest.nics[job[c].nic].net = "none"
  <2>1. Addr!Goto(c, "failed")
    BY <1>6 DEF Addr!LookAtNic
  <2>2. PICK j : Addr!Update(c, j) /\ AdIsJob(j) /\ j.pc = "failed" /\ j.ask = job[c].ask
    BY <1>1, <2>1, AdGoes DEF AdLabels, Addr!Over
  <2>3. AdHolds(c, j)
    BY <2>2 DEF AdHolds, AdSearching, Addr!Over
  <2> QED BY <1>3, <2>2, <2>3, AdStepKeeps
<1>7. CASE /\ ~(job[c].nic > Len(guest.nics)) /\ guest.nics[job[c].nic].net # "none"
           /\ ~Addr!Skipped(c, job[c].nic) /\ Addr!Passes(c, Addr!NicIp(c, guest, job[c].nic))
  <2>1. Addr!Goto(c, "takenic")
    BY <1>7 DEF Addr!LookAtNic
  <2>2. job[c].nic \in DOMAIN guest.nics
    BY <1>1, <1>7 DEF AdIInv, AdTypes
  <2>3. PICK j : /\ Addr!Update(c, j) /\ AdIsJob(j) /\ j.pc = "takenic" /\ j.ask = job[c].ask
                /\ j.nic = job[c].nic /\ j.began = job[c].began /\ j.moved = job[c].moved
                /\ j.lost = job[c].lost /\ j.steady = job[c].steady
    BY <1>1, <2>1, AdGoes DEF AdLabels
  <2>9. AdHolds(c, j)
    BY <1>2, <1>7, <2>2, <2>3 DEF AdHolds, AdSearching, Addr!Over
  <2> QED BY <1>1, <1>3, <2>3, <2>9, AdStepKeeps
<1>8. CASE /\ ~(job[c].nic > Len(guest.nics)) /\ guest.nics[job[c].nic].net # "none"
           /\ ~(~Addr!Skipped(c, job[c].nic) /\ Addr!Passes(c, Addr!NicIp(c, guest, job[c].nic)))
  <2>1. PICK j : j = [job[c] EXCEPT !.nic = @ + 1]
    OBVIOUS
  <2>2. Addr!Update(c, j)
    BY <1>8, <2>1 DEF Addr!LookAtNic
  <2>4. /\ AdIsJob(j) /\ j.pc = "nic" /\ j.ask = job[c].ask /\ j.nic = job[c].nic + 1
        /\ j.began = job[c].began /\ j.steady = job[c].steady
    BY <1>1, <2>1 DEF AdIsJob, AdLabels
  <2>5. ASSUME NEW o \in job[c].steady PROVE o[1] \notin 0 .. j.nic - 1
    BY <1>1, <1>4, <1>8, <2>4
  <2>6. AdHolds(c, j)
    BY <1>2, <2>4, <2>5 DEF AdHolds
  <2> QED BY <1>3, <2>2, <2>4, <2>6, AdStepKeeps
<1> QED BY <1>5, <1>6, <1>7, <1>8

LEMMA AdRetryKeeps == ASSUME AdIInv, NEW c \in Cmds, Addr!Retry(c) PROVE AdIInv'
<1>1. /\ AdIsJob(job[c]) /\ AdHolds(c, job[c]) /\ job[c].pc = "late"
  BY AdBefore DEF Addr!Retry, Addr!At
<1>2. /\ job[c].began /\ job[c].steady \subseteq Addr!Offered(c, guest)
      /\ ~job[c].lost => job[c].steady = {}
  BY <1>1 DEF AdHolds, AdSearching, Addr!Over
<1>3. UNCHANGED Addr!vm
  BY DEF Addr!Retry
<1>4. CASE \E p \in {"describe", "timedout"} : Addr!Goto(c, p)
  <2>1. PICK p \in {"describe", "timedout"} : Addr!Goto(c, p)
    BY <1>4
  <2>2. PICK j : /\ Addr!Update(c, j) /\ AdIsJob(j) /\ j.pc = p /\ j.ask = job[c].ask
                /\ j.nic = job[c].nic /\ j.began = job[c].began /\ j.moved = job[c].moved
                /\ j.lost = job[c].lost /\ j.steady = job[c].steady
    BY <1>1, <2>1, AdGoes DEF AdLabels, Addr!Over
  <2>9. AdHolds(c, j)
    BY <1>2, <2>1, <2>2 DEF AdHolds, AdSearching, Addr!Over
  <2> QED BY <1>1, <1>3, <2>2, <2>9, AdStepKeeps
<1>5. CASE \E t : Addr!Update(c, [job[c] EXCEPT !.pc = "primary", !.time = t])
  <2>1. PICK t : Addr!Update(c, [job[c] EXCEPT !.pc = "primary", !.time = t])
    BY <1>5
  <2>2. PICK j : j = [job[c] EXCEPT !.pc = "primary", !.time = t]
    OBVIOUS
  <2>3. /\ AdIsJob(j) /\ j.pc = "primary" /\ j.ask = job[c].ask /\ j.began = job[c].began
        /\ j.steady = job[c].steady
    BY <1>1, <2>2 DEF AdIsJob, AdLabels
  <2>4. AdHolds(c, j)
    BY <1>2, <2>3 DEF AdHolds
  <2> QED BY <1>3, <2>1, <2>2, <2>3, <2>4, AdStepKeeps
<1> QED BY <1>4, <1>5 DEF Addr!Retry

LEMMA AdAnswerKeeps == ASSUME AdIInv, NEW c \in Cmds, Addr!Answer(c) PROVE AdIInv'
<1>1. AdHolds(c, job[c]) /\ job[c].pc = "found" /\ UNCHANGED Addr!vm
  BY AdBefore DEF Addr!Answer, Addr!At
<1>2. job[c].steady \subseteq Addr!Offered(c, guest) /\ job[c].began
  BY <1>1 DEF AdHolds, AdSearching, Addr!Over
<1>3. PICK p \in {"done", "describe"} : Addr!Goto(c, p)
  BY DEF Addr!Answer
<1>4. PICK j : /\ Addr!Update(c, j) /\ AdIsJob(j) /\ j.pc = p /\ j.ask = job[c].ask
               /\ j.began = job[c].began /\ j.steady = job[c].steady
  BY <1>3, AdGoes DEF AdLabels, Addr!Over
<1>5. AdHolds(c, j)
  BY <1>2, <1>3, <1>4 DEF AdHolds, AdSearching
<1> QED BY <1>1, <1>4, <1>5, AdStepKeeps

LEMMA AdDescribeKeeps == ASSUME AdIInv, NEW c \in Cmds, Addr!Describe(c) PROVE AdIInv'
<1>1. /\ AdIsJob(job[c]) /\ AdHolds(c, job[c]) /\ job[c].pc = "describe" /\ UNCHANGED Addr!vm
  BY AdBefore DEF Addr!Describe, Addr!At
<1>2. job[c].began => job[c].steady \subseteq Addr!Offered(c, guest)
  BY <1>1 DEF AdHolds, Addr!Over
<1>3. CASE \E p \in {"done", "failed"} : Addr!Goto(c, p)
  <2>1. PICK p \in {"done", "failed"} : Addr!Goto(c, p)
    BY <1>3
  <2>2. PICK j : /\ Addr!Update(c, j) /\ AdIsJob(j) /\ j.pc = p /\ j.ask = job[c].ask
                /\ j.nic = job[c].nic /\ j.began = job[c].began /\ j.moved = job[c].moved
                /\ j.lost = job[c].lost /\ j.steady = job[c].steady
    BY <1>1, <2>1, AdGoes DEF AdLabels, Addr!Over
  <2>9. AdHolds(c, j)
    BY <2>1, <2>2 DEF AdHolds, AdSearching, Addr!Over
  <2> QED BY <1>1, <1>3, <2>2, <2>9, AdStepKeeps
<1>4. CASE \E l : Addr!Update(c, [job[c] EXCEPT !.listed = l])
  <2>1. PICK l : Addr!Update(c, [job[c] EXCEPT !.listed = l])
    BY <1>4
  <2>2. PICK j : j = [job[c] EXCEPT !.listed = l]
    OBVIOUS
  <2>3. /\ AdIsJob(j) /\ j.pc = "describe" /\ j.ask = job[c].ask /\ j.began = job[c].began
        /\ j.steady = job[c].steady
    BY <1>1, <2>2 DEF AdIsJob, AdLabels
  <2>4. AdHolds(c, j)
    BY <1>2, <2>3 DEF AdHolds, AdSearching
  <2> QED BY <1>1, <2>1, <2>2, <2>3, <2>4, AdStepKeeps
<1> QED BY <1>3, <1>4 DEF Addr!Describe

-----------------------------------------------------------------------------
(* The guest changes: what was on offer all the time is what still is.      *)
LEMMA AdGuestKeeps == ASSUME Addr!GuestsAssumption, AdIInv, Addr!GuestChanges PROVE AdIInv'
<1>1. PICK g \in Guests :
         /\ Len(g.nics) = Len(guest.nics)
         /\ \A n \in DOMAIN g.nics : g.nics[n].net = guest.nics[n].net
         /\ guest' = g
         /\ job' = [c \in Cmds |-> IF job[c].began /\ job[c].pc \notin Addr!Over
                                   THEN [job[c] EXCEPT !.moved = TRUE,
                                                       !.steady = @ \cap Addr!Offered(c, g)]
                                   ELSE job[c]]
  BY DEF Addr!GuestChanges
<1>2. g.nics \in Seq([net : STRING, ips : Seq(V4 \cup V6)])
  BY DEF Addr!GuestsAssumption
<1>3. ASSUME NEW c \in Cmds, job[c].began, job[c].pc \notin Addr!Over
      PROVE  /\ AdIsJob(job'[c]) /\ job'[c].pc = job[c].pc /\ job'[c].ask = job[c].ask
             /\ job'[c].nic = job[c].nic /\ job'[c].began = job[c].began
             /\ job'[c].moved /\ job'[c].lost = job[c].lost
             /\ job'[c].steady = job[c].steady \cap Addr!Offered(c, g)
  <2>1. PICK j : j = [job[c] EXCEPT !.moved = TRUE, !.steady = @ \cap Addr!Offered(c, g)]
    OBVIOUS
  <2>2. job'[c] = j
    BY <1>1, <1>3, <2>1
  <2>3. AdIsJob(job[c])
    BY AdBefore
  <2>4. /\ AdIsJob(j) /\ j.pc = job[c].pc /\ j.ask = job[c].ask /\ j.nic = job[c].nic
        /\ j.began = job[c].began /\ j.moved /\ j.lost = job[c].lost
        /\ j.steady = job[c].steady \cap Addr!Offered(c, g)
    BY <2>1, <2>3 DEF AdIsJob
  <2> QED BY <2>2, <2>4
<1>4. ASSUME NEW c \in Cmds, ~(job[c].began /\ job[c].pc \notin Addr!Over)
      PROVE  job'[c] = job[c]
  BY <1>1, <1>4
<1>5. AdTypes'
  <2>1. job' = [c \in Cmds |-> job'[c]]
    BY <1>1
  <2>2. ASSUME NEW c \in Cmds PROVE AdIsJob(job'[c])
    BY <1>3, <1>4, AdBefore
  <2> QED BY <1>1, <1>2, <2>1, <2>2 DEF AdTypes, AdIsJob
<1>6. ASSUME NEW c \in Cmds, job'[c].ask = job[c].ask
      PROVE  Addr!Offered(c, guest)' = Addr!Offered(c, g)
  <2>1. Addr!Version(c)' = Addr!Version(c) /\ Addr!Regex(c)' = Addr!Regex(c)
    BY <1>6 DEF Addr!Version, Addr!Regex
  <2>2. \A ip : Addr!Passes(c, ip)' = Addr!Passes(c, ip)
    BY <2>1 DEF Addr!Passes
  <2>3. /\ Addr!Primary(c, guest)' = Addr!Primary(c, g)
        /\ \A n : Addr!NicIp(c, guest, n)' = Addr!NicIp(c, g, n)
    BY <1>1, <2>1 DEF Addr!Primary, Addr!NicIp
  <2>4. \A n \in DOMAIN g.nics : Addr!Skipped(c, n)' = Addr!Skipped(c, n)
    BY <1>1, <1>6 DEF Addr!Skipped
  <2>5. {m \in DOMAIN guest'.nics : ~Addr!Skipped(c, m)'} =
            {m \in DOMAIN g.nics : ~Addr!Skipped(c, m)}
    BY <1>1, <2>4
  <2> QED BY <2>2, <2>3, <2>5 DEF Addr!Offered
<1>7. ASSUME NEW c \in Cmds PROVE AdHolds(c, job[c])'
  <2>1. AdHolds(c, job[c])
    BY AdBefore
  <2>2. CASE job[c].began /\ job[c].pc \notin Addr!Over
    BY <1>3, <1>6, <2>1, <2>2 DEF AdHolds
  <2>3. CASE ~(job[c].began /\ job[c].pc \notin Addr!Over)
    BY <1>4, <2>1, <2>3 DEF AdHolds, AdSearching, Addr!Over
  <2> QED BY <2>2, <2>3
<1> QED BY <1>5, <1>7 DEF AdIInv

LEMMA AdStutterKeeps == ASSUME AdIInv, UNCHANGED Addr!vars PROVE AdIInv'
<1>1. AdTypes'
  BY DEF AdIInv, AdTypes, AdIsJob, Addr!vars
<1>2. ASSUME NEW c \in Cmds PROVE AdHolds(c, job[c])'
  <2>1. AdHolds(c, job[c]) /\ job' = job /\ guest' = guest
    BY DEF AdIInv, Addr!vars
  <2> QED BY <2>1, AdOffersKept DEF AdHolds
<1> QED BY <1>1, <1>2 DEF AdIInv

LEMMA AdInitInv == ASSUME Addr!GuestsAssumption, Addr!Init PROVE AdIInv
<1>1. ASSUME NEW c \in Cmds PROVE AdIsJob(job[c]) /\ job[c].pc = "new" /\ ~job[c].began
  BY DEF Addr!Init, AdIsJob, AdLabels
<1>2. ASSUME NEW c \in Cmds PROVE AdHolds(c, job[c])
  BY <1>1 DEF AdHolds, AdSearching
<1>3. job = [c \in Cmds |-> job[c]]
  BY DEF Addr!Init
<1>4. guest.nics \in Seq([net : STRING, ips : Seq(V4 \cup V6)])
  BY DEF Addr!Init, Addr!GuestsAssumption
<1> QED BY <1>1, <1>2, <1>3, <1>4 DEF AdIInv, AdTypes

LEMMA AdStepKeepsInv ==
    ASSUME Addr!GuestsAssumption, AdIInv, [Addr!Next]_(Addr!vars)
    PROVE  AdIInv'
BY AdBeginKeeps, AdLookAtPrimaryKeeps, AdTakePrimaryKeeps, AdLookAtNicKeeps, AdTakeNicIpKeeps,
   AdRetryKeeps, AdAnswerKeeps, AdDescribeKeeps, AdGuestKeeps, AdStutterKeeps DEF Addr!Next,
   Addr!Working

LEMMA AdInvImplies == ASSUME AdIInv PROVE Addr!AddressFound
BY DEF AdIInv, AdHolds, Addr!AddressFound, Addr!At, AdSearching

-----------------------------------------------------------------------------
(* What the customization spec of a VM says.                               *)

(* What the parameter of a request was asked for, and the spec's types.     *)
CsTypes ==
    /\ count \in Nat
    /\ \A k \in DOMAIN asked : asked[k] \in Nat /\ 1 <= asked[k] /\ asked[k] <= count
    /\ spec = Specs!NoSpec \/ Specs!IsSpec(spec)
    /\ spec = Specs!NoSpec => DOMAIN asked = {}
    /\ count = 0 => spec = Specs!NoSpec

CsIInv == CsTypes /\ Specs!OneMembership /\ Specs!NothingForgotten

CsJoined(f) == DOMAIN f \cap Specs!Memberships

(* g has the plain parameters of f.                                         *)
CsKeeps(f, g) == \A k \in Specs!Plain : k \in DOMAIN f => k \in DOMAIN g /\ g[k] = f[k]

(* What OneMembership says of the memberships J, and of the last requests   *)
(* for a workgroup, a domain and a user's name.                            *)
CsMember(J, w, d, u) ==
    /\ d # 0 /\ d >= w => J = {"joinDomain"}
    /\ w > d /\ u # 0 /\ u >= w => J = {"joinWorkgroup", "joinDomain"}
    /\ w > d /\ ~(u # 0 /\ u >= w) => J = {"joinWorkgroup"}
    /\ \/ J = {"joinWorkgroup"} \/ J = {"joinDomain"}
       \/ u # 0 /\ u >= w /\ J = {"joinWorkgroup", "joinDomain"}

(* What a request makes of them.                                           *)
CsNextJoined(J, given) ==
    (IF "domain" \in given THEN {"joinDomain"}
     ELSE IF "workgroup" \in given THEN {"joinWorkgroup"} ELSE J)
        \cup (IF "username" \in given THEN {"joinDomain"} ELSE {})
CsLater(k, given, n, old) == IF k \in given THEN n ELSE old

LEMMA CsMembershipIsMember ==
    Specs!OneMembership <=>
        (spec.type = "windows" =>
            CsMember(CsJoined(spec.fields), Specs!Asked("workgroup"), Specs!Asked("domain"),
                   Specs!Asked("username")))
BY DEF Specs!OneMembership, CsMember, CsJoined, Specs!Memberships

LEMMA CsMemberSays ==
    ASSUME spec'.type = "windows" =>
               CsMember(CsJoined(spec'.fields), Specs!Asked("workgroup")', Specs!Asked("domain")',
                      Specs!Asked("username")')
    PROVE  Specs!OneMembership'
BY DEF Specs!OneMembership, CsMember, CsJoined, Specs!Memberships

-----------------------------------------------------------------------------
LEMMA CsPlainSet ==
    ASSUME NEW r, NEW f
    PROVE  /\ CsJoined(Specs!SetPlain(r, f)) = CsJoined(f)
           /\ \A k \in Specs!Plain \cap r.given :
                 k \in DOMAIN Specs!SetPlain(r, f) /\ Specs!SetPlain(r, f)[k] = <<k, count + 1>>
           /\ \A k \in (Specs!Plain \cap DOMAIN f) \ r.given :
                 k \in DOMAIN Specs!SetPlain(r, f) /\ Specs!SetPlain(r, f)[k] = f[k]
<1>1. Specs!Plain \cap Specs!Memberships = {}
  BY DEF Specs!Plain, Specs!Memberships
<1>2. PICK new : new = Specs!Given(r, Specs!Plain)
  OBVIOUS
<1>3. /\ DOMAIN new = r.given \cap Specs!Plain
      /\ \A k \in r.given \cap Specs!Plain : new[k] = <<k, count + 1>>
  BY <1>2 DEF Specs!Given
<1>4. PICK g : g = Specs!SetPlain(r, f)
  OBVIOUS
<1>5. /\ DOMAIN g = DOMAIN f \cup DOMAIN new
      /\ \A k \in DOMAIN new : g[k] = new[k]
      /\ \A k \in DOMAIN f \ DOMAIN new : g[k] = f[k]
  BY <1>2, <1>4 DEF Specs!SetPlain, Specs!Extend
<1> QED BY <1>1, <1>3, <1>4, <1>5 DEF CsJoined

(* The other parameters leave the plain ones alone.                         *)
LEMMA CsAutoLogonSet ==
    ASSUME NEW r, NEW f
    PROVE  CsKeeps(f, Specs!SetAutoLogon(r, f)) /\ CsJoined(Specs!SetAutoLogon(r, f)) = CsJoined(f)
<1>1. PICK new, g : /\ new = Specs!Given(r, {"auto_logon", "auto_logon_count"})
                    /\ g = Specs!SetAutoLogon(r, f)
  OBVIOUS
<1>2. DOMAIN new \subseteq {"auto_logon", "auto_logon_count"}
  BY <1>1 DEF Specs!Given
<1>3. g = f \/ g = Specs!Extend(f, new)
  BY <1>1 DEF Specs!SetAutoLogon
<1>4. g = f \/ (/\ DOMAIN g = DOMAIN f \cup DOMAIN new
                /\ \A k \in DOMAIN f \ DOMAIN new : g[k] = f[k])
  BY <1>3 DEF Specs!Extend
<1> QED BY <1>1, <1>2, <1>4 DEF CsKeeps, CsJoined, Specs!Plain, Specs!Memberships

LEMMA CsLicenseSet ==
    ASSUME NEW r, NEW f
    PROVE  CsKeeps(f, Specs!SetLicense(r, f)) /\ CsJoined(Specs!SetLicense(r, f)) = CsJoined(f)
<1>1. PICK new, rest, g :
         /\ new = Specs!Given(r, {"include_server_license_info"} \cup Specs!LicenseDetails)
         /\ rest = Specs!Without(f, Specs!LicenseDetails)
         /\ g = Specs!SetLicense(r, f)
  OBVIOUS
<1>2. /\ DOMAIN new \subseteq {"include_server_license_info"} \cup Specs!LicenseDetails
      /\ DOMAIN rest = DOMAIN f \ Specs!LicenseDetails
      /\ \A k \in DOMAIN f \ Specs!LicenseDetails : rest[k] = f[k]
  BY <1>1 DEF Specs!Given, Specs!Without
<1>3. g = f \/ g = Specs!Extend(rest, new)
  BY <1>1 DEF Specs!SetLicense
<1>4. g = f \/ (/\ DOMAIN g = DOMAIN rest \cup DOMAIN new
                /\ \A k \in DOMAIN rest \ DOMAIN new : g[k] = rest[k])
  BY <1>3 DEF Specs!Extend
<1> QED BY <1>1, <1>2, <1>4 DEF CsKeeps, CsJoined, Specs!Plain, Specs!Memberships,
           Specs!LicenseDetails

LEMMA CsDnsServersSet ==
    ASSUME NEW r, NEW f
    PROVE  CsKeeps(f, Specs!SetDnsServers(r, f))
<1>1. PICK new, g :
         /\ new = [dnsServers |-> Specs!Given(r, Specs!DnsServers)]
         /\ g = Specs!SetDnsServers(r, f)
  OBVIOUS
<1>2. DOMAIN new = {"dnsServers"}
  BY <1>1
<1>3. g = f \/ g = Specs!Extend(f, new)
  BY <1>1 DEF Specs!SetDnsServers
<1>4. g = f \/ (/\ DOMAIN g = DOMAIN f \cup DOMAIN new
                /\ \A k \in DOMAIN f \ DOMAIN new : g[k] = f[k])
  BY <1>3 DEF Specs!Extend
<1> QED BY <1>1, <1>2, <1>4 DEF CsKeeps, Specs!Plain

(* A workgroup replaces the domain, a domain the workgroup; the name of a   *)
(* user is put beside either.                                               *)
LEMMA CsWorkgroupSet ==
    ASSUME NEW r, NEW f
    PROVE  /\ CsKeeps(f, Specs!SetWorkgroup(r, f))
           /\ CsJoined(Specs!SetWorkgroup(r, f)) =
                 IF "workgroup" \in r.given THEN {"joinWorkgroup"} ELSE CsJoined(f)
<1>1. PICK new, rest, g :
         /\ new = [joinWorkgroup |-> <<"workgroup", count + 1>>]
         /\ rest = Specs!Without(f, {"joinDomain"})
         /\ g = Specs!SetWorkgroup(r, f)
  OBVIOUS
<1>2. /\ DOMAIN new = {"joinWorkgroup"}
      /\ DOMAIN rest = DOMAIN f \ {"joinDomain"}
      /\ \A k \in DOMAIN f \ {"joinDomain"} : rest[k] = f[k]
  BY <1>1 DEF Specs!Without
<1>3. CASE "workgroup" \in r.given
  <2>1. g = Specs!Extend(rest, new)
    BY <1>1, <1>3 DEF Specs!SetWorkgroup
  <2>2. /\ DOMAIN g = DOMAIN rest \cup DOMAIN new
        /\ \A k \in DOMAIN rest \ DOMAIN new : g[k] = rest[k]
    BY <2>1 DEF Specs!Extend
  <2> QED BY <1>1, <1>2, <1>3, <2>2 DEF CsKeeps, CsJoined, Specs!Plain, Specs!Memberships
<1>4. CASE "workgroup" \notin r.given
  BY <1>4 DEF Specs!SetWorkgroup, CsKeeps
<1> QED BY <1>3, <1>4

LEMMA CsDomainSet ==
    ASSUME NEW r, NEW f
    PROVE  /\ CsKeeps(f, Specs!SetDomain(r, f))
           /\ CsJoined(Specs!SetDomain(r, f)) =
                 IF "domain" \in r.given THEN {"joinDomain"} ELSE CsJoined(f)
<1>1. PICK new, rest, g :
         /\ new = [joinDomain |-> <<"domain", count + 1>>]
         /\ rest = Specs!Without(f, {"joinWorkgroup"})
         /\ g = Specs!SetDomain(r, f)
  OBVIOUS
<1>2. /\ DOMAIN new = {"joinDomain"}
      /\ DOMAIN rest = DOMAIN f \ {"joinWorkgroup"}
      /\ \A k \in DOMAIN f \ {"joinWorkgroup"} : rest[k] = f[k]
  BY <1>1 DEF Specs!Without
<1>3. CASE "domain" \in r.given
  <2>1. g = Specs!Extend(rest, new)
    BY <1>1, <1>3 DEF Specs!SetDomain
  <2>2. /\ DOMAIN g = DOMAIN rest \cup DOMAIN new
        /\ \A k \in DOMAIN rest \ DOMAIN new : g[k] = rest[k]
    BY <2>1 DEF Specs!Extend
  <2> QED BY <1>1, <1>2, <1>3, <2>2 DEF CsKeeps, CsJoined, Specs!Plain, Specs!Memberships
<1>4. CASE "domain" \notin r.given
  BY <1>4 DEF Specs!SetDomain, CsKeeps
<1> QED BY <1>3, <1>4

LEMMA CsUsernameSet ==
    ASSUME NEW r, NEW f
    PROVE  /\ CsKeeps(f, Specs!SetUsername(r, f))
           /\ CsJoined(Specs!SetUsername(r, f)) =
                 CsJoined(f) \cup (IF "username" \in r.given THEN {"joinDomain"} ELSE {})
<1>1. PICK new, g : new = [joinDomain |-> <<"username", count + 1>>] /\ g = Specs!SetUsername(r, f)
  OBVIOUS
<1>2. DOMAIN new = {"joinDomain"}
  BY <1>1
<1>3. CASE "username" \in r.given
  <2>1. g = Specs!Extend(f, new)
    BY <1>1, <1>3 DEF Specs!SetUsername
  <2>2. /\ DOMAIN g = DOMAIN f \cup DOMAIN new
        /\ \A k \in DOMAIN f \ DOMAIN new : g[k] = f[k]
    BY <2>1 DEF Specs!Extend
  <2> QED BY <1>1, <1>2, <1>3, <2>2 DEF CsKeeps, CsJoined, Specs!Plain, Specs!Memberships
<1>4. CASE "username" \notin r.given
  BY <1>4 DEF Specs!SetUsername, CsKeeps
<1> QED BY <1>3, <1>4

(* All of them, one after the other.                                       *)
LEMMA CsWindowsFieldsSet ==
    ASSUME NEW r, NEW f
    PROVE  LET g == Specs!SetWindowsFields(r, f)
           IN  /\ \A k \in Specs!Plain \cap r.given : k \in DOMAIN g /\ g[k] = <<k, count + 1>>
               /\ \A k \in (Specs!Plain \cap DOMAIN f) \ r.given : k \in DOMAIN g /\ g[k] = f[k]
               /\ CsJoined(g) = CsNextJoined(CsJoined(f), r.given)
<1>1. PICK f1 : f1 = Specs!SetPlain(r, f)
  OBVIOUS
<1>2. PICK f2 : f2 = Specs!SetAutoLogon(r, f1)
  OBVIOUS
<1>3. PICK f3 : f3 = Specs!SetLicense(r, f2)
  OBVIOUS
<1>4. PICK f4 : f4 = Specs!SetWorkgroup(r, f3)
  OBVIOUS
<1>5. PICK f5 : f5 = Specs!SetDomain(r, f4)
  OBVIOUS
<1>6. PICK g : g = Specs!SetUsername(r, f5)
  OBVIOUS
<1>7. g = Specs!SetWindowsFields(r, f)
  BY <1>1, <1>2, <1>3, <1>4, <1>5, <1>6 DEF Specs!SetWindowsFields
<1>8. /\ \A k \in Specs!Plain \cap r.given : k \in DOMAIN f1 /\ f1[k] = <<k, count + 1>>
      /\ \A k \in (Specs!Plain \cap DOMAIN f) \ r.given : k \in DOMAIN f1 /\ f1[k] = f[k]
      /\ CsJoined(f1) = CsJoined(f)
  BY <1>1, CsPlainSet
<1>9. /\ CsKeeps(f1, f2) /\ CsJoined(f2) = CsJoined(f1)
      /\ CsKeeps(f2, f3) /\ CsJoined(f3) = CsJoined(f2)
  BY <1>2, <1>3, CsAutoLogonSet, CsLicenseSet
<1>10. /\ CsKeeps(f3, f4)
       /\ CsJoined(f4) = IF "workgroup" \in r.given THEN {"joinWorkgroup"} ELSE CsJoined(f3)
  BY <1>4, CsWorkgroupSet
<1>11. /\ CsKeeps(f4, f5)
       /\ CsJoined(f5) = IF "domain" \in r.given THEN {"joinDomain"} ELSE CsJoined(f4)
  BY <1>5, CsDomainSet
<1>12. /\ CsKeeps(f5, g)
       /\ CsJoined(g) = CsJoined(f5) \cup (IF "username" \in r.given THEN {"joinDomain"} ELSE {})
  BY <1>6, CsUsernameSet
<1>13. CsKeeps(f1, g)
  BY <1>9, <1>10, <1>11, <1>12 DEF CsKeeps
<1>14. /\ \A k \in Specs!Plain \cap r.given : k \in DOMAIN g /\ g[k] = <<k, count + 1>>
       /\ \A k \in (Specs!Plain \cap DOMAIN f) \ r.given : k \in DOMAIN g /\ g[k] = f[k]
  BY <1>8, <1>13 DEF CsKeeps
<1>15. CsJoined(g) = CsNextJoined(CsJoined(f), r.given)
  BY <1>8, <1>9, <1>10, <1>11, <1>12 DEF CsNextJoined
<1> QED BY <1>7, <1>14, <1>15

LEMMA CsLinuxFieldsSet ==
    ASSUME NEW r, NEW f
    PROVE  LET g == Specs!SetLinuxFields(r, f)
           IN  /\ \A k \in Specs!Plain \cap r.given : k \in DOMAIN g /\ g[k] = <<k, count + 1>>
               /\ \A k \in (Specs!Plain \cap DOMAIN f) \ r.given : k \in DOMAIN g /\ g[k] = f[k]
<1>1. PICK f1 : f1 = Specs!SetPlain(r, f)
  OBVIOUS
<1>2. PICK g : g = Specs!SetDnsServers(r, f1)
  OBVIOUS
<1>3. g = Specs!SetLinuxFields(r, f)
  BY <1>1, <1>2 DEF Specs!SetLinuxFields
<1>4. /\ \A k \in Specs!Plain \cap r.given : k \in DOMAIN f1 /\ f1[k] = <<k, count + 1>>
      /\ \A k \in (Specs!Plain \cap DOMAIN f) \ r.given : k \in DOMAIN f1 /\ f1[k] = f[k]
      /\ CsKeeps(f1, g)
  BY <1>1, <1>2, CsPlainSet, CsDnsServersSet
<1> QED BY <1>3, <1>4 DEF CsKeeps

(* The memberships follow the requests.                                    *)
LEMMA CsMemberKept ==
    ASSUME NEW J, NEW w \in Nat, NEW d \in Nat, NEW u \in Nat, CsMember(J, w, d, u),
           NEW n \in Nat, w < n, d < n, u < n, NEW given, NEW K,
           K = CsNextJoined(J, given),
           NEW wn, wn = CsLater("workgroup", given, n, w),
           NEW dn, dn = CsLater("domain", given, n, d),
           NEW un, un = CsLater("username", given, n, u)
    PROVE  CsMember(K, wn, dn, un)
<1>1. CASE "domain" \in given
  <2>1. K = {"joinDomain"}
    BY <1>1 DEF CsNextJoined
  <2> QED BY <1>1, <2>1 DEF CsMember, CsLater
<1>2. CASE "domain" \notin given /\ "workgroup" \in given
  <2>1. K = IF "username" \in given THEN {"joinWorkgroup", "joinDomain"} ELSE {"joinWorkgroup"}
    BY <1>2 DEF CsNextJoined
  <2> QED BY <1>2, <2>1 DEF CsMember, CsLater
<1>3. CASE "domain" \notin given /\ "workgroup" \notin given /\ "username" \in given
  <2>1. K = J \cup {"joinDomain"}
    BY <1>3 DEF CsNextJoined
  <2>2. J = {"joinWorkgroup"} => K = {"joinWorkgroup", "joinDomain"}
    BY <2>1
  <2>3. J = {"joinDomain"} => K = {"joinDomain"}
    BY <2>1
  <2>4. J = {"joinWorkgroup", "joinDomain"} => K = J
    BY <2>1
  <2>5. {"joinWorkgroup"} # {"joinDomain"} /\ {"joinWorkgroup", "joinDomain"} # {"joinDomain"}
    OBVIOUS
  <2> QED BY <1>3, <2>2, <2>3, <2>4, <2>5 DEF CsMember, CsLater
<1>4. CASE "domain" \notin given /\ "workgroup" \notin given /\ "username" \notin given
  <2>1. K = J
    BY <1>4 DEF CsNextJoined
  <2> QED BY <1>4, <2>1 DEF CsLater
<1> QED BY <1>1, <1>2, <1>3, <1>4

-----------------------------------------------------------------------------
(* A spec that says what has been asked for.                               *)
CsSays(s) ==
    /\ Specs!IsSpec(s)
    /\ \A k \in DOMAIN asked \cap Specs!Plain :
          k \in DOMAIN s.fields /\ s.fields[k] = <<k, asked[k]>>
    /\ s.type = "windows" =>
          CsMember(CsJoined(s.fields), Specs!Asked("workgroup"), Specs!Asked("domain"),
                 Specs!Asked("username"))

LEMMA CsSpecSays == ASSUME CsIInv PROVE spec = Specs!NoSpec \/ CsSays(spec)
BY CsMembershipIsMember DEF CsIInv, CsTypes, CsSays, Specs!NothingForgotten

LEMMA CsNoSpecKept ==
    ASSUME CsTypes, spec = Specs!NoSpec
    PROVE  Specs!OneMembership /\ Specs!NothingForgotten
BY DEF CsTypes, Specs!NoSpec, Specs!OneMembership, Specs!NothingForgotten

(* A spec made, or taken from the library, before anything is asked.       *)
LEMMA CsFreshSays ==
    ASSUME NEW s, Specs!IsSpec(s), DOMAIN asked = {},
           s.type = "windows" =>
               \E m \in Specs!Memberships : DOMAIN s.fields \cap Specs!Memberships = {m}
    PROVE  CsSays(s)
<1>1. Specs!Asked("workgroup") = 0 /\ Specs!Asked("domain") = 0 /\ Specs!Asked("username") = 0
  BY DEF Specs!Asked
<1>2. s.type = "windows" => CsJoined(s.fields) \in {{"joinWorkgroup"}, {"joinDomain"}}
  BY DEF CsJoined, Specs!Memberships
<1>3. s.type = "windows" => CsMember(CsJoined(s.fields), 0, 0, 0)
  BY <1>2 DEF CsMember
<1> QED BY <1>1, <1>3 DEF CsSays

LEMMA CsCreatedSays ==
    ASSUME NEW type \in {"windows", "linux"}, DOMAIN asked = {}
    PROVE  CsSays(Specs!Created(type))
<1>1. PICK s : s = Specs!Created(type)
  OBVIOUS
<1>2. Specs!IsSpec(s) /\ s.type = type
  BY <1>1 DEF Specs!Created, Specs!IsSpec
<1>3. type = "windows" => DOMAIN s.fields \cap Specs!Memberships = {"joinWorkgroup"}
  BY <1>1 DEF Specs!Created, Specs!WindowsFields, Specs!Memberships
<1> QED BY <1>1, <1>2, <1>3, CsFreshSays DEF Specs!Memberships

LEMMA CsNetworksSet ==
    ASSUME NEW r, NEW s, Specs!IsSpec(s)
    PROVE  /\ Specs!IsSpec(Specs!SetNetworks(r, s))
           /\ Specs!SetNetworks(r, s).type = s.type /\ Specs!SetNetworks(r, s).fields = s.fields
<1>1. CASE "networks" \in r.given /\ r.networks = <<>>
  BY <1>1 DEF Specs!SetNetworks
<1>2. CASE ~("networks" \in r.given /\ r.networks = <<>>)
  <2>1. PICK nics : Specs!SetNetworks(r, s) = [s EXCEPT !.nics = nics]
    BY <1>2 DEF Specs!SetNetworks
  <2>2. PICK k : k = [s EXCEPT !.nics = nics]
    OBVIOUS
  <2>3. Specs!IsSpec(k) /\ k.type = s.type /\ k.fields = s.fields
    BY <2>2 DEF Specs!IsSpec
  <2> QED BY <2>1, <2>2, <2>3
<1> QED BY <1>1, <1>2

LEMMA CsFieldsSet ==
    ASSUME NEW r, NEW s, Specs!IsSpec(s)
    PROVE  LET t == Specs!SetFields(r, s)
           IN  /\ Specs!IsSpec(t) /\ t.type = s.type
               /\ t.fields = IF s.type = "windows" THEN Specs!SetWindowsFields(r, s.fields)
                             ELSE Specs!SetLinuxFields(r, s.fields)
<1>1. PICK f : f = IF s.type = "windows" THEN Specs!SetWindowsFields(r, s.fields)
                   ELSE Specs!SetLinuxFields(r, s.fields)
  OBVIOUS
<1>2. Specs!SetFields(r, s) = [s EXCEPT !.fields = f]
  BY <1>1 DEF Specs!SetFields
<1>3. PICK t : t = [s EXCEPT !.fields = f]
  OBVIOUS
<1>4. Specs!IsSpec(t) /\ t.type = s.type /\ t.fields = f
  BY <1>3 DEF Specs!IsSpec
<1> QED BY <1>1, <1>2, <1>3, <1>4

LEMMA CsAppliedKeeps ==
    ASSUME CsIInv, NEW r, NEW base, CsSays(base),
           Specs!Finish(r, "applied", Specs!SetFields(r, Specs!SetNetworks(r, base)))
    PROVE  CsIInv'
<1>1. PICK t : t = Specs!SetFields(r, Specs!SetNetworks(r, base))
  OBVIOUS
<1>2. /\ Specs!IsSpec(t) /\ t.type = base.type
      /\ t.fields = IF base.type = "windows" THEN Specs!SetWindowsFields(r, base.fields)
                    ELSE Specs!SetLinuxFields(r, base.fields)
  BY <1>1, CsNetworksSet, CsFieldsSet DEF CsSays
<1>3. /\ count' = count + 1 /\ spec' = t
      /\ asked' = Specs!Extend(asked, [k \in r.given |-> count + 1])
  BY <1>1 DEF Specs!Finish
<1>4. /\ DOMAIN asked' = DOMAIN asked \cup r.given
      /\ \A k \in r.given : asked'[k] = count + 1
      /\ \A k \in DOMAIN asked \ r.given : asked'[k] = asked[k]
  BY <1>3 DEF Specs!Extend
<1>5. CsTypes'
  <2>1. count' \in Nat /\ count' # 0 /\ Specs!IsSpec(spec') /\ spec' # Specs!NoSpec
    BY <1>2, <1>3 DEF CsIInv, CsTypes, Specs!IsSpec, Specs!NoSpec
  <2>2. ASSUME NEW k \in DOMAIN asked'
        PROVE  asked'[k] \in Nat /\ 1 <= asked'[k] /\ asked'[k] <= count'
    BY <1>3, <1>4 DEF CsIInv, CsTypes
  <2> QED BY <2>1, <2>2 DEF CsTypes
<1>6. /\ \A k \in Specs!Plain \cap r.given : k \in DOMAIN t.fields /\ t.fields[k] = <<k, count + 1>>
      /\ \A k \in (Specs!Plain \cap DOMAIN base.fields) \ r.given :
            k \in DOMAIN t.fields /\ t.fields[k] = base.fields[k]
  BY <1>2, CsWindowsFieldsSet, CsLinuxFieldsSet
<1>7. Specs!NothingForgotten'
  <2>1. ASSUME NEW k \in DOMAIN asked' \cap Specs!Plain
        PROVE  k \in DOMAIN t.fields /\ t.fields[k] = <<k, asked'[k]>>
    BY <1>4, <1>6 DEF CsSays
  <2> QED BY <1>3, <2>1 DEF Specs!NothingForgotten
<1>8. Specs!OneMembership'
  <2>1. ASSUME NEW k PROVE Specs!Asked(k)' = CsLater(k, r.given, count + 1, Specs!Asked(k))
    BY <1>4 DEF Specs!Asked, CsLater
  <2>2. ASSUME NEW k PROVE Specs!Asked(k) \in Nat /\ Specs!Asked(k) < count + 1
    BY DEF CsIInv, CsTypes, Specs!Asked
  <2>3. CASE base.type = "windows"
    <3>1. PICK J, K : J = CsJoined(base.fields) /\ K = CsJoined(t.fields)
      OBVIOUS
    <3>2. K = CsNextJoined(J, r.given)
      <4>1. t.fields = Specs!SetWindowsFields(r, base.fields)
        BY <1>2, <2>3
      <4> QED BY <3>1, <4>1, CsWindowsFieldsSet
    <3>3. CsMember(J, Specs!Asked("workgroup"), Specs!Asked("domain"), Specs!Asked("username"))
      BY <2>3, <3>1 DEF CsSays
    <3>4. PICK n \in Nat : n = count + 1
      BY DEF CsIInv, CsTypes
    <3>5. PICK w, d, u : /\ w = Specs!Asked("workgroup") /\ d = Specs!Asked("domain")
                         /\ u = Specs!Asked("username")
      OBVIOUS
    <3>6. /\ w \in Nat /\ w < n /\ d \in Nat /\ d < n /\ u \in Nat /\ u < n
          /\ CsMember(J, w, d, u)
      BY <2>2, <3>3, <3>4, <3>5
    <3>7. PICK wn, dn, un : /\ wn = Specs!Asked("workgroup")' /\ dn = Specs!Asked("domain")'
                            /\ un = Specs!Asked("username")'
      OBVIOUS
    <3>8. /\ wn = CsLater("workgroup", r.given, n, w) /\ dn = CsLater("domain", r.given, n, d)
          /\ un = CsLater("username", r.given, n, u)
      BY <2>1, <3>4, <3>5, <3>7
    <3>9. CsMember(K, wn, dn, un)
      BY <3>2, <3>6, <3>8, CsMemberKept
    <3>10. CsMember(CsJoined(t.fields), Specs!Asked("workgroup")', Specs!Asked("domain")',
                  Specs!Asked("username")')
      BY <3>1, <3>9, <3>7
    <3> QED BY <1>3, <3>10, CsMemberSays
  <2>4. CASE base.type # "windows"
    BY <1>2, <1>3, <2>4 DEF Specs!OneMembership
  <2> QED BY <2>3, <2>4
<1> QED BY <1>5, <1>7, <1>8 DEF CsIInv

(* What is refused or ignored leaves the spec, or takes the library's.     *)
LEMMA CsUnappliedKeeps ==
    ASSUME CsIInv, NEW r, NEW result, result \in {"refused", "ignored"}, NEW s,
           Specs!Finish(r, result, s), result = "ignored" => s = spec \/ CsSays(s)
    PROVE  CsIInv'
<1>1. /\ count' = count + 1 /\ asked' = asked
      /\ spec' = spec \/ (spec' = s /\ CsSays(s))
  BY DEF Specs!Finish
<1>2. CASE spec' = spec
  BY <1>1, <1>2 DEF CsIInv, CsTypes, Specs!OneMembership, Specs!NothingForgotten, Specs!Asked
<1>3. CASE spec' = s /\ CsSays(s)
  <2>1. CsTypes'
    BY <1>1, <1>3 DEF CsIInv, CsTypes, CsSays, Specs!IsSpec, Specs!NoSpec
  <2>2. Specs!NothingForgotten'
    BY <1>1, <1>3 DEF Specs!NothingForgotten, CsSays
  <2>3. Specs!OneMembership'
    <3>1. \A k : Specs!Asked(k)' = Specs!Asked(k)
      BY <1>1 DEF Specs!Asked
    <3> QED BY <1>3, <3>1, CsMemberSays DEF CsSays
  <2> QED BY <2>1, <2>2, <2>3 DEF CsIInv
<1> QED BY <1>1, <1>2, <1>3

LEMMA CsPrepareKeeps ==
    ASSUME CsIInv, NEW r, NEW s, Specs!Prepare(r, s), s = spec \/ CsSays(s)
    PROVE  CsIInv'
<1>1. PICK base : base = IF s = Specs!NoSpec THEN Specs!Created(Specs!TypeOf(os)) ELSE s
  OBVIOUS
<1>2. CsSays(base)
  <2>1. CASE s = Specs!NoSpec
    BY <1>1, <2>1, CsCreatedSays DEF CsIInv, CsTypes, Specs!TypeOf, CsSays, Specs!IsSpec,
       Specs!NoSpec
  <2>2. CASE s # Specs!NoSpec
    BY <1>1, <2>2, CsSpecSays
  <2> QED BY <2>1, <2>2
<1>3. \/ Specs!Finish(r, "ignored", s)
      \/ Specs!Finish(r, "refused", s)
      \/ Specs!Finish(r, "applied", Specs!SetFields(r, Specs!SetNetworks(r, base)))
  BY <1>1 DEF Specs!Prepare
<1> QED BY <1>2, <1>3, CsAppliedKeeps, CsUnappliedKeeps

LEMMA CsDeployKeeps ==
    ASSUME Specs!LibraryAssumption, CsIInv, NEW app \in Apps, Specs!Deploy(app)
    PROVE  CsIInv'
<1>1. spec = Specs!NoSpec /\ DOMAIN asked = {}
  BY DEF Specs!Deploy, CsIInv, CsTypes
<1>2. PICK s : s = app.library
  OBVIOUS
<1>3. s = spec \/ CsSays(s)
  BY <1>1, <1>2, CsFreshSays DEF Specs!LibraryAssumption
<1>4. \/ Specs!Finish(Specs!FromApp(app), "refused", Specs!NoSpec)
      \/ Specs!Prepare(Specs!FromApp(app), s)
  BY <1>2 DEF Specs!Deploy
<1> QED BY <1>1, <1>3, <1>4, CsPrepareKeeps, CsUnappliedKeeps

LEMMA CsCustomizeKeeps == ASSUME CsIInv, NEW r, Specs!Customize(r) PROVE CsIInv'
<1>1. Specs!Finish(r, "refused", Specs!NoSpec) \/ Specs!Prepare(r, spec)
  BY DEF Specs!Customize
<1> QED BY <1>1, CsPrepareKeeps, CsUnappliedKeeps

LEMMA CsAddVnicKeeps == ASSUME CsIInv, Specs!AddVnic PROVE CsIInv'
<1>1. count' = count /\ asked' = asked
  BY DEF Specs!AddVnic
<1>2. CASE spec' = spec
  BY <1>1, <1>2 DEF CsIInv, CsTypes, Specs!OneMembership, Specs!NothingForgotten, Specs!Asked
<1>3. CASE spec' # spec
  <2>1. PICK nics : spec' = [spec EXCEPT !.nics = nics]
    BY <1>3 DEF Specs!AddVnic
  <2>2. spec # Specs!NoSpec
    BY <1>3 DEF Specs!AddVnic, Specs!NoSpec
  <2>3. Specs!IsSpec(spec') /\ spec'.type = spec.type /\ spec'.fields = spec.fields
    BY <2>1, <2>2 DEF CsIInv, CsTypes, Specs!IsSpec
  <2>4. CsTypes'
    BY <1>1, <2>2, <2>3 DEF CsIInv, CsTypes, Specs!IsSpec, Specs!NoSpec
  <2>5. Specs!OneMembership' /\ Specs!NothingForgotten'
    BY <1>1, <2>3 DEF CsIInv, Specs!OneMembership, Specs!NothingForgotten, Specs!Asked
  <2> QED BY <2>4, <2>5 DEF CsIInv
<1> QED BY <1>2, <1>3

LEMMA CsInitInv == ASSUME Specs!Init PROVE CsIInv
BY DEF Specs!Init, CsIInv, CsTypes, Specs!NoSpec, Specs!OneMembership, Specs!NothingForgotten

LEMMA CsStepKeepsInv ==
    ASSUME Specs!LibraryAssumption, CsIInv, [Specs!Next]_(Specs!vars)
    PROVE  CsIInv'
<1>1. CASE UNCHANGED Specs!vars
  BY <1>1 DEF Specs!vars, CsIInv, CsTypes, Specs!OneMembership, Specs!NothingForgotten,
     Specs!Asked
<1> QED BY <1>1, CsDeployKeeps, CsCustomizeKeeps, CsAddVnicKeeps DEF Specs!Next

LEMMA CsInvImplies == ASSUME CsIInv PROVE Specs!SpecAsAsked
BY DEF CsIInv, Specs!SpecAsAsked

-----------------------------------------------------------------------------
(* What the names of port groups tell, and whom they drive out.             *)

(* What names are made of.                                                  *)
NwModes == {"Access", "Trunk"}
NwMarks == {"E", "S", "F", "M", "P"}
NwPieces == STRING \cup {"QS", "_", "VLAN"} \cup NwModes \cup NwMarks

NwIsVlan(s) == Nets!AboutVlan(s) /\ s.switch # <<>>
NwIsSetting(s) ==
    /\ s \in [switch : {s.switch}, vlan : {s.vlan}, mode : {s.mode}, exclusive : {s.exclusive},
              flags : {s.flags}]
    /\ NwIsVlan(s) /\ s.flags \in Seq({"F", "M", "P"}) /\ ~Nets!SaysExclusive(s.switch)

LEMMA NwWider == ASSUME NEW S, NEW T, S \subseteq T, NEW e \in Seq(S) PROVE e \in Seq(T)
<1>1. e \in [1 .. Len(e) -> S] /\ Len(e) \in Nat
  BY LenProperties
<1>2. e \in [1 .. Len(e) -> T]
  BY <1>1
<1> QED BY <1>1, <1>2, SeqDef

(* A sequence of k + l pieces: a, which has k, and b.                       *)
NwJoins(c, k, a, l, b) ==
    /\ c \in Seq(NwPieces) /\ Len(c) = k + l
    /\ \A i \in 1 .. k : c[i] = a[i]
    /\ \A i \in 1 .. l : c[k + i] = b[i]

LEMMA NwJoined ==
    ASSUME NEW a \in Seq(NwPieces), NEW b \in Seq(NwPieces), NEW k, NEW l, k = Len(a), l = Len(b)
    PROVE  NwJoins(a \o b, k, a, l, b)
<1>1. PICK c : c = a \o b
  OBVIOUS
<1>2. k \in Nat /\ l \in Nat
  BY LenProperties
<1>3. /\ c \in Seq(NwPieces) /\ Len(c) = k + l
      /\ \A i \in 1 .. k + l : c[i] = IF i <= k THEN a[i] ELSE b[i - k]
  BY <1>1, ConcatProperties
<1>4. ASSUME NEW i \in 1 .. k PROVE c[i] = a[i]
  BY <1>2, <1>3
<1>5. ASSUME NEW i \in 1 .. l PROVE c[k + i] = b[i]
  <2>1. k + i \in 1 .. k + l /\ ~(k + i <= k) /\ k + i - k = i
    BY <1>2
  <2> QED BY <1>3, <2>1
<1> QED BY <1>1, <1>3, <1>4, <1>5 DEF NwJoins

LEMMA NwJoinsAt ==
    ASSUME NEW c, NEW k \in Nat, NEW a, NEW l \in Nat, NEW b, NwJoins(c, k, a, l, b),
           NEW i \in 1 .. l, NEW x, x = k + i
    PROVE  c[x] = b[i]
BY DEF NwJoins

LEMMA NwJoinsBefore ==
    ASSUME NEW c, NEW k, NEW a, NEW l, NEW b, NwJoins(c, k, a, l, b), NEW i \in 1 .. k
    PROVE  c[i] = a[i]
BY DEF NwJoins

LEMMA NwTwo ==
    ASSUME NEW x \in NwPieces, NEW y \in NwPieces
    PROVE  /\ <<x, y>> \in Seq(NwPieces) /\ Len(<<x, y>>) = 2
           /\ <<x, y>>[1] = x /\ <<x, y>>[2] = y
OBVIOUS

LEMMA NwThree ==
    ASSUME NEW x \in NwPieces, NEW y \in NwPieces, NEW z \in NwPieces
    PROVE  /\ <<x, y, z>> \in Seq(NwPieces) /\ Len(<<x, y, z>>) = 3
           /\ <<x, y, z>>[1] = x /\ <<x, y, z>>[2] = y /\ <<x, y, z>>[3] = z
OBVIOUS

LEMMA NwLetters ==
    /\ "QS" \in NwPieces /\ "_" \in NwPieces /\ "VLAN" \in NwPieces
    /\ NwModes \subseteq NwPieces /\ NwMarks \subseteq NwPieces
    /\ {"F", "M", "P"} \subseteq NwPieces
    /\ "E" \in NwPieces /\ "S" \in NwPieces
BY DEF NwPieces, NwMarks

LEMMA NwShortened ==
    ASSUME MaxLength \in Nat, NEW e \in Seq(STRING), e # <<>>
    PROVE  /\ Nets!Prefix(e) \in Seq(STRING) /\ Len(Nets!Prefix(e)) \in Nat /\ Len(e) \in Nat
           /\ Len(Nets!Prefix(e)) <= Len(e) /\ Len(e) >= 1
           /\ Len(e) <= MaxLength => Nets!Prefix(e) = e
           /\ Len(e) > MaxLength => Len(Nets!Prefix(e)) = MaxLength
<1>1. Len(e) \in Nat /\ Len(e) >= 1
  BY EmptySeq
<1>2. PICK n \in Nat : n = (IF Len(e) < MaxLength THEN Len(e) ELSE MaxLength)
  BY <1>1
<1>3. n <= Len(e) /\ \A i \in 1 .. n : e[i] \in STRING
  BY <1>1, <1>2, ElementOfSeq
<1>4. /\ SubSeq(e, 1, n) \in Seq(STRING)
      /\ Len(SubSeq(e, 1, n)) = IF 1 <= n THEN n - 1 + 1 ELSE 0
      /\ \A i \in 1 .. n - 1 + 1 : SubSeq(e, 1, n)[i] = e[1 + i - 1]
  BY <1>3, SubSeqProperties
<1>5. PICK p : p = Nets!Prefix(e)
  OBVIOUS
<1>6. p \in Seq(STRING) /\ Len(p) = n /\ \A i \in 1 .. n : p[i] = e[i]
  BY <1>2, <1>4, <1>5 DEF Nets!Prefix
<1>7. Len(e) <= MaxLength => p = e
  BY <1>1, <1>2, <1>6, SeqEqual
<1> QED BY <1>1, <1>2, <1>3, <1>5, <1>6, <1>7

(* The pieces of a name, one by one.                                        *)
NwLaid(n, k, l, p, vlan, mode) ==
    /\ n[1] = "QS" /\ n[2] = "_" /\ \A i \in 1 .. k : n[2 + i] = p[i]
    /\ n[k + 3] = "_" /\ n[k + 4] = "VLAN" /\ n[k + 5] = "_"
    /\ \A i \in 1 .. l : n[k + 5 + i] = vlan[i]
    /\ n[k + l + 6] = "_" /\ n[k + l + 7] = mode
NwSpells(n, p, vlan, mode) == NwLaid(n, Len(p), Len(vlan), p, vlan, mode)

LEMMA NwSizes ==
    ASSUME MaxLength \in Nat, NEW s, NwIsVlan(s)
    PROVE  /\ Nets!Prefix(s.switch) \in Seq(NwPieces) /\ s.switch \in Seq(NwPieces)
           /\ s.vlan \in Seq(NwPieces)
           /\ Len(Nets!Prefix(s.switch)) \in Nat /\ Len(s.vlan) \in Nat
           /\ Len(s.switch) \in Nat /\ Len(s.switch) >= 1
           /\ Len(Nets!Prefix(s.switch)) <= Len(s.switch)
           /\ Len(s.switch) <= MaxLength => Nets!Prefix(s.switch) = s.switch
           /\ Len(s.switch) > MaxLength => Len(Nets!Prefix(s.switch)) < Len(s.switch)
           /\ s.mode \in NwModes /\ s.mode \in NwPieces
<1>1. /\ s.switch \in Seq(STRING) /\ s.switch # <<>> /\ s.vlan \in Seq(STRING \ {"_", "VLAN"})
      /\ s.mode \in {"Access", "Trunk"}
  BY DEF NwIsVlan, Nets!AboutVlan
<1>2. PICK p : p = Nets!Prefix(s.switch)
  OBVIOUS
<1>3. /\ p \in Seq(STRING) /\ Len(p) \in Nat /\ Len(s.switch) \in Nat
      /\ Len(p) <= Len(s.switch) /\ Len(s.switch) >= 1
      /\ Len(s.switch) <= MaxLength => p = s.switch
      /\ Len(s.switch) > MaxLength => Len(p) = MaxLength
  BY <1>1, <1>2, NwShortened
<1>4. STRING \subseteq NwPieces /\ STRING \ {"_", "VLAN"} \subseteq NwPieces
  BY DEF NwPieces
<1>5. p \in Seq(NwPieces) /\ s.switch \in Seq(NwPieces)
  BY <1>1, <1>3, <1>4, NwWider
<1>6. s.vlan \in Seq(NwPieces)
  BY <1>1, <1>4, NwWider
<1>7. Len(s.vlan) \in Nat
  BY <1>6, LenProperties
<1>8. s.mode \in NwModes /\ s.mode \in NwPieces
  BY <1>1 DEF NwModes, NwPieces
<1> QED BY <1>2, <1>3, <1>5, <1>6, <1>7, <1>8

LEMMA NwOldNameIs ==
    ASSUME MaxLength \in Nat, NEW s, NwIsVlan(s)
    PROVE  /\ Nets!OldName(s) \in Seq(NwPieces)
           /\ Len(Nets!OldName(s)) = Len(Nets!Prefix(s.switch)) + Len(s.vlan) + 7
           /\ NwSpells(Nets!OldName(s), Nets!Prefix(s.switch), s.vlan, s.mode)
<1>1. PICK p, v, m : p = Nets!Prefix(s.switch) /\ v = s.vlan /\ m = s.mode
  OBVIOUS
<1>2. /\ p \in Seq(NwPieces) /\ v \in Seq(NwPieces) /\ m \in NwPieces
      /\ Len(p) \in Nat /\ Len(v) \in Nat
  BY <1>1, NwSizes
<1>3. PICK a, b, c : a = <<"QS", "_">> /\ b = <<"_", "VLAN", "_">> /\ c = <<"_", m>>
  OBVIOUS
<1>4. /\ a \in Seq(NwPieces) /\ Len(a) = 2 /\ a[1] = "QS" /\ a[2] = "_"
      /\ b \in Seq(NwPieces) /\ Len(b) = 3 /\ b[1] = "_" /\ b[2] = "VLAN" /\ b[3] = "_"
      /\ c \in Seq(NwPieces) /\ Len(c) = 2 /\ c[1] = "_" /\ c[2] = m
  BY <1>2, <1>3, NwLetters, NwTwo, NwThree
<1>5. PICK k \in Nat, l \in Nat : k = Len(p) /\ l = Len(v)
  BY <1>2
<1>6. PICK d, e, f, n : d = a \o p /\ e = d \o b /\ f = e \o v /\ n = f \o c
  OBVIOUS
<1>7. NwJoins(d, 2, a, k, p)
  BY <1>2, <1>4, <1>5, <1>6, NwJoined
<1>8. NwJoins(e, k + 2, d, 3, b)
  <2>1. d \in Seq(NwPieces) /\ Len(d) = k + 2
    BY <1>5, <1>7 DEF NwJoins
  <2> QED BY <1>4, <1>6, <2>1, NwJoined
<1>9. NwJoins(f, k + 5, e, l, v)
  <2>1. e \in Seq(NwPieces) /\ Len(e) = k + 5
    BY <1>5, <1>8 DEF NwJoins
  <2> QED BY <1>2, <1>5, <1>6, <2>1, NwJoined
<1>10. NwJoins(n, k + l + 5, f, 2, c)
  <2>1. f \in Seq(NwPieces) /\ Len(f) = k + l + 5
    BY <1>5, <1>9 DEF NwJoins
  <2> QED BY <1>4, <1>6, <2>1, NwJoined
<1>11. n = Nets!OldName(s)
  BY <1>1, <1>3, <1>6 DEF Nets!OldName
<1>12. n \in Seq(NwPieces) /\ Len(n) = k + l + 7
  BY <1>10 DEF NwJoins
<1>13. \A i \in 1 .. k + 5 : n[i] = e[i]
  BY <1>9, <1>10 DEF NwJoins
<1>14. \A i \in 1 .. k + 2 : n[i] = d[i]
  BY <1>8, <1>13 DEF NwJoins
<1>15. NwSpells(n, p, v, m)
  <2>1. n[1] = "QS" /\ n[2] = "_"
    <3>1. d[1] = a[1] /\ d[2] = a[2]
      BY <1>7 DEF NwJoins
    <3>2. 1 \in 1 .. k + 2 /\ 2 \in 1 .. k + 2
      OBVIOUS
    <3>3. n[1] = d[1] /\ n[2] = d[2]
      BY <1>14, <3>2
    <3> QED BY <1>4, <3>1, <3>3
  <2>2. \A i \in 1 .. k : n[2 + i] = p[i]
    <3>1. ASSUME NEW i \in 1 .. k PROVE n[2 + i] = p[i]
      <4>1. 2 + i \in 1 .. k + 2 /\ d[2 + i] = p[i]
        BY <1>7 DEF NwJoins
      <4> QED BY <1>14, <4>1
    <3> QED BY <3>1
  <2>3. n[k + 3] = "_" /\ n[k + 4] = "VLAN" /\ n[k + 5] = "_"
    <3>1. k + 2 \in Nat /\ 3 \in Nat /\ 1 \in 1 .. 3 /\ 2 \in 1 .. 3 /\ 3 \in 1 .. 3
      OBVIOUS
    <3>2. k + 3 = (k + 2) + 1 /\ k + 4 = (k + 2) + 2 /\ k + 5 = (k + 2) + 3
      OBVIOUS
    <3>3. e[k + 3] = b[1]
      BY <1>8, <3>1, <3>2, NwJoinsAt
    <3>4. e[k + 4] = b[2]
      BY <1>8, <3>1, <3>2, NwJoinsAt
    <3>5. e[k + 5] = b[3]
      BY <1>8, <3>1, <3>2, NwJoinsAt
    <3>6. k + 3 \in 1 .. k + 5 /\ k + 4 \in 1 .. k + 5 /\ k + 5 \in 1 .. k + 5
      OBVIOUS
    <3>7. n[k + 3] = b[1] /\ n[k + 4] = b[2] /\ n[k + 5] = b[3]
      BY <1>13, <3>3, <3>4, <3>5, <3>6
    <3> QED BY <1>4, <3>7
  <2>4. \A i \in 1 .. l : n[k + 5 + i] = v[i]
    <3>1. ASSUME NEW i \in 1 .. l PROVE n[k + 5 + i] = v[i]
      <4>1. (k + 5) + i \in 1 .. k + l + 5 /\ f[(k + 5) + i] = v[i]
        BY <1>9 DEF NwJoins
      <4> QED BY <1>10, <4>1 DEF NwJoins
    <3> QED BY <3>1
  <2>5. n[k + l + 6] = "_" /\ n[k + l + 7] = m
    <3>1. k + l + 5 \in Nat /\ 2 \in Nat /\ 1 \in 1 .. 2 /\ 2 \in 1 .. 2
      OBVIOUS
    <3>2. k + l + 6 = (k + l + 5) + 1 /\ k + l + 7 = (k + l + 5) + 2
      OBVIOUS
    <3>3. n[k + l + 6] = c[1]
      BY <1>10, <3>1, <3>2, NwJoinsAt
    <3>4. n[k + l + 7] = c[2]
      BY <1>10, <3>1, <3>2, NwJoinsAt
    <3> QED BY <1>4, <3>3, <3>4
  <2>6. NwLaid(n, k, l, p, v, m)
    BY <2>1, <2>2, <2>3, <2>4, <2>5 DEF NwLaid
  <2> QED BY <1>5, <2>6 DEF NwSpells
<1> QED BY <1>1, <1>5, <1>11, <1>12, <1>15

LEMMA NwNameIs ==
    ASSUME MaxLength \in Nat, NEW s, NwIsSetting(s)
    PROVE  LET k == Len(Nets!Prefix(s.switch)) + Len(s.vlan) + 7 IN
           /\ Nets!Name(s) \in Seq(NwPieces) /\ Len(Nets!Name(s)) = k + Len(s.flags) + 2
           /\ Len(s.flags) \in Nat
           /\ NwSpells(Nets!Name(s), Nets!Prefix(s.switch), s.vlan, s.mode)
           /\ Nets!Name(s)[k + 1] = "_"
           /\ Nets!Name(s)[k + 2] = (IF s.exclusive THEN "E" ELSE "S")
           /\ \A i \in 1 .. Len(s.flags) :
                 Nets!Name(s)[k + 2 + i] = s.flags[i] /\ s.flags[i] \in {"F", "M", "P"}
<1>1. PICK p, v, g : p = Nets!Prefix(s.switch) /\ v = s.vlan /\ g = s.flags
  OBVIOUS
<1>2. PICK x : x = IF s.exclusive THEN "E" ELSE "S"
  OBVIOUS
<1>3. PICK o, a, d, n : o = Nets!OldName(s) /\ a = <<"_", x>> /\ d = o \o a /\ n = d \o g
  OBVIOUS
<1>4. Len(p) \in Nat /\ Len(v) \in Nat /\ NwIsVlan(s)
  BY <1>1, NwSizes DEF NwIsSetting
<1>5. PICK k \in Nat : k = Len(p) + Len(v) + 7
  BY <1>4
<1>6. /\ o \in Seq(NwPieces) /\ Len(o) = k /\ NwSpells(o, p, v, s.mode)
  BY <1>1, <1>3, <1>4, <1>5, NwOldNameIs
<1>7. a \in Seq(NwPieces) /\ Len(a) = 2 /\ a[1] = "_" /\ a[2] = x
  BY <1>2, <1>3, NwLetters, NwTwo
<1>8. PICK m : m = Len(g)
  OBVIOUS
<1>9. m \in Nat /\ g \in Seq(NwPieces) /\ \A i \in 1 .. m : g[i] \in {"F", "M", "P"}
  <2>1. g \in Seq({"F", "M", "P"})
    BY <1>1 DEF NwIsSetting
  <2>2. g \in Seq(NwPieces)
    BY <2>1, NwLetters, NwWider
  <2> QED BY <1>8, <2>1, <2>2, LenProperties, ElementOfSeq
<1>10. NwJoins(d, k, o, 2, a)
  BY <1>3, <1>6, <1>7, NwJoined
<1>11. NwJoins(n, k + 2, d, m, g)
  <2>1. d \in Seq(NwPieces) /\ Len(d) = k + 2
    BY <1>10 DEF NwJoins
  <2> QED BY <1>3, <1>8, <1>9, <2>1, NwJoined
<1>12. n = Nets!Name(s)
  BY <1>1, <1>2, <1>3 DEF Nets!Name
<1>13. n \in Seq(NwPieces) /\ Len(n) = k + m + 2
  BY <1>5, <1>9, <1>11 DEF NwJoins
<1>14. NwSpells(n, p, v, s.mode)
  <2>1. \A i \in 1 .. k : n[i] = o[i]
    BY <1>10, <1>11 DEF NwJoins
  <2>2. PICK kp \in Nat, l \in Nat : kp = Len(p) /\ l = Len(v)
    BY <1>4
  <2>3. /\ \A i \in 1 .. kp : 2 + i \in 1 .. k
        /\ \A i \in 1 .. l : kp + 5 + i \in 1 .. k
        /\ {1, 2, kp + 3, kp + 4, kp + 5, kp + l + 6, kp + l + 7} \subseteq 1 .. k
    BY <1>5, <2>2
  <2>4. NwLaid(o, kp, l, p, v, s.mode)
    BY <1>6, <2>2 DEF NwSpells
  <2>5. NwLaid(n, kp, l, p, v, s.mode)
    BY <2>1, <2>3, <2>4 DEF NwLaid
  <2> QED BY <2>2, <2>5 DEF NwSpells
<1>15. n[k + 1] = "_" /\ n[k + 2] = x
  <2>1. 2 \in Nat /\ 1 \in 1 .. 2 /\ 2 \in 1 .. 2 /\ k + 1 \in 1 .. k + 2 /\ k + 2 \in 1 .. k + 2
    OBVIOUS
  <2>2. d[k + 1] = a[1]
    BY <1>10, <2>1, NwJoinsAt
  <2>3. d[k + 2] = a[2]
    BY <1>10, <2>1, NwJoinsAt
  <2>4. \A i \in 1 .. k + 2 : n[i] = d[i]
    BY <1>11, NwJoinsBefore
  <2>5. n[k + 1] = d[k + 1]
    BY <2>1, <2>4
  <2>6. n[k + 2] = d[k + 2]
    BY <2>1, <2>4
  <2> QED BY <1>7, <2>2, <2>3, <2>5, <2>6
<1>16. \A i \in 1 .. m : n[k + 2 + i] = g[i]
  BY <1>11 DEF NwJoins
<1> QED BY <1>1, <1>2, <1>5, <1>8, <1>9, <1>12, <1>13, <1>14, <1>15, <1>16

-----------------------------------------------------------------------------
(* What is looked for in names.                                             *)
NwWithin(name, sought, i) == \A j \in 1 .. Len(sought) : name[i + j] = sought[j]

LEMMA NwContainsIs ==
    ASSUME NEW name \in Seq(NwPieces), NEW sought \in Seq(NwPieces)
    PROVE  Nets!Contains(name, sought)
              <=> \E i \in 0 .. Len(name) - Len(sought) : NwWithin(name, sought, i)
<1>1. Len(name) \in Nat /\ Len(sought) \in Nat
  BY LenProperties
<1>2. ASSUME NEW i \in 0 .. Len(name) - Len(sought)
      PROVE  SubSeq(name, i + 1, i + Len(sought)) = sought <=> NwWithin(name, sought, i)
  <2>1. PICK l \in Nat : l = Len(sought)
    BY <1>1
  <2>2. i + l <= Len(name) /\ i \in Nat
    BY <1>1, <2>1
  <2>3. PICK m, n : m = i + 1 /\ n = i + l
    OBVIOUS
  <2>4. m \in Int /\ n \in Int /\ \A j \in m .. n : name[j] \in NwPieces
    BY <1>1, <2>2, <2>3, ElementOfSeq
  <2>5. PICK w : w = SubSeq(name, m, n)
    OBVIOUS
  <2>6. /\ w \in Seq(NwPieces) /\ Len(w) = (IF m <= n THEN n - m + 1 ELSE 0)
        /\ \A j \in 1 .. n - m + 1 : w[j] = name[m + j - 1]
    BY <2>4, <2>5, SubSeqProperties, SMTT(20)
  <2>7. Len(w) = l
    BY <2>2, <2>3, <2>6
  <2>8. ASSUME NEW j \in 1 .. l PROVE w[j] = name[i + j]
    <3>1. j \in 1 .. n - m + 1 /\ m + j - 1 = i + j
      BY <2>2, <2>3
    <3> QED BY <2>6, <3>1
  <2>9. w = sought <=> \A j \in 1 .. l : w[j] = sought[j]
    BY <2>1, <2>6, <2>7, SeqEqual
  <2> QED BY <2>1, <2>3, <2>5, <2>8, <2>9 DEF NwWithin
<1> QED BY <1>2 DEF Nets!Contains

NwInner(p) == <<"_">> \o p \o <<"_", "VLAN">>
NwNeedle(s) == <<"_">> \o s.switch \o <<"_", "VLAN", "_">> \o s.vlan \o <<"_">>

LEMMA NwOne ==
    ASSUME NEW x \in NwPieces
    PROVE  <<x>> \in Seq(NwPieces) /\ Len(<<x>>) = 1 /\ <<x>>[1] = x
OBVIOUS

LEMMA NwInnerIs ==
    ASSUME NEW p \in Seq(NwPieces), NEW k \in Nat, k = Len(p)
    PROVE  /\ NwInner(p) \in Seq(NwPieces) /\ Len(NwInner(p)) = k + 3 /\ NwInner(p)[1] = "_"
           /\ \A i \in 1 .. k : NwInner(p)[1 + i] = p[i]
           /\ NwInner(p)[k + 2] = "_" /\ NwInner(p)[k + 3] = "VLAN"
<1>1. PICK a, b, d, n : a = <<"_">> /\ b = <<"_", "VLAN">> /\ d = a \o p /\ n = d \o b
  OBVIOUS
<1>2. /\ a \in Seq(NwPieces) /\ Len(a) = 1 /\ a[1] = "_"
      /\ b \in Seq(NwPieces) /\ Len(b) = 2 /\ b[1] = "_" /\ b[2] = "VLAN"
  BY <1>1, NwLetters, NwOne, NwTwo
<1>3. NwJoins(d, 1, a, k, p)
  BY <1>1, <1>2, NwJoined
<1>4. NwJoins(n, k + 1, d, 2, b)
  <2>1. d \in Seq(NwPieces) /\ Len(d) = k + 1
    BY <1>3 DEF NwJoins
  <2> QED BY <1>1, <1>2, <2>1, NwJoined
<1>5. n = NwInner(p)
  BY <1>1 DEF NwInner
<1>6. n \in Seq(NwPieces) /\ Len(n) = k + 3
  BY <1>4 DEF NwJoins
<1>7. \A i \in 1 .. k + 1 : n[i] = d[i]
  BY <1>4 DEF NwJoins
<1>8. n[1] = "_"
  <2>1. 1 \in 1 .. k + 1 /\ 1 \in 1 .. 1
    OBVIOUS
  <2>2. d[1] = a[1]
    BY <1>3, <2>1 DEF NwJoins
  <2>3. n[1] = d[1]
    BY <1>7, <2>1
  <2> QED BY <1>2, <2>2, <2>3
<1>9. ASSUME NEW i \in 1 .. k PROVE n[1 + i] = p[i]
  <2>1. 1 + i \in 1 .. k + 1 /\ d[1 + i] = p[i]
    BY <1>3 DEF NwJoins
  <2> QED BY <1>7, <2>1
<1>10. n[k + 2] = "_" /\ n[k + 3] = "VLAN"
  <2>1. /\ k + 1 \in Nat /\ 2 \in Nat /\ 1 \in 1 .. 2 /\ 2 \in 1 .. 2
        /\ k + 2 = (k + 1) + 1 /\ k + 3 = (k + 1) + 2
    OBVIOUS
  <2>2. n[k + 2] = b[1]
    BY <1>4, <2>1, NwJoinsAt
  <2>3. n[k + 3] = b[2]
    BY <1>4, <2>1, NwJoinsAt
  <2> QED BY <1>2, <2>2, <2>3
<1> QED BY <1>5, <1>6, <1>8, <1>9, <1>10

LEMMA NwNeedleIs ==
    ASSUME MaxLength \in Nat, NEW s, NwIsVlan(s)
    PROVE  LET k == Len(s.switch)
               l == Len(s.vlan)
           IN  /\ k \in Nat /\ l \in Nat /\ k >= 1
               /\ NwNeedle(s) \in Seq(NwPieces) /\ Len(NwNeedle(s)) = k + l + 5
               /\ \A i \in 1 .. k + 3 : NwNeedle(s)[i] = NwInner(s.switch)[i]
               /\ NwNeedle(s)[k + 4] = "_"
               /\ \A i \in 1 .. l : NwNeedle(s)[k + 4 + i] = s.vlan[i]
               /\ NwNeedle(s)[k + l + 5] = "_"
<1>0. PICK k \in Nat, l \in Nat : k = Len(s.switch) /\ l = Len(s.vlan) /\ k >= 1
  BY NwSizes
<1>1. PICK a, p, b, v, d, e, f, n :
        /\ a = <<"_">> /\ p = s.switch /\ b = <<"_", "VLAN", "_">> /\ v = s.vlan
        /\ d = a \o p /\ e = d \o b /\ f = e \o v /\ n = f \o a
  OBVIOUS
<1>2. /\ a \in Seq(NwPieces) /\ Len(a) = 1 /\ a[1] = "_"
      /\ b \in Seq(NwPieces) /\ Len(b) = 3 /\ b[1] = "_" /\ b[2] = "VLAN" /\ b[3] = "_"
  BY <1>1, NwLetters, NwOne, NwThree
<1>3. p \in Seq(NwPieces) /\ v \in Seq(NwPieces) /\ k = Len(p) /\ l = Len(v)
  BY <1>0, <1>1, NwSizes
<1>4. NwJoins(d, 1, a, k, p)
  BY <1>1, <1>2, <1>3, NwJoined
<1>5. NwJoins(e, k + 1, d, 3, b)
  <2>1. d \in Seq(NwPieces) /\ Len(d) = k + 1
    BY <1>4 DEF NwJoins
  <2> QED BY <1>1, <1>2, <2>1, NwJoined
<1>6. NwJoins(f, k + 4, e, l, v)
  <2>1. e \in Seq(NwPieces) /\ Len(e) = k + 4
    BY <1>5 DEF NwJoins
  <2> QED BY <1>1, <1>3, <2>1, NwJoined
<1>7. NwJoins(n, k + l + 4, f, 1, a)
  <2>1. f \in Seq(NwPieces) /\ Len(f) = k + l + 4
    BY <1>6 DEF NwJoins
  <2> QED BY <1>1, <1>2, <2>1, NwJoined
<1>8. n = NwNeedle(s)
  BY <1>1 DEF NwNeedle
<1>9. n \in Seq(NwPieces) /\ Len(n) = k + l + 5
  BY <1>7 DEF NwJoins
<1>10. \A i \in 1 .. k + 4 : n[i] = e[i]
  BY <1>6, <1>7 DEF NwJoins
<1>11. \A i \in 1 .. k + 1 : n[i] = d[i]
  BY <1>5, <1>10 DEF NwJoins
<1>12. n[k + 2] = "_" /\ n[k + 3] = "VLAN" /\ n[k + 4] = "_"
  <2>1. /\ k + 1 \in Nat /\ 3 \in Nat /\ 1 \in 1 .. 3 /\ 2 \in 1 .. 3 /\ 3 \in 1 .. 3
        /\ k + 2 = (k + 1) + 1 /\ k + 3 = (k + 1) + 2 /\ k + 4 = (k + 1) + 3
    OBVIOUS
  <2>2. e[k + 2] = b[1]
    BY <1>5, <2>1, NwJoinsAt
  <2>3. e[k + 3] = b[2]
    BY <1>5, <2>1, NwJoinsAt
  <2>4. e[k + 4] = b[3]
    BY <1>5, <2>1, NwJoinsAt
  <2>5. k + 2 \in 1 .. k + 4 /\ k + 3 \in 1 .. k + 4 /\ k + 4 \in 1 .. k + 4
    OBVIOUS
  <2> QED BY <1>2, <1>10, <2>2, <2>3, <2>4, <2>5
<1>13. ASSUME NEW i \in 1 .. l PROVE n[k + 4 + i] = v[i]
  <2>1. f[(k + 4) + i] = v[i] /\ (k + 4) + i \in 1 .. k + l + 4
    BY <1>6 DEF NwJoins
  <2> QED BY <1>7, <2>1 DEF NwJoins
<1>14. n[k + l + 5] = "_"
  <2>1. k + l + 4 \in Nat /\ 1 \in Nat /\ 1 \in 1 .. 1 /\ k + l + 5 = (k + l + 4) + 1
    OBVIOUS
  <2>2. n[k + l + 5] = a[1]
    BY <1>7, <2>1, NwJoinsAt
  <2> QED BY <1>2, <2>2
<1>15. ASSUME NEW i \in 1 .. k + 3 PROVE n[i] = NwInner(p)[i]
  <2>1. PICK h : h = NwInner(p)
    OBVIOUS
  <2>2. /\ h[1] = "_" /\ \A j \in 1 .. k : h[1 + j] = p[j]
        /\ h[k + 2] = "_" /\ h[k + 3] = "VLAN"
    BY <1>3, <2>1, NwInnerIs, ZenonT(40)
  <2>3. CASE i = 1
    <3>1. 1 \in 1 .. k + 1 /\ d[1] = a[1]
      BY <1>4 DEF NwJoins
    <3>2. n[1] = d[1]
      BY <1>11, <3>1
    <3> QED BY <1>2, <2>1, <2>2, <2>3, <3>1, <3>2
  <2>4. CASE i \in 2 .. k + 1
    <3>1. PICK j \in 1 .. k : i = 1 + j
      <4>1. i - 1 \in 1 .. k /\ i = 1 + (i - 1)
        BY <2>4
      <4> QED BY <4>1
    <3>2. d[1 + j] = p[j]
      BY <1>4, <3>1 DEF NwJoins
    <3>3. i \in 1 .. k + 1
      BY <2>4
    <3> QED BY <1>11, <2>1, <2>2, <3>1, <3>2, <3>3
  <2>5. CASE i = k + 2
    BY <1>12, <2>1, <2>2, <2>5
  <2>6. CASE i = k + 3
    BY <1>12, <2>1, <2>2, <2>6
  <2> QED BY <2>3, <2>4, <2>5, <2>6
<1> QED BY <1>0, <1>1, <1>8, <1>9, <1>12, <1>13, <1>14, <1>15

(* A name made for a switch whose name is not truncated is found.           *)
NwMade(n, s) ==
    /\ n \in Seq(NwPieces) /\ Len(n) >= Len(Nets!Prefix(s.switch)) + Len(s.vlan) + 7
    /\ NwSpells(n, Nets!Prefix(s.switch), s.vlan, s.mode)

LEMMA NwOldNameMade ==
    ASSUME MaxLength \in Nat, NEW s, NwIsVlan(s)
    PROVE  NwMade(Nets!OldName(s), s)
<1>1. PICK n : n = Nets!OldName(s)
  OBVIOUS
<1>2. /\ n \in Seq(NwPieces) /\ Len(n) = Len(Nets!Prefix(s.switch)) + Len(s.vlan) + 7
      /\ NwSpells(n, Nets!Prefix(s.switch), s.vlan, s.mode)
  BY <1>1, NwOldNameIs
<1>3. Len(Nets!Prefix(s.switch)) \in Nat /\ Len(s.vlan) \in Nat
  BY NwSizes
<1> QED BY <1>1, <1>2, <1>3 DEF NwMade

LEMMA NwNameMade ==
    ASSUME MaxLength \in Nat, NEW s, NwIsSetting(s)
    PROVE  NwMade(Nets!Name(s), s)
<1>1. PICK n, k : n = Nets!Name(s) /\ k = Len(Nets!Prefix(s.switch)) + Len(s.vlan) + 7
  OBVIOUS
<1>2. /\ n \in Seq(NwPieces) /\ Len(n) = k + Len(s.flags) + 2 /\ Len(s.flags) \in Nat
      /\ NwSpells(n, Nets!Prefix(s.switch), s.vlan, s.mode)
  BY <1>1, NwNameIs
<1>3. k \in Nat
  BY <1>1, NwSizes DEF NwIsSetting
<1>4. Len(n) >= k
  BY <1>2, <1>3
<1> QED BY <1>1, <1>2, <1>4 DEF NwMade

LEMMA NwSameVlanFound ==
    ASSUME MaxLength \in Nat, NEW s, NwIsVlan(s), Nets!Short(s), NEW t, NwIsVlan(t),
           Nets!SameVlanOf(s, t),
           NEW n, NwMade(n, t)
    PROVE  Nets!SameVlan(s, n)
<1>1. PICK k \in Nat, l \in Nat : k = Len(s.switch) /\ l = Len(s.vlan) /\ k >= 1
  BY NwSizes
<1>2. t.switch = s.switch /\ t.vlan = s.vlan /\ Nets!Prefix(s.switch) = s.switch
  BY NwSizes DEF Nets!SameVlanOf, Nets!Short
<1>3. PICK p, v, m : p = s.switch /\ v = s.vlan /\ m = t.mode
  OBVIOUS
<1>14. /\ n \in Seq(NwPieces) /\ Len(n) >= k + l + 7
       /\ NwLaid(n, k, l, p, v, m)
  BY <1>1, <1>2, <1>3 DEF NwMade, NwSpells
<1>4. /\ n \in Seq(NwPieces) /\ Len(n) >= k + l + 7
      /\ n[1] = "QS" /\ n[2] = "_" /\ \A i \in 1 .. k : n[2 + i] = p[i]
      /\ n[k + 3] = "_" /\ n[k + 4] = "VLAN" /\ n[k + 5] = "_"
      /\ \A i \in 1 .. l : n[k + 5 + i] = v[i]
      /\ n[k + l + 6] = "_"
  BY <1>14 DEF NwLaid
<1>15. Len(n) \in Nat /\ Len(n) >= k + l + 7
  BY <1>14, LenProperties
<1>5. PICK z \in Nat : z = Len(n) /\ z >= k + l + 7
  BY <1>15
<1>20. k >= 1 /\ z >= k + l + 7
  BY <1>1, <1>5
<1>16. z >= 7 /\ z >= k + 4 /\ k >= 1
  BY <1>20
<1>6. Nets!IsGenerated(n)
  <2>1. 1 \in 1 .. z - 4 /\ 1 + 1 = 2
    BY <1>16
  <2>2. PICK i, j : i = 1 /\ j = k + 4
    OBVIOUS
  <2>3. i + 4 = 5 /\ i + 1 = 2 /\ j - 1 = k + 3 /\ j \in 5 .. z /\ i \in 1 .. z - 4
    BY <1>16, <2>2
  <2>4. n[i] = "QS" /\ n[i + 1] = "_"
    BY <1>4, <2>2, <2>3
  <2>5. n[j - 1] = "_" /\ n[j] = "VLAN"
    BY <1>4, <2>2, <2>3
  <2>6. i \in 1 .. Len(n) - 4 /\ j \in i + 4 .. Len(n)
    BY <1>5, <2>3
  <2> QED BY <2>4, <2>5, <2>6 DEF Nets!IsGenerated
<1>7. PICK w, h : w = NwNeedle(s) /\ h = NwInner(p)
  OBVIOUS
<1>8. /\ w \in Seq(NwPieces) /\ Len(w) = k + l + 5
      /\ \A i \in 1 .. k + 3 : w[i] = h[i]
      /\ w[k + 4] = "_"
      /\ \A i \in 1 .. l : w[k + 4 + i] = v[i]
      /\ w[k + l + 5] = "_"
  BY <1>1, <1>3, <1>7, NwNeedleIs
<1>9. p \in Seq(NwPieces) /\ k = Len(p)
  BY <1>1, <1>3, NwSizes
<1>10. /\ h[1] = "_" /\ \A j \in 1 .. k : h[1 + j] = p[j]
       /\ h[k + 2] = "_" /\ h[k + 3] = "VLAN"
  BY <1>7, <1>9, NwInnerIs
<1>11. ASSUME NEW j \in 1 .. k + l + 5 PROVE n[1 + j] = w[j]
  <2>1. CASE j = 1
    <3>1. 1 \in 1 .. k + 3 /\ 1 + j = 2
      BY <2>1
    <3> QED BY <1>4, <1>8, <1>10, <2>1, <3>1
  <2>2. CASE j \in 2 .. k + 1
    <3>1. PICK i \in 1 .. k : j = 1 + i
      <4>1. j - 1 \in 1 .. k /\ j = 1 + (j - 1)
        BY <2>2
      <4> QED BY <4>1
    <3>2. 1 + j = 2 + i /\ j \in 1 .. k + 3
      BY <3>1
    <3>3. n[2 + i] = p[i] /\ h[1 + i] = p[i]
      BY <1>4, <1>10, <3>1
    <3> QED BY <1>8, <3>1, <3>2, <3>3
  <2>3. CASE j = k + 2
    <3>1. 1 + j = k + 3 /\ j \in 1 .. k + 3
      BY <2>3
    <3> QED BY <1>4, <1>8, <1>10, <2>3, <3>1
  <2>4. CASE j = k + 3
    <3>1. 1 + j = k + 4 /\ j \in 1 .. k + 3
      BY <2>4
    <3> QED BY <1>4, <1>8, <1>10, <2>4, <3>1
  <2>5. CASE j = k + 4
    <3>1. 1 + j = k + 5
      BY <2>5
    <3> QED BY <1>4, <1>8, <2>5, <3>1
  <2>6. CASE j \in k + 5 .. k + l + 4
    <3>1. PICK i \in 1 .. l : j = k + 4 + i
      <4>1. j - (k + 4) \in 1 .. l /\ j = k + 4 + (j - (k + 4))
        BY <2>6
      <4> QED BY <4>1
    <3>2. 1 + j = k + 5 + i
      BY <3>1
    <3> QED BY <1>4, <1>8, <3>1, <3>2
  <2>7. CASE j = k + l + 5
    <3>1. 1 + j = k + l + 6
      BY <2>7
    <3> QED BY <1>4, <1>8, <2>7, <3>1
  <2> QED BY <2>1, <2>2, <2>3, <2>4, <2>5, <2>6, <2>7
<1>21. Len(w) = k + l + 5
  BY <1>8
<1>17. PICK u \in Nat : u = Len(w) /\ u = k + l + 5
  BY <1>21
<1>18. 1 \in 0 .. z - u
  BY <1>5, <1>17
<1>19. \A j \in 1 .. u : n[1 + j] = w[j]
  BY <1>11, <1>17
<1>12. 1 \in 0 .. Len(n) - Len(w) /\ NwWithin(n, w, 1)
  BY <1>5, <1>17, <1>18, <1>19 DEF NwWithin
<1>13. Nets!Contains(n, w)
  BY <1>4, <1>8, <1>12, NwContainsIs
<1> QED BY <1>6, <1>7, <1>13 DEF Nets!SameVlan, NwNeedle

(* The same with names for the lengths: of the switch, the VLAN, the older  *)
(* name and the flags.                                                      *)
NwTotal(z, a, b, c) == z = a + b + c
NwSized(n, s, kp, l, k, g) ==
    /\ kp = Len(Nets!Prefix(s.switch)) /\ l = Len(s.vlan) /\ g = Len(s.flags)
    /\ NwTotal(k, kp, l, 7) /\ n \in Seq(NwPieces) /\ NwTotal(Len(n), k, g, 2)
NwEnds(n, s, k, g) ==
    /\ n[k + 1] = "_" /\ n[k + 2] = (IF s.exclusive THEN "E" ELSE "S")
    /\ \A i \in 1 .. g : n[k + 2 + i] = s.flags[i] /\ s.flags[i] \in {"F", "M", "P"}

LEMMA NwNameParts ==
    ASSUME MaxLength \in Nat, NEW s, NwIsSetting(s), NEW n, n = Nets!Name(s)
    PROVE  \E kp, l, k, g \in Nat :
              /\ NwSized(n, s, kp, l, k, g)
              /\ NwLaid(n, kp, l, Nets!Prefix(s.switch), s.vlan, s.mode)
              /\ NwEnds(n, s, k, g)
<1>1. PICK kp \in Nat, l \in Nat : kp = Len(Nets!Prefix(s.switch)) /\ l = Len(s.vlan)
  BY NwSizes DEF NwIsSetting
<1>7. NwIsVlan(s)
  BY DEF NwIsSetting
<1>8. kp + l + 7 = Len(Nets!Prefix(s.switch)) + Len(s.vlan) + 7
  BY <1>1
<1>2. PICK k \in Nat : k = kp + l + 7
  OBVIOUS
<1>9. k = Len(Nets!Prefix(s.switch)) + Len(s.vlan) + 7
  BY <1>2, <1>8
<1>10. PICK x : x = Len(Nets!Prefix(s.switch)) + Len(s.vlan) + 7
  OBVIOUS
<1>11. /\ n \in Seq(NwPieces) /\ Len(n) = x + Len(s.flags) + 2 /\ Len(s.flags) \in Nat
       /\ NwSpells(n, Nets!Prefix(s.switch), s.vlan, s.mode)
  BY <1>10, NwNameIs
<1>12. NwEnds(n, s, x, Len(s.flags))
  BY <1>10, NwNameIs DEF NwEnds
<1>13. k = x
  BY <1>9, <1>10
<1>4. PICK g \in Nat : g = Len(s.flags)
  BY <1>11
<1>5. NwLaid(n, kp, l, Nets!Prefix(s.switch), s.vlan, s.mode)
  BY <1>1, <1>11 DEF NwSpells
<1>14. NwSized(n, s, kp, l, k, g)
  BY <1>1, <1>2, <1>4, <1>11, <1>13 DEF NwSized, NwTotal
<1> QED BY <1>4, <1>5, <1>12, <1>13, <1>14

LEMMA NwExclusiveFound ==
    ASSUME MaxLength \in Nat, NEW s, NwIsSetting(s), s.exclusive
    PROVE  Nets!SaysExclusive(Nets!Name(s))
<1>1. PICK n, p, v, m : n = Nets!Name(s) /\ p = Nets!Prefix(s.switch) /\ v = s.vlan /\ m = s.mode
  OBVIOUS
<1>2. PICK kp \in Nat, l \in Nat, k \in Nat, g \in Nat :
        NwSized(n, s, kp, l, k, g) /\ NwLaid(n, kp, l, p, v, m) /\ NwEnds(n, s, k, g)
  BY <1>1, NwNameParts
<1>3. n[kp + l + 7] = m
  BY <1>2 DEF NwLaid
<1>15. k = kp + l + 7 /\ n \in Seq(NwPieces) /\ Len(n) = k + g + 2
  BY <1>2 DEF NwSized, NwTotal
<1>16. k = kp + l + 7
  BY <1>15
<1>4. n[k] = m
  BY <1>3, <1>16
<1>12. k >= 7
  BY <1>16
<1>17. n[k + 1] = "_" /\ n[k + 2] = "E"
  BY <1>2 DEF NwEnds
<1>5. m \in NwModes /\ m \in NwPieces
  BY <1>1, NwSizes DEF NwIsSetting
<1>6. PICK w : w = <<m, "_", "E">>
  OBVIOUS
<1>7. w \in Seq(NwPieces) /\ Len(w) = 3 /\ w[1] = m /\ w[2] = "_" /\ w[3] = "E"
  BY <1>5, <1>6, NwLetters, NwThree
<1>8. PICK i \in Nat : i = k - 1
  BY <1>12
<1>13. PICK z \in Nat : z = Len(n) /\ z = k + g + 2
  BY <1>15
<1>9. i + 1 = k /\ i + 2 = k + 1 /\ i + 3 = k + 2 /\ i \in 0 .. z - 3
  BY <1>8, <1>13
<1>10. \A j \in 1 .. 3 : n[i + j] = w[j]
  <2>1. n[i + 1] = w[1]
    BY <1>4, <1>7, <1>9
  <2>2. n[i + 2] = w[2]
    BY <1>17, <1>7, <1>9
  <2>3. n[i + 3] = w[3]
    BY <1>17, <1>7, <1>9
  <2>4. \A j \in 1 .. 3 : j = 1 \/ j = 2 \/ j = 3
    OBVIOUS
  <2> QED BY <2>1, <2>2, <2>3, <2>4
<1>14. n \in Seq(NwPieces) /\ i \in 0 .. Len(n) - Len(w) /\ NwWithin(n, w, i)
  BY <1>15, <1>7, <1>9, <1>10, <1>13 DEF NwWithin
<1>11. Nets!Contains(n, w)
  BY <1>7, <1>14, NwContainsIs
<1> QED BY <1>1, <1>5, <1>6, <1>11 DEF NwModes, Nets!SaysExclusive

-----------------------------------------------------------------------------
(* Names tell settings apart: the flags end them, and no "_" is in a VLAN.  *)
LEMMA NwVlanLetters ==
    ASSUME NEW v \in Seq(STRING \ {"_", "VLAN"}), NEW i \in 1 .. Len(v)
    PROVE  v[i] # "_" /\ v[i] # "VLAN"
<1>1. v[i] \in STRING \ {"_", "VLAN"}
  BY ElementOfSeq
<1> QED BY <1>1

LEMMA NwNotLonger ==
    ASSUME NEW n, NEW s, NEW t,
           NEW kp \in Nat, NEW l \in Nat, NEW k \in Nat, NEW g \in Nat,
           NEW kq \in Nat, NEW m \in Nat, NEW h \in Nat, NEW f \in Nat,
           NwSized(n, s, kp, l, k, g), NwEnds(n, s, k, g),
           NwSized(n, t, kq, m, h, f), NwEnds(n, t, h, f)
    PROVE  ~(k < h)
<1> SUFFICES ASSUME k < h PROVE FALSE
  OBVIOUS
<1>1. Len(n) = k + g + 2 /\ Len(n) = h + f + 2
  BY DEF NwSized, NwTotal
<1>2. PICK i \in 1 .. g : i = h - k
  <2>1. h - k \in 1 .. g
    BY <1>1
  <2> QED BY <2>1
<1>3. h + 2 = k + 2 + i
  BY <1>2
<1>4. n[k + 2 + i] \in {"F", "M", "P"}
  BY <1>2 DEF NwEnds
<1>5. n[h + 2] \in {"E", "S"}
  BY DEF NwEnds
<1> QED BY <1>3, <1>4, <1>5

NwLevel(a, b, c, d) == a + b = c + d
NwLess(a, b) == a < b

LEMMA NwGap ==
    ASSUME NEW a \in Nat, NEW b \in Nat, NEW c \in Nat, NEW d \in Nat,
           NwLevel(a, b, c, d), NwLess(a, c)
    PROVE  \E i \in 1 .. b : c + 5 = a + 5 + i
<1>1. c - a \in 1 .. b /\ c + 5 = a + 5 + (c - a)
  BY DEF NwLevel, NwLess
<1> QED BY <1>1

LEMMA NwSameRest ==
    ASSUME NEW z, NEW k \in Nat, NEW g \in Nat, NEW f \in Nat, NEW c \in Nat,
           NwTotal(z, k, g, c), NwTotal(z, k, f, c)
    PROVE  g = f
BY DEF NwTotal

LEMMA NwLevels ==
    ASSUME NEW k \in Nat, NEW l \in Nat, NEW m \in Nat, NEW kp \in Nat, NEW kq \in Nat,
           NEW c \in Nat, NwTotal(k, kp, l, c), NwTotal(k, kq, m, c)
    PROVE  NwLevel(kp, l, kq, m) /\ NwLevel(kq, m, kp, l)
BY DEF NwLevel, NwTotal

LEMMA NwLeveled ==
    ASSUME NEW l \in Nat, NEW m \in Nat, NEW kp \in Nat, NEW kq \in Nat,
           NwLevel(kp, l, kq, m), ~NwLess(kp, kq), ~NwLess(kq, kp)
    PROVE  kp = kq /\ l = m
BY DEF NwLevel, NwLess

LEMMA NwNotWider ==
    ASSUME NEW n, NEW p, NEW q, NEW v \in Seq(STRING \ {"_", "VLAN"}), NEW w, NEW x, NEW y,
           NEW kp \in Nat, NEW l \in Nat, NEW kq \in Nat, NEW m \in Nat,
           l = Len(v), NwLevel(kp, l, kq, m), NwLaid(n, kp, l, p, v, x), NwLaid(n, kq, m, q, w, y)
    PROVE  ~NwLess(kp, kq)
<1> SUFFICES ASSUME NwLess(kp, kq) PROVE FALSE
  OBVIOUS
<1>1. PICK i \in 1 .. l : kq + 5 = kp + 5 + i
  BY NwGap, ZenonT(40)
<1>2. kq + 5 = kp + 5 + i
  BY <1>1
<1>3. n[kp + 5 + i] = v[i]
  BY <1>1 DEF NwLaid
<1>4. n[kq + 5] = "_"
  BY DEF NwLaid
<1>5. v[i] # "_"
  BY <1>1, NwVlanLetters
<1> QED BY <1>2, <1>3, <1>4, <1>5

LEMMA NwNamesTell ==
    ASSUME MaxLength \in Nat, NEW s, NwIsSetting(s), NEW t, NwIsSetting(t),
           Nets!Name(s) = Nets!Name(t)
    PROVE  /\ Nets!Prefix(s.switch) = Nets!Prefix(t.switch) /\ s.vlan = t.vlan /\ s.mode = t.mode
           /\ s.exclusive = t.exclusive /\ s.flags = t.flags
<1>1. PICK n : n = Nets!Name(s) /\ n = Nets!Name(t)
  OBVIOUS
<1>2. PICK kp \in Nat, l \in Nat, k \in Nat, g \in Nat :
        /\ NwSized(n, s, kp, l, k, g) /\ NwLaid(n, kp, l, Nets!Prefix(s.switch), s.vlan, s.mode)
        /\ NwEnds(n, s, k, g)
  BY <1>1, NwNameParts
<1>3. PICK kq \in Nat, m \in Nat, h \in Nat, f \in Nat :
        /\ NwSized(n, t, kq, m, h, f) /\ NwLaid(n, kq, m, Nets!Prefix(t.switch), t.vlan, t.mode)
        /\ NwEnds(n, t, h, f)
  BY <1>1, NwNameParts
<1>4. ~(k < h)
  BY <1>2, <1>3, NwNotLonger
<1>5. ~(h < k)
  BY <1>2, <1>3, NwNotLonger
<1>6. k = h
  BY <1>4, <1>5
<1>7. /\ kp = Len(Nets!Prefix(s.switch)) /\ kq = Len(Nets!Prefix(t.switch))
      /\ l = Len(s.vlan) /\ m = Len(t.vlan) /\ g = Len(s.flags) /\ f = Len(t.flags)
  BY <1>2, <1>3 DEF NwSized, NwTotal
<1>23. /\ NwTotal(Len(n), k, g, 2) /\ NwTotal(Len(n), h, f, 2)
       /\ NwTotal(k, kp, l, 7) /\ NwTotal(h, kq, m, 7)
  BY <1>2, <1>3 DEF NwSized
<1>24. NwTotal(Len(n), k, f, 2) /\ NwTotal(k, kq, m, 7)
  BY <1>6, <1>23
<1>25. g = f
  BY <1>23, <1>24, NwSameRest
<1>26. NwLevel(kp, l, kq, m) /\ NwLevel(kq, m, kp, l)
  BY <1>23, <1>24, NwLevels
<1>8. g = f /\ NwLevel(kp, l, kq, m) /\ NwLevel(kq, m, kp, l)
  BY <1>25, <1>26
<1>9. s.vlan \in Seq(STRING \ {"_", "VLAN"}) /\ t.vlan \in Seq(STRING \ {"_", "VLAN"})
  BY DEF NwIsSetting, NwIsVlan, Nets!AboutVlan
<1>10. ~NwLess(kp, kq)
  BY <1>2, <1>3, <1>7, <1>8, <1>9, NwNotWider
<1>11. ~NwLess(kq, kp)
  BY <1>2, <1>3, <1>7, <1>8, <1>9, NwNotWider
<1>12. kp = kq /\ l = m
  BY <1>8, <1>10, <1>11, NwLeveled
<1>13. Nets!Prefix(s.switch) \in Seq(NwPieces) /\ Nets!Prefix(t.switch) \in Seq(NwPieces)
  BY NwSizes DEF NwIsSetting
<1>14. \A i \in 1 .. kp : Nets!Prefix(s.switch)[i] = Nets!Prefix(t.switch)[i]
  <2>1. \A i \in 1 .. kp : n[2 + i] = Nets!Prefix(s.switch)[i]
    BY <1>2 DEF NwLaid
  <2>2. \A i \in 1 .. kp : n[2 + i] = Nets!Prefix(t.switch)[i]
    BY <1>3, <1>12 DEF NwLaid
  <2> QED BY <2>1, <2>2
<1>15. Nets!Prefix(s.switch) = Nets!Prefix(t.switch)
  BY <1>7, <1>12, <1>13, <1>14, SeqEqual
<1>16. \A i \in 1 .. l : s.vlan[i] = t.vlan[i]
  <2>1. \A i \in 1 .. l : n[kp + 5 + i] = s.vlan[i]
    BY <1>2 DEF NwLaid
  <2>2. \A i \in 1 .. l : n[kp + 5 + i] = t.vlan[i]
    BY <1>3, <1>12 DEF NwLaid
  <2> QED BY <2>1, <2>2
<1>17. s.vlan = t.vlan
  BY <1>7, <1>9, <1>12, <1>16, SeqEqual
<1>18. s.mode = t.mode
  <2>1. n[kp + l + 7] = s.mode
    BY <1>2 DEF NwLaid
  <2>2. n[kp + l + 7] = t.mode
    BY <1>3, <1>12 DEF NwLaid
  <2> QED BY <2>1, <2>2
<1>19. s.exclusive = t.exclusive
  <2>1. n[k + 2] = (IF s.exclusive THEN "E" ELSE "S")
    BY <1>2 DEF NwEnds
  <2>2. n[k + 2] = (IF t.exclusive THEN "E" ELSE "S")
    BY <1>3, <1>6 DEF NwEnds
  <2>3. s.exclusive \in BOOLEAN /\ t.exclusive \in BOOLEAN
    BY DEF NwIsSetting, NwIsVlan, Nets!AboutVlan
  <2> QED BY <2>1, <2>2, <2>3
<1>20. \A i \in 1 .. g : s.flags[i] = t.flags[i]
  <2>1. \A i \in 1 .. g : n[k + 2 + i] = s.flags[i]
    BY <1>2 DEF NwEnds
  <2>2. \A i \in 1 .. g : n[k + 2 + i] = t.flags[i]
    BY <1>3, <1>6, <1>8 DEF NwEnds
  <2> QED BY <2>1, <2>2
<1>21. s.flags \in Seq({"F", "M", "P"}) /\ t.flags \in Seq({"F", "M", "P"})
  BY DEF NwIsSetting
<1>22. s.flags = t.flags
  BY <1>7, <1>8, <1>20, <1>21, SeqEqual
<1> QED BY <1>15, <1>17, <1>18, <1>19, <1>22

(* A name ends with its flags, an older one with the mode.                  *)
LEMMA NwLastPiece ==
    ASSUME NEW n, NEW s, NEW kp \in Nat, NEW l \in Nat, NEW k \in Nat, NEW g \in Nat,
           NwSized(n, s, kp, l, k, g), NwEnds(n, s, k, g), NEW z, z = Len(n)
    PROVE  n[z] \in {"E", "S", "F", "M", "P"}
<1>1. z = k + 2 + g
  <2>1. NwTotal(Len(n), k, g, 2)
    BY DEF NwSized
  <2>2. Len(n) = k + g + 2
    BY <2>1 DEF NwTotal
  <2> QED BY <2>2
<1>2. CASE g = 0
  <2>1. z = k + 2
    BY <1>1, <1>2
  <2>2. n[k + 2] \in {"E", "S"}
    BY DEF NwEnds
  <2> QED BY <2>1, <2>2
<1>3. CASE g > 0
  <2>1. g \in 1 .. g
    BY <1>3
  <2>2. n[k + 2 + g] \in {"F", "M", "P"}
    BY <2>1 DEF NwEnds
  <2> QED BY <1>1, <2>2
<1> QED BY <1>2, <1>3

LEMMA NwOldIsOther ==
    ASSUME MaxLength \in Nat, NEW s, NwIsSetting(s), NEW t, NwIsVlan(t)
    PROVE  Nets!Name(s) # Nets!OldName(t)
<1> SUFFICES ASSUME Nets!Name(s) = Nets!OldName(t) PROVE FALSE
  OBVIOUS
<1>1. PICK n : n = Nets!Name(s) /\ n = Nets!OldName(t)
  OBVIOUS
<1>2. PICK kp \in Nat, l \in Nat, k \in Nat, g \in Nat :
        NwSized(n, s, kp, l, k, g) /\ NwEnds(n, s, k, g)
  BY <1>1, NwNameParts
<1>3. PICK z : z = Len(n)
  OBVIOUS
<1>4. n[z] \in {"E", "S", "F", "M", "P"}
  BY <1>2, <1>3, NwLastPiece
<1>5. PICK kq \in Nat, m \in Nat : kq = Len(Nets!Prefix(t.switch)) /\ m = Len(t.vlan)
  BY NwSizes
<1>6. /\ z = Len(Nets!Prefix(t.switch)) + Len(t.vlan) + 7
      /\ NwSpells(n, Nets!Prefix(t.switch), t.vlan, t.mode)
  BY <1>1, <1>3, NwOldNameIs
<1>7. NwLaid(n, kq, m, Nets!Prefix(t.switch), t.vlan, t.mode)
  BY <1>5, <1>6 DEF NwSpells
<1>8. n[kq + m + 7] = t.mode
  BY <1>7 DEF NwLaid
<1>9. z = kq + m + 7
  BY <1>5, <1>6
<1>10. t.mode \in {"Access", "Trunk"}
  BY DEF NwIsVlan, Nets!AboutVlan
<1> QED BY <1>4, <1>8, <1>9, <1>10

(* After the switch there is one "VLAN", and no "E" in a shared one's name. *)
LEMMA NwAfterwards ==
    ASSUME NEW n, NEW s, NwIsSetting(s), NEW p, NEW x,
           NEW kp \in Nat, NEW l \in Nat, NEW k \in Nat, NEW g \in Nat,
           NwSized(n, s, kp, l, k, g), NwLaid(n, kp, l, p, s.vlan, s.mode), NwEnds(n, s, k, g),
           NEW z \in Nat, z = Len(n), x \in kp + 5 .. z
    PROVE  /\ n[x] # "VLAN"
           /\ n[x] = "E" /\ ~s.exclusive => x \in kp + 6 .. kp + l + 5
<1>1. x \in Nat /\ x >= kp + 5 /\ x <= k + g + 2 /\ k = kp + l + 7
  <2>1. z = k + g + 2 /\ k = kp + l + 7
    BY DEF NwSized, NwTotal
  <2> QED BY <2>1
<1>2. s.mode \in {"Access", "Trunk"} /\ s.vlan \in Seq(STRING \ {"_", "VLAN"}) /\ l = Len(s.vlan)
  BY DEF NwIsSetting, NwIsVlan, Nets!AboutVlan, NwSized
<1>3. CASE x = kp + 5
  <2>1. n[kp + 5] = "_"
    BY DEF NwLaid
  <2> QED BY <1>3, <2>1
<1>4. CASE x \in kp + 6 .. kp + l + 5
  <2>1. PICK i \in 1 .. l : x = kp + 5 + i
    <3>1. x - (kp + 5) \in 1 .. l /\ x = kp + 5 + (x - (kp + 5))
      BY <1>4
    <3> QED BY <3>1
  <2>2. n[kp + 5 + i] = s.vlan[i]
    BY <2>1 DEF NwLaid
  <2>3. s.vlan[i] # "VLAN"
    BY <1>2, <2>1, NwVlanLetters
  <2> QED BY <1>4, <2>1, <2>2, <2>3
<1>5. CASE x = kp + l + 6
  <2>1. n[kp + l + 6] = "_"
    BY DEF NwLaid
  <2> QED BY <1>5, <2>1
<1>6. CASE x = kp + l + 7
  <2>1. n[kp + l + 7] = s.mode
    BY DEF NwLaid
  <2> QED BY <1>2, <1>6, <2>1
<1>7. CASE x = k + 1
  <2>1. n[k + 1] = "_"
    BY DEF NwEnds
  <2> QED BY <1>7, <2>1
<1>8. CASE x = k + 2
  <2>1. n[k + 2] = (IF s.exclusive THEN "E" ELSE "S")
    BY DEF NwEnds
  <2> QED BY <1>8, <2>1
<1>9. CASE x > k + 2
  <2>1. PICK i \in 1 .. g : x = k + 2 + i
    <3>1. x - (k + 2) \in 1 .. g /\ x = k + 2 + (x - (k + 2))
      BY <1>1, <1>9
    <3> QED BY <3>1
  <2>2. n[k + 2 + i] \in {"F", "M", "P"}
    BY <2>1 DEF NwEnds
  <2> QED BY <2>1, <2>2
<1>10. \/ x = kp + 5 \/ x \in kp + 6 .. kp + l + 5 \/ x = kp + l + 6 \/ x = kp + l + 7
       \/ x = k + 1 \/ x = k + 2 \/ x > k + 2
  BY <1>1
<1> QED BY <1>3, <1>4, <1>5, <1>6, <1>7, <1>8, <1>9, <1>10

(* The switch's part of a name is what is looked in.                        *)
LEMMA NwInnerWithin ==
    ASSUME NEW p \in Seq(NwPieces), NEW k \in Nat, k = Len(p), NEW n, NEW l, NEW v, NEW m,
           NwLaid(n, k, l, p, v, m), NEW x \in 1 .. k + 3
    PROVE  NwInner(p)[x] = n[x + 1]
<1>1. PICK h : h = NwInner(p)
  OBVIOUS
<1>2. /\ h[1] = "_" /\ \A j \in 1 .. k : h[1 + j] = p[j]
      /\ h[k + 2] = "_" /\ h[k + 3] = "VLAN"
  BY <1>1, NwInnerIs
<1>3. /\ n[2] = "_" /\ \A i \in 1 .. k : n[2 + i] = p[i]
      /\ n[k + 3] = "_" /\ n[k + 4] = "VLAN"
  BY DEF NwLaid
<1>4. CASE x = 1
  <2>1. x + 1 = 2
    BY <1>4
  <2> QED BY <1>1, <1>2, <1>3, <1>4, <2>1
<1>5. CASE x \in 2 .. k + 1
  <2>1. PICK j \in 1 .. k : x = 1 + j
    <3>1. x - 1 \in 1 .. k /\ x = 1 + (x - 1)
      BY <1>5
    <3> QED BY <3>1
  <2>2. x + 1 = 2 + j
    BY <2>1
  <2> QED BY <1>1, <1>2, <1>3, <2>1, <2>2
<1>6. CASE x = k + 2
  <2>1. x + 1 = k + 3
    BY <1>6
  <2> QED BY <1>1, <1>2, <1>3, <1>6, <2>1
<1>7. CASE x = k + 3
  <2>1. x + 1 = k + 4
    BY <1>7
  <2> QED BY <1>1, <1>2, <1>3, <1>7, <2>1
<1> QED BY <1>4, <1>5, <1>6, <1>7

NwAfter(d, c, i) == d = c + i

LEMMA NwOneMore ==
    ASSUME NEW m \in Nat, NEW l \in Nat, NwLess(m, l), NEW c \in Nat, NEW d \in Nat,
           NwTotal(d, c, m, 1)
    PROVE  \E i \in 1 .. l : NwAfter(d, c, i)
<1>1. m + 1 \in 1 .. l /\ c + (m + 1) = d
  BY DEF NwLess, NwTotal
<1> QED BY <1>1 DEF NwAfter

NwReads(n, c, l, v) == \A i \in 1 .. l : n[c + i] = v[i]

LEMMA NwSameEnd ==
    ASSUME NEW n, NEW v \in Seq(STRING \ {"_", "VLAN"}), NEW l \in Nat, l = Len(v),
           NEW c \in Nat, NwReads(n, c, l, v), NEW m \in Nat,
           NEW d \in Nat, NwTotal(d, c, m, 1), n[d] = "_"
    PROVE  ~NwLess(m, l)
<1> SUFFICES ASSUME NwLess(m, l) PROVE FALSE
  OBVIOUS
<1>5. PICK i \in 1 .. l : NwAfter(d, c, i)
  BY NwOneMore
<1>1. c + i = d
  BY <1>5 DEF NwAfter
<1>2. v[i] # "_"
  BY <1>5, NwVlanLetters
<1>3. n[c + i] = v[i]
  BY <1>5 DEF NwReads
<1> QED BY <1>1, <1>2, <1>3

LEMMA NwFoundFor ==
    ASSUME MaxLength \in Nat, NEW q, NwIsSetting(q), NEW t, NwIsSetting(t),
           Nets!SameVlan(q, Nets!Name(t))
    PROVE  Nets!SameVlanOf(q, t) \/ Nets!Mistaken(t, q)
<1>1. PICK n, p, w, h, e :
        /\ n = Nets!Name(t) /\ p = Nets!Prefix(t.switch) /\ w = NwNeedle(q)
        /\ h = NwInner(p) /\ e = NwInner(q.switch)
  OBVIOUS
<1>2. PICK kt \in Nat, l \in Nat, k \in Nat, g \in Nat :
        NwSized(n, t, kt, l, k, g) /\ NwLaid(n, kt, l, p, t.vlan, t.mode) /\ NwEnds(n, t, k, g)
  BY <1>1, NwNameParts
<1>3. NwIsVlan(q) /\ NwIsVlan(t)
  BY DEF NwIsSetting
<1>4. PICK kq \in Nat, m \in Nat : kq = Len(q.switch) /\ m = Len(q.vlan) /\ kq >= 1
  BY <1>3, NwSizes
<1>5. w \in Seq(NwPieces) /\ Len(w) = kq + m + 5
  BY <1>1, <1>3, <1>4, NwNeedleIs
<1>6. /\ \A i \in 1 .. kq + 3 : w[i] = e[i]
      /\ \A i \in 1 .. m : w[kq + 4 + i] = q.vlan[i]
      /\ w[kq + m + 5] = "_"
  BY <1>1, <1>3, <1>4, NwNeedleIs
<1>7. n \in Seq(NwPieces) /\ kt = Len(p) /\ l = Len(t.vlan)
  BY <1>1, <1>2 DEF NwSized
<1>8. PICK z \in Nat, y \in Nat : z = Len(n) /\ y = Len(w) /\ y = kq + m + 5
  <2>1. Len(n) \in Nat
    BY <1>7, LenProperties
  <2>2. Len(w) \in Nat
    BY <1>5, LenProperties
  <2> QED BY <1>5, <2>1, <2>2
<1>9. PICK i \in 0 .. z - y : \A j \in 1 .. y : n[i + j] = w[j]
  <2>1. Nets!Contains(n, w)
    BY <1>1 DEF Nets!SameVlan, NwNeedle
  <2>2. PICK i \in 0 .. Len(n) - Len(w) : NwWithin(n, w, i)
    BY <1>5, <1>7, <2>1, NwContainsIs
  <2>3. i \in 0 .. z - y
    BY <1>8, <2>2
  <2> QED BY <1>8, <2>2, <2>3 DEF NwWithin
<1>10. p \in Seq(NwPieces) /\ q.switch \in Seq(NwPieces)
  BY <1>1, <1>3, NwSizes
<1>11. e[1] = "_" /\ e[kq + 3] = "VLAN" /\ e \in Seq(NwPieces) /\ Len(e) = kq + 3
  BY <1>1, <1>4, <1>10, NwInnerIs
<1>12. h \in Seq(NwPieces) /\ Len(h) = kt + 3
  BY <1>1, <1>7, <1>10, NwInnerIs
<1>13. y >= kq + 3 /\ y >= 1 /\ i \in Nat /\ i <= z - y
  BY <1>8, <1>9
<1>14. i >= 1
  <2> SUFFICES ASSUME i = 0 PROVE FALSE
    BY <1>13
  <2>1. 1 \in 1 .. y /\ 1 \in 1 .. kq + 3 /\ i + 1 = 1
    BY <1>13
  <2>2. n[i + 1] = w[1] /\ w[1] = e[1]
    BY <1>6, <1>9, <2>1
  <2>3. n[1] = "QS"
    BY <1>2 DEF NwLaid
  <2> QED BY <1>11, <2>1, <2>2, <2>3
<1>15. PICK x \in Nat : x = i + (kq + 3)
  BY <1>13
<1>16. n[x] = "VLAN"
  <2>1. kq + 3 \in 1 .. y /\ kq + 3 \in 1 .. kq + 3
    BY <1>13
  <2>2. n[i + (kq + 3)] = w[kq + 3] /\ w[kq + 3] = e[kq + 3]
    BY <1>6, <1>9, <2>1
  <2> QED BY <1>11, <1>15, <2>2
<1>17. x <= kt + 4
  <2> SUFFICES ASSUME ~(x <= kt + 4) PROVE FALSE
    OBVIOUS
  <2>1. x \in kt + 5 .. z
    BY <1>13, <1>15
  <2>2. n[x] # "VLAN"
    BY <1>2, <1>8, <2>1, NwAfterwards
  <2> QED BY <1>16, <2>2
<1>18. PICK c \in Nat : c = i - 1
  BY <1>13, <1>14
<1>19. c \in 0 .. (kt + 3) - (kq + 3)
  BY <1>15, <1>17, <1>18
<1>20. ASSUME NEW j \in 1 .. kq + 3 PROVE h[c + j] = e[j]
  <2>1. c + j \in 1 .. kt + 3 /\ (c + j) + 1 = i + j /\ j \in 1 .. y
    BY <1>13, <1>18, <1>19
  <2>4. PICK b \in 1 .. kt + 3 : b = c + j
    BY <2>1
  <2>5. h[b] = n[b + 1]
    BY <1>1, <1>2, <1>7, <1>10, NwInnerWithin
  <2>2. h[c + j] = n[(c + j) + 1]
    BY <2>4, <2>5
  <2>3. n[i + j] = w[j] /\ w[j] = e[j]
    BY <1>6, <1>9, <2>1
  <2> QED BY <2>1, <2>2, <2>3
<1>21. c \in 0 .. Len(h) - Len(e)
  <2>1. Len(h) = kt + 3 /\ Len(e) = kq + 3
    BY <1>11, <1>12
  <2> QED BY <1>19, <2>1
<1>22. NwWithin(h, e, c)
  <2>1. Len(e) = kq + 3
    BY <1>11
  <2> QED BY <1>20, <2>1 DEF NwWithin
<1>23. Nets!Contains(h, e)
  BY <1>11, <1>12, <1>21, <1>22, NwContainsIs
<1>24. CASE t.switch # q.switch
  BY <1>1, <1>23, <1>24 DEF Nets!Mistaken, NwInner
<1>25. CASE t.switch = q.switch
  <2>1. kt <= kq
    BY <1>1, <1>3, <1>4, <1>7, <1>25, NwSizes
  <2>2. i = 1 /\ kt = kq
    BY <1>18, <1>19, <2>1
  <2>3. q.vlan \in Seq(STRING \ {"_", "VLAN"}) /\ t.vlan \in Seq(STRING \ {"_", "VLAN"})
    BY <1>3 DEF NwIsVlan, Nets!AboutVlan
  <2>4. \A j \in 1 .. l : n[kt + 5 + j] = t.vlan[j]
    BY <1>2 DEF NwLaid
  <2>5. ASSUME NEW j \in 1 .. m PROVE n[kt + 5 + j] = q.vlan[j]
    <3>1. kq + 4 + j \in 1 .. y /\ i + (kq + 4 + j) = kt + 5 + j
      BY <1>8, <2>2
    <3>2. n[i + (kq + 4 + j)] = w[kq + 4 + j]
      BY <1>9, <3>1
    <3> QED BY <1>6, <3>1, <3>2
  <2>6. n[(kt + 5) + l + 1] = "_"
    <3>1. (kt + 5) + l + 1 = kt + l + 6
      OBVIOUS
    <3>2. n[kt + l + 6] = "_"
      BY <1>2 DEF NwLaid
    <3> QED BY <3>1, <3>2
  <2>7. n[(kt + 5) + m + 1] = "_"
    <3>1. kq + m + 5 \in 1 .. y /\ i + (kq + m + 5) = (kt + 5) + m + 1
      BY <1>8, <2>2
    <3>2. n[i + (kq + m + 5)] = w[kq + m + 5]
      BY <1>9, <3>1
    <3> QED BY <1>6, <3>1, <3>2
  <2>8. PICK d \in Nat : d = kt + 5
    OBVIOUS
  <2>9. ~NwLess(m, l)
    <3>1. NwReads(n, d, l, t.vlan)
      BY <2>4, <2>8 DEF NwReads
    <3>2. PICK b \in Nat : b = d + m + 1
      OBVIOUS
    <3>3. b = (kt + 5) + m + 1
      BY <2>8, <3>2
    <3>4. n[b] = "_"
      BY <2>7, <3>3
    <3>5. NwTotal(b, d, m, 1)
      BY <3>2 DEF NwTotal
    <3> QED BY <1>7, <2>3, <3>1, <3>4, <3>5, NwSameEnd
  <2>10. ~NwLess(l, m)
    <3>1. NwReads(n, d, m, q.vlan)
      BY <2>5, <2>8 DEF NwReads
    <3>2. PICK b \in Nat : b = d + l + 1
      OBVIOUS
    <3>3. b = (kt + 5) + l + 1
      BY <2>8, <3>2
    <3>4. n[b] = "_"
      BY <2>6, <3>3
    <3>5. NwTotal(b, d, l, 1)
      BY <3>2 DEF NwTotal
    <3> QED BY <1>4, <2>3, <3>1, <3>4, <3>5, NwSameEnd
  <2>11. l = m
    BY <2>9, <2>10 DEF NwLess
  <2>12. \A j \in 1 .. l : q.vlan[j] = t.vlan[j]
    BY <2>4, <2>5, <2>11
  <2>13. q.vlan = t.vlan
    BY <1>4, <1>7, <2>3, <2>11, <2>12, SeqEqual
  <2> QED BY <1>25, <2>13 DEF Nets!SameVlanOf
<1> QED BY <1>24, <1>25

LEMMA NwBeginning ==
    ASSUME MaxLength \in Nat, NEW e \in Seq(STRING), NEW j \in 1 .. Len(Nets!Prefix(e))
    PROVE  Nets!Prefix(e)[j] = e[j] /\ Len(Nets!Prefix(e)) <= Len(e)
<1>1. PICK l \in Nat : l = Len(e)
  BY LenProperties
<1>2. PICK m \in Nat : m = (IF Len(e) < MaxLength THEN Len(e) ELSE MaxLength) /\ m <= l
  BY <1>1
<1>3. \A i \in 1 .. m : e[i] \in STRING
  BY <1>1, <1>2, ElementOfSeq
<1>4. /\ Len(SubSeq(e, 1, m)) = IF 1 <= m THEN m - 1 + 1 ELSE 0
      /\ \A i \in 1 .. m - 1 + 1 : SubSeq(e, 1, m)[i] = e[1 + i - 1]
  BY <1>3, SubSeqProperties
<1>5. PICK p : p = Nets!Prefix(e) /\ p = SubSeq(e, 1, m)
  BY <1>2 DEF Nets!Prefix
<1>6. Len(p) = m
  <2>1. Len(p) = IF 1 <= m THEN m - 1 + 1 ELSE 0
    BY <1>4, <1>5
  <2> QED BY <2>1
<1>7. j \in 1 .. m - 1 + 1 /\ 1 + j - 1 = j
  BY <1>5, <1>6
<1>8. p[j] = e[j]
  BY <1>4, <1>5, <1>7
<1> QED BY <1>1, <1>2, <1>5, <1>6, <1>8

NwMark(mode) == <<mode, "_", "E">>

LEMMA NwNoOtherMode ==
    ASSUME MaxLength \in Nat, NEW s, NwIsSetting(s), ~s.exclusive, NEW m \in {"Access", "Trunk"}
    PROVE  ~Nets!Contains(Nets!Name(s), NwMark(m))
<1> SUFFICES ASSUME Nets!Contains(Nets!Name(s), NwMark(m)) PROVE FALSE
  OBVIOUS
<1>1. PICK n, p, w : n = Nets!Name(s) /\ p = Nets!Prefix(s.switch) /\ w = NwMark(m)
  OBVIOUS
<1>2. PICK kp \in Nat, l \in Nat, k \in Nat, g \in Nat :
        NwSized(n, s, kp, l, k, g) /\ NwLaid(n, kp, l, p, s.vlan, s.mode) /\ NwEnds(n, s, k, g)
  BY <1>1, NwNameParts
<1>3. w \in Seq(NwPieces) /\ Len(w) = 3 /\ w[1] = m /\ w[2] = "_" /\ w[3] = "E"
  <2>1. m \in NwPieces
    BY DEF NwPieces, NwModes
  <2> QED BY <1>1, <2>1, NwLetters, NwThree DEF NwMark
<1>4. n \in Seq(NwPieces) /\ kp = Len(p) /\ l = Len(s.vlan)
  BY <1>1, <1>2 DEF NwSized
<1>5. PICK z \in Nat : z = Len(n)
  BY <1>4, LenProperties
<1>6. PICK i \in 0 .. z - 3 : \A j \in 1 .. 3 : n[i + j] = w[j]
  <2>1. PICK i \in 0 .. Len(n) - Len(w) : NwWithin(n, w, i)
    BY <1>1, <1>3, <1>4, NwContainsIs
  <2>2. i \in 0 .. z - 3
    BY <1>3, <1>5, <2>1
  <2> QED BY <1>3, <2>1, <2>2 DEF NwWithin
<1>7. n[i + 1] = m /\ n[i + 2] = "_" /\ n[i + 3] = "E"
  <2>1. 1 \in 1 .. 3 /\ 2 \in 1 .. 3 /\ 3 \in 1 .. 3
    OBVIOUS
  <2>2. n[i + 1] = w[1] /\ n[i + 2] = w[2] /\ n[i + 3] = w[3]
    BY <1>6, <2>1
  <2> QED BY <1>3, <2>2
<1>8. PICK a \in Nat, b \in Nat, x \in Nat : a = i + 1 /\ b = i + 2 /\ x = i + 3
  BY <1>6
<1>9. n[a] = m /\ n[b] = "_" /\ n[x] = "E"
  BY <1>7, <1>8
<1>10. a >= 1 /\ b = a + 1 /\ x = a + 2 /\ x <= z
  BY <1>6, <1>8
<1>11. CASE x >= kp + 5
  <2>1. x \in kp + 5 .. z
    BY <1>10, <1>11
  <2>2. x \in kp + 6 .. kp + l + 5
    BY <1>2, <1>5, <1>9, <2>1, NwAfterwards
  <2>3. CASE x = kp + 6
    <3>1. a = kp + 4
      BY <1>10, <2>3
    <3>2. n[kp + 4] = "VLAN"
      BY <1>2 DEF NwLaid
    <3> QED BY <1>9, <3>1, <3>2
  <2>4. CASE x # kp + 6
    <3>1. PICK j \in 1 .. l : b = kp + 5 + j
      <4>1. b - (kp + 5) \in 1 .. l /\ b = kp + 5 + (b - (kp + 5))
        BY <1>10, <2>2, <2>4
      <4> QED BY <4>1
    <3>2. n[kp + 5 + j] = s.vlan[j]
      BY <1>2, <3>1 DEF NwLaid
    <3>3. s.vlan \in Seq(STRING \ {"_", "VLAN"})
      BY DEF NwIsSetting, NwIsVlan, Nets!AboutVlan
    <3>4. s.vlan[j] # "_"
      BY <1>4, <3>1, <3>3, NwVlanLetters
    <3> QED BY <1>9, <3>1, <3>2, <3>4
  <2> QED BY <2>3, <2>4
<1>12. CASE x < kp + 5
  <2>1. n[kp + 4] = "VLAN" /\ n[kp + 3] = "_" /\ n[1] = "QS" /\ n[2] = "_"
    BY <1>2 DEF NwLaid
  <2>2. x # kp + 4 /\ x # kp + 3 /\ a # 1 /\ a # 2
    BY <1>9, <2>1
  <2>3. PICK c \in Nat : a = c + 3
    <3>1. a - 3 \in Nat /\ a = (a - 3) + 3
      BY <1>10, <2>2
    <3> QED BY <3>1
  <2>4. c + 3 <= kp
    BY <1>10, <1>12, <2>2, <2>3
  <2>5. c + 1 \in 1 .. kp /\ c + 2 \in 1 .. kp /\ c + 3 \in 1 .. kp
    BY <2>4
  <2>6. a = 2 + (c + 1) /\ b = 2 + (c + 2) /\ x = 2 + (c + 3)
    BY <1>10, <2>3
  <2>7. \A j \in 1 .. kp : n[2 + j] = p[j]
    BY <1>2 DEF NwLaid
  <2>8. n[2 + (c + 1)] = p[c + 1] /\ n[2 + (c + 2)] = p[c + 2] /\ n[2 + (c + 3)] = p[c + 3]
    BY <2>5, <2>7
  <2>9. p[c + 1] = m /\ p[c + 2] = "_" /\ p[c + 3] = "E"
    BY <1>9, <2>6, <2>8
  <2>10. PICK e : e = s.switch
    OBVIOUS
  <2>11. e \in Seq(STRING) /\ e \in Seq(NwPieces) /\ Len(e) \in Nat /\ p = Nets!Prefix(e)
    BY <1>1, <2>10, NwSizes DEF NwIsSetting, NwIsVlan, Nets!AboutVlan
  <2>12. \A j \in 1 .. kp : p[j] = e[j] /\ kp <= Len(e)
    BY <1>4, <2>11, NwBeginning
  <2>13. e[c + 1] = m /\ e[c + 2] = "_" /\ e[c + 3] = "E" /\ kp <= Len(e)
    BY <2>5, <2>9, <2>12
  <2>14. \A j \in 1 .. 3 : e[c + j] = w[j]
    <3>1. e[c + 1] = w[1] /\ e[c + 2] = w[2] /\ e[c + 3] = w[3]
      BY <1>3, <2>13
    <3>2. \A j \in 1 .. 3 : j = 1 \/ j = 2 \/ j = 3
      OBVIOUS
    <3> QED BY <3>1, <3>2
  <2>15. c \in 0 .. Len(e) - Len(w)
    <3>1. Len(w) = 3 /\ kp <= Len(e) /\ Len(e) \in Nat
      BY <1>3, <2>11, <2>13
    <3> QED BY <2>4, <3>1
  <2>16. NwWithin(e, w, c)
    BY <1>3, <2>14 DEF NwWithin
  <2>17. Nets!Contains(e, w)
    BY <1>3, <2>11, <2>15, <2>16, NwContainsIs
  <2> QED BY <1>1, <2>10, <2>17 DEF NwIsSetting, Nets!SaysExclusive, NwMark
<1> QED BY <1>11, <1>12

LEMMA NwSharedSaysSo ==
    ASSUME MaxLength \in Nat, NEW s, NwIsSetting(s), ~s.exclusive
    PROVE  ~Nets!SaysExclusive(Nets!Name(s))
BY NwNoOtherMode DEF Nets!SaysExclusive, NwMark

-----------------------------------------------------------------------------
(* The settings that requests make.                                         *)
LEMMA NwFlagsFit ==
    ASSUME NEW r
    PROVE  Nets!Flags(r) \in Seq({"F", "M", "P"})
<1>1. \A f \in {"F", "M", "P"} : Nets!Flag(r, f) \in Seq({"F", "M", "P"})
  <2>1. ASSUME NEW f \in {"F", "M", "P"} PROVE <<f>> \in Seq({"F", "M", "P"})
    OBVIOUS
  <2>2. <<>> \in Seq({"F", "M", "P"})
    OBVIOUS
  <2> QED BY <2>1, <2>2 DEF Nets!Flag
<1>2. PICK a, b, c : a = Nets!Flag(r, "F") /\ b = Nets!Flag(r, "M") /\ c = Nets!Flag(r, "P")
  OBVIOUS
<1>3. /\ a \in Seq({"F", "M", "P"}) /\ b \in Seq({"F", "M", "P"})
      /\ c \in Seq({"F", "M", "P"})
  BY <1>1, <1>2
<1>4. a \o b \in Seq({"F", "M", "P"})
  BY <1>3, ConcatProperties
<1>5. (a \o b) \o c \in Seq({"F", "M", "P"})
  BY <1>3, <1>4, ConcatProperties
<1> QED BY <1>2, <1>5 DEF Nets!Flags

LEMMA NwSettingsFit ==
    ASSUME Nets!RequestsAssumption, NEW s \in Nets!Settings
    PROVE  NwIsSetting(s)
<1>1. PICK r \in VlanRequests : s = Nets!Convert(r) /\ Nets!Switch(r) # <<>>
  BY DEF Nets!Settings
<1>2. PICK w, g : w = Nets!Switch(r) /\ g = Nets!Flags(r)
  OBVIOUS
<1>3. /\ s = [switch |-> w, vlan |-> r.vlan, mode |-> r.mode, exclusive |-> r.exclusive,
              flags |-> g]
      /\ w # <<>> /\ g \in Seq({"F", "M", "P"})
  BY <1>1, <1>2, NwFlagsFit DEF Nets!Convert
<1>4. Nets!AboutVlan(r) /\ ~Nets!SaysExclusive(r.switch) /\ ~Nets!SaysExclusive(DefaultSwitch)
  BY DEF Nets!RequestsAssumption
<1>5. w \in Seq(STRING) /\ ~Nets!SaysExclusive(w)
  BY <1>2, <1>4 DEF Nets!Switch, Nets!AboutVlan, Nets!RequestsAssumption
<1>6. /\ s.switch = w /\ s.vlan = r.vlan /\ s.mode = r.mode /\ s.exclusive = r.exclusive
      /\ s.flags = g
      /\ s \in [switch : {s.switch}, vlan : {s.vlan}, mode : {s.mode}, exclusive : {s.exclusive},
                flags : {s.flags}]
  BY <1>3
<1>7. Nets!AboutVlan(s)
  BY <1>4, <1>5, <1>6 DEF Nets!AboutVlan
<1> QED BY <1>3, <1>5, <1>6, <1>7 DEF NwIsSetting, NwIsVlan

(* A network is named after its settings, and a vNIC's request after it.    *)
NwKnown(p) ==
    \/ p.name = Nets!Name(p.of) /\ NwIsSetting(p.of)
    \/ p.name = Nets!OldName(p.of) /\ NwIsVlan(p.of) /\ ~p.of.exclusive
NwServed(v) ==
    asked[v] # Nets!Nothing =>
        NwIsSetting(asked[v]) /\ conn[v] = Nets!Name(asked[v]) /\ conn[v] \in Nets!Names
NwIInv ==
    /\ conn = [v \in Vnics |-> conn[v]] /\ asked = [v \in Vnics |-> asked[v]]
    /\ \A p \in pgs : NwKnown(p)
    /\ \A v \in Vnics : NwServed(v)
    /\ Nets!ExclusiveAlone

LEMMA NwInitIInv ==
    ASSUME Nets!RequestsAssumption, Nets!Init
    PROVE  NwIInv
<1>1. PICK old \in SUBSET Old :
        /\ pgs = {[name |-> Nets!OldName(s), of |-> s] : s \in old}
        /\ conn \in [Vnics -> {Nets!Holding, <<"lan">>} \cup ReservedNames
                                 \cup {Nets!OldName(s) : s \in old}]
        /\ asked = [v \in Vnics |-> Nets!Nothing]
  BY DEF Nets!Init
<1>2. conn = [v \in Vnics |-> conn[v]] /\ asked = [v \in Vnics |-> asked[v]]
  BY <1>1
<1>3. \A p \in pgs : p.name = Nets!OldName(p.of) /\ p.of \in Old
  BY <1>1
<1>4. \A s \in Old : NwIsVlan(s) /\ ~s.exclusive
  BY DEF Nets!RequestsAssumption, NwIsVlan
<1>5. \A p \in pgs : NwKnown(p)
  BY <1>3, <1>4 DEF NwKnown
<1>6. \A v \in Vnics : NwServed(v)
  BY <1>1 DEF NwServed
<1>7. Nets!ExclusiveAlone
  BY <1>3, <1>4 DEF Nets!ExclusiveAlone
<1> QED BY <1>2, <1>5, <1>6, <1>7 DEF NwIInv

(* A network of the same VLAN is found, whatever named it.                  *)
LEMMA NwKnownFound ==
    ASSUME Nets!RequestsAssumption, NEW s, NwIsSetting(s), Nets!Short(s), NEW p, NwKnown(p),
           Nets!SameVlanOf(s, p.of)
    PROVE  Nets!SameVlan(s, p.name)
<1>1. MaxLength \in Nat
  BY DEF Nets!RequestsAssumption
<1>2. NwIsVlan(s) /\ NwIsVlan(p.of)
  BY DEF NwIsSetting, NwKnown
<1>3. NwMade(p.name, p.of)
  BY <1>1, NwNameMade, NwOldNameMade DEF NwKnown
<1> QED BY <1>1, <1>2, <1>3, NwSameVlanFound

LEMMA NwNewIsAlone ==
    ASSUME Nets!RequestsAssumption, NwIInv, NEW s, NwIsSetting(s), NEW q \in pgs,
           q.name # Nets!Name(s),
           q.name \notin Nets!Cleared(s), Nets!SameVlanOf(s, q.of), Nets!Short(s)
    PROVE  ~s.exclusive /\ ~q.of.exclusive
<1>1. NwKnown(q) /\ q.name \in Nets!Names /\ MaxLength \in Nat
  BY DEF NwIInv, Nets!Names, Nets!RequestsAssumption
<1>2. Nets!SameVlan(s, q.name)
  BY <1>1, NwKnownFound
<1>3. ~s.exclusive
  BY <1>1, <1>2 DEF Nets!Cleared
<1>4. ASSUME q.of.exclusive PROVE FALSE
  <2>1. q.name = Nets!Name(q.of) /\ NwIsSetting(q.of)
    BY <1>1, <1>4 DEF NwKnown
  <2>2. Nets!SaysExclusive(q.name)
    BY <1>1, <1>4, <2>1, NwExclusiveFound
  <2> QED BY <1>1, <1>2, <1>3, <2>2 DEF Nets!Cleared, Nets!SameVlanAndExclusive
<1> QED BY <1>3, <1>4

LEMMA NwKeepsItself ==
    ASSUME Nets!RequestsAssumption, NEW s, NwIsSetting(s)
    PROVE  Nets!Name(s) \notin Nets!Cleared(s)
<1>1. MaxLength \in Nat /\ s.exclusive \in BOOLEAN
  BY DEF Nets!RequestsAssumption, NwIsSetting, NwIsVlan, Nets!AboutVlan
<1>2. CASE s.exclusive
  BY <1>2 DEF Nets!Cleared
<1>3. CASE ~s.exclusive
  BY <1>1, <1>3, NwSharedSaysSo DEF Nets!Cleared, Nets!SameVlanAndExclusive
<1> QED BY <1>1, <1>2, <1>3

LEMMA NwStepSetVlan ==
    ASSUME Nets!RequestsAssumption, NwIInv, NEW v \in Vnics, NEW s \in Nets!Settings,
           Nets!SetVlan(v, s)
    PROVE  NwIInv'
<1>1. NwIsSetting(s)
  BY NwSettingsFit
<1>2. PICK name, cleared, expelled :
        name = Nets!Name(s) /\ cleared = Nets!Cleared(s) /\ expelled = Nets!Expelled(s, v)
  OBVIOUS
<1>3. PICK left, added :
        /\ left = {p \in pgs : p.name \notin cleared}
        /\ added = (IF name \in Nets!Names THEN {} ELSE {[name |-> name, of |-> s]})
  OBVIOUS
<1>4. pgs' = left \cup added
  BY <1>2, <1>3 DEF Nets!SetVlan
<1>5. conn' = [w \in Vnics |-> CASE w = v -> name
                                [] w # v /\ w \in expelled -> Nets!Holding
                                [] OTHER -> conn[w]]
  BY <1>2 DEF Nets!SetVlan
<1>6. asked' = [w \in Vnics |-> IF w = v THEN s ELSE IF w \in expelled /\ Nets!MayLose(w, s)
                                                   THEN Nets!Nothing ELSE asked[w]]
  BY <1>2 DEF Nets!SetVlan
<1>7. conn' = [w \in Vnics |-> conn'[w]] /\ asked' = [w \in Vnics |-> asked'[w]]
  BY <1>5, <1>6
<1>8. \A p \in added : p.name = name /\ p.of = s
  BY <1>3
<1>9. \A p \in pgs' : NwKnown(p)
  BY <1>1, <1>2, <1>3, <1>4, <1>8 DEF NwIInv, NwKnown
<1>10. name \notin cleared
  BY <1>1, <1>2, NwKeepsItself
<1>11. \A x \in Nets!Names : x \notin cleared => x \in Nets!Names'
  BY <1>3, <1>4 DEF Nets!Names
<1>12. name \in Nets!Names'
  <2>1. CASE name \in Nets!Names
    BY <1>10, <1>11, <2>1
  <2>2. CASE name \notin Nets!Names
    <3>1. PICK p \in pgs' : p.name = name
      <4>1. PICK p : p = [name |-> name, of |-> s]
        OBVIOUS
      <4>2. p \in added /\ p.name = name
        BY <1>3, <2>2, <4>1
      <4> QED BY <1>4, <4>2
    <3> QED BY <3>1 DEF Nets!Names
  <2> QED BY <2>1, <2>2
<1>13. ASSUME NEW w \in Vnics PROVE NwServed(w)'
  <2> SUFFICES ASSUME asked'[w] # Nets!Nothing
               PROVE  /\ NwIsSetting(asked'[w]) /\ conn'[w] = Nets!Name(asked'[w])
                      /\ conn'[w] \in Nets!Names'
    BY DEF NwServed
  <2>1. CASE w = v
    BY <1>1, <1>2, <1>5, <1>6, <1>12, <2>1
  <2>2. CASE w # v
    <3>1. asked'[w] = asked[w] /\ ~(w \in expelled /\ Nets!MayLose(w, s)) /\ asked[w] # Nets!Nothing
      BY <1>6, <2>2
    <3>2. NwIsSetting(asked[w]) /\ conn[w] = Nets!Name(asked[w]) /\ conn[w] \in Nets!Names
      BY <3>1 DEF NwIInv, NwServed
    <3>3. w \notin expelled
      <4> SUFFICES ASSUME w \in expelled PROVE Nets!MayLose(w, s)
        BY <3>1
      <4>1. CASE conn[w] \in cleared
        <5>1. Nets!SameVlan(s, Nets!Name(asked[w]))
          BY <1>2, <3>2, <4>1 DEF Nets!Cleared, Nets!SameVlanAndExclusive
        <5>2. Nets!SameVlanOf(s, asked[w]) \/ Nets!Mistaken(asked[w], s)
          BY <1>1, <3>2, <5>1, NwFoundFor DEF Nets!RequestsAssumption
        <5> QED BY <5>2 DEF Nets!MayLose
      <4>2. CASE conn[w] = Nets!Name(s)
        BY <3>2, <4>2 DEF Nets!MayLose
      <4> QED BY <1>2, <4>1, <4>2 DEF Nets!Expelled
    <3>4. conn'[w] = conn[w]
      BY <1>5, <2>2, <3>3
    <3>5. conn[w] \notin cleared
      BY <1>2, <3>3 DEF Nets!Expelled
    <3> QED BY <1>11, <3>1, <3>2, <3>4, <3>5
  <2> QED BY <2>1, <2>2
<1>14. Nets!ExclusiveAlone'
  <2> SUFFICES ASSUME NEW p \in pgs', NEW q \in pgs',
                      p.of.exclusive, Nets!SameVlanOf(p.of, q.of), Nets!Short(p.of)
               PROVE  p.name = q.name
    BY DEF Nets!ExclusiveAlone
  <2>1. CASE p \in left /\ q \in left
    BY <1>3, <2>1 DEF NwIInv, Nets!ExclusiveAlone
  <2>2. CASE p \in added /\ q \in added
    BY <1>8, <2>2
  <2>3. CASE p \in added /\ q \in left
    <3>1. p.of = s /\ name \notin Nets!Names /\ q \in pgs /\ q.name \notin cleared
      BY <1>3, <1>8, <2>3
    <3>2. q.name # Nets!Name(s)
      BY <1>2, <3>1 DEF Nets!Names
    <3> QED BY <1>1, <1>2, <3>1, <3>2, NwNewIsAlone
  <2>4. CASE p \in left /\ q \in added
    <3>1. q.of = s /\ name \notin Nets!Names /\ p \in pgs /\ p.name \notin cleared
      BY <1>3, <1>8, <2>4
    <3>2. p.name # Nets!Name(s)
      BY <1>2, <3>1 DEF Nets!Names
    <3>3. Nets!SameVlanOf(s, p.of) /\ Nets!Short(s)
      BY <3>1 DEF Nets!SameVlanOf, Nets!Short
    <3> QED BY <1>1, <1>2, <3>1, <3>2, <3>3, NwNewIsAlone
  <2> QED BY <1>4, <2>1, <2>2, <2>3, <2>4
<1> QED BY <1>7, <1>9, <1>13, <1>14 DEF NwIInv

LEMMA NwStepSetExisting ==
    ASSUME NwIInv, NEW v \in Vnics, NEW name \in ReservedNames, Nets!SetExisting(v, name)
    PROVE  NwIInv'
<1>1. /\ conn' = [conn EXCEPT ![v] = name] /\ asked' = [asked EXCEPT ![v] = Nets!Nothing]
      /\ pgs' = pgs
  BY DEF Nets!SetExisting
<1>2. conn = [w \in Vnics |-> conn[w]] /\ asked = [w \in Vnics |-> asked[w]]
  BY DEF NwIInv
<1>3. conn' = [w \in Vnics |-> conn'[w]] /\ asked' = [w \in Vnics |-> asked'[w]]
  BY <1>1, <1>2
<1>4. \A p \in pgs' : NwKnown(p)
  BY <1>1 DEF NwIInv
<1>5. ASSUME NEW w \in Vnics PROVE NwServed(w)'
  <2>1. CASE w = v
    <3>1. asked'[w] = Nets!Nothing
      BY <1>1, <1>2, <2>1
    <3> QED BY <3>1 DEF NwServed
  <2>2. CASE w # v
    <3>1. asked'[w] = asked[w] /\ conn'[w] = conn[w]
      BY <1>1, <1>2, <2>2
    <3> QED BY <1>1, <3>1 DEF NwIInv, NwServed, Nets!Names
  <2> QED BY <2>1, <2>2
<1>6. Nets!ExclusiveAlone'
  BY <1>1 DEF NwIInv, Nets!ExclusiveAlone
<1> QED BY <1>3, <1>4, <1>5, <1>6 DEF NwIInv

LEMMA NwStepRemoveVlan ==
    ASSUME NwIInv, NEW v \in Vnics, NEW s, Nets!RemoveVlan(v, s)
    PROVE  NwIInv'
<1>1. PICK name : name = (IF Nets!Name(s) \in Nets!Names THEN Nets!Name(s) ELSE Nets!OldName(s))
  OBVIOUS
<1>2. /\ conn' = [conn EXCEPT ![v] = Nets!Holding] /\ asked' = [asked EXCEPT ![v] = Nets!Nothing]
      /\ pgs' = IF Nets!Users(name) \ {v} = {} /\ Nets!Removable(name)
                THEN {p \in pgs : p.name # name} ELSE pgs
  BY <1>1 DEF Nets!RemoveVlan
<1>3. conn = [w \in Vnics |-> conn[w]] /\ asked = [w \in Vnics |-> asked[w]]
  BY DEF NwIInv
<1>4. conn' = [w \in Vnics |-> conn'[w]] /\ asked' = [w \in Vnics |-> asked'[w]]
  BY <1>2, <1>3
<1>5. pgs' \subseteq pgs
  BY <1>2
<1>6. \A p \in pgs' : NwKnown(p)
  BY <1>5 DEF NwIInv
<1>7. ASSUME NEW w \in Vnics PROVE NwServed(w)'
  <2>1. CASE w = v
    <3>1. asked'[w] = Nets!Nothing
      BY <1>2, <1>3, <2>1
    <3> QED BY <3>1 DEF NwServed
  <2>2. CASE w # v
    <3> SUFFICES ASSUME asked'[w] # Nets!Nothing
                 PROVE  /\ NwIsSetting(asked'[w]) /\ conn'[w] = Nets!Name(asked'[w])
                        /\ conn'[w] \in Nets!Names'
      BY DEF NwServed
    <3>1. asked'[w] = asked[w] /\ conn'[w] = conn[w]
      BY <1>2, <1>3, <2>2
    <3>2. NwIsSetting(asked[w]) /\ conn[w] = Nets!Name(asked[w]) /\ conn[w] \in Nets!Names
      BY <3>1 DEF NwIInv, NwServed
    <3>3. PICK p \in pgs : p.name = conn[w]
      BY <3>2 DEF Nets!Names
    <3>4. p \in pgs'
      BY <1>2, <2>2, <3>3 DEF Nets!Users
    <3>5. conn[w] \in Nets!Names'
      BY <3>3, <3>4 DEF Nets!Names
    <3> QED BY <3>1, <3>2, <3>5
  <2> QED BY <2>1, <2>2
<1>8. Nets!ExclusiveAlone'
  BY <1>5 DEF NwIInv, Nets!ExclusiveAlone
<1> QED BY <1>4, <1>6, <1>7, <1>8 DEF NwIInv

LEMMA NwStepIInv ==
    ASSUME Nets!RequestsAssumption, NwIInv, [Nets!Next]_(Nets!vars)
    PROVE  NwIInv'
<1>1. CASE Nets!Next
  <2>1. PICK v \in Vnics :
          \/ \E s \in Nets!Settings : Nets!SetVlan(v, s)
          \/ \E s \in Nets!Settings \cup Old : Nets!RemoveVlan(v, s)
          \/ \E name \in ReservedNames : Nets!SetExisting(v, name)
    BY <1>1 DEF Nets!Next
  <2> QED BY <2>1, NwStepSetVlan, NwStepRemoveVlan, NwStepSetExisting
<1>2. CASE UNCHANGED Nets!vars
  BY <1>2 DEF Nets!vars, NwIInv, NwKnown, NwServed, Nets!Names, Nets!ExclusiveAlone
<1> QED BY <1>1, <1>2

LEMMA NwNetworkIsRight ==
    ASSUME Nets!RequestsAssumption, NwIInv
    PROVE  Nets!RightNetwork
<1> SUFFICES ASSUME NEW v \in Vnics, asked[v] # Nets!Nothing
             PROVE  \E p \in pgs : /\ p.name = conn[v]
                                   /\ p.of = asked[v] \/ ~Nets!Short(p.of) \/ ~Nets!Short(asked[v])
  BY DEF Nets!RightNetwork
<1>1. NwIsSetting(asked[v]) /\ conn[v] = Nets!Name(asked[v]) /\ conn[v] \in Nets!Names
  BY DEF NwIInv, NwServed
<1>2. PICK p \in pgs : p.name = conn[v]
  BY <1>1 DEF Nets!Names
<1>3. NwKnown(p) /\ MaxLength \in Nat
  BY DEF NwIInv, Nets!RequestsAssumption
<1>4. PICK s, t : s = p.of /\ t = asked[v]
  OBVIOUS
<1>5. NwIsSetting(s) /\ NwIsSetting(t) /\ Nets!Name(s) = Nets!Name(t)
  BY <1>1, <1>2, <1>3, <1>4, NwOldIsOther DEF NwKnown
<1>6. ASSUME Nets!Short(s), Nets!Short(t) PROVE s = t
  <2>1. /\ Nets!Prefix(s.switch) = Nets!Prefix(t.switch) /\ s.vlan = t.vlan /\ s.mode = t.mode
        /\ s.exclusive = t.exclusive /\ s.flags = t.flags
    BY <1>3, <1>5, NwNamesTell
  <2>2. s.switch = t.switch
    BY <1>3, <1>5, <1>6, <2>1, NwSizes DEF Nets!Short, NwIsSetting
  <2> QED BY <1>5, <2>1, <2>2 DEF NwIsSetting
<1> QED BY <1>2, <1>4, <1>6

-----------------------------------------------------------------------------
(* What VmReconfigureProofs and SaveAppsProofs prove of the same parts.     *)
DisksP == INSTANCE VmReconfigureProofs WITH Asks <- DiskAsks, Reserved <- ReservedUnit
SavesP == INSTANCE SaveAppsProofs WITH Asks <- SaveAsks

LEMMA SameDiskAssumptions == DisksP!ReconfigureAssumption /\ DisksP!RequestsAssumption
BY DisksAssumption
   DEF Disks!ReconfigureAssumption, DisksP!ReconfigureAssumption, Disks!RequestsAssumption,
       DisksP!RequestsAssumption, Disks!IsVm, DisksP!IsVm, Disks!IsFiniteSet, DisksP!IsFiniteSet

LEMMA SamePlan ==
    ASSUME NEW v, NEW ask
    PROVE  Disks!Plan(v, ask) = DisksP!Plan(v, ask)
BY DEF Disks!Plan, DisksP!Plan, Disks!PlanOne, DisksP!PlanOne, Disks!Refused, DisksP!Refused,
       Disks!Nothing, DisksP!Nothing, Disks!AddDisk, DisksP!AddDisk, Disks!EditDisk,
       DisksP!EditDisk, Disks!FreeUnits, DisksP!FreeUnits, Disks!FileDisks, DisksP!FileDisks,
       Disks!LastKey, DisksP!LastKey,
       Disks!LastNumber, DisksP!LastNumber, Disks!NextKey, DisksP!NextKey, Disks!Keys,
       DisksP!Keys, Disks!Max, DisksP!Max, Disks!Min, DisksP!Min, Disks!Cardinality,
       DisksP!Cardinality

LEMMA SameDiskInit == Disks!Init => DisksP!Init
BY DEF Disks!Init, DisksP!Init, Disks!Nothing, DisksP!Nothing, Disks!Cardinality,
       DisksP!Cardinality, Disks!IsFiniteSet, DisksP!IsFiniteSet

LEMMA SameDiskStep == Disks!Next => DisksP!Next
<1>1. ASSUME NEW c PROVE Disks!MakeSpec(c) => DisksP!MakeSpec(c)
  BY SamePlan DEF Disks!MakeSpec, DisksP!MakeSpec, Disks!At, DisksP!At, Disks!Update,
                  DisksP!Update, Disks!Nothing, DisksP!Nothing
<1>2. ASSUME NEW c
      PROVE  /\ Disks!FindLock(c) => DisksP!FindLock(c)
             /\ Disks!StoreLock(c) => DisksP!StoreLock(c)
             /\ Disks!ReadLock(c) => DisksP!ReadLock(c)
             /\ Disks!TakeLock(c) => DisksP!TakeLock(c)
             /\ Disks!StartTask(c) => DisksP!StartTask(c)
  BY DEF Disks!FindLock, DisksP!FindLock, Disks!StoreLock, DisksP!StoreLock, Disks!ReadLock,
         DisksP!ReadLock, Disks!TakeLock, DisksP!TakeLock, Disks!StartTask, DisksP!StartTask,
         Disks!Leave, DisksP!Leave, Disks!At, DisksP!At, Disks!Goto, DisksP!Goto,
         Disks!Update, DisksP!Update, Disks!Nothing, DisksP!Nothing
<1>3. ASSUME NEW c PROVE Disks!EndTask(c) => DisksP!EndTask(c)
  BY DEF Disks!EndTask, DisksP!EndTask, Disks!Leave, DisksP!Leave, Disks!At, DisksP!At,
         Disks!Goto, DisksP!Goto, Disks!Update, DisksP!Update, Disks!Applicable,
         DisksP!Applicable, Disks!Applied, DisksP!Applied, Disks!Max, DisksP!Max, Disks!Keys,
         DisksP!Keys
<1> QED BY <1>1, <1>2, <1>3 DEF Disks!Next, DisksP!Next, Disks!Working, DisksP!Working

LEMMA DisksHold ==
    ASSUME DisksP!IInv, DisksP!Disks
    PROVE  Disks!NewDisksFit /\ Disks!ReconfiguredAsAsked /\ Disks!Serialised
<1>1. DisksP!NewDisksFit /\ DisksP!ReconfiguredAsAsked /\ DisksP!Serialised
  BY SameDiskAssumptions, DisksP!FitByDisks, DisksP!AskedByDisks, DisksP!SerialisedByInv
<1> QED BY <1>1
     DEF Disks!NewDisksFit, DisksP!NewDisksFit, Disks!ReconfiguredAsAsked,
         DisksP!ReconfiguredAsAsked, Disks!Serialised, DisksP!Serialised, Disks!At, DisksP!At

LEMMA SameSaveAssumption == SavesP!SavesAssumption
BY SavedVmsAssumption DEF Saves!SavesAssumption, SavesP!SavesAssumption

LEMMA SameSaveInit == Saves!Init => SavesP!Init
BY DEF Saves!Init, SavesP!Init

LEMMA SameSaveStep == Saves!Next => SavesP!Next
<1>1. ASSUME NEW c PROVE Saves!Begin(c) => SavesP!Begin(c)
  BY DEF Saves!Begin, SavesP!Begin, Saves!At, SavesP!At, Saves!Update, SavesP!Update,
         Saves!Active, SavesP!Active, Saves!Saves, SavesP!Saves, Saves!Over, SavesP!Over,
         Saves!Exists, SavesP!Exists, Saves!folders, SavesP!folders
<1>2. ASSUME NEW c PROVE Saves!Working(c) => SavesP!Working(c)
  BY DEF Saves!Working, SavesP!Working, Saves!At, SavesP!At, Saves!Update, SavesP!Update,
         Saves!Goto, SavesP!Goto, Saves!Active, SavesP!Active, Saves!Over, SavesP!Over,
         Saves!Saves, SavesP!Saves, Saves!Exists, SavesP!Exists, Saves!folders, SavesP!folders,
         Saves!Raise, SavesP!Raise, Saves!PrepareFolder, SavesP!PrepareFolder,
         Saves!ReadPower, SavesP!ReadPower, Saves!PowerOff, SavesP!PowerOff,
         Saves!NameTaken, SavesP!NameTaken, Saves!Clone, SavesP!Clone,
         Saves!CloneFails, SavesP!CloneFails, Saves!Finish, SavesP!Finish,
         Saves!RestorePower, SavesP!RestorePower, Saves!PrepareResult, SavesP!PrepareResult,
         Saves!FindSaved, SavesP!FindSaved, Saves!DeleteSaved, SavesP!DeleteSaved,
         Saves!FindFolder, SavesP!FindFolder, Saves!Result, SavesP!Result,
         Saves!CheckEmpty, SavesP!CheckEmpty, Saves!KillFolder, SavesP!KillFolder
<1> QED BY <1>1, <1>2 DEF Saves!Next, SavesP!Next

LEMMA SavesHold ==
    ASSUME SavesP!Steady
    PROVE  Saves!NoEmptyFolderLeft
<1>1. SavesP!NoEmptyFolderLeft
  BY SavesP!FolderGone DEF SavesP!Steady
<1> QED BY <1>1 DEF Saves!NoEmptyFolderLeft, SavesP!NoEmptyFolderLeft, Saves!Active,
                    SavesP!Active, Saves!Over, SavesP!Over

LEMMA SavesStepHolds ==
    ASSUME SavesP!Steady, Saves!Next
    PROVE  \A c \in Cmds :
              Saves!At(c, "result") /\ job'[c].pc = "done" /\ ~job[c].shared
                  => power'[job[c].ask.vm] = job[c].on
<1>1. SavesP!RestoresPower
  BY SameSaveStep, SavesP!StepRestores
<1> QED BY <1>1 DEF SavesP!RestoresPower, Saves!At, SavesP!At

-----------------------------------------------------------------------------
(* The invariant: that of the part that is at work.                        *)
IInv ==
    /\ part = "power" => PwInv
    /\ part = "disks" => DisksP!IInv /\ DisksP!Disks
    /\ part = "rules" => RuIInv
    /\ part = "snapshots" => SnIInv /\ SnHInv
    /\ part = "saves" => SavesP!Steady
    /\ part = "address" => AdIInv
    /\ part = "specs" => CsIInv
    /\ part = "networks" => NwIInv

LEMMA InitInv == Init => IInv
<1>1. part = "power" /\ Power!Init => PwInv
  BY PwInitInv
<1>2. part = "disks" /\ Disks!Init => DisksP!IInv /\ DisksP!Disks
  BY SameDiskInit, SameDiskAssumptions, DisksP!InitInv, DisksP!InitDisks
<1>3. part = "rules" /\ Rules!Init => RuIInv
  BY NamesAssumption, RuInitInv
<1>4. part = "snapshots" /\ Snaps!Init => SnIInv /\ SnHInv
  BY SnInitInv, SnHintsInit
<1>5. part = "saves" /\ Saves!Init => SavesP!Steady
  BY SameSaveInit, SavesP!InitSteady
<1>6. part = "address" /\ Addr!Init => AdIInv
  BY AddressesAssumption, AdInitInv
<1>7. part = "specs" /\ Specs!Init => CsIInv
  BY CsInitInv
<1>8. part = "networks" /\ Nets!Init => NwIInv
  BY VlansAssumption, NwInitIInv
<1> QED BY <1>1, <1>2, <1>3, <1>4, <1>5, <1>6, <1>7, <1>8 DEF Init, IInv

LEMMA StepInv == IInv /\ [Next]_vars => IInv'
<1> SUFFICES ASSUME IInv, [Next]_vars PROVE IInv'
  OBVIOUS
<1>1. part' = part
  BY DEF Next, vars
<1>2. CASE part = "power"
  <2>1. [Power!Next]_(Power!vars)
    BY <1>2 DEF Next, vars, Power!vars, powers
  <2>2. PwInv'
    BY <1>2, <2>1, PowerAssumption, PwStepKeepsInv DEF IInv
  <2> QED BY <1>1, <1>2, <2>2 DEF IInv
<1>3. CASE part = "disks"
  <2>1. [DisksP!Next]_(DisksP!vars)
    BY <1>3, SameDiskStep DEF Next, vars, DisksP!vars, disks
  <2>2. DisksP!IInv' /\ DisksP!Disks'
    BY <1>3, <2>1, SameDiskAssumptions, DisksP!StepInv, DisksP!StepDisks DEF IInv
  <2> QED BY <1>1, <1>3, <2>2 DEF IInv
<1>4. CASE part = "rules"
  <2>1. [Rules!Next]_(Rules!vars)
    BY <1>4 DEF Next, vars, Rules!vars
  <2>2. RuIInv'
    BY <1>4, <2>1, NamesAssumption, RuStepInv DEF IInv
  <2> QED BY <1>1, <1>4, <2>2 DEF IInv
<1>5. CASE part = "snapshots"
  <2>1. [Snaps!Next]_(Snaps!vars)
    BY <1>5 DEF Next, vars, Snaps!vars, trees
  <2>2. SnIInv' /\ SnHInv'
    BY <1>5, <2>1, SnapshotsAssumption, SnStepKeepsInv, SnHintsStep DEF IInv
  <2> QED BY <1>1, <1>5, <2>2 DEF IInv
<1>6. CASE part = "saves"
  <2>1. [SavesP!Next]_(SavesP!vars)
    BY <1>6, SameSaveStep DEF Next, vars, SavesP!vars, saves
  <2>2. SavesP!Steady'
    BY <1>6, <2>1, SameSaveAssumption, SavesP!StepSteady DEF IInv
  <2> QED BY <1>1, <1>6, <2>2 DEF IInv
<1>7. CASE part = "address"
  <2>1. [Addr!Next]_(Addr!vars)
    BY <1>7 DEF Next, vars, Addr!vars, addresses
  <2>2. AdIInv'
    BY <1>7, <2>1, AddressesAssumption, AdStepKeepsInv DEF IInv
  <2> QED BY <1>1, <1>7, <2>2 DEF IInv
<1>8. CASE part = "specs"
  <2>1. [Specs!Next]_(Specs!vars)
    BY <1>8 DEF Next, vars, Specs!vars, systems
  <2>2. CsIInv'
    BY <1>8, <2>1, LibrarySpecsAssumption, CsStepKeepsInv DEF IInv
  <2> QED BY <1>1, <1>8, <2>2 DEF IInv
<1>9. CASE part = "networks"
  <2>1. [Nets!Next]_(Nets!vars)
    BY <1>9 DEF Next, vars, Nets!vars, networks
  <2>2. NwIInv'
    BY <1>9, <2>1, VlansAssumption, NwStepIInv DEF IInv
  <2> QED BY <1>1, <1>9, <2>2 DEF IInv
<1> QED BY <1>1, <1>2, <1>3, <1>4, <1>5, <1>6, <1>7, <1>8, <1>9 DEF IInv

LEMMA Invariance == Spec => []IInv
BY InitInv, StepInv, PTL DEF Spec

(* The spec of a VM keeps every parameter that was asked for, whichever     *)
(* commands extend and overwrite it at once, and covers the VM's vNICs once *)
(* all are done, unless a vNIC was added while another command was at work  *)
(* with the spec (customization_params.py:31-45,                           *)
(* connectivity_helpers.py:146-154).                                       *)
THEOREM SpecsStayComplete == Spec => []SpecComplete
<1>1. IInv => SpecComplete
  BY PwInvImplies DEF IInv, SpecComplete
<1> QED BY <1>1, Invariance, PTL

(* A power-on that applied a spec, powered the VM with a task of its own    *)
(* and is done has seen the customization with that spec begin: the event   *)
(* it waited for, counted from vCenter's time of the task, was neither of   *)
(* an earlier power-on nor of another command's customization              *)
(* (power_flow.py:35-42, vm_handler.py:303-308, event_manager.py:57-71).    *)
THEOREM PowerOnsSeeCustomization == Spec => []PoweredOnIsCustomized
<1>1. IInv => PoweredOnIsCustomized
  BY PwInvImplies DEF IInv, PoweredOnIsCustomized
<1> QED BY <1>1, Invariance, PTL

(* For every VM, every limit and all requests: a new disk gets a key that   *)
(* nothing has on the VM the command has seen, a unit that no device with a *)
(* file has there and that is not the controller's, and neither goes to two *)
(* disks of the spec (config_spec_handler.py:75-97).                       *)
THEOREM NewDisksGetFreePlaces == Spec => []NewDisksFit
<1>1. IInv => NewDisksFit
  BY DisksHold DEF IInv, NewDisksFit
<1> QED BY <1>1, Invariance, PTL

(* A reconfiguration that is done has left every disk it was asked for at   *)
(* that size at least, however many commands reconfigure the VM at once and *)
(* though all plan on what they saw before (config_spec_handler.py:125-151).*)
THEOREM DisksAsAsked == Spec => []ReconfiguredAsAsked
<1>1. IInv => ReconfiguredAsAsked
  BY DisksHold DEF IInv, ReconfiguredAsAsked
<1> QED BY <1>1, Invariance, PTL

(* Reconfigurations of one VM follow one another, unless two commands found *)
(* no lock for the VM at once (vm_handler.py:250-258).                     *)
THEOREM ReconfigurationsSerialised == Spec => []Serialised
<1>1. IInv => Serialised
  BY DisksHold DEF IInv, Serialised
<1> QED BY <1>1, Invariance, PTL

(* What add_vms_to_affinity_rule has done with nobody else at work is not   *)
(* undone by later commands, though those read, edit and write back the    *)
(* same rule at once (affinity_rules_flow.py:63-83).                       *)
THEOREM RulesKeepVms == Spec => []RuleHasVms
<1>1. IInv => RuleHasVms
  BY RuRuleHasVmsByInv DEF IInv, RuleHasVms
<1> QED BY <1>1, Invariance, PTL

(* The path that save_snapshot returns leads to the snapshot it has made,   *)
(* in trees of any depth, until commands overlap or a removal keeps the     *)
(* children (vm_handler.py:351-377, snapshot_handler.py:51-56).            *)
THEOREM PathsFindSnapshots == Spec => []PathFindsSnapshot
<1>1. IInv => PathFindsSnapshot
  BY SnInvImplies DEF IInv, PathFindsSnapshot
<1> QED BY <1>1, Invariance, PTL

(* A snapshot is hinted at by the path that the commands accept exactly if  *)
(* neither it nor one above it comes after a sibling, in trees of any       *)
(* depth and width and whatever parts the names have                        *)
(* (attribute_hints.py:264-278).                                            *)
THEOREM HintsOfFirstChildren == Spec => []HintsOfChain
<1>1. IInv => HintsOfChain
  BY SnHintsInvImplies DEF IInv, HintsOfChain
<1> QED BY <1>1, Invariance, PTL

(* The VM of a save that succeeds is powered as it was when the save began, *)
(* whatever other VMs are saved meanwhile (save_restore_app.py:270-280).    *)
THEOREM SavesRestorePower == Spec => PowerRestored
<1>1. IInv /\ [Next]_vars =>
          [part = "saves" =>
              \A c \in Cmds :
                 Saves!At(c, "result") /\ job'[c].pc = "done" /\ ~job[c].shared
                     => power'[job[c].ask.vm] = job[c].on]_vars
  BY SavesStepHolds DEF IInv, Next
<1> QED BY <1>1, Invariance, PTL DEF Spec, PowerRestored

(* Whichever deletion or failing clone comes last removes the folder of the *)
(* saved apps (save_restore_app.py:254-268, clone_vm.py:58-61).            *)
THEOREM LastOneCleansUp == Spec => []NoEmptyFolderLeft
<1>1. IInv => NoEmptyFolderLeft
  BY SavesHold DEF IInv, NoEmptyFolderLeft
<1> QED BY <1>1, Invariance, PTL

(* The address found fits what the app asks for and comes from no network   *)
(* to be skipped while the guest keeps its addresses; and a refresh times   *)
(* out only if no fitting address has been there all the time or an address *)
(* was lost between its check and its use, for guests with any vNICs and    *)
(* addresses (vm_network.py:50-75, 91-103).                                 *)
THEOREM AddressesFit == Spec => []AddressFound
<1>1. IInv => AddressFound
  BY AdInvImplies DEF IInv, AddressFound
<1> QED BY <1>1, Invariance, PTL

(* For any requests, any number of them: what a customization sets stays in *)
(* the spec until a later one sets it again, and a Windows spec joins the   *)
(* domain or the workgroup asked for last and names both only when a user's *)
(* name was given without a domain (custom_spec_handler.py:154-234).        *)
THEOREM SpecsSayWhatWasAsked == Spec => []SpecAsAsked
<1>1. IInv => SpecAsAsked
  BY CsInvImplies DEF IInv, SpecAsAsked
<1> QED BY <1>1, Invariance, PTL

(* A vNIC is on a network with the switch, VLAN, mode and settings that     *)
(* were asked for it, for any names of switches and VLANs that do not read  *)
(* like a part of a network's name, unless a switch's name was truncated;   *)
(* and stays there until a network of its VLAN drives it out, or one whose  *)
(* switch is found within the network's name (connectivity_helpers.py:63-90,*)
(* connectivity_flow.py:410-449).                                           *)
THEOREM NetworksAsAsked == Spec => []RightNetwork
<1>1. IInv => RightNetwork
  BY VlansAssumption, NwNetworkIsRight DEF IInv, RightNetwork
<1> QED BY <1>1, Invariance, PTL

(* However requests for exclusive and shared networks of a VLAN follow one  *)
(* another, an exclusive one is alone, if its switch's name is not          *)
(* truncated (connectivity_flow.py:413-417, 442-449).                       *)
THEOREM ExclusiveOnesAlone == Spec => []ExclusiveAlone
<1>1. IInv => ExclusiveAlone
  BY DEF IInv, ExclusiveAlone, NwIInv
<1> QED BY <1>1, Invariance, PTL
=============================================================================
