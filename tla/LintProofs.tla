------------------------------ MODULE LintProofs ------------------------------
(***************************************************************************)
(* What the lints and the tool gate's choice of a section promise, proved  *)
(* for every config of any depth and width: each lint finds the places     *)
(* that break its rule and no other, and a gate blames a section that      *)
(* holds a defect.  The walks are compared with the places of the config   *)
(* level by level, and the three spellings of a place read back.           *)
(***************************************************************************)
EXTENDS Lints, WellFoundedInduction, TLAPS

----------------------------------------------------------------------------
(* Induction, said of a set of numbers.                                    *)

LEMMA NumbersFrom0 ==
  ASSUME NEW T \in SUBSET Nat, 0 \in T, \A n \in T : n + 1 \in T
  PROVE  T = Nat
<1> DEFINE R == OpToRel(<, Nat)
<1>1. IsWellFoundedOn(R, Nat)
  BY NatLessThanWellFounded
<1>2. \A m, n \in Nat : <<m, n>> \in R <=> m < n
  BY Zenon DEF OpToRel
<1> HIDE DEF R
<1>3. SUFFICES ASSUME Nat \ T # {} PROVE FALSE
  OBVIOUS
<1>4. PICK x \in Nat \ T : \A y \in Nat \ T : ~(<<y, x>> \in R)
  BY <1>1, <1>3, WFMin, Zenon
<1>5. x \in Nat /\ x \notin T /\ x # 0
  BY <1>4
<1>6. x - 1 \in Nat /\ x - 1 < x /\ (x - 1) + 1 = x
  BY <1>5
<1>7. x - 1 \in T
  BY <1>2, <1>4, <1>5, <1>6
<1>8. QED BY <1>5, <1>6, <1>7

(* The same up to a bound.                                                 *)
LEMMA NumbersUpTo ==
  ASSUME NEW n \in Nat, NEW T, 0 \in T,
         \A i \in 1 .. n : i - 1 \in T => i \in T
  PROVE  \A i \in 0 .. n : i \in T
<1> DEFINE S == {m \in Nat : m <= n => m \in T}
<1>1. ASSUME NEW m \in S PROVE m + 1 \in S
  <2>1. m \in Nat /\ (m <= n => m \in T)
    OBVIOUS
  <2>2. m + 1 <= n => m + 1 \in 1 .. n /\ (m + 1) - 1 = m /\ m <= n
    BY <2>1
  <2>3. m + 1 <= n => m + 1 \in T
    BY <2>1, <2>2
  <2>4. QED BY <2>1, <2>3
<1>2. 0 \in S /\ S \in SUBSET Nat
  OBVIOUS
<1> HIDE DEF S
<1>3. S = Nat
  BY <1>1, <1>2, NumbersFrom0
<1>4. QED BY <1>3 DEF S

----------------------------------------------------------------------------
(* The node at a path, one step at a time.                                 *)

(* The nodes f passes along the first n steps of a path.                   *)
Passes(f, node, path, n) ==
  f = [i \in 0 .. n |-> IF i = 0 THEN node ELSE Child(f[i - 1], path[i])]

LEMMA PassesExists ==
  ASSUME NEW node, NEW path, NEW n \in Nat
  PROVE  \E f : Passes(f, node, path, n)
<1> DEFINE T == {m \in Nat : \E f : Passes(f, node, path, m)}
<1>1. 0 \in T
  <2>1. Passes([i \in 0 .. 0 |-> node], node, path, 0)
    BY DEF Passes
  <2>2. QED BY <2>1
<1>2. ASSUME NEW m \in T PROVE m + 1 \in T
  <2>1. PICK f : Passes(f, node, path, m)
    OBVIOUS
  <2> DEFINE h == [i \in 0 .. m + 1 |->
                     IF i = m + 1 THEN Child(f[m], path[m + 1]) ELSE f[i]]
  <2>2. \A i \in 0 .. m : h[i] = f[i]
    OBVIOUS
  <2>3. \A i \in 0 .. m : f[i] = IF i = 0 THEN node ELSE Child(f[i - 1], path[i])
    BY <2>1 DEF Passes
  <2>4. ASSUME NEW i \in 0 .. m + 1
        PROVE  h[i] = IF i = 0 THEN node ELSE Child(h[i - 1], path[i])
    <3>1. CASE i = m + 1
      BY <2>2, <3>1
    <3>2. CASE i # m + 1
      BY <2>2, <2>3, <3>2
    <3>3. QED BY <3>1, <3>2
  <2>5. Passes(h, node, path, m + 1)
    BY <2>4 DEF Passes
  <2> HIDE DEF h
  <2>6. QED BY <2>5
<1> HIDE DEF T
<1>3. T = Nat
  BY <1>1, <1>2, NumbersFrom0 DEF T
<1>4. QED BY <1>3 DEF T

LEMMA AtPasses ==
  ASSUME NEW node, NEW path, Len(path) \in Nat
  PROVE  \E f : /\ f[0] = node
                /\ \A i \in 1 .. Len(path) : f[i] = Child(f[i - 1], path[i])
                /\ At(node, path) = f[Len(path)]
<1> DEFINE f == CHOOSE g : Passes(g, node, path, Len(path))
<1>1. Passes(f, node, path, Len(path))
  BY PassesExists
<1>2. At(node, path) = f[Len(path)]
  BY DEF At, Passes
<1> HIDE DEF f
<1>3. f[0] = node /\ \A i \in 1 .. Len(path) : f[i] = Child(f[i - 1], path[i])
  BY <1>1 DEF Passes
<1>4. QED BY <1>2, <1>3

LEMMA AtRoot == ASSUME NEW node PROVE At(node, <<>>) = node
<1>1. Len(<<>>) = 0
  OBVIOUS
<1>2. QED BY <1>1, AtPasses

(* Two paths that agree so far pass the same nodes.                        *)
LEMMA AtPrefix ==
  ASSUME NEW node, NEW S, NEW path \in Seq(S), NEW f, f[0] = node,
         \A i \in 1 .. Len(path) : f[i] = Child(f[i - 1], path[i])
  PROVE  At(node, path) = f[Len(path)]
<1> DEFINE n == Len(path)
<1>1. n \in Nat
  OBVIOUS
<1>2. PICK g : /\ g[0] = node
               /\ \A i \in 1 .. n : g[i] = Child(g[i - 1], path[i])
               /\ At(node, path) = g[n]
  BY <1>1, AtPasses
<1> DEFINE T == {i \in Nat : g[i] = f[i]}
<1>3. 0 \in T
  BY <1>2
<1>4. \A i \in 1 .. n : i - 1 \in T => i \in T
  BY <1>2
<1> HIDE DEF T, n
<1>5. \A i \in 0 .. n : i \in T
  BY <1>1, <1>3, <1>4, NumbersUpTo
<1>6. n \in T
  BY <1>1, <1>5
<1>7. QED BY <1>2, <1>6 DEF T, n

LEMMA AtAppend ==
  ASSUME NEW node, NEW S, NEW path \in Seq(S), NEW s \in S
  PROVE  At(node, Append(path, s)) = Child(At(node, path), s)
<1> DEFINE long == Append(path, s)
<1>1. /\ long \in Seq(S) /\ Len(long) = Len(path) + 1 /\ Len(path) \in Nat
      /\ long[Len(path) + 1] = s /\ \A i \in 1 .. Len(path) : long[i] = path[i]
  OBVIOUS
<1> HIDE DEF long
<1>2. PICK f : /\ f[0] = node
               /\ \A i \in 1 .. Len(long) : f[i] = Child(f[i - 1], long[i])
               /\ At(node, long) = f[Len(long)]
  BY <1>1, AtPasses
<1>3. \A i \in 1 .. Len(path) : f[i] = Child(f[i - 1], path[i])
  BY <1>1, <1>2
<1>4. At(node, path) = f[Len(path)]
  BY <1>2, <1>3, AtPrefix
<1>5. At(node, long) = Child(f[Len(path)], s)
  BY <1>1, <1>2
<1>6. QED BY <1>4, <1>5 DEF long

(* The places above a place.                                               *)
LEMMA AboveAppend ==
  ASSUME NEW S, NEW path \in Seq(S), NEW s \in S
  PROVE  Above(Append(path, s)) = Above(path) \cup {path}
<1> DEFINE long == Append(path, s)
<1>1. /\ Len(long) = Len(path) + 1 /\ Len(path) \in Nat
  OBVIOUS
<1>2. \A n \in 0 .. Len(path) : SubSeq(long, 1, n) = SubSeq(path, 1, n)
  OBVIOUS
<1>3. SubSeq(path, 1, Len(path)) = path
  OBVIOUS
<1> HIDE DEF long
<1>4. Above(long) = {SubSeq(path, 1, n) : n \in 0 .. Len(path)}
  BY <1>1, <1>2 DEF Above
<1>5. 0 .. Len(path) = (0 .. Len(path) - 1) \cup {Len(path)}
  BY <1>1
<1>6. QED BY <1>3, <1>4, <1>5 DEF Above, long

LEMMA AboveRoot == Above(<<>>) = {}
<1>1. 0 .. Len(<<>>) - 1 = {}
  OBVIOUS
<1>2. QED BY <1>1 DEF Above

----------------------------------------------------------------------------
(* The places of a document, level by level.                               *)

IsPath(path) == \E S : path \in Seq(S)

LEMMA PathAppend ==
  ASSUME NEW path, IsPath(path), NEW s
  PROVE  \E S : path \in Seq(S) /\ s \in S /\ Append(path, s) \in Seq(S)
<1>1. PICK S : path \in Seq(S)
  BY DEF IsPath
<1>2. path \in Seq(S \cup {s}) /\ s \in S \cup {s}
  BY <1>1
<1>3. Append(path, s) \in Seq(S \cup {s})
  BY <1>2
<1>4. QED BY <1>2, <1>3

LEMMA RootIsPath == IsPath(<<>>)
<1>1. <<>> \in Seq({})
  OBVIOUS
<1>2. QED BY <1>1 DEF IsPath

Longer(doc, places) ==
  {<<>>} \cup UNION {{Append(p, s) : s \in Children(At(doc, p))} : p \in places}

Levels(f, doc, n) ==
  f = [i \in 0 .. n |-> IF i = 0 THEN {<<>>} ELSE Longer(doc, f[i - 1])]

LEMMA LevelsExist ==
  ASSUME NEW doc, NEW n \in Nat
  PROVE  \E f : Levels(f, doc, n)
<1> DEFINE T == {m \in Nat : \E f : Levels(f, doc, m)}
<1>1. 0 \in T
  <2>1. Levels([i \in 0 .. 0 |-> {<<>>}], doc, 0)
    BY DEF Levels
  <2>2. QED BY <2>1
<1>2. ASSUME NEW m \in T PROVE m + 1 \in T
  <2>1. PICK f : Levels(f, doc, m)
    OBVIOUS
  <2> DEFINE h == [i \in 0 .. m + 1 |->
                     IF i = m + 1 THEN Longer(doc, f[m]) ELSE f[i]]
  <2>2. \A i \in 0 .. m : h[i] = f[i]
    OBVIOUS
  <2>3. \A i \in 0 .. m : f[i] = IF i = 0 THEN {<<>>} ELSE Longer(doc, f[i - 1])
    BY <2>1 DEF Levels
  <2>4. ASSUME NEW i \in 0 .. m + 1
        PROVE  h[i] = IF i = 0 THEN {<<>>} ELSE Longer(doc, h[i - 1])
    <3>1. CASE i = m + 1
      BY <2>2, <3>1
    <3>2. CASE i # m + 1
      BY <2>2, <2>3, <3>2
    <3>3. QED BY <3>1, <3>2
  <2>5. Levels(h, doc, m + 1)
    BY <2>4 DEF Levels
  <2> HIDE DEF h
  <2>6. QED BY <2>5
<1> HIDE DEF T
<1>3. T = Nat
  BY <1>1, <1>2, NumbersFrom0 DEF T
<1>4. QED BY <1>3 DEF T

LEMMA PathsOfLevels ==
  ASSUME NEW doc
  PROVE  \E f : /\ f[0] = {<<>>}
                /\ \A i \in 1 .. MaxDepth : f[i] = Longer(doc, f[i - 1])
                /\ PathsOf(doc) = f[MaxDepth]
<1> DEFINE f == CHOOSE g : Levels(g, doc, MaxDepth)
<1>1. Levels(f, doc, MaxDepth)
  BY LevelsExist, DepthAssumption
<1>2. PathsOf(doc) = f[MaxDepth]
  BY Zenon DEF PathsOf, Levels, Longer
<1> HIDE DEF f
<1>3. \A i \in 0 .. MaxDepth : f[i] = IF i = 0 THEN {<<>>} ELSE Longer(doc, f[i - 1])
  BY <1>1 DEF Levels
<1>4. f[0] = {<<>>} /\ \A i \in 1 .. MaxDepth : f[i] = Longer(doc, f[i - 1])
  BY <1>3, DepthAssumption
<1>5. QED BY <1>2, <1>4

LEMMA LongerOf ==
  ASSUME NEW doc, NEW places
  PROVE  /\ <<>> \in Longer(doc, places)
         /\ \A p \in places : \A s \in Children(At(doc, p)) :
              Append(p, s) \in Longer(doc, places)
         /\ \A q \in Longer(doc, places) :
              q = <<>> \/ \E p \in places : \E s \in Children(At(doc, p)) : q = Append(p, s)
BY DEF Longer

(* Every place is a path, and one that is not the root starts with a child *)
(* of the root.                                                            *)
LEMMA PlacesArePaths ==
  ASSUME NEW doc, NEW f, f[0] = {<<>>},
         \A i \in 1 .. MaxDepth : f[i] = Longer(doc, f[i - 1])
  PROVE  \A i \in 0 .. MaxDepth : \A p \in f[i] :
           IsPath(p) /\ (p # <<>> => p[1] \in Children(doc))
<1> DEFINE T == {i \in Nat : \A p \in f[i] : IsPath(p) /\ (p # <<>> => p[1] \in Children(doc))}
<1>1. 0 \in T
  BY RootIsPath
<1>2. ASSUME NEW i \in 1 .. MaxDepth, i - 1 \in T PROVE i \in T
  <2>1. f[i] = Longer(doc, f[i - 1])
    OBVIOUS
  <2>2. \A p \in f[i - 1] : IsPath(p) /\ (p # <<>> => p[1] \in Children(doc))
    BY <1>2
  <2>3. ASSUME NEW q \in f[i]
        PROVE  IsPath(q) /\ (q # <<>> => q[1] \in Children(doc))
    <3>1. CASE q = <<>>
      BY <3>1, RootIsPath
    <3>2. CASE q # <<>>
      <4> DEFINE shorter == f[i - 1]
      <4> HIDE DEF shorter
      <4>1. q \in Longer(doc, shorter)
        BY <2>1 DEF shorter
      <4>2. \E p \in shorter : \E s \in Children(At(doc, p)) : q = Append(p, s)
        BY <3>2, <4>1, LongerOf
      <4>3. PICK p \in f[i - 1] : \E s \in Children(At(doc, p)) : q = Append(p, s)
        BY <4>2 DEF shorter
      <4>4. PICK s \in Children(At(doc, p)) : q = Append(p, s)
        BY <4>3
      <4>5. IsPath(p) /\ (p # <<>> => p[1] \in Children(doc))
        BY <2>2
      <4>6. PICK S : p \in Seq(S) /\ s \in S /\ Append(p, s) \in Seq(S)
        BY <4>5, PathAppend
      <4>7. IsPath(q)
        BY <4>4, <4>6 DEF IsPath
      <4>8. CASE p = <<>>
        <5>1. s \in Children(doc)
          BY <4>8, AtRoot
        <5>2. q[1] = s
          BY <4>4, <4>8
        <5>3. QED BY <4>7, <5>1, <5>2
      <4>9. CASE p # <<>>
        <5>1. q[1] = p[1]
          BY <4>4, <4>6, <4>9
        <5>2. QED BY <4>5, <4>7, <4>9, <5>1
      <4>10. QED BY <4>8, <4>9
    <3>3. QED BY <3>1, <3>2
  <2>4. i \in Nat
    BY DepthAssumption
  <2>5. QED BY <2>3, <2>4
<1> HIDE DEF T
<1>3. \A i \in 0 .. MaxDepth : i \in T
  BY <1>1, <1>2, NumbersUpTo, DepthAssumption
<1>4. QED BY <1>3 DEF T

(* A place of one level is a place of every level below.                   *)
LEMMA LevelsGrow ==
  ASSUME NEW doc, NEW f, f[0] = {<<>>},
         \A i \in 1 .. MaxDepth : f[i] = Longer(doc, f[i - 1])
  PROVE  \A i \in 0 .. MaxDepth : f[i] \subseteq f[MaxDepth]
<1> DEFINE T == {i \in Nat : i = 0 \/ f[i - 1] \subseteq f[i]}
<1>1. 0 \in T
  OBVIOUS
<1>2. ASSUME NEW i \in 1 .. MaxDepth, i - 1 \in T PROVE i \in T
  <2>1. f[i] = Longer(doc, f[i - 1]) /\ i \in Nat
    BY DepthAssumption
  <2>2. CASE i = 1
    <3>1. f[0] \subseteq f[1]
      BY <2>1, <2>2, LongerOf
    <3>2. QED BY <2>1, <2>2, <3>1
  <2>3. CASE i # 1
    <3>1. f[i - 1] = Longer(doc, f[(i - 1) - 1]) /\ f[(i - 1) - 1] \subseteq f[i - 1]
      BY <1>2, <2>3, DepthAssumption
    <3> DEFINE a == f[(i - 1) - 1]
               b == f[i - 1]
    <3>2. a \subseteq b => Longer(doc, a) \subseteq Longer(doc, b)
      BY DEF Longer
    <3>3. f[i - 1] \subseteq f[i]
      BY <2>1, <3>1, <3>2
    <3>4. QED BY <2>1, <3>3
  <2>4. QED BY <2>2, <2>3
<1> HIDE DEF T
<1>3. \A i \in 0 .. MaxDepth : i \in T
  BY <1>1, <1>2, NumbersUpTo, DepthAssumption
<1>4. \A i \in 1 .. MaxDepth : f[i - 1] \subseteq f[i]
  BY <1>3, DepthAssumption DEF T
<1> DEFINE Q == {k \in Nat : f[MaxDepth - k] \subseteq f[MaxDepth]}
<1>5. 0 \in Q
  BY DepthAssumption
<1>6. \A k \in 1 .. MaxDepth : k - 1 \in Q => k \in Q
  <2>1. ASSUME NEW k \in 1 .. MaxDepth, k - 1 \in Q PROVE k \in Q
    <3>1. MaxDepth - (k - 1) \in 1 .. MaxDepth /\ (MaxDepth - (k - 1)) - 1 = MaxDepth - k
          /\ k \in Nat
      BY DepthAssumption
    <3>2. f[MaxDepth - k] \subseteq f[MaxDepth - (k - 1)]
      BY <1>4, <3>1
    <3>3. f[MaxDepth - (k - 1)] \subseteq f[MaxDepth]
      BY <2>1
    <3>4. QED BY <3>1, <3>2, <3>3
  <2>2. QED BY <2>1
<1> HIDE DEF Q
<1>7. \A k \in 0 .. MaxDepth : k \in Q
  BY <1>5, <1>6, NumbersUpTo, DepthAssumption
<1>8. ASSUME NEW i \in 0 .. MaxDepth PROVE f[i] \subseteq f[MaxDepth]
  <2>1. MaxDepth - i \in 0 .. MaxDepth /\ MaxDepth - (MaxDepth - i) = i
    BY DepthAssumption
  <2>2. MaxDepth - i \in Q
    BY <1>7, <2>1
  <2>3. QED BY <2>1, <2>2 DEF Q
<1>9. QED BY <1>8

LEMMA PlaceFacts ==
  ASSUME NEW doc
  PROVE  \A p \in PathsOf(doc) : IsPath(p) /\ (p # <<>> => p[1] \in Children(doc))
<1>1. PICK f : /\ f[0] = {<<>>}
               /\ \A i \in 1 .. MaxDepth : f[i] = Longer(doc, f[i - 1])
               /\ PathsOf(doc) = f[MaxDepth]
  BY PathsOfLevels
<1>2. MaxDepth \in 0 .. MaxDepth
  BY DepthAssumption
<1>3. QED BY <1>1, <1>2, PlacesArePaths

LEMMA AtNext ==
  ASSUME NEW node, NEW path, IsPath(path), NEW s
  PROVE  /\ At(node, Append(path, s)) = Child(At(node, path), s)
         /\ Above(Append(path, s)) = Above(path) \cup {path}
         /\ IsPath(Append(path, s))
<1>1. PICK S : path \in Seq(S) /\ s \in S /\ Append(path, s) \in Seq(S)
  BY PathAppend
<1>2. QED BY <1>1, AtAppend, AboveAppend DEF IsPath

(* The paths of up to four steps.                                          *)
LEMMA Short ==
  ASSUME NEW a, NEW b, NEW c, NEW d
  PROVE  /\ <<a>> = Append(<<>>, a) /\ <<a, b>> = Append(<<a>>, b)
         /\ <<a, b, c>> = Append(<<a, b>>, c)
         /\ <<a, b, c, d>> = Append(<<a, b, c>>, d)
         /\ IsPath(<<>>) /\ IsPath(<<a>>) /\ IsPath(<<a, b>>) /\ IsPath(<<a, b, c>>)
         /\ IsPath(<<a, b, c, d>>)
<1> DEFINE S == {a, b, c, d}
<1>1. /\ <<>> \in Seq(S) /\ <<a>> \in Seq(S) /\ <<a, b>> \in Seq(S) /\ <<a, b, c>> \in Seq(S)
      /\ <<a, b, c, d>> \in Seq(S)
  OBVIOUS
<1>2. /\ <<a>> = Append(<<>>, a) /\ <<a, b>> = Append(<<a>>, b)
      /\ <<a, b, c>> = Append(<<a, b>>, c)
      /\ <<a, b, c, d>> = Append(<<a, b, c>>, d)
  OBVIOUS
<1> HIDE DEF S
<1>3. QED BY <1>1, <1>2 DEF IsPath

LEMMA ShortPaths ==
  ASSUME NEW doc, NEW a, NEW b, NEW c, NEW d
  PROVE  /\ At(doc, <<a>>) = Child(doc, a)
         /\ At(doc, <<a, b>>) = Child(Child(doc, a), b)
         /\ At(doc, <<a, b, c>>) = Child(Child(Child(doc, a), b), c)
         /\ At(doc, <<a, b, c, d>>) = Child(Child(Child(Child(doc, a), b), c), d)
         /\ Above(<<a, b>>) = {<<>>, <<a>>}
         /\ Above(<<a, b, c, d>>) = {<<>>, <<a>>, <<a, b>>, <<a, b, c>>}
<1> DEFINE p0 == <<>>
           p1 == <<a>>
           p2 == <<a, b>>
           p3 == <<a, b, c>>
           p4 == <<a, b, c, d>>
<1>1. /\ p1 = Append(p0, a) /\ p2 = Append(p1, b) /\ p3 = Append(p2, c) /\ p4 = Append(p3, d)
      /\ IsPath(p0) /\ IsPath(p1) /\ IsPath(p2) /\ IsPath(p3)
  BY Short
<1>2. At(doc, p0) = doc /\ Above(p0) = {}
  BY AtRoot, AboveRoot
<1> HIDE DEF p0, p1, p2, p3, p4
<1>3. \A p, s : IsPath(p) => /\ At(doc, Append(p, s)) = Child(At(doc, p), s)
                             /\ Above(Append(p, s)) = Above(p) \cup {p}
  BY AtNext
<1>4. /\ At(doc, p1) = Child(At(doc, p0), a) /\ Above(p1) = Above(p0) \cup {p0}
      /\ At(doc, p2) = Child(At(doc, p1), b) /\ Above(p2) = Above(p1) \cup {p1}
      /\ At(doc, p3) = Child(At(doc, p2), c) /\ Above(p3) = Above(p2) \cup {p2}
      /\ At(doc, p4) = Child(At(doc, p3), d) /\ Above(p4) = Above(p3) \cup {p3}
  BY <1>1, <1>3, Zenon
<1>5. /\ Above(p2) = {p0, p1} /\ Above(p4) = {p0, p1, p2, p3}
  BY <1>2, <1>4
<1>6. QED BY <1>2, <1>4, <1>5 DEF p0, p1, p2, p3, p4

LEMMA TwoSteps ==
  ASSUME NEW doc, NEW a, NEW b
  PROVE  /\ At(doc, <<a>>) = Child(doc, a) /\ At(doc, <<a, b>>) = Child(Child(doc, a), b)
         /\ Above(<<a, b>>) = {<<>>, <<a>>} /\ IsPath(<<a, b>>) /\ <<a>> # <<>>
<1> DEFINE c == a
           d == a
<1> HIDE DEF c, d
<1>1. /\ At(doc, <<a>>) = Child(doc, a)
      /\ At(doc, <<a, b>>) = Child(Child(doc, a), b)
      /\ At(doc, <<a, b, c>>) = Child(Child(Child(doc, a), b), c)
      /\ At(doc, <<a, b, c, d>>) = Child(Child(Child(Child(doc, a), b), c), d)
      /\ Above(<<a, b>>) = {<<>>, <<a>>}
      /\ Above(<<a, b, c, d>>) = {<<>>, <<a>>, <<a, b>>, <<a, b, c>>}
  BY ShortPaths
<1>2. <<a, b>> \in Seq({a, b}) /\ <<a>> # <<>>
  OBVIOUS
<1>3. IsPath(<<a, b>>)
  BY <1>2 DEF IsPath
<1>4. QED BY <1>1, <1>2, <1>3

(* The places an enforced position may be at.                              *)
LEMMA NearPlaces ==
  ASSUME NEW doc, NEW a, NEW b, NEW c, NEW d, a \in Children(doc), b \in Children(Child(doc, a))
  PROVE  /\ <<a, b>> \in PathsOf(doc)
         /\ (/\ c \in Children(Child(Child(doc, a), b))
             /\ d \in Children(Child(Child(Child(doc, a), b), c)))
              => <<a, b, c, d>> \in PathsOf(doc)
<1>1. PICK f : /\ f[0] = {<<>>}
               /\ \A i \in 1 .. MaxDepth : f[i] = Longer(doc, f[i - 1])
               /\ PathsOf(doc) = f[MaxDepth]
  BY PathsOfLevels
<1>2. /\ 1 \in 1 .. MaxDepth /\ 2 \in 1 .. MaxDepth /\ 3 \in 1 .. MaxDepth
      /\ 4 \in 1 .. MaxDepth /\ 2 \in 0 .. MaxDepth /\ 4 \in 0 .. MaxDepth
      /\ 1 - 1 = 0 /\ 2 - 1 = 1 /\ 3 - 1 = 2 /\ 4 - 1 = 3
  BY DepthAssumption
<1> DEFINE p0 == <<>>
           p1 == <<a>>
           p2 == <<a, b>>
           p3 == <<a, b, c>>
           p4 == <<a, b, c, d>>
<1>3. /\ f[1] = Longer(doc, f[0]) /\ f[2] = Longer(doc, f[1]) /\ f[3] = Longer(doc, f[2])
      /\ f[4] = Longer(doc, f[3])
  BY <1>1, <1>2
<1>4. f[2] \subseteq PathsOf(doc) /\ f[4] \subseteq PathsOf(doc)
  <2>1. \A i \in 0 .. MaxDepth : f[i] \subseteq f[MaxDepth]
    BY <1>1, LevelsGrow
  <2>2. QED BY <1>1, <1>2, <2>1
<1>5. p0 \in f[0]
  BY <1>1
<1>6. /\ p1 = Append(p0, a) /\ p2 = Append(p1, b) /\ p3 = Append(p2, c) /\ p4 = Append(p3, d)
  BY Short
<1>7. /\ At(doc, p0) = doc /\ At(doc, p1) = Child(doc, a)
      /\ At(doc, p2) = Child(Child(doc, a), b)
      /\ At(doc, p3) = Child(Child(Child(doc, a), b), c)
  <2>1. At(doc, <<>>) = doc
    BY AtRoot
  <2>2. /\ At(doc, <<a>>) = Child(doc, a)
        /\ At(doc, <<a, b>>) = Child(Child(doc, a), b)
        /\ At(doc, <<a, b, c>>) = Child(Child(Child(doc, a), b), c)
        /\ At(doc, <<a, b, c, d>>) = Child(Child(Child(Child(doc, a), b), c), d)
    BY ShortPaths
  <2>3. QED BY <2>1, <2>2
<1> DEFINE f0 == f[0]
           f1 == f[1]
           f2 == f[2]
           f3 == f[3]
           f4 == f[4]
<1>8. p0 \in f0 /\ f1 = Longer(doc, f0) /\ f2 = Longer(doc, f1) /\ f3 = Longer(doc, f2)
      /\ f4 = Longer(doc, f3)
  BY <1>3, <1>5
<1> HIDE DEF f0, f1, f2, f3, f4, p0, p1, p2, p3, p4
<1>9. p1 \in f1
  BY <1>6, <1>7, <1>8, LongerOf
<1>10. p2 \in f2
  BY <1>6, <1>7, <1>8, <1>9, LongerOf
<1>11. ASSUME c \in Children(Child(Child(doc, a), b)),
              d \in Children(Child(Child(Child(doc, a), b), c))
       PROVE  p4 \in f4
  <2>1. p3 \in f3
    BY <1>6, <1>7, <1>8, <1>10, <1>11, LongerOf
  <2>2. QED BY <1>6, <1>7, <1>8, <1>11, <2>1, LongerOf
<1>12. QED BY <1>4, <1>10, <1>11 DEF f2, f4, p2, p4

----------------------------------------------------------------------------
(* A walk visits the places, and one that stays out of bindings visits     *)
(* those below no binding.                                                 *)

Visit(path, node) == [path |-> path, node |-> node]

Further(doc, into, seen) ==
  {Visit(<<>>, doc)}
    \cup UNION {{Visit(Append(v.path, s), Child(v.node, s)) : s \in Entered(v.node, into)} :
                  v \in seen}

Walks(g, doc, into, n) ==
  g = [i \in 0 .. n |-> IF i = 0 THEN {Visit(<<>>, doc)} ELSE Further(doc, into, g[i - 1])]

LEMMA WalksExist ==
  ASSUME NEW doc, NEW into, NEW n \in Nat
  PROVE  \E g : Walks(g, doc, into, n)
<1> DEFINE T == {m \in Nat : \E g : Walks(g, doc, into, m)}
<1>1. 0 \in T
  <2>1. Walks([i \in 0 .. 0 |-> {Visit(<<>>, doc)}], doc, into, 0)
    BY DEF Walks
  <2>2. QED BY <2>1
<1>2. ASSUME NEW m \in T PROVE m + 1 \in T
  <2>1. PICK g : Walks(g, doc, into, m)
    OBVIOUS
  <2> DEFINE h == [i \in 0 .. m + 1 |->
                     IF i = m + 1 THEN Further(doc, into, g[m]) ELSE g[i]]
  <2>2. \A i \in 0 .. m : h[i] = g[i]
    OBVIOUS
  <2>3. \A i \in 0 .. m :
          g[i] = IF i = 0 THEN {Visit(<<>>, doc)} ELSE Further(doc, into, g[i - 1])
    BY <2>1 DEF Walks
  <2>4. ASSUME NEW i \in 0 .. m + 1
        PROVE  h[i] = IF i = 0 THEN {Visit(<<>>, doc)} ELSE Further(doc, into, h[i - 1])
    <3>1. CASE i = m + 1
      BY <2>2, <3>1
    <3>2. CASE i # m + 1
      <4>1. i \in 0 .. m /\ h[i] = g[i]
        BY <2>2, <3>2
      <4>2. CASE i = 0
        BY <2>3, <4>1, <4>2
      <4>3. CASE i # 0
        <5>1. i - 1 \in 0 .. m /\ h[i - 1] = g[i - 1]
          BY <2>2, <4>1, <4>3
        <5>2. g[i] = Further(doc, into, g[i - 1])
          BY <2>3, <4>1, <4>3
        <5>3. QED BY <4>1, <4>3, <5>1, <5>2
      <4>4. QED BY <4>2, <4>3
    <3>3. QED BY <3>1, <3>2
  <2>5. Walks(h, doc, into, m + 1)
    BY <2>4 DEF Walks
  <2> HIDE DEF h
  <2>6. QED BY <2>5
<1> HIDE DEF T
<1>3. T = Nat
  BY <1>1, <1>2, NumbersFrom0 DEF T
<1>4. QED BY <1>3 DEF T

LEMMA WalkOfVisits ==
  ASSUME NEW doc, NEW into
  PROVE  \E g : /\ g[0] = {Visit(<<>>, doc)}
                /\ \A i \in 1 .. MaxDepth : g[i] = Further(doc, into, g[i - 1])
                /\ Walk(doc, into) = g[MaxDepth]
<1> DEFINE g == CHOOSE h : Walks(h, doc, into, MaxDepth)
<1>1. Walks(g, doc, into, MaxDepth)
  BY WalksExist, DepthAssumption
<1>2. Walk(doc, into) = g[MaxDepth]
  BY Zenon DEF Walk, Walks, Further, Visit
<1> HIDE DEF g
<1>3. \A i \in 0 .. MaxDepth :
        g[i] = IF i = 0 THEN {Visit(<<>>, doc)} ELSE Further(doc, into, g[i - 1])
  BY <1>1 DEF Walks
<1>4. g[0] = {Visit(<<>>, doc)} /\ \A i \in 1 .. MaxDepth : g[i] = Further(doc, into, g[i - 1])
  BY <1>3, DepthAssumption
<1>5. QED BY <1>2, <1>4

(* The places a walk gets to.                                              *)
Open(doc, into, path) == into \/ \A above \in Above(path) : ~IsBinding(At(doc, above))

Visits(doc, into, places) ==
  {Visit(p, At(doc, p)) : p \in {q \in places : Open(doc, into, q)}}

LEMMA OpenNext ==
  ASSUME NEW doc, NEW into, NEW path, IsPath(path), NEW s
  PROVE  Open(doc, into, Append(path, s))
           <=> Open(doc, into, path) /\ (into \/ ~IsBinding(At(doc, path)))
<1>1. Above(Append(path, s)) = Above(path) \cup {path}
  BY AtNext
<1>2. QED BY <1>1 DEF Open

LEMMA EnteredFrom ==
  ASSUME NEW node, NEW into, NEW s
  PROVE  s \in Entered(node, into) <=> s \in Children(node) /\ (into \/ ~IsBinding(node))
BY DEF Entered

LEMMA VisitsOf ==
  ASSUME NEW doc, NEW into, NEW places
  PROVE  /\ \A p \in places : Open(doc, into, p) => Visit(p, At(doc, p)) \in Visits(doc, into, places)
         /\ \A v \in Visits(doc, into, places) : 
              \E p \in places : Open(doc, into, p) /\ v = Visit(p, At(doc, p))
BY DEF Visits

LEMMA FurtherOf ==
  ASSUME NEW doc, NEW into, NEW seen
  PROVE  /\ Visit(<<>>, doc) \in Further(doc, into, seen)
         /\ \A v \in seen : \A s \in Entered(v.node, into) :
              Visit(Append(v.path, s), Child(v.node, s)) \in Further(doc, into, seen)
         /\ \A w \in Further(doc, into, seen) :
              \/ w = Visit(<<>>, doc)
              \/ \E v \in seen : \E s \in Entered(v.node, into) :
                   w = Visit(Append(v.path, s), Child(v.node, s))
<1> DEFINE Of(v) == {Visit(Append(v.path, s), Child(v.node, s)) : s \in Entered(v.node, into)}
<1>1. Further(doc, into, seen) = {Visit(<<>>, doc)} \cup UNION {Of(v) : v \in seen}
  BY Zenon DEF Further
<1>2. \A v : \A s \in Entered(v.node, into) : Visit(Append(v.path, s), Child(v.node, s)) \in Of(v)
  OBVIOUS
<1>3. \A v : \A w \in Of(v) : 
        \E s \in Entered(v.node, into) : w = Visit(Append(v.path, s), Child(v.node, s))
  OBVIOUS
<1> HIDE DEF Of
<1>4. Visit(<<>>, doc) \in Further(doc, into, seen)
  BY <1>1
<1>5. \A v \in seen : \A w \in Of(v) : w \in Further(doc, into, seen)
  BY <1>1
<1>6. \A w \in Further(doc, into, seen) : w = Visit(<<>>, doc) \/ \E v \in seen : w \in Of(v)
  BY <1>1
<1>7. \A v \in seen : \A s \in Entered(v.node, into) :
        Visit(Append(v.path, s), Child(v.node, s)) \in Further(doc, into, seen)
  BY <1>2, <1>5, Zenon
<1>8. \A w \in Further(doc, into, seen) :
        \/ w = Visit(<<>>, doc)
        \/ \E v \in seen : \E s \in Entered(v.node, into) :
             w = Visit(Append(v.path, s), Child(v.node, s))
  BY <1>3, <1>6, Zenon
<1>9. QED BY <1>4, <1>7, <1>8, Zenon

LEMMA VisitParts ==
  ASSUME NEW path, NEW node
  PROVE  Visit(path, node).path = path /\ Visit(path, node).node = node
BY DEF Visit

LEMMA RootIsOpen == ASSUME NEW doc, NEW into PROVE Open(doc, into, <<>>)
BY AboveRoot DEF Open

(* One level further, a walk has visited the places one level longer.      *)
LEMMA WalkStep ==
  ASSUME NEW doc, NEW into, NEW places, \A p \in places : IsPath(p)
  PROVE  Further(doc, into, Visits(doc, into, places)) = Visits(doc, into, Longer(doc, places))
<1> DEFINE seen == Visits(doc, into, places)
           long == Longer(doc, places)
<1>1. ASSUME NEW w \in Further(doc, into, seen) PROVE w \in Visits(doc, into, long)
  <2>1. CASE w = Visit(<<>>, doc)
    <3>1. <<>> \in long /\ Open(doc, into, <<>>) /\ At(doc, <<>>) = doc
      BY LongerOf, RootIsOpen, AtRoot
    <3> HIDE DEF long
    <3>2. QED BY <2>1, <3>1, VisitsOf
  <2>2. ASSUME NEW v \in seen, NEW s \in Entered(v.node, into),
               w = Visit(Append(v.path, s), Child(v.node, s))
        PROVE  w \in Visits(doc, into, long)
    <3>1. PICK p \in places : Open(doc, into, p) /\ v = Visit(p, At(doc, p))
      BY <2>2, VisitsOf
    <3>2. v.path = p /\ v.node = At(doc, p)
      BY <3>1, VisitParts
    <3>3. IsPath(p) /\ s \in Children(At(doc, p)) /\ (into \/ ~IsBinding(At(doc, p)))
      BY <2>2, <3>2, EnteredFrom
    <3>4. Append(p, s) \in long /\ Open(doc, into, Append(p, s))
          /\ At(doc, Append(p, s)) = Child(At(doc, p), s)
      BY <3>1, <3>3, LongerOf, OpenNext, AtNext
    <3> DEFINE q == Append(p, s)
    <3>5. w = Visit(q, At(doc, q))
      BY <2>2, <3>2, <3>4
    <3> HIDE DEF q, long
    <3>6. q \in long /\ Open(doc, into, q)
      BY <3>4 DEF q
    <3>7. QED BY <3>5, <3>6, VisitsOf
  <2> HIDE DEF seen, long
  <2>3. QED BY <2>1, <2>2, FurtherOf
<1>2. ASSUME NEW w \in Visits(doc, into, long) PROVE w \in Further(doc, into, seen)
  <2> HIDE DEF long
  <2>1. PICK q \in long : Open(doc, into, q) /\ w = Visit(q, At(doc, q))
    BY <1>2, VisitsOf
  <2> USE DEF long
  <2>2. CASE q = <<>>
    <3>1. w = Visit(<<>>, doc)
      BY <2>1, <2>2, AtRoot
    <3> HIDE DEF seen
    <3>2. QED BY <3>1, FurtherOf
  <2>3. CASE q # <<>>
    <3>1. \E p \in places : \E s \in Children(At(doc, p)) : q = Append(p, s)
      BY <2>1, <2>3, LongerOf
    <3>2. PICK p \in places : \E s \in Children(At(doc, p)) : q = Append(p, s)
      BY <3>1
    <3>3. PICK s \in Children(At(doc, p)) : q = Append(p, s)
      BY <3>2
    <3>4. /\ IsPath(p) /\ Open(doc, into, p) /\ (into \/ ~IsBinding(At(doc, p)))
          /\ At(doc, q) = Child(At(doc, p), s)
      BY <2>1, <3>3, OpenNext, AtNext
    <3>5. s \in Entered(At(doc, p), into)
      BY <3>3, <3>4, EnteredFrom
    <3> DEFINE v == Visit(p, At(doc, p))
    <3>6. v \in seen
      BY <3>4, VisitsOf
    <3>7. v.path = p /\ v.node = At(doc, p)
      BY VisitParts
    <3> HIDE DEF v, seen
    <3>8. w = Visit(Append(v.path, s), Child(v.node, s)) /\ s \in Entered(v.node, into)
      BY <2>1, <3>3, <3>4, <3>5, <3>7
    <3>9. QED BY <3>6, <3>8, FurtherOf
  <2>4. QED BY <2>2, <2>3
<1> HIDE DEF seen, long
<1>3. Further(doc, into, seen) = Visits(doc, into, long)
  BY <1>1, <1>2
<1>4. QED BY <1>3 DEF seen, long

LEMMA WalkVisits ==
  ASSUME NEW doc, NEW into
  PROVE  Walk(doc, into) = Visits(doc, into, PathsOf(doc))
<1>1. PICK f : /\ f[0] = {<<>>}
               /\ \A i \in 1 .. MaxDepth : f[i] = Longer(doc, f[i - 1])
               /\ PathsOf(doc) = f[MaxDepth]
  BY PathsOfLevels
<1>2. PICK g : /\ g[0] = {Visit(<<>>, doc)}
               /\ \A i \in 1 .. MaxDepth : g[i] = Further(doc, into, g[i - 1])
               /\ Walk(doc, into) = g[MaxDepth]
  BY WalkOfVisits
<1>3. \A i \in 0 .. MaxDepth : \A p \in f[i] : IsPath(p)
  BY <1>1, PlacesArePaths
<1> DEFINE T == {i \in Nat : g[i] = Visits(doc, into, f[i])}
<1>4. 0 \in T
  <2>1. Visits(doc, into, {<<>>}) = {Visit(<<>>, doc)}
    <3> DEFINE root == {<<>>}
    <3>1. /\ \A p \in root : p = <<>>
          /\ <<>> \in root
      OBVIOUS
    <3>2. At(doc, <<>>) = doc /\ Open(doc, into, <<>>)
      BY AtRoot, RootIsOpen
    <3> HIDE DEF root
    <3>3. Visit(<<>>, doc) \in Visits(doc, into, root)
      BY <3>1, <3>2, VisitsOf
    <3>4. \A v \in Visits(doc, into, root) : v = Visit(<<>>, doc)
      BY <3>1, <3>2, VisitsOf
    <3>5. QED BY <3>3, <3>4 DEF root
  <2>2. QED BY <1>1, <1>2, <2>1
<1>5. ASSUME NEW i \in 1 .. MaxDepth, i - 1 \in T PROVE i \in T
  <2>1. f[i] = Longer(doc, f[i - 1]) /\ g[i] = Further(doc, into, g[i - 1])
    BY <1>1, <1>2
  <2>2. g[i - 1] = Visits(doc, into, f[i - 1])
    BY <1>5
  <2>3. \A p \in f[i - 1] : IsPath(p)
    BY <1>3, DepthAssumption
  <2> DEFINE places == f[i - 1]
  <2>4. g[i] = Further(doc, into, Visits(doc, into, places)) /\ f[i] = Longer(doc, places)
    BY <2>1, <2>2
  <2>5. \A p \in places : IsPath(p)
    BY <2>3
  <2> HIDE DEF places
  <2>6. g[i] = Visits(doc, into, f[i])
    BY <2>4, <2>5, WalkStep
  <2>7. QED BY <2>6, DepthAssumption
<1> HIDE DEF T
<1>6. \A i \in 0 .. MaxDepth : i \in T
  BY <1>4, <1>5, NumbersUpTo, DepthAssumption
<1>7. g[MaxDepth] = Visits(doc, into, f[MaxDepth])
  BY <1>6, DepthAssumption DEF T
<1>8. QED BY <1>1, <1>2, <1>7

----------------------------------------------------------------------------
(* What a location says is the path it was made from, in each spelling.    *)

Reading(f, location, n) ==
  f = [i \in 0 .. n |->
         IF i = 0 THEN <<>>
         ELSE IF location[i].mark THEN f[i - 1]
         ELSE Append(f[i - 1], location[i].text)]

(* The names up to a token, from the names up to the one before.           *)
Reread(names, token) == IF token.mark THEN names ELSE Append(names, token.text)

LEMMA ReadingExists ==
  ASSUME NEW location, NEW n \in Nat
  PROVE  \E f : Reading(f, location, n)
<1> DEFINE T == {m \in Nat : \E f : Reading(f, location, m)}
<1>1. 0 \in T
  <2>1. Reading([i \in 0 .. 0 |-> <<>>], location, 0)
    BY DEF Reading
  <2>2. QED BY <2>1
<1>2. ASSUME NEW m \in T PROVE m + 1 \in T
  <2>1. PICK f : Reading(f, location, m)
    OBVIOUS
  <2> DEFINE h == [i \in 0 .. m + 1 |->
                     IF i = m + 1 THEN Reread(f[m], location[m + 1]) ELSE f[i]]
  <2>2. \A i \in 0 .. m : h[i] = f[i]
    OBVIOUS
  <2>3. \A i \in 0 .. m :
          f[i] = IF i = 0 THEN <<>> ELSE Reread(f[i - 1], location[i])
    BY <2>1 DEF Reading, Reread
  <2>4. ASSUME NEW i \in 0 .. m + 1
        PROVE  h[i] = IF i = 0 THEN <<>> ELSE Reread(h[i - 1], location[i])
    <3>1. CASE i = m + 1
      BY <2>2, <3>1
    <3>2. CASE i # m + 1
      BY <2>2, <2>3, <3>2
    <3>3. QED BY <3>1, <3>2
  <2>5. Reading(h, location, m + 1)
    BY <2>4 DEF Reading, Reread
  <2> HIDE DEF h
  <2>6. QED BY <2>5
<1> HIDE DEF T
<1>3. T = Nat
  BY <1>1, <1>2, NumbersFrom0 DEF T
<1>4. QED BY <1>3 DEF T

LEMMA PathOfReads ==
  ASSUME NEW location, Len(location) \in Nat
  PROVE  \E f : /\ f[0] = <<>>
                /\ \A i \in 1 .. Len(location) : f[i] = Reread(f[i - 1], location[i])
                /\ PathOf(location) = f[Len(location)]
<1> DEFINE f == CHOOSE g : Reading(g, location, Len(location))
<1>1. Reading(f, location, Len(location))
  BY ReadingExists
<1>2. PathOf(location) = f[Len(location)]
  BY DEF PathOf, Reading
<1> HIDE DEF f
<1>3. \A i \in 0 .. Len(location) :
        f[i] = IF i = 0 THEN <<>> ELSE Reread(f[i - 1], location[i])
  BY <1>1 DEF Reading, Reread
<1>4. f[0] = <<>> /\ \A i \in 1 .. Len(location) : f[i] = Reread(f[i - 1], location[i])
  BY <1>3
<1>5. QED BY <1>2, <1>4

LEMMA PathOfNothing == PathOf(<<>>) = <<>>
<1>1. Len(<<>>) = 0
  OBVIOUS
<1>2. QED BY <1>1, PathOfReads

LEMMA PathOfAppend ==
  ASSUME NEW S, NEW location \in Seq(S), NEW t \in S
  PROVE  PathOf(Append(location, t)) = Reread(PathOf(location), t)
<1> DEFINE long == Append(location, t)
           n == Len(location)
<1>1. /\ Len(long) = n + 1 /\ n \in Nat /\ long[n + 1] = t
      /\ \A i \in 1 .. n : long[i] = location[i]
  OBVIOUS
<1> HIDE DEF long, n
<1>2. PICK f : /\ f[0] = <<>>
               /\ \A i \in 1 .. Len(long) : f[i] = Reread(f[i - 1], long[i])
               /\ PathOf(long) = f[Len(long)]
  <2>1. Len(long) \in Nat
    BY <1>1
  <2>2. QED BY <2>1, PathOfReads
<1>3. PICK g : /\ g[0] = <<>>
               /\ \A i \in 1 .. n : g[i] = Reread(g[i - 1], location[i])
               /\ PathOf(location) = g[n]
  BY <1>1, PathOfReads DEF n
<1> DEFINE T == {i \in Nat : g[i] = f[i]}
<1>4. 0 \in T
  BY <1>2, <1>3
<1>5. \A i \in 1 .. n : i - 1 \in T => i \in T
  BY <1>1, <1>2, <1>3
<1> HIDE DEF T
<1>6. \A i \in 0 .. n : i \in T
  BY <1>1, <1>4, <1>5, NumbersUpTo
<1>7. g[n] = f[n]
  BY <1>1, <1>6 DEF T
<1>8. f[n + 1] = Reread(f[n], t)
  BY <1>1, <1>2
<1>9. QED BY <1>1, <1>2, <1>3, <1>7, <1>8 DEF long

LEMMA TokensRead ==
  ASSUME NEW names, NEW text
  PROVE  /\ Reread(names, Mark(text)) = names
         /\ Reread(names, Label(text)) = Append(names, text)
BY DEF Reread, Mark, Label

(* A step's part of a location adds the step to what the location says.    *)
LEMMA PartReads ==
  ASSUME NEW S, NEW location \in Seq(S), NEW a, NEW b, NEW name,
         Mark(a) \in S, Mark(b) \in S, Label(name) \in S,
         NEW part, \/ part = <<Label(name)>>
                   \/ part = <<Mark(a), Label(name)>>
                   \/ part = <<Mark(a), Label(name), Mark(b)>>
  PROVE  /\ location \o part \in Seq(S)
         /\ PathOf(location \o part) = Append(PathOf(location), name)
<1> DEFINE ma == Mark(a)
           mb == Mark(b)
           l  == Label(name)
<1>1. ma \in S /\ mb \in S /\ l \in S
  OBVIOUS
<1>2. part = <<l>> \/ part = <<ma, l>> \/ part = <<ma, l, mb>>
  OBVIOUS
<1>3. \A names : /\ Reread(names, ma) = names /\ Reread(names, mb) = names
                 /\ Reread(names, l) = Append(names, name)
  BY TokensRead
<1>4. /\ location \o <<l>> = Append(location, l)
      /\ location \o <<ma, l>> = Append(Append(location, ma), l)
      /\ location \o <<ma, l, mb>> = Append(Append(Append(location, ma), l), mb)
  <2> HIDE DEF ma, mb, l
  <2>1. QED BY <1>1
<1> HIDE DEF ma, mb, l
<1>5. /\ Append(location, ma) \in Seq(S) /\ Append(location, l) \in Seq(S)
      /\ Append(Append(location, ma), l) \in Seq(S)
      /\ Append(Append(Append(location, ma), l), mb) \in Seq(S)
  BY <1>1
<1>6. CASE part = <<l>>
  <2>1. PathOf(Append(location, l)) = Append(PathOf(location), name)
    BY <1>1, <1>3, PathOfAppend
  <2>2. QED BY <1>4, <1>5, <1>6, <2>1
<1>7. PathOf(Append(Append(location, ma), l)) = Append(PathOf(location), name)
  <2>1. PathOf(Append(location, ma)) = PathOf(location)
    BY <1>1, <1>3, PathOfAppend
  <2>2. QED BY <1>1, <1>3, <1>5, <2>1, PathOfAppend
<1>8. CASE part = <<ma, l>>
  BY <1>4, <1>5, <1>7, <1>8
<1>9. CASE part = <<ma, l, mb>>
  <2>1. PathOf(Append(Append(Append(location, ma), l), mb)) = PathOf(Append(Append(location, ma), l))
    BY <1>1, <1>3, <1>5, PathOfAppend
  <2>2. QED BY <1>4, <1>5, <1>7, <1>9, <2>1
<1>10. QED BY <1>2, <1>6, <1>8, <1>9

Spelling(f, doc, spelling, path, n) ==
  f = [i \in 0 .. n |-> IF i = 0 THEN <<>> ELSE f[i - 1] \o Part(doc, spelling, path, i)]

LEMMA SpellingExists ==
  ASSUME NEW doc, NEW spelling, NEW path, NEW n \in Nat
  PROVE  \E f : Spelling(f, doc, spelling, path, n)
<1> DEFINE T == {m \in Nat : \E f : Spelling(f, doc, spelling, path, m)}
<1>1. 0 \in T
  <2>1. Spelling([i \in 0 .. 0 |-> <<>>], doc, spelling, path, 0)
    BY DEF Spelling
  <2>2. QED BY <2>1
<1>2. ASSUME NEW m \in T PROVE m + 1 \in T
  <2>1. PICK f : Spelling(f, doc, spelling, path, m)
    OBVIOUS
  <2> DEFINE h == [i \in 0 .. m + 1 |->
                     IF i = m + 1 THEN f[m] \o Part(doc, spelling, path, m + 1) ELSE f[i]]
  <2>2. \A i \in 0 .. m : h[i] = f[i]
    OBVIOUS
  <2>3. \A i \in 0 .. m :
          f[i] = IF i = 0 THEN <<>> ELSE f[i - 1] \o Part(doc, spelling, path, i)
    BY <2>1 DEF Spelling
  <2>4. ASSUME NEW i \in 0 .. m + 1
        PROVE  h[i] = IF i = 0 THEN <<>> ELSE h[i - 1] \o Part(doc, spelling, path, i)
    <3>1. CASE i = m + 1
      BY <2>2, <3>1
    <3>2. CASE i # m + 1
      BY <2>2, <2>3, <3>2
    <3>3. QED BY <3>1, <3>2
  <2>5. Spelling(h, doc, spelling, path, m + 1)
    BY <2>4 DEF Spelling
  <2> HIDE DEF h
  <2>6. QED BY <2>5
<1> HIDE DEF T
<1>3. T = Nat
  BY <1>1, <1>2, NumbersFrom0 DEF T
<1>4. QED BY <1>3 DEF T

Spelled(f, doc, spelling, path) ==
  /\ f[0] = <<>>
  /\ \A i \in 1 .. Len(path) : f[i] = f[i - 1] \o Part(doc, spelling, path, i)
  /\ Location(doc, spelling, path)
       = IF spelling = "slashed" /\ path = <<>> THEN <<Mark("/")>> ELSE f[Len(path)]

LEMMA LocationSpelled ==
  ASSUME NEW doc, NEW spelling, NEW path, Len(path) \in Nat
  PROVE  \E f : Spelled(f, doc, spelling, path)
<1> DEFINE f == CHOOSE g : Spelling(g, doc, spelling, path, Len(path))
<1>1. Spelling(f, doc, spelling, path, Len(path))
  BY SpellingExists
<1>2. Location(doc, spelling, path)
        = IF spelling = "slashed" /\ path = <<>> THEN <<Mark("/")>> ELSE f[Len(path)]
  BY Zenon DEF Location, Spelling
<1> HIDE DEF f
<1>3. \A i \in 0 .. Len(path) :
        f[i] = IF i = 0 THEN <<>> ELSE f[i - 1] \o Part(doc, spelling, path, i)
  BY <1>1 DEF Spelling
<1>4. f[0] = <<>>
  BY <1>3
<1>5. ASSUME NEW i \in 1 .. Len(path) PROVE f[i] = f[i - 1] \o Part(doc, spelling, path, i)
  <2>1. i \in 0 .. Len(path) /\ i # 0
    OBVIOUS
  <2>2. QED BY <1>3, <2>1
<1>6. Spelled(f, doc, spelling, path)
  BY <1>2, <1>4, <1>5 DEF Spelled
<1>7. QED BY <1>6

LEMMA PartForm ==
  ASSUME NEW doc, NEW spelling, NEW path, NEW i
  PROVE  \E a \in {"/", "[", "."} :
           \/ Part(doc, spelling, path, i) = <<Label(path[i])>>
           \/ Part(doc, spelling, path, i) = <<Mark(a), Label(path[i])>>
           \/ Part(doc, spelling, path, i) = <<Mark(a), Label(path[i]), Mark("]")>>
BY DEF Part

(* Whatever the spelling, a location can be read back as its path.         *)
LEMMA LocationReads ==
  ASSUME NEW doc, NEW spelling, NEW path, IsPath(path)
  PROVE  PathOf(Location(doc, spelling, path)) = path
<1> DEFINE n == Len(path)
           S == {Mark(a) : a \in {"/", "[", ".", "]"}} \cup {Label(path[i]) : i \in 1 .. n}
<1>1. PICK U : path \in Seq(U)
  BY DEF IsPath
<1>2. /\ n \in Nat /\ SubSeq(path, 1, 0) = <<>> /\ SubSeq(path, 1, n) = path
      /\ \A i \in 1 .. n : SubSeq(path, 1, i) = Append(SubSeq(path, 1, i - 1), path[i])
  BY <1>1
<1>3. PICK f : Spelled(f, doc, spelling, path)
  BY <1>2, LocationSpelled
<1>4. /\ f[0] = <<>>
      /\ \A i \in 1 .. n : f[i] = f[i - 1] \o Part(doc, spelling, path, i)
      /\ Location(doc, spelling, path)
           = IF spelling = "slashed" /\ path = <<>> THEN <<Mark("/")>> ELSE f[n]
  BY <1>3 DEF Spelled
<1>5. /\ \A a \in {"/", "[", ".", "]"} : Mark(a) \in S
      /\ \A i \in 1 .. n : Label(path[i]) \in S
      /\ <<>> \in Seq(S)
  OBVIOUS
<1> HIDE DEF n, S
<1> DEFINE T == {i \in Nat : f[i] \in Seq(S) /\ PathOf(f[i]) = SubSeq(path, 1, i)}
<1>6. 0 \in T
  BY <1>2, <1>4, <1>5, PathOfNothing
<1>7. ASSUME NEW i \in 1 .. n, i - 1 \in T PROVE i \in T
  <2>1. f[i - 1] \in Seq(S) /\ PathOf(f[i - 1]) = SubSeq(path, 1, i - 1)
    BY <1>7
  <2> DEFINE part == Part(doc, spelling, path, i)
             name == path[i]
             before == f[i - 1]
  <2>2. PICK a \in {"/", "[", "."} : part = <<Label(name)>> \/ part = <<Mark(a), Label(name)>>
                                      \/ part = <<Mark(a), Label(name), Mark("]")>>
    BY PartForm
  <2>3. Mark(a) \in S /\ Mark("]") \in S /\ Label(name) \in S /\ before \in Seq(S)
    BY <1>5, <2>1
  <2> DEFINE b == "]"
  <2> HIDE DEF part, name, before, b
  <2>4. before \o part \in Seq(S) /\ PathOf(before \o part) = Append(PathOf(before), name)
    BY <2>2, <2>3, PartReads DEF b
  <2>5. f[i] = before \o part
    BY <1>4 DEF before, part
  <2>6. PathOf(before) = SubSeq(path, 1, i - 1)
    BY <2>1 DEF before
  <2>7. Append(SubSeq(path, 1, i - 1), name) = SubSeq(path, 1, i)
    BY <1>2 DEF name
  <2>8. f[i] \in Seq(S) /\ PathOf(f[i]) = SubSeq(path, 1, i)
    BY <2>4, <2>5, <2>6, <2>7
  <2>9. QED BY <1>2, <2>8
<1> HIDE DEF T
<1>8. \A i \in 0 .. n : i \in T
  BY <1>2, <1>6, <1>7, NumbersUpTo
<1>9. PathOf(f[n]) = path
  BY <1>2, <1>8 DEF T
<1>10. CASE spelling = "slashed" /\ path = <<>>
  <2> DEFINE slash == Mark("/")
  <2>1. slash \in S /\ <<slash>> = Append(<<>>, slash)
    BY <1>5
  <2>2. \A names : Reread(names, slash) = names
    BY TokensRead
  <2> HIDE DEF slash
  <2>3. PathOf(<<slash>>) = <<>>
    BY <1>5, <2>1, <2>2, PathOfAppend, PathOfNothing
  <2>4. QED BY <1>4, <1>10, <2>3 DEF slash
<1>11. QED BY <1>4, <1>9, <1>10

(* What comes before the first separator: the path's first step, but for a *)
(* bracketed location in a list.                                           *)
LEMMA PartHead ==
  ASSUME NEW doc, NEW spelling, NEW path, NEW U, path \in Seq(U), path # <<>>
  PROVE  LET part == Part(doc, spelling, path, 1)
         IN  \/ part = <<Mark("/"), Label(path[1])>>
             \/ part = <<Label(path[1])>>
             \/ /\ part = <<Mark("["), Label(path[1]), Mark("]")>>
                /\ spelling = "bracketed" /\ doc.kind = "list"
<1>1. SubSeq(path, 1, 1 - 1) = <<>>
  OBVIOUS
<1>2. At(doc, SubSeq(path, 1, 1 - 1)) = doc
  BY <1>1, AtRoot
<1>3. CASE spelling = "slashed"
  BY <1>3 DEF Part
<1>4. CASE spelling = "bracketed" /\ doc.kind = "list"
  BY <1>2, <1>4 DEF Part
<1>5. CASE ~(spelling = "slashed") /\ ~(spelling = "bracketed" /\ doc.kind = "list")
  BY <1>2, <1>5 DEF Part
<1>6. QED BY <1>3, <1>4, <1>5

LEMMA HeadOfTokens ==
  ASSUME NEW S, NEW location \in Seq(S), NEW name, NEW part,
         Len(part) \in Nat, Len(part) <= Len(location),
         \A j \in 1 .. Len(part) : location[j] = part[j]
  PROVE  /\ part = <<Mark("/"), Label(name)>> => HeadOf(location) = name
         /\ part = <<Label(name)>> => HeadOf(location) = name
         /\ part = <<Mark("["), Label(name), Mark("]")>> => HeadOf(location) = ""
<1>1. /\ Mark("/").mark /\ Mark("[").mark /\ ~Label(name).mark /\ Label(name).text = name
      /\ Mark("[") # Mark("/") /\ Label(name) # Mark("/")
  BY DEF Mark, Label
<1>2. ASSUME part = <<Mark("/"), Label(name)>> PROVE HeadOf(location) = name
  <2>1. location # <<>> /\ location[1] = Mark("/") /\ location[2] = Label(name)
        /\ ~(2 > Len(location))
    BY <1>2
  <2>2. QED BY <1>1, <2>1 DEF HeadOf, NameAt
<1>3. ASSUME part = <<Label(name)>> PROVE HeadOf(location) = name
  <2>1. location # <<>> /\ location[1] = Label(name) /\ ~(1 > Len(location))
    BY <1>3
  <2>2. QED BY <1>1, <2>1 DEF HeadOf, NameAt
<1>4. ASSUME part = <<Mark("["), Label(name), Mark("]")>> PROVE HeadOf(location) = ""
  <2>1. location # <<>> /\ location[1] = Mark("[")
    BY <1>4
  <2>2. QED BY <1>1, <2>1 DEF HeadOf, NameAt
<1>5. QED BY <1>2, <1>3, <1>4

LEMMA HeadOfLocation ==
  ASSUME NEW doc, NEW spelling, NEW path, IsPath(path), path # <<>>
  PROVE  \/ HeadOf(Location(doc, spelling, path)) = path[1]
         \/ /\ HeadOf(Location(doc, spelling, path)) = ""
            /\ spelling = "bracketed" /\ doc.kind = "list"
<1> DEFINE n == Len(path)
           S == {Mark(a) : a \in {"/", "[", ".", "]"}} \cup {Label(path[i]) : i \in 1 .. n}
           head == Part(doc, spelling, path, 1)
<1>1. PICK U : path \in Seq(U)
  BY DEF IsPath
<1>2. n \in Nat /\ n >= 1
  BY <1>1
<1>3. PICK f : Spelled(f, doc, spelling, path)
  BY <1>2, LocationSpelled
<1>4. /\ f[0] = <<>>
      /\ \A i \in 1 .. n : f[i] = f[i - 1] \o Part(doc, spelling, path, i)
      /\ Location(doc, spelling, path) = f[n]
  BY <1>3 DEF Spelled
<1>5. /\ \A a \in {"/", "[", ".", "]"} : Mark(a) \in S
      /\ \A i \in 1 .. n : Label(path[i]) \in S
  OBVIOUS
<1> HIDE DEF n, S
<1>6. \A i \in 1 .. n : Part(doc, spelling, path, i) \in Seq(S)
  <2>1. ASSUME NEW i \in 1 .. n PROVE Part(doc, spelling, path, i) \in Seq(S)
    <3> DEFINE part == Part(doc, spelling, path, i)
               l == Label(path[i])
               mb == Mark("]")
    <3>1. PICK a \in {"/", "[", "."} : part = <<l>> \/ part = <<Mark(a), l>>
                                        \/ part = <<Mark(a), l, mb>>
      BY PartForm
    <3>2. Mark(a) \in S /\ mb \in S /\ l \in S
      BY <1>5
    <3> DEFINE ma == Mark(a)
    <3> HIDE DEF part, l, mb, ma
    <3>3. part = <<l>> \/ part = <<ma, l>> \/ part = <<ma, l, mb>>
      BY <3>1 DEF ma
    <3>4. ma \in S /\ mb \in S /\ l \in S
      BY <3>2 DEF ma
    <3>5. <<l>> \in Seq(S) /\ <<ma, l>> \in Seq(S) /\ <<ma, l, mb>> \in Seq(S)
      BY <3>4
    <3>6. part \in Seq(S)
      BY <3>3, <3>5, Zenon
    <3>7. QED BY <3>6 DEF part
  <2>2. QED BY <2>1
<1>7. head \in Seq(S)
  BY <1>2, <1>6
<1> HIDE DEF head
<1> DEFINE Begins(location) == /\ location \in Seq(S) /\ Len(head) <= Len(location)
                               /\ \A j \in 1 .. Len(head) : location[j] = head[j]
           T == {i \in Nat : i = 0 \/ Begins(f[i])}
<1>8. 0 \in T
  OBVIOUS
<1>9. ASSUME NEW i \in 1 .. n, i - 1 \in T PROVE i \in T
  <2> DEFINE part == Part(doc, spelling, path, i)
             before == f[i - 1]
  <2>1. f[i] = before \o part /\ part \in Seq(S)
    BY <1>4, <1>6
  <2>2. CASE i = 1
    <3>1. part = head
      BY <2>2 DEF head
    <3>2. before = <<>>
      BY <1>4, <2>2
    <3> HIDE DEF part, before
    <3>3. f[i] = head
      BY <1>7, <2>1, <3>1, <3>2
    <3>4. QED BY <1>2, <1>7, <3>3
  <2>3. CASE i # 1
    <3>1. Begins(before)
      BY <1>9, <2>3, <1>2
    <3> HIDE DEF part, before
    <3>2. Begins(before \o part)
      BY <1>7, <2>1, <3>1
    <3> HIDE DEF Begins
    <3>3. Begins(f[i])
      BY <2>1, <3>2
    <3>4. QED BY <1>2, <3>3
  <2>4. QED BY <2>2, <2>3
<1> HIDE DEF T
<1>10. \A i \in 0 .. n : i \in T
  BY <1>2, <1>8, <1>9, NumbersUpTo
<1>11. Begins(f[n])
  BY <1>2, <1>10 DEF T
<1> DEFINE location == f[n]
<1>12. location \in Seq(S) /\ Len(head) <= Len(location) /\ Len(head) \in Nat
       /\ \A j \in 1 .. Len(head) : location[j] = head[j]
  BY <1>7, <1>11
<1> HIDE DEF location, Begins
<1>13. /\ head = <<Mark("/"), Label(path[1])>> => HeadOf(location) = path[1]
       /\ head = <<Label(path[1])>> => HeadOf(location) = path[1]
       /\ head = <<Mark("["), Label(path[1]), Mark("]")>> => HeadOf(location) = ""
  BY <1>12, HeadOfTokens
<1>14. \/ head = <<Mark("/"), Label(path[1])>>
       \/ head = <<Label(path[1])>>
       \/ /\ head = <<Mark("["), Label(path[1]), Mark("]")>>
          /\ spelling = "bracketed" /\ doc.kind = "list"
  BY <1>1, PartHead DEF head
<1>15. Location(doc, spelling, path) = location
  BY <1>4 DEF location
<1>16. QED BY <1>13, <1>14, <1>15

(* A location of the root names no section.                                *)
LEMMA HeadOfRoot ==
  ASSUME NEW doc, NEW spelling
  PROVE  HeadOf(Location(doc, spelling, <<>>)) = ""
<1>1. Len(<<>>) = 0 /\ Len(<<>>) \in Nat
  OBVIOUS
<1>2. PICK f : Spelled(f, doc, spelling, <<>>)
  BY <1>1, LocationSpelled
<1>3. Location(doc, spelling, <<>>) = <<Mark("/")>> \/ Location(doc, spelling, <<>>) = <<>>
  BY <1>1, <1>2 DEF Spelled
<1> DEFINE slash == Mark("/")
<1>4. HeadOf(<<slash>>) = "" /\ HeadOf(<<>>) = ""
  <2>1. Len(<<slash>>) = 1 /\ <<slash>> # <<>> /\ <<slash>>[1] = slash
    OBVIOUS
  <2>2. QED BY <1>1, <2>1 DEF HeadOf, NameAt
<1>5. QED BY <1>3, <1>4

----------------------------------------------------------------------------
(* The issues a lint finds and the places they speak of.                   *)

Speaks(doc, issue, path) ==
  /\ PlaceOf(issue) = path
  /\ \/ issue.location = Dotted(doc, path)
     \/ issue.location = Dotted(doc, Append(path, "context_ref"))

LEMMA PlaceSpeaks ==
  ASSUME NEW doc, NEW path, IsPath(path), NEW rule, rule # "unknown"
  PROVE  Speaks(doc, Issue(rule, Dotted(doc, path)), path)
<1> DEFINE issue == Issue(rule, Dotted(doc, path))
<1>1. issue.rule = rule /\ issue.location = Dotted(doc, path)
  BY DEF Issue
<1>2. PathOf(Dotted(doc, path)) = path
  BY LocationReads DEF Dotted
<1> HIDE DEF issue
<1>3. Speaks(doc, issue, path)
  BY <1>1, <1>2 DEF Speaks, PlaceOf
<1>4. QED BY <1>3 DEF issue

LEMMA BindingSpeaks ==
  ASSUME NEW doc, NEW path, IsPath(path)
  PROVE  Speaks(doc, Issue("unknown", Dotted(doc, Append(path, "context_ref"))), path)
<1> DEFINE long == Append(path, "context_ref")
           issue == Issue("unknown", Dotted(doc, long))
<1>1. issue.rule = "unknown" /\ issue.location = Dotted(doc, long)
  BY DEF Issue
<1>2. IsPath(long)
  BY AtNext
<1>3. PathOf(Dotted(doc, long)) = long
  BY <1>2, LocationReads DEF Dotted
<1>4. Front(long) = path
  <2>1. PICK S : path \in Seq(S) /\ "context_ref" \in S
    BY PathAppend
  <2>2. SubSeq(long, 1, Len(long) - 1) = path
    BY <2>1
  <2>3. QED BY <2>2 DEF Front
<1> HIDE DEF issue
<1>5. Speaks(doc, issue, path)
  BY <1>1, <1>3, <1>4 DEF Speaks, PlaceOf
<1>6. QED BY <1>5 DEF issue

LEMMA NullIsEmpty ==
  /\ IsEmpty(Null) /\ Null.kind # "dict"
  /\ \A node, s : s \notin Children(node) => Child(node, s) = Null
BY DEF IsEmpty, Null, Child

(* Only what is there is other than empty.                                 *)
LEMMA FullIsChild ==
  ASSUME NEW node, NEW s, Child(node, s).kind = "dict" \/ ~IsEmpty(Child(node, s))
  PROVE  s \in Children(node)
BY NullIsEmpty

LEMMA PositionsFound ==
  ASSUME NEW doc, NEW issue \in PositionIssues(doc)
  PROVE  \E path \in PathsOf(doc) : PositionIsBroken(doc, path) /\ Speaks(doc, issue, path)
<1>1. PICK p \in Positions :
        issue \in LET path  == <<p.section, p.key>>
                      value == At(doc, path)
                  IN  IF Child(doc, p.section).kind # "dict" \/ IsEmpty(value) THEN {}
                      ELSE IF ~IsBinding(value) THEN {Issue("literal", Dotted(doc, path))}
                      ELSE IF ~RefResolves(value)
                      THEN {Issue("unknown", Dotted(doc, Append(path, "context_ref")))}
                      ELSE {}
  BY Zenon DEF PositionIssues
<1> DEFINE a == p.section
           b == p.key
           path == <<a, b>>
           value == At(doc, path)
<1>2. Child(doc, a).kind = "dict" /\ ~IsEmpty(value)
  BY <1>1
<1>3. /\ value = Child(Child(doc, a), b) /\ At(doc, <<a>>) = Child(doc, a)
      /\ Above(path) = {<<>>, <<a>>} /\ IsPath(path)
  BY TwoSteps
<1>4. a \in Children(doc) /\ b \in Children(Child(doc, a))
  BY <1>2, <1>3, FullIsChild
<1>5. path \in PathsOf(doc)
  BY <1>4, NearPlaces
<1>6. InDicts(doc, path)
  BY <1>2, <1>3 DEF InDicts
<1>7. \E q \in Positions : path = <<q.section, q.key>>
  OBVIOUS
<1> HIDE DEF path, value
<1>8. CASE ~IsBinding(value) /\ issue = Issue("literal", Dotted(doc, path))
  <2>1. Speaks(doc, issue, path)
    BY <1>3, <1>8, PlaceSpeaks
  <2>2. PositionIsBroken(doc, path)
    BY <1>2, <1>6, <1>7, <1>8 DEF PositionIsBroken, value
  <2>3. QED BY <1>5, <2>1, <2>2
<1>9. CASE ~RefResolves(value) /\ issue = Issue("unknown", Dotted(doc, Append(path, "context_ref")))
  <2>1. Speaks(doc, issue, path)
    BY <1>3, <1>9, BindingSpeaks
  <2>2. PositionIsBroken(doc, path)
    BY <1>2, <1>6, <1>7, <1>9 DEF PositionIsBroken, value
  <2>3. QED BY <1>5, <2>1, <2>2
<1>10. QED BY <1>1, <1>2, <1>8, <1>9 DEF path, value, a, b

LEMMA PositionsMissed ==
  ASSUME NEW doc, NEW path, PositionIsBroken(doc, path)
  PROVE  \E issue \in PositionIssues(doc) : Speaks(doc, issue, path)
<1>1. PICK p \in Positions : path = <<p.section, p.key>>
  BY DEF PositionIsBroken
<1> DEFINE a == p.section
           b == p.key
           value == At(doc, path)
<1>2. /\ InDicts(doc, path) /\ ~IsEmpty(value) /\ (IsBinding(value) => ~RefResolves(value))
  BY DEF PositionIsBroken
<1>3. /\ At(doc, <<a>>) = Child(doc, a) /\ Above(<<a, b>>) = {<<>>, <<a>>} /\ IsPath(<<a, b>>)
      /\ <<a>> # <<>>
  BY TwoSteps
<1>4. Child(doc, a).kind = "dict" /\ IsPath(path)
  BY <1>1, <1>2, <1>3 DEF InDicts
<1>5. \A issue :
        issue \in (IF Child(doc, a).kind # "dict" \/ IsEmpty(value) THEN {}
                   ELSE IF ~IsBinding(value) THEN {Issue("literal", Dotted(doc, path))}
                   ELSE IF ~RefResolves(value)
                   THEN {Issue("unknown", Dotted(doc, Append(path, "context_ref")))}
                   ELSE {}) => issue \in PositionIssues(doc)
  BY <1>1, Zenon DEF PositionIssues
<1>6. CASE ~IsBinding(value)
  <2>1. Issue("literal", Dotted(doc, path)) \in PositionIssues(doc)
    BY <1>2, <1>4, <1>5, <1>6
  <2>2. QED BY <1>4, <2>1, PlaceSpeaks
<1>7. CASE IsBinding(value)
  <2>1. Issue("unknown", Dotted(doc, Append(path, "context_ref"))) \in PositionIssues(doc)
    BY <1>2, <1>4, <1>5, <1>7
  <2>2. QED BY <1>4, <2>1, BindingSpeaks
<1>8. QED BY <1>6, <1>7

LEMMA ReservedFound ==
  ASSUME NEW doc, NEW issue \in ReservedIssues(doc)
  PROVE  \E path \in PathsOf(doc) : ReservedIsAuthored(doc, path) /\ Speaks(doc, issue, path)
<1>1. PICK p \in Reserved :
        issue \in LET entries == At(doc, <<p.section, p.collection>>)
                      authored == {e \in Children(entries) :
                                     /\ Child(doc, p.section).kind = "dict"
                                     /\ entries.kind = "dict" /\ Child(entries, e).kind = "dict"
                                     /\ ~IsEmpty(Child(Child(entries, e), p.leaf))}
                  IN  {Issue("reserved", Dotted(doc, <<p.section, p.collection, e, p.leaf>>)) :
                         e \in authored}
  BY Zenon DEF ReservedIssues
<1> DEFINE a == p.section
           b == p.collection
           l == p.leaf
           entries == At(doc, <<a, b>>)
<1>2. PICK e \in Children(entries) :
        /\ Child(doc, a).kind = "dict" /\ entries.kind = "dict" /\ Child(entries, e).kind = "dict"
        /\ ~IsEmpty(Child(Child(entries, e), l))
        /\ issue = Issue("reserved", Dotted(doc, <<a, b, e, l>>))
  BY <1>1
<1> DEFINE path == <<a, b, e, l>>
<1>3. /\ At(doc, <<a>>) = Child(doc, a)
      /\ entries = Child(Child(doc, a), b)
      /\ At(doc, <<a, b, e>>) = Child(Child(Child(doc, a), b), e)
      /\ At(doc, path) = Child(Child(Child(Child(doc, a), b), e), l)
      /\ Above(<<a, b>>) = {<<>>, <<a>>}
      /\ Above(path) = {<<>>, <<a>>, <<a, b>>, <<a, b, e>>}
  BY ShortPaths
<1>4. IsPath(path)
  BY Short
<1>5. /\ a \in Children(doc) /\ b \in Children(Child(doc, a))
      /\ e \in Children(Child(Child(doc, a), b))
      /\ l \in Children(Child(Child(Child(doc, a), b), e))
  BY <1>2, <1>3, FullIsChild
<1>6. path \in PathsOf(doc)
  BY <1>5, NearPlaces
<1>7. InDicts(doc, path) /\ ~IsEmpty(At(doc, path))
  BY <1>2, <1>3 DEF InDicts
<1>8. \E q \in Reserved : \E d \in Children(At(doc, <<q.section, q.collection>>)) :
        path = <<q.section, q.collection, d, q.leaf>>
  BY <1>2
<1> HIDE DEF path
<1>9. ReservedIsAuthored(doc, path)
  BY <1>7, <1>8 DEF ReservedIsAuthored
<1>10. Speaks(doc, issue, path)
  BY <1>2, <1>4, PlaceSpeaks DEF path
<1>11. QED BY <1>6, <1>9, <1>10

LEMMA ReservedMissed ==
  ASSUME NEW doc, NEW path, ReservedIsAuthored(doc, path)
  PROVE  \E issue \in ReservedIssues(doc) : Speaks(doc, issue, path)
<1>1. PICK p \in Reserved : \E e \in Children(At(doc, <<p.section, p.collection>>)) :
        path = <<p.section, p.collection, e, p.leaf>>
  BY DEF ReservedIsAuthored
<1> DEFINE a == p.section
           b == p.collection
           l == p.leaf
           entries == At(doc, <<a, b>>)
<1>2. PICK e \in Children(entries) : path = <<a, b, e, l>>
  BY <1>1
<1>3. /\ At(doc, <<a>>) = Child(doc, a)
      /\ entries = Child(Child(doc, a), b)
      /\ At(doc, <<a, b, e>>) = Child(Child(Child(doc, a), b), e)
      /\ At(doc, <<a, b, e, l>>) = Child(Child(Child(Child(doc, a), b), e), l)
      /\ Above(<<a, b>>) = {<<>>, <<a>>}
      /\ Above(<<a, b, e, l>>) = {<<>>, <<a>>, <<a, b>>, <<a, b, e>>}
  BY ShortPaths
<1>4. IsPath(path)
  BY <1>2, Short
<1>5. <<a>> # <<>> /\ <<a, b>> # <<>> /\ <<a, b, e>> # <<>>
  OBVIOUS
<1>6. /\ Child(doc, a).kind = "dict" /\ entries.kind = "dict" /\ Child(entries, e).kind = "dict"
      /\ ~IsEmpty(Child(Child(entries, e), l))
  <2>1. InDicts(doc, path) /\ ~IsEmpty(At(doc, path))
    BY DEF ReservedIsAuthored
  <2>2. At(doc, <<a>>).kind = "dict" /\ At(doc, <<a, b>>).kind = "dict"
        /\ At(doc, <<a, b, e>>).kind = "dict"
    BY <1>2, <1>3, <1>5, <2>1 DEF InDicts
  <2>3. QED BY <1>2, <1>3, <2>1, <2>2
<1> DEFINE authored == {d \in Children(entries) :
                          /\ Child(doc, a).kind = "dict"
                          /\ entries.kind = "dict" /\ Child(entries, d).kind = "dict"
                          /\ ~IsEmpty(Child(Child(entries, d), l))}
           issues == {Issue("reserved", Dotted(doc, <<a, b, d, l>>)) : d \in authored}
           issue == Issue("reserved", Dotted(doc, <<a, b, e, l>>))
<1>7. issue \in issues
  BY <1>6
<1>8. issues \subseteq ReservedIssues(doc)
  BY Zenon DEF ReservedIssues
<1> HIDE DEF issues
<1>9. Speaks(doc, issue, path)
  BY <1>2, <1>4, PlaceSpeaks
<1>10. QED BY <1>7, <1>8, <1>9

LEMMA StraysFound ==
  ASSUME NEW doc, NEW issue \in StrayRefs(doc)
  PROVE  \E path \in PathsOf(doc) : BindingIsBroken(doc, path) /\ Speaks(doc, issue, path)
<1> DEFINE into == FALSE
<1>1. PICK v \in Walk(doc, into) :
        /\ IsBinding(v.node) /\ ~RefResolves(v.node)
        /\ issue = Issue("unknown", Dotted(doc, Append(v.path, "context_ref")))
  BY DEF StrayRefs
<1>2. ~into
  OBVIOUS
<1> HIDE DEF into
<1>3. v \in Visits(doc, into, PathsOf(doc))
  BY <1>1, WalkVisits
<1>4. PICK path \in PathsOf(doc) : Open(doc, into, path) /\ v = Visit(path, At(doc, path))
  BY <1>3, VisitsOf
<1>5. v.path = path /\ v.node = At(doc, path)
  BY <1>4, VisitParts
<1>6. BindingIsBroken(doc, path)
  BY <1>1, <1>2, <1>4, <1>5 DEF BindingIsBroken, Open
<1>7. IsPath(path)
  BY PlaceFacts
<1>8. Speaks(doc, issue, path)
  BY <1>1, <1>5, <1>7, BindingSpeaks
<1>9. QED BY <1>6, <1>8

LEMMA StraysMissed ==
  ASSUME NEW doc, NEW path \in PathsOf(doc), BindingIsBroken(doc, path)
  PROVE  \E issue \in StrayRefs(doc) : Speaks(doc, issue, path)
<1> DEFINE into == FALSE
           v == Visit(path, At(doc, path))
           issue == Issue("unknown", Dotted(doc, Append(v.path, "context_ref")))
<1>1. v.path = path /\ v.node = At(doc, path)
  BY VisitParts
<1>2. IsBinding(v.node) /\ ~RefResolves(v.node) /\ Open(doc, into, path)
  BY <1>1 DEF BindingIsBroken, Open
<1>3. StrayRefs(doc) = {Issue("unknown", Dotted(doc, Append(w.path, "context_ref"))) :
                          w \in {u \in Walk(doc, into) : IsBinding(u.node) /\ ~RefResolves(u.node)}}
  BY DEF StrayRefs
<1> HIDE DEF into, v
<1>4. v \in Walk(doc, into)
  BY <1>2, VisitsOf, WalkVisits DEF v
<1>5. issue \in StrayRefs(doc)
  BY <1>2, <1>3, <1>4
<1>6. IsPath(path)
  BY PlaceFacts
<1>7. Speaks(doc, issue, path)
  BY <1>1, <1>6, BindingSpeaks
<1>8. QED BY <1>5, <1>7

LEMMA OrgCouplingFound ==
  ASSUME NEW doc, NEW issue \in LintOrgCoupling(doc)
  PROVE  \E path \in PathsOf(doc) : PlaceIsBroken(doc, path) /\ Speaks(doc, issue, path)
<1>1. CASE issue \in PositionIssues(doc)
  BY <1>1, PositionsFound DEF PlaceIsBroken
<1>2. CASE issue \in ReservedIssues(doc)
  BY <1>2, ReservedFound DEF PlaceIsBroken
<1>3. CASE issue \in StrayRefs(doc)
  BY <1>3, StraysFound DEF PlaceIsBroken
<1>4. QED BY <1>1, <1>2, <1>3 DEF LintOrgCoupling

LEMMA OrgCouplingMissed ==
  ASSUME NEW doc, NEW path \in PathsOf(doc), PlaceIsBroken(doc, path)
  PROVE  \E issue \in LintOrgCoupling(doc) : Speaks(doc, issue, path)
<1>1. CASE BindingIsBroken(doc, path)
  BY <1>1, StraysMissed DEF LintOrgCoupling
<1>2. CASE PositionIsBroken(doc, path)
  BY <1>2, PositionsMissed DEF LintOrgCoupling
<1>3. CASE ReservedIsAuthored(doc, path)
  BY <1>3, ReservedMissed DEF LintOrgCoupling
<1>4. QED BY <1>1, <1>2, <1>3 DEF PlaceIsBroken

(* What a walk into everything finds.                                      *)
LEMMA FullWalk ==
  ASSUME NEW doc
  PROVE  /\ \A path \in PathsOf(doc) : Visit(path, At(doc, path)) \in Walk(doc, TRUE)
         /\ \A v \in Walk(doc, TRUE) :
              \E path \in PathsOf(doc) : v.path = path /\ v.node = At(doc, path)
<1> DEFINE into == TRUE
<1>1. \A path : Open(doc, into, path)
  BY DEF Open
<1> HIDE DEF into
<1>2. /\ \A path \in PathsOf(doc) : Visit(path, At(doc, path)) \in Walk(doc, into)
      /\ \A v \in Walk(doc, into) : \E path \in PathsOf(doc) : v = Visit(path, At(doc, path))
  BY <1>1, WalkVisits, VisitsOf
<1>3. \A v \in Walk(doc, into) : \E path \in PathsOf(doc) : v.path = path /\ v.node = At(doc, path)
  BY <1>2, VisitParts
<1>4. QED BY <1>2, <1>3 DEF into

LEMMA PlaceholdersOf ==
  ASSUME NEW doc
  PROVE  /\ \A issue \in LintAuthoringPlaceholders(doc) : \E path \in PathsOf(doc) :
              Unfilled(doc, path) /\ issue.location = Location(doc, "bracketed", path)
         /\ \A path \in PathsOf(doc) : Unfilled(doc, path) =>
              \E issue \in LintAuthoringPlaceholders(doc) :
                issue.location = Location(doc, "bracketed", path)
<1> DEFINE walk == Walk(doc, TRUE)
           texts == {w \in walk : w.node.kind = "text"}
           Holes(v) == {Issue(h, Location(doc, "bracketed", v.path)) : h \in v.node.holes}
<1>1. LintAuthoringPlaceholders(doc) = UNION {Holes(v) : v \in texts}
  BY Zenon DEF LintAuthoringPlaceholders
<1>2. /\ \A path \in PathsOf(doc) : Visit(path, At(doc, path)) \in walk
      /\ \A v \in walk : \E path \in PathsOf(doc) : v.path = path /\ v.node = At(doc, path)
  BY FullWalk
<1>3. \A h, l : Issue(h, l).location = l
  BY DEF Issue
<1> HIDE DEF walk
<1>4. ASSUME NEW issue \in LintAuthoringPlaceholders(doc)
      PROVE  \E path \in PathsOf(doc) :
               Unfilled(doc, path) /\ issue.location = Location(doc, "bracketed", path)
  <2>1. PICK v \in texts : issue \in Holes(v)
    BY <1>1, <1>4
  <2>2. PICK h \in v.node.holes : issue = Issue(h, Location(doc, "bracketed", v.path))
    BY <2>1
  <2>3. v \in walk /\ v.node.kind = "text" /\ v.node.holes # {}
    BY <2>1, <2>2
  <2>4. PICK path \in PathsOf(doc) : v.path = path /\ v.node = At(doc, path)
    BY <1>2, <2>3
  <2>5. Unfilled(doc, path)
    BY <2>3, <2>4 DEF Unfilled
  <2>6. issue.location = Location(doc, "bracketed", path)
    BY <1>3, <2>2, <2>4
  <2>7. QED BY <2>5, <2>6
<1>5. ASSUME NEW path \in PathsOf(doc), Unfilled(doc, path)
      PROVE  \E issue \in LintAuthoringPlaceholders(doc) :
               issue.location = Location(doc, "bracketed", path)
  <2> DEFINE v == Visit(path, At(doc, path))
  <2>1. v \in walk /\ v.path = path /\ v.node = At(doc, path)
    BY <1>2, VisitParts
  <2> HIDE DEF v
  <2>2. v.node.kind = "text" /\ v.node.holes # {}
    BY <1>5, <2>1 DEF Unfilled
  <2>3. PICK h \in v.node.holes : TRUE
    BY <2>2
  <2> DEFINE issue == Issue(h, Location(doc, "bracketed", v.path))
  <2>4. issue \in Holes(v) /\ v \in texts
    BY <2>1, <2>2
  <2>5. issue.location = Location(doc, "bracketed", path)
    BY <1>3, <2>1
  <2> HIDE DEF issue
  <2>6. QED BY <1>1, <2>4, <2>5
<1>6. QED BY <1>4, <1>5

LEMMA TypeErrorsOf ==
  ASSUME NEW doc
  PROVE  /\ \A issue \in TypeErrors(doc) : \E path \in PathsOf(doc) :
              Misfit(doc, path) /\ issue.location = Location(doc, "slashed", path)
         /\ \A path \in PathsOf(doc) : Misfit(doc, path) =>
              \E issue \in TypeErrors(doc) : issue.location = Location(doc, "slashed", path)
<1> DEFINE walk == Walk(doc, TRUE)
           At1(v) == Issue("type", Location(doc, "slashed", v.path))
<1>1. TypeErrors(doc) = {At1(v) : v \in {w \in walk : Misfit(doc, w.path)}}
  BY Zenon DEF TypeErrors
<1>2. /\ \A path \in PathsOf(doc) : Visit(path, At(doc, path)) \in walk
      /\ \A v \in walk : \E path \in PathsOf(doc) : v.path = path /\ v.node = At(doc, path)
  BY FullWalk
<1>3. \A h, l : Issue(h, l).location = l
  BY DEF Issue
<1> HIDE DEF walk
<1>4. ASSUME NEW issue \in TypeErrors(doc)
      PROVE  \E path \in PathsOf(doc) :
               Misfit(doc, path) /\ issue.location = Location(doc, "slashed", path)
  <2>1. PICK v \in walk : Misfit(doc, v.path) /\ issue = At1(v)
    BY <1>1, <1>4
  <2>2. PICK path \in PathsOf(doc) : v.path = path /\ v.node = At(doc, path)
    BY <1>2
  <2>3. QED BY <1>3, <2>1, <2>2
<1>5. ASSUME NEW path \in PathsOf(doc), Misfit(doc, path)
      PROVE  \E issue \in TypeErrors(doc) : issue.location = Location(doc, "slashed", path)
  <2> DEFINE v == Visit(path, At(doc, path))
  <2>1. v \in walk /\ v.path = path /\ Misfit(doc, v.path)
    BY <1>2, <1>5, VisitParts
  <2> HIDE DEF v
  <2>2. At1(v) \in TypeErrors(doc) /\ At1(v).location = Location(doc, "slashed", path)
    BY <1>1, <1>3, <2>1
  <2>3. QED BY <2>2
<1>6. QED BY <1>4, <1>5

LEMMA LintsExact == LintsAreExact
<1> DEFINE doc == config
           paths == PathsOf(doc)
<1>1. \A i \in LintOrgCoupling(doc) : PlaceOf(i) \in {p \in paths : PlaceIsBroken(doc, p)}
  <2>1. ASSUME NEW i \in LintOrgCoupling(doc)
        PROVE  PlaceOf(i) \in {p \in paths : PlaceIsBroken(doc, p)}
    <3>1. PICK p \in paths : PlaceIsBroken(doc, p) /\ Speaks(doc, i, p)
      BY OrgCouplingFound
    <3>2. PlaceOf(i) = p
      BY <3>1 DEF Speaks
    <3>3. QED BY <3>1, <3>2
  <2>2. QED BY <2>1
<1>2. \A p \in paths : PlaceIsBroken(doc, p) => \E i \in LintOrgCoupling(doc) : PlaceOf(i) = p
  BY OrgCouplingMissed DEF Speaks
<1>3. \A i \in LintAuthoringPlaceholders(doc) :
        PathOf(i.location) \in {p \in paths : Unfilled(doc, p)}
  <2>1. ASSUME NEW i \in LintAuthoringPlaceholders(doc)
        PROVE  PathOf(i.location) \in {p \in paths : Unfilled(doc, p)}
    <3>1. PICK p \in paths : Unfilled(doc, p) /\ i.location = Location(doc, "bracketed", p)
      BY PlaceholdersOf
    <3>2. PathOf(i.location) = p
      BY <3>1, LocationReads, PlaceFacts
    <3>3. QED BY <3>1, <3>2
  <2>2. QED BY <2>1
<1>4. ASSUME NEW p \in paths, Unfilled(doc, p)
      PROVE  \E i \in LintAuthoringPlaceholders(doc) : PathOf(i.location) = p
  <2>1. PICK i \in LintAuthoringPlaceholders(doc) : i.location = Location(doc, "bracketed", p)
    BY <1>4, PlaceholdersOf
  <2>2. PathOf(i.location) = p
    BY <2>1, LocationReads, PlaceFacts
  <2>3. QED BY <2>2
<1> HIDE DEF paths
<1>5. {PlaceOf(i) : i \in LintOrgCoupling(doc)} = {p \in paths : PlaceIsBroken(doc, p)}
  BY <1>1, <1>2
<1>6. {PathOf(i.location) : i \in LintAuthoringPlaceholders(doc)} = {p \in paths : Unfilled(doc, p)}
  BY <1>3, <1>4
<1>7. QED BY <1>5, <1>6 DEF LintsAreExact, paths

(* On any config, and along any repair of it, the org-coupling lint and    *)
(* the placeholder lint report exactly the places that break their rules   *)
(* (org_coupling.py:63-199, authoring_placeholders.py:59-115).             *)
THEOREM LintsSound == LintSpec => []LintsAreExact
BY LintsExact, PTL

----------------------------------------------------------------------------
(* The section a gate blames.                                              *)

Defect(doc, path) ==
  PlaceIsBroken(doc, path) \/ Unfilled(doc, path) \/ Misfit(doc, path)

Defective(doc) ==
  {s \in AuthoringSections :
     \E p \in PathsOf(doc) : p # <<>> /\ p[1] = s /\ Defect(doc, p)}

(* A section is no item of a list and has a name of its own.               *)
LEMMA SectionNames ==
  ASSUME NEW s \in AuthoringSections
  PROVE  /\ s # "" /\ s # NoSection /\ s # "context_ref"
         /\ \A doc : doc.kind = "list" => s \notin Children(doc)
<1>1. s # "" /\ s # NoSection /\ s # "context_ref" /\ s \notin Range(Index)
  BY LintNamesAssumption DEF NoSection
<1>2. ASSUME NEW doc, doc.kind = "list" PROVE Children(doc) \subseteq Range(Index)
  <2>1. Children(doc) = {Index[i] : i \in DOMAIN doc.items \cap DOMAIN Index}
    BY <1>2 DEF Children
  <2>2. \A i \in DOMAIN Index : Index[i] \in Range(Index)
    BY DEF Range
  <2>3. QED BY <2>1, <2>2
<1>3. QED BY <1>1, <1>2

(* What the location of a place names.                                     *)
LEMMA HeadOfPlace ==
  ASSUME NEW doc, NEW path \in PathsOf(doc), NEW spelling, NEW s \in AuthoringSections
  PROVE  HeadOf(Location(doc, spelling, path)) = s <=> path # <<>> /\ path[1] = s
<1>1. IsPath(path) /\ (path # <<>> => path[1] \in Children(doc))
  BY PlaceFacts
<1>2. CASE path = <<>>
  BY <1>2, HeadOfRoot, SectionNames
<1>3. CASE path # <<>>
  <2>1. \/ HeadOf(Location(doc, spelling, path)) = path[1]
        \/ /\ HeadOf(Location(doc, spelling, path)) = ""
           /\ spelling = "bracketed" /\ doc.kind = "list"
    <3>1. IsPath(path)
      BY <1>1
    <3>2. path # <<>>
      BY <1>3
    <3>3. QED BY ONLY <3>1, <3>2, HeadOfLocation
  <2>2. s # "" /\ (doc.kind = "list" => s # path[1])
    BY <1>1, <1>3, SectionNames
  <2>3. QED BY <1>3, <2>1, <2>2
<1>4. QED BY <1>2, <1>3

(* What the location of an org-coupling issue names.                       *)
LEMMA HeadOfSpeaking ==
  ASSUME NEW doc, NEW path \in PathsOf(doc), NEW issue, Speaks(doc, issue, path),
         NEW s \in AuthoringSections
  PROVE  HeadOf(issue.location) = s <=> path # <<>> /\ path[1] = s
<1>1. CASE issue.location = Dotted(doc, path)
  BY <1>1, HeadOfPlace DEF Dotted
<1>2. CASE issue.location = Dotted(doc, Append(path, "context_ref"))
  <2> DEFINE long == Append(path, "context_ref")
  <2>1. IsPath(path)
    BY PlaceFacts
  <2>2. PICK S : path \in Seq(S) /\ "context_ref" \in S
    BY <2>1, PathAppend
  <2>3. /\ long # <<>> /\ (path # <<>> => long[1] = path[1])
        /\ (path = <<>> => long[1] = "context_ref")
    BY <2>2
  <2>4. IsPath(long)
    BY <2>1, AtNext
  <2> HIDE DEF long
  <2> DEFINE spelling == "dotted"
  <2>5. spelling # "bracketed" /\ issue.location = Location(doc, spelling, long)
    BY <1>2 DEF Dotted, long
  <2> HIDE DEF spelling
  <2>6. HeadOf(issue.location) = long[1]
    <3>1. long # <<>>
      BY <2>3
    <3>2. \/ HeadOf(Location(doc, spelling, long)) = long[1]
          \/ /\ HeadOf(Location(doc, spelling, long)) = ""
             /\ spelling = "bracketed" /\ doc.kind = "list"
      BY ONLY <2>4, <3>1, HeadOfLocation
    <3>3. QED BY <2>5, <3>2
  <2>7. s # "context_ref"
    BY SectionNames
  <2>8. QED BY <2>3, <2>6, <2>7
<1>3. QED BY <1>1, <1>2 DEF Speaks

LEMMA PassesOf ==
  ASSUME NEW doc
  PROVE  /\ DOMAIN GatePasses(doc) = 1 .. 3
         /\ GatePasses(doc)[1] = TypeErrors(doc)
         /\ GatePasses(doc)[2] = LintOrgCoupling(doc)
         /\ GatePasses(doc)[3] = LintAuthoringPlaceholders(doc)
BY DEF GatePasses

(* A pass blames only sections that hold a defect.                         *)
LEMMA BlameIsDue ==
  ASSUME NEW doc, NEW n \in 1 .. 3, NEW s \in SectionsNamed(GatePasses(doc)[n])
  PROVE  s \in Defective(doc)
<1>1. PICK issue \in GatePasses(doc)[n] : HeadOf(issue.location) = s
  BY DEF SectionsNamed
<1>2. s \in AuthoringSections
  BY DEF SectionsNamed
<1>3. SUFFICES \E p \in PathsOf(doc) : p # <<>> /\ p[1] = s /\ Defect(doc, p)
  BY <1>2 DEF Defective
<1>4. CASE n = 1
  <2>1. PICK p \in PathsOf(doc) :
          Misfit(doc, p) /\ issue.location = Location(doc, "slashed", p)
    BY <1>1, <1>4, PassesOf, TypeErrorsOf
  <2>2. p # <<>> /\ p[1] = s
    BY <1>1, <1>2, <2>1, HeadOfPlace
  <2>3. QED BY <2>1, <2>2 DEF Defect
<1>5. CASE n = 2
  <2>1. PICK p \in PathsOf(doc) : PlaceIsBroken(doc, p) /\ Speaks(doc, issue, p)
    BY <1>1, <1>5, PassesOf, OrgCouplingFound
  <2>2. p # <<>> /\ p[1] = s
    BY <1>1, <1>2, <2>1, HeadOfSpeaking
  <2>3. QED BY <2>1, <2>2 DEF Defect
<1>6. CASE n = 3
  <2>1. PICK p \in PathsOf(doc) :
          Unfilled(doc, p) /\ issue.location = Location(doc, "bracketed", p)
    BY <1>1, <1>6, PassesOf, PlaceholdersOf
  <2>2. p # <<>> /\ p[1] = s
    BY <1>1, <1>2, <2>1, HeadOfPlace
  <2>3. QED BY <2>1, <2>2 DEF Defect
<1>7. QED BY <1>4, <1>5, <1>6

(* A section that holds a defect is blamed by some pass.                   *)
LEMMA DefectIsBlamed ==
  ASSUME NEW doc, NEW s \in Defective(doc)
  PROVE  \E n \in 1 .. 3 : s \in SectionsNamed(GatePasses(doc)[n])
<1>1. PICK p \in PathsOf(doc) : p # <<>> /\ p[1] = s /\ Defect(doc, p)
  BY DEF Defective
<1>2. s \in AuthoringSections
  BY DEF Defective
<1>3. SUFFICES \E n \in 1 .. 3 : \E issue \in GatePasses(doc)[n] : HeadOf(issue.location) = s
  BY <1>2 DEF SectionsNamed
<1>4. CASE Misfit(doc, p)
  <2>1. PICK issue \in TypeErrors(doc) : issue.location = Location(doc, "slashed", p)
    BY <1>4, TypeErrorsOf
  <2>2. HeadOf(issue.location) = s
    BY <1>1, <1>2, <2>1, HeadOfPlace
  <2>3. QED BY <2>2, PassesOf
<1>5. CASE PlaceIsBroken(doc, p)
  <2>1. PICK issue \in LintOrgCoupling(doc) : Speaks(doc, issue, p)
    BY <1>5, OrgCouplingMissed
  <2>2. HeadOf(issue.location) = s
    BY <1>1, <1>2, <2>1, HeadOfSpeaking
  <2>3. QED BY <2>2, PassesOf
<1>6. CASE Unfilled(doc, p)
  <2>1. PICK issue \in LintAuthoringPlaceholders(doc) : issue.location = Location(doc, "bracketed", p)
    BY <1>6, PlaceholdersOf
  <2>2. HeadOf(issue.location) = s
    BY <1>1, <1>2, <2>1, HeadOfPlace
  <2>3. QED BY <2>2, PassesOf
<1>7. QED BY <1>1, <1>4, <1>5, <1>6 DEF Defect

LEMMA PhaseIsDue == PhaseNamesDefect
<1> DEFINE passes == GatePasses(config)
           naming == {n \in DOMAIN passes : SectionsNamed(passes[n]) # {}}
           first == CHOOSE n \in naming : \A m \in naming : n <= m
<1>1. naming \subseteq 1 .. 3
  BY PassesOf
<1>2. CASE naming = {}
  <2>1. \A n \in 1 .. 3 : SectionsNamed(passes[n]) = {}
    BY <1>2, PassesOf
  <2>2. Defective(config) = {}
    BY <2>1, DefectIsBlamed
  <2>3. PhaseFromIssues(passes) = {NoSection}
    BY <1>2 DEF PhaseFromIssues
  <2> HIDE DEF passes
  <2>4. \A phase \in PhaseFromIssues(passes) :
          IF Defective(config) = {} THEN phase = NoSection ELSE phase \in Defective(config)
    BY <2>2, <2>3
  <2>5. QED BY <2>4 DEF PhaseNamesDefect, Defective, Defect, passes
<1>3. CASE naming # {}
  <2>1. \E n \in naming : \A m \in naming : n <= m
    <3> HIDE DEF naming
    <3>1. CASE 1 \in naming
      BY <1>1, <3>1
    <3>2. CASE 1 \notin naming /\ 2 \in naming
      BY <1>1, <3>2
    <3>3. CASE 1 \notin naming /\ 2 \notin naming
      <4>1. naming = {3}
        <5>1. 1 .. 3 = {1, 2, 3}
          OBVIOUS
        <5>2. QED BY <1>1, <1>3, <3>3, <5>1
      <4>2. QED BY <4>1
    <3>4. QED BY <3>1, <3>2, <3>3
  <2>2. first \in naming
    <3> HIDE DEF naming
    <3>1. QED BY <2>1
  <2>3. first \in 1 .. 3
    BY <1>1, <2>2
  <2>4. PhaseFromIssues(passes) = SectionsNamed(passes[first])
    BY <1>3 DEF PhaseFromIssues
  <2> HIDE DEF first
  <2>5. \A phase \in PhaseFromIssues(passes) : phase \in Defective(config)
    BY <2>3, <2>4, BlameIsDue
  <2> HIDE DEF passes
  <2>6. \A phase \in PhaseFromIssues(passes) :
          IF Defective(config) = {} THEN phase = NoSection ELSE phase \in Defective(config)
    BY <2>5
  <2>7. QED BY <2>6 DEF PhaseNamesDefect, Defective, Defect, passes
<1>4. QED BY <1>2, <1>3

(* On any config, and along any repair of it, a gate that blocks names a   *)
(* section that holds a defect, and none only when every defect is outside *)
(* the sections (tools.py:149-167, draft.py:156).                          *)
THEOREM PhaseIsSound == LintSpec => []PhaseNamesDefect
BY PhaseIsDue, PTL

=============================================================================
