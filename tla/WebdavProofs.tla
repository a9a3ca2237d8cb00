---------------------------- MODULE WebdavProofs ----------------------------
(***************************************************************************)
(* WebdavTree and ZipDownload for any number of clients, requests, names   *)
(* and contents.  First paths and trees: what the operators on them keep.  *)
(* Then the types, which say that the directory stays a tree under every   *)
(* interleaving, and what is promised by the answers; at the end what MOVE *)
(* and COPY do when nothing disturbs them.                                 *)
(***************************************************************************)
EXTENDS ZipDownload, SequenceTheorems, WellFoundedInduction, TLAPS

Path == Seq(Names)

-----------------------------------------------------------------------------
(* Paths.                                                                  *)

LEMMA ShortSeq ==
    ASSUME NEW S, NEW n \in Nat, NEW p
    PROVE  p \in SeqOf(S, n) <=> p \in Seq(S) /\ Len(p) <= n
<1>1. ASSUME p \in SeqOf(S, n) PROVE p \in Seq(S) /\ Len(p) <= n
  <2>1. PICK m \in 0 .. n : p \in [1 .. m -> S]
    BY <1>1 DEF SeqOf
  <2>2. m \in Nat /\ m <= n
    OBVIOUS
  <2>3. p \in Seq(S) /\ Len(p) = m
    BY <2>1, <2>2, SMTT(30)
  <2> QED BY <2>2, <2>3
<1>2. ASSUME p \in Seq(S), Len(p) <= n PROVE p \in SeqOf(S, n)
  <2>1. Len(p) \in 0 .. n /\ p \in [1 .. Len(p) -> S]
    BY <1>2, LenProperties
  <2> QED BY <2>1 DEF SeqOf
<1> QED BY <1>1, <1>2

LEMMA PathsAreShort == \A p : p \in Paths <=> p \in Path /\ Len(p) <= MaxDepth
BY TreeAssumption, ShortSeq DEF Paths, Path

LEMMA PathLength == ASSUME NEW p \in Path PROVE Len(p) \in Nat /\ (Len(p) = 0 <=> p = << >>)
BY LenProperties, EmptySeq DEF Path

LEMMA PathsEqual ==
    ASSUME NEW p \in Path, NEW q \in Path, Len(p) = Len(q), \A i \in 1 .. Len(p) : p[i] = q[i]
    PROVE  p = q
BY SeqEqual DEF Path

\* The names from m to n of a path.
LEMMA PathPart ==
    ASSUME NEW p \in Path, NEW m \in Nat \ {0}, NEW n \in Nat, n <= Len(p), m <= n + 1
    PROVE  /\ SubSeq(p, m, n) \in Path
           /\ Len(SubSeq(p, m, n)) = n - m + 1
           /\ \A i \in 1 .. n - m + 1 : SubSeq(p, m, n)[i] = p[m + i - 1]
<1>1. \A i \in m .. n : p[i] \in Names
  BY ElementOfSeq, PathLength DEF Path
<1>2. m \in Int /\ n \in Int
  OBVIOUS
<1> QED BY <1>1, <1>2, SubSeqProperties DEF Path

LEMMA PrefixAt ==
    ASSUME NEW p \in Path, NEW q \in Path
    PROVE  IsPrefix(p, q) <=> Len(p) <= Len(q) /\ \A i \in 1 .. Len(p) : p[i] = q[i]
<1> DEFINE n == Len(p)
<1>1. n \in Nat /\ Len(q) \in Nat /\ 1 \in Nat \ {0} /\ n <= n /\ 1 <= n + 1
  BY PathLength
<1>2. SubSeq(p, 1, n) = p
  BY SubSeqFull DEF Path
<1>3. CASE n <= Len(q)
  <2>1. /\ SubSeq(q, 1, n) \in Path /\ Len(SubSeq(q, 1, n)) = n
        /\ \A i \in 1 .. n : SubSeq(q, 1, n)[i] = q[i]
    BY <1>1, <1>3, PathPart
  <2> HIDE DEF n
  <2>2. p = SubSeq(q, 1, n) <=> \A i \in 1 .. n : p[i] = q[i]
    BY <1>1, <2>1, PathsEqual DEF n
  <2> QED BY <1>2, <1>3, <2>2 DEF IsPrefix, n
<1> QED BY <1>3 DEF IsPrefix

LEMMA PrefixReflexive == ASSUME NEW p \in Path PROVE IsPrefix(p, p)
BY PrefixAt, PathLength

LEMMA PrefixTransitive ==
    ASSUME NEW p \in Path, NEW q \in Path, NEW r \in Path, IsPrefix(p, q), IsPrefix(q, r)
    PROVE  IsPrefix(p, r)
BY PrefixAt, PathLength

LEMMA PrefixAntisymmetric ==
    ASSUME NEW p \in Path, NEW q \in Path, IsPrefix(p, q), Len(q) <= Len(p)
    PROVE  p = q
BY PrefixAt, PathLength, PathsEqual

\* Two prefixes of a path are prefixes of one another.
LEMMA PrefixesRelated ==
    ASSUME NEW p \in Path, NEW q \in Path, NEW r \in Path, IsPrefix(p, r), IsPrefix(q, r)
    PROVE  Related(p, q)
<1>1. Len(p) \in Nat /\ Len(q) \in Nat
  BY PathLength
<1>2. /\ \A i \in 1 .. Len(p) : p[i] = r[i]
      /\ \A i \in 1 .. Len(q) : q[i] = r[i]
  BY PrefixAt
<1>3. CASE Len(p) <= Len(q)
  BY <1>1, <1>2, <1>3, PrefixAt DEF Related
<1>4. CASE Len(q) <= Len(p)
  BY <1>1, <1>2, <1>4, PrefixAt DEF Related
<1> QED BY <1>1, <1>3, <1>4

LEMMA FrontPath ==
    ASSUME NEW p \in Path, p # << >>
    PROVE  /\ Front(p) \in Path /\ Len(Front(p)) = Len(p) - 1
           /\ \A i \in 1 .. Len(p) - 1 : Front(p)[i] = p[i]
           /\ IsPrefix(Front(p), p) /\ Parent(p) = Front(p)
           /\ Last(p) \in Names
<1>1. Len(p) \in Nat /\ Len(p) # 0
  BY PathLength
<1>2. /\ Front(p) \in Path /\ Len(Front(p)) = Len(p) - 1
      /\ \A i \in 1 .. Len(p) - 1 : Front(p)[i] = p[i]
  <2> DEFINE n == Len(p) - 1
  <2>1. 1 \in Nat \ {0} /\ n \in Nat /\ n <= Len(p) /\ 1 <= n + 1 /\ n - 1 + 1 = n
        /\ \A i \in 1 .. n : 1 + i - 1 = i
    BY <1>1
  <2>2. /\ SubSeq(p, 1, n) \in Path /\ Len(SubSeq(p, 1, n)) = n - 1 + 1
        /\ \A i \in 1 .. n - 1 + 1 : SubSeq(p, 1, n)[i] = p[1 + i - 1]
    BY <2>1, PathPart
  <2> QED BY <2>1, <2>2 DEF Front
<1>3. IsPrefix(Front(p), p)
  BY <1>1, <1>2, PrefixAt
<1>4. p[Len(p)] \in Names
  BY <1>1, ElementOfSeq DEF Path
<1> QED BY <1>2, <1>3, <1>4 DEF Parent, Last

\* What is a prefix of a path and not all of it is a prefix of its parent.
LEMMA PrefixOfFront ==
    ASSUME NEW p \in Path, NEW q \in Path, q # << >>
    PROVE  IsPrefix(p, Front(q)) <=> IsPrefix(p, q) /\ p # q
<1>1. Len(q) \in Nat /\ Len(p) \in Nat /\ Len(q) # 0
  BY PathLength
<1>2. /\ Front(q) \in Path /\ Len(Front(q)) = Len(q) - 1
      /\ \A i \in 1 .. Len(q) - 1 : Front(q)[i] = q[i]
  BY FrontPath
<1>3. ASSUME IsPrefix(p, Front(q)) PROVE IsPrefix(p, q) /\ p # q
  <2>1. Len(p) <= Len(q) - 1 /\ \A i \in 1 .. Len(p) : p[i] = q[i]
    BY <1>1, <1>2, <1>3, PrefixAt
  <2> QED BY <1>1, <2>1, PrefixAt
<1>4. ASSUME IsPrefix(p, q), p # q PROVE IsPrefix(p, Front(q))
  <2>1. Len(p) <= Len(q) /\ \A i \in 1 .. Len(p) : p[i] = q[i]
    BY <1>4, PrefixAt
  <2>2. Len(p) # Len(q)
    BY <1>4, <2>1, PathsEqual
  <2> QED BY <1>1, <1>2, <2>1, <2>2, PrefixAt
<1> QED BY <1>3, <1>4

LEMMA ConcatPath ==
    ASSUME NEW p \in Path, NEW s \in Path
    PROVE  /\ p \o s \in Path /\ Len(p \o s) = Len(p) + Len(s)
           /\ \A i \in 1 .. Len(p) + Len(s) :
                 (p \o s)[i] = IF i <= Len(p) THEN p[i] ELSE s[i - Len(p)]
           /\ IsPrefix(p, p \o s)
           /\ Suffix(p, p \o s) = s
<1>1. /\ p \o s \in Path /\ Len(p \o s) = Len(p) + Len(s)
      /\ \A i \in 1 .. Len(p) + Len(s) :
            (p \o s)[i] = IF i <= Len(p) THEN p[i] ELSE s[i - Len(p)]
  BY ConcatProperties DEF Path
<1>2. Len(p) \in Nat /\ Len(s) \in Nat
  BY PathLength
<1>3. IsPrefix(p, p \o s)
  <2>1. Len(p) <= Len(p \o s) /\ \A i \in 1 .. Len(p) : p[i] = (p \o s)[i]
    BY <1>1, <1>2
  <2> QED BY <1>1, <2>1, PrefixAt
<1>4. /\ Suffix(p, p \o s) \in Path /\ Len(Suffix(p, p \o s)) = Len(s)
      /\ \A i \in 1 .. Len(s) : Suffix(p, p \o s)[i] = (p \o s)[Len(p) + i]
  <2> DEFINE m == Len(p) + 1
             n == Len(p \o s)
  <2>1. m \in Nat \ {0} /\ n \in Nat /\ n <= Len(p \o s) /\ m <= n + 1 /\ n - m + 1 = Len(s)
    BY <1>1, <1>2
  <2>2. /\ SubSeq(p \o s, m, n) \in Path /\ Len(SubSeq(p \o s, m, n)) = n - m + 1
        /\ \A i \in 1 .. n - m + 1 : SubSeq(p \o s, m, n)[i] = (p \o s)[m + i - 1]
    BY <1>1, <2>1, PathPart
  <2>3. \A i \in 1 .. Len(s) : m + i - 1 = Len(p) + i
    BY <1>2
  <2> QED BY <2>1, <2>2, <2>3 DEF Suffix
<1>5. \A i \in 1 .. Len(s) : (p \o s)[Len(p) + i] = s[i]
  BY <1>1, <1>2
<1>6. Suffix(p, p \o s) = s
  BY <1>4, <1>5, PathsEqual
<1> QED BY <1>1, <1>3, <1>6

LEMMA SuffixPath ==
    ASSUME NEW p \in Path, NEW q \in Path, IsPrefix(p, q)
    PROVE  /\ Suffix(p, q) \in Path /\ Len(Suffix(p, q)) = Len(q) - Len(p)
           /\ p \o Suffix(p, q) = q
<1> DEFINE s == Suffix(p, q)
<1>1. Len(p) \in Nat /\ Len(q) \in Nat /\ Len(p) <= Len(q)
      /\ \A i \in 1 .. Len(p) : p[i] = q[i]
  BY PathLength, PrefixAt
<1>2. /\ s \in Path /\ Len(s) = Len(q) - Len(p)
      /\ \A i \in 1 .. Len(q) - Len(p) : s[i] = q[Len(p) + i]
  <2> DEFINE m == Len(p) + 1
             n == Len(q)
  <2>1. m \in Nat \ {0} /\ n \in Nat /\ n <= Len(q) /\ m <= n + 1 /\ n - m + 1 = Len(q) - Len(p)
    BY <1>1
  <2>2. /\ SubSeq(q, m, n) \in Path /\ Len(SubSeq(q, m, n)) = n - m + 1
        /\ \A i \in 1 .. n - m + 1 : SubSeq(q, m, n)[i] = q[m + i - 1]
    BY <2>1, PathPart
  <2>3. \A i \in 1 .. Len(q) - Len(p) : m + i - 1 = Len(p) + i
    BY <1>1
  <2> QED BY <2>1, <2>2, <2>3 DEF Suffix
<1> HIDE DEF s
<1>3. /\ p \o s \in Path /\ Len(p \o s) = Len(q)
      /\ \A i \in 1 .. Len(q) : (p \o s)[i] = IF i <= Len(p) THEN p[i] ELSE s[i - Len(p)]
  BY <1>1, <1>2, ConcatPath
<1>4. ASSUME NEW i \in 1 .. Len(q) PROVE (p \o s)[i] = q[i]
  <2>1. i <= Len(p) => i \in 1 .. Len(p)
    BY <1>1
  <2>2. i > Len(p) => i - Len(p) \in 1 .. Len(q) - Len(p) /\ Len(p) + (i - Len(p)) = i
    BY <1>1
  <2>3. (p \o s)[i] = IF i <= Len(p) THEN p[i] ELSE s[i - Len(p)]
    BY <1>3
  <2>4. CASE i <= Len(p)
    BY <1>1, <2>1, <2>3, <2>4
  <2>5. CASE i > Len(p)
    <3>1. s[i - Len(p)] = q[Len(p) + (i - Len(p))]
      BY <1>2, <2>2, <2>5
    <3>2. ~(i <= Len(p))
      BY <1>1, <2>5
    <3> QED BY <2>2, <2>3, <2>5, <3>1, <3>2
  <2>6. i <= Len(p) \/ i > Len(p)
    <3>1. i \in Nat /\ Len(p) \in Nat
      BY <1>1
    <3> QED BY <3>1
  <2> QED BY <2>4, <2>5, <2>6, Zenon
<1>5. p \o s = q
  BY <1>3, <1>4, PathsEqual
<1> QED BY <1>2, <1>5 DEF s

LEMMA FrontConcat ==
    ASSUME NEW p \in Path, NEW s \in Path, s # << >>
    PROVE  Front(p \o s) = p \o Front(s) /\ p \o s # << >>
<1>1. Len(p) \in Nat /\ Len(s) \in Nat /\ Len(s) # 0
  BY PathLength
<1>2. /\ Front(s) \in Path /\ Len(Front(s)) = Len(s) - 1
      /\ \A i \in 1 .. Len(s) - 1 : Front(s)[i] = s[i]
  BY FrontPath
<1>3. /\ p \o s \in Path /\ Len(p \o s) = Len(p) + Len(s)
      /\ \A i \in 1 .. Len(p) + Len(s) :
            (p \o s)[i] = IF i <= Len(p) THEN p[i] ELSE s[i - Len(p)]
  BY ConcatPath
<1>4. p \o s # << >>
  BY <1>1, <1>3, PathLength
<1>5. /\ Front(p \o s) \in Path /\ Len(Front(p \o s)) = Len(p) + Len(s) - 1
      /\ \A i \in 1 .. Len(p) + Len(s) - 1 : Front(p \o s)[i] = (p \o s)[i]
  <2>1. Len(p \o s) - 1 = Len(p) + Len(s) - 1
    BY <1>3
  <2> QED BY <1>3, <1>4, <2>1, FrontPath
<1>6. /\ p \o Front(s) \in Path /\ Len(p \o Front(s)) = Len(p) + (Len(s) - 1)
      /\ \A i \in 1 .. Len(p) + (Len(s) - 1) :
            (p \o Front(s))[i] = IF i <= Len(p) THEN p[i] ELSE Front(s)[i - Len(p)]
  BY <1>2, ConcatPath
<1>7. \A i \in 1 .. Len(p) + Len(s) - 1 : Front(p \o s)[i] = (p \o Front(s))[i]
  <2> SUFFICES ASSUME NEW i \in 1 .. Len(p) + Len(s) - 1
               PROVE  Front(p \o s)[i] = (p \o Front(s))[i]
    OBVIOUS
  <2>1. i \in 1 .. Len(p) + Len(s) /\ i \in 1 .. Len(p) + (Len(s) - 1)
    BY <1>1
  <2>2. Front(p \o s)[i] = IF i <= Len(p) THEN p[i] ELSE s[i - Len(p)]
    BY <1>3, <1>5, <2>1
  <2>3. (p \o Front(s))[i] = IF i <= Len(p) THEN p[i] ELSE Front(s)[i - Len(p)]
    BY <1>6, <2>1
  <2>4. ~(i <= Len(p)) => i - Len(p) \in 1 .. Len(s) - 1
    BY <1>1, <2>1
  <2> QED BY <1>2, <2>2, <2>3, <2>4
<1>8. Len(Front(p \o s)) = Len(p \o Front(s))
  BY <1>1, <1>5, <1>6
<1> QED BY <1>4, <1>5, <1>6, <1>7, <1>8, PathsEqual

-----------------------------------------------------------------------------
(* Trees.                                                                  *)

\* A directory of the model: its paths, its contents, its shape.
Sound(t) == /\ DOMAIN t \subseteq Paths
            /\ t \in [DOMAIN t -> Content \cup {Dir}]
            /\ IsTree(t)

LEMMA FunctionTyped ==
    ASSUME NEW C, NEW f, f = [x \in DOMAIN f |-> f[x]], \A x \in DOMAIN f : f[x] \in C
    PROVE  f \in [DOMAIN f -> C]
OBVIOUS

LEMMA UnderSound ==
    ASSUME NEW t, Sound(t), NEW p
    PROVE  /\ DOMAIN t \subseteq Path /\ DOMAIN t \subseteq Paths
           /\ Under(t, p) \subseteq Paths /\ Children(t, p) \subseteq Paths
BY PathsAreShort DEF Sound, Under, Children

LEMMA ParentPath == ASSUME NEW p \in Path PROVE Parent(p) \in Path /\ Len(Parent(p)) <= Len(p)
<1>1. CASE p = << >>
  BY <1>1, PathLength DEF Parent
<1>2. CASE p # << >>
  BY <1>2, FrontPath, PathLength
<1> QED BY <1>1, <1>2

\* Nothing is below what is not a directory.
LEMMA NoChildren ==
    ASSUME NEW t, Sound(t), NEW p, ~IsDir(t, p), NEW q \in DOMAIN t, q # << >>
    PROVE  Parent(q) # p
BY DEF Sound, IsTree

\* mkdir, create and write: a path is placed in a directory, over nothing or a file.
LEMMA PlacedSound ==
    ASSUME NEW t, Sound(t), NEW p \in Path, Len(p) <= MaxDepth, ParentIsDir(t, p), ~IsDir(t, p),
           NEW x \in Content \cup {Dir}
    PROVE  Sound(Placed(t, p, x))
<1> DEFINE new == Placed(t, p, x)
<1>1. DOMAIN new = {p} \cup DOMAIN t /\ \A q \in DOMAIN new : new[q] = IF q = p THEN x ELSE t[q]
  BY DEF Placed
<1>2. p \in Paths
  BY PathsAreShort
<1>3. ASSUME NEW q \in DOMAIN new, q # << >> PROVE IsDir(new, Parent(q))
  <2>1. IsDir(t, Parent(q))
    BY <1>1, <1>3 DEF ParentIsDir, Sound, IsTree
  <2> HIDE DEF new
  <2> QED BY <1>1, <2>1 DEF IsDir
<1> HIDE DEF new
<1>4. DOMAIN new \subseteq Paths /\ \A q \in DOMAIN new : new[q] \in Content \cup {Dir}
  BY <1>1, <1>2 DEF Sound
<1>5. new \in [DOMAIN new -> Content \cup {Dir}]
  BY <1>4, FunctionTyped DEF new, Placed
<1> QED BY <1>3, <1>4, <1>5 DEF Sound, IsTree, new

\* unlink and rmdir: what goes has nothing in it.
LEMMA WithoutSound ==
    ASSUME NEW t, Sound(t), NEW p, Children(t, p) = {}
    PROVE  /\ Sound(Without(t, {p}))
           /\ DOMAIN Without(t, {p}) = DOMAIN t \ {p}
           /\ \A q \in DOMAIN t \ {p} : Without(t, {p})[q] = t[q]
<1> DEFINE new == Without(t, {p})
<1>1. DOMAIN new = DOMAIN t \ {p} /\ \A q \in DOMAIN new : new[q] = t[q]
  BY DEF Without, Restrict
<1>2. ASSUME NEW q \in DOMAIN new, q # << >> PROVE IsDir(new, Parent(q))
  <2>1. IsDir(t, Parent(q)) /\ q \in DOMAIN t
    BY <1>1, <1>2 DEF Sound, IsTree
  <2>2. Parent(q) # p
    BY <1>2, <2>1 DEF Children, Parent
  <2> HIDE DEF new
  <2> QED BY <1>1, <2>1, <2>2 DEF IsDir
<1> HIDE DEF new
<1>3. DOMAIN new \subseteq Paths /\ \A q \in DOMAIN new : new[q] \in Content \cup {Dir}
  BY <1>1 DEF Sound
<1>4. new \in [DOMAIN new -> Content \cup {Dir}]
  BY <1>3, FunctionTyped DEF new, Without, Restrict
<1> QED BY <1>1, <1>2, <1>3, <1>4 DEF Sound, IsTree, new

\* A file has nothing in it.
LEMMA FileIsLeaf ==
    ASSUME NEW t, Sound(t), NEW p, ~IsDir(t, p)
    PROVE  Children(t, p) = {}
<1>1. ASSUME NEW q \in Children(t, p) PROVE FALSE
  <2>1. q \in DOMAIN t /\ q # << >> /\ Parent(q) = p
    BY DEF Children, Parent
  <2> QED BY <2>1, NoChildren
<1> QED BY <1>1

\* The directories above a path: its parent, and theirs.
LEMMA AncestorsAbove ==
    ASSUME NEW p \in Path
    PROVE  /\ \A q \in Ancestors(p) : q \in Path /\ Len(q) < Len(p)
           /\ p # << >> => Parent(p) \in Ancestors(p)
           /\ \A q \in Ancestors(p) : q # << >> => Parent(q) \in Ancestors(p)
<1>1. Len(p) \in Nat
  BY PathLength
<1>2. ASSUME NEW n \in 0 .. Len(p) - 1
      PROVE  /\ SubSeq(p, 1, n) \in Path /\ Len(SubSeq(p, 1, n)) = n
             /\ \A i \in 1 .. n : SubSeq(p, 1, n)[i] = p[i]
  <2>1. 1 \in Nat \ {0} /\ n \in Nat /\ n <= Len(p) /\ 1 <= n + 1 /\ n - 1 + 1 = n
        /\ \A i \in 1 .. n : 1 + i - 1 = i
    BY <1>1
  <2>2. /\ SubSeq(p, 1, n) \in Path /\ Len(SubSeq(p, 1, n)) = n - 1 + 1
        /\ \A i \in 1 .. n - 1 + 1 : SubSeq(p, 1, n)[i] = p[1 + i - 1]
    BY <2>1, PathPart
  <2> QED BY <2>1, <2>2
<1>3. ASSUME NEW q \in Ancestors(p)
      PROVE  q \in Path /\ Len(q) < Len(p) /\ (q # << >> => Parent(q) \in Ancestors(p))
  <2>1. PICK n \in 0 .. Len(p) - 1 : q = SubSeq(p, 1, n)
    BY DEF Ancestors
  <2>2. q \in Path /\ Len(q) = n /\ \A i \in 1 .. n : q[i] = p[i]
    BY <1>2, <2>1
  <2>3. n < Len(p)
    BY <1>1
  <2>4. ASSUME q # << >> PROVE Parent(q) \in Ancestors(p)
    <3>1. n - 1 \in 0 .. Len(p) - 1
      BY <1>1, <2>2, <2>4, PathLength
    <3>2. /\ Parent(q) \in Path /\ Len(Parent(q)) = n - 1
          /\ \A i \in 1 .. n - 1 : Parent(q)[i] = q[i]
      BY <2>2, <2>4, FrontPath, ZenonT(40)
    <3>3. /\ SubSeq(p, 1, n - 1) \in Path /\ Len(SubSeq(p, 1, n - 1)) = n - 1
          /\ \A i \in 1 .. n - 1 : SubSeq(p, 1, n - 1)[i] = p[i]
      BY <1>2, <3>1
    <3>4. \A i \in 1 .. n - 1 : Parent(q)[i] = SubSeq(p, 1, n - 1)[i]
      BY <2>2, <3>1, <3>2, <3>3
    <3>5. Parent(q) = SubSeq(p, 1, n - 1)
      BY <3>2, <3>3, <3>4, PathsEqual
    <3> QED BY <3>1, <3>5 DEF Ancestors
  <2> QED BY <2>2, <2>3, <2>4
<1>4. ASSUME p # << >> PROVE Parent(p) \in Ancestors(p)
  <2>1. Len(p) - 1 \in 0 .. Len(p) - 1
    BY <1>1, <1>4, PathLength
  <2>2. Parent(p) = SubSeq(p, 1, Len(p) - 1)
    BY <1>4 DEF Parent, Front
  <2> QED BY <2>1, <2>2 DEF Ancestors
<1> QED BY <1>3, <1>4

\* rename: what was at and below the source is at and below the destination, the
\* rest of the directory is what it was less what the destination was.
LEMMA MovedTree ==
    ASSUME NEW t, Sound(t), NEW p \in Path, NEW q \in Path, CanRename(t, p, q)
    PROVE  LET new == Moved(t, p, q) IN
           /\ \A x \in Under(t, p) : /\ q \o Suffix(p, x) \in DOMAIN new
                                     /\ new[q \o Suffix(p, x)] = t[x]
           /\ \A x \in DOMAIN t : ~IsPrefix(p, x) /\ ~IsPrefix(q, x) =>
                 x \in DOMAIN new /\ new[x] = t[x]
           /\ \A y \in DOMAIN new :
                 \/ \E x \in Under(t, p) : y = q \o Suffix(p, x) /\ IsPrefix(q, y)
                 \/ y \in DOMAIN t /\ ~IsPrefix(p, y) /\ ~IsPrefix(q, y)
<1> DEFINE moved == {q \o Suffix(p, x) : x \in Under(t, p)}
           kept == DOMAIN t \ (Under(t, p) \cup Under(t, q))
           new == Moved(t, p, q)
<1>1. /\ DOMAIN new = moved \cup kept
      /\ \A r \in moved \cup kept : new[r] = IF r \in moved THEN t[p \o Suffix(q, r)] ELSE t[r]
  BY DEF Moved
<1>2. DOMAIN t \subseteq Path
  BY UnderSound
<1>3. ASSUME NEW x \in Under(t, p)
      PROVE  /\ p \o Suffix(p, x) = x
             /\ Suffix(q, q \o Suffix(p, x)) = Suffix(p, x)
             /\ IsPrefix(q, q \o Suffix(p, x))
  <2>1. x \in Path /\ IsPrefix(p, x)
    BY <1>2 DEF Under
  <2>2. Suffix(p, x) \in Path /\ p \o Suffix(p, x) = x
    BY <2>1, SuffixPath
  <2> QED BY <2>2, ConcatPath
<1>4. \A r \in moved : IsPrefix(q, r)
  BY <1>3
<1> HIDE DEF new
<1>5. ASSUME NEW x \in Under(t, p)
      PROVE  q \o Suffix(p, x) \in DOMAIN new /\ new[q \o Suffix(p, x)] = t[x]
  <2>1. q \o Suffix(p, x) \in moved
    OBVIOUS
  <2> HIDE DEF moved
  <2> QED BY <1>1, <1>3, <2>1
<1>6. ASSUME NEW x \in DOMAIN t, ~IsPrefix(p, x), ~IsPrefix(q, x)
      PROVE  x \in DOMAIN new /\ new[x] = t[x]
  <2>1. x \in kept /\ x \notin moved
    BY <1>4, <1>6 DEF Under
  <2> HIDE DEF moved, kept
  <2> QED BY <1>1, <2>1
<1>7. ASSUME NEW y \in DOMAIN new
      PROVE  \/ \E x \in Under(t, p) : y = q \o Suffix(p, x) /\ IsPrefix(q, y)
             \/ y \in DOMAIN t /\ ~IsPrefix(p, y) /\ ~IsPrefix(q, y)
  <2>1. CASE y \in moved
    BY <1>4, <2>1
  <2>2. CASE y \in kept
    BY <2>2 DEF Under
  <2> QED BY <1>1, <2>1, <2>2
<1> QED BY <1>5, <1>6, <1>7 DEF new

LEMMA MovedSound ==
    ASSUME NEW t, Sound(t), NEW p \in Path, NEW q \in Path, CanRename(t, p, q)
    PROVE  Sound(Moved(t, p, q))
<1> DEFINE new == Moved(t, p, q)
<1>1. /\ \A x \in Under(t, p) : /\ q \o Suffix(p, x) \in DOMAIN new
                                /\ new[q \o Suffix(p, x)] = t[x]
      /\ \A x \in DOMAIN t : ~IsPrefix(p, x) /\ ~IsPrefix(q, x) =>
            x \in DOMAIN new /\ new[x] = t[x]
      /\ \A y \in DOMAIN new :
            \/ \E x \in Under(t, p) : y = q \o Suffix(p, x) /\ IsPrefix(q, y)
            \/ y \in DOMAIN t /\ ~IsPrefix(p, y) /\ ~IsPrefix(q, y)
  BY MovedTree
<1> HIDE DEF new
<1>2. DOMAIN t \subseteq Path
  BY UnderSound
<1>3. p \in DOMAIN t /\ ParentIsDir(t, q) /\ ~(IsPrefix(p, q) /\ p # q)
      /\ \A x \in Under(t, p) : Len(q \o Suffix(p, x)) <= MaxDepth
  BY DEF CanRename, IsStrictPrefix
<1>4. ASSUME NEW y \in DOMAIN new
      PROVE  y \in Paths /\ new[y] \in Content \cup {Dir} /\ (y # << >> => IsDir(new, Parent(y)))
  <2>1. CASE \E x \in Under(t, p) : y = q \o Suffix(p, x)
    <3>1. PICK x \in Under(t, p) : y = q \o Suffix(p, x)
      BY <2>1
    <3> DEFINE s == Suffix(p, x)
    <3>2. x \in DOMAIN t /\ x \in Path /\ IsPrefix(p, x)
      BY <1>2 DEF Under
    <3>3. s \in Path /\ p \o s = x
      BY <3>2, SuffixPath
    <3> HIDE DEF s
    <3>4. y = q \o s /\ y \in Path /\ Len(y) <= MaxDepth /\ new[y] = t[x]
      BY <1>1, <1>3, <3>1, <3>3, ConcatPath DEF s
    <3>5. y \in Paths /\ new[y] \in Content \cup {Dir}
      BY <3>2, <3>4, PathsAreShort DEF Sound
    <3>6. CASE s # << >>
      <4>1. /\ Parent(y) = q \o Front(s) /\ Parent(x) = p \o Front(s)
            /\ x # << >> /\ Front(s) \in Path
        <5>1. Front(s) \in Path
          BY <3>3, <3>6, FrontPath
        <5>2. Front(q \o s) = q \o Front(s) /\ q \o s # << >>
          BY <3>3, <3>6, FrontConcat
        <5>3. Front(p \o s) = p \o Front(s) /\ p \o s # << >>
          BY <3>3, <3>6, FrontConcat
        <5> QED BY <3>3, <3>4, <5>1, <5>2, <5>3 DEF Parent
      <4>2. IsDir(t, Parent(x))
        BY <3>2, <4>1 DEF Sound, IsTree
      <4>3. Parent(x) \in Under(t, p) /\ Suffix(p, Parent(x)) = Front(s)
        BY <4>1, <4>2, ConcatPath DEF Under, IsDir
      <4>4. Parent(y) \in DOMAIN new /\ new[Parent(y)] = t[Parent(x)]
        BY <1>1, <4>1, <4>3
      <4> QED BY <3>5, <4>2, <4>4 DEF IsDir
    <3>7. CASE s = << >> /\ y # << >>
      <4>1. y = q
        BY <3>4, <3>7, ConcatEmptySeq DEF Path
      <4>2. IsDir(t, Parent(q)) /\ Parent(q) = Front(q) /\ Front(q) \in Path
        BY <1>3, <3>7, <4>1, FrontPath DEF ParentIsDir
      <4>3. ~IsPrefix(p, Front(q))
        BY <1>3, <3>7, <4>1, PrefixOfFront
      <4>4. ~IsPrefix(q, Front(q))
        BY <3>7, <4>1, PrefixOfFront
      <4> QED BY <1>1, <3>5, <4>1, <4>2, <4>3, <4>4 DEF IsDir
    <3> QED BY <3>5, <3>6, <3>7
  <2>2. CASE y \in DOMAIN t /\ ~IsPrefix(p, y) /\ ~IsPrefix(q, y)
    <3>1. new[y] = t[y] /\ y \in Path
      BY <1>1, <1>2, <2>2
    <3>2. y \in Paths /\ new[y] \in Content \cup {Dir}
      BY <2>2, <3>1 DEF Sound
    <3>3. ASSUME y # << >> PROVE IsDir(new, Parent(y))
      <4>1. IsDir(t, Parent(y)) /\ Parent(y) = Front(y)
        BY <2>2, <3>1, <3>3, FrontPath DEF Sound, IsTree
      <4>2. ~IsPrefix(p, Front(y)) /\ ~IsPrefix(q, Front(y))
        BY <2>2, <3>1, <3>3, PrefixOfFront
      <4> QED BY <1>1, <4>1, <4>2 DEF IsDir
    <3> QED BY <3>2, <3>3
  <2> QED BY <1>1, <2>1, <2>2
<1>5. new \in [DOMAIN new -> Content \cup {Dir}]
  BY <1>4, FunctionTyped DEF new, Moved
<1> QED BY <1>4, <1>5 DEF Sound, IsTree, new

\* Of numbers one is the least.
LEMMA HasLeast ==
    ASSUME NEW S, S \subseteq Nat, S # {}
    PROVE  \E x \in S : \A y \in S : x <= y
<1>1. PICK x \in S : \A y \in S : ~ (<<y, x>> \in OpToRel(<, Nat))
  BY NatLessThanWellFounded, WFMin
<1>2. \A y \in S : ~ (y < x)
  BY <1>1 DEF OpToRel
<1> QED BY <1>2

\* What is below a path is in an entry of it, which is a directory then.
LEMMA EntryTowards ==
    ASSUME NEW t, Sound(t), NEW q \in Path, NEW p \in DOMAIN t, IsPrefix(q, p), p # q
    PROVE  IsDir(t, q) /\ \E x \in Children(t, q) : IsPrefix(x, p)
<1> DEFINE S == {x \in DOMAIN t : IsPrefix(q, x) /\ IsPrefix(x, p) /\ x # q}
<1>1. DOMAIN t \subseteq Path
  BY UnderSound
<1>2. p \in S
  BY <1>1, PrefixReflexive
<1>3. {Len(x) : x \in S} \subseteq Nat /\ {Len(x) : x \in S} # {}
  BY <1>1, <1>2, PathLength
<1>4. PICK n \in {Len(x) : x \in S} : \A m \in {Len(x) : x \in S} : n <= m
  <2> HIDE DEF S
  <2> QED BY <1>3, HasLeast
<1>5. PICK x \in S : n = Len(x)
  OBVIOUS
<1>6. x \in Path /\ x # << >>
  <2>1. x \in Path
    BY <1>1
  <2>2. CASE x = << >>
    BY <2>1, <2>2, PathLength, PrefixAt
  <2> QED BY <2>1, <2>2
<1>7. /\ Parent(x) = Front(x) /\ Front(x) \in Path /\ Len(Front(x)) = Len(x) - 1
      /\ IsPrefix(Front(x), x)
  BY <1>6, FrontPath
<1>8. IsDir(t, Front(x))
  BY <1>6, <1>7 DEF Sound, IsTree
<1>9. Front(x) = q
  <2> SUFFICES ASSUME Front(x) # q PROVE FALSE
    OBVIOUS
  <2>1. IsPrefix(q, Front(x))
    BY <1>6, PrefixOfFront
  <2>2. IsPrefix(Front(x), p)
    BY <1>1, <1>6, <1>7, PrefixTransitive
  <2>3. Front(x) \in S
    BY <1>8, <2>1, <2>2 DEF IsDir
  <2>4. Len(x) <= Len(Front(x))
    <3> HIDE DEF S
    <3> QED BY <1>4, <1>5, <2>3
  <2> QED BY <1>6, <1>7, <2>4, PathLength
<1>10. x \in Children(t, q) /\ IsPrefix(x, p)
  BY <1>6, <1>9 DEF Children
<1> QED BY <1>8, <1>9, <1>10

-----------------------------------------------------------------------------
(* What the types rest on.                                                 *)

\* An upload, and nothing else, has a file open: one that is there.
TreeInv ==
    /\ Sound(tree)
    /\ handle \in [Clients -> Paths \cup {NoFile}]
    /\ \A c \in Clients : handle[c] # NoFile => IsFile(tree, handle[c]) /\ conn[c].pc = "write"
    /\ stayed \in [Clients -> SUBSET Paths]
    /\ \A c \in Clients : stayed[c] \subseteq DOMAIN tree

\* The handler of a request is one that handle dispatches it to, with a path
\* and a Destination that extract_path accepted.
Dispatched(c) ==
    LET r == conn[c].req
        pc == conn[c].pc
    IN  /\ pc = "idle" => r = NoRequest
        /\ pc # "idle" => r \in Requests[c]
        /\ pc \in {"parent", "parents", "create", "write"} => r.op = "PUT" /\ r.path \in Path
        /\ pc = "parents" => conn[c].todo \subseteq Ancestors(r.path)
        /\ pc = "mkcol" => r.op = "MKCOL" /\ r.path \in Path
        /\ pc = "unlink" => r.op = "DELETE" /\ r.path \in Paths
        /\ pc \in Removing => \/ r.op = "DELETE" /\ r.path \in Paths
                              \/ r.op \in {"COPY", "MOVE"}
        /\ pc = "decide" => r.op \in {"COPY", "MOVE"}
        /\ pc = "rename" => r.op = "MOVE"
        /\ pc = "copy" => r.op = "COPY" /\ \A p \in conn[c].todo : IsPrefix(r.path, p)
        /\ pc \in {"decide", "rename", "copy"} \cup Removing /\ r.op \in {"COPY", "MOVE"} =>
              r.path \in Paths /\ r.dest \in Path
        /\ pc \in {"rename", "copy"} \cup Removing /\ r.op \in {"COPY", "MOVE"} => r.path # r.dest
        /\ pc = "self" => r.op = "PROPFIND" /\ r.path \in Paths
        /\ pc = "list" => r.op \in {"PROPFIND", "SEARCH"} /\ r.path \in Paths
        /\ pc = "sending" => r.op = "ZIP"
        /\ pc \in {"sending", "away"} /\ r.op = "ZIP" => r.path \in Paths

ConnInv ==
    /\ writable \in BOOLEAN
    /\ conn \in [Clients -> Handler]
    /\ \A c \in Clients : Dispatched(c)
    /\ alone \in Clients \cup {Nobody}

-----------------------------------------------------------------------------
(* Steps of the handlers.                                                  *)

LEMMA RequestTyped ==
    ASSUME NEW c \in Clients, NEW r \in Requests[c]
    PROVE  /\ r \in (UNION {Requests[d] : d \in Clients}) \cup {NoRequest} /\ r # NoRequest
           /\ r.op \in Changing \cup Looking
           /\ r.path = Bad \/ r.path \in Path
           /\ r.dest = Bad \/ r.dest \in Path
           /\ r.op = "PUT" => r.body \in Bodies
BY RequestAssumption, ValueAssumption DEF Request, Path

PCs == {"idle"} \cup Over \cup Waiting \cup Removing

LEMMA HandlerFields ==
    ASSUME ConnInv, NEW c \in Clients
    PROVE  /\ conn[c].pc \in PCs
           /\ conn[c].req \in (UNION {Requests[d] : d \in Clients}) \cup {NoRequest}
           /\ conn[c].status \in Nat
           /\ conn[c].todo \subseteq Paths /\ conn[c].listed \subseteq Paths
           /\ conn[c].exists \in BOOLEAN /\ conn[c].flag \in BOOLEAN
BY DEF ConnInv, Handler, PCs, Over

\* A step of one client leaves the others where they are.
Only(c) ==
    /\ conn' \in [Clients -> Handler]
    /\ \A d \in Clients \ {c} : /\ conn'[d].pc = conn[d].pc
                                /\ conn'[d].req = conn[d].req
                                /\ conn'[d].status = conn[d].status
                                /\ conn'[d].todo = conn[d].todo
                                /\ conn'[d].listed = conn[d].listed

LEMMA ConnUpdate ==
    ASSUME ConnInv, NEW c \in Clients, NEW h \in Handler, conn' = [conn EXCEPT ![c] = h]
    PROVE  /\ Only(c) /\ conn'[c] = h
           /\ \A d \in Clients \ {c} : conn'[d] = conn[d]
<1>1. conn \in [Clients -> Handler]
  BY DEF ConnInv
<1>2. /\ conn' \in [Clients -> Handler] /\ conn'[c] = h
      /\ \A d \in Clients \ {c} : conn'[d] = conn[d]
  BY <1>1
<1> QED BY <1>2 DEF Only

LEMMA GotoStep ==
    ASSUME ConnInv, NEW c \in Clients, NEW pc \in PCs, Goto(c, pc)
    PROVE  /\ Only(c) /\ conn'[c].pc = pc /\ conn'[c].req = conn[c].req
           /\ conn'[c].status = conn[c].status
           /\ conn'[c].todo = conn[c].todo /\ conn'[c].listed = conn[c].listed
           /\ conn'[c].flag = conn[c].flag
           /\ \A d \in Clients \ {c} : conn'[d] = conn[d]
<1> DEFINE h == [conn[c] EXCEPT !.pc = pc]
<1>1. conn[c] \in Handler
  BY DEF ConnInv
<1>2. /\ h \in Handler /\ h.pc = pc /\ h.req = conn[c].req /\ h.status = conn[c].status
      /\ h.todo = conn[c].todo /\ h.listed = conn[c].listed /\ h.flag = conn[c].flag
  BY <1>1 DEF Handler, PCs
<1>3. conn' = [conn EXCEPT ![c] = h]
  BY DEF Goto
<1> HIDE DEF h
<1> QED BY <1>2, <1>3, ConnUpdate

LEMMA ReplyStep ==
    ASSUME ConnInv, NEW c \in Clients, NEW status \in Nat, Reply(c, status)
    PROVE  /\ Only(c) /\ conn'[c].pc = (IF conn[c].pc = "orphan" THEN "away" ELSE "done")
           /\ conn'[c].req = conn[c].req /\ conn'[c].status = status
           /\ conn'[c].todo = conn[c].todo /\ conn'[c].listed = conn[c].listed
           /\ \A d \in Clients \ {c} : conn'[d] = conn[d]
<1> DEFINE pc == IF conn[c].pc = "orphan" THEN "away" ELSE "done"
           h == [conn[c] EXCEPT !.pc = pc, !.status = status]
<1>1. conn[c] \in Handler
  BY DEF ConnInv
<1>2. /\ h \in Handler /\ h.pc = pc /\ h.req = conn[c].req /\ h.status = status
      /\ h.todo = conn[c].todo /\ h.listed = conn[c].listed
  BY <1>1 DEF Handler, Over
<1>3. conn' = [conn EXCEPT ![c] = h]
  BY DEF Reply
<1> HIDE DEF h
<1> QED BY <1>2, <1>3, ConnUpdate

LEMMA DispatchedElsewhere ==
    ASSUME ConnInv, NEW c \in Clients, Only(c), Dispatched(c)',
           UNCHANGED writable, alone' \in Clients \cup {Nobody}
    PROVE  ConnInv'
<1>1. ASSUME NEW d \in Clients \ {c} PROVE Dispatched(d)'
  BY <1>1 DEF ConnInv, Dispatched, Only
<1> QED BY <1>1 DEF ConnInv, Only

\* An answer ends the handler.
LEMMA ReplyConn ==
    ASSUME ConnInv, NEW c \in Clients, conn[c].pc \notin {"idle", "sending"}, NEW status \in Nat,
           Reply(c, status), UNCHANGED writable, alone' \in Clients \cup {Nobody}
    PROVE  ConnInv'
<1>1. /\ Only(c) /\ conn'[c].pc = (IF conn[c].pc = "orphan" THEN "away" ELSE "done")
      /\ conn'[c].req = conn[c].req
  BY ReplyStep
<1>2. Dispatched(c)
  BY DEF ConnInv
<1>3. conn[c].req \in Requests[c] /\ (conn[c].pc = "orphan" => conn[c].req.op # "ZIP")
  BY <1>2 DEF Dispatched, Removing
<1>4. Dispatched(c)'
  BY <1>1, <1>3 DEF Dispatched, Removing
<1> QED BY <1>1, <1>4, DispatchedElsewhere

\* A request comes: what Later means for the path, and the handler it gets.
LEMMA Accepted ==
    ASSUME NEW c \in Clients, NEW r \in Requests[c], Sound(tree), Answer(r) = Later
    PROVE  /\ r.path \in Path
           /\ r.op \in Changing => writable
           /\ r.op \in {"PUT", "MKCOL", "DELETE", "COPY", "MOVE", "PROPFIND", "SEARCH", "ZIP"}
           /\ r.op = "MKCOL" => r.path \notin DOMAIN tree
           /\ r.op \notin {"PUT", "MKCOL"} => r.path \in DOMAIN tree /\ r.path \in Paths
           /\ r.op \in {"COPY", "MOVE"} => r.dest \in Path
           /\ FirstStep(r) \in PCs \ ({"idle"} \cup Over)
           /\ r.op \in {"SEARCH", "ZIP"} => IsDir(tree, r.path)
<1>1. /\ r.path # Bad /\ (r.op \in Changing => writable)
      /\ r.op # "OPTIONS" /\ r.op \notin {"LOCK", "PROPPATCH", "UNLOCK"}
      /\ r.op = "MKCOL" => r.path \notin DOMAIN tree
      /\ r.op \notin {"PUT", "MKCOL"} => r.path \in DOMAIN tree
      /\ r.op \in {"COPY", "MOVE"} => r.dest # Bad
      /\ r.op \in {"SEARCH", "ZIP"} => ~IsFile(tree, r.path)
  BY DEF Answer, Later
<1>2. /\ r.op \in Changing \cup Looking /\ (r.path = Bad \/ r.path \in Path)
      /\ (r.dest = Bad \/ r.dest \in Path)
  BY RequestTyped
<1>3. r.op \in {"PUT", "MKCOL", "DELETE", "COPY", "MOVE", "PROPFIND", "SEARCH", "ZIP"}
  BY <1>1, <1>2 DEF Changing, Looking
<1>4. r.op \in {"SEARCH", "ZIP"} => IsDir(tree, r.path)
  BY <1>1 DEF IsDir, IsFile
<1>5. FirstStep(r) \in PCs \ ({"idle"} \cup Over)
  BY <1>3 DEF FirstStep, PCs, Over, Waiting, Removing
<1>6. DOMAIN tree \subseteq Paths
  BY UnderSound
<1> QED BY <1>1, <1>2, <1>3, <1>4, <1>5, <1>6

LEMMA ReceiveStep ==
    ASSUME TreeInv, ConnInv, NEW c \in Clients, NEW r \in Requests[c], Receive(c, r)
    PROVE  /\ Only(c) /\ conn'[c].req = r /\ ~conn'[c].flag /\ conn'[c].listed = {}
           /\ \A d \in Clients \ {c} : conn'[d] = conn[d]
           /\ \/ Answer(r) # Later /\ conn'[c].pc = "done" /\ conn'[c].status = Answer(r)
              \/ /\ Answer(r) = Later /\ conn'[c].pc = FirstStep(r)
                 /\ conn'[c].todo = IF r.op = "SEARCH" \/ (r.op = "PROPFIND" /\ IsDir(tree, r.path))
                                    THEN {r.path} ELSE {}
<1> DEFINE todo == IF r.op = "SEARCH" \/ (r.op = "PROPFIND" /\ IsDir(tree, r.path))
                   THEN {r.path} ELSE {}
           h == IF Answer(r) # Later
                THEN [Idle EXCEPT !.pc = "done", !.req = r, !.status = Answer(r)]
                ELSE [Idle EXCEPT !.pc = FirstStep(r), !.req = r, !.todo = todo]
<1>1. conn' = [conn EXCEPT ![c] = h]
  BY DEF Receive
<1>2. r \in (UNION {Requests[d] : d \in Clients}) \cup {NoRequest}
  BY RequestTyped
<1>3. CASE Answer(r) # Later
  <2>1. Answer(r) \in Nat
    BY DEF Answer, Later
  <2>2. h = [pc |-> "done", req |-> r, status |-> Answer(r), todo |-> {}, listed |-> {},
             exists |-> FALSE, flag |-> FALSE]
    BY <1>3 DEF Idle
  <2>3. h \in Handler
    BY <1>2, <2>1, <2>2 DEF Handler, Over
  <2>4. h.req = r /\ ~h.flag /\ h.listed = {} /\ h.pc = "done" /\ h.status = Answer(r)
    BY <2>2
  <2> HIDE DEF h
  <2>5. Only(c) /\ conn'[c] = h /\ \A d \in Clients \ {c} : conn'[d] = conn[d]
    BY <1>1, <2>3, ConnUpdate
  <2> QED BY <1>3, <2>4, <2>5
<1>4. CASE Answer(r) = Later
  <2>1. /\ FirstStep(r) \in PCs \ ({"idle"} \cup Over)
        /\ r.op \notin {"PUT", "MKCOL"} => r.path \in Paths
    BY <1>4, Accepted DEF TreeInv
  <2>2. todo \subseteq Paths
    BY <2>1, UnderSound DEF TreeInv
  <2>3. h = [pc |-> FirstStep(r), req |-> r, status |-> 0, todo |-> todo, listed |-> {},
             exists |-> FALSE, flag |-> FALSE]
    BY <1>4 DEF Idle
  <2> HIDE DEF todo, h
  <2>4. h \in Handler
    BY <1>2, <2>1, <2>2, <2>3 DEF Handler, PCs
  <2>5. h.req = r /\ ~h.flag /\ h.listed = {} /\ h.pc = FirstStep(r) /\ h.todo = todo
    BY <2>3
  <2>6. Only(c) /\ conn'[c] = h /\ \A d \in Clients \ {c} : conn'[d] = conn[d]
    BY <1>1, <2>4, ConnUpdate
  <2>7. conn'[c].todo = todo
    BY <2>5, <2>6
  <2> QED BY <1>4, <2>5, <2>6, <2>7 DEF todo
<1> QED BY <1>3, <1>4

LEMMA ReceiveConn ==
    ASSUME TreeInv, ConnInv, NEW c \in Clients, NEW r \in Requests[c], Receive(c, r)
    PROVE  ConnInv'
<1>1. /\ Only(c) /\ conn'[c].req = r
      /\ \/ conn'[c].pc = "done"
         \/ Answer(r) = Later /\ conn'[c].pc = FirstStep(r)
  BY ReceiveStep
<1>2. UNCHANGED writable /\ alone' \in Clients \cup {Nobody}
  BY DEF Receive
<1>3. CASE conn'[c].pc = "done"
  <2>1. Dispatched(c)'
    BY <1>1, <1>3 DEF Dispatched, Removing
  <2> QED BY <1>1, <1>2, <2>1, DispatchedElsewhere
<1>4. CASE Answer(r) = Later /\ conn'[c].pc = FirstStep(r)
  <2>1. /\ r.path \in Path
        /\ r.op \in {"PUT", "MKCOL", "DELETE", "COPY", "MOVE", "PROPFIND", "SEARCH", "ZIP"}
        /\ r.op \notin {"PUT", "MKCOL"} => r.path \in Paths
        /\ r.op \in {"COPY", "MOVE"} => r.dest \in Path
    BY <1>4, Accepted DEF TreeInv
  <2>2. \/ r.op = "PUT" /\ conn'[c].pc = "parent"
        \/ r.op = "MKCOL" /\ conn'[c].pc = "mkcol"
        \/ r.op = "DELETE" /\ conn'[c].pc \in {"remove", "unlink"}
        \/ r.op \in {"COPY", "MOVE"} /\ conn'[c].pc = "decide"
        \/ r.op = "PROPFIND" /\ conn'[c].pc = "self"
        \/ r.op = "SEARCH" /\ conn'[c].pc = "list"
        \/ r.op = "ZIP" /\ conn'[c].pc = "sending"
    BY <1>4, <2>1 DEF FirstStep
  <2>3. Dispatched(c)'
    BY <1>1, <2>1, <2>2 DEF Dispatched, Removing
  <2> QED BY <1>1, <1>2, <2>3, DispatchedElsewhere
<1> QED BY <1>1, <1>3, <1>4

LEMMA CreateStep ==
    ASSUME ConnInv, NEW c \in Clients, Create(c), ~Reply(c, 403)
    PROVE  /\ Only(c) /\ conn'[c].pc = "write" /\ conn'[c].req = conn[c].req
           /\ \A d \in Clients : conn'[d].flag =
                 (conn[d].flag
                  \/ (d # c /\ handle[d] = conn[c].req.path)
                  \/ (d = c /\ \E e \in Clients \ {c} : handle[e] = conn[c].req.path))
<1> DEFINE sharing == {d \in Clients \ {c} : handle[d] = conn[c].req.path}
           flag(d) == conn[d].flag \/ d \in sharing \/ (d = c /\ sharing # {})
           pc(d) == IF d = c THEN "write" ELSE conn[d].pc
           h(d) == [conn[d] EXCEPT !.pc = pc(d), !.flag = flag(d)]
<1>1. conn' = [d \in Clients |-> h(d)]
  BY DEF Create
<1>2. ASSUME NEW d \in Clients
      PROVE  /\ h(d) \in Handler
             /\ h(d).pc = pc(d) /\ h(d).req = conn[d].req
             /\ h(d).status = conn[d].status /\ h(d).todo = conn[d].todo
             /\ h(d).listed = conn[d].listed /\ h(d).flag = flag(d)
  <2>1. conn[d] \in Handler
    BY DEF ConnInv
  <2>2. pc(d) \in PCs /\ flag(d) \in BOOLEAN
    BY HandlerFields DEF PCs, Waiting
  <2> HIDE DEF pc, flag
  <2> QED BY <2>1, <2>2 DEF Handler, PCs
<1> HIDE DEF h
<1>3. conn' \in [Clients -> Handler] /\ \A d \in Clients : conn'[d] = h(d)
  BY <1>1, <1>2
<1>4. Only(c)
  BY <1>2, <1>3 DEF Only
<1> QED BY <1>2, <1>3, <1>4, SMTT(30)

\* A file that cannot be created leaves everything as it was.
LEMMA RefusedCreate ==
    ASSUME ConnInv, NEW c \in Clients, Create(c), Reply(c, 403)
    PROVE  SameTree
<1>1. 403 \in Nat
  OBVIOUS
<1>2. conn'[c].pc = (IF conn[c].pc = "orphan" THEN "away" ELSE "done")
  BY <1>1, ReplyStep
<1>3. PICK sharing : \/ conn' = [d \in Clients |->
                                [conn[d] EXCEPT !.pc = IF d = c THEN "write" ELSE @,
                                                !.flag = @ \/ d \in sharing
                                                           \/ (d = c /\ sharing # {})]]
                     \/ SameTree
  BY DEF Create
<1>4. CASE conn' = [d \in Clients |->
                      [conn[d] EXCEPT !.pc = IF d = c THEN "write" ELSE @,
                                      !.flag = @ \/ d \in sharing
                                                 \/ (d = c /\ sharing # {})]]
  <2>1. conn[c] \in Handler
    BY DEF ConnInv
  <2>2. conn'[c].pc = "write"
    BY <1>4, <2>1 DEF Handler
  <2> QED BY <1>2, <2>2
<1> QED BY <1>3, <1>4

LEMMA RefusedRename ==
    ASSUME ConnInv, NEW c \in Clients, Rename(c), Reply(c, 500)
    PROVE  SameTree
<1>1. 201 \in Nat /\ 500 \in Nat /\ 201 # 500
  OBVIOUS
<1>2. ~Reply(c, 201)
  BY <1>1, ReplyStep
<1> QED BY <1>2 DEF Rename

LEMMA DecideStep ==
    ASSUME TreeInv, ConnInv, NEW c \in Clients, Decide(c)
    PROVE  /\ Only(c) /\ conn'[c].req = conn[c].req
           /\ \A d \in Clients \ {c} : conn'[d] = conn[d]
           /\ \/ conn'[c].pc = "done" /\ conn'[c].status \in 400 .. 499
              \/ /\ conn[c].req.path # conn[c].req.dest
                 /\ \/ conn'[c].pc = "remove"
                    \/ conn'[c].pc = "rename" /\ conn[c].req.op = "MOVE"
                    \/ /\ conn'[c].pc = "copy" /\ conn[c].req.op = "COPY"
                       /\ conn'[c].todo = {conn[c].req.path}
           /\ conn[c].pc = "decide" /\ SameTree
<1> DEFINE r == conn[c].req
           exists == r.dest \in DOMAIN tree
           isFile == IsFile(tree, r.dest)
           clear == IsDir(tree, r.path) /\ OverwriteT(r) /\ exists /\ ~DepthZero(r) /\ ~isFile
           pc == IF clear THEN "remove" ELSE IF r.op = "COPY" THEN "copy" ELSE "rename"
           todo == IF clear THEN {} ELSE {r.path}
           h == [conn[c] EXCEPT !.pc = pc, !.todo = todo, !.exists = exists, !.flag = isFile]
<1>1. conn[c].pc = "decide"
  BY DEF Decide
<1>2. r.op \in {"COPY", "MOVE"} /\ r.path \in Paths /\ r.dest \in Path
  <2>1. Dispatched(c)
    BY DEF ConnInv
  <2> QED BY <1>1, <2>1 DEF Dispatched
<1>3. SameTree
  BY DEF Decide, RefuseOverwrite
<1>4. ASSUME NEW status \in {409, 412, 403}, Reply(c, status)
      PROVE  /\ Only(c) /\ conn'[c].req = r /\ conn'[c].pc = "done"
             /\ conn'[c].status \in 400 .. 499
             /\ \A d \in Clients \ {c} : conn'[d] = conn[d]
  <2>1. status \in Nat /\ status \in 400 .. 499
    OBVIOUS
  <2>2. /\ Only(c) /\ conn'[c].pc = (IF conn[c].pc = "orphan" THEN "away" ELSE "done")
        /\ conn'[c].req = conn[c].req /\ conn'[c].status = status
        /\ \A d \in Clients \ {c} : conn'[d] = conn[d]
    BY <1>4, <2>1, ReplyStep
  <2> QED BY <1>1, <2>1, <2>2
<1>5. \/ Reply(c, 409) \/ Reply(c, 412) \/ Reply(c, 403)
      \/ r.path # r.dest /\ conn' = [conn EXCEPT ![c] = h]
  BY DEF Decide, SamePath
<1>6. ASSUME r.path # r.dest, conn' = [conn EXCEPT ![c] = h]
      PROVE  /\ Only(c) /\ conn'[c].req = r /\ conn'[c].pc = pc /\ conn'[c].todo = todo
             /\ \A d \in Clients \ {c} : conn'[d] = conn[d]
  <2>1. conn[c] \in Handler
    BY DEF ConnInv
  <2>2. pc \in PCs /\ todo \in SUBSET Paths /\ exists \in BOOLEAN /\ isFile \in BOOLEAN
    BY <1>2 DEF PCs, Waiting, Removing, IsFile
  <2> HIDE DEF pc, todo, exists, isFile
  <2>3. h \in Handler /\ h.pc = pc /\ h.todo = todo /\ h.req = r
    BY <2>1, <2>2 DEF Handler, PCs
  <2> HIDE DEF h
  <2> QED BY <1>6, <2>3, ConnUpdate
<1>7. CASE Reply(c, 409) \/ Reply(c, 412) \/ Reply(c, 403)
  BY <1>1, <1>3, <1>4, <1>7
<1>8. CASE r.path # r.dest /\ conn' = [conn EXCEPT ![c] = h]
  <2>1. /\ Only(c) /\ conn'[c].req = r /\ conn'[c].pc = pc /\ conn'[c].todo = todo
        /\ \A d \in Clients \ {c} : conn'[d] = conn[d]
    BY <1>6, <1>8
  <2>2. \/ pc = "remove"
        \/ pc = "rename" /\ r.op = "MOVE"
        \/ pc = "copy" /\ r.op = "COPY" /\ todo = {r.path}
    BY <1>2
  <2> HIDE DEF pc, todo
  <2> QED BY <1>1, <1>3, <1>8, <2>1, <2>2
<1> QED BY <1>5, <1>7, <1>8

LEMMA RemoveStep ==
    ASSUME TreeInv, ConnInv, NEW c \in Clients, RemoveNext(c)
    PROVE  /\ Only(c) /\ conn'[c].req = conn[c].req
           /\ \A d \in Clients \ {c} : conn'[d] = conn[d]
           /\ conn[c].pc \in Removing
           /\ \E p \in Under(tree, Target(conn[c].req)) :
                 Children(tree, p) = {} /\ SetTree(Without(tree, {p}))
           /\ \/ conn' = conn
              \/ conn'[c].pc \in {"done", "away"} /\ conn'[c].status = 204
                 /\ (conn'[c].pc = "away" => conn[c].pc = "orphan")
              \/ /\ conn[c].req.op \in {"COPY", "MOVE"}
                 /\ conn'[c].pc = (IF conn[c].req.op = "COPY" THEN "copy" ELSE "rename")
                 /\ conn'[c].todo = {conn[c].req.path}
<1> DEFINE r == conn[c].req
<1>1. conn[c].pc \in Removing /\ Dispatched(c) /\ conn[c] \in Handler
  BY DEF RemoveNext, ConnInv
<1>2. r.op = "DELETE" \/ (r.op \in {"COPY", "MOVE"} /\ r.path \in Paths)
  BY <1>1 DEF Dispatched, Removing
<1>3. PICK p \in Under(tree, Target(r)) :
        /\ Children(tree, p) = {}
        /\ SetTree(Without(tree, {p}))
        /\ IF p # Target(r)
           THEN UNCHANGED conn
           ELSE IF r.op = "DELETE" \/ conn[c].pc = "orphan"
           THEN Reply(c, 204)
           ELSE Transfer(c)
  BY DEF RemoveNext
<1>4. CASE UNCHANGED conn
  BY <1>1, <1>3, <1>4 DEF Only, ConnInv
<1>5. CASE Reply(c, 204)
  <2>1. /\ Only(c) /\ conn'[c].pc = (IF conn[c].pc = "orphan" THEN "away" ELSE "done")
        /\ conn'[c].req = conn[c].req /\ conn'[c].status = 204
        /\ \A d \in Clients \ {c} : conn'[d] = conn[d]
    <3>1. 204 \in Nat
      OBVIOUS
    <3> QED BY <1>5, <3>1, ReplyStep
  <2> QED BY <1>1, <1>3, <2>1
<1>6. CASE Transfer(c) /\ r.op # "DELETE"
  <2> DEFINE pc == IF r.op = "COPY" THEN "copy" ELSE "rename"
             h == [conn[c] EXCEPT !.pc = pc, !.todo = {r.path}]
  <2>1. conn' = [conn EXCEPT ![c] = h]
    BY <1>6 DEF Transfer
  <2>2. pc \in PCs
    BY DEF PCs, Waiting
  <2>3. h \in Handler /\ h.req = r /\ h.pc = pc /\ h.todo = {r.path}
    BY <1>1, <1>2, <1>6, <2>2 DEF Handler, PCs
  <2> HIDE DEF h
  <2>4. Only(c) /\ conn'[c] = h /\ \A d \in Clients \ {c} : conn'[d] = conn[d]
    BY <2>1, <2>3, ConnUpdate
  <2> QED BY <1>1, <1>2, <1>3, <1>6, <2>3, <2>4
<1> QED BY <1>3, <1>4, <1>5, <1>6

\* What was there is there, but files at and below a path may be others.
Grown(t, new, top) ==
    \A q \in DOMAIN t : /\ q \in DOMAIN new
                        /\ \/ new[q] = t[q]
                           \/ IsPrefix(top, q) /\ t[q] # Dir /\ new[q] # Dir

LEMMA DirMade ==
    ASSUME NEW t, Sound(t), NEW d \in Path, CanMake(t, d)
    PROVE  /\ Sound(Placed(t, d, Dir))
           /\ \A q \in DOMAIN t : q \in DOMAIN Placed(t, d, Dir) /\ Placed(t, d, Dir)[q] = t[q]
<1>1. Len(d) <= MaxDepth /\ ParentIsDir(t, d) /\ ~IsDir(t, d) /\ d \notin DOMAIN t
  BY DEF CanMake, IsDir
<1>2. Sound(Placed(t, d, Dir))
  BY <1>1, PlacedSound
<1>3. \A q \in DOMAIN t : q \in DOMAIN Placed(t, d, Dir) /\ Placed(t, d, Dir)[q] = t[q]
  BY <1>1 DEF Placed
<1> QED BY <1>2, <1>3

LEMMA FileWritten ==
    ASSUME NEW t, Sound(t), NEW file \in Path, CanWrite(t, file), NEW x \in Content,
           NEW top, IsPrefix(top, file)
    PROVE  Sound(Placed(t, file, x)) /\ Grown(t, Placed(t, file, x), top)
<1>1. Len(file) <= MaxDepth /\ ParentIsDir(t, file) /\ ~IsDir(t, file) /\ x # Dir
  BY ValueAssumption DEF CanWrite
<1>2. Sound(Placed(t, file, x))
  BY <1>1, PlacedSound
<1>3. /\ DOMAIN Placed(t, file, x) = {file} \cup DOMAIN t
      /\ \A q \in {file} \cup DOMAIN t : Placed(t, file, x)[q] = IF q = file THEN x ELSE t[q]
  BY DEF Placed
<1>4. Grown(t, Placed(t, file, x), top)
  BY <1>1, <1>3, SMTT(30) DEF Grown, IsDir
<1> QED BY <1>2, <1>4

\* Where do_copy puts what is at p, and what the directory is then.
LEMMA CopyPlaces ==
    ASSUME TreeInv, ConnInv, NEW c \in Clients, conn[c].pc = "copy", NEW p \in conn[c].todo,
           NEW asDir \in BOOLEAN
    PROVE  LET r == conn[c].req
               d == r.dest \o Suffix(r.path, p)
               made == IF asDir /\ CanMake(tree, d) THEN Placed(tree, d, Dir) ELSE tree
               file == IF asDir THEN Append(d, Name(p)) ELSE d
           IN  /\ d \in Path /\ file \in Path
               /\ IsPrefix(r.dest, d) /\ IsPrefix(r.dest, file)
               /\ Sound(made) /\ Grown(tree, made, r.dest)
               /\ \A q \in DOMAIN tree : q \in DOMAIN made /\ made[q] = tree[q]
               /\ \A x \in Content : CanWrite(made, file) =>
                     Sound(Placed(made, file, x)) /\ Grown(tree, Placed(made, file, x), r.dest)
<1> DEFINE r == conn[c].req
           d == r.dest \o Suffix(r.path, p)
           made == IF asDir /\ CanMake(tree, d) THEN Placed(tree, d, Dir) ELSE tree
           file == IF asDir THEN Append(d, Name(p)) ELSE d
<1>1. /\ r.path \in Path /\ r.dest \in Path /\ IsPrefix(r.path, p) /\ p \in Paths /\ p \in Path
  <2>1. Dispatched(c) /\ conn[c].todo \subseteq Paths
    BY HandlerFields DEF ConnInv
  <2> QED BY <2>1, PathsAreShort DEF Dispatched
<1>2. d \in Path /\ file \in Path /\ IsPrefix(r.dest, d) /\ IsPrefix(r.dest, file)
  <2>1. Suffix(r.path, p) \in Path
    BY <1>1, SuffixPath
  <2>2. d \in Path /\ IsPrefix(r.dest, d)
    BY <1>1, <2>1, ConcatPath
  <2>3. Name(p) \in Names
    BY <1>1, FrontPath, RequestAssumption DEF Name
  <2> HIDE DEF d
  <2>4. Append(d, Name(p)) = d \o <<Name(p)>> /\ <<Name(p)>> \in Path
    BY <2>2, <2>3, AppendIsConcat DEF Path
  <2>5. Append(d, Name(p)) \in Path /\ IsPrefix(d, Append(d, Name(p)))
    BY <2>2, <2>4, ConcatPath
  <2>6. IsPrefix(r.dest, Append(d, Name(p)))
    BY <1>1, <2>2, <2>5, PrefixTransitive
  <2> QED BY <2>2, <2>5, <2>6
<1>3. Sound(made) /\ Grown(tree, made, r.dest)
      /\ \A q \in DOMAIN tree : q \in DOMAIN made /\ made[q] = tree[q]
  <2>1. Sound(tree)
    BY DEF TreeInv
  <2> HIDE DEF d
  <2>2. CASE asDir /\ CanMake(tree, d)
    <3>1. made = Placed(tree, d, Dir)
      BY <2>2
    <3>2. /\ Sound(Placed(tree, d, Dir))
          /\ \A q \in DOMAIN tree : q \in DOMAIN Placed(tree, d, Dir)
                                    /\ Placed(tree, d, Dir)[q] = tree[q]
      BY <1>2, <2>1, <2>2, DirMade
    <3> QED BY <3>1, <3>2 DEF Grown
  <2>3. CASE ~(asDir /\ CanMake(tree, d))
    <3>1. made = tree
      BY <2>3
    <3> QED BY <2>1, <3>1 DEF Grown
  <2> QED BY <2>2, <2>3
<1>4. ASSUME NEW x \in Content, CanWrite(made, file)
      PROVE  Sound(Placed(made, file, x)) /\ Grown(tree, Placed(made, file, x), r.dest)
  <2> HIDE DEF made, file
  <2>1. Sound(Placed(made, file, x)) /\ Grown(made, Placed(made, file, x), r.dest)
    BY <1>2, <1>3, <1>4, FileWritten
  <2> QED BY <1>3, <2>1 DEF Grown
<1> HIDE DEF made, file, d
<1> QED BY <1>2, <1>3, <1>4 DEF made, file, d

\* What do_copy has left to do.
LEMMA CopyTodo ==
    ASSUME ConnInv, NEW c \in Clients, conn[c].pc = "copy", NEW S \in SUBSET Paths,
           \A q \in S : IsPrefix(conn[c].req.path, q),
           \/ conn' = [conn EXCEPT ![c].todo = S]
           \/ conn' = [conn EXCEPT ![c].todo = S, ![c].status = 500]
    PROVE  /\ Only(c) /\ conn'[c].req = conn[c].req /\ conn'[c].pc = "copy"
           /\ \A q \in conn'[c].todo : IsPrefix(conn[c].req.path, q)
           /\ \A e \in Clients \ {c} : conn'[e] = conn[e]
<1> DEFINE r == conn[c].req
<1>1. conn[c] \in Handler /\ 500 \in Nat
  BY DEF ConnInv
<1>2. \E h \in Handler : /\ conn' = [conn EXCEPT ![c] = h]
                         /\ h.pc = conn[c].pc /\ h.req = r /\ h.todo = S
  <2>1. CASE conn' = [conn EXCEPT ![c].todo = S]
    <3> DEFINE h == [conn[c] EXCEPT !.todo = S]
    <3>1. conn' = [conn EXCEPT ![c] = h]
      BY <2>1
    <3>2. h \in Handler /\ h.pc = conn[c].pc /\ h.req = r /\ h.todo = S
      BY <1>1 DEF Handler
    <3> QED BY <3>1, <3>2
  <2>2. CASE conn' = [conn EXCEPT ![c].todo = S, ![c].status = 500]
    <3>1. PICK status \in Nat : conn' = [conn EXCEPT ![c].todo = S, ![c].status = status]
      BY <1>1, <2>2, ZenonT(40)
    <3> DEFINE h == [conn[c] EXCEPT !.todo = S, !.status = status]
    <3>2. conn' = [conn EXCEPT ![c] = h]
      BY <3>1, ZenonT(40)
    <3>3. h \in Handler /\ h.pc = conn[c].pc /\ h.req = r /\ h.todo = S
      BY <1>1 DEF Handler
    <3> QED BY <3>2, <3>3
  <2> QED BY <2>1, <2>2
<1>3. PICK h \in Handler : /\ conn' = [conn EXCEPT ![c] = h]
                           /\ h.pc = conn[c].pc /\ h.req = r /\ h.todo = S
  BY <1>2
<1>4. Only(c) /\ conn'[c] = h /\ \A e \in Clients \ {c} : conn'[e] = conn[e]
  BY <1>3, ConnUpdate
<1> QED BY <1>3, <1>4

\* The entries that a copy or a walk finds are at or below where it started.
LEMMA EntriesBelow ==
    ASSUME NEW t, Sound(t), NEW q \in Path, NEW p \in Path, IsPrefix(q, p)
    PROVE  Children(t, p) \subseteq Paths /\ \A x \in Children(t, p) : IsPrefix(q, x)
<1>1. Children(t, p) \subseteq Paths
  BY UnderSound
<1>2. ASSUME NEW x \in Children(t, p) PROVE IsPrefix(q, x)
  <2>1. x \in Path /\ x # << >> /\ Front(x) = p
    BY <1>1, PathsAreShort DEF Children
  <2>2. IsPrefix(p, x)
    BY <2>1, FrontPath
  <2> QED BY <2>1, <2>2, PrefixTransitive
<1> QED BY <1>1, <1>2

LEMMA CopyStep ==
    ASSUME TreeInv, ConnInv, NEW c \in Clients, CopyNext(c)
    PROVE  /\ Only(c) /\ conn'[c].req = conn[c].req
           /\ \A d \in Clients \ {c} : conn'[d] = conn[d]
           /\ conn[c].pc = "copy" /\ conn'[c].pc = "copy"
           /\ \A q \in conn'[c].todo : IsPrefix(conn[c].req.path, q)
           /\ \/ SameTree
              \/ \E new : Sound(new) /\ Grown(tree, new, conn[c].req.dest) /\ SetTree(new)
<1> DEFINE r == conn[c].req
           d(p) == r.dest \o Suffix(r.path, p)
           asDir(p) == IF p = r.path THEN ~conn[c].flag ELSE IsDir(tree, p)
           made(p) == IF asDir(p) /\ CanMake(tree, d(p)) THEN Placed(tree, d(p), Dir) ELSE tree
           file(p) == IF asDir(p) THEN Append(d(p), Name(p)) ELSE d(p)
           rest(p) == conn[c].todo \ {p}
           some(p) == rest(p) \cup IF DepthZero(r) THEN {} ELSE Children(made(p), p)
           Below(S) == S \in SUBSET Paths /\ \A q \in S : IsPrefix(r.path, q)
<1>1. conn[c].pc = "copy"
  BY DEF CopyNext
<1>2. /\ r.path \in Path
      /\ \A q \in conn[c].todo : IsPrefix(r.path, q) /\ q \in Paths /\ q \in Path
  <2>1. Dispatched(c) /\ conn[c].todo \subseteq Paths
    BY HandlerFields DEF ConnInv
  <2> QED BY <1>1, <2>1, PathsAreShort DEF Dispatched
<1>3. \E p \in conn[c].todo :
        \/ conn' = [conn EXCEPT ![c].todo = rest(p)] /\ SameTree
        \/ \E left \in {rest(p), {q \in rest(p) : Parent(q) # Parent(p)}} :
              conn' = [conn EXCEPT ![c].todo = left, ![c].status = 500] /\ SameTree
        \/ conn' = [conn EXCEPT ![c].todo = some(p)] /\ SetTree(made(p))
        \/ /\ CanWrite(made(p), file(p)) /\ ~IsDir(tree, p) /\ p \in DOMAIN tree
           /\ SetTree(Placed(made(p), file(p), IF file(p) = p THEN Partial ELSE tree[p]))
           /\ conn' = [conn EXCEPT ![c].todo = rest(p)]
        \/ conn' = [conn EXCEPT ![c].todo = rest(p), ![c].status = 500] /\ SetTree(made(p))
  BY ZenonT(60) DEF CopyNext
<1>4. PICK p \in conn[c].todo :
        \/ conn' = [conn EXCEPT ![c].todo = rest(p)] /\ SameTree
        \/ \E left \in {rest(p), {q \in rest(p) : Parent(q) # Parent(p)}} :
              conn' = [conn EXCEPT ![c].todo = left, ![c].status = 500] /\ SameTree
        \/ conn' = [conn EXCEPT ![c].todo = some(p)] /\ SetTree(made(p))
        \/ /\ CanWrite(made(p), file(p)) /\ ~IsDir(tree, p) /\ p \in DOMAIN tree
           /\ SetTree(Placed(made(p), file(p), IF file(p) = p THEN Partial ELSE tree[p]))
           /\ conn' = [conn EXCEPT ![c].todo = rest(p)]
        \/ conn' = [conn EXCEPT ![c].todo = rest(p), ![c].status = 500] /\ SetTree(made(p))
  BY <1>3, Zenon
<1>5. /\ Sound(made(p)) /\ Grown(tree, made(p), r.dest)
      /\ \A x \in Content : CanWrite(made(p), file(p)) =>
            /\ Sound(Placed(made(p), file(p), x))
            /\ Grown(tree, Placed(made(p), file(p), x), r.dest)
  <2>1. asDir(p) \in BOOLEAN
    BY HandlerFields DEF IsDir
  <2> HIDE DEF asDir
  <2> QED BY <1>1, <2>1, CopyPlaces
<1>6. Below(rest(p)) /\ Below({q \in rest(p) : Parent(q) # Parent(p)})
  BY <1>2
<1>7. Below(some(p))
  <2> HIDE DEF made
  <2>1. Children(made(p), p) \subseteq Paths /\ \A x \in Children(made(p), p) : IsPrefix(r.path, x)
    BY <1>2, <1>5, EntriesBelow
  <2> QED BY <1>6, <2>1
<1>8. ASSUME NEW S, Below(S),
             \/ conn' = [conn EXCEPT ![c].todo = S]
             \/ conn' = [conn EXCEPT ![c].todo = S, ![c].status = 500]
      PROVE  /\ Only(c) /\ conn'[c].req = r /\ conn'[c].pc = "copy"
             /\ \A q \in conn'[c].todo : IsPrefix(r.path, q)
             /\ \A e \in Clients \ {c} : conn'[e] = conn[e]
  BY <1>1, <1>8, CopyTodo
<1>9. /\ Only(c) /\ conn'[c].req = r /\ conn'[c].pc = "copy"
      /\ \A q \in conn'[c].todo : IsPrefix(r.path, q)
      /\ \A e \in Clients \ {c} : conn'[e] = conn[e]
  <2> HIDE DEF Below, rest, some, made, file
  <2>1. CASE conn' = [conn EXCEPT ![c].todo = rest(p)]
    BY <1>6, <1>8, <2>1
  <2>2. CASE \E left \in {rest(p), {q \in rest(p) : Parent(q) # Parent(p)}} :
               conn' = [conn EXCEPT ![c].todo = left, ![c].status = 500]
    BY <1>6, <1>8, <2>2
  <2>3. CASE conn' = [conn EXCEPT ![c].todo = some(p)]
    BY <1>7, <1>8, <2>3
  <2>4. CASE conn' = [conn EXCEPT ![c].todo = rest(p), ![c].status = 500]
    BY <1>6, <1>8, <2>4
  <2> QED BY <1>4, <2>1, <2>2, <2>3, <2>4
<1>10. \/ SameTree
       \/ \E new : Sound(new) /\ Grown(tree, new, r.dest) /\ SetTree(new)
  <2>1. CASE SameTree
    BY <2>1
  <2>2. CASE SetTree(made(p))
    BY <1>5, <2>2
  <2>3. ASSUME CanWrite(made(p), file(p)), ~IsDir(tree, p), p \in DOMAIN tree,
               SetTree(Placed(made(p), file(p), IF file(p) = p THEN Partial ELSE tree[p]))
        PROVE  \E new : Sound(new) /\ Grown(tree, new, r.dest) /\ SetTree(new)
    <3> DEFINE x == IF file(p) = p THEN Partial ELSE tree[p]
    <3>1. x \in Content
      BY <2>3, ZenonT(40) DEF TreeInv, Sound, Content, IsDir
    <3>2. SetTree(Placed(made(p), file(p), x))
      BY <2>3
    <3> HIDE DEF x, made, file
    <3> QED BY <1>5, <2>3, <3>1, <3>2
  <2> HIDE DEF made, file, rest, some
  <2> QED BY <1>4, <2>1, <2>2, <2>3
<1> HIDE DEF Below, rest, some, made, file
<1> QED BY <1>1, <1>9, <1>10

LEMMA CopyFailsStep ==
    ASSUME TreeInv, ConnInv, NEW c \in Clients, CopyFails(c)
    PROVE  /\ Only(c) /\ conn'[c].req = conn[c].req
           /\ \A d \in Clients \ {c} : conn'[d] = conn[d]
           /\ conn[c].pc = "copy" /\ conn'[c].pc = "copy"
           /\ \A q \in conn'[c].todo : IsPrefix(conn[c].req.path, q)
           /\ \E new : Sound(new) /\ Grown(tree, new, conn[c].req.dest) /\ Becomes(new)
           /\ alone' = Nobody /\ UNCHANGED <<writable, before>>
<1> DEFINE r == conn[c].req
           d(p) == r.dest \o Suffix(r.path, p)
           asDir(p) == IF p = r.path THEN ~conn[c].flag ELSE IsDir(tree, p)
           made(p) == IF asDir(p) /\ CanMake(tree, d(p)) THEN Placed(tree, d(p), Dir) ELSE tree
           file(p) == IF asDir(p) THEN Append(d(p), Name(p)) ELSE d(p)
           rest(p) == conn[c].todo \ {p}
           some(p) == rest(p) \cup IF DepthZero(r) THEN {} ELSE Children(tree, p)
           Below(S) == S \in SUBSET Paths /\ \A q \in S : IsPrefix(r.path, q)
<1>1. conn[c].pc = "copy" /\ alone' = Nobody /\ UNCHANGED before
  BY DEF CopyFails
<1>2. /\ r.path \in Path
      /\ \A q \in conn[c].todo : IsPrefix(r.path, q) /\ q \in Paths /\ q \in Path
  <2>1. Dispatched(c) /\ conn[c].todo \subseteq Paths
    BY HandlerFields DEF ConnInv
  <2> QED BY <1>1, <2>1, PathsAreShort DEF Dispatched
<1>3. PICK p \in conn[c].todo :
        \/ Becomes(tree) /\ conn' = [conn EXCEPT ![c].todo = some(p)]
        \/ /\ \/ Becomes(tree) \/ Becomes(made(p))
              \/ CanWrite(made(p), file(p)) /\ Becomes(Placed(made(p), file(p), Partial))
           /\ \E left \in {rest(p), {q \in rest(p) : Parent(q) # Parent(p)}} :
                 conn' = [conn EXCEPT ![c].todo = left, ![c].status = 500]
  <2>1. PICK p \in conn[c].todo :
        LET part == IF IsFile(tree, p) /\ CanWrite(made(p), file(p))
                    THEN {Placed(made(p), file(p), Partial)} ELSE {}
        IN  \/ Becomes(tree) /\ conn' = [conn EXCEPT ![c].todo = some(p)]
            \/ /\ \E new \in {tree, made(p)} \cup part : Becomes(new)
               /\ \E left \in {rest(p), {q \in rest(p) : Parent(q) # Parent(p)}} :
                     conn' = [conn EXCEPT ![c].todo = left, ![c].status = 500]
    BY Zenon DEF CopyFails
  <2> HIDE DEF rest, some, made, file
  <2> QED BY <2>1
<1>4. /\ Sound(made(p)) /\ Grown(tree, made(p), r.dest)
      /\ \A x \in Content : CanWrite(made(p), file(p)) =>
            /\ Sound(Placed(made(p), file(p), x))
            /\ Grown(tree, Placed(made(p), file(p), x), r.dest)
  <2>1. asDir(p) \in BOOLEAN
    BY HandlerFields DEF IsDir
  <2> HIDE DEF asDir
  <2> QED BY <1>1, <2>1, CopyPlaces
<1>5. Below(rest(p)) /\ Below({q \in rest(p) : Parent(q) # Parent(p)})
  BY <1>2
<1>6. Below(some(p))
  <2>1. Children(tree, p) \subseteq Paths /\ \A x \in Children(tree, p) : IsPrefix(r.path, x)
    BY <1>2, EntriesBelow DEF TreeInv
  <2> QED BY <1>5, <2>1
<1>7. ASSUME NEW S, Below(S),
             \/ conn' = [conn EXCEPT ![c].todo = S]
             \/ conn' = [conn EXCEPT ![c].todo = S, ![c].status = 500]
      PROVE  /\ Only(c) /\ conn'[c].req = r /\ conn'[c].pc = "copy"
             /\ \A q \in conn'[c].todo : IsPrefix(r.path, q)
             /\ \A e \in Clients \ {c} : conn'[e] = conn[e]
  BY <1>1, <1>7, CopyTodo
<1>8. Sound(tree) /\ Grown(tree, tree, r.dest) /\ Partial \in Content
  BY DEF TreeInv, Grown, Content
<1> HIDE DEF Below, rest, some, made, file
<1>9. /\ Only(c) /\ conn'[c].req = r /\ conn'[c].pc = "copy"
      /\ \A q \in conn'[c].todo : IsPrefix(r.path, q)
      /\ \A e \in Clients \ {c} : conn'[e] = conn[e]
  BY <1>3, <1>5, <1>6, <1>7
<1>10. PICK new : Sound(new) /\ Grown(tree, new, r.dest) /\ Becomes(new)
  BY <1>3, <1>4, <1>8
<1>11. UNCHANGED writable
  BY <1>10 DEF Becomes
<1> QED BY <1>1, <1>9, <1>10, <1>11

LEMMA ListSelfStep ==
    ASSUME TreeInv, ConnInv, NEW c \in Clients, ListSelf(c)
    PROVE  /\ Only(c) /\ conn'[c].req = conn[c].req
           /\ \A d \in Clients \ {c} : conn'[d] = conn[d]
           /\ conn[c].pc = "self" /\ SameTree
           /\ \/ conn'[c].pc = "done" /\ conn'[c].status \in {403, 500}
              \/ /\ conn'[c].pc = "list" /\ conn'[c].listed = {conn[c].req.path}
                 /\ conn'[c].todo = IF conn[c].todo # {} /\ ~DepthZero(conn[c].req)
                                      THEN Children(tree, conn[c].req.path) ELSE {}
<1> DEFINE r == conn[c].req
           todo == IF conn[c].todo # {} /\ ~DepthZero(r) THEN Children(tree, r.path) ELSE {}
           h == [conn[c] EXCEPT !.pc = "list", !.listed = {r.path}, !.todo = todo]
<1>1. conn[c].pc = "self" /\ SameTree /\ conn[c] \in Handler
  BY DEF ListSelf, ConnInv
<1>2. \/ Reply(c, 500)
      \/ Reply(c, 403)
      \/ r.path \in DOMAIN tree /\ conn' = [conn EXCEPT ![c] = h]
  BY DEF ListSelf
<1>3. ASSUME NEW status \in {403, 500}, Reply(c, status)
      PROVE  /\ Only(c) /\ conn'[c].req = r /\ conn'[c].pc = "done"
             /\ conn'[c].status \in {403, 500}
             /\ \A d \in Clients \ {c} : conn'[d] = conn[d]
  <2>1. status \in Nat
    OBVIOUS
  <2>2. /\ Only(c) /\ conn'[c].pc = (IF conn[c].pc = "orphan" THEN "away" ELSE "done")
        /\ conn'[c].req = conn[c].req /\ conn'[c].status = status
        /\ \A d \in Clients \ {c} : conn'[d] = conn[d]
    BY <1>3, <2>1, ReplyStep
  <2> QED BY <1>1, <2>2
<1>4. ASSUME r.path \in DOMAIN tree, conn' = [conn EXCEPT ![c] = h]
      PROVE  /\ Only(c) /\ conn'[c].req = r /\ conn'[c].pc = "list"
             /\ conn'[c].listed = {r.path} /\ conn'[c].todo = todo
             /\ \A d \in Clients \ {c} : conn'[d] = conn[d]
  <2>1. {r.path} \in SUBSET Paths /\ todo \in SUBSET Paths
    <3>1. DOMAIN tree \subseteq Paths /\ Children(tree, r.path) \subseteq Paths
      BY UnderSound DEF TreeInv
    <3> QED BY <1>4, <3>1
  <2> HIDE DEF todo
  <2>2. h \in Handler /\ h.pc = "list" /\ h.req = r /\ h.listed = {r.path} /\ h.todo = todo
    BY <1>1, <2>1 DEF Handler, Waiting
  <2> HIDE DEF h
  <2> QED BY <1>4, <2>2, ConnUpdate
<1>5. CASE Reply(c, 500) \/ Reply(c, 403)
  BY <1>1, <1>3, <1>5
<1>6. CASE r.path \in DOMAIN tree /\ conn' = [conn EXCEPT ![c] = h]
  BY <1>1, <1>4, <1>6
<1> QED BY <1>2, <1>5, <1>6

LEMMA ListNextStep ==
    ASSUME TreeInv, ConnInv, NEW c \in Clients, ListNext(c)
    PROVE  /\ Only(c) /\ conn'[c].pc = conn[c].pc /\ conn'[c].req = conn[c].req
           /\ \A d \in Clients \ {c} : conn'[d] = conn[d]
           /\ conn[c].pc = "list" /\ conn[c].req.op = "PROPFIND" /\ SameTree
           /\ \E p \in conn[c].todo :
                 /\ conn'[c].todo = conn[c].todo \ {p}
                 /\ conn'[c].listed = conn[c].listed \cup ({p} \cap DOMAIN tree)
<1>1. conn[c].pc = "list" /\ conn[c].req.op = "PROPFIND" /\ SameTree
  BY DEF ListNext
<1>2. conn[c].todo \subseteq Paths /\ conn[c].listed \subseteq Paths
  BY HandlerFields
<1>3. PICK p \in conn[c].todo :
         conn' = [conn EXCEPT ![c].todo = @ \ {p},
                              ![c].listed = @ \cup ({p} \cap DOMAIN tree)]
  BY DEF ListNext
<1> DEFINE todo == conn[c].todo \ {p}
           listed == conn[c].listed \cup ({p} \cap DOMAIN tree)
           h == [conn[c] EXCEPT !.todo = todo, !.listed = listed]
<1>4. conn' = [conn EXCEPT ![c] = h]
  BY <1>3 DEF ConnInv
<1>5. todo \in SUBSET Paths /\ listed \in SUBSET Paths
  BY <1>2
<1>6. conn[c] \in Handler
  BY DEF ConnInv
<1>7. p \in conn[c].todo /\ todo = conn[c].todo \ {p}
      /\ listed = conn[c].listed \cup ({p} \cap DOMAIN tree)
  OBVIOUS
<1> HIDE DEF todo, listed
<1>8. /\ h \in Handler /\ h.pc = conn[c].pc /\ h.req = conn[c].req
      /\ h.todo = todo /\ h.listed = listed
  BY <1>5, <1>6 DEF Handler
<1> HIDE DEF h
<1>9. Only(c) /\ conn'[c] = h /\ \A d \in Clients \ {c} : conn'[d] = conn[d]
  BY <1>4, <1>8, ConnUpdate
<1> QED BY <1>1, <1>7, <1>8, <1>9

LEMMA SearchStep ==
    ASSUME TreeInv, ConnInv, NEW c \in Clients, SearchNext(c)
    PROVE  /\ Only(c) /\ conn'[c].pc = conn[c].pc /\ conn'[c].req = conn[c].req
           /\ \A d \in Clients \ {c} : conn'[d] = conn[d]
           /\ conn[c].pc = "list" /\ conn[c].req.op = "SEARCH" /\ SameTree
           /\ \E p \in conn[c].todo :
                 /\ conn'[c].todo = (conn[c].todo \ {p}) \cup Children(tree, p)
                 /\ conn'[c].listed = conn[c].listed \cup Found(conn[c].req, p)
<1>1. conn[c].pc = "list" /\ conn[c].req.op = "SEARCH" /\ SameTree
  BY DEF SearchNext
<1>2. conn[c].todo \subseteq Paths /\ conn[c].listed \subseteq Paths
  BY HandlerFields
<1>3. PICK p \in conn[c].todo :
         conn' = [conn EXCEPT ![c].todo = (@ \ {p}) \cup Children(tree, p),
                              ![c].listed = @ \cup Found(conn[c].req, p)]
  BY DEF SearchNext
<1> DEFINE todo == (conn[c].todo \ {p}) \cup Children(tree, p)
           listed == conn[c].listed \cup Found(conn[c].req, p)
           h == [conn[c] EXCEPT !.todo = todo, !.listed = listed]
<1>4. conn' = [conn EXCEPT ![c] = h]
  BY <1>3 DEF ConnInv
<1>5. todo \in SUBSET Paths /\ listed \in SUBSET Paths
  <2>1. Children(tree, p) \subseteq Paths
    BY UnderSound DEF TreeInv
  <2> QED BY <1>2, <2>1 DEF Found
<1>6. conn[c] \in Handler
  BY DEF ConnInv
<1>7. /\ p \in conn[c].todo /\ todo = (conn[c].todo \ {p}) \cup Children(tree, p)
      /\ listed = conn[c].listed \cup Found(conn[c].req, p)
  OBVIOUS
<1> HIDE DEF todo, listed
<1>8. /\ h \in Handler /\ h.pc = conn[c].pc /\ h.req = conn[c].req
      /\ h.todo = todo /\ h.listed = listed
  BY <1>5, <1>6 DEF Handler
<1> HIDE DEF h
<1>9. Only(c) /\ conn'[c] = h /\ \A d \in Clients \ {c} : conn'[d] = conn[d]
  BY <1>4, <1>8, ConnUpdate
<1> QED BY <1>1, <1>7, <1>8, <1>9

LEMMA ListSkipsStep ==
    ASSUME TreeInv, ConnInv, NEW c \in Clients, ListSkips(c)
    PROVE  /\ Only(c) /\ conn'[c].pc = conn[c].pc /\ conn'[c].req = conn[c].req
           /\ \A d \in Clients \ {c} : conn'[d] = conn[d]
           /\ conn[c].pc = "list" /\ conn[c].listed \subseteq conn'[c].listed
           /\ \E p \in conn[c].todo : \E lost \in {{p}, Under(tree, p)} :
                 /\ conn'[c].todo = (conn[c].todo \ {p}) \cup
                       IF conn[c].req.op = "SEARCH" THEN Children(tree, p) \ lost ELSE {}
                 /\ Skipped(c, lost)
<1> DEFINE Rest(p, lost) == (conn[c].todo \ {p}) \cup
              IF conn[c].req.op = "SEARCH" THEN Children(tree, p) \ lost ELSE {}
           Left(p, lost, found) ==
              /\ conn' = [conn EXCEPT ![c].todo = Rest(p, lost), ![c].listed = @ \cup found]
              /\ Skipped(c, lost)
<1>1. PICK p \in conn[c].todo :
         \E lost \in {{p}, Under(tree, p)} : \E found \in {{}, Found(conn[c].req, p)} :
            Left(p, lost, found)
  BY DEF ListSkips
<1>2. PICK lost \in {{p}, Under(tree, p)} :
         \E found \in {{}, Found(conn[c].req, p)} : Left(p, lost, found)
  BY <1>1
<1>3. PICK found \in {{}, Found(conn[c].req, p)} : Left(p, lost, found)
  BY <1>2
<1> DEFINE todo == Rest(p, lost)
           listed == conn[c].listed \cup found
           h == [conn[c] EXCEPT !.todo = todo, !.listed = listed]
<1>4. conn' = [conn EXCEPT ![c] = h] /\ conn[c].pc = "list"
  BY <1>3 DEF ListSkips, ConnInv
<1>5. /\ conn[c].todo \subseteq Paths /\ conn[c].listed \subseteq Paths
      /\ Children(tree, p) \subseteq Paths /\ found \subseteq {p} /\ conn[c] \in Handler
  BY HandlerFields, UnderSound DEF TreeInv, ConnInv, Found
<1>6. todo \in SUBSET Paths /\ listed \in SUBSET Paths
  BY <1>5
<1>7. todo = Rest(p, lost) /\ conn[c].listed \subseteq listed /\ Skipped(c, lost)
  BY <1>3
<1> HIDE DEF todo, listed
<1>8. /\ h \in Handler /\ h.pc = conn[c].pc /\ h.req = conn[c].req
      /\ h.todo = todo /\ h.listed = listed
  BY <1>5, <1>6 DEF Handler
<1> HIDE DEF h
<1>9. Only(c) /\ conn'[c] = h /\ \A d \in Clients \ {c} : conn'[d] = conn[d]
  BY <1>4, <1>8, ConnUpdate
<1> QED BY <1>4, <1>7, <1>8, <1>9

LEMMA ListPanicsStep ==
    ASSUME ConnInv, NEW c \in Clients, ListPanics(c)
    PROVE  /\ Only(c) /\ conn'[c].pc = "cut" /\ conn'[c].req = conn[c].req
           /\ \A d \in Clients \ {c} : conn'[d] = conn[d]
           /\ conn[c].pc \in {"self", "list"} /\ SameTree
<1>1. "cut" \in PCs
  BY DEF PCs, Over
<1> QED BY <1>1, GotoStep DEF ListPanics

LEMMA DisconnectStep ==
    ASSUME ConnInv, NEW c \in Clients, Disconnect(c)
    PROVE  /\ Only(c) /\ conn'[c].req = conn[c].req
           /\ \A d \in Clients \ {c} : conn'[d] = conn[d]
           /\ \/ conn[c].pc \in Waiting \ {"sending"} /\ conn'[c].pc = "away"
              \/ conn[c].pc = "remove" /\ conn'[c].pc = "orphan"
           /\ conn'[c].todo = conn[c].todo
           /\ handle' = [handle EXCEPT ![c] = NoFile]
           /\ UNCHANGED <<tree, writable, hist, stayed>>
<1>1. "away" \in PCs /\ "orphan" \in PCs
  BY DEF PCs, Over, Removing
<1> QED BY <1>1, GotoStep DEF Disconnect

LEMMA EnsureParentStep ==
    ASSUME TreeInv, ConnInv, NEW c \in Clients, EnsureParent(c)
    PROVE  /\ Only(c) /\ conn'[c].req = conn[c].req
           /\ \A d \in Clients \ {c} : conn'[d] = conn[d]
           /\ conn[c].pc = "parent" /\ SameTree
           /\ \/ conn'[c].pc = "done" /\ conn'[c].status = 500
              \/ conn'[c].pc = "create" /\ conn'[c].flag = conn[c].flag
              \/ /\ conn'[c].pc = "parents" /\ conn'[c].flag = conn[c].flag
                 /\ conn'[c].todo \subseteq Ancestors(conn[c].req.path)
<1> DEFINE r == conn[c].req
           parent == Parent(r.path)
<1>1. conn[c].pc = "parent" /\ Dispatched(c) /\ SameTree /\ conn[c] \in Handler
  BY DEF EnsureParent, ConnInv
<1>2. r.path \in Path
  BY <1>1 DEF Dispatched
<1>3. CASE Goto(c, "create")
  <2>1. "create" \in PCs
    BY DEF PCs, Waiting
  <2> QED BY <1>1, <1>3, <2>1, GotoStep
<1>4. CASE Reply(c, 500)
  <2>1. 500 \in Nat
    OBVIOUS
  <2>2. /\ Only(c) /\ conn'[c].pc = (IF conn[c].pc = "orphan" THEN "away" ELSE "done")
        /\ conn'[c].req = conn[c].req /\ conn'[c].status = 500
        /\ \A d \in Clients \ {c} : conn'[d] = conn[d]
    BY <1>4, <2>1, ReplyStep
  <2> QED BY <1>1, <2>2
<1>5. CASE /\ r.path # << >> /\ Len(parent) <= MaxDepth
           /\ conn' = [conn EXCEPT ![c].pc = "parents", ![c].todo = {parent}]
  <2> DEFINE h == [conn[c] EXCEPT !.pc = "parents", !.todo = {parent}]
  <2>1. conn' = [conn EXCEPT ![c] = h]
    BY <1>5
  <2>2. parent \in Path /\ parent \in Paths /\ parent \in Ancestors(r.path)
    BY <1>2, <1>5, ParentPath, AncestorsAbove, PathsAreShort
  <2> HIDE DEF parent
  <2>3. /\ h \in Handler /\ h.pc = "parents" /\ h.req = r /\ h.flag = conn[c].flag
        /\ h.todo = {parent}
    BY <1>1, <2>2 DEF Handler, Waiting
  <2> HIDE DEF h
  <2>4. Only(c) /\ conn'[c] = h /\ \A d \in Clients \ {c} : conn'[d] = conn[d]
    BY <2>1, <2>3, ConnUpdate
  <2> QED BY <1>1, <2>2, <2>3, <2>4
<1>6. \/ Goto(c, "create") \/ Reply(c, 500)
      \/ /\ r.path # << >> /\ ~(Len(parent) > MaxDepth)
         /\ conn' = [conn EXCEPT ![c].pc = "parents", ![c].todo = {parent}]
  BY DEF EnsureParent
<1>7. Len(parent) \in Nat /\ MaxDepth \in Nat
  BY <1>2, ParentPath, PathLength, TreeAssumption
<1>8. ~(Len(parent) > MaxDepth) => Len(parent) <= MaxDepth
  BY <1>7
<1> QED BY <1>3, <1>4, <1>5, <1>6, <1>8

\* mkdir, when another one may have made it.
LEMMA DirThere ==
    ASSUME NEW t, Sound(t), NEW d \in Path, CanMake(t, d) \/ IsDir(t, d)
    PROVE  /\ Sound(Placed(t, d, Dir))
           /\ \A q \in DOMAIN t : q \in DOMAIN Placed(t, d, Dir) /\ Placed(t, d, Dir)[q] = t[q]
<1>1. CASE CanMake(t, d)
  BY <1>1, DirMade
<1>2. CASE IsDir(t, d)
  <2>1. Placed(t, d, Dir) = [q \in DOMAIN t |-> t[q]]
    BY <1>2 DEF Placed, IsDir
  <2>2. Placed(t, d, Dir) = t
    BY <2>1 DEF Sound
  <2> QED BY <2>2
<1> QED BY <1>1, <1>2

LEMMA MakeParentsStep ==
    ASSUME TreeInv, ConnInv, NEW c \in Clients, MakeParents(c)
    PROVE  /\ Only(c) /\ conn'[c].req = conn[c].req
           /\ \A d \in Clients \ {c} : conn'[d] = conn[d]
           /\ conn[c].pc = "parents"
           /\ \/ /\ SameTree
                 /\ \/ conn'[c].pc = "done" /\ conn'[c].status = 500
                    \/ /\ conn'[c].pc = "parents" /\ conn'[c].flag = conn[c].flag
                       /\ conn'[c].todo \subseteq Ancestors(conn[c].req.path)
              \/ /\ conn'[c].pc \in {"parents", "create"} /\ conn'[c].flag = conn[c].flag
                 /\ conn'[c].todo \subseteq Ancestors(conn[c].req.path)
                 /\ \E p \in Ancestors(conn[c].req.path) :
                      LET new == Placed(tree, p, Dir) IN
                      /\ CanMake(tree, p) \/ IsDir(tree, p)
                      /\ Sound(new) /\ SetTree(new)
                      /\ \A q \in DOMAIN tree : q \in DOMAIN new /\ new[q] = tree[q]
<1> DEFINE r == conn[c].req
           up == Ancestors(r.path)
<1>1. conn[c].pc = "parents" /\ Dispatched(c) /\ conn[c] \in Handler
  BY DEF MakeParents, ConnInv
<1>2. r.path \in Path /\ conn[c].todo \subseteq up /\ conn[c].todo \subseteq Paths
  BY <1>1, HandlerFields DEF Dispatched
<1>3. PICK p \in conn[c].todo :
         \/ /\ CanMake(tree, p) \/ IsDir(tree, p)
            /\ SetTree(Placed(tree, p, Dir))
            /\ conn' = [conn EXCEPT ![c].todo = @ \ {p}, ![c].exists = TRUE,
                 ![c].pc = IF conn[c].todo = {p} THEN "create" ELSE @]
         \/ /\ p # << >>
            /\ conn' = [conn EXCEPT ![c].todo = @ \cup {Parent(p)}]
            /\ SameTree
         \/ Reply(c, 500) /\ SameTree
  BY DEF MakeParents
<1>4. CASE Reply(c, 500) /\ SameTree
  <2>1. 500 \in Nat
    OBVIOUS
  <2>2. /\ Only(c) /\ conn'[c].pc = (IF conn[c].pc = "orphan" THEN "away" ELSE "done")
        /\ conn'[c].req = conn[c].req /\ conn'[c].status = 500
        /\ \A d \in Clients \ {c} : conn'[d] = conn[d]
    BY <1>4, <2>1, ReplyStep
  <2> QED BY <1>1, <1>4, <2>2
<1>5. CASE /\ p # << >>
           /\ conn' = [conn EXCEPT ![c].todo = @ \cup {Parent(p)}]
           /\ SameTree
  <2> DEFINE todo == conn[c].todo \cup {Parent(p)}
             h == [conn[c] EXCEPT !.todo = todo]
  <2>1. conn' = [conn EXCEPT ![c] = h]
    BY <1>5
  <2>2. todo \subseteq up /\ todo \in SUBSET Paths
    <3>1. p \in up /\ p \in Path /\ Len(p) <= MaxDepth
      BY <1>2, PathsAreShort
    <3>2. Parent(p) \in up
      BY <1>2, <1>5, <3>1, AncestorsAbove
    <3>3. Parent(p) \in Path /\ Len(Parent(p)) <= Len(p)
      BY <3>1, ParentPath
    <3>4. Len(Parent(p)) <= MaxDepth
      BY <3>1, <3>3, PathLength, TreeAssumption
    <3> QED BY <1>2, <3>2, <3>3, <3>4, PathsAreShort
  <2> HIDE DEF todo
  <2>3. /\ h \in Handler /\ h.pc = "parents" /\ h.req = r /\ h.flag = conn[c].flag
        /\ h.todo = todo
    BY <1>1, <2>2 DEF Handler
  <2> HIDE DEF h
  <2>4. Only(c) /\ conn'[c] = h /\ \A d \in Clients \ {c} : conn'[d] = conn[d]
    BY <2>1, <2>3, ConnUpdate
  <2> QED BY <1>1, <1>5, <2>2, <2>3, <2>4
<1>6. CASE /\ CanMake(tree, p) \/ IsDir(tree, p)
           /\ SetTree(Placed(tree, p, Dir))
           /\ conn' = [conn EXCEPT ![c].todo = @ \ {p}, ![c].exists = TRUE,
                ![c].pc = IF conn[c].todo = {p} THEN "create" ELSE @]
  <2> DEFINE todo == conn[c].todo \ {p}
             pc == IF conn[c].todo = {p} THEN "create" ELSE "parents"
             h == [conn[c] EXCEPT !.todo = todo, !.exists = TRUE, !.pc = pc]
  <2>1. conn' = [conn EXCEPT ![c] = h]
    BY <1>1, <1>6
  <2>2. todo \subseteq up /\ todo \in SUBSET Paths /\ pc \in {"parents", "create"}
    BY <1>2
  <2> HIDE DEF todo, pc
  <2>3. /\ h \in Handler /\ h.pc = pc /\ h.req = r /\ h.flag = conn[c].flag
        /\ h.todo = todo
    BY <1>1, <2>2 DEF Handler, Waiting
  <2> HIDE DEF h
  <2>4. Only(c) /\ conn'[c] = h /\ \A d \in Clients \ {c} : conn'[d] = conn[d]
    BY <2>1, <2>3, ConnUpdate
  <2>5. p \in up /\ p \in Path
    BY <1>2, PathsAreShort
  <2>6. /\ Sound(Placed(tree, p, Dir))
        /\ \A q \in DOMAIN tree : q \in DOMAIN Placed(tree, p, Dir)
                                  /\ Placed(tree, p, Dir)[q] = tree[q]
    BY <1>6, <2>5, DirThere DEF TreeInv
  <2> HIDE DEF up
  <2> QED BY <1>1, <1>6, <2>2, <2>3, <2>4, <2>5, <2>6 DEF up
<1> QED BY <1>3, <1>4, <1>5, <1>6

LEMMA HandleConn ==
    ASSUME TreeInv, ConnInv, NEW c \in Clients, Handle(c)
    PROVE  ConnInv' /\ UNCHANGED <<writable, before>> /\ alone' \in {alone, Nobody}
<1> USE DEF hist
<1>1. Dispatched(c) /\ 201 \in Nat /\ 204 \in Nat /\ 403 \in Nat /\ 409 \in Nat /\ 500 \in Nat
      /\ 200 \in Nat /\ 207 \in Nat
  BY DEF ConnInv
<1>2. ASSUME UNCHANGED <<writable, hist>>
      PROVE  UNCHANGED <<writable, before>> /\ alone' \in {alone, Nobody}
             /\ alone' \in Clients \cup {Nobody}
  BY <1>2 DEF ConnInv
<1>3. CASE EnsureParent(c) \/ MakeParents(c)
  <2>1. /\ Only(c) /\ conn'[c].req = conn[c].req /\ conn[c].pc \in {"parent", "parents"}
        /\ conn'[c].pc \in {"done", "create", "parents"}
        /\ conn'[c].pc = "parents" => conn'[c].todo \subseteq Ancestors(conn[c].req.path)
        /\ UNCHANGED <<writable, hist>>
    BY <1>3, EnsureParentStep, MakeParentsStep DEF SameTree, SetTree, Becomes
  <2>2. Dispatched(c)'
    BY <1>1, <2>1 DEF Dispatched, Removing
  <2> QED BY <1>2, <2>1, <2>2, DispatchedElsewhere
<1>4. CASE Create(c)
  <2>1. conn[c].pc = "create" /\ UNCHANGED <<writable, hist>>
    BY <1>4 DEF Create, SameTree
  <2>2. CASE ~Reply(c, 403)
    <3>1. Only(c) /\ conn'[c].pc = "write" /\ conn'[c].req = conn[c].req
      BY <1>4, <2>2, CreateStep
    <3>2. Dispatched(c)'
      BY <1>1, <2>1, <3>1 DEF Dispatched, Removing
    <3> QED BY <1>2, <2>1, <3>1, <3>2, DispatchedElsewhere
  <2>3. CASE Reply(c, 403)
    BY <1>1, <1>2, <2>1, <2>3, ReplyConn
  <2> QED BY <2>2, <2>3, Zenon
<1>5. CASE WriteBody(c)
  <2>1. conn[c].pc = "write" /\ Reply(c, 201) /\ UNCHANGED <<writable, hist>>
    BY <1>5 DEF WriteBody
  <2> QED BY <1>1, <1>2, <2>1, ReplyConn
<1>6. CASE WriteFails(c)
  <2>1. conn[c].pc = "write" /\ Reply(c, 500) /\ UNCHANGED <<writable, hist>>
    BY <1>6 DEF WriteFails
  <2> QED BY <1>1, <1>2, <2>1, ReplyConn
<1>7. CASE MakeCollection(c)
  <2>1. conn[c].pc = "mkcol" /\ (Reply(c, 201) \/ Reply(c, 409)) /\ UNCHANGED <<writable, hist>>
    BY <1>7 DEF MakeCollection, SameTree, SetTree, Becomes
  <2> QED BY <1>1, <1>2, <2>1, ReplyConn
<1>8. CASE Unlink(c)
  <2>1. conn[c].pc = "unlink" /\ (Reply(c, 204) \/ Reply(c, 500)) /\ UNCHANGED <<writable, hist>>
    BY <1>8 DEF Unlink, SameTree, SetTree, Becomes
  <2> QED BY <1>1, <1>2, <2>1, ReplyConn
<1>9. CASE RemoveNext(c)
  <2>1. /\ Only(c) /\ conn'[c].req = conn[c].req /\ conn[c].pc \in Removing
        /\ \/ conn' = conn
           \/ conn'[c].pc \in {"done", "away"} /\ (conn'[c].pc = "away" => conn[c].pc = "orphan")
           \/ /\ conn[c].req.op \in {"COPY", "MOVE"}
              /\ conn'[c].pc = (IF conn[c].req.op = "COPY" THEN "copy" ELSE "rename")
              /\ conn'[c].todo = {conn[c].req.path}
        /\ UNCHANGED <<writable, hist>>
    BY <1>9, RemoveStep DEF SetTree, Becomes
  <2>2. CASE conn' = conn
    <3>1. Dispatched(c)'
      BY <1>1, <2>1, <2>2 DEF Dispatched, Removing
    <3> QED BY <1>2, <2>1, <3>1, DispatchedElsewhere
  <2>3. CASE conn'[c].pc \in {"done", "away"}
    <3>1. Dispatched(c)'
      BY <1>1, <2>1, <2>3 DEF Dispatched, Removing
    <3> QED BY <1>2, <2>1, <3>1, DispatchedElsewhere
  <2>4. CASE /\ conn[c].req.op \in {"COPY", "MOVE"}
             /\ conn'[c].pc = (IF conn[c].req.op = "COPY" THEN "copy" ELSE "rename")
             /\ conn'[c].todo = {conn[c].req.path}
    <3>1. conn[c].req.path \in Paths /\ conn[c].req.dest \in Path
          /\ conn[c].req.path # conn[c].req.dest /\ conn[c].req \in Requests[c]
      BY <1>1, <2>1, <2>4 DEF Dispatched, Removing
    <3>2. IsPrefix(conn[c].req.path, conn[c].req.path)
      BY <3>1, PathsAreShort, PrefixReflexive
    <3>3. Dispatched(c)'
      BY <2>1, <2>4, <3>1, <3>2 DEF Dispatched, Removing
    <3> QED BY <1>2, <2>1, <3>3, DispatchedElsewhere
  <2> QED BY <2>1, <2>2, <2>3, <2>4
<1>10. CASE RemoveFails(c)
  <2>1. /\ conn[c].pc \in Removing /\ Reply(c, 500) /\ UNCHANGED <<writable, before>>
        /\ alone' \in {alone, Nobody}
    BY <1>10 DEF RemoveFails
  <2>2. alone' \in Clients \cup {Nobody}
    BY <2>1 DEF ConnInv
  <2> QED BY <1>1, <2>1, <2>2, ReplyConn DEF Removing
<1>11. CASE Decide(c)
  <2>1. /\ Only(c) /\ conn'[c].req = conn[c].req /\ conn[c].pc = "decide"
        /\ \/ conn'[c].pc = "done"
           \/ /\ conn[c].req.path # conn[c].req.dest
              /\ \/ conn'[c].pc = "remove"
                 \/ conn'[c].pc = "rename" /\ conn[c].req.op = "MOVE"
                 \/ /\ conn'[c].pc = "copy" /\ conn[c].req.op = "COPY"
                    /\ conn'[c].todo = {conn[c].req.path}
        /\ UNCHANGED <<writable, hist>>
    BY <1>11, DecideStep DEF SameTree
  <2>2. /\ conn[c].req.path \in Paths /\ conn[c].req.dest \in Path /\ conn[c].req \in Requests[c]
        /\ conn[c].req.op \in {"COPY", "MOVE"}
    BY <1>1, <2>1 DEF Dispatched
  <2>3. IsPrefix(conn[c].req.path, conn[c].req.path)
    BY <2>2, PathsAreShort, PrefixReflexive
  <2>4. Dispatched(c)'
    BY <2>1, <2>2, <2>3 DEF Dispatched, Removing
  <2> QED BY <1>2, <2>1, <2>4, DispatchedElsewhere
<1>12. CASE Rename(c)
  <2>1. conn[c].pc = "rename" /\ (Reply(c, 201) \/ Reply(c, 500)) /\ UNCHANGED <<writable, hist>>
    BY <1>12 DEF Rename, SameTree
  <2> QED BY <1>1, <1>2, <2>1, ReplyConn
<1>13. CASE CopyNext(c)
  <2>1. /\ Only(c) /\ conn'[c].req = conn[c].req /\ conn[c].pc = "copy" /\ conn'[c].pc = "copy"
        /\ \A q \in conn'[c].todo : IsPrefix(conn[c].req.path, q)
        /\ UNCHANGED <<writable, hist>>
    BY <1>13, CopyStep DEF SameTree, SetTree, Becomes
  <2>2. Dispatched(c)'
    BY <1>1, <2>1 DEF Dispatched, Removing
  <2> QED BY <1>2, <2>1, <2>2, DispatchedElsewhere
<1>14. CASE CopyEnds(c)
  <2>1. /\ conn[c].pc = "copy" /\ (Reply(c, 500) \/ Reply(c, 204) \/ Reply(c, 201))
        /\ UNCHANGED <<writable, hist>>
    BY <1>14 DEF CopyEnds, SameTree
  <2> QED BY <1>1, <1>2, <2>1, ReplyConn
<1>15. CASE ListSelf(c)
  <2>1. /\ Only(c) /\ conn'[c].req = conn[c].req /\ conn[c].pc = "self"
        /\ conn'[c].pc \in {"done", "list"} /\ UNCHANGED <<writable, hist>>
    BY <1>15, ListSelfStep DEF SameTree
  <2>2. Dispatched(c)'
    BY <1>1, <2>1 DEF Dispatched, Removing
  <2> QED BY <1>2, <2>1, <2>2, DispatchedElsewhere
<1>16. CASE ListNext(c) \/ SearchNext(c) \/ ListSkips(c)
  <2>1. /\ Only(c) /\ conn'[c].req = conn[c].req /\ conn[c].pc = "list" /\ conn'[c].pc = "list"
        /\ UNCHANGED <<writable, hist>>
    BY <1>16, ListNextStep, SearchStep, ListSkipsStep DEF SameTree, Skipped
  <2>2. Dispatched(c)'
    BY <1>1, <2>1 DEF Dispatched, Removing
  <2> QED BY <1>2, <2>1, <2>2, DispatchedElsewhere
<1>17. CASE ListEnds(c)
  <2>1. conn[c].pc = "list" /\ (Reply(c, 200) \/ Reply(c, 207)) /\ UNCHANGED <<writable, hist>>
    BY <1>17 DEF ListEnds, SameTree
  <2> QED BY <1>1, <1>2, <2>1, ReplyConn
<1>18. CASE ListPanics(c)
  <2>1. /\ Only(c) /\ conn'[c].req = conn[c].req /\ conn[c].pc \in {"self", "list"}
        /\ conn'[c].pc = "cut" /\ UNCHANGED <<writable, hist>>
    BY <1>18, ListPanicsStep DEF SameTree
  <2>2. Dispatched(c)'
    BY <1>1, <2>1 DEF Dispatched, Removing
  <2> QED BY <1>2, <2>1, <2>2, DispatchedElsewhere
<1>19. CASE CopyFails(c)
  <2>1. /\ Only(c) /\ conn'[c].req = conn[c].req /\ conn[c].pc = "copy" /\ conn'[c].pc = "copy"
        /\ \A q \in conn'[c].todo : IsPrefix(conn[c].req.path, q)
        /\ UNCHANGED <<writable, before>> /\ alone' = Nobody
    BY <1>19, CopyFailsStep
  <2>2. Dispatched(c)'
    BY <1>1, <2>1 DEF Dispatched, Removing
  <2> QED BY <2>1, <2>2, DispatchedElsewhere
<1> QED BY <1>3, <1>4, <1>5, <1>6, <1>7, <1>8, <1>9, <1>10, <1>11, <1>12, <1>13, <1>14, <1>15,
           <1>16, <1>17, <1>18, <1>19 DEF Handle

LEMMA LeaveConn ==
    ASSUME TreeInv, ConnInv, NEW c \in Clients, Disconnect(c) \/ BodyEnds(c) \/ ClientLeaves(c)
    PROVE  /\ ConnInv' /\ Only(c) /\ conn'[c].req = conn[c].req
           /\ \A d \in Clients \ {c} : conn'[d] = conn[d]
           /\ \/ conn[c].pc \in Waiting \ {"sending"} /\ conn'[c].pc = "away"
              \/ conn[c].pc = "remove" /\ conn'[c].pc = "orphan"
              \/ conn[c].pc = "sending" /\ conn'[c].pc = "away"
              \/ conn[c].pc = "sending" /\ conn'[c].pc = "done" /\ conn'[c].status = 200
           /\ conn'[c].todo = conn[c].todo
<1>1. CASE Disconnect(c)
  <2>1. /\ Only(c) /\ conn'[c].req = conn[c].req
        /\ \A d \in Clients \ {c} : conn'[d] = conn[d]
        /\ \/ conn[c].pc \in Waiting \ {"sending"} /\ conn'[c].pc = "away"
           \/ conn[c].pc = "remove" /\ conn'[c].pc = "orphan"
        /\ conn'[c].todo = conn[c].todo
        /\ UNCHANGED <<writable, hist>>
    BY <1>1, DisconnectStep
  <2>2. Dispatched(c)
    BY DEF ConnInv
  <2>3. Dispatched(c)'
    BY <2>1, <2>2 DEF Dispatched, Removing, Waiting
  <2>4. UNCHANGED writable /\ alone' \in Clients \cup {Nobody}
    BY <2>1 DEF ConnInv, hist
  <2> QED BY <2>1, <2>3, <2>4, DispatchedElsewhere
<1>2. CASE BodyEnds(c) \/ ClientLeaves(c)
  <2>1. conn[c].pc = "sending" /\ (Reply(c, 200) \/ Goto(c, "away")) /\ SameTree
    BY <1>2 DEF BodyEnds, ClientLeaves
  <2>2. 200 \in Nat /\ "away" \in PCs
    BY DEF PCs, Over
  <2>3. /\ Only(c) /\ conn'[c].req = conn[c].req /\ conn'[c].todo = conn[c].todo
        /\ \A d \in Clients \ {c} : conn'[d] = conn[d]
        /\ \/ conn'[c].pc = "away"
           \/ conn'[c].pc = "done" /\ conn'[c].status = 200
    <3>1. CASE Reply(c, 200)
      BY <2>1, <2>2, <3>1, ReplyStep
    <3>2. CASE Goto(c, "away")
      BY <2>2, <3>2, GotoStep
    <3> QED BY <2>1, <3>1, <3>2
  <2>4. Dispatched(c)
    BY DEF ConnInv
  <2>5. Dispatched(c)'
    BY <2>1, <2>3, <2>4 DEF Dispatched, Removing
  <2>6. UNCHANGED writable /\ alone' \in Clients \cup {Nobody}
    BY <2>1 DEF ConnInv, SameTree, hist
  <2> QED BY <2>1, <2>3, <2>5, <2>6, DispatchedElsewhere
<1> QED BY <1>1, <1>2

-----------------------------------------------------------------------------
(* Steps on the directory.                                                 *)

\* What stays of the paths untouched since a request came is as it was.
Calm == \A d \in Clients : /\ stayed'[d] \subseteq stayed[d]
                           /\ \A q \in stayed'[d] : q \in DOMAIN tree' /\ tree'[q] = tree[q]

LEMMA BecomesInv ==
    ASSUME TreeInv, NEW c \in Clients, Only(c), conn[c].pc # "write",
           NEW new, Sound(new), Becomes(new),
           \A q \in DOMAIN tree : q \in DOMAIN new /\ tree[q] # Dir => new[q] # Dir
    PROVE  TreeInv' /\ Calm
<1>1. /\ tree' = new
      /\ handle' = [d \in Clients |-> IF handle[d] \in DOMAIN new THEN handle[d] ELSE NoFile]
      /\ stayed' = [d \in Clients |-> {q \in stayed[d] : q \in DOMAIN new /\ new[q] = tree[q]}]
  BY DEF Becomes
<1>2. ASSUME NEW d \in Clients
      PROVE  /\ handle'[d] \in Paths \cup {NoFile}
             /\ handle'[d] # NoFile => IsFile(new, handle'[d]) /\ conn'[d].pc = "write"
  <2>1. /\ handle[d] \in Paths \cup {NoFile}
        /\ handle[d] # NoFile => IsFile(tree, handle[d]) /\ conn[d].pc = "write"
        /\ handle'[d] = IF handle[d] \in DOMAIN new THEN handle[d] ELSE NoFile
    BY <1>1 DEF TreeInv
  <2>2. conn[d].pc = "write" => conn'[d].pc = "write"
    BY DEF Only
  <2> QED BY <2>1, <2>2 DEF IsFile
<1>3. handle' \in [Clients -> Paths \cup {NoFile}]
  BY <1>1, <1>2
<1>4. ASSUME NEW d \in Clients
      PROVE  /\ stayed'[d] \in SUBSET Paths /\ stayed'[d] \subseteq stayed[d]
             /\ \A q \in stayed'[d] : q \in DOMAIN new /\ new[q] = tree[q]
  BY <1>1 DEF TreeInv
<1>5. stayed' \in [Clients -> SUBSET Paths]
  BY <1>1, <1>4
<1>6. Sound(tree)'
  BY <1>1 DEF Sound, IsTree, IsDir
<1>7. TreeInv'
  BY <1>1, <1>2, <1>3, <1>4, <1>5, <1>6 DEF TreeInv, IsFile
<1> QED BY <1>1, <1>4, <1>7 DEF Calm

LEMMA SetTreeInv ==
    ASSUME TreeInv, NEW c \in Clients, Only(c), conn[c].pc # "write",
           NEW new, Sound(new), SetTree(new),
           \A q \in DOMAIN tree : q \in DOMAIN new /\ tree[q] # Dir => new[q] # Dir
    PROVE  TreeInv' /\ Calm
BY BecomesInv DEF SetTree

LEMMA SameTreeInv ==
    ASSUME TreeInv, NEW c \in Clients, Only(c), conn[c].pc # "write", SameTree
    PROVE  TreeInv' /\ Calm
<1>1. \A d \in Clients : conn[d].pc = "write" => conn'[d].pc = "write"
  BY DEF Only
<1>2. Sound(tree)'
  BY DEF SameTree, TreeInv, Sound, IsTree, IsDir
<1>3. TreeInv'
  BY <1>1, <1>2 DEF TreeInv, SameTree, IsFile
<1> QED BY <1>3 DEF Calm, SameTree, TreeInv

LEMMA SkippedInv ==
    ASSUME TreeInv, NEW c \in Clients, NEW d \in Clients, Only(c), conn[c].pc # "write", NEW lost,
           Skipped(d, lost)
    PROVE  TreeInv' /\ Calm
<1>1. UNCHANGED <<tree, handle>> /\ stayed' = [stayed EXCEPT ![d] = @ \ lost]
  BY DEF Skipped
<1>2. stayed' \in [Clients -> SUBSET Paths] /\ \A e \in Clients : stayed'[e] \subseteq stayed[e]
  BY <1>1 DEF TreeInv
<1>3. \A e \in Clients : conn[e].pc = "write" => conn'[e].pc = "write"
  BY DEF Only
<1>4. Sound(tree)'
  BY <1>1 DEF TreeInv, Sound, IsTree, IsDir
<1>5. TreeInv'
  BY <1>1, <1>2, <1>3, <1>4 DEF TreeInv, IsFile
<1> QED BY <1>1, <1>2, <1>5 DEF Calm, TreeInv

LEMMA CreateTree ==
    ASSUME TreeInv, ConnInv, NEW c \in Clients, Create(c), ~Reply(c, 403)
    PROVE  /\ TreeInv' /\ Calm
           /\ conn[c].req.path \in Paths
           /\ tree' = Placed(tree, conn[c].req.path, Partial)
           /\ handle' = [handle EXCEPT ![c] = conn[c].req.path]
<1> DEFINE p == conn[c].req.path
<1>1. conn[c].pc = "create" /\ Dispatched(c)
  BY DEF Create, ConnInv
<1>2. p \in Path /\ p \in Paths /\ Len(p) <= MaxDepth /\ ParentIsDir(tree, p) /\ ~IsDir(tree, p)
  BY <1>1, PathsAreShort DEF Dispatched, Create, CanWrite
<1>3. Partial \in Content /\ Partial # Dir /\ NoFile \notin Paths
  BY ValueAssumption, PathsAreShort DEF Content, Path
<1>4. /\ tree' = Placed(tree, p, Partial)
      /\ handle' = [handle EXCEPT ![c] = p]
      /\ stayed' = [d \in Clients |-> stayed[d] \ {p}]
  BY DEF Create
<1>5. Only(c) /\ conn'[c].pc = "write"
  BY CreateStep
<1> HIDE DEF p
<1>6. Sound(Placed(tree, p, Partial))
  BY <1>2, <1>3, PlacedSound DEF TreeInv
<1>7. /\ DOMAIN tree' = {p} \cup DOMAIN tree
      /\ \A q \in {p} \cup DOMAIN tree : tree'[q] = IF q = p THEN Partial ELSE tree[q]
  BY <1>4 DEF Placed
<1>8. Sound(tree)'
  BY <1>4, <1>6 DEF Sound, IsTree, IsDir
<1>9. ASSUME NEW d \in Clients
      PROVE  /\ handle'[d] \in Paths \cup {NoFile}
             /\ handle'[d] # NoFile => IsFile(tree', handle'[d]) /\ conn'[d].pc = "write"
  <2>1. CASE d = c
    <3>1. handle'[d] = p
      BY <1>4, <2>1 DEF TreeInv
    <3> QED BY <1>2, <1>3, <1>5, <1>7, <2>1, <3>1 DEF IsFile
  <2>2. CASE d # c
    <3>1. handle'[d] = handle[d] /\ conn'[d].pc = conn[d].pc
      BY <1>4, <1>5, <2>2 DEF TreeInv, Only
    <3>2. /\ handle[d] \in Paths \cup {NoFile}
          /\ handle[d] # NoFile => IsFile(tree, handle[d]) /\ conn[d].pc = "write"
      BY DEF TreeInv
    <3> QED BY <1>3, <1>7, <3>1, <3>2 DEF IsFile
  <2> QED BY <2>1, <2>2
<1>10. handle' \in [Clients -> Paths \cup {NoFile}]
  BY <1>2, <1>4 DEF TreeInv
<1>11. ASSUME NEW d \in Clients
       PROVE  /\ stayed'[d] \in SUBSET Paths /\ stayed'[d] \subseteq stayed[d]
              /\ \A q \in stayed'[d] : q \in DOMAIN tree' /\ tree'[q] = tree[q]
  <2>1. stayed[d] \in SUBSET Paths /\ stayed[d] \subseteq DOMAIN tree /\ stayed'[d] = stayed[d] \ {p}
    BY <1>4 DEF TreeInv
  <2> QED BY <1>7, <2>1
<1>12. stayed' \in [Clients -> SUBSET Paths]
  BY <1>4, <1>11
<1>13. TreeInv'
  BY <1>8, <1>9, <1>10, <1>11, <1>12 DEF TreeInv, IsFile
<1> QED BY <1>2, <1>4, <1>11, <1>13 DEF Calm, p

LEMMA WriteTree ==
    ASSUME TreeInv, ConnInv, NEW c \in Clients, WriteBody(c)
    PROVE  /\ TreeInv' /\ Calm
           /\ \E content \in Content :
                 /\ content = conn[c].req.body \/ (Torn(c) /\ handle[c] # NoFile)
                 /\ tree' = IF handle[c] = NoFile THEN tree ELSE [tree EXCEPT ![handle[c]] = content]
           /\ handle' = [handle EXCEPT ![c] = NoFile]
<1> DEFINE p == handle[c]
<1>1. conn[c].pc = "write" /\ Dispatched(c)
  BY DEF WriteBody, ConnInv
<1>2. conn[c].req.body \in Bodies
  BY <1>1, RequestTyped DEF Dispatched
<1>3. PICK content \in {conn[c].req.body, Mixed} :
        /\ content = Mixed => p # NoFile /\ Torn(c)
        /\ tree' = IF p = NoFile THEN tree ELSE [tree EXCEPT ![p] = content]
        /\ stayed' = [d \in Clients |-> stayed[d] \ {p}]
  BY DEF WriteBody
<1>4. content \in Content /\ content # Dir /\ (content = conn[c].req.body \/ (Torn(c) /\ p # NoFile))
  BY <1>2, <1>3, ValueAssumption DEF Content
<1>5. handle' = [handle EXCEPT ![c] = NoFile] /\ Reply(c, 201)
  BY DEF WriteBody
<1>6. Only(c)
  <2>1. 201 \in Nat
    OBVIOUS
  <2> QED BY <1>5, <2>1, ReplyStep
<1>7. p # NoFile => IsFile(tree, p)
  BY DEF TreeInv
<1> HIDE DEF p
<1>8. /\ DOMAIN tree' = DOMAIN tree
      /\ \A q \in DOMAIN tree : tree'[q] = IF q = p /\ p # NoFile THEN content ELSE tree[q]
      /\ tree' \in [DOMAIN tree -> Content \cup {Dir}]
  BY <1>3, <1>4 DEF TreeInv, Sound
<1>9. \A q : IsDir(tree', q) <=> IsDir(tree, q)
  BY <1>4, <1>7, <1>8 DEF IsDir, IsFile
<1>10. Sound(tree)'
  BY <1>4, <1>8, <1>9 DEF Sound, IsTree, TreeInv
<1>11. ASSUME NEW d \in Clients
       PROVE  /\ handle'[d] \in Paths \cup {NoFile}
              /\ handle'[d] # NoFile => IsFile(tree', handle'[d]) /\ conn'[d].pc = "write"
  <2>1. CASE d = c
    BY <1>5, <2>1 DEF TreeInv
  <2>2. CASE d # c
    <3>1. handle'[d] = handle[d] /\ conn'[d].pc = conn[d].pc
      BY <1>5, <1>6, <2>2 DEF TreeInv, Only
    <3> QED BY <1>8, <1>9, <3>1 DEF IsFile, IsDir, TreeInv
  <2> QED BY <2>1, <2>2
<1>12. handle' \in [Clients -> Paths \cup {NoFile}]
  BY <1>5 DEF TreeInv
<1>13. ASSUME NEW d \in Clients
       PROVE  /\ stayed'[d] \in SUBSET Paths /\ stayed'[d] \subseteq stayed[d]
              /\ \A q \in stayed'[d] : q \in DOMAIN tree' /\ tree'[q] = tree[q]
  <2>1. stayed[d] \in SUBSET Paths /\ stayed[d] \subseteq DOMAIN tree /\ stayed'[d] = stayed[d] \ {p}
    BY <1>3 DEF TreeInv
  <2> QED BY <1>8, <2>1
<1>14. stayed' \in [Clients -> SUBSET Paths]
  BY <1>3, <1>13
<1>15. TreeInv'
  BY <1>10, <1>11, <1>12, <1>13, <1>14, SMTT(40) DEF TreeInv, IsFile
<1> QED BY <1>3, <1>4, <1>5, <1>13, <1>15 DEF Calm, p

LEMMA RenameTree ==
    ASSUME TreeInv, ConnInv, NEW c \in Clients, Rename(c), ~Reply(c, 500)
    PROVE  LET p == conn[c].req.path
               q == conn[c].req.dest
           IN  /\ TreeInv' /\ Calm
               /\ p \in Path /\ q \in Path /\ p # q /\ conn[c].req.op = "MOVE"
               /\ tree' = Moved(tree, p, q)
               /\ \A d \in Clients :
                     \/ handle'[d] = NoFile
                     \/ IsPrefix(q, handle'[d])
                     \/ handle'[d] = handle[d]
               /\ \A d \in Clients : ~IsPrefix(p, handle[d]) /\ ~IsPrefix(q, handle[d]) =>
                     handle'[d] = handle[d]
<1> DEFINE p == conn[c].req.path
           q == conn[c].req.dest
<1>1. conn[c].pc = "rename" /\ Dispatched(c)
  BY DEF Rename, ConnInv
<1>2. /\ p \in Paths /\ p \in Path /\ q \in Path /\ p # q /\ conn[c].req.op = "MOVE"
  BY <1>1, PathsAreShort DEF Dispatched
<1>3. /\ tree' = Moved(tree, p, q)
      /\ handle' = [d \in Clients |->
           IF handle[d] \in Under(tree, p) THEN q \o Suffix(p, handle[d])
           ELSE IF handle[d] \in Under(tree, q) THEN NoFile ELSE handle[d]]
      /\ stayed' = [d \in Clients |-> stayed[d] \ (Under(tree, p) \cup Under(tree, q))]
      /\ Reply(c, 201)
  BY DEF Rename
<1>4. Only(c)
  <2>1. 201 \in Nat
    OBVIOUS
  <2> QED BY <1>3, <2>1, ReplyStep
<1> HIDE DEF p, q
<1>5. CanRename(tree, p, q) /\ Sound(tree)
  BY DEF TreeInv, Rename, p, q
<1>6. Sound(Moved(tree, p, q))
  BY <1>2, <1>5, MovedSound
<1>7. /\ \A x \in Under(tree, p) : /\ q \o Suffix(p, x) \in DOMAIN tree'
                                   /\ tree'[q \o Suffix(p, x)] = tree[x]
                                   /\ IsPrefix(q, q \o Suffix(p, x))
      /\ \A x \in DOMAIN tree : ~IsPrefix(p, x) /\ ~IsPrefix(q, x) =>
            x \in DOMAIN tree' /\ tree'[x] = tree[x]
  <2>1. /\ \A x \in Under(tree, p) : /\ q \o Suffix(p, x) \in DOMAIN Moved(tree, p, q)
                                     /\ Moved(tree, p, q)[q \o Suffix(p, x)] = tree[x]
        /\ \A x \in DOMAIN tree : ~IsPrefix(p, x) /\ ~IsPrefix(q, x) =>
              x \in DOMAIN Moved(tree, p, q) /\ Moved(tree, p, q)[x] = tree[x]
    BY <1>2, <1>5, MovedTree
  <2>2. ASSUME NEW x \in Under(tree, p) PROVE IsPrefix(q, q \o Suffix(p, x))
    <3>1. x \in Path /\ IsPrefix(p, x)
      BY <1>5, UnderSound DEF Under
    <3>2. Suffix(p, x) \in Path
      BY <1>2, <3>1, SuffixPath
    <3> QED BY <1>2, <3>2, ConcatPath
  <2> QED BY <1>3, <2>1, <2>2
<1>8. Sound(tree)'
  BY <1>3, <1>6 DEF Sound, IsTree, IsDir
<1>9. ASSUME NEW d \in Clients
      PROVE  /\ handle'[d] \in Paths \cup {NoFile}
             /\ handle'[d] # NoFile => IsFile(tree', handle'[d]) /\ conn'[d].pc = "write"
             /\ handle'[d] = NoFile \/ IsPrefix(q, handle'[d]) \/ handle'[d] = handle[d]
             /\ ~IsPrefix(p, handle[d]) /\ ~IsPrefix(q, handle[d]) => handle'[d] = handle[d]
  <2>1. /\ handle[d] \in Paths \cup {NoFile}
        /\ handle[d] # NoFile => IsFile(tree, handle[d]) /\ conn[d].pc = "write"
        /\ handle'[d] = IF handle[d] \in Under(tree, p) THEN q \o Suffix(p, handle[d])
                        ELSE IF handle[d] \in Under(tree, q) THEN NoFile ELSE handle[d]
    BY <1>3 DEF TreeInv
  <2>2. conn[d].pc = "write" => conn'[d].pc = "write"
    BY <1>1, <1>4 DEF Only
  <2>3. DOMAIN tree \subseteq Paths /\ DOMAIN tree' \subseteq Paths /\ NoFile \notin Paths
    BY <1>5, <1>8, ValueAssumption, PathsAreShort DEF Sound, Path
  <2>4. CASE handle[d] \in Under(tree, p)
    <3>1. /\ handle[d] \in DOMAIN tree /\ tree[handle[d]] # Dir /\ conn'[d].pc = "write"
          /\ IsPrefix(p, handle[d])
      BY <2>1, <2>2, <2>3, <2>4 DEF Under, IsFile
    <3>2. /\ handle'[d] \in DOMAIN tree' /\ tree'[handle'[d]] = tree[handle[d]]
          /\ IsPrefix(q, handle'[d])
      BY <1>7, <2>1, <2>4
    <3> QED BY <2>3, <3>1, <3>2 DEF IsFile
  <2>5. CASE handle[d] \notin Under(tree, p) /\ handle[d] \in Under(tree, q)
    <3>1. handle'[d] = NoFile /\ IsPrefix(q, handle[d])
      BY <2>1, <2>5 DEF Under
    <3> QED BY <3>1
  <2>6. CASE handle[d] \notin Under(tree, p) /\ handle[d] \notin Under(tree, q)
    <3>1. handle'[d] = handle[d]
      BY <2>1, <2>6
    <3>2. CASE handle[d] # NoFile
      <4>1. IsFile(tree, handle[d]) /\ conn'[d].pc = "write"
        BY <2>1, <2>2, <3>2
      <4>2. ~IsPrefix(p, handle[d]) /\ ~IsPrefix(q, handle[d])
        BY <2>6, <4>1 DEF Under, IsFile
      <4> QED BY <1>7, <2>1, <3>1, <4>1, <4>2 DEF IsFile
    <3> QED BY <3>1, <3>2
  <2> QED BY <2>4, <2>5, <2>6
<1>10. handle' \in [Clients -> Paths \cup {NoFile}]
  BY <1>3, <1>9
<1>11. ASSUME NEW d \in Clients
       PROVE  /\ stayed'[d] \in SUBSET Paths /\ stayed'[d] \subseteq stayed[d]
              /\ \A x \in stayed'[d] : x \in DOMAIN tree' /\ tree'[x] = tree[x]
  <2>1. /\ stayed[d] \in SUBSET Paths /\ stayed[d] \subseteq DOMAIN tree
        /\ stayed'[d] = stayed[d] \ (Under(tree, p) \cup Under(tree, q))
    BY <1>3 DEF TreeInv
  <2>2. \A x \in stayed'[d] : x \in DOMAIN tree /\ ~IsPrefix(p, x) /\ ~IsPrefix(q, x)
    BY <2>1 DEF Under
  <2> QED BY <1>7, <2>1, <2>2
<1>12. stayed' \in [Clients -> SUBSET Paths]
  BY <1>3, <1>11
<1>13. TreeInv'
  BY <1>8, <1>9, <1>10, <1>11, <1>12 DEF TreeInv, IsFile
<1>14. Calm
  BY <1>11 DEF Calm
<1>15. /\ \A d \in Clients : \/ handle'[d] = NoFile \/ IsPrefix(q, handle'[d])
                           \/ handle'[d] = handle[d]
       /\ \A d \in Clients : ~IsPrefix(p, handle[d]) /\ ~IsPrefix(q, handle[d]) =>
             handle'[d] = handle[d]
  BY <1>9
<1>16. tree' = Moved(tree, p, q)
  BY <1>3
<1> QED BY <1>2, <1>13, <1>14, <1>15, <1>16 DEF p, q

LEMMA HandleTree ==
    ASSUME TreeInv, ConnInv, NEW c \in Clients, Handle(c)
    PROVE  TreeInv' /\ Calm /\ Only(c) /\ conn'[c].req = conn[c].req
<1>1. 201 \in Nat /\ 204 \in Nat /\ 403 \in Nat /\ 409 \in Nat /\ 500 \in Nat
      /\ 200 \in Nat /\ 207 \in Nat
  OBVIOUS
<1>2. ASSUME NEW status \in Nat, Reply(c, status)
      PROVE  Only(c) /\ conn'[c].req = conn[c].req
  BY <1>2, ReplyStep
<1>3. CASE EnsureParent(c) \/ MakeParents(c)
  <2>1. Only(c) /\ conn'[c].req = conn[c].req /\ conn[c].pc # "write"
    BY <1>3, EnsureParentStep, MakeParentsStep
  <2>2. \/ SameTree
        \/ \E new : /\ Sound(new) /\ SetTree(new)
                    /\ \A q \in DOMAIN tree : q \in DOMAIN new /\ new[q] = tree[q]
    BY <1>3, EnsureParentStep, MakeParentsStep
  <2> QED BY <2>1, <2>2, SameTreeInv, SetTreeInv
<1>4. CASE Create(c)
  <2>1. CASE ~Reply(c, 403)
    BY <1>4, <2>1, CreateTree, CreateStep
  <2>2. CASE Reply(c, 403)
    <3>1. conn[c].pc # "write"
      BY <1>4 DEF Create
    <3>2. conn'[c].pc = "done" /\ Only(c)
      BY <1>1, <1>2, <2>2, <1>4, ReplyStep, ZenonT(40) DEF Create
    <3>3. SameTree
      BY <1>4, <2>2, RefusedCreate
    <3> QED BY <1>1, <1>2, <2>2, <3>1, <3>3, SameTreeInv
  <2> QED BY <2>1, <2>2
<1>5. CASE WriteBody(c)
  <2>1. Reply(c, 201)
    BY <1>5 DEF WriteBody
  <2> QED BY <1>1, <1>2, <1>5, <2>1, WriteTree
<1>6. CASE WriteFails(c)
  <2>1. /\ conn[c].pc = "write" /\ handle' = [handle EXCEPT ![c] = NoFile] /\ Reply(c, 500)
        /\ UNCHANGED <<tree, stayed>>
    BY <1>6 DEF WriteFails
  <2>2. Only(c) /\ conn'[c].req = conn[c].req
    BY <1>1, <1>2, <2>1
  <2>3. \A d \in Clients \ {c} : handle'[d] = handle[d] /\ conn'[d].pc = conn[d].pc
    BY <2>1, <2>2 DEF TreeInv, Only
  <2>4. handle' \in [Clients -> Paths \cup {NoFile}] /\ handle'[c] = NoFile
    BY <2>1 DEF TreeInv
  <2>5. TreeInv'
    BY <2>1, <2>3, <2>4 DEF TreeInv, IsFile, IsDir, Sound, IsTree
  <2> QED BY <2>1, <2>2, <2>5 DEF Calm, TreeInv
<1>7. CASE MakeCollection(c)
  <2>1. conn[c].pc = "mkcol" /\ Dispatched(c) /\ (Reply(c, 201) \/ Reply(c, 409))
    BY <1>7 DEF MakeCollection, ConnInv
  <2>2. Only(c) /\ conn'[c].req = conn[c].req /\ conn[c].req.path \in Path
    BY <1>1, <1>2, <2>1 DEF Dispatched
  <2>3. CASE CanMake(tree, conn[c].req.path) /\ SetTree(Placed(tree, conn[c].req.path, Dir))
    <3>1. /\ Sound(Placed(tree, conn[c].req.path, Dir))
          /\ \A q \in DOMAIN tree : Placed(tree, conn[c].req.path, Dir)[q] = tree[q]
      BY <2>2, <2>3, DirMade DEF TreeInv
    <3> QED BY <2>1, <2>2, <2>3, <3>1, SetTreeInv
  <2>4. CASE SameTree
    BY <2>1, <2>2, <2>4, SameTreeInv
  <2> QED BY <1>7, <2>3, <2>4 DEF MakeCollection
<1>8. CASE Unlink(c)
  <2> DEFINE p == conn[c].req.path
  <2>1. conn[c].pc = "unlink" /\ (Reply(c, 204) \/ Reply(c, 500))
    BY <1>8 DEF Unlink
  <2>2. Only(c) /\ conn'[c].req = conn[c].req
    BY <1>1, <1>2, <2>1
  <2>3. CASE IsFile(tree, p) /\ SetTree(Without(tree, {p}))
    <3>1. /\ Sound(Without(tree, {p})) /\ DOMAIN Without(tree, {p}) = DOMAIN tree \ {p}
          /\ \A q \in DOMAIN tree \ {p} : Without(tree, {p})[q] = tree[q]
      <4>1. Children(tree, p) = {} /\ Sound(tree)
        BY <2>3, FileIsLeaf DEF IsFile, IsDir, TreeInv
      <4> QED BY <4>1, WithoutSound
    <3> HIDE DEF p
    <3> QED BY <2>1, <2>2, <2>3, <3>1, SetTreeInv
  <2>4. CASE SameTree
    BY <2>1, <2>2, <2>4, SameTreeInv
  <2> QED BY <1>8, <2>3, <2>4 DEF Unlink
<1>9. CASE RemoveNext(c)
  <2>1. /\ Only(c) /\ conn'[c].req = conn[c].req /\ conn[c].pc # "write"
        /\ \E p \in Under(tree, Target(conn[c].req)) :
              Children(tree, p) = {} /\ SetTree(Without(tree, {p}))
    BY <1>9, RemoveStep DEF Removing
  <2>2. PICK p : Children(tree, p) = {} /\ SetTree(Without(tree, {p}))
    BY <2>1
  <2>3. /\ Sound(Without(tree, {p})) /\ DOMAIN Without(tree, {p}) = DOMAIN tree \ {p}
        /\ \A q \in DOMAIN tree \ {p} : Without(tree, {p})[q] = tree[q]
    BY <2>2, WithoutSound DEF TreeInv
  <2> QED BY <2>1, <2>2, <2>3, SetTreeInv
<1>10. CASE CopyEnds(c) \/ ListEnds(c)
  <2>1. /\ conn[c].pc # "write" /\ SameTree
        /\ \/ Reply(c, 500) \/ Reply(c, 204) \/ Reply(c, 201) \/ Reply(c, 200) \/ Reply(c, 207)
    BY <1>10 DEF CopyEnds, ListEnds
  <2>2. Only(c) /\ conn'[c].req = conn[c].req
    BY <1>1, <1>2, <2>1
  <2> QED BY <2>1, <2>2, SameTreeInv
<1>11. CASE Decide(c) \/ ListSelf(c) \/ ListNext(c) \/ SearchNext(c) \/ ListPanics(c)
  <2>1. Only(c) /\ conn'[c].req = conn[c].req /\ conn[c].pc # "write" /\ SameTree
    BY <1>11, DecideStep, ListSelfStep, ListNextStep, SearchStep, ListPanicsStep
  <2> QED BY <2>1, SameTreeInv
<1>12. CASE Rename(c)
  <2>1. conn[c].pc = "rename" /\ (Reply(c, 201) \/ Reply(c, 500))
    BY <1>12 DEF Rename
  <2>2. Only(c) /\ conn'[c].req = conn[c].req
    BY <1>1, <1>2, <2>1
  <2>3. CASE ~Reply(c, 500)
    BY <1>12, <2>2, <2>3, RenameTree
  <2>4. CASE Reply(c, 500)
    <3>1. conn'[c].status = 500
      BY <1>1, <2>4, ReplyStep
    <3>2. ~Reply(c, 201)
      BY <1>1, <3>1, ReplyStep
    <3>3. SameTree
      BY <1>12, <3>2 DEF Rename
    <3> QED BY <2>1, <2>2, <3>3, SameTreeInv
  <2> QED BY <2>3, <2>4
<1>13. CASE CopyNext(c)
  <2>1. /\ Only(c) /\ conn'[c].req = conn[c].req /\ conn[c].pc # "write"
        /\ \/ SameTree
           \/ \E new : Sound(new) /\ Grown(tree, new, conn[c].req.dest) /\ SetTree(new)
    BY <1>13, CopyStep
  <2>2. CASE SameTree
    BY <2>1, <2>2, SameTreeInv
  <2>3. ASSUME NEW new, Sound(new), Grown(tree, new, conn[c].req.dest), SetTree(new)
        PROVE  TreeInv' /\ Calm
    <3>1. \A q \in DOMAIN tree : q \in DOMAIN new /\ tree[q] # Dir => new[q] # Dir
      BY <2>3 DEF Grown
    <3> QED BY <2>1, <2>3, <3>1, SetTreeInv
  <2> QED BY <2>1, <2>2, <2>3
<1>14. CASE CopyFails(c)
  <2>1. /\ Only(c) /\ conn'[c].req = conn[c].req /\ conn[c].pc # "write"
        /\ \E new : Sound(new) /\ Grown(tree, new, conn[c].req.dest) /\ Becomes(new)
    BY <1>14, CopyFailsStep
  <2>2. PICK new : Sound(new) /\ Grown(tree, new, conn[c].req.dest) /\ Becomes(new)
    BY <2>1
  <2>3. \A q \in DOMAIN tree : q \in DOMAIN new /\ tree[q] # Dir => new[q] # Dir
    BY <2>2 DEF Grown
  <2> QED BY <2>1, <2>2, <2>3, BecomesInv
<1>15. CASE RemoveFails(c)
  <2>1. conn[c].pc # "write" /\ Reply(c, 500) /\ UNCHANGED <<tree, handle, stayed>>
    BY <1>15 DEF RemoveFails, Removing
  <2>2. Only(c) /\ conn'[c].req = conn[c].req
    BY <1>1, <1>2, <2>1
  <2>3. \A d \in Clients : conn[d].pc = "write" => conn'[d].pc = "write"
    BY <2>1, <2>2 DEF Only
  <2>4. TreeInv'
    BY <2>1, <2>3 DEF TreeInv, IsFile, IsDir, Sound, IsTree
  <2> QED BY <2>1, <2>2, <2>4 DEF Calm, TreeInv
<1>16. CASE ListSkips(c)
  <2>1. /\ Only(c) /\ conn'[c].req = conn[c].req /\ conn[c].pc # "write"
        /\ \E lost : Skipped(c, lost)
    BY <1>16, ListSkipsStep
  <2> QED BY <2>1, SkippedInv
<1> QED BY <1>3, <1>4, <1>5, <1>6, <1>7, <1>8, <1>9, <1>10, <1>11, <1>12, <1>13, <1>14, <1>15,
           <1>16 DEF Handle

LEMMA LeaveTree ==
    ASSUME TreeInv, ConnInv, NEW c \in Clients, Disconnect(c) \/ BodyEnds(c) \/ ClientLeaves(c)
    PROVE  TreeInv' /\ Calm /\ UNCHANGED <<tree, hist, stayed>>
           /\ \A d \in Clients : handle'[d] = handle[d] \/ (d = c /\ handle'[d] = NoFile)
<1>1. Only(c) /\ conn'[c].pc # "write"
  BY LeaveConn
<1>2. CASE Disconnect(c)
  <2>1. handle' = [handle EXCEPT ![c] = NoFile] /\ UNCHANGED <<tree, writable, hist, stayed>>
    BY <1>2 DEF Disconnect
  <2>2. \A d \in Clients \ {c} : handle'[d] = handle[d] /\ conn'[d].pc = conn[d].pc
    BY <1>1, <2>1 DEF TreeInv, Only
  <2>3. handle' \in [Clients -> Paths \cup {NoFile}] /\ handle'[c] = NoFile
    BY <2>1 DEF TreeInv
  <2>4. TreeInv'
    BY <2>1, <2>2, <2>3 DEF TreeInv, IsFile, IsDir, Sound, IsTree
  <2> QED BY <2>1, <2>2, <2>3, <2>4 DEF Calm, TreeInv
<1>3. CASE BodyEnds(c) \/ ClientLeaves(c)
  <2>1. SameTree /\ conn[c].pc # "write"
    BY <1>3 DEF BodyEnds, ClientLeaves
  <2> QED BY <1>1, <2>1, SameTreeInv DEF SameTree
<1> QED BY <1>2, <1>3

LEMMA ReceiveTree ==
    ASSUME TreeInv, ConnInv, NEW c \in Clients, NEW r \in Requests[c], Receive(c, r)
    PROVE  /\ TreeInv' /\ UNCHANGED <<tree, handle>>
           /\ \A d \in Clients \ {c} : stayed'[d] = stayed[d]
           /\ stayed'[c] = IF r.op \in {"PROPFIND", "SEARCH", "ZIP"} THEN DOMAIN tree ELSE {}
<1> DEFINE new == IF r.op \in {"PROPFIND", "SEARCH", "ZIP"} THEN DOMAIN tree ELSE {}
<1>1. conn[c].pc = "idle" /\ UNCHANGED <<tree, handle>> /\ stayed' = [stayed EXCEPT ![c] = new]
  BY DEF Receive
<1>2. Only(c)
  BY ReceiveStep
<1>3. new \in SUBSET Paths /\ new \subseteq DOMAIN tree
  BY DEF TreeInv, Sound
<1>4. /\ stayed' \in [Clients -> SUBSET Paths]
      /\ stayed'[c] = new /\ \A d \in Clients \ {c} : stayed'[d] = stayed[d]
  BY <1>1, <1>3 DEF TreeInv
<1> HIDE DEF new
<1>5. \A d \in Clients : conn[d].pc = "write" => conn'[d].pc = "write"
  BY <1>1, <1>2 DEF Only
<1>6. TreeInv'
  BY <1>1, <1>3, <1>4, <1>5 DEF TreeInv, IsFile, IsDir, Sound, IsTree
<1> QED BY <1>1, <1>4, <1>6 DEF new

-----------------------------------------------------------------------------
(* Every step of the specification.                                        *)

Inv == TreeInv /\ ConnInv

LEMMA InitInv == ASSUME Init PROVE Inv
<1>1. Sound(tree) /\ writable \in BOOLEAN
  BY TreeAssumption DEF Init, Sound
<1>2. /\ conn = [c \in Clients |-> Idle] /\ handle = [c \in Clients |-> NoFile]
      /\ stayed = [c \in Clients |-> {}] /\ alone = Nobody
  BY DEF Init
<1>3. TreeInv
  BY <1>1, <1>2 DEF TreeInv
<1>4. Idle \in Handler
  <2> DEFINE asked == UNION {Requests[c] : c \in Clients}
  <2>1. NoRequest \in asked \cup {NoRequest}
    OBVIOUS
  <2> QED BY <2>1 DEF Idle, Handler
<1>5. conn \in [Clients -> Handler]
  BY <1>2, <1>4
<1>6. ASSUME NEW c \in Clients PROVE Dispatched(c)
  <2>1. conn[c].pc = "idle" /\ conn[c].req = NoRequest
    BY <1>2 DEF Idle
  <2> QED BY <2>1 DEF Dispatched, Removing
<1> QED BY <1>1, <1>2, <1>3, <1>5, <1>6 DEF Inv, ConnInv

LEMMA StepIsOfAClient ==
    ASSUME [ZipRun]_zipVars
    PROVE  \/ UNCHANGED vars
           \/ \E c \in Clients : ZipSkips(c)
           \/ \E c \in Clients : \/ Handle(c)
                                 \/ Disconnect(c) \/ BodyEnds(c) \/ ClientLeaves(c)
                                 \/ \E r \in Requests[c] : Receive(c, r)
<1>1. CASE UNCHANGED zipVars
  BY <1>1 DEF zipVars
<1>2. CASE Next
  BY <1>2 DEF Next
<1>3. CASE \E c \in Clients : ZipTask(c)
  BY <1>3 DEF ZipTask, ZipStart, ZipNext, ZipSend, ZipClose
<1>4. CASE \E c \in Clients : ZipClient(c)
  BY <1>4 DEF ZipClient, ClientReads
<1> QED BY <1>1, <1>2, <1>3, <1>4 DEF ZipRun

\* An entry that the walk of a zip cannot read.
LEMMA ZipSkipsTree ==
    ASSUME Inv, NEW c \in Clients, ZipSkips(c)
    PROVE  Inv' /\ Calm /\ UNCHANGED <<conn, tree, writable, handle, hist>>
<1>1. PICK lost : Skipped(c, lost) /\ UNCHANGED conn
  BY DEF ZipSkips
<1>2. /\ UNCHANGED <<conn, tree, writable, handle, hist>>
      /\ stayed' = [stayed EXCEPT ![c] = @ \ lost]
  BY <1>1 DEF Skipped
<1>3. stayed' \in [Clients -> SUBSET Paths] /\ \A e \in Clients : stayed'[e] \subseteq stayed[e]
  BY <1>2 DEF Inv, TreeInv
<1>4. TreeInv' /\ Calm
  BY <1>2, <1>3 DEF Inv, TreeInv, Sound, IsTree, IsDir, IsFile, Calm
<1>5. ConnInv'
  BY <1>2 DEF Inv, ConnInv, Dispatched, hist
<1> QED BY <1>2, <1>4, <1>5 DEF Inv

LEMMA NextInv == ASSUME Inv, [ZipRun]_zipVars PROVE Inv'
<1> USE DEF Inv
<1>1. CASE UNCHANGED vars
  BY <1>1 DEF vars, hist, TreeInv, ConnInv, Dispatched, Sound, IsTree, IsDir, IsFile
<1>2. ASSUME NEW c \in Clients, Handle(c) PROVE Inv'
  BY <1>2, HandleTree, HandleConn
<1>3. ASSUME NEW c \in Clients, Disconnect(c) \/ BodyEnds(c) \/ ClientLeaves(c) PROVE Inv'
  BY <1>3, LeaveTree, LeaveConn
<1>4. ASSUME NEW c \in Clients, NEW r \in Requests[c], Receive(c, r) PROVE Inv'
  BY <1>4, ReceiveTree, ReceiveConn
<1> QED BY <1>1, <1>2, <1>3, <1>4, StepIsOfAClient, ZipSkipsTree

LEMMA Reachable == ZipSpec => []Inv
<1>1. ZipInit => Inv
  BY InitInv DEF ZipInit
<1>2. Inv /\ [ZipRun]_zipVars => Inv'
  BY NextInv
<1> QED BY <1>1, <1>2, PTL DEF ZipSpec

\* The state keeps its types.  The directory stays a tree, and every open file one
\* of its files, whatever requests are interleaved, torn off or half done.
THEOREM TreeTypeCorrect == ZipSpec => []TypeOK
<1>1. Inv => TypeOK
  BY DEF Inv, TreeInv, ConnInv, Sound, TypeOK
<1> QED BY <1>1, Reachable, PTL

-----------------------------------------------------------------------------
(* The zip tasks.                                                          *)

ZipTaskRecord == [task : {"none", "walk", "closed", "failed"},
                  todo : SUBSET Paths, out : Piece \cup {NoPiece},
                  pipe : SeqOf(Piece, Capacity), got : Seq(Piece)]

ZipTyping == zip \in [Clients -> ZipTaskRecord]

LEMMA PipeIsShort == \A s : s \in SeqOf(Piece, Capacity) <=> s \in Seq(Piece) /\ Len(s) <= Capacity
BY ShortSeq, CapacityAssumption

LEMMA ZipTypeForm == ZipTypeOK <=> ZipTyping
<1>1. ASSUME ZipTypeOK PROVE ZipTyping
  <2>1. \A c \in Clients : zip[c].pipe \in SeqOf(Piece, Capacity)
    BY <1>1, PipeIsShort DEF ZipTypeOK
  <2> QED BY <1>1, <2>1 DEF ZipTypeOK, ZipTyping, ZipTaskRecord
<1>2. ASSUME ZipTyping PROVE ZipTypeOK
  <2>1. \A c \in Clients : zip[c].pipe \in Seq(Piece) /\ Len(zip[c].pipe) <= Capacity
    BY <1>2, PipeIsShort DEF ZipTyping, ZipTaskRecord
  <2> QED BY <1>2, <2>1 DEF ZipTypeOK, ZipTyping, ZipTaskRecord
<1> QED BY <1>1, <1>2

LEMMA ZipUpdate ==
    ASSUME ZipTypeOK, NEW c \in Clients, NEW h \in ZipTaskRecord, zip' = [zip EXCEPT ![c] = h]
    PROVE  ZipTypeOK' /\ zip'[c] = h /\ \A d \in Clients \ {c} : zip'[d] = zip[d]
<1>1. zip \in [Clients -> ZipTaskRecord]
  BY ZipTypeForm DEF ZipTyping
<1>2. /\ zip' \in [Clients -> ZipTaskRecord] /\ zip'[c] = h
      /\ \A d \in Clients \ {c} : zip'[d] = zip[d]
  BY <1>1
<1>3. ASSUME NEW e \in Clients
      PROVE  /\ zip'[e] \in [task : {"none", "walk", "closed", "failed"},
                             todo : SUBSET Paths, out : Piece \cup {NoPiece},
                             pipe : Seq(Piece), got : Seq(Piece)]
             /\ Len(zip'[e].pipe) <= Capacity
  <2>1. zip'[e] \in ZipTaskRecord
    BY <1>2
  <2>2. zip'[e].pipe \in Seq(Piece) /\ Len(zip'[e].pipe) <= Capacity
    BY <2>1, PipeIsShort DEF ZipTaskRecord
  <2> QED BY <2>1, <2>2 DEF ZipTaskRecord
<1> QED BY <1>2, <1>3 DEF ZipTypeOK

LEMMA ZipFields ==
    ASSUME ZipTypeOK, NEW c \in Clients
    PROVE  /\ zip[c] \in ZipTaskRecord
           /\ zip[c].task \in {"none", "walk", "closed", "failed"}
           /\ zip[c].todo \subseteq Paths /\ zip[c].out \in Piece \cup {NoPiece}
           /\ zip[c].pipe \in Seq(Piece) /\ Len(zip[c].pipe) <= Capacity
           /\ zip[c].got \in Seq(Piece)
<1>1. zip[c] \in ZipTaskRecord
  BY ZipTypeForm DEF ZipTyping
<1>2. zip[c].pipe \in SeqOf(Piece, Capacity)
  BY <1>1 DEF ZipTaskRecord
<1> QED BY <1>1, <1>2, PipeIsShort DEF ZipTaskRecord

LEMMA ZipStartStep ==
    ASSUME Inv, ZipTypeOK, NEW c \in Clients, ZipStart(c)
    PROVE  /\ ZipTypeOK' /\ \A d \in Clients \ {c} : zip'[d] = zip[d]
           /\ zip[c].task = "none" /\ zip'[c].task = "walk" /\ zip'[c].todo = {conn[c].req.path}
           /\ zip'[c].out = zip[c].out /\ zip'[c].pipe = zip[c].pipe /\ zip'[c].got = zip[c].got
           /\ UNCHANGED vars
<1> DEFINE h == [zip[c] EXCEPT !.task = "walk", !.todo = {conn[c].req.path}]
<1>1. zip' = [zip EXCEPT ![c] = h] /\ UNCHANGED vars /\ zip[c].task = "none"
  BY DEF ZipStart
<1>2. conn[c].req.op = "ZIP" /\ conn[c].pc \in {"sending", "away"} /\ Dispatched(c)
  BY DEF ZipStart, Inv, ConnInv
<1>3. {conn[c].req.path} \in SUBSET Paths /\ zip[c] \in ZipTaskRecord
  BY <1>2, ZipFields DEF Dispatched
<1>4. /\ h \in ZipTaskRecord /\ h.task = "walk" /\ h.todo = {conn[c].req.path}
      /\ h.out = zip[c].out /\ h.pipe = zip[c].pipe /\ h.got = zip[c].got
  BY <1>3 DEF ZipTaskRecord
<1> HIDE DEF h
<1> QED BY <1>1, <1>4, ZipUpdate

LEMMA ZipNextStep ==
    ASSUME Inv, ZipTypeOK, NEW c \in Clients, ZipNext(c)
    PROVE  /\ ZipTypeOK' /\ \A d \in Clients \ {c} : zip'[d] = zip[d]
           /\ zip[c].task = "walk" /\ zip[c].out = NoPiece
           /\ zip'[c].pipe = zip[c].pipe /\ zip'[c].got = zip[c].got
           /\ \/ zip'[c].task = "failed"
              \/ /\ zip'[c].task = "walk"
                 /\ \E p \in zip[c].todo :
                      \/ /\ ~IsFile(tree, p) /\ zip'[c].out = NoPiece
                         /\ zip'[c].todo = (zip[c].todo \ {p}) \cup Children(tree, p)
                      \/ /\ IsFile(tree, p) /\ zip'[c].todo = zip[c].todo \ {p}
                         /\ zip'[c].out = [path |-> p, content |-> tree[p]]
           /\ UNCHANGED vars
<1>1. zip[c].task = "walk" /\ zip[c].out = NoPiece /\ UNCHANGED vars
  BY DEF ZipNext
<1>2. PICK p \in zip[c].todo :
         \/ /\ ~IsFile(tree, p)
            /\ zip' = [zip EXCEPT ![c].todo = (zip[c].todo \ {p}) \cup Children(tree, p)]
         \/ /\ IsFile(tree, p)
            /\ zip' = [zip EXCEPT ![c].todo = zip[c].todo \ {p},
                                  ![c].out = [path |-> p, content |-> tree[p]]]
         \/ zip' = [zip EXCEPT ![c].task = "failed"]
  BY DEF ZipNext
<1>3. zip[c] \in ZipTaskRecord /\ zip[c].todo \subseteq Paths
  BY ZipFields
<1>4. CASE /\ ~IsFile(tree, p)
           /\ zip' = [zip EXCEPT ![c].todo = (zip[c].todo \ {p}) \cup Children(tree, p)]
  <2> DEFINE todo == (zip[c].todo \ {p}) \cup Children(tree, p)
             h == [zip[c] EXCEPT !.todo = todo]
  <2>1. zip' = [zip EXCEPT ![c] = h]
    BY <1>4
  <2>2. todo \in SUBSET Paths
    <3>1. Children(tree, p) \subseteq Paths
      BY UnderSound DEF Inv, TreeInv
    <3> QED BY <1>3, <3>1
  <2>3. todo = (zip[c].todo \ {p}) \cup Children(tree, p)
    OBVIOUS
  <2> HIDE DEF todo
  <2>4. /\ h \in ZipTaskRecord /\ h.task = zip[c].task /\ h.todo = todo
        /\ h.out = zip[c].out /\ h.pipe = zip[c].pipe /\ h.got = zip[c].got
    BY <1>3, <2>2 DEF ZipTaskRecord
  <2> HIDE DEF h
  <2>5. ZipTypeOK' /\ zip'[c] = h /\ \A d \in Clients \ {c} : zip'[d] = zip[d]
    BY <2>1, <2>4, ZipUpdate
  <2> QED BY <1>1, <1>4, <2>3, <2>4, <2>5
<1>5. CASE /\ IsFile(tree, p)
           /\ zip' = [zip EXCEPT ![c].todo = zip[c].todo \ {p},
                                 ![c].out = [path |-> p, content |-> tree[p]]]
  <2> DEFINE todo == zip[c].todo \ {p}
             out == [path |-> p, content |-> tree[p]]
             h == [zip[c] EXCEPT !.todo = todo, !.out = out]
  <2>1. zip' = [zip EXCEPT ![c] = h]
    BY <1>5, ZipTypeForm DEF ZipTyping, ZipTaskRecord
  <2>2. todo \in SUBSET Paths /\ out \in Piece
    BY <1>3, <1>5 DEF Piece, Entry, IsFile, Inv, TreeInv, Sound
  <2>3. todo = zip[c].todo \ {p} /\ out = [path |-> p, content |-> tree[p]]
    OBVIOUS
  <2> HIDE DEF todo, out
  <2>4. /\ h \in ZipTaskRecord /\ h.task = zip[c].task /\ h.todo = todo
        /\ h.out = out /\ h.pipe = zip[c].pipe /\ h.got = zip[c].got
    BY <1>3, <2>2 DEF ZipTaskRecord
  <2> HIDE DEF h
  <2>5. ZipTypeOK' /\ zip'[c] = h /\ \A d \in Clients \ {c} : zip'[d] = zip[d]
    BY <2>1, <2>4, ZipUpdate
  <2> QED BY <1>1, <1>5, <2>3, <2>4, <2>5
<1>6. CASE zip' = [zip EXCEPT ![c].task = "failed"]
  <2> DEFINE h == [zip[c] EXCEPT !.task = "failed"]
  <2>1. zip' = [zip EXCEPT ![c] = h]
    BY <1>6
  <2>2. h \in ZipTaskRecord /\ h.task = "failed" /\ h.pipe = zip[c].pipe /\ h.got = zip[c].got
    BY <1>3 DEF ZipTaskRecord
  <2> HIDE DEF h
  <2> QED BY <1>1, <2>1, <2>2, ZipUpdate
<1> QED BY <1>2, <1>4, <1>5, <1>6

LEMMA ZipSkipsStep ==
    ASSUME Inv, ZipTypeOK, NEW c \in Clients, ZipSkips(c)
    PROVE  /\ ZipTypeOK' /\ \A d \in Clients \ {c} : zip'[d] = zip[d]
           /\ zip[c].task = "walk" /\ zip[c].out = NoPiece
           /\ zip'[c].task = "walk" /\ zip'[c].out = NoPiece
           /\ zip'[c].pipe = zip[c].pipe /\ zip'[c].got = zip[c].got
           /\ \E p \in zip[c].todo : \E lost \in {{p}, Under(tree, p)} :
                /\ zip'[c].todo = (zip[c].todo \ {p}) \cup (Children(tree, p) \ lost)
                /\ stayed' = [stayed EXCEPT ![c] = @ \ lost]
           /\ UNCHANGED <<conn, tree, writable, handle, hist>>
<1>1. PICK p \in zip[c].todo : \E lost \in {{p}, Under(tree, p)} :
         /\ zip' = [zip EXCEPT ![c].todo = (@ \ {p}) \cup (Children(tree, p) \ lost)]
         /\ Skipped(c, lost)
  BY DEF ZipSkips
<1>2. PICK lost \in {{p}, Under(tree, p)} :
         /\ zip' = [zip EXCEPT ![c].todo = (@ \ {p}) \cup (Children(tree, p) \ lost)]
         /\ Skipped(c, lost)
  BY <1>1
<1>3. zip[c].task = "walk" /\ zip[c].out = NoPiece /\ UNCHANGED conn
  BY DEF ZipSkips
<1>4. /\ UNCHANGED <<tree, writable, handle, hist>>
      /\ stayed' = [stayed EXCEPT ![c] = @ \ lost]
  BY <1>2 DEF Skipped
<1> DEFINE todo == (zip[c].todo \ {p}) \cup (Children(tree, p) \ lost)
           h == [zip[c] EXCEPT !.todo = todo]
<1>5. zip' = [zip EXCEPT ![c] = h]
  BY <1>2
<1>6. zip[c] \in ZipTaskRecord /\ zip[c].todo \subseteq Paths
  BY ZipFields
<1>7. todo \in SUBSET Paths
  <2>1. Children(tree, p) \subseteq Paths
    BY UnderSound DEF Inv, TreeInv
  <2> QED BY <1>6, <2>1
<1>8. todo = (zip[c].todo \ {p}) \cup (Children(tree, p) \ lost)
  OBVIOUS
<1> HIDE DEF todo
<1>9. /\ h \in ZipTaskRecord /\ h.task = zip[c].task /\ h.todo = todo
      /\ h.out = zip[c].out /\ h.pipe = zip[c].pipe /\ h.got = zip[c].got
  BY <1>6, <1>7 DEF ZipTaskRecord
<1> HIDE DEF h
<1>10. ZipTypeOK' /\ zip'[c] = h /\ \A d \in Clients \ {c} : zip'[d] = zip[d]
  BY <1>5, <1>9, ZipUpdate
<1> QED BY <1>3, <1>4, <1>8, <1>9, <1>10

LEMMA ZipSendStep ==
    ASSUME Inv, ZipTypeOK, NEW c \in Clients, ZipSend(c)
    PROVE  /\ ZipTypeOK' /\ \A d \in Clients \ {c} : zip'[d] = zip[d]
           /\ zip[c].task = "walk" /\ zip[c].out \in Piece
           /\ \/ /\ conn[c].pc = "away" /\ zip'[c].task = "failed"
                 /\ zip'[c].pipe = zip[c].pipe /\ zip'[c].got = zip[c].got
              \/ /\ conn[c].pc # "away"
                 /\ zip'[c].pipe = Append(zip[c].pipe, zip[c].out)
                 /\ zip'[c].out = NoPiece /\ zip'[c].todo = zip[c].todo
                 /\ zip'[c].got = zip[c].got
                 /\ zip'[c].task = IF zip[c].out = Directory THEN "closed" ELSE "walk"
           /\ UNCHANGED vars
<1>1. zip[c].task = "walk" /\ zip[c].out \in Piece /\ UNCHANGED vars
  BY ZipFields DEF ZipSend
<1>2. zip[c] \in ZipTaskRecord
  BY ZipFields
<1>3. CASE conn[c].pc = "away"
  <2> DEFINE h == [zip[c] EXCEPT !.task = "failed"]
  <2>1. zip' = [zip EXCEPT ![c] = h]
    BY <1>3 DEF ZipSend
  <2>2. h \in ZipTaskRecord /\ h.task = "failed" /\ h.pipe = zip[c].pipe /\ h.got = zip[c].got
    BY <1>2 DEF ZipTaskRecord
  <2> HIDE DEF h
  <2> QED BY <1>1, <1>3, <2>1, <2>2, ZipUpdate
<1>4. CASE conn[c].pc # "away"
  <2> DEFINE pipe == Append(zip[c].pipe, zip[c].out)
             task == IF zip[c].out = Directory THEN "closed" ELSE "walk"
             h == [zip[c] EXCEPT !.pipe = pipe, !.out = NoPiece, !.task = task]
  <2>1. Len(zip[c].pipe) < Capacity
        /\ zip' = [zip EXCEPT ![c].pipe = Append(@, zip[c].out), ![c].out = NoPiece,
                              ![c].task = IF zip[c].out = Directory THEN "closed" ELSE "walk"]
    BY <1>4 DEF ZipSend
  <2>2. zip' = [zip EXCEPT ![c] = h]
    BY <2>1, ZipTypeForm DEF ZipTyping, ZipTaskRecord
  <2>3. pipe \in SeqOf(Piece, Capacity)
    <3>1. zip[c].pipe \in Seq(Piece) /\ Len(zip[c].pipe) < Capacity
      BY <2>1, ZipFields
    <3>2. Append(zip[c].pipe, zip[c].out) \in Seq(Piece)
          /\ Len(Append(zip[c].pipe, zip[c].out)) = Len(zip[c].pipe) + 1
      BY <1>1, <3>1, AppendProperties
    <3>3. Len(zip[c].pipe) \in Nat /\ Capacity \in Nat
      BY <3>1, LenProperties, CapacityAssumption
    <3>4. Len(pipe) <= Capacity /\ pipe \in Seq(Piece)
      BY <3>1, <3>2, <3>3
    <3> HIDE DEF pipe
    <3> QED BY <3>4, PipeIsShort
  <2>4. pipe = Append(zip[c].pipe, zip[c].out)
        /\ task = (IF zip[c].out = Directory THEN "closed" ELSE "walk")
        /\ task \in {"walk", "closed"}
    OBVIOUS
  <2> HIDE DEF pipe, task
  <2>5. /\ h \in ZipTaskRecord /\ h.task = task /\ h.todo = zip[c].todo
        /\ h.out = NoPiece /\ h.pipe = pipe /\ h.got = zip[c].got
    BY <1>2, <2>3, <2>4 DEF ZipTaskRecord
  <2> HIDE DEF h
  <2>6. ZipTypeOK' /\ zip'[c] = h /\ \A d \in Clients \ {c} : zip'[d] = zip[d]
    BY <2>2, <2>5, ZipUpdate
  <2> QED BY <1>1, <1>4, <2>4, <2>5, <2>6
<1> QED BY <1>3, <1>4

LEMMA ZipCloseStep ==
    ASSUME ZipTypeOK, NEW c \in Clients, ZipClose(c)
    PROVE  /\ ZipTypeOK' /\ \A d \in Clients \ {c} : zip'[d] = zip[d]
           /\ zip[c].task = "walk" /\ zip[c].out = NoPiece /\ zip[c].todo = {}
           /\ zip'[c].task = "walk" /\ zip'[c].out = Directory /\ zip'[c].todo = {}
           /\ zip'[c].pipe = zip[c].pipe /\ zip'[c].got = zip[c].got
           /\ UNCHANGED vars
<1> DEFINE h == [zip[c] EXCEPT !.out = Directory]
<1>1. /\ zip[c].task = "walk" /\ zip[c].out = NoPiece /\ zip[c].todo = {} /\ UNCHANGED vars
      /\ zip' = [zip EXCEPT ![c] = h]
  BY DEF ZipClose
<1>2. zip[c] \in ZipTaskRecord /\ Directory \in Piece \cup {NoPiece}
  BY ZipFields DEF Piece
<1>3. /\ h \in ZipTaskRecord /\ h.task = zip[c].task /\ h.todo = zip[c].todo
      /\ h.out = Directory /\ h.pipe = zip[c].pipe /\ h.got = zip[c].got
  BY <1>2 DEF ZipTaskRecord
<1> HIDE DEF h
<1> QED BY <1>1, <1>3, ZipUpdate

LEMMA ClientReadsStep ==
    ASSUME ZipTypeOK, NEW c \in Clients, ClientReads(c)
    PROVE  /\ ZipTypeOK' /\ \A d \in Clients \ {c} : zip'[d] = zip[d]
           /\ conn[c].pc = "sending" /\ zip[c].pipe # << >>
           /\ zip'[c].task = zip[c].task /\ zip'[c].out = zip[c].out /\ zip'[c].todo = zip[c].todo
           /\ zip'[c].pipe = Tail(zip[c].pipe)
           /\ zip'[c].got = Append(zip[c].got, Head(zip[c].pipe))
           /\ UNCHANGED vars
<1> DEFINE pipe == Tail(zip[c].pipe)
           got == Append(zip[c].got, Head(zip[c].pipe))
           h == [zip[c] EXCEPT !.pipe = pipe, !.got = got]
<1>1. conn[c].pc = "sending" /\ zip[c].pipe # << >> /\ UNCHANGED vars
  BY DEF ClientReads
<1>2. zip' = [zip EXCEPT ![c] = h]
  BY ZipTypeForm DEF ClientReads, ZipTyping, ZipTaskRecord
<1>3. pipe \in SeqOf(Piece, Capacity) /\ got \in Seq(Piece)
  <2>1. /\ zip[c].pipe \in Seq(Piece) /\ zip[c].got \in Seq(Piece)
        /\ Len(zip[c].pipe) <= Capacity /\ Len(zip[c].pipe) \in Nat /\ Capacity \in Nat
    BY ZipFields, LenProperties, CapacityAssumption
  <2>2. /\ Head(zip[c].pipe) \in Piece /\ Tail(zip[c].pipe) \in Seq(Piece)
        /\ Len(Tail(zip[c].pipe)) = Len(zip[c].pipe) - 1
    BY <1>1, <2>1, HeadTailProperties
  <2>3. got \in Seq(Piece)
    BY <2>1, <2>2, AppendProperties
  <2>4. Len(pipe) <= Capacity /\ pipe \in Seq(Piece)
    BY <2>1, <2>2
  <2> HIDE DEF pipe
  <2> QED BY <2>3, <2>4, PipeIsShort
<1>4. zip[c] \in ZipTaskRecord
  BY ZipFields
<1>5. pipe = Tail(zip[c].pipe) /\ got = Append(zip[c].got, Head(zip[c].pipe))
  OBVIOUS
<1> HIDE DEF pipe, got
<1>6. /\ h \in ZipTaskRecord /\ h.task = zip[c].task /\ h.todo = zip[c].todo
      /\ h.out = zip[c].out /\ h.pipe = pipe /\ h.got = got
  BY <1>3, <1>4 DEF ZipTaskRecord
<1> HIDE DEF h
<1> QED BY <1>1, <1>2, <1>5, <1>6, ZipUpdate

LEMMA ClientLeavesZip ==
    ASSUME ZipTypeOK, NEW c \in Clients, ClientLeaves(c)
    PROVE  /\ ZipTypeOK' /\ \A d \in Clients \ {c} : zip'[d] = zip[d]
           /\ zip'[c].task = zip[c].task /\ zip'[c].out = zip[c].out /\ zip'[c].todo = zip[c].todo
           /\ zip'[c].pipe = << >> /\ zip'[c].got = zip[c].got
<1> DEFINE h == [zip[c] EXCEPT !.pipe = << >>]
<1>1. zip' = [zip EXCEPT ![c] = h]
  BY DEF ClientLeaves
<1>2. << >> \in SeqOf(Piece, Capacity)
  <2>1. << >> \in Seq(Piece) /\ Len(<< >>) = 0 /\ Capacity \in Nat /\ 0 <= Capacity
    BY CapacityAssumption
  <2> QED BY <2>1, PipeIsShort
<1>3. zip[c] \in ZipTaskRecord
  BY ZipFields
<1>4. /\ h \in ZipTaskRecord /\ h.task = zip[c].task /\ h.todo = zip[c].todo
      /\ h.out = zip[c].out /\ h.pipe = << >> /\ h.got = zip[c].got
  BY <1>2, <1>3 DEF ZipTaskRecord
<1> HIDE DEF h
<1> QED BY <1>1, <1>4, ZipUpdate

LEMMA ZipInitTyped == ZipInit => ZipTypeOK
<1> SUFFICES ASSUME ZipInit PROVE ZipTypeOK
  OBVIOUS
<1>1. zip = [c \in Clients |-> NoTask]
  BY DEF ZipInit
<1>2. << >> \in SeqOf(Piece, Capacity)
  <2>1. << >> \in Seq(Piece) /\ Len(<< >>) = 0 /\ Capacity \in Nat /\ 0 <= Capacity
    BY CapacityAssumption
  <2> QED BY <2>1, PipeIsShort
<1>3. NoTask \in ZipTaskRecord
  BY <1>2 DEF NoTask, ZipTaskRecord
<1> QED BY <1>1, <1>3, ZipTypeForm DEF ZipTyping

LEMMA ZipTyped == ZipSpec => []ZipTypeOK
<1>1. ZipInit => ZipTypeOK
  BY ZipInitTyped
<1>2. Inv /\ ZipTypeOK /\ [ZipRun]_zipVars => ZipTypeOK'
  <2> SUFFICES ASSUME Inv, ZipTypeOK, [ZipRun]_zipVars PROVE ZipTypeOK'
    OBVIOUS
  <2>1. CASE UNCHANGED zip
    BY <2>1 DEF ZipTypeOK
  <2>2. ASSUME NEW c \in Clients, ZipTask(c) PROVE ZipTypeOK'
    BY <2>2, ZipStartStep, ZipNextStep, ZipSkipsStep, ZipSendStep, ZipCloseStep DEF ZipTask
  <2>3. ASSUME NEW c \in Clients, ClientReads(c) \/ ClientLeaves(c) PROVE ZipTypeOK'
    BY <2>3, ClientReadsStep, ClientLeavesZip
  <2> QED BY <2>1, <2>2, <2>3 DEF ZipRun, ZipClient, BodyEnds, zipVars
<1> QED BY <1>1, <1>2, Reachable, PTL DEF ZipSpec

\* The pipe of a zip never holds more than it has room for, whoever reads or leaves.
THEOREM ZipTypeCorrect == ZipSpec => []ZipTypeOK
BY ZipTyped

-----------------------------------------------------------------------------
(* A refusal changes nothing.                                              *)

\* While a request that came to a quiet directory is the last that came, no other
\* one is in flight.
AloneInv == \A c \in Clients : alone = c => \A d \in Clients \ {c} : ~InFlight(d)

LEMMA HandledInFlight ==
    ASSUME NEW c \in Clients, Handle(c) \/ Disconnect(c) \/ BodyEnds(c) \/ ClientLeaves(c)
    PROVE  InFlight(c) /\ (Handle(c) => conn[c].pc # "sending")
BY ZenonT(60) DEF InFlight, Handle, EnsureParent, Create, WriteBody, WriteFails, MakeCollection, Unlink,
       RemoveNext, RemoveFails, Decide, Rename, CopyNext, CopyFails, CopyEnds, ListSelf,
       ListNext, SearchNext, ListSkips, ListPanics, ListEnds, MakeParents, Disconnect,
       BodyEnds, ClientLeaves, Waiting, Removing, Over

\* What a step is when the request of a is still the last that came.
LEMMA AloneStep ==
    ASSUME Inv, AloneInv, [ZipRun]_zipVars, NEW a \in Clients, alone' = a
    PROVE  /\ \A d \in Clients \ {a} : ~InFlight(d)'
           /\ \/ UNCHANGED <<tree, conn, hist>>
              \/ /\ Handle(a) \/ Disconnect(a) \/ BodyEnds(a) \/ ClientLeaves(a)
                 /\ alone = a /\ before' = before
              \/ /\ \E r \in Requests[a] : Receive(a, r)
                 /\ before' = tree /\ tree' = tree
<1>1. CASE UNCHANGED <<tree, conn, hist>>
  BY <1>1 DEF AloneInv, hist, InFlight
<1>2. ASSUME NEW c \in Clients, Handle(c) \/ Disconnect(c) \/ BodyEnds(c) \/ ClientLeaves(c)
      PROVE  /\ c = a /\ before' = before /\ alone = a
             /\ \A d \in Clients \ {a} : ~InFlight(d)'
  <2>1. UNCHANGED before /\ alone' \in {alone, Nobody} /\ Only(c)
    <3>1. CASE Handle(c)
      BY <3>1, HandleConn, HandleTree DEF Inv
    <3>2. CASE Disconnect(c) \/ BodyEnds(c) \/ ClientLeaves(c)
      BY <3>2, LeaveTree, LeaveConn DEF Inv, hist
    <3> QED BY <1>2, <3>1, <3>2
  <2>2. alone = a /\ before' = before
    BY <2>1, ValueAssumption
  <2>3. c = a
    BY <1>2, <2>2, HandledInFlight DEF AloneInv
  <2>4. \A d \in Clients \ {a} : conn'[d].pc = conn[d].pc
    BY <2>1, <2>3 DEF Only
  <2> QED BY <2>2, <2>3, <2>4 DEF AloneInv, InFlight
<1>3. ASSUME NEW c \in Clients, NEW r \in Requests[c], Receive(c, r)
      PROVE  /\ c = a /\ before' = tree /\ tree' = tree
             /\ \A d \in Clients \ {a} : ~InFlight(d)'
  <2>1. /\ alone' = (IF \A d \in Clients \ {c} : ~InFlight(d) THEN c ELSE Nobody)
        /\ before' = (IF \A d \in Clients \ {c} : ~InFlight(d) THEN tree ELSE << >>)
        /\ UNCHANGED tree
    BY <1>3 DEF Receive
  <2>2. a # Nobody
    BY ValueAssumption
  <2>3. a = c /\ before' = tree /\ \A d \in Clients \ {c} : ~InFlight(d)
    BY <2>1, <2>2
  <2>4. Only(c)
    BY <1>3, ReceiveStep DEF Inv
  <2> QED BY <2>1, <2>3, <2>4 DEF Only, InFlight
<1>4. ASSUME NEW c \in Clients, ZipSkips(c) PROVE UNCHANGED <<tree, conn, hist>>
  BY <1>4, ZipSkipsTree
<1>5. ASSUME UNCHANGED vars PROVE UNCHANGED <<tree, conn, hist>>
  BY <1>5 DEF vars
<1> QED BY <1>1, <1>2, <1>3, <1>4, <1>5, StepIsOfAClient

-----------------------------------------------------------------------------
(* A request that is refused.                                              *)

Early == {"parent", "mkcol", "decide", "self", "list"}

\* The directory t is b with new directories above p.
Grew(t, b, p) ==
    LET new == DOMAIN t \ DOMAIN b IN Without(t, new) = b /\ new \subseteq Ancestors(p)

LEMMA WithoutNothing == ASSUME NEW t, Sound(t) PROVE Without(t, {}) = t
<1>1. t = [x \in DOMAIN t |-> t[x]]
  BY DEF Sound
<1>2. DOMAIN t \cap (DOMAIN t \ {}) = DOMAIN t
  OBVIOUS
<1> QED BY <1>1, <1>2 DEF Without, Restrict

LEMMA GrewNothing == ASSUME NEW t, Sound(t), NEW p PROVE Grew(t, t, p)
BY WithoutNothing DEF Grew

LEMMA GrewMore ==
    ASSUME NEW t, NEW b, NEW p, Grew(t, b, p), NEW d \in Ancestors(p), d \notin DOMAIN t
    PROVE  Grew(Placed(t, d, Dir), b, p)
<1> DEFINE new == DOMAIN t \ DOMAIN b
           u == Placed(t, d, Dir)
           more == DOMAIN u \ DOMAIN b
<1>1. /\ DOMAIN u = {d} \cup DOMAIN t
      /\ \A q \in DOMAIN t : u[q] = t[q]
  BY DEF Placed
<1>2. Without(t, new) = [q \in DOMAIN t \ new |-> t[q]] /\ Without(t, new) = b
  <2>1. DOMAIN t \cap (DOMAIN t \ new) = DOMAIN t \ new
    OBVIOUS
  <2>2. (DOMAIN t \ new) \cap DOMAIN t = DOMAIN t \ new
    OBVIOUS
  <2> QED BY <2>1, <2>2 DEF Grew, Without, Restrict
<1>3. DOMAIN b \subseteq DOMAIN t /\ new \subseteq Ancestors(p)
  BY <1>2 DEF Grew
<1>4. DOMAIN u \ more = DOMAIN t \ new /\ more \subseteq Ancestors(p)
  BY <1>1, <1>3
<1>5. Without(u, more) = [q \in DOMAIN u \ more |-> u[q]]
  <2> HIDE DEF u
  <2>1. DOMAIN u \cap (DOMAIN u \ more) = DOMAIN u \ more
    OBVIOUS
  <2>2. (DOMAIN u \ more) \cap DOMAIN u = DOMAIN u \ more
    OBVIOUS
  <2> QED BY <2>1, <2>2 DEF Without, Restrict
<1>6. [q \in DOMAIN u \ more |-> u[q]] = [q \in DOMAIN t \ new |-> t[q]]
  BY <1>1, <1>4
<1> QED BY <1>2, <1>4, <1>5, <1>6 DEF Grew

\* While no other request is in flight the directory is the one the request met,
\* up to its first change; an upload first makes directories above its file.
QuietInv ==
    \A c \in Clients : alone = c =>
        LET p == conn[c].req.path IN
        /\ conn[c].pc # "idle"
        /\ conn[c].pc \in Early => tree = before
        /\ conn[c].pc \in {"parents", "create"} => Grew(tree, before, p)
        /\ conn[c].pc = "done" /\ conn[c].status \in 400 .. 499 =>
              tree = before \/ (conn[c].req.op = "PUT" /\ Grew(tree, before, p))

\* What a handler does with the directory when nothing else runs.
LEMMA HandleAlone ==
    ASSUME Inv, NEW c \in Clients, Handle(c)
    PROVE  /\ conn'[c].pc # "idle"
           /\ conn'[c].pc \in Early => conn[c].pc \in Early /\ tree' = tree
           /\ (conn'[c].pc \in {"parents", "create"}
               \/ (conn'[c].pc = "done" /\ conn'[c].status \in 400 .. 499)) =>
                 \/ conn[c].pc \in Early /\ tree' = tree
                 \/ /\ conn[c].pc \in {"parents", "create"}
                    /\ \/ tree' = tree
                       \/ \E d \in Ancestors(conn[c].req.path) :
                             d \notin DOMAIN tree /\ tree' = Placed(tree, d, Dir)
<1> USE DEF Inv, Early
<1>1. 201 \in Nat /\ 204 \in Nat /\ 403 \in Nat /\ 409 \in Nat /\ 500 \in Nat
      /\ 200 \in Nat /\ 207 \in Nat
  OBVIOUS
<1>2. ASSUME NEW status \in Nat, Reply(c, status)
      PROVE  conn'[c].pc \in {"done", "away"} /\ conn'[c].status = status
  BY <1>2, ReplyStep
<1>3. CASE EnsureParent(c)
  BY <1>3, EnsureParentStep DEF SameTree
<1>4. CASE MakeParents(c)
  <2>1. CASE SameTree
    BY <1>4, <2>1, MakeParentsStep DEF SameTree
  <2>2. ASSUME NEW p \in Ancestors(conn[c].req.path), CanMake(tree, p) \/ IsDir(tree, p),
               SetTree(Placed(tree, p, Dir))
        PROVE  tree' = tree \/ (p \notin DOMAIN tree /\ tree' = Placed(tree, p, Dir))
    <3>1. tree' = Placed(tree, p, Dir)
      BY <2>2 DEF SetTree, Becomes
    <3>2. CASE IsDir(tree, p)
      <4>1. Placed(tree, p, Dir) = [q \in DOMAIN tree |-> tree[q]]
        BY <3>2 DEF Placed, IsDir
      <4> QED BY <3>1, <4>1 DEF TreeInv, Sound
    <3>3. CASE CanMake(tree, p)
      BY <3>1, <3>3 DEF CanMake
    <3> QED BY <2>2, <3>2, <3>3
  <2>3. /\ conn[c].pc = "parents" /\ conn'[c].pc \in {"done", "parents", "create"}
        /\ conn'[c].pc = "done" => conn'[c].status = 500
        /\ \/ SameTree
           \/ \E p \in Ancestors(conn[c].req.path) :
                 (CanMake(tree, p) \/ IsDir(tree, p)) /\ SetTree(Placed(tree, p, Dir))
    BY <1>4, MakeParentsStep
  <2> QED BY <2>1, <2>2, <2>3
<1>5. CASE Create(c)
  <2>1. CASE ~Reply(c, 403)
    BY <1>5, <2>1, CreateStep
  <2>2. CASE Reply(c, 403)
    <3>1. conn[c].pc = "create" /\ SameTree
      BY <1>5, <2>2, RefusedCreate DEF Create
    <3>2. conn'[c].pc \in {"done", "away"}
      BY <1>1, <1>2, <2>2
    <3> QED BY <3>1, <3>2, SMTT(30) DEF SameTree
  <2> QED BY <2>1, <2>2
<1>6. CASE MakeCollection(c)
  <2>1. conn[c].pc = "mkcol" /\ (Reply(c, 201) \/ (Reply(c, 409) /\ SameTree))
    BY <1>6 DEF MakeCollection
  <2> QED BY <1>1, <1>2, <2>1 DEF SameTree
<1>7. CASE \/ WriteBody(c) \/ WriteFails(c) \/ Unlink(c) \/ RemoveFails(c) \/ Rename(c)
           \/ CopyEnds(c) \/ ListEnds(c)
  <2>1. Reply(c, 200) \/ Reply(c, 201) \/ Reply(c, 204) \/ Reply(c, 207) \/ Reply(c, 500)
    BY <1>7 DEF WriteBody, WriteFails, Unlink, RemoveFails, Rename, CopyEnds, ListEnds
  <2>2. conn'[c].pc \in {"done", "away"} /\ conn'[c].status \in {200, 201, 204, 207, 500}
    BY <1>1, <1>2, <2>1
  <2> QED BY <2>2
<1>8. CASE RemoveNext(c)
  <2>1. \/ conn'[c].pc \in Removing \cup {"copy", "rename"}
        \/ conn'[c].pc \in {"done", "away"} /\ conn'[c].status = 204
    BY <1>8, RemoveStep
  <2> QED BY <2>1 DEF Removing
<1>9. CASE Decide(c)
  <2>1. /\ conn[c].pc = "decide" /\ SameTree
        /\ conn'[c].pc \in {"done", "remove", "rename", "copy"}
    BY <1>9, DecideStep
  <2> QED BY <2>1 DEF SameTree
<1>10. CASE CopyNext(c) \/ CopyFails(c)
  BY <1>10, CopyStep, CopyFailsStep
<1>11. CASE ListSelf(c) \/ ListNext(c) \/ SearchNext(c) \/ ListPanics(c)
  <2>1. /\ conn[c].pc \in {"self", "list"} /\ SameTree
        /\ conn'[c].pc \in {"done", "list", "cut"}
    BY <1>11, ListSelfStep, ListNextStep, SearchStep, ListPanicsStep
  <2> QED BY <2>1 DEF SameTree
<1>12. CASE ListSkips(c)
  <2>1. conn[c].pc = "list" /\ conn'[c].pc = "list" /\ \E lost : Skipped(c, lost)
    BY <1>12, ListSkipsStep
  <2> QED BY <2>1 DEF Skipped
<1> QED BY <1>3, <1>4, <1>5, <1>6, <1>7, <1>8, <1>9, <1>10, <1>11, <1>12 DEF Handle

LEMMA QuietStep ==
    ASSUME Inv, AloneInv, QuietInv, [ZipRun]_zipVars
    PROVE  AloneInv' /\ QuietInv'
<1>1. AloneInv'
  BY AloneStep DEF AloneInv
<1>2. ASSUME NEW a \in Clients, alone' = a
      PROVE  /\ conn'[a].pc # "idle"
             /\ conn'[a].pc \in Early => tree' = before'
             /\ conn'[a].pc \in {"parents", "create"} =>
                   Grew(tree', before', conn'[a].req.path)
             /\ conn'[a].pc = "done" /\ conn'[a].status \in 400 .. 499 =>
                   \/ tree' = before'
                   \/ conn'[a].req.op = "PUT" /\ Grew(tree', before', conn'[a].req.path)
  <2> DEFINE Q == /\ conn[a].pc # "idle"
                  /\ conn[a].pc \in Early => tree = before
                  /\ conn[a].pc \in {"parents", "create"} =>
                        Grew(tree, before, conn[a].req.path)
                  /\ conn[a].pc = "done" /\ conn[a].status \in 400 .. 499 =>
                        \/ tree = before
                        \/ conn[a].req.op = "PUT" /\ Grew(tree, before, conn[a].req.path)
  <2>1. CASE UNCHANGED <<tree, conn, hist>>
    <3>1. UNCHANGED tree /\ UNCHANGED conn /\ UNCHANGED before /\ UNCHANGED alone
      BY <2>1 DEF hist
    <3>2. Q
      BY <1>2, <3>1 DEF QuietInv
    <3> QED BY <3>1, <3>2
  <2>2. CASE Handle(a) /\ alone = a /\ before' = before
    <3>1. Q
      BY <2>2 DEF QuietInv
    <3>2. conn'[a].req = conn[a].req
      BY <2>2, HandleTree DEF Inv
    <3>3. Sound(tree) /\ (conn[a].pc \in {"parents", "create"} => conn[a].req.op = "PUT")
      BY DEF Inv, TreeInv, ConnInv, Dispatched
    <3>4. ASSUME conn[a].pc \in Early, tree' = tree
          PROVE  tree' = before' /\ Grew(tree', before', conn'[a].req.path)
      <4>1. tree' = before' /\ tree' = tree
        BY <2>2, <3>1, <3>4
      <4> QED BY <3>3, <4>1, GrewNothing
    <3>5. ASSUME conn[a].pc \in {"parents", "create"},
                 \/ tree' = tree
                 \/ \E d \in Ancestors(conn[a].req.path) :
                       d \notin DOMAIN tree /\ tree' = Placed(tree, d, Dir)
          PROVE  conn'[a].req.op = "PUT" /\ Grew(tree', before', conn'[a].req.path)
      <4>1. Grew(tree, before, conn[a].req.path)
        BY <3>1, <3>5
      <4>2. Grew(tree', before, conn[a].req.path)
        BY <3>5, <4>1, GrewMore
      <4> QED BY <2>2, <3>2, <3>3, <3>5, <4>2
    <3> HIDE DEF Early, Q
    <3> QED BY <2>2, <3>4, <3>5, HandleAlone
  <2>3. CASE (Disconnect(a) \/ BodyEnds(a) \/ ClientLeaves(a)) /\ alone = a /\ before' = before
    <3>1. /\ conn'[a].pc \in {"away", "orphan", "done"}
          /\ conn'[a].pc = "done" => conn'[a].status = 200
      BY <2>3, LeaveConn DEF Inv
    <3> QED BY <3>1 DEF Early
  <2>4. ASSUME NEW r \in Requests[a], Receive(a, r), before' = tree, tree' = tree
        PROVE  /\ conn'[a].pc # "idle" /\ tree' = before'
               /\ Grew(tree', before', conn'[a].req.path)
    <3>1. conn'[a].pc = "done" \/ (Answer(r) = Later /\ conn'[a].pc = FirstStep(r))
      BY <2>4, ReceiveStep DEF Inv
    <3>2. conn'[a].pc # "idle"
      BY <3>1, <2>4, Accepted DEF Inv, TreeInv
    <3>3. Grew(tree, tree, conn'[a].req.path)
      BY GrewNothing DEF Inv, TreeInv
    <3> QED BY <2>4, <3>2, <3>3
  <2> HIDE DEF Q
  <2> QED BY <1>2, <2>1, <2>2, <2>3, <2>4, AloneStep
<1>3. QuietInv'
  BY <1>2 DEF QuietInv
<1> QED BY <1>1, <1>3

LEMMA QuietRefusal == ASSUME Inv, QuietInv PROVE RefusalChangesNothing
<1> SUFFICES ASSUME NEW c \in Clients, alone = c, conn[c].pc = "done", conn[c].status \in 400 .. 499
             PROVE  LET new == DOMAIN tree \ DOMAIN before
                        r == conn[c].req
                    IN  /\ Without(tree, new) = before
                        /\ new # {} => r.op = "PUT" /\ new \subseteq Ancestors(r.path)
  BY DEF RefusalChangesNothing
<1>1. CASE tree = before
  <2>1. Without(tree, {}) = tree /\ DOMAIN tree \ DOMAIN before = {}
    BY <1>1, WithoutNothing DEF Inv, TreeInv
  <2> QED BY <1>1, <2>1
<1>2. CASE conn[c].req.op = "PUT" /\ Grew(tree, before, conn[c].req.path)
  BY <1>2 DEF Grew
<1> QED BY <1>1, <1>2 DEF QuietInv

\* A request that is refused has changed nothing, whatever the directory and the
\* request, when no other one overlapped it: every check of handle_copymove and of
\* the upload comes before the first change, but for the directories of an upload.
THEOREM RefusalChangesNothingAlways == ZipSpec => []RefusalChangesNothing
<1>1. ZipInit => AloneInv /\ QuietInv
  BY ValueAssumption DEF ZipInit, Init, AloneInv, QuietInv
<1>2. Inv /\ AloneInv /\ QuietInv /\ [ZipRun]_zipVars => AloneInv' /\ QuietInv'
  BY QuietStep
<1>3. Inv /\ QuietInv => RefusalChangesNothing
  BY QuietRefusal
<1> QED BY <1>1, <1>2, <1>3, Reachable, PTL DEF ZipSpec

-----------------------------------------------------------------------------
(* An upload that was answered 201 is there.                               *)

Untouched(c, p) ==
    \A d \in Clients \ {c} : conn[d].pc = "idle" \/ Spares(conn[d].req, p)

\* Nobody else has a file open where an upload goes, while the others leave it
\* alone: their uploads go elsewhere, and no move takes one there.
HandleInv ==
    \A c \in Clients : \A p \in Path :
        /\ conn[c].pc = "idle" \/ (conn[c].req.op = "PUT" /\ conn[c].req.path = p)
        /\ Untouched(c, p)
        => \A d \in Clients \ {c} : handle[d] # p

\* So the file is the upload's own until the body is in it, and its body then.
FileInv ==
    \A c \in Clients :
      LET r == conn[c].req IN
        conn[c].pc # "idle" /\ r.op = "PUT" /\ Untouched(c, r.path) =>
          /\ conn[c].pc \in {"parent", "parents", "create"} => ~conn[c].flag
          /\ conn[c].pc = "write" => /\ handle[c] = r.path /\ ~conn[c].flag
                                     /\ r.path \in DOMAIN tree /\ tree[r.path] = Partial
          /\ conn[c].pc = "done" /\ conn[c].status = 201 =>
                r.path \in Path /\ r.path \in DOMAIN tree /\ tree[r.path] = r.body

LEMMA BecomesSpares ==
    ASSUME Inv, NEW p \in Path, NEW new, Becomes(new),
           p \in DOMAIN tree => p \in DOMAIN new /\ new[p] = tree[p]
    PROVE  /\ p \in DOMAIN tree => p \in DOMAIN tree' /\ tree'[p] = tree[p]
           /\ \A e \in Clients : handle'[e] = p => handle[e] = p
           /\ \A e \in Clients : handle[e] = p /\ p \in DOMAIN tree => handle'[e] = p
<1>1. tree' = new /\ \A e \in Clients :
         handle'[e] = IF handle[e] \in DOMAIN new THEN handle[e] ELSE NoFile
  BY DEF Becomes
<1>2. NoFile # p
  BY ValueAssumption DEF Path
<1> QED BY <1>1, <1>2

LEMMA SetTreeSpares ==
    ASSUME Inv, NEW p \in Path, NEW new, SetTree(new),
           p \in DOMAIN tree => p \in DOMAIN new /\ new[p] = tree[p]
    PROVE  /\ p \in DOMAIN tree => p \in DOMAIN tree' /\ tree'[p] = tree[p]
           /\ \A e \in Clients : handle'[e] = p => handle[e] = p
           /\ \A e \in Clients : handle[e] = p /\ p \in DOMAIN tree => handle'[e] = p
BY BecomesSpares DEF SetTree

\* The step of a handler whose request leaves a path alone leaves the file there
\* alone, and who has it open.
LEMMA SparingStep ==
    ASSUME Inv, NEW d \in Clients, Handle(d), NEW p \in Path, Spares(conn[d].req, p), handle[d] # p
    PROVE  /\ p \in DOMAIN tree => p \in DOMAIN tree' /\ tree'[p] = tree[p]
           /\ \A e \in Clients : handle'[e] = p => handle[e] = p
           /\ \A e \in Clients \ {d} : handle[e] = p /\ p \in DOMAIN tree => handle'[e] = p
           /\ \A e \in Clients \ {d} : handle[e] \in {p, NoFile} => conn'[e].flag = conn[e].flag
<1> USE DEF Inv
<1> DEFINE r == conn[d].req
           Spared == /\ p \in DOMAIN tree => p \in DOMAIN tree' /\ tree'[p] = tree[p]
                     /\ \A e \in Clients : handle'[e] = p => handle[e] = p
                     /\ \A e \in Clients \ {d} : handle[e] = p /\ p \in DOMAIN tree => handle'[e] = p
           SameFlags == \A e \in Clients \ {d} : conn'[e] = conn[e]
<1>1. Dispatched(d) /\ NoFile # p /\ Bad # p /\ NoFile \notin Path /\ Bad \notin Path
  BY ValueAssumption DEF ConnInv, Path
<1>2. IsPrefix(p, p)
  BY PrefixReflexive
<1>3. ASSUME NEW status \in Nat, Reply(d, status) PROVE SameFlags
  BY <1>3, ReplyStep
<1>4. 201 \in Nat /\ 204 \in Nat /\ 403 \in Nat /\ 409 \in Nat /\ 500 \in Nat
      /\ 200 \in Nat /\ 207 \in Nat
  OBVIOUS
<1>5. SameTree => Spared
  BY DEF SameTree
<1> HIDE DEF Spared, SameFlags
<1>6. CASE EnsureParent(d) \/ MakeParents(d)
  <2>1. SameFlags /\ (SameTree \/ \E new : /\ SetTree(new)
                                           /\ \A q \in DOMAIN tree : q \in DOMAIN new /\ new[q] = tree[q])
    BY <1>6, EnsureParentStep, MakeParentsStep DEF SameFlags
  <2>2. Spared
    BY <1>5, <2>1, SetTreeSpares DEF Spared
  <2> QED BY <2>1, <2>2 DEF SameFlags, Spared
<1>7. CASE Create(d)
  <2>1. CASE ~Reply(d, 403)
    <3>1. /\ r.path \in Paths /\ tree' = Placed(tree, r.path, Partial)
          /\ handle' = [handle EXCEPT ![d] = r.path]
      BY <1>7, <2>1, CreateTree
    <3>2. r.path # p /\ r.path # NoFile
      <4>1. conn[d].pc = "create"
        BY <1>7 DEF Create
      <4>2. r.op = "PUT" /\ r.path \in Path
        BY <1>1, <4>1 DEF Dispatched
      <4> QED BY <1>1, <4>2 DEF Spares, Changing
    <3>3. p \in DOMAIN tree => p \in DOMAIN tree' /\ tree'[p] = tree[p]
      BY <3>1, <3>2 DEF Placed
    <3>4. handle'[d] = r.path /\ \A e \in Clients \ {d} : handle'[e] = handle[e]
      BY <3>1 DEF TreeInv
    <3>5. ASSUME NEW e \in Clients \ {d}, handle[e] \in {p, NoFile}
          PROVE  conn'[e].flag = conn[e].flag
      <4>1. conn'[e].flag = (conn[e].flag \/ (e # d /\ handle[e] = r.path)
                             \/ (e = d /\ \E f \in Clients \ {d} : handle[f] = r.path))
        BY <1>7, <2>1, CreateStep
      <4>2. handle[e] # r.path /\ conn[e].flag \in BOOLEAN
        BY <3>2, <3>5, HandlerFields
      <4> QED BY <3>5, <4>1, <4>2
    <3> QED BY <3>2, <3>3, <3>4, <3>5
  <2>2. CASE Reply(d, 403)
    <3>1. SameTree
      BY <1>7, <2>2, RefusedCreate
    <3> QED BY <1>3, <1>4, <1>5, <2>2, <3>1 DEF SameFlags, Spared
  <2> QED BY <2>1, <2>2
<1>8. CASE WriteBody(d)
  <2>1. PICK content :
           tree' = IF handle[d] = NoFile THEN tree ELSE [tree EXCEPT ![handle[d]] = content]
    BY <1>8, WriteTree
  <2>2. handle' = [handle EXCEPT ![d] = NoFile] /\ Reply(d, 201)
    BY <1>8 DEF WriteBody
  <2>3. p \in DOMAIN tree => p \in DOMAIN tree' /\ tree'[p] = tree[p]
    BY <2>1
  <2>4. handle'[d] = NoFile /\ \A e \in Clients \ {d} : handle'[e] = handle[e]
    BY <2>2 DEF TreeInv
  <2>5. Spared
    BY <1>1, <2>3, <2>4 DEF Spared
  <2> QED BY <1>3, <1>4, <2>2, <2>5 DEF SameFlags, Spared
<1>9. CASE WriteFails(d)
  <2>1. handle' = [handle EXCEPT ![d] = NoFile] /\ Reply(d, 500) /\ UNCHANGED tree
    BY <1>9 DEF WriteFails
  <2>2. handle'[d] = NoFile /\ \A e \in Clients \ {d} : handle'[e] = handle[e]
    BY <2>1 DEF TreeInv
  <2>3. Spared
    BY <1>1, <2>1, <2>2 DEF Spared
  <2> QED BY <1>3, <1>4, <2>1, <2>3 DEF SameFlags, Spared
<1>10. CASE MakeCollection(d)
  <2>1. /\ conn[d].pc = "mkcol" /\ (Reply(d, 201) \/ Reply(d, 409))
        /\ SameTree \/ (SetTree(Placed(tree, r.path, Dir)) /\ CanMake(tree, r.path))
    BY <1>10 DEF MakeCollection
  <2>2. SameFlags
    BY <1>3, <1>4, <2>1
  <2>3. p \in DOMAIN tree /\ CanMake(tree, r.path) =>
           p \in DOMAIN Placed(tree, r.path, Dir) /\ Placed(tree, r.path, Dir)[p] = tree[p]
    BY DEF CanMake, Placed
  <2>4. Spared
    BY <1>5, <2>1, <2>3, SetTreeSpares DEF Spared
  <2> QED BY <2>2, <2>4 DEF SameFlags, Spared
<1>11. CASE Unlink(d)
  <2>1. /\ conn[d].pc = "unlink" /\ (Reply(d, 204) \/ Reply(d, 500))
        /\ SameTree \/ SetTree(Without(tree, {r.path}))
    BY <1>11 DEF Unlink
  <2>2. r.op = "DELETE" /\ r.path \in Path
    BY <1>1, <2>1, PathsAreShort DEF Dispatched
  <2>3. r.path # p
    BY <1>1, <1>2, <2>2 DEF Spares, Changing, Related
  <2>4. p \in DOMAIN tree =>
           p \in DOMAIN Without(tree, {r.path}) /\ Without(tree, {r.path})[p] = tree[p]
    BY <2>3 DEF Without, Restrict
  <2>5. Spared
    BY <1>5, <2>1, <2>4, SetTreeSpares DEF Spared
  <2> QED BY <1>3, <1>4, <2>1, <2>5 DEF SameFlags, Spared
<1>12. CASE RemoveNext(d)
  <2>1. SameFlags /\ conn[d].pc \in Removing
    BY <1>12, RemoveStep DEF SameFlags
  <2>2. PICK x \in Under(tree, Target(r)) :
           Children(tree, x) = {} /\ SetTree(Without(tree, {x}))
    BY <1>12, RemoveStep
  <2>3. ~Related(Target(r), p)
    <3>1. \/ r.op = "DELETE" /\ r.path \in Path
          \/ r.op \in {"COPY", "MOVE"} /\ r.path \in Path /\ r.dest \in Path
      BY <1>1, <2>1, PathsAreShort DEF Dispatched, Removing
    <3> QED BY <1>1, <3>1 DEF Spares, Changing, Target
  <2>4. x # p
    BY <2>2, <2>3 DEF Under, Related
  <2>5. p \in DOMAIN tree => p \in DOMAIN Without(tree, {x}) /\ Without(tree, {x})[p] = tree[p]
    BY <2>4 DEF Without, Restrict
  <2>6. Spared
    BY <2>2, <2>5, SetTreeSpares DEF Spared
  <2> QED BY <2>1, <2>6 DEF SameFlags, Spared
<1>13. CASE CopyEnds(d) \/ ListEnds(d)
  <2>1. SameTree /\ (Reply(d, 500) \/ Reply(d, 204) \/ Reply(d, 201) \/ Reply(d, 200) \/ Reply(d, 207))
    BY <1>13 DEF CopyEnds, ListEnds
  <2> QED BY <1>3, <1>4, <1>5, <2>1 DEF SameFlags, Spared
<1>14. CASE Decide(d) \/ ListSelf(d) \/ ListNext(d) \/ SearchNext(d) \/ ListPanics(d)
  <2>1. SameTree /\ SameFlags
    BY <1>14, DecideStep, ListSelfStep, ListNextStep, SearchStep, ListPanicsStep DEF SameFlags
  <2> QED BY <1>5, <2>1 DEF SameFlags, Spared
<1>15. CASE Rename(d)
  <2>1. conn[d].pc = "rename" /\ (Reply(d, 201) \/ Reply(d, 500))
    BY <1>15 DEF Rename
  <2>2. SameFlags
    BY <1>3, <1>4, <2>1
  <2>3. CASE SameTree
    BY <1>5, <2>2, <2>3 DEF SameFlags, Spared
  <2>4. CASE ~Reply(d, 500)
    <3>1. /\ r.path \in Path /\ r.dest \in Path /\ r.op = "MOVE"
          /\ tree' = Moved(tree, r.path, r.dest)
          /\ \A e \in Clients : \/ handle'[e] = NoFile
                                \/ IsPrefix(r.dest, handle'[e])
                                \/ handle'[e] = handle[e]
          /\ \A e \in Clients : ~IsPrefix(r.path, handle[e]) /\ ~IsPrefix(r.dest, handle[e]) =>
                handle'[e] = handle[e]
      BY <1>15, <2>4, RenameTree
    <3>2. ~IsPrefix(r.path, p) /\ ~IsPrefix(r.dest, p)
      BY <1>1, <3>1 DEF Spares, Changing, Related
    <3>5. CanRename(tree, r.path, r.dest)
      BY <1>15, <2>4 DEF Rename
    <3>3. p \in DOMAIN tree => p \in DOMAIN tree' /\ tree'[p] = tree[p]
      BY <3>1, <3>2, <3>5, MovedTree DEF TreeInv
    <3>4. Spared
      BY <1>1, <3>1, <3>2, <3>3 DEF Spared
    <3> QED BY <2>2, <3>4 DEF SameFlags, Spared
  <2> QED BY <1>15, <2>3, <2>4, RefusedRename
<1>16. CASE CopyNext(d) \/ CopyFails(d)
  <2>1. /\ SameFlags /\ conn[d].pc = "copy"
        /\ \/ SameTree
           \/ \E new : Grown(tree, new, r.dest) /\ Becomes(new)
    BY <1>16, CopyStep, CopyFailsStep DEF SameFlags, SetTree
  <2>2. ~IsPrefix(r.dest, p)
    <3>1. r.op = "COPY" /\ r.path \in Path /\ r.dest \in Path
      BY <1>1, <2>1, PathsAreShort DEF Dispatched
    <3> QED BY <1>1, <3>1 DEF Spares, Changing, Related
  <2>3. ASSUME NEW new, Grown(tree, new, r.dest), Becomes(new) PROVE Spared
    <3>1. p \in DOMAIN tree => p \in DOMAIN new /\ new[p] = tree[p]
      BY <2>2, <2>3 DEF Grown
    <3> QED BY <2>3, <3>1, BecomesSpares DEF Spared
  <2> QED BY <1>5, <2>1, <2>3 DEF SameFlags, Spared
<1>17. CASE RemoveFails(d)
  <2>1. UNCHANGED <<tree, handle>> /\ Reply(d, 500)
    BY <1>17 DEF RemoveFails
  <2>2. Spared
    BY <2>1 DEF Spared
  <2> QED BY <1>3, <1>4, <2>1, <2>2 DEF SameFlags, Spared
<1>18. CASE ListSkips(d)
  <2>1. SameFlags /\ \E lost : Skipped(d, lost)
    BY <1>18, ListSkipsStep DEF SameFlags
  <2>2. Spared
    BY <2>1 DEF Skipped, Spared
  <2> QED BY <2>1, <2>2 DEF SameFlags, Spared
<1> QED BY <1>6, <1>7, <1>8, <1>9, <1>10, <1>11, <1>12, <1>13, <1>14, <1>15, <1>16, <1>17, <1>18
        DEF Handle

\* A handler answers or goes on: it does not become another request.
LEMMA UntouchedBefore ==
    ASSUME Inv, NEW e \in Clients, Handle(e) \/ Disconnect(e) \/ BodyEnds(e) \/ ClientLeaves(e),
           NEW c \in Clients, NEW p, Untouched(c, p)'
    PROVE  /\ Untouched(c, p) /\ conn'[c].req = conn[c].req
           /\ (conn'[c].pc = "idle" <=> conn[c].pc = "idle")
           /\ e # c => Spares(conn[e].req, p)
<1>1. Only(e) /\ conn'[e].req = conn[e].req
  BY HandleTree, LeaveConn DEF Inv
<1>2. conn[e].pc # "idle"
  BY HandledInFlight DEF InFlight
<1>3. conn'[e].pc # "idle"
  <2>1. CASE Handle(e)
    <3>1. Dispatched(e)' /\ conn'[e].req # NoRequest
      <4>1. ConnInv'
        BY <2>1, HandleConn DEF Inv
      <4>2. conn[e].req \in Requests[e]
        BY <1>2 DEF Inv, ConnInv, Dispatched
      <4> QED BY <1>1, <4>1, <4>2, RequestTyped DEF ConnInv
    <3> QED BY <3>1 DEF Dispatched
  <2>2. CASE Disconnect(e) \/ BodyEnds(e) \/ ClientLeaves(e)
    <3>1. conn'[e].pc \in {"away", "orphan", "done"}
      BY <2>2, LeaveConn DEF Inv
    <3> QED BY <3>1
  <2> QED BY <2>1, <2>2
<1>4. \A d \in Clients : /\ conn'[d].req = conn[d].req
                         /\ (conn'[d].pc = "idle" <=> conn[d].pc = "idle")
  BY <1>1, <1>2, <1>3 DEF Only
<1>5. \A d \in Clients \ {c} : conn'[d].pc = "idle" \/ Spares(conn'[d].req, p)
  BY DEF Untouched, Spares
<1> QED BY <1>1, <1>2, <1>4, <1>5 DEF Untouched

\* The steps of an upload's own handler.
LEMMA UploadStep ==
    ASSUME Inv, NEW c \in Clients, Handle(c), conn[c].req.op = "PUT"
    PROVE  /\ conn[c].req.path \in Path
           /\ \A d \in Clients \ {c} : handle'[d] \in {handle[d], NoFile}
           /\ \/ /\ conn[c].pc \in {"parent", "parents"}
                 /\ \/ conn'[c].pc \in {"parents", "create"} /\ conn'[c].flag = conn[c].flag
                    \/ conn'[c].pc = "done" /\ conn'[c].status = 500
              \/ /\ conn[c].pc = "create"
                 /\ \/ conn'[c].pc = "done" /\ conn'[c].status = 403
                    \/ /\ conn'[c].pc = "write" /\ tree' = Placed(tree, conn[c].req.path, Partial)
                       /\ handle'[c] = conn[c].req.path
                       /\ conn'[c].flag = (conn[c].flag
                            \/ \E e \in Clients \ {c} : handle[e] = conn[c].req.path)
              \/ /\ conn[c].pc = "write" /\ conn'[c].pc = "done"
                 /\ \/ conn'[c].status = 500
                    \/ \E content \in Content :
                          /\ content = conn[c].req.body \/ (Torn(c) /\ handle[c] # NoFile)
                          /\ tree' = IF handle[c] = NoFile THEN tree
                                     ELSE [tree EXCEPT ![handle[c]] = content]
<1> USE DEF Inv
<1> DEFINE r == conn[c].req
<1>1. Dispatched(c)
  BY DEF ConnInv
<1>2. conn[c].pc \in {"parent", "parents", "create", "write"}
  <2>1. conn[c].pc \in PCs \ ({"idle", "sending"} \cup Over)
    BY HandledInFlight, HandlerFields DEF InFlight
  <2> QED BY <1>1, <2>1 DEF PCs, Waiting, Removing, Dispatched
<1>3. r.path \in Path
  BY <1>1, <1>2 DEF Dispatched
<1>4. 201 \in Nat /\ 403 \in Nat /\ 500 \in Nat
  OBVIOUS
<1>5. CASE conn[c].pc \in {"parent", "parents"}
  <2>1. EnsureParent(c) \/ MakeParents(c)
    BY <1>5, ZenonT(60) DEF Handle, EnsureParent, Create, WriteBody, WriteFails, MakeCollection, Unlink,
                RemoveNext, RemoveFails, Removing, Decide, Rename, CopyNext, CopyFails, CopyEnds,
                ListSelf, ListNext, SearchNext, ListSkips, ListPanics, ListEnds, MakeParents
  <2>2. SameTree \/ \E new : SetTree(new)
    BY <2>1, EnsureParentStep, MakeParentsStep
  <2>3. \A d \in Clients \ {c} : handle'[d] \in {handle[d], NoFile}
    BY <2>2 DEF SameTree, SetTree, Becomes
  <2>4. \/ conn'[c].pc \in {"parents", "create"} /\ conn'[c].flag = conn[c].flag
        \/ conn'[c].pc = "done" /\ conn'[c].status = 500
    BY <2>1, EnsureParentStep, MakeParentsStep
  <2> QED BY <1>3, <1>5, <2>3, <2>4, SMTT(40)
<1>6. CASE conn[c].pc = "create"
  <2>1. Create(c)
    BY <1>6 DEF Handle, EnsureParent, Create, WriteBody, WriteFails, MakeCollection, Unlink,
                RemoveNext, RemoveFails, Removing, Decide, Rename, CopyNext, CopyFails, CopyEnds,
                ListSelf, ListNext, SearchNext, ListSkips, ListPanics, ListEnds, MakeParents
  <2>2. CASE ~Reply(c, 403)
    <3>1. /\ tree' = Placed(tree, r.path, Partial) /\ handle' = [handle EXCEPT ![c] = r.path]
      BY <2>1, <2>2, CreateTree
    <3>2. handle'[c] = r.path /\ \A d \in Clients \ {c} : handle'[d] = handle[d]
      BY <3>1 DEF TreeInv
    <3>3. /\ conn'[c].pc = "write"
          /\ conn'[c].flag = (conn[c].flag \/ \E e \in Clients \ {c} : handle[e] = r.path)
      BY <2>1, <2>2, CreateStep
    <3> QED BY <1>3, <1>6, <3>1, <3>2, <3>3
  <2>3. CASE Reply(c, 403)
    <3>1. SameTree
      BY <2>1, <2>3, RefusedCreate
    <3>2. conn'[c].pc = "done" /\ conn'[c].status = 403
      BY <1>4, <1>6, <2>3, ReplyStep
    <3> QED BY <1>3, <1>6, <3>1, <3>2 DEF SameTree
  <2> QED BY <2>2, <2>3, Zenon
<1>7. CASE conn[c].pc = "write"
  <2>1. WriteBody(c) \/ WriteFails(c)
    BY <1>7 DEF Handle, EnsureParent, Create, WriteBody, WriteFails, MakeCollection, Unlink,
                RemoveNext, RemoveFails, Removing, Decide, Rename, CopyNext, CopyFails, CopyEnds,
                ListSelf, ListNext, SearchNext, ListSkips, ListPanics, ListEnds, MakeParents
  <2>2. handle' = [handle EXCEPT ![c] = NoFile]
    BY <2>1 DEF WriteBody, WriteFails
  <2>3. \A d \in Clients \ {c} : handle'[d] = handle[d]
    BY <2>2 DEF TreeInv
  <2>4. CASE WriteBody(c)
    <3>1. Reply(c, 201)
      BY <2>4 DEF WriteBody
    <3>2. conn'[c].pc = "done"
      BY <1>4, <1>7, <3>1, ReplyStep
    <3> QED BY <1>3, <1>7, <2>3, <2>4, <3>2, WriteTree
  <2>5. CASE WriteFails(c)
    <3>1. Reply(c, 500)
      BY <2>5 DEF WriteFails
    <3>2. conn'[c].pc = "done" /\ conn'[c].status = 500
      BY <1>4, <1>7, <3>1, ReplyStep
    <3> QED BY <1>3, <1>7, <2>3, <3>2
  <2> QED BY <2>1, <2>4, <2>5
<1> QED BY <1>2, <1>5, <1>6, <1>7

LEMMA HandleInvStep ==
    ASSUME Inv, HandleInv, [ZipRun]_zipVars
    PROVE  HandleInv'
<1>1. CASE UNCHANGED <<conn, handle>>
  BY <1>1 DEF HandleInv, Untouched, Spares, Path
<1>2. ASSUME NEW e \in Clients, NEW c \in Clients, NEW p \in Path, Untouched(c, p)',
             conn'[c].pc = "idle" \/ (conn'[c].req.op = "PUT" /\ conn'[c].req.path = p),
             Handle(e) \/ Disconnect(e) \/ BodyEnds(e) \/ ClientLeaves(e)
      PROVE  \A d \in Clients \ {c} : handle'[d] # p
  <2>1. /\ Untouched(c, p) /\ conn'[c].req = conn[c].req
        /\ (conn'[c].pc = "idle" <=> conn[c].pc = "idle")
        /\ e # c => Spares(conn[e].req, p)
    BY <1>2, UntouchedBefore
  <2>2. \A d \in Clients \ {c} : handle[d] # p
    BY <1>2, <2>1 DEF HandleInv
  <2>3. NoFile # p
    BY ValueAssumption DEF Path
  <2>4. CASE Handle(e) /\ e # c
    BY <2>1, <2>2, <2>4, SparingStep
  <2>5. CASE Handle(e) /\ e = c
    <3>1. conn[c].req.op = "PUT"
      BY <1>2, <2>1, <2>5, HandledInFlight DEF InFlight
    <3>2. \A d \in Clients \ {c} : handle'[d] \in {handle[d], NoFile}
      BY <2>5, <3>1, UploadStep
    <3> QED BY <2>2, <2>3, <3>2
  <2>6. CASE Disconnect(e) \/ BodyEnds(e) \/ ClientLeaves(e)
    <3>1. \A d \in Clients : handle'[d] = handle[d] \/ handle'[d] = NoFile
      BY <2>6, LeaveTree DEF Inv
    <3> QED BY <2>2, <2>3, <3>1
  <2> QED BY <1>2, <2>4, <2>5, <2>6
<1>3. ASSUME NEW e \in Clients, NEW r \in Requests[e], Receive(e, r) PROVE HandleInv'
  <2>1. handle' = handle /\ Only(e) /\ conn[e].pc = "idle"
    BY <1>3, ReceiveStep, ReceiveTree DEF Inv, Receive
  <2>2. SUFFICES ASSUME NEW c \in Clients, NEW p \in Path, Untouched(c, p)',
               conn'[c].pc = "idle" \/ (conn'[c].req.op = "PUT" /\ conn'[c].req.path = p)
               PROVE  \A d \in Clients \ {c} : handle[d] # p
    BY <2>1 DEF HandleInv, Path
  <2>3. \A d \in Clients \ {c} : conn'[d].pc = "idle" \/ Spares(conn'[d].req, p)
    BY <2>2 DEF Untouched, Spares
  <2>4. \A d \in Clients : conn[d].pc = "idle" \/ (conn'[d].pc = conn[d].pc /\ conn'[d].req = conn[d].req)
    BY <2>1 DEF Only
  <2>5. Untouched(c, p)
    BY <2>3, <2>4 DEF Untouched
  <2> QED BY <2>2, <2>4, <2>5 DEF HandleInv
<1>4. CASE \E e \in Clients : Handle(e) \/ Disconnect(e) \/ BodyEnds(e) \/ ClientLeaves(e)
  BY <1>2, <1>4 DEF HandleInv, Path
<1>5. UNCHANGED vars \/ (\E e \in Clients : ZipSkips(e)) => UNCHANGED <<conn, handle>>
  BY ZipSkipsTree DEF vars
<1> QED BY <1>1, <1>3, <1>4, <1>5, StepIsOfAClient

LEMMA FileInvStep ==
    ASSUME Inv, HandleInv, FileInv, [ZipRun]_zipVars
    PROVE  FileInv'
<1>1. CASE UNCHANGED <<conn, handle, tree>>
  BY <1>1 DEF FileInv, Untouched, Spares, Path
<1> DEFINE Kept(c) ==
      LET r == conn[c].req IN
        conn[c].pc # "idle" /\ r.op = "PUT" /\ Untouched(c, r.path) =>
          /\ conn[c].pc \in {"parent", "parents", "create"} => ~conn[c].flag
          /\ conn[c].pc = "write" => /\ handle[c] = r.path /\ ~conn[c].flag
                                     /\ r.path \in DOMAIN tree /\ tree[r.path] = Partial
          /\ conn[c].pc = "done" /\ conn[c].status = 201 =>
                r.path \in Path /\ r.path \in DOMAIN tree /\ tree[r.path] = r.body
<1>2. /\ FileInv <=> \A c \in Clients : Kept(c)
      /\ FileInv' <=> \A c \in Clients : Kept(c)'
  BY DEF FileInv, Untouched, Spares, Path
<1>3. ASSUME NEW e \in Clients, NEW c \in Clients,
             Handle(e) \/ Disconnect(e) \/ BodyEnds(e) \/ ClientLeaves(e)
      PROVE  Kept(c)'
  <2> DEFINE r == conn[c].req
  <2>1. SUFFICES ASSUME conn'[c].pc # "idle", conn'[c].req.op = "PUT",
                        Untouched(c, conn[c].req.path)', conn'[c].req = conn[c].req
                 PROVE  Kept(c)'
    <3>1. conn'[c].req = conn[c].req
      BY <1>3, HandleTree, LeaveConn DEF Inv, Only
    <3> QED BY <2>1, <3>1 DEF Untouched, Spares
  <2>2. /\ Untouched(c, r.path) /\ conn[c].pc # "idle" /\ r.op = "PUT"
        /\ e # c => Spares(conn[e].req, r.path)
    BY <1>3, <2>1, UntouchedBefore
  <2>3. Kept(c)
    BY <1>2
  <2>4. CASE Handle(e) /\ e = c
    <3>1. r.path \in Path /\ \A d \in Clients \ {c} : handle[d] # r.path
      BY <2>2, <2>4, UploadStep DEF HandleInv
    <3>2. NoFile # r.path
      BY <3>1, ValueAssumption DEF Path
    <3>3. CASE conn[c].pc \in {"parent", "parents"}
      BY <2>1, <2>2, <2>3, <2>4, <3>3, UploadStep
    <3>4. CASE conn[c].pc = "create"
      <4>1. CASE conn'[c].pc = "done" /\ conn'[c].status = 403
        BY <4>1
      <4>2. CASE /\ conn'[c].pc = "write" /\ tree' = Placed(tree, r.path, Partial)
                 /\ handle'[c] = r.path
                 /\ conn'[c].flag = (conn[c].flag \/ \E d \in Clients \ {c} : handle[d] = r.path)
        <5>1. ~conn'[c].flag
          BY <2>2, <2>3, <3>1, <3>4, <4>2
        <5>2. r.path \in DOMAIN tree' /\ tree'[r.path] = Partial
          BY <4>2 DEF Placed
        <5> QED BY <2>1, <4>2, <5>1, <5>2
      <4> QED BY <2>2, <2>4, <3>4, <4>1, <4>2, UploadStep
    <3>5. CASE conn[c].pc = "write"
      <4>1. conn'[c].pc = "done" /\ handle[c] = r.path /\ ~Torn(c) /\ r.path \in DOMAIN tree
        BY <2>2, <2>3, <2>4, <3>5, UploadStep DEF Torn
      <4>2. CASE conn'[c].status = 500
        BY <4>1, <4>2
      <4>3. CASE \E content \in Content :
                    /\ content = r.body \/ (Torn(c) /\ handle[c] # NoFile)
                    /\ tree' = IF handle[c] = NoFile THEN tree
                               ELSE [tree EXCEPT ![handle[c]] = content]
        <5>1. tree' = [tree EXCEPT ![r.path] = r.body]
          BY <3>2, <4>1, <4>3
        <5>2. r.path \in DOMAIN tree' /\ tree'[r.path] = r.body
          BY <4>1, <5>1
        <5> QED BY <2>1, <3>1, <4>1, <5>2
      <4> QED BY <2>2, <2>4, <3>5, <4>2, <4>3, UploadStep
    <3> QED BY <2>2, <2>4, <3>3, <3>4, <3>5, UploadStep
  <2>5. CASE Handle(e) /\ e # c
    <3>1. conn'[c].pc = conn[c].pc /\ conn'[c].status = conn[c].status
      BY <2>5, HandleTree DEF Inv, Only
    <3>2. CASE r.path \in Path
      <4>1. handle[e] # r.path
        BY <2>2, <2>5, <3>2 DEF HandleInv
      <4>2. /\ r.path \in DOMAIN tree => r.path \in DOMAIN tree' /\ tree'[r.path] = tree[r.path]
            /\ handle[c] = r.path /\ r.path \in DOMAIN tree => handle'[c] = r.path
            /\ handle[c] \in {r.path, NoFile} => conn'[c].flag = conn[c].flag
        BY <2>2, <2>5, <3>2, <4>1, SparingStep
      <4>3. conn[c].pc # "write" => handle[c] = NoFile
        BY DEF Inv, TreeInv
      <4>4. conn[c].pc \in {"parent", "parents", "create"} => ~conn'[c].flag
        BY <2>2, <2>3, <4>2, <4>3
      <4>5. conn[c].pc = "write" => /\ handle'[c] = r.path /\ ~conn'[c].flag
                                    /\ r.path \in DOMAIN tree' /\ tree'[r.path] = Partial
        BY <2>2, <2>3, <4>2
      <4> QED BY <2>1, <2>2, <2>3, <3>1, <3>2, <4>2, <4>4, <4>5
    <3>3. CASE r.path \notin Path
      <4>1. conn[c].pc \notin {"parent", "parents", "create", "write"}
        BY <3>3 DEF Inv, ConnInv, Dispatched
      <4> QED BY <2>1, <2>2, <2>3, <3>1, <3>3, <4>1
    <3> QED BY <3>2, <3>3
  <2>6. CASE Disconnect(e) \/ BodyEnds(e) \/ ClientLeaves(e)
    <3>1. /\ tree' = tree /\ \A d \in Clients \ {e} : handle'[d] = handle[d]
          /\ \A d \in Clients \ {e} : conn'[d] = conn[d]
          /\ conn'[e].pc \in {"away", "orphan"} \/ (conn'[e].pc = "done" /\ conn'[e].status = 200)
      BY <2>6, LeaveTree, LeaveConn DEF Inv
    <3>2. CASE e = c
      BY <3>1, <3>2
    <3>3. CASE e # c
      BY <2>1, <2>2, <2>3, <3>1, <3>3
    <3> QED BY <3>2, <3>3
  <2> QED BY <1>3, <2>4, <2>5, <2>6
<1>4. ASSUME NEW e \in Clients, NEW q \in Requests[e], Receive(e, q), NEW c \in Clients
      PROVE  Kept(c)'
  <2>1. /\ tree' = tree /\ handle' = handle /\ Only(e) /\ conn[e].pc = "idle"
        /\ conn'[e].req = q /\ ~conn'[e].flag
        /\ \A d \in Clients \ {e} : conn'[d] = conn[d]
    BY <1>4, ReceiveStep, ReceiveTree DEF Inv, Receive
  <2>2. CASE e = c
    <3>1. q.op = "PUT" => \/ conn'[c].pc = "done" /\ conn'[c].status = 403
                          \/ conn'[c].pc = "parent"
      <4>1. q.op = "PUT" => Answer(q) \in {403, Later} /\ FirstStep(q) = "parent"
        BY DEF Answer, FirstStep
      <4>2. \/ Answer(q) # Later /\ conn'[e].pc = "done" /\ conn'[e].status = Answer(q)
            \/ Answer(q) = Later /\ conn'[e].pc = FirstStep(q)
        BY <1>4, ReceiveStep DEF Inv
      <4> QED BY <2>2, <4>1, <4>2
    <3> QED BY <2>1, <2>2, <3>1
  <2>3. CASE e # c
    <3>1. conn'[c] = conn[c]
      BY <2>1, <2>3
    <3>2. Untouched(c, conn[c].req.path)' => Untouched(c, conn[c].req.path)
      <4>1. ASSUME Untouched(c, conn[c].req.path)'
            PROVE  \A d \in Clients \ {c} : conn'[d].pc = "idle" \/ Spares(conn'[d].req, conn[c].req.path)
        BY <3>1, <4>1 DEF Untouched, Spares
      <4> QED BY <2>1, <4>1 DEF Untouched
    <3>3. Kept(c)
      BY <1>2
    <3> QED BY <2>1, <3>1, <3>2, <3>3
  <2> QED BY <2>2, <2>3
<1> HIDE DEF Kept
<1>5. CASE \E e \in Clients : \/ Handle(e) \/ Disconnect(e) \/ BodyEnds(e) \/ ClientLeaves(e)
                              \/ \E q \in Requests[e] : Receive(e, q)
  BY <1>2, <1>3, <1>4, <1>5
<1>6. UNCHANGED vars \/ (\E e \in Clients : ZipSkips(e)) => UNCHANGED <<conn, handle, tree>>
  BY ZipSkipsTree DEF vars
<1> QED BY <1>1, <1>5, <1>6, StepIsOfAClient

\* AckedUploadIsThere, for every set of clients and requests, whatever ran
\* meanwhile: PUT of webdav_server.rs answers 201 after the body is in the file,
\* and only a request for the path, or one around it, can take it away.
THEOREM AckedUploadIsThereAlways == ZipSpec => []AckedUploadIsThere
<1>1. ZipInit => Inv /\ HandleInv /\ FileInv
  <2> SUFFICES ASSUME ZipInit PROVE Inv /\ HandleInv /\ FileInv
    OBVIOUS
  <2>1. \A c \in Clients : conn[c].pc = "idle" /\ handle[c] = NoFile
    BY DEF ZipInit, Init, Idle
  <2>2. \A p \in Path : NoFile # p
    BY ValueAssumption DEF Path
  <2> QED BY <2>1, <2>2, InitInv DEF ZipInit, HandleInv, FileInv
<1>2. Inv /\ HandleInv /\ FileInv /\ [ZipRun]_zipVars => (Inv /\ HandleInv /\ FileInv)'
  BY NextInv, HandleInvStep, FileInvStep
<1>3. FileInv => AckedUploadIsThere
  <2> SUFFICES ASSUME FileInv, NEW c \in Clients, Answered(c, "PUT", {201}),
                      \A d \in Clients \ {c} :
                         conn[d].pc = "idle" \/ Spares(conn[d].req, conn[c].req.path)
               PROVE  conn[c].req.path \in DOMAIN tree
                      /\ tree[conn[c].req.path] = conn[c].req.body
    BY DEF AckedUploadIsThere
  <2> QED BY DEF FileInv, Answered, Untouched
<1> QED BY <1>1, <1>2, <1>3, PTL DEF ZipSpec

-----------------------------------------------------------------------------
(* One of two that race is told that it won.                               *)

\* While only MKCOL requests run, what one of them made is there; while only
\* moves of one source run, the source that one of them moved is gone.
MadeInv ==
    \A c \in Clients :
        (/\ Answered(c, "MKCOL", {201})
         /\ \A d \in Clients : conn[d].pc = "idle" \/ conn[d].req.op = "MKCOL")
        => conn[c].req.path \in DOMAIN tree
GoneInv ==
    \A c \in Clients :
        (/\ Answered(c, "MOVE", {201})
         /\ \A d \in Clients : \/ conn[d].pc = "idle"
                               \/ conn[d].req.op = "MOVE" /\ conn[d].req.path = conn[c].req.path)
        => conn[c].req.path \notin DOMAIN tree

\* create_dir fails on what is there: the directory a 201 tells of was not.
LEMMA MakerStep ==
    ASSUME Inv, NEW c \in Clients, Handle(c), conn[c].req.op = "MKCOL"
    PROVE  /\ DOMAIN tree \subseteq DOMAIN tree'
           /\ conn'[c].pc = "done" /\ conn'[c].status = 201 =>
                 conn[c].req.path \in DOMAIN tree' \ DOMAIN tree
<1> USE DEF Inv
<1>1. conn[c].pc = "mkcol"
  <2>1. Dispatched(c) /\ conn[c].pc \in PCs \ ({"idle", "sending"} \cup Over)
    BY HandledInFlight, HandlerFields DEF InFlight, ConnInv
  <2> QED BY <2>1 DEF PCs, Over, Waiting, Removing, Dispatched
<1>2. MakeCollection(c)
  BY <1>1 DEF Handle, EnsureParent, Create, WriteBody, WriteFails, MakeCollection, Unlink,
              RemoveNext, RemoveFails, Removing, Decide, Rename, CopyNext, CopyFails, CopyEnds,
              ListSelf, ListNext, SearchNext, ListSkips, ListPanics, ListEnds, MakeParents
<1>3. CASE SetTree(Placed(tree, conn[c].req.path, Dir)) /\ CanMake(tree, conn[c].req.path)
  <2>1. tree' = Placed(tree, conn[c].req.path, Dir)
    BY <1>3 DEF SetTree, Becomes
  <2> QED BY <1>3, <2>1 DEF CanMake, Placed
<1>4. CASE SameTree /\ Reply(c, 409)
  <2>1. 409 \in Nat
    OBVIOUS
  <2>2. conn'[c].status = 409
    BY <1>4, <2>1, ReplyStep
  <2> QED BY <1>4, <2>2 DEF SameTree
<1> QED BY <1>2, <1>3, <1>4 DEF MakeCollection

\* rename fails without its source, and leaves nothing there: the destination
\* is not above the source, for it is empty when it is replaced.
LEMMA MoverStep ==
    ASSUME Inv, NEW c \in Clients, Handle(c), conn[c].req.op = "MOVE"
    PROVE  /\ conn[c].req.path \notin DOMAIN tree => conn[c].req.path \notin DOMAIN tree'
           /\ conn'[c].pc = "done" /\ conn'[c].status = 201 =>
                 conn[c].req.path \in DOMAIN tree \ DOMAIN tree'
<1> USE DEF Inv
<1> DEFINE p == conn[c].req.path
           q == conn[c].req.dest
<1>1. /\ Dispatched(c) /\ conn[c].pc \in {"decide", "rename"} \cup Removing
      /\ p \in Path /\ q \in Path
  <2>1. Dispatched(c) /\ conn[c].pc \in PCs \ ({"idle", "sending"} \cup Over)
    BY HandledInFlight, HandlerFields DEF InFlight, ConnInv
  <2>2. conn[c].pc \in {"decide", "rename"} \cup Removing
    BY <2>1 DEF PCs, Over, Waiting, Removing, Dispatched
  <2> QED BY <2>1, <2>2, PathsAreShort DEF Dispatched
<1>2. CASE conn[c].pc = "decide"
  <2>1. Decide(c)
    BY <1>2 DEF Handle, EnsureParent, Create, WriteBody, WriteFails, MakeCollection, Unlink,
                RemoveNext, RemoveFails, Removing, Decide, Rename, CopyNext, CopyFails, CopyEnds,
                ListSelf, ListNext, SearchNext, ListSkips, ListPanics, ListEnds, MakeParents
  <2>2. /\ SameTree
        /\ \/ conn'[c].pc = "done" /\ conn'[c].status \in 400 .. 499
           \/ conn'[c].pc \in {"remove", "rename", "copy"}
    BY <2>1, DecideStep
  <2> QED BY <2>2, SMTT(40) DEF SameTree
<1>3. CASE conn[c].pc \in Removing
  <2>1. RemoveNext(c) \/ RemoveFails(c)
    BY <1>3, ZenonT(60) DEF Handle, EnsureParent, Create, WriteBody, WriteFails, MakeCollection, Unlink,
                RemoveNext, RemoveFails, Removing, Decide, Rename, CopyNext, CopyFails, CopyEnds,
                ListSelf, ListNext, SearchNext, ListSkips, ListPanics, ListEnds, MakeParents
  <2>2. CASE RemoveNext(c)
    <3>1. PICK x : SetTree(Without(tree, {x}))
      BY <2>2, RemoveStep
    <3>2. DOMAIN tree' \subseteq DOMAIN tree
      BY <3>1 DEF SetTree, Becomes, Without, Restrict
    <3>3. ~(conn'[c].pc = "done" /\ conn'[c].status = 201)
      BY <1>3, <2>2, RemoveStep DEF Removing
    <3> QED BY <3>2, <3>3
  <2>3. CASE RemoveFails(c)
    <3>1. tree' = tree /\ Reply(c, 500) /\ 500 \in Nat
      BY <2>3 DEF RemoveFails
    <3>2. conn'[c].status = 500
      BY <3>1, ReplyStep
    <3> QED BY <3>1, <3>2
  <2> QED BY <2>1, <2>2, <2>3, SMTT(40)
<1>4. CASE conn[c].pc = "rename"
  <2>1. Rename(c)
    BY <1>4 DEF Handle, EnsureParent, Create, WriteBody, WriteFails, MakeCollection, Unlink,
                RemoveNext, RemoveFails, Removing, Decide, Rename, CopyNext, CopyFails, CopyEnds,
                ListSelf, ListNext, SearchNext, ListSkips, ListPanics, ListEnds, MakeParents
  <2>2. CASE Reply(c, 500)
    <3>1. SameTree /\ Reply(c, 500) /\ 500 \in Nat
      BY <2>1, <2>2, RefusedRename
    <3>2. conn'[c].status = 500
      BY <3>1, ReplyStep
    <3> QED BY <3>1, <3>2 DEF SameTree
  <2>3. CASE ~Reply(c, 500)
    <3>5. CanRename(tree, p, q)
      BY <2>1, <2>3 DEF Rename
    <3>1. /\ Sound(tree) /\ p # q /\ tree' = Moved(tree, p, q) /\ p \in DOMAIN tree
      BY <2>1, <2>3, <3>5, RenameTree DEF TreeInv, CanRename
    <3>2. ~IsPrefix(q, p)
      <4>1. SUFFICES ASSUME IsPrefix(q, p) PROVE FALSE
        OBVIOUS
      <4>2. IsDir(tree, q) /\ Children(tree, q) # {}
        BY <1>1, <3>1, <4>1, EntryTowards
      <4> QED BY <3>5, <4>2 DEF CanRename, IsDir
    <3>3. IsPrefix(p, p)
      BY <1>1, PrefixReflexive
    <3>4. p \notin DOMAIN tree'
      <4>1. \A y \in DOMAIN tree' : \/ IsPrefix(q, y)
                                    \/ ~IsPrefix(p, y)
        BY <1>1, <3>1, <3>5, MovedTree
      <4> QED BY <3>2, <3>3, <4>1
    <3> QED BY <3>1, <3>4
  <2> QED BY <2>2, <2>3, SMTT(30)
<1> QED BY <1>1, <1>2, <1>3, <1>4

LEMMA WinnerStep ==
    ASSUME Inv, MadeInv, GoneInv, OneWinner, [ZipRun]_zipVars
    PROVE  MadeInv' /\ GoneInv' /\ OneWinner'
<1> DEFINE Won(c, op) == conn[c].pc = "done" /\ conn[c].req.op = op /\ conn[c].status = 201
           Made(c) == Won(c, "MKCOL") /\ (\A d \in Clients : conn[d].pc = "idle" \/ conn[d].req.op = "MKCOL")
                        => conn[c].req.path \in DOMAIN tree
           Gone(c) == Won(c, "MOVE") /\ (\A d \in Clients : conn[d].pc = "idle"
                               \/ (conn[d].req.op = "MOVE" /\ conn[d].req.path = conn[c].req.path))
                        => conn[c].req.path \notin DOMAIN tree
           One(c, d, op) == (/\ c # d /\ Won(c, op) /\ Won(d, op)
                             /\ \A e \in Clients \ {c, d} : conn[e].pc = "idle")
                            => conn[c].req.path # conn[d].req.path
<1>1. /\ \A c \in Clients : Made(c) /\ Gone(c)
      /\ \A c, d \in Clients : One(c, d, "MKCOL") /\ One(c, d, "MOVE")
  BY DEF MadeInv, GoneInv, OneWinner, Answered
<1>2. SUFFICES /\ \A c \in Clients : Made(c)' /\ Gone(c)'
               /\ \A c, d \in Clients : One(c, d, "MKCOL")' /\ One(c, d, "MOVE")'
  BY DEF MadeInv, GoneInv, OneWinner, Answered
<1>3. CASE UNCHANGED <<conn, tree>>
  BY <1>1, <1>3
\* Whoever wins now does so by its own step, and the others stay as they are.
<1>4. ASSUME NEW e \in Clients, Only(e), conn'[e].req = conn[e].req, conn[e].pc # "idle",
             conn'[e].pc # "idle",
             ~(conn[e].pc = "done"),
             conn[e].req.op = "MKCOL" => DOMAIN tree \subseteq DOMAIN tree',
             conn[e].req.op = "MOVE" /\ conn[e].req.path \notin DOMAIN tree =>
                conn[e].req.path \notin DOMAIN tree',
             Won(e, "MKCOL")' => conn[e].req.path \in DOMAIN tree' \ DOMAIN tree,
             Won(e, "MOVE")' => conn[e].req.path \in DOMAIN tree \ DOMAIN tree'
      PROVE  /\ \A c \in Clients : Made(c)' /\ Gone(c)'
             /\ \A c, d \in Clients : One(c, d, "MKCOL")' /\ One(c, d, "MOVE")'
  <2>1. \A d \in Clients : /\ conn'[d].req = conn[d].req
                           /\ (conn'[d].pc = "idle" <=> conn[d].pc = "idle")
    BY <1>4 DEF Only
  <2>2. \A d \in Clients \ {e} : conn'[d].pc = conn[d].pc /\ conn'[d].status = conn[d].status
    BY <1>4 DEF Only
  <2>3. ASSUME NEW c \in Clients PROVE Made(c)'
    BY <1>1, <1>4, <2>1, <2>2
  <2>4. ASSUME NEW c \in Clients PROVE Gone(c)'
    BY <1>1, <1>4, <2>1, <2>2
  <2>5. ASSUME NEW c \in Clients, NEW d \in Clients, c # d, c # e, conn'[c].req.path = conn'[d].req.path,
               \A f \in Clients \ {c, d} : conn'[f].pc = "idle"
        PROVE  /\ ~(Won(c, "MKCOL")' /\ Won(d, "MKCOL")')
               /\ ~(Won(c, "MOVE")' /\ Won(d, "MOVE")')
    <3>1. d = e
      BY <1>4, <2>1, <2>5
    <3> QED BY <1>1, <1>4, <2>1, <2>2, <2>5, <3>1
  <2>6. ASSUME NEW c \in Clients, NEW d \in Clients, c # d, conn'[c].req.path = conn'[d].req.path,
               \A f \in Clients \ {c, d} : conn'[f].pc = "idle"
        PROVE  /\ ~(Won(c, "MKCOL")' /\ Won(d, "MKCOL")')
               /\ ~(Won(c, "MOVE")' /\ Won(d, "MOVE")')
    BY <2>5, <2>6
  <2> QED BY <2>3, <2>4, <2>6
<1>5. ASSUME NEW e \in Clients, Handle(e)
      PROVE  /\ \A c \in Clients : Made(c)' /\ Gone(c)'
             /\ \A c, d \in Clients : One(c, d, "MKCOL")' /\ One(c, d, "MOVE")'
  <2>1. Only(e) /\ conn'[e].req = conn[e].req
    BY <1>5, HandleTree DEF Inv
  <2>2. conn[e].pc # "idle" /\ conn[e].pc # "done"
    BY <1>5, HandledInFlight DEF InFlight, Over
  <2>3. conn'[e].pc # "idle"
    <3>1. Dispatched(e)' /\ conn[e].req \in Requests[e]
      BY <1>5, <2>2, HandleConn DEF Inv, ConnInv, Dispatched
    <3> QED BY <2>1, <3>1, RequestTyped DEF Dispatched
  <2> HIDE DEF Made, Gone, One
  <2> QED BY <1>4, <1>5, <2>1, <2>2, <2>3, MakerStep, MoverStep
<1>6. ASSUME NEW e \in Clients, Disconnect(e) \/ BodyEnds(e) \/ ClientLeaves(e)
      PROVE  /\ \A c \in Clients : Made(c)' /\ Gone(c)'
             /\ \A c, d \in Clients : One(c, d, "MKCOL")' /\ One(c, d, "MOVE")'
  <2>1. /\ Only(e) /\ conn'[e].req = conn[e].req /\ tree' = tree
        /\ conn'[e].pc \in {"away", "orphan"} \/ (conn'[e].pc = "done" /\ conn'[e].status = 200)
    BY <1>6, LeaveConn, LeaveTree DEF Inv
  <2>2. conn[e].pc # "idle" /\ conn[e].pc # "done"
    BY <1>6, HandledInFlight DEF InFlight, Over
  <2>3. ~Won(e, "MKCOL")' /\ ~Won(e, "MOVE")' /\ conn'[e].pc # "idle"
    BY <2>1
  <2> HIDE DEF Won
  <2>4. DOMAIN tree' = DOMAIN tree
    BY <2>1
  <2> HIDE DEF Made, Gone, One
  <2> QED BY <1>4, <2>1, <2>2, <2>3, <2>4
<1>7. ASSUME NEW e \in Clients, NEW r \in Requests[e], Receive(e, r)
      PROVE  /\ \A c \in Clients : Made(c)' /\ Gone(c)'
             /\ \A c, d \in Clients : One(c, d, "MKCOL")' /\ One(c, d, "MOVE")'
  <2>1. Only(e) /\ conn[e].pc = "idle" /\ tree' = tree
    BY <1>7, ReceiveStep, ReceiveTree DEF Inv, Receive
  <2>2. ~Won(e, "MKCOL")' /\ ~Won(e, "MOVE")'
    <3>1. r.op \in {"MKCOL", "MOVE"} => Answer(r) # 201
      BY DEF Answer, Later
    <3>2. /\ conn'[e].req = r
          /\ \/ Answer(r) # Later /\ conn'[e].pc = "done" /\ conn'[e].status = Answer(r)
             \/ Answer(r) = Later /\ conn'[e].pc = FirstStep(r)
      BY <1>7, ReceiveStep DEF Inv
    <3>3. Answer(r) = Later => FirstStep(r) # "done"
      BY Accepted DEF Inv, TreeInv, Over
    <3> QED BY <3>1, <3>2, <3>3
  <2>3. \A c \in Clients \ {e} : /\ conn'[c].pc = conn[c].pc /\ conn'[c].req = conn[c].req
                                 /\ conn'[c].status = conn[c].status
    BY <2>1 DEF Only
  <2>4. ASSUME NEW c \in Clients PROVE Made(c)' /\ Gone(c)'
    BY <1>1, <2>1, <2>2, <2>3
  <2>5. ASSUME NEW c \in Clients, NEW d \in Clients PROVE One(c, d, "MKCOL")' /\ One(c, d, "MOVE")'
    BY <1>1, <2>1, <2>2, <2>3
  <2> QED BY <2>4, <2>5
<1>8. UNCHANGED vars \/ (\E e \in Clients : ZipSkips(e)) => UNCHANGED <<conn, tree>>
  BY ZipSkipsTree DEF vars
<1> QED BY <1>3, <1>5, <1>6, <1>7, <1>8, StepIsOfAClient

\* OneWinner, for every set of clients and requests: create_dir and rename
\* decide, not what handle and handle_copymove looked up before.
THEOREM OneWinnerAlways == ZipSpec => []OneWinner
<1>1. ZipInit => Inv /\ MadeInv /\ GoneInv /\ OneWinner
  <2> SUFFICES ASSUME ZipInit PROVE Inv /\ MadeInv /\ GoneInv /\ OneWinner
    OBVIOUS
  <2>1. \A c \in Clients : conn[c].pc = "idle"
    BY DEF ZipInit, Init, Idle
  <2> QED BY <2>1, InitInv DEF ZipInit, MadeInv, GoneInv, OneWinner, Answered
<1>2. Inv /\ MadeInv /\ GoneInv /\ OneWinner /\ [ZipRun]_zipVars =>
         (Inv /\ MadeInv /\ GoneInv /\ OneWinner)'
  BY NextInv, WinnerStep
<1> QED BY <1>1, <1>2, PTL DEF ZipSpec

-----------------------------------------------------------------------------
(* What stayed is listed.                                                  *)

\* The entries of the directory a PROPFIND lists, and the paths a search looks
\* for, that nobody touched since the request came.
Entries(c) == {q \in stayed[c] : q # << >> /\ Front(q) = conn[c].req.path}
Wanted(c) == {q \in stayed[c] : IsStrictPrefix(conn[c].req.path, q)
                                /\ Last(q) \in conn[c].req.match}

\* Each of them is listed or still to come: the entry itself for a PROPFIND, a
\* directory above it for the walk of a search.
Listing(c) ==
    LET r == conn[c].req
        pc == conn[c].pc
    IN  /\ pc = "self" /\ conn[c].todo = {} => Entries(c) = {}
        /\ pc = "list" /\ r.op = "PROPFIND" /\ ~DepthZero(r) =>
              Entries(c) \subseteq conn[c].todo \cup conn[c].listed
        /\ pc = "list" /\ r.op = "SEARCH" =>
              \A q \in Wanted(c) : q \in conn[c].listed \/ \E p \in conn[c].todo : IsPrefix(p, q)
        /\ Answered(c, "PROPFIND", {207}) /\ ~DepthZero(r) => Entries(c) \subseteq conn[c].listed
        /\ Answered(c, "SEARCH", {200}) => Wanted(c) \subseteq conn[c].listed
ListingInv == \A c \in Clients : Listing(c)

LEMMA CalmListing ==
    ASSUME NEW c \in Clients, Listing(c), stayed'[c] \subseteq stayed[c],
           conn'[c].pc = conn[c].pc, conn'[c].req = conn[c].req, conn'[c].status = conn[c].status,
           conn'[c].todo = conn[c].todo, conn'[c].listed = conn[c].listed
    PROVE  Listing(c)'
<1>1. Entries(c)' \subseteq Entries(c) /\ Wanted(c)' \subseteq Wanted(c)
  BY DEF Entries, Wanted
<1> QED BY <1>1 DEF Listing, Answered, DepthZero

LEMMA ListingHandled ==
    ASSUME Inv, ListingInv, NEW c \in Clients, Handle(c)
    PROVE  Listing(c)'
<1> USE DEF Inv
<1> DEFINE r == conn[c].req
<1>1. /\ Dispatched(c) /\ Dispatched(c)' /\ conn'[c].req = r
      /\ Listing(c) /\ stayed'[c] \subseteq stayed[c]
  BY HandleTree, HandleConn DEF ConnInv, Calm, ListingInv
<1>2. Entries(c)' \subseteq Entries(c) /\ Wanted(c)' \subseteq Wanted(c)
  BY <1>1 DEF Entries, Wanted
<1>3. conn[c].pc \in PCs \ ({"idle", "sending"} \cup Over)
  BY HandledInFlight, HandlerFields DEF InFlight
<1>4. 200 \in Nat /\ 207 \in Nat
  OBVIOUS
<1>5. stayed[c] \subseteq DOMAIN tree /\ Sound(tree) /\ DOMAIN tree \subseteq Path
  BY UnderSound DEF TreeInv
<1>6. CASE r.op \notin {"PROPFIND", "SEARCH"}
  <2>1. conn'[c].pc \notin {"self", "list"}
    BY <1>1, <1>6 DEF Dispatched
  <2> QED BY <1>1, <1>6, <2>1 DEF Listing, Answered
<1>7. CASE conn[c].pc = "self"
  <2>1. ListSelf(c) \/ ListPanics(c)
    BY <1>7 DEF Handle, EnsureParent, Create, WriteBody, WriteFails, MakeCollection, Unlink,
                RemoveNext, RemoveFails, Removing, Decide, Rename, CopyNext, CopyFails, CopyEnds,
                ListSelf, ListNext, SearchNext, ListSkips, ListPanics, ListEnds, MakeParents
  <2>2. CASE conn'[c].pc = "done" /\ conn'[c].status \in {403, 500}
    BY <2>2 DEF Listing, Answered
  <2>3. CASE /\ conn'[c].pc = "list" /\ conn'[c].listed = {r.path}
             /\ conn'[c].todo = IF conn[c].todo # {} /\ ~DepthZero(r)
                                  THEN Children(tree, r.path) ELSE {}
    <3>1. r.op = "PROPFIND"
      BY <1>1, <1>7 DEF Dispatched
    <3>2. conn[c].todo = {} => Entries(c) = {}
      BY <1>1, <1>7 DEF Listing
    <3>3. Entries(c) \subseteq Children(tree, r.path)
      BY <1>5 DEF Entries, Children
    <3>4. ~DepthZero(r) => Entries(c)' \subseteq conn'[c].todo
      BY <1>2, <2>3, <3>2, <3>3
    <3> QED BY <1>1, <2>3, <3>1, <3>4 DEF Listing, Answered, DepthZero
  <2>4. CASE ListPanics(c)
    <3>1. conn'[c].pc = "cut"
      BY <2>4, ListPanicsStep
    <3> QED BY <3>1 DEF Listing, Answered
  <2> QED BY <2>1, <2>2, <2>3, <2>4, ListSelfStep
<1>8. CASE conn[c].pc = "list"
  <2>1. ListNext(c) \/ SearchNext(c) \/ ListSkips(c) \/ ListPanics(c) \/ ListEnds(c)
    BY <1>8 DEF Handle, EnsureParent, Create, WriteBody, WriteFails, MakeCollection, Unlink,
                RemoveNext, RemoveFails, Removing, Decide, Rename, CopyNext, CopyFails, CopyEnds,
                ListSelf, ListNext, SearchNext, ListSkips, ListPanics, ListEnds, MakeParents
  <2>2. CASE ListNext(c)
    <3>1. PICK p \in conn[c].todo : /\ conn'[c].todo = conn[c].todo \ {p}
                                    /\ conn'[c].listed = conn[c].listed \cup ({p} \cap DOMAIN tree)
      BY <2>2, ListNextStep
    <3>2. conn'[c].pc = "list" /\ r.op = "PROPFIND"
      BY <2>2, ListNextStep
    <3>3. ~DepthZero(r) => Entries(c) \subseteq conn[c].todo \cup conn[c].listed
      BY <1>1, <1>8, <3>2 DEF Listing
    <3>4. Entries(c) \subseteq DOMAIN tree
      BY <1>5 DEF Entries
    <3>5. ~DepthZero(r) => Entries(c)' \subseteq conn'[c].todo \cup conn'[c].listed
      BY <1>2, <3>1, <3>3, <3>4
    <3> QED BY <1>1, <3>2, <3>5 DEF Listing, Answered, DepthZero
  <2>3. CASE SearchNext(c)
    <3>1. PICK p \in conn[c].todo :
             /\ conn'[c].todo = (conn[c].todo \ {p}) \cup Children(tree, p)
             /\ conn'[c].listed = conn[c].listed \cup Found(r, p)
      BY <2>3, SearchStep
    <3>2. conn'[c].pc = "list" /\ r.op = "SEARCH" /\ p \in Path
      BY <2>3, SearchStep, HandlerFields, PathsAreShort
    <3>3. ASSUME NEW q \in Wanted(c), q \notin conn'[c].listed
          PROVE  \E x \in conn'[c].todo : IsPrefix(x, q)
      <4>1. PICK x \in conn[c].todo : IsPrefix(x, q)
        BY <1>1, <1>8, <3>1, <3>2, <3>3 DEF Listing
      <4>2. q \in DOMAIN tree /\ r.path # q /\ Last(q) \in r.match
        BY <1>5, <3>3 DEF Wanted, IsStrictPrefix
      <4>3. CASE x # p
        BY <3>1, <4>1, <4>3
      <4>4. CASE x = p
        <5>1. p # q
          BY <3>1, <3>3, <4>2 DEF Found
        <5>2. \E y \in Children(tree, p) : IsPrefix(y, q)
          BY <1>5, <3>2, <4>1, <4>2, <4>4, <5>1, EntryTowards
        <5> QED BY <3>1, <5>2
      <4> QED BY <4>3, <4>4
    <3> QED BY <1>1, <1>2, <3>2, <3>3 DEF Listing, Answered
  <2>4. CASE ListEnds(c)
    <3>1. conn[c].todo = {} /\ Reply(c, IF r.op = "SEARCH" THEN 200 ELSE 207)
      BY <2>4 DEF ListEnds
    <3>2. conn'[c].pc = "done" /\ conn'[c].listed = conn[c].listed
      BY <1>4, <1>8, <3>1, ReplyStep
    <3>3. r.op = "PROPFIND" /\ ~DepthZero(r) => Entries(c)' \subseteq conn'[c].listed
      BY <1>1, <1>2, <1>8, <3>1, <3>2 DEF Listing
    <3>4. r.op = "SEARCH" => Wanted(c)' \subseteq conn'[c].listed
      BY <1>1, <1>2, <1>8, <3>1, <3>2 DEF Listing
    <3> QED BY <1>1, <3>2, <3>3, <3>4 DEF Listing, Answered, DepthZero
  <2>5. CASE ListPanics(c)
    <3>1. conn'[c].pc = "cut"
      BY <2>5, ListPanicsStep
    <3> QED BY <3>1 DEF Listing, Answered
  <2>6. CASE ListSkips(c)
    <3>1. PICK p \in conn[c].todo : \E lost \in {{p}, Under(tree, p)} :
             /\ conn'[c].todo = (conn[c].todo \ {p}) \cup
                  IF r.op = "SEARCH" THEN Children(tree, p) \ lost ELSE {}
             /\ Skipped(c, lost)
      BY <2>6, ListSkipsStep
    <3>2. PICK lost \in {{p}, Under(tree, p)} :
             /\ conn'[c].todo = (conn[c].todo \ {p}) \cup
                  IF r.op = "SEARCH" THEN Children(tree, p) \ lost ELSE {}
             /\ Skipped(c, lost)
      BY <3>1
    <3>3. /\ conn'[c].pc = "list" /\ conn[c].listed \subseteq conn'[c].listed
          /\ p \in Path /\ IsPrefix(p, p)
      BY <1>8, <2>6, <3>1, ListSkipsStep, HandlerFields, PathsAreShort, PrefixReflexive
    <3>4. stayed'[c] = stayed[c] \ lost
      BY <3>2 DEF Skipped, TreeInv
    <3>5. lost = {p} \/ lost = Under(tree, p)
      BY <3>2
    <3>6. \A q \in stayed'[c] : q \in DOMAIN tree /\ q # p /\ (IsPrefix(p, q) => lost = {p})
      BY <1>5, <3>3, <3>4, <3>5 DEF Under
    <3>7. ASSUME ~DepthZero(r), r.op = "PROPFIND"
          PROVE  Entries(c)' \subseteq conn'[c].todo \cup conn'[c].listed
      <4>1. Entries(c) \subseteq conn[c].todo \cup conn[c].listed
        BY <1>1, <1>8, <3>7 DEF Listing
      <4>2. \A q \in Entries(c)' : q # p
        BY <3>6 DEF Entries
      <4>3. conn[c].todo \ {p} \subseteq conn'[c].todo
        BY <3>2
      <4> QED BY <1>2, <3>3, <4>1, <4>2, <4>3
    <3>8. ASSUME r.op = "SEARCH", NEW q \in Wanted(c)', q \notin conn'[c].listed
          PROVE  \E x \in conn'[c].todo : IsPrefix(x, q)
      <4>1. PICK x \in conn[c].todo : IsPrefix(x, q)
        BY <1>1, <1>2, <1>8, <3>3, <3>8 DEF Listing
      <4>2. q \in DOMAIN tree /\ q # p /\ (IsPrefix(p, q) => lost = {p})
        BY <3>6, <3>8 DEF Wanted
      <4>3. CASE x # p
        BY <3>2, <4>1, <4>3
      <4>4. CASE x = p
        <5>1. PICK y \in Children(tree, p) : IsPrefix(y, q)
          BY <1>5, <3>3, <4>1, <4>2, <4>4, EntryTowards
        <5>2. y \in Path /\ y # << >> /\ Front(y) = p
          BY <1>5, <5>1 DEF Children
        <5>3. y # p
          <6>1. Len(y) \in Nat /\ Len(Front(y)) = Len(y) - 1
            BY <5>2, FrontPath, PathLength
          <6> QED BY <5>2, <6>1
        <5> QED BY <3>2, <3>8, <4>1, <4>2, <4>4, <5>1, <5>3
      <4> QED BY <4>3, <4>4
    <3> QED BY <1>1, <3>3, <3>7, <3>8 DEF Listing, Answered, DepthZero
  <2> QED BY <2>1, <2>2, <2>3, <2>4, <2>5, <2>6, SMTT(40)
<1>9. r.op \in {"PROPFIND", "SEARCH"} => conn[c].pc \in {"self", "list"}
  BY <1>1, <1>3 DEF PCs, Waiting, Removing, Dispatched
<1> QED BY <1>6, <1>7, <1>8, <1>9

LEMMA ListingReceived ==
    ASSUME Inv, NEW c \in Clients, NEW r \in Requests[c], Receive(c, r)
    PROVE  Listing(c)'
<1> USE DEF Inv
<1>1. conn'[c].req = r /\ stayed'[c] \subseteq DOMAIN tree
  BY ReceiveStep, ReceiveTree
<1>2. \/ Answer(r) # Later /\ conn'[c].pc = "done" /\ conn'[c].status = Answer(r)
      \/ /\ Answer(r) = Later /\ conn'[c].pc = FirstStep(r)
         /\ conn'[c].todo = IF r.op = "SEARCH" \/ (r.op = "PROPFIND" /\ IsDir(tree, r.path))
                              THEN {r.path} ELSE {}
  BY ReceiveStep
<1>3. Sound(tree) /\ DOMAIN tree \subseteq Path
  BY UnderSound DEF TreeInv
<1>4. CASE Answer(r) # Later
  <2>1. r.op = "PROPFIND" => Answer(r) # 207
    BY DEF Answer, Later
  <2>2. r.op = "SEARCH" /\ Answer(r) = 200 => IsFile(tree, r.path) /\ r.path # Bad
    BY DEF Answer, Later, Changing
  <2>3. r.op = "SEARCH" /\ Answer(r) = 200 => Wanted(c)' = {}
    <3>1. SUFFICES ASSUME r.op = "SEARCH", Answer(r) = 200, NEW q \in DOMAIN tree, IsPrefix(r.path, q),
                          r.path # q
                   PROVE  FALSE
      BY <1>1 DEF Wanted, IsStrictPrefix
    <3>2. r.path \in Path /\ ~IsDir(tree, r.path)
      BY <2>2, <3>1, RequestTyped DEF IsFile, IsDir
    <3> QED BY <1>3, <3>1, <3>2, EntryTowards
  <2> QED BY <1>1, <1>2, <1>4, <2>1, <2>3 DEF Listing, Answered
<1>5. CASE Answer(r) = Later
  <2>1. /\ r.op \in {"PUT", "MKCOL", "DELETE", "COPY", "MOVE", "PROPFIND", "SEARCH", "ZIP"}
        /\ FirstStep(r) \in PCs \ ({"idle"} \cup Over)
    BY <1>3, <1>5, Accepted DEF TreeInv
  <2>2. /\ FirstStep(r) = "self" => r.op = "PROPFIND"
        /\ FirstStep(r) = "list" => r.op = "SEARCH"
    BY <2>1 DEF FirstStep
  <2>3. r.op = "PROPFIND" /\ conn'[c].todo = {} => Entries(c)' = {}
    <3>1. SUFFICES ASSUME r.op = "PROPFIND", conn'[c].todo = {},
                          NEW q \in DOMAIN tree, q # << >>, Front(q) = r.path
                   PROVE  FALSE
      BY <1>1 DEF Entries
    <3>2. ~IsDir(tree, r.path)
      BY <1>2, <1>5, <3>1
    <3>3. Parent(q) = r.path
      BY <3>1 DEF Parent
    <3> QED BY <1>3, <3>1, <3>2, <3>3, NoChildren
  <2>4. r.op = "SEARCH" => \A q \in Wanted(c)' : IsPrefix(r.path, q) /\ conn'[c].todo = {r.path}
    BY <1>1, <1>2, <1>5 DEF Wanted, IsStrictPrefix
  <2> QED BY <1>1, <1>2, <1>5, <2>1, <2>2, <2>3, <2>4 DEF Listing, Answered, Over
<1> QED BY <1>4, <1>5

LEMMA ListingStep ==
    ASSUME Inv, ListingInv, [ZipRun]_zipVars
    PROVE  ListingInv'
<1>1. CASE UNCHANGED vars
  BY <1>1, CalmListing DEF ListingInv, vars
<1>2. ASSUME NEW e \in Clients, NEW c \in Clients, c # e, Only(e), stayed'[c] \subseteq stayed[c]
      PROVE  Listing(c)'
  BY <1>2, CalmListing DEF ListingInv, Only
<1>3. ASSUME NEW e \in Clients, Handle(e), NEW c \in Clients
      PROVE  Listing(c)'
  <2>1. Only(e) /\ stayed'[c] \subseteq stayed[c]
    BY <1>3, HandleTree DEF Inv, Calm
  <2> QED BY <1>2, <1>3, <2>1, ListingHandled
<1>4. ASSUME NEW e \in Clients, Disconnect(e) \/ BodyEnds(e) \/ ClientLeaves(e), NEW c \in Clients
      PROVE  Listing(c)'
  <2>1. /\ Only(e) /\ stayed' = stayed /\ conn'[e].req = conn[e].req
        /\ conn[e].pc = "sending" \/ conn'[e].pc \in {"away", "orphan"}
    BY <1>4, LeaveConn, LeaveTree DEF Inv
  <2>2. CASE conn'[e].pc \in {"away", "orphan"}
    BY <1>2, <2>1, <2>2 DEF Listing, Answered
  <2>3. CASE conn[e].pc = "sending"
    <3>1. conn[e].req.op = "ZIP" /\ conn'[e].pc \in {"away", "done"}
      BY <1>4, <2>3, LeaveConn DEF Inv, ConnInv, Dispatched
    <3> QED BY <1>2, <2>1, <3>1 DEF Listing, Answered
  <2> QED BY <2>1, <2>2, <2>3
<1>5. ASSUME NEW e \in Clients, NEW r \in Requests[e], Receive(e, r), NEW c \in Clients
      PROVE  Listing(c)'
  <2>1. Only(e) /\ (c # e => stayed'[c] = stayed[c])
    BY <1>5, ReceiveStep, ReceiveTree DEF Inv
  <2> QED BY <1>2, <1>5, <2>1, ListingReceived
<1>6. ASSUME NEW e \in Clients, ZipSkips(e), NEW c \in Clients PROVE Listing(c)'
  <2>1. UNCHANGED conn /\ stayed'[c] \subseteq stayed[c]
    BY <1>6, ZipSkipsTree DEF Calm
  <2> QED BY <2>1, CalmListing DEF ListingInv
<1> QED BY <1>1, <1>3, <1>4, <1>5, <1>6, StepIsOfAClient DEF ListingInv

\* StayedIsListed, for every directory and every number of requests that change
\* it: list_dir and the walk of the search reach each entry that stays.
THEOREM StayedIsListedAlways == ZipSpec => []StayedIsListed
<1>1. ZipInit => Inv /\ ListingInv
  <2> SUFFICES ASSUME ZipInit PROVE Inv /\ ListingInv
    OBVIOUS
  <2>1. \A c \in Clients : conn[c].pc = "idle"
    BY DEF ZipInit, Init, Idle
  <2> QED BY <2>1, InitInv DEF ZipInit, ListingInv, Listing, Answered
<1>2. Inv /\ ListingInv /\ [ZipRun]_zipVars => (Inv /\ ListingInv)'
  BY NextInv, ListingStep
<1>3. ListingInv => StayedIsListed
  BY DEF ListingInv, Listing, Entries, Wanted, StayedIsListed, Children, Answered
<1> QED BY <1>1, <1>2, <1>3, PTL DEF ZipSpec

-----------------------------------------------------------------------------
(* A zip that ends in its directory is whole.                              *)

Sent(c) == zip[c].got \o zip[c].pipe
EntryOf(q) == [path |-> q, content |-> tree[q]]
Files(c) == {q \in stayed[c] : IsFile(tree, q) /\ IsPrefix(conn[c].req.path, q)}

\* Nothing is sent twice: what is still to do is beside what was sent, what is
\* being sent and the rest of it.
OnceEach(c) ==
    LET s == Sent(c)
        z == zip[c]
        entries == {i \in 1 .. Len(s) : s[i] # Directory}
    IN  /\ \A i, j \in entries : s[i].path = s[j].path => i = j
        /\ z.task = "walk" =>
              /\ \A p \in z.todo : \A i \in entries : ~IsPrefix(p, s[i].path)
              /\ \A p, q \in z.todo : IsPrefix(p, q) => p = q
              /\ z.out \in Entry =>
                    /\ \A i \in entries : s[i].path # z.out.path
                    /\ \A p \in z.todo : ~IsPrefix(p, z.out.path)

\* Every file that nobody touched was sent, is being sent, or is below what is
\* still to do; the directory ends what is sent, when nothing is left.
AllSent(c) ==
    LET s == Sent(c)
        z == zip[c]
    IN  /\ z.task = "none" => s = << >> /\ z.out = NoPiece
        /\ conn[c].pc = "idle" => z.task = "none"
        /\ z.task = "walk" => conn[c].pc \in {"sending", "away"}
        /\ z.out = Directory /\ z.task = "walk" => z.todo = {}
        /\ conn[c].pc = "sending" /\ z.task = "walk" =>
              \A q \in Files(c) : \/ Contains(s, EntryOf(q)) \/ z.out = EntryOf(q)
                                  \/ \E p \in z.todo : IsPrefix(p, q)
        /\ \A i \in 1 .. Len(s) : s[i] = Directory =>
              /\ i = Len(s) /\ z.task = "closed"
              /\ \A q \in Files(c) : Contains(s, EntryOf(q))

ZipInv == \A c \in Clients : OnceEach(c) /\ AllSent(c)

LEMMA SentPieces ==
    ASSUME ZipTypeOK, NEW c \in Clients
    PROVE  /\ Sent(c) \in Seq(Piece) /\ Len(Sent(c)) = Len(zip[c].got) + Len(zip[c].pipe)
           /\ \A i \in 1 .. Len(Sent(c)) : Sent(c)[i] \in Piece
           /\ \A i \in 1 .. Len(zip[c].got) : Sent(c)[i] = zip[c].got[i]
           /\ zip[c].pipe = << >> => Sent(c) = zip[c].got
<1>1. zip[c].got \in Seq(Piece) /\ zip[c].pipe \in Seq(Piece)
  BY ZipFields
<1>2. /\ Sent(c) \in Seq(Piece) /\ Len(Sent(c)) = Len(zip[c].got) + Len(zip[c].pipe)
      /\ \A i \in 1 .. Len(zip[c].got) + Len(zip[c].pipe) : Sent(c)[i] =
            IF i <= Len(zip[c].got) THEN zip[c].got[i] ELSE zip[c].pipe[i - Len(zip[c].got)]
  BY <1>1, ConcatProperties DEF Sent
<1>3. Len(zip[c].got) \in Nat /\ Len(zip[c].pipe) \in Nat
  BY <1>1
<1>4. zip[c].pipe = << >> => Sent(c) = zip[c].got
  BY <1>1, ConcatEmptySeq DEF Sent
<1> HIDE DEF Sent
<1>5. \A i \in 1 .. Len(Sent(c)) : Sent(c)[i] \in Piece
  BY <1>2, ElementOfSeq
<1>6. \A i \in 1 .. Len(zip[c].got) : Sent(c)[i] = zip[c].got[i]
  <2> DEFINE m == Len(zip[c].got)
             n == Len(zip[c].pipe)
  <2>1. m \in Nat /\ n \in Nat
    BY <1>3
  <2>2. \A i \in 1 .. m + n : i <= m => Sent(c)[i] = zip[c].got[i]
    BY <1>2
  <2> HIDE DEF m, n
  <2>3. \A i \in 1 .. m : Sent(c)[i] = zip[c].got[i]
    BY <2>1, <2>2
  <2> QED BY <2>3 DEF m
<1> QED BY <1>2, <1>4, <1>5, <1>6

LEMMA ConcatAppend ==
    ASSUME NEW S, NEW g \in Seq(S), NEW p \in Seq(S), NEW x \in S
    PROVE  g \o Append(p, x) = Append(g \o p, x)
<1>1. /\ g \o p \in Seq(S) /\ Len(g \o p) = Len(g) + Len(p)
      /\ \A i \in 1 .. Len(g) + Len(p) : (g \o p)[i] = IF i <= Len(g) THEN g[i] ELSE p[i - Len(g)]
  BY ConcatProperties
<1>2. /\ Append(p, x) \in Seq(S) /\ Len(Append(p, x)) = Len(p) + 1
      /\ \A i \in 1 .. Len(p) + 1 : Append(p, x)[i] = IF i = Len(p) + 1 THEN x ELSE p[i]
  BY AppendProperties
<1>3. /\ g \o Append(p, x) \in Seq(S) /\ Len(g \o Append(p, x)) = Len(g) + Len(p) + 1
      /\ \A i \in 1 .. Len(g) + Len(p) + 1 : (g \o Append(p, x))[i] =
            IF i <= Len(g) THEN g[i] ELSE Append(p, x)[i - Len(g)]
  <2> DEFINE a == Append(p, x)
  <2>1. a \in Seq(S) /\ Len(a) = Len(p) + 1
    BY <1>2
  <2> HIDE DEF a
  <2>2. /\ g \o a \in Seq(S) /\ Len(g \o a) = Len(g) + Len(a)
        /\ \A i \in 1 .. Len(g) + Len(a) : (g \o a)[i] = IF i <= Len(g) THEN g[i] ELSE a[i - Len(g)]
    BY <2>1, ConcatProperties
  <2>3. Len(g) + (Len(p) + 1) = Len(g) + Len(p) + 1
    <3>1. Len(g) \in Nat /\ Len(p) \in Nat
      OBVIOUS
    <3> QED BY <3>1
  <2> QED BY <2>1, <2>2, <2>3 DEF a
<1>4. /\ Append(g \o p, x) \in Seq(S) /\ Len(Append(g \o p, x)) = Len(g) + Len(p) + 1
      /\ \A i \in 1 .. Len(g) + Len(p) + 1 : Append(g \o p, x)[i] =
            IF i = Len(g) + Len(p) + 1 THEN x ELSE (g \o p)[i]
  BY <1>1, AppendProperties
<1>5. \A i \in 1 .. Len(g) + Len(p) + 1 : (g \o Append(p, x))[i] = Append(g \o p, x)[i]
  <2> TAKE i \in 1 .. Len(g) + Len(p) + 1
  <2>1. Len(g) \in Nat /\ Len(p) \in Nat
    OBVIOUS
  <2>2. CASE i <= Len(g)
    BY <1>1, <1>3, <1>4, <2>1, <2>2
  <2>3. CASE i > Len(g) /\ i <= Len(g) + Len(p)
    BY <1>1, <1>2, <1>3, <1>4, <2>1, <2>3
  <2>4. CASE i = Len(g) + Len(p) + 1
    BY <1>2, <1>3, <1>4, <2>1, <2>4
  <2> QED BY <2>1, <2>2, <2>3, <2>4
<1> QED BY <1>3, <1>4, <1>5, SeqEqual

LEMMA ConcatHead ==
    ASSUME NEW S, NEW g \in Seq(S), NEW p \in Seq(S), p # << >>
    PROVE  Append(g, Head(p)) \o Tail(p) = g \o p
<1>1. Head(p) \in S /\ Tail(p) \in Seq(S) /\ Len(Tail(p)) = Len(p) - 1 /\ Len(p) \in Nat \ {0}
      /\ \A i \in 1 .. Len(Tail(p)) : Tail(p)[i] = p[i + 1]
  BY HeadTailProperties
<1>2. Head(p) = p[1]
  OBVIOUS
<1>3. /\ Append(g, Head(p)) \in Seq(S) /\ Len(Append(g, Head(p))) = Len(g) + 1
      /\ \A i \in 1 .. Len(g) + 1 : Append(g, Head(p))[i] = IF i = Len(g) + 1 THEN Head(p) ELSE g[i]
  BY <1>1, AppendProperties
<1>4. /\ g \o p \in Seq(S) /\ Len(g \o p) = Len(g) + Len(p)
      /\ \A i \in 1 .. Len(g) + Len(p) : (g \o p)[i] = IF i <= Len(g) THEN g[i] ELSE p[i - Len(g)]
  BY ConcatProperties
<1> DEFINE h == Append(g, Head(p)) \o Tail(p)
<1>5. /\ h \in Seq(S) /\ Len(h) = Len(g) + Len(p)
      /\ \A i \in 1 .. Len(g) + Len(p) : h[i] =
            IF i <= Len(g) + 1 THEN Append(g, Head(p))[i] ELSE Tail(p)[i - (Len(g) + 1)]
  BY <1>1, <1>3, ConcatProperties
<1>6. \A i \in 1 .. Len(g) + Len(p) : h[i] = (g \o p)[i]
  <2> TAKE i \in 1 .. Len(g) + Len(p)
  <2>1. Len(g) \in Nat
    OBVIOUS
  <2> HIDE DEF h
  <2>2. CASE i <= Len(g)
    BY <1>1, <1>3, <1>4, <1>5, <2>1, <2>2
  <2>3. CASE i = Len(g) + 1
    BY <1>1, <1>2, <1>3, <1>4, <1>5, <2>1, <2>3
  <2>4. CASE i > Len(g) + 1
    <3>1. h[i] = Tail(p)[i - (Len(g) + 1)] /\ (g \o p)[i] = p[i - Len(g)]
      BY <1>1, <1>4, <1>5, <2>1, <2>4
    <3>2. i - (Len(g) + 1) \in 1 .. Len(Tail(p)) /\ i - (Len(g) + 1) + 1 = i - Len(g)
      BY <1>1, <2>1, <2>4
    <3> QED BY <1>1, <3>1, <3>2
  <2> QED BY <2>1, <2>2, <2>3, <2>4
<1> HIDE DEF h
<1>7. h = g \o p
  BY <1>4, <1>5, <1>6, SeqEqual
<1> QED BY <1>7 DEF h

LEMMA ZipUntouched ==
    ASSUME NEW c \in Clients, OnceEach(c), AllSent(c), zip'[c] = zip[c],
           stayed'[c] \subseteq stayed[c],
           \A q \in stayed'[c] : q \in DOMAIN tree' /\ tree'[q] = tree[q],
           stayed[c] \subseteq DOMAIN tree,
           conn'[c].req = conn[c].req, conn'[c].pc = "idle" => conn[c].pc = "idle",
           conn'[c].pc = "sending" => conn[c].pc = "sending",
           zip[c].task = "walk" => conn'[c].pc \in {"sending", "away"}
    PROVE  OnceEach(c)' /\ AllSent(c)'
<1>1. Sent(c)' = Sent(c)
  BY DEF Sent
<1>2. Files(c)' \subseteq Files(c) /\ \A q \in Files(c)' : EntryOf(q)' = EntryOf(q)
  BY DEF Files, EntryOf, IsFile
<1>3. OnceEach(c)'
  BY <1>1 DEF OnceEach
<1>4. \A q : Contains(Sent(c), q)' <=> Contains(Sent(c), q)
  BY <1>1 DEF Contains
<1> HIDE DEF Sent, Files, EntryOf
<1>5. AllSent(c)'
  BY <1>1, <1>2 DEF AllSent, Contains
<1> QED BY <1>3, <1>5

LEMMA ZipStarted ==
    ASSUME Inv, ZipTypeOK, NEW c \in Clients, OnceEach(c), AllSent(c), ZipStart(c)
    PROVE  OnceEach(c)' /\ AllSent(c)'
<1>1. /\ zip[c].task = "none" /\ zip'[c].task = "walk" /\ zip'[c].todo = {conn[c].req.path}
      /\ zip'[c].out = zip[c].out /\ zip'[c].pipe = zip[c].pipe /\ zip'[c].got = zip[c].got
      /\ UNCHANGED vars
  BY ZipStartStep
<1>2. Sent(c) = << >> /\ zip[c].out = NoPiece
  BY <1>1 DEF AllSent
<1>3. Sent(c)' = << >>
  BY <1>1, <1>2 DEF Sent
<1>4. zip'[c].out = NoPiece /\ NoPiece \notin Entry /\ NoPiece # Directory
  BY <1>1, <1>2, PieceAssumption DEF Piece
<1>5. conn'[c].pc \in {"sending", "away"} /\ conn'[c] = conn[c]
  BY <1>1 DEF ZipStart, vars
<1>6. OnceEach(c)'
  BY <1>1, <1>3, <1>4 DEF OnceEach
<1>7. \A q \in Files(c)' : IsPrefix(conn[c].req.path, q)
  BY <1>5 DEF Files
<1> HIDE DEF Sent, Files, EntryOf
<1>8. AllSent(c)'
  BY <1>1, <1>3, <1>4, <1>5, <1>7 DEF AllSent
<1> QED BY <1>6, <1>8

LEMMA ZipWalked ==
    ASSUME Inv, ZipTypeOK, NEW c \in Clients, OnceEach(c), AllSent(c), ZipNext(c)
    PROVE  OnceEach(c)' /\ AllSent(c)'
<1> DEFINE z == zip[c]
           s == Sent(c)
           entries == {i \in 1 .. Len(s) : s[i] # Directory}
<1>1. /\ z.task = "walk" /\ z.out = NoPiece /\ z.todo \subseteq Path
      /\ zip'[c].pipe = z.pipe /\ zip'[c].got = z.got /\ UNCHANGED vars
      /\ \/ zip'[c].task = "failed"
         \/ /\ zip'[c].task = "walk"
            /\ \E p \in z.todo :
                 \/ /\ ~IsFile(tree, p) /\ zip'[c].out = NoPiece
                    /\ zip'[c].todo = (z.todo \ {p}) \cup Children(tree, p)
                 \/ /\ IsFile(tree, p) /\ zip'[c].todo = z.todo \ {p}
                    /\ zip'[c].out = EntryOf(p)
  BY ZipNextStep, ZipFields, PathsAreShort DEF EntryOf
<1>2. Sent(c)' = s /\ \A q : EntryOf(q)' = EntryOf(q)
  BY <1>1 DEF Sent, EntryOf, vars
<1>3. Files(c)' = Files(c) /\ conn' = conn
  BY <1>1 DEF Files, vars
<1>4. NoPiece \notin Entry /\ NoPiece # Directory /\ Directory \notin Entry
  BY PieceAssumption DEF Piece
<1>5. \A i \in 1 .. Len(s) : s[i] # Directory
  BY <1>1 DEF AllSent
<1>6. \A i \in 1 .. Len(s) : s[i] \in Entry
  BY <1>5, SentPieces DEF Piece
<1>7. Sound(tree) /\ DOMAIN tree \subseteq Path
  BY UnderSound DEF Inv, TreeInv
<1>8. \A i \in 1 .. Len(s) : s[i].path \in Path
  BY <1>6, PathsAreShort DEF Entry
<1>9. /\ \A i, j \in 1 .. Len(s) : s[i].path = s[j].path => i = j
      /\ \A p \in z.todo : \A i \in 1 .. Len(s) : ~IsPrefix(p, s[i].path)
      /\ \A p, q \in z.todo : IsPrefix(p, q) => p = q
  BY <1>1, <1>5 DEF OnceEach
<1>10. CASE zip'[c].task = "failed"
  <2>1. OnceEach(c)'
    BY <1>2, <1>9, <1>10 DEF OnceEach
  <2> HIDE DEF s
  <2>2. AllSent(c)'
    BY <1>1, <1>2, <1>3, <1>5, <1>10 DEF AllSent
  <2> QED BY <2>1, <2>2
<1>11. ASSUME NEW p \in z.todo, zip'[c].task = "walk", ~IsFile(tree, p), zip'[c].out = NoPiece,
              zip'[c].todo = (z.todo \ {p}) \cup Children(tree, p)
       PROVE  OnceEach(c)' /\ AllSent(c)'
  <2>1. p \in Path
    BY <1>1, <1>11
  <2>2. \A x \in Children(tree, p) : /\ x \in DOMAIN tree /\ x \in Path /\ x # << >> /\ Front(x) = p
                                     /\ IsPrefix(p, x) /\ x # p /\ Len(x) = Len(p) + 1
    <3> TAKE x \in Children(tree, p)
    <3>1. x \in DOMAIN tree /\ x \in Path /\ x # << >> /\ Front(x) = p
      BY <1>7 DEF Children
    <3>2. IsPrefix(p, x) /\ Len(p) = Len(x) - 1 /\ Len(x) \in Nat
      BY <3>1, FrontPath
    <3> QED BY <3>1, <3>2
  <2>3. \A x \in zip'[c].todo : x \in z.todo \ {p} \/ x \in Children(tree, p)
    BY <1>11
  <2>4. \A x \in zip'[c].todo : \A i \in 1 .. Len(s) : ~IsPrefix(x, s[i].path)
    <3>1. ASSUME NEW x \in Children(tree, p), NEW i \in 1 .. Len(s), IsPrefix(x, s[i].path)
          PROVE  FALSE
      <4>1. IsPrefix(p, s[i].path)
        BY <1>8, <2>1, <2>2, <3>1, PrefixTransitive
      <4> QED BY <1>9, <1>11, <4>1
    <3> QED BY <1>9, <2>3, <3>1
  <2>5. \A x, y \in zip'[c].todo : IsPrefix(x, y) => x = y
    <3>1. ASSUME NEW x \in Children(tree, p), NEW y \in z.todo \ {p}
          PROVE  ~IsPrefix(x, y) /\ ~IsPrefix(y, x)
      <4>1. y \in Path /\ ~IsPrefix(p, y) /\ ~IsPrefix(y, p)
        BY <1>1, <1>9, <1>11, <3>1
      <4>2. ~IsPrefix(x, y)
        BY <2>1, <2>2, <4>1, PrefixTransitive
      <4>3. ~IsPrefix(y, x)
        <5>1. SUFFICES ASSUME IsPrefix(y, x) PROVE FALSE
          OBVIOUS
        <5>2. y = x
          BY <2>2, <4>1, <5>1, PrefixOfFront
        <5> QED BY <2>2, <4>1, <5>2
      <4> QED BY <4>2, <4>3
    <3>2. ASSUME NEW x \in Children(tree, p), NEW y \in Children(tree, p), IsPrefix(x, y)
          PROVE  x = y
      BY <2>1, <2>2, <3>2, PrefixAntisymmetric, PathLength
    <3> QED BY <1>9, <2>3, <3>1, <3>2
  <2>6. OnceEach(c)'
    BY <1>2, <1>4, <1>9, <1>11, <2>4, <2>5 DEF OnceEach
  <2>7. ASSUME NEW q \in Files(c), IsPrefix(p, q)
        PROVE  \E x \in zip'[c].todo : IsPrefix(x, q)
    <3>1. q \in DOMAIN tree /\ p # q
      BY <1>11, <2>7 DEF Files, IsFile
    <3>2. PICK x \in Children(tree, p) : IsPrefix(x, q)
      BY <1>7, <2>1, <2>7, <3>1, EntryTowards
    <3> QED BY <1>11, <3>2
  <2>8. conn[c].pc = "sending" => \A q \in Files(c) : \/ Contains(s, EntryOf(q))
                                                      \/ \E x \in zip'[c].todo : IsPrefix(x, q)
    <3>1. \A q \in Files(c) : EntryOf(q) # NoPiece
      <4>1. \A q \in Files(c) : EntryOf(q) \in Entry
        BY <1>7 DEF Files, EntryOf, Entry, IsFile, Sound
      <4> QED BY <1>4, <4>1
    <3>2. conn[c].pc = "sending" => \A q \in Files(c) : \/ Contains(s, EntryOf(q))
                                                        \/ \E x \in z.todo : IsPrefix(x, q)
      BY <1>1, <3>1 DEF AllSent
    <3>3. \A x \in z.todo : x = p \/ x \in zip'[c].todo
      BY <1>11
    <3> QED BY <2>7, <3>2, <3>3
  <2> HIDE DEF s
  <2>9. zip[c].task = "walk" => conn[c].pc \in {"sending", "away"}
    BY DEF AllSent
  <2>10. AllSent(c)'
    <3> HIDE DEF z
    <3> QED BY <1>1, <1>2, <1>3, <1>4, <1>5, <1>11, <2>8, <2>9 DEF AllSent, z
  <2> QED BY <2>6, <2>10
<1>12. ASSUME NEW p \in z.todo, zip'[c].task = "walk", IsFile(tree, p),
              zip'[c].todo = z.todo \ {p}, zip'[c].out = EntryOf(p)
       PROVE  OnceEach(c)' /\ AllSent(c)'
  <2>1. p \in Path /\ EntryOf(p).path = p /\ IsPrefix(p, p)
    BY <1>1, <1>12, PrefixReflexive DEF EntryOf
  <2>2. \A i \in 1 .. Len(s) : s[i].path # p
    BY <1>9, <1>12, <2>1
  <2>3. \A x \in zip'[c].todo : x \in z.todo /\ x # p /\ ~IsPrefix(x, p)
    BY <1>9, <1>12
  <2>4. OnceEach(c)'
    BY <1>2, <1>9, <1>12, <2>1, <2>2, <2>3 DEF OnceEach
  <2>5. ASSUME NEW q \in Files(c), IsPrefix(p, q) PROVE q = p
    <3>1. q \in DOMAIN tree
      BY <2>5 DEF Files, IsFile
    <3> QED BY <1>7, <1>12, <2>1, <2>5, <3>1, EntryTowards DEF IsFile, IsDir
  <2>6. conn[c].pc = "sending" => \A q \in Files(c) : \/ Contains(s, EntryOf(q)) \/ EntryOf(p) = EntryOf(q)
                                                      \/ \E x \in zip'[c].todo : IsPrefix(x, q)
    <3>1. \A q \in Files(c) : EntryOf(q) # NoPiece
      <4>1. \A q \in Files(c) : EntryOf(q) \in Entry
        BY <1>7 DEF Files, EntryOf, Entry, IsFile, Sound
      <4> QED BY <1>4, <4>1
    <3>2. conn[c].pc = "sending" => \A q \in Files(c) : \/ Contains(s, EntryOf(q))
                                                        \/ \E x \in z.todo : IsPrefix(x, q)
      BY <1>1, <3>1 DEF AllSent
    <3>3. \A x \in z.todo : x = p \/ x \in zip'[c].todo
      BY <1>12
    <3> QED BY <2>5, <3>2, <3>3
  <2>7. EntryOf(p) # Directory
    <3>1. EntryOf(p) \in Entry
      BY <1>7, <1>12 DEF EntryOf, Entry, IsFile, Sound
    <3> QED BY <1>4, <3>1
  <2> HIDE DEF s
  <2>8. zip[c].task = "walk" => conn[c].pc \in {"sending", "away"}
    BY DEF AllSent
  <2>9. AllSent(c)'
    <3> HIDE DEF z
    <3> QED BY <1>1, <1>2, <1>3, <1>4, <1>5, <1>12, <2>6, <2>7, <2>8 DEF AllSent, z
  <2> QED BY <2>4, <2>9
<1> HIDE DEF s
<1> QED BY <1>1, <1>10, <1>11, <1>12

LEMMA ZipWalkSkips ==
    ASSUME Inv, ZipTypeOK, NEW c \in Clients, OnceEach(c), AllSent(c), ZipSkips(c)
    PROVE  OnceEach(c)' /\ AllSent(c)'
<1> DEFINE z == zip[c]
           s == Sent(c)
<1>1. /\ z.task = "walk" /\ z.out = NoPiece /\ z.todo \subseteq Path
      /\ zip'[c].task = "walk" /\ zip'[c].out = NoPiece
      /\ zip'[c].pipe = z.pipe /\ zip'[c].got = z.got /\ UNCHANGED <<conn, tree>>
  BY ZipSkipsStep, ZipFields, PathsAreShort
<1>2. PICK p \in z.todo : \E lost \in {{p}, Under(tree, p)} :
         /\ zip'[c].todo = (z.todo \ {p}) \cup (Children(tree, p) \ lost)
         /\ stayed' = [stayed EXCEPT ![c] = @ \ lost]
  BY ZipSkipsStep
<1>3. PICK lost \in {{p}, Under(tree, p)} :
         /\ zip'[c].todo = (z.todo \ {p}) \cup (Children(tree, p) \ lost)
         /\ stayed' = [stayed EXCEPT ![c] = @ \ lost]
  BY <1>2
<1>4. stayed'[c] = stayed[c] \ lost /\ stayed[c] \subseteq DOMAIN tree
  BY <1>3 DEF Inv, TreeInv
<1>5. Sent(c)' = s /\ \A q : EntryOf(q)' = EntryOf(q)
  BY <1>1 DEF Sent, EntryOf
<1>6. \A q \in Files(c)' : q \in Files(c) /\ q \in stayed'[c] /\ q \in DOMAIN tree
  BY <1>1, <1>4 DEF Files, IsFile
<1>7. NoPiece \notin Entry /\ NoPiece # Directory /\ Directory \notin Entry
  BY PieceAssumption DEF Piece
<1>8. \A i \in 1 .. Len(s) : s[i] # Directory
  BY <1>1 DEF AllSent
<1>9. \A i \in 1 .. Len(s) : s[i].path \in Path
  BY <1>8, SentPieces, PathsAreShort DEF Piece, Entry
<1>10. Sound(tree) /\ DOMAIN tree \subseteq Path
  BY UnderSound DEF Inv, TreeInv
<1>11. /\ \A i, j \in 1 .. Len(s) : s[i].path = s[j].path => i = j
       /\ \A x \in z.todo : \A i \in 1 .. Len(s) : ~IsPrefix(x, s[i].path)
       /\ \A x, y \in z.todo : IsPrefix(x, y) => x = y
  BY <1>1, <1>8 DEF OnceEach
<1>12. p \in Path
  BY <1>1
<1>13. \A x \in Children(tree, p) : /\ x \in DOMAIN tree /\ x \in Path /\ x # << >> /\ Front(x) = p
                                    /\ IsPrefix(p, x) /\ x # p /\ Len(x) = Len(p) + 1
  <2> TAKE x \in Children(tree, p)
  <2>1. x \in DOMAIN tree /\ x \in Path /\ x # << >> /\ Front(x) = p
    BY <1>10 DEF Children
  <2>2. IsPrefix(p, x) /\ Len(p) = Len(x) - 1 /\ Len(x) \in Nat
    BY <2>1, FrontPath
  <2> QED BY <2>1, <2>2
<1>14. \A x \in zip'[c].todo : x \in z.todo \ {p} \/ x \in Children(tree, p)
  BY <1>3
<1>15. \A x \in zip'[c].todo : \A i \in 1 .. Len(s) : ~IsPrefix(x, s[i].path)
  <2>1. ASSUME NEW x \in Children(tree, p), NEW i \in 1 .. Len(s), IsPrefix(x, s[i].path)
        PROVE  FALSE
    <3>1. IsPrefix(p, s[i].path)
      BY <1>9, <1>12, <1>13, <2>1, PrefixTransitive
    <3> QED BY <1>11, <3>1
  <2> QED BY <1>11, <1>14, <2>1
<1>16. \A x, y \in zip'[c].todo : IsPrefix(x, y) => x = y
  <2>1. ASSUME NEW x \in Children(tree, p), NEW y \in z.todo \ {p}
        PROVE  ~IsPrefix(x, y) /\ ~IsPrefix(y, x)
    <3>1. y \in Path /\ ~IsPrefix(p, y) /\ ~IsPrefix(y, p)
      BY <1>1, <1>11
    <3>2. ~IsPrefix(x, y)
      BY <1>12, <1>13, <3>1, PrefixTransitive
    <3>3. ~IsPrefix(y, x)
      <4>1. SUFFICES ASSUME IsPrefix(y, x) PROVE FALSE
        OBVIOUS
      <4>2. y = x
        BY <1>13, <3>1, <4>1, PrefixOfFront
      <4> QED BY <1>13, <3>1, <4>2
    <3> QED BY <3>2, <3>3
  <2>2. ASSUME NEW x \in Children(tree, p), NEW y \in Children(tree, p), IsPrefix(x, y)
        PROVE  x = y
    BY <1>12, <1>13, <2>2, PrefixAntisymmetric, PathLength
  <2> QED BY <1>11, <1>14, <2>1, <2>2
<1>17. OnceEach(c)'
  BY <1>1, <1>5, <1>7, <1>11, <1>15, <1>16 DEF OnceEach
<1>18. ASSUME NEW q \in Files(c)', IsPrefix(p, q)
       PROVE  \E x \in zip'[c].todo : IsPrefix(x, q)
  <2>1. q \in DOMAIN tree /\ q \notin lost
    BY <1>4, <1>6
  <2>2. lost = {p} /\ q # p
    <3>1. q \in Under(tree, p)
      BY <1>18, <2>1 DEF Under
    <3> QED BY <2>1, <3>1
  <2>3. PICK x \in Children(tree, p) : IsPrefix(x, q)
    BY <1>10, <1>12, <1>18, <2>1, <2>2, EntryTowards
  <2>4. x \in zip'[c].todo
    BY <1>3, <1>13, <2>2
  <2> QED BY <2>3, <2>4
<1>19. conn[c].pc = "sending" => \A q \in Files(c)' : \/ Contains(s, EntryOf(q))
                                                       \/ \E x \in zip'[c].todo : IsPrefix(x, q)
  <2>1. \A q \in Files(c) : EntryOf(q) # NoPiece
    <3>1. \A q \in Files(c) : EntryOf(q) \in Entry
      BY <1>10 DEF Files, EntryOf, Entry, IsFile, Sound
    <3> QED BY <1>7, <3>1
  <2>2. conn[c].pc = "sending" => \A q \in Files(c) : \/ Contains(s, EntryOf(q))
                                                       \/ \E x \in z.todo : IsPrefix(x, q)
    BY <1>1, <2>1 DEF AllSent
  <2>3. \A x \in z.todo : x = p \/ x \in zip'[c].todo
    BY <1>3
  <2> QED BY <1>6, <1>18, <2>2, <2>3
<1>20. zip[c].task = "walk" => conn[c].pc \in {"sending", "away"}
  BY DEF AllSent
<1> HIDE DEF s, z
<1>21. AllSent(c)'
  BY <1>1, <1>5, <1>7, <1>8, <1>19, <1>20 DEF AllSent, z
<1> QED BY <1>17, <1>21

LEMMA ZipSent ==
    ASSUME Inv, ZipTypeOK, NEW c \in Clients, OnceEach(c), AllSent(c), ZipSend(c)
    PROVE  OnceEach(c)' /\ AllSent(c)'
<1> DEFINE z == zip[c]
           s == Sent(c)
<1>1. z.task = "walk" /\ z.out \in Piece /\ UNCHANGED vars /\ z.got \in Seq(Piece) /\ z.pipe \in Seq(Piece)
  BY ZipSendStep, ZipFields
<1>2. Files(c)' = Files(c) /\ conn' = conn /\ \A q : EntryOf(q)' = EntryOf(q)
  BY <1>1 DEF Files, vars, EntryOf
<1>3. \A i \in 1 .. Len(s) : s[i] # Directory
  BY <1>1 DEF AllSent
<1>4. /\ \A i, j \in 1 .. Len(s) : s[i].path = s[j].path => i = j
      /\ \A p \in z.todo : \A i \in 1 .. Len(s) : ~IsPrefix(p, s[i].path)
      /\ \A p, q \in z.todo : IsPrefix(p, q) => p = q
      /\ z.out \in Entry => /\ \A i \in 1 .. Len(s) : s[i].path # z.out.path
                            /\ \A p \in z.todo : ~IsPrefix(p, z.out.path)
  BY <1>1, <1>3 DEF OnceEach
<1>5. conn[c].pc \in {"sending", "away"}
  BY <1>1 DEF AllSent
<1>6. CASE /\ conn[c].pc = "away" /\ zip'[c].task = "failed"
           /\ zip'[c].pipe = z.pipe /\ zip'[c].got = z.got
  <2>1. Sent(c)' = s
    BY <1>6 DEF Sent
  <2>2. OnceEach(c)'
    BY <1>4, <1>6, <2>1 DEF OnceEach
  <2> HIDE DEF s
  <2>3. AllSent(c)'
    BY <1>2, <1>3, <1>6, <2>1 DEF AllSent
  <2> QED BY <2>2, <2>3
<1>7. CASE /\ conn[c].pc # "away" /\ zip'[c].pipe = Append(z.pipe, z.out)
           /\ zip'[c].out = NoPiece /\ zip'[c].todo = z.todo /\ zip'[c].got = z.got
           /\ zip'[c].task = IF z.out = Directory THEN "closed" ELSE "walk"
  <2>1. Sent(c)' = Append(s, z.out) /\ s \in Seq(Piece)
    <3>1. z.got \o Append(z.pipe, z.out) = Append(z.got \o z.pipe, z.out)
      <4>1. \A g, p \in Seq(Piece) : \A x \in Piece : g \o Append(p, x) = Append(g \o p, x)
        BY ConcatAppend
      <4> QED BY <1>1, <4>1
    <3>2. s \in Seq(Piece)
      BY SentPieces
    <3> QED BY <1>7, <3>1, <3>2 DEF Sent
  <2> DEFINE t == Append(s, z.out)
  <2>2. /\ Len(t) = Len(s) + 1 /\ Len(s) \in Nat /\ t[Len(s) + 1] = z.out
        /\ \A i \in 1 .. Len(s) : t[i] = s[i]
    BY <1>1, <2>1, AppendProperties
  <2> HIDE DEF t, s
  <2>3. \A i \in 1 .. Len(t) : i \in 1 .. Len(s) \/ i = Len(s) + 1
    BY <2>2
  <2>4. \A e : Contains(s, e) => Contains(t, e)
    BY <2>2 DEF Contains
  <2>5. Contains(t, z.out)
    BY <2>2 DEF Contains
  <2>6. NoPiece \notin Entry /\ NoPiece # Directory /\ Directory \notin Entry
    BY PieceAssumption DEF Piece
  <2>7. \A q \in Files(c) : Contains(s, EntryOf(q)) \/ z.out = EntryOf(q)
                            \/ \E p \in z.todo : IsPrefix(p, q)
    BY <1>1, <1>5, <1>7 DEF AllSent, s
  <2>8. CASE z.out = Directory
    <3>1. z.todo = {} /\ \A q \in Files(c) : EntryOf(q) # z.out
      <4>1. Sound(tree)
        BY DEF Inv, TreeInv
      <4>2. \A q \in Files(c) : EntryOf(q) \in Entry
        BY <4>1 DEF Files, EntryOf, Entry, IsFile, Sound
      <4> QED BY <1>1, <2>6, <2>8, <4>2 DEF AllSent
    <3>2. \A q \in Files(c) : Contains(t, EntryOf(q))
      BY <2>4, <2>7, <3>1
    <3>3. \A i \in 1 .. Len(t) : t[i] = Directory => i = Len(t)
      BY <1>3, <2>2, <2>3
    <3>4. \A i, j \in 1 .. Len(t) : t[i] # Directory /\ t[j] # Directory /\ t[i].path = t[j].path => i = j
      BY <1>4, <2>2, <2>3, <2>8
    <3>5. OnceEach(c)'
      BY <1>7, <2>1, <2>8, <3>4 DEF OnceEach, t, s
    <3>6. AllSent(c)'
      <4> HIDE DEF z
      <4>1. Sent(c)' = t
        BY <2>1 DEF t
      <4>2. zip'[c].task = "closed" /\ conn'[c].pc = "sending"
        BY <1>2, <1>5, <1>7, <2>8
      <4> HIDE DEF Sent, Files, EntryOf
      <4> QED BY <1>2, <3>2, <3>3, <4>1, <4>2 DEF AllSent
    <3> QED BY <3>5, <3>6
  <2>9. CASE z.out # Directory
    <3>1. z.out \in Entry
      BY <1>1, <2>9 DEF Piece
    <3>2. \A i \in 1 .. Len(t) : t[i] # Directory
      BY <1>3, <2>2, <2>3, <2>9
    <3>3. \A i, j \in 1 .. Len(t) : t[i].path = t[j].path => i = j
      BY <1>4, <2>2, <2>3, <3>1
    <3>4. \A p \in z.todo : \A i \in 1 .. Len(t) : ~IsPrefix(p, t[i].path)
      BY <1>4, <2>2, <2>3, <3>1
    <3>5. OnceEach(c)'
      BY <1>4, <1>7, <2>1, <2>6, <3>3, <3>4 DEF OnceEach, t, s
    <3>6. \A q \in Files(c) : Contains(t, EntryOf(q)) \/ \E p \in z.todo : IsPrefix(p, q)
      BY <2>4, <2>5, <2>7
    <3>7. AllSent(c)'
      <4>1. Sent(c)' = t
        BY <2>1 DEF t
      <4>2. /\ zip'[c].task = "walk" /\ conn'[c].pc = "sending"
            /\ zip'[c].out = NoPiece /\ zip'[c].todo = z.todo
        BY <1>2, <1>5, <1>7, <2>9
      <4> HIDE DEF Sent, Files, EntryOf, z
      <4> QED BY <1>2, <2>6, <3>2, <3>6, <4>1, <4>2 DEF AllSent
    <3> QED BY <3>5, <3>7
  <2> QED BY <2>8, <2>9
<1> QED BY <1>5, <1>6, <1>7, ZipSendStep

LEMMA ZipClosed ==
    ASSUME Inv, ZipTypeOK, NEW c \in Clients, OnceEach(c), AllSent(c), ZipClose(c)
    PROVE  OnceEach(c)' /\ AllSent(c)'
<1>1. /\ zip[c].task = "walk" /\ zip[c].out = NoPiece /\ zip[c].todo = {}
      /\ zip'[c].task = "walk" /\ zip'[c].out = Directory /\ zip'[c].todo = {}
      /\ zip'[c].pipe = zip[c].pipe /\ zip'[c].got = zip[c].got
      /\ UNCHANGED vars
  BY ZipCloseStep
<1>2. Sent(c)' = Sent(c) /\ \A q : EntryOf(q)' = EntryOf(q)
  BY <1>1 DEF Sent, EntryOf, vars
<1>3. Files(c)' = Files(c) /\ conn' = conn
  BY <1>1 DEF Files, vars
<1>4. Directory \notin Entry /\ \A q \in Files(c) : EntryOf(q) # NoPiece
  <2>1. \A q \in Files(c) : EntryOf(q) \in Entry
    BY DEF Files, EntryOf, Entry, IsFile, Inv, TreeInv, Sound
  <2> QED BY <2>1, PieceAssumption DEF Piece
<1>5. OnceEach(c)'
  BY <1>1, <1>2, <1>4 DEF OnceEach
<1> HIDE DEF Sent, Files, EntryOf
<1>6. AllSent(c)'
  BY <1>1, <1>2, <1>3, <1>4 DEF AllSent
<1> QED BY <1>5, <1>6

LEMMA ZipRead ==
    ASSUME ZipTypeOK, NEW c \in Clients, OnceEach(c), AllSent(c), ClientReads(c)
    PROVE  OnceEach(c)' /\ AllSent(c)'
<1>1. /\ zip[c].pipe # << >> /\ UNCHANGED vars
      /\ zip'[c].task = zip[c].task /\ zip'[c].out = zip[c].out /\ zip'[c].todo = zip[c].todo
      /\ zip'[c].pipe = Tail(zip[c].pipe)
      /\ zip'[c].got = Append(zip[c].got, Head(zip[c].pipe))
  BY ClientReadsStep
<1>2. Sent(c)' = Sent(c)
  BY <1>1, ZipFields, ConcatHead DEF Sent
<1>3. Files(c)' = Files(c) /\ conn' = conn /\ \A q : EntryOf(q)' = EntryOf(q)
  BY <1>1 DEF Files, EntryOf, vars
<1>4. OnceEach(c)'
  BY <1>1, <1>2 DEF OnceEach
<1> HIDE DEF Sent, Files, EntryOf
<1>5. AllSent(c)'
  BY <1>1, <1>2, <1>3 DEF AllSent
<1> QED BY <1>4, <1>5

LEMMA ZipLeft ==
    ASSUME Inv, ZipTypeOK, NEW c \in Clients, OnceEach(c), AllSent(c), ClientLeaves(c)
    PROVE  OnceEach(c)' /\ AllSent(c)'
<1> DEFINE s == Sent(c)
           g == zip[c].got
<1>1. /\ ZipTypeOK' /\ zip'[c].task = zip[c].task /\ zip'[c].out = zip[c].out
      /\ zip'[c].todo = zip[c].todo /\ zip'[c].pipe = << >> /\ zip'[c].got = g
  BY ClientLeavesZip
<1>2. conn[c].pc = "sending" /\ conn'[c].pc = "away" /\ conn'[c].req = conn[c].req
  <2>1. conn[c].pc = "sending" /\ Goto(c, "away") /\ "away" \in PCs
    BY DEF ClientLeaves, PCs, Over
  <2> QED BY <2>1, GotoStep DEF Inv
<1>3. Sent(c)' = g
  <2>1. g \o << >> = g
    BY ZipFields, ConcatEmptySeq
  <2> QED BY <1>1, <2>1 DEF Sent
<1>4. Files(c)' = Files(c) /\ \A q : EntryOf(q)' = EntryOf(q)
  BY <1>2 DEF Files, EntryOf, ClientLeaves, SameTree, IsFile
<1>5. /\ Len(s) = Len(g) + Len(zip[c].pipe) /\ Len(g) \in Nat /\ Len(zip[c].pipe) \in Nat
      /\ \A i \in 1 .. Len(g) : s[i] = g[i] /\ i \in 1 .. Len(s)
      /\ zip[c].pipe = << >> => s = g
      /\ Len(zip[c].pipe) = 0 => zip[c].pipe = << >>
  <2>1. g \in Seq(Piece) /\ zip[c].pipe \in Seq(Piece)
    BY ZipFields
  <2>2. Len(g) \in Nat /\ Len(zip[c].pipe) \in Nat /\ (Len(zip[c].pipe) = 0 => zip[c].pipe = << >>)
    BY <2>1, EmptySeq
  <2>3. Len(s) = Len(g) + Len(zip[c].pipe)
    BY SentPieces
  <2>4. ASSUME NEW i \in 1 .. Len(g) PROVE s[i] = g[i] /\ i \in 1 .. Len(s)
    <3>1. s[i] = g[i]
      BY SentPieces
    <3> HIDE DEF s, g
    <3> QED BY <2>2, <2>3, <3>1
  <2>5. zip[c].pipe = << >> => s = g
    BY SentPieces
  <2> QED BY <2>2, <2>3, <2>4, <2>5
<1> HIDE DEF s, g
<1>6. OnceEach(c)'
  <2>1. \A i, j \in 1 .. Len(s) :
           s[i] # Directory /\ s[j] # Directory /\ s[i].path = s[j].path => i = j
    BY DEF OnceEach, s
  <2>2. zip[c].task = "walk" =>
           /\ \A p \in zip[c].todo : \A i \in 1 .. Len(s) :
                 s[i] # Directory => ~IsPrefix(p, s[i].path)
           /\ \A p, q \in zip[c].todo : IsPrefix(p, q) => p = q
           /\ zip[c].out \in Entry =>
                 /\ \A i \in 1 .. Len(s) : s[i] # Directory => s[i].path # zip[c].out.path
                 /\ \A p \in zip[c].todo : ~IsPrefix(p, zip[c].out.path)
    BY DEF OnceEach, s
  <2>3. \A i, j \in 1 .. Len(g) :
           g[i] # Directory /\ g[j] # Directory /\ g[i].path = g[j].path => i = j
    BY <1>5, <2>1
  <2>4. zip[c].task = "walk" =>
           /\ \A p \in zip[c].todo : \A i \in 1 .. Len(g) :
                 g[i] # Directory => ~IsPrefix(p, g[i].path)
           /\ zip[c].out \in Entry =>
                 \A i \in 1 .. Len(g) : g[i] # Directory => g[i].path # zip[c].out.path
    BY <1>5, <2>2
  <2> QED BY <1>1, <1>3, <2>2, <2>3, <2>4 DEF OnceEach
<1>7. \A i \in 1 .. Len(g) : g[i] = Directory =>
         i = Len(g) /\ zip[c].task = "closed" /\ \A q \in Files(c) : Contains(g, EntryOf(q))
  <2> TAKE i \in 1 .. Len(g)
  <2> HAVE g[i] = Directory
  <2>1. i = Len(s) /\ zip[c].task = "closed" /\ \A q \in Files(c) : Contains(s, EntryOf(q))
    BY <1>5 DEF AllSent, s
  <2>2. s = g
    BY <1>5, <2>1
  <2> QED BY <2>1, <2>2
<1>8. zip[c].task = "none" => g = << >> /\ zip[c].out = NoPiece
  <2>1. zip[c].task = "none" => s = << >> /\ zip[c].out = NoPiece
    BY DEF AllSent, s
  <2>2. s = << >> => g = << >>
    BY ZipFields, ConcatEqualIffEmpty DEF s, g, Sent
  <2> QED BY <2>1, <2>2
<1>9. zip[c].out = Directory /\ zip[c].task = "walk" => zip[c].todo = {}
  BY DEF AllSent
<1> HIDE DEF Sent, Files, EntryOf
<1>10. AllSent(c)'
  BY <1>1, <1>2, <1>3, <1>4, <1>7, <1>8, <1>9 DEF AllSent
<1> QED BY <1>6, <1>10

LEMMA ZipInvStep ==
    ASSUME Inv, ZipTypeOK, ZipInv, [ZipRun]_zipVars
    PROVE  ZipInv'
<1>1. \A c \in Clients : stayed[c] \subseteq DOMAIN tree
  BY DEF Inv, TreeInv
<1>2. ASSUME NEW c \in Clients, UNCHANGED vars, zip'[c] = zip[c]
      PROVE  OnceEach(c)' /\ AllSent(c)'
  <2>1. zip[c].task = "walk" => conn[c].pc \in {"sending", "away"}
    BY DEF ZipInv, AllSent
  <2> QED BY <1>1, <1>2, <2>1, ZipUntouched DEF vars, ZipInv
<1>3. CASE UNCHANGED zipVars
  BY <1>2, <1>3 DEF zipVars, ZipInv
<1>4. ASSUME NEW e \in Clients, Handle(e), UNCHANGED zip, NEW c \in Clients
      PROVE  OnceEach(c)' /\ AllSent(c)'
  <2>1. Calm /\ Only(e) /\ conn'[e].req = conn[e].req /\ ConnInv'
    BY <1>4, HandleTree, HandleConn DEF Inv
  <2>2. InFlight(e) /\ conn[e].pc # "sending"
    BY <1>4, HandledInFlight
  <2>3. conn'[e].pc # "idle" /\ conn'[e].pc # "sending"
    <3>1. conn[e].req \in Requests[e] /\ conn[e].req.op # "ZIP"
      <4>1. Dispatched(e) /\ conn[e].pc \in PCs \ ({"idle", "sending"} \cup Over)
        BY <2>2, HandlerFields DEF InFlight, Inv, ConnInv
      <4>2. conn[e].pc \notin {"sending", "idle"} /\ conn[e].req.op # "ZIP"
        BY <4>1 DEF PCs, Waiting, Removing, Over, Dispatched
      <4> QED BY <4>1, <4>2 DEF Dispatched
    <3>2. Dispatched(e)'
      BY <2>1 DEF ConnInv
    <3> QED BY <2>1, <3>1, <3>2, RequestTyped DEF Dispatched
  <2>4. zip[c].task = "walk" => conn[c].pc \in {"sending", "away"}
    BY DEF ZipInv, AllSent
  <2>5. /\ conn'[c].req = conn[c].req /\ (conn'[c].pc = "idle" => conn[c].pc = "idle")
        /\ conn'[c].pc = "sending" => conn[c].pc = "sending"
        /\ zip[c].task = "walk" => conn'[c].pc \in {"sending", "away"}
    BY <2>1, <2>2, <2>3, <2>4 DEF Only, InFlight, Over
  <2> QED BY <1>1, <1>4, <2>1, <2>5, ZipUntouched DEF Calm, ZipInv
<1>5. ASSUME NEW e \in Clients, Disconnect(e) \/ BodyEnds(e) \/ ClientLeaves(e), NEW c \in Clients,
             zip'[c] = zip[c], ~(c = e /\ ClientLeaves(e))
      PROVE  OnceEach(c)' /\ AllSent(c)'
  <2>1. Calm /\ Only(e) /\ conn'[e].req = conn[e].req
    BY <1>5, LeaveTree, LeaveConn DEF Inv
  <2>2. conn'[e].pc \in {"away", "orphan", "done"} /\ conn[e].pc # "idle"
    BY <1>5, LeaveConn, HandledInFlight DEF Inv, InFlight
  <2>3. zip[c].task = "walk" => conn[c].pc \in {"sending", "away"}
    BY DEF ZipInv, AllSent
  <2>4. c = e /\ zip[c].task = "walk" => conn'[c].pc \in {"sending", "away"}
    <3>1. CASE Disconnect(e)
      <4>1. conn[e].pc \in Waiting \ {"sending"} \/ conn[e].pc = "remove"
        BY <3>1, DisconnectStep DEF Inv
      <4> QED BY <2>3, <4>1 DEF Waiting
    <3>2. CASE BodyEnds(e)
      BY <3>2 DEF BodyEnds
    <3> QED BY <1>5, <3>1, <3>2
  <2>5. /\ conn'[c].req = conn[c].req /\ (conn'[c].pc = "idle" => conn[c].pc = "idle")
        /\ conn'[c].pc = "sending" => conn[c].pc = "sending"
        /\ zip[c].task = "walk" => conn'[c].pc \in {"sending", "away"}
    BY <2>1, <2>2, <2>3, <2>4 DEF Only
  <2> QED BY <1>1, <1>5, <2>1, <2>5, ZipUntouched DEF Calm, ZipInv
<1>6. ASSUME NEW e \in Clients, NEW r \in Requests[e], Receive(e, r), UNCHANGED zip, NEW c \in Clients
      PROVE  OnceEach(c)' /\ AllSent(c)'
  <2>1. /\ Only(e) /\ conn[e].pc = "idle" /\ tree' = tree
        /\ \A d \in Clients \ {e} : conn'[d] = conn[d] /\ stayed'[d] = stayed[d]
    BY <1>6, ReceiveStep, ReceiveTree DEF Inv, Receive
  <2>2. CASE c # e
    <3>1. zip[c].task = "walk" => conn[c].pc \in {"sending", "away"}
      BY DEF ZipInv, AllSent
    <3> QED BY <1>1, <1>6, <2>1, <2>2, <3>1, ZipUntouched DEF ZipInv
  <2>3. CASE c = e
    <3>1. zip'[c] = zip[c] /\ zip[c].task = "none" /\ Sent(c) = << >> /\ zip[c].out = NoPiece
      BY <1>6, <2>1, <2>3 DEF ZipInv, AllSent
    <3>2. Sent(c)' = << >>
      BY <3>1 DEF Sent
    <3>3. OnceEach(c)'
      BY <3>1, <3>2 DEF OnceEach
    <3> HIDE DEF Sent, Files, EntryOf
    <3>4. AllSent(c)'
      BY <3>1, <3>2 DEF AllSent
    <3> QED BY <3>3, <3>4
  <2> QED BY <2>2, <2>3
<1>7. ASSUME NEW e \in Clients, NEW c \in Clients,
             ZipStart(e) \/ ZipNext(e) \/ ZipSend(e) \/ ZipClose(e) \/ ClientReads(e)
      PROVE  OnceEach(c)' /\ AllSent(c)'
  <2>1. UNCHANGED vars /\ (c # e => zip'[c] = zip[c])
    BY <1>7, ZipStartStep, ZipNextStep, ZipSendStep, ZipCloseStep, ClientReadsStep
  <2>2. OnceEach(c) /\ AllSent(c)
    BY DEF ZipInv
  <2>3. CASE c = e
    BY <1>7, <2>2, <2>3, ZipStarted, ZipWalked, ZipSent, ZipClosed, ZipRead
  <2> QED BY <1>2, <2>1, <2>3
<1>11. ASSUME NEW e \in Clients, ZipSkips(e), NEW c \in Clients
       PROVE  OnceEach(c)' /\ AllSent(c)'
  <2>1. OnceEach(c) /\ AllSent(c)
    BY DEF ZipInv
  <2>2. Calm /\ UNCHANGED <<conn, tree>> /\ (c # e => zip'[c] = zip[c])
    BY <1>11, ZipSkipsTree, ZipSkipsStep
  <2>3. zip[c].task = "walk" => conn[c].pc \in {"sending", "away"}
    BY <2>1 DEF AllSent
  <2>4. CASE c # e
    BY <1>1, <2>1, <2>2, <2>3, <2>4, ZipUntouched DEF Calm
  <2>5. CASE c = e
    BY <1>11, <2>1, <2>5, ZipWalkSkips
  <2> QED BY <2>4, <2>5
<1>8. ASSUME NEW e \in Clients, ClientLeaves(e), NEW c \in Clients
      PROVE  OnceEach(c)' /\ AllSent(c)'
  <2>1. OnceEach(c) /\ AllSent(c)
    BY DEF ZipInv
  <2>2. c # e => zip'[c] = zip[c]
    BY <1>8, ClientLeavesZip
  <2> QED BY <1>5, <1>8, <2>1, <2>2, ZipLeft
<1>9. \/ UNCHANGED zipVars
      \/ \E e \in Clients : \/ Handle(e) /\ UNCHANGED zip
                            \/ (Disconnect(e) \/ BodyEnds(e)) /\ UNCHANGED zip
                            \/ \E r \in Requests[e] : Receive(e, r) /\ UNCHANGED zip
                            \/ ZipStart(e) \/ ZipNext(e) \/ ZipSend(e) \/ ZipClose(e)
                               \/ ClientReads(e)
                            \/ ZipSkips(e) \/ ClientLeaves(e)
  BY DEF ZipRun, Next, ZipTask, ZipClient, BodyEnds
<1>10. ASSUME NEW e \in Clients, Disconnect(e) \/ BodyEnds(e), UNCHANGED zip
       PROVE  ZipInv'
  <2>1. ~ClientLeaves(e)
    <3>1. CASE Disconnect(e)
      <4>1. conn[e].pc # "sending"
        BY <3>1, DisconnectStep DEF Inv
      <4> QED BY <4>1 DEF ClientLeaves
    <3>2. CASE BodyEnds(e)
      <4>1. Reply(e, 200) /\ conn[e].pc = "sending" /\ 200 \in Nat
        BY <3>2 DEF BodyEnds
      <4>2. conn'[e].pc = "done"
        BY <4>1, ReplyStep DEF Inv
      <4>3. ClientLeaves(e) => conn'[e].pc = "away"
        BY GotoStep DEF ClientLeaves, Inv, PCs, Over
      <4> QED BY <4>2, <4>3
    <3> QED BY <1>10, <3>1, <3>2
  <2> QED BY <1>5, <1>10, <2>1 DEF ZipInv
<1> QED BY <1>3, <1>4, <1>6, <1>7, <1>8, <1>9, <1>10, <1>11 DEF ZipInv

\* ZipIsWhole, for every directory, pipe and number of requests that change it
\* under the walk: zip_dir goes into each directory that is there, and close
\* comes after the last entry.
THEOREM ZipIsWholeAlways == ZipSpec => []ZipIsWhole
<1>1. ZipInit => Inv /\ ZipTypeOK /\ ZipInv
  <2> SUFFICES ASSUME ZipInit PROVE Inv /\ ZipTypeOK /\ ZipInv
    OBVIOUS
  <2>1. Inv
    BY InitInv DEF ZipInit
  <2>2. ZipTypeOK
    BY ZipInitTyped
  <2>3. ASSUME NEW c \in Clients PROVE OnceEach(c) /\ AllSent(c)
    <3>1. zip[c] = NoTask
      BY DEF ZipInit
    <3>2. /\ zip[c].task = "none" /\ zip[c].out = NoPiece
          /\ zip[c].got = << >> /\ zip[c].pipe = << >>
      BY <3>1 DEF NoTask
    <3>3. Sent(c) = << >>
      BY <3>2 DEF Sent
    <3>4. OnceEach(c)
      BY <3>2, <3>3 DEF OnceEach
    <3> HIDE DEF Sent, Files, EntryOf
    <3>5. AllSent(c)
      BY <3>2, <3>3 DEF AllSent
    <3> QED BY <3>4, <3>5
  <2> QED BY <2>1, <2>2, <2>3 DEF ZipInv
<1>2. Inv /\ ZipInv /\ ZipTypeOK /\ [ZipRun]_zipVars => (Inv /\ ZipInv)'
  BY NextInv, ZipInvStep
<1>3. Inv /\ ZipTypeOK /\ ZipInv => ZipIsWhole
  <2> SUFFICES ASSUME Inv, ZipTypeOK, ZipInv, NEW c \in Clients, Contains(zip[c].got, Directory),
                      NEW p \in stayed[c], IsFile(tree, p), IsPrefix(conn[c].req.path, p)
               PROVE  \E i \in 1 .. Len(zip[c].got) :
                         /\ zip[c].got[i] = [path |-> p, content |-> tree[p]]
                         /\ \A j \in 1 .. Len(zip[c].got) :
                              zip[c].got[j] # Directory /\ zip[c].got[j].path = p => j = i
    BY DEF ZipIsWhole
  <2> DEFINE g == zip[c].got
             s == Sent(c)
  <2>1. PICK k \in 1 .. Len(g) : g[k] = Directory
    BY DEF Contains
  <2>2. g \in Seq(Piece) /\ zip[c].pipe \in Seq(Piece)
    BY ZipFields
  <2>3. /\ Len(s) = Len(g) + Len(zip[c].pipe)
        /\ \A i \in 1 .. Len(g) : s[i] = g[i]
        /\ zip[c].pipe = << >> => s = g
    BY SentPieces
  <2>4. Len(g) \in Nat /\ Len(zip[c].pipe) \in Nat /\ (Len(zip[c].pipe) = 0 => zip[c].pipe = << >>)
    BY <2>2, EmptySeq
  <2> HIDE DEF g, s
  <2>5. k = Len(s) /\ \A q \in Files(c) : Contains(s, EntryOf(q))
    <3>1. s[k] = Directory /\ k \in 1 .. Len(s)
      BY <2>1, <2>3, <2>4
    <3> QED BY <3>1 DEF ZipInv, AllSent, s
  <2>6. s = g
    BY <2>3, <2>4, <2>5
  <2>7. PICK i \in 1 .. Len(g) : g[i] = EntryOf(p)
    BY <2>5, <2>6 DEF Files, Contains
  <2>8. EntryOf(p) # Directory /\ EntryOf(p).path = p
    <3>1. EntryOf(p) \in Entry
      BY DEF EntryOf, Entry, IsFile, Inv, TreeInv, Sound
    <3> QED BY <3>1, PieceAssumption DEF EntryOf
  <2>9. \A j \in 1 .. Len(g) : g[j] # Directory /\ g[j].path = p => j = i
    BY <2>6, <2>7, <2>8 DEF ZipInv, OnceEach, s
  <2> QED BY <2>7, <2>9 DEF g, EntryOf
<1> QED BY <1>1, <1>2, <1>3, ZipTyped, PTL DEF ZipSpec

-----------------------------------------------------------------------------
(* A copy, as a function of the directory it began with.                   *)

\* What do_copy copies: the source without the destination, when that is inside.
Sources(t, p, q) == {x \in Under(t, p) : ~IsPrefix(q, x)}

LEMMA SourcePath ==
    ASSUME NEW t, Sound(t), NEW p \in Path, NEW q \in Path, NEW x \in Sources(t, p, q)
    PROVE  /\ x \in DOMAIN t /\ x \in Path /\ IsPrefix(p, x) /\ ~IsPrefix(q, x)
           /\ Suffix(p, x) \in Path /\ p \o Suffix(p, x) = x
           /\ q \o Suffix(p, x) \in Path /\ IsPrefix(q, q \o Suffix(p, x))
           /\ Suffix(q, q \o Suffix(p, x)) = Suffix(p, x)
<1>1. x \in DOMAIN t /\ x \in Path /\ IsPrefix(p, x) /\ ~IsPrefix(q, x)
  BY UnderSound DEF Sources, Under
<1>2. Suffix(p, x) \in Path /\ p \o Suffix(p, x) = x
  BY <1>1, SuffixPath
<1>3. /\ q \o Suffix(p, x) \in Path /\ IsPrefix(q, q \o Suffix(p, x))
      /\ Suffix(q, q \o Suffix(p, x)) = Suffix(p, x)
  BY <1>2, ConcatPath
<1> QED BY <1>1, <1>2, <1>3

LEMMA CopiedTree ==
    ASSUME NEW t, Sound(t), NEW p \in Path, NEW q \in Path, NEW S \in SUBSET Sources(t, p, q)
    PROVE  LET new == Copied(t, p, q, S) IN
           /\ \A x \in S : /\ q \o Suffix(p, x) \in DOMAIN new
                           /\ new[q \o Suffix(p, x)] = t[x]
           /\ \A x \in DOMAIN t : ~IsPrefix(q, x) => x \in DOMAIN new /\ new[x] = t[x]
           /\ \A y \in DOMAIN new : \/ \E x \in S : y = q \o Suffix(p, x)
                                    \/ y \in DOMAIN t /\ ~IsPrefix(q, y)
<1> DEFINE new == Copied(t, p, q, S)
           copies == {q \o Suffix(p, x) : x \in S}
           kept == DOMAIN t \ Under(t, q)
<1>1. /\ DOMAIN new = copies \cup kept
      /\ \A y \in copies : new[y] = t[p \o Suffix(q, y)]
      /\ \A y \in kept \ copies : new[y] = t[y]
  BY DEF Copied
<1>2. ASSUME NEW x \in S PROVE /\ q \o Suffix(p, x) \in copies
                               /\ p \o Suffix(q, q \o Suffix(p, x)) = x
  BY <1>2, SourcePath, SMTT(30)
<1>3. ASSUME NEW y \in copies PROVE IsPrefix(q, y)
  <2>1. PICK x \in S : y = q \o Suffix(p, x)
    OBVIOUS
  <2> QED BY <2>1, SourcePath
<1>4. \A x \in DOMAIN t : x \in kept <=> ~IsPrefix(q, x)
  BY DEF Under
<1> HIDE DEF new, copies, kept
<1>5. \A x \in S : q \o Suffix(p, x) \in DOMAIN new /\ new[q \o Suffix(p, x)] = t[x]
  BY <1>1, <1>2
<1>6. \A x \in DOMAIN t : ~IsPrefix(q, x) => x \in DOMAIN new /\ new[x] = t[x]
  BY <1>1, <1>3, <1>4
<1>7. \A y \in DOMAIN new : \/ \E x \in S : y = q \o Suffix(p, x)
                            \/ y \in DOMAIN t /\ ~IsPrefix(q, y)
  BY <1>1, <1>4 DEF copies, kept
<1> QED BY <1>5, <1>6, <1>7 DEF new

\* One entry more.
LEMMA CopiedOneMore ==
    ASSUME NEW t, Sound(t), NEW p \in Path, NEW q \in Path, NEW S \in SUBSET Sources(t, p, q),
           NEW y \in Sources(t, p, q) \ S
    PROVE  LET d == q \o Suffix(p, y) IN
           /\ d \notin DOMAIN Copied(t, p, q, S)
           /\ Placed(Copied(t, p, q, S), d, t[y]) = Copied(t, p, q, S \cup {y})
<1> DEFINE d == q \o Suffix(p, y)
           old == Copied(t, p, q, S)
           more == S \cup {y}
           copies(D) == {q \o Suffix(p, x) : x \in D}
           kept == DOMAIN t \ Under(t, q)
           value(D, z) == IF z \in copies(D) THEN t[p \o Suffix(q, z)] ELSE t[z]
<1>1. d \in Path /\ IsPrefix(q, d) /\ Suffix(q, d) = Suffix(p, y) /\ p \o Suffix(p, y) = y
  BY SourcePath
<1>2. d \notin DOMAIN old
  <2>1. ASSUME NEW x \in S, d = q \o Suffix(p, x) PROVE FALSE
    <3>1. Suffix(q, d) = Suffix(p, x) /\ p \o Suffix(p, x) = x
      BY <2>1, SourcePath
    <3> QED BY <1>1, <3>1
  <2>2. \A z \in DOMAIN old : \/ \E x \in S : z = q \o Suffix(p, x)
                              \/ z \in DOMAIN t /\ ~IsPrefix(q, z)
    BY CopiedTree
  <2> HIDE DEF old
  <2> QED BY <1>1, <2>1, <2>2
<1>3. old = [z \in copies(S) \cup kept |-> value(S, z)]
  BY DEF Copied
<1>4. Copied(t, p, q, more) = [z \in copies(more) \cup kept |-> value(more, z)]
  BY DEF Copied
<1>5. copies(more) = copies(S) \cup {d}
  OBVIOUS
<1>6. DOMAIN old = copies(S) \cup kept /\ \A z \in DOMAIN old : old[z] = value(S, z)
  BY <1>3
<1>7. Placed(old, d, t[y]) = [z \in {d} \cup DOMAIN old |-> IF z = d THEN t[y] ELSE old[z]]
  BY DEF Placed
<1>8. {d} \cup DOMAIN old = copies(more) \cup kept
  BY <1>5, <1>6
<1>9. value(more, d) = t[y]
  BY <1>1, <1>5
<1>10. ASSUME NEW z \in DOMAIN old PROVE z # d /\ old[z] = value(more, z)
  <2>1. z # d
    BY <1>2
  <2>2. z \in copies(more) <=> z \in copies(S)
    BY <1>5, <2>1
  <2> QED BY <1>6, <2>1, <2>2
<1> HIDE DEF old, more, copies, kept, value, d
<1>11. \A z \in {d} \cup DOMAIN old : (IF z = d THEN t[y] ELSE old[z]) = value(more, z)
  BY <1>9, <1>10
<1>12. Placed(old, d, t[y]) = Copied(t, p, q, more)
  BY <1>4, <1>7, <1>8, <1>11
<1> QED BY <1>2, <1>12 DEF d, old, more

LEMMA OwnSuffix ==
    ASSUME NEW p \in Path, NEW q \in Path
    PROVE  q \o Suffix(p, p) = q
<1>1. Suffix(p, p) \in Path /\ Len(Suffix(p, p)) = Len(p) - Len(p)
  BY PrefixReflexive, SuffixPath
<1>2. Suffix(p, p) = << >>
  <2>1. Len(p) - Len(p) = 0
    BY PathLength
  <2> QED BY <1>1, <2>1, PathLength
<1> QED BY <1>2, ConcatEmptySeq DEF Path

\* The copy of a path's directory is the directory of the path's copy.
LEMMA CopyOfFront ==
    ASSUME NEW p \in Path, NEW q \in Path, NEW y \in Path, IsPrefix(p, y), y # p
    PROVE  /\ y # << >> /\ Front(y) \in Path /\ IsPrefix(p, Front(y))
           /\ q \o Suffix(p, y) # << >>
           /\ Front(q \o Suffix(p, y)) = q \o Suffix(p, Front(y))
<1> DEFINE s == Suffix(p, y)
<1>1. s \in Path /\ p \o s = y
  BY SuffixPath
<1>2. s # << >>
  BY <1>1, ConcatEmptySeq DEF Path
<1> HIDE DEF s
<1>3. /\ Front(y) = p \o Front(s) /\ y # << >> /\ Front(s) \in Path
      /\ Front(q \o s) = q \o Front(s) /\ q \o s # << >>
  BY <1>1, <1>2, FrontConcat, FrontPath
<1>4. Front(y) \in Path /\ IsPrefix(p, Front(y)) /\ Suffix(p, Front(y)) = Front(s)
  BY <1>3, ConcatPath
<1> QED BY <1>3, <1>4 DEF s

\* A copy of a directory that can be made whole, into a directory.
Copyable(t, p, q) ==
    /\ Sound(t) /\ p \in Path /\ q \in Path
    /\ IsDir(t, p) /\ ~IsPrefix(q, p) /\ ParentIsDir(t, q)
    /\ \A x \in Sources(t, p, q) : Len(q \o Suffix(p, x)) <= MaxDepth

\* What was copied when todo is what is left.
Sofar(t, p, q, todo) == {x \in Sources(t, p, q) : \A y \in todo : ~IsPrefix(y, x)}

\* A copy on its way: new has what was copied so far, and what is left to copy are
\* paths of which none is inside another, each in a directory that was copied.
Copying(t, p, q, todo, new) ==
    /\ new = Copied(t, p, q, Sofar(t, p, q, todo))
    /\ \A y \in todo : \/ y = q
                       \/ /\ y \in Sources(t, p, q)
                          /\ y = p \/ (y # << >> /\ Front(y) \in Sofar(t, p, q, todo))
    /\ \A y, z \in todo : IsPrefix(y, z) => y = z

LEMMA RootIsPrefix == ASSUME NEW p \in Path PROVE IsPrefix(<< >>, p)
<1>1. << >> \in Path
  BY EmptySeq DEF Path
<1>2. Len(<< >>) = 0 /\ Len(p) \in Nat
  BY <1>1, PathLength
<1> QED BY <1>1, <1>2, PrefixAt

LEMMA CopyingStarts ==
    ASSUME NEW t, NEW p, NEW q, Copyable(t, p, q)
    PROVE  Copying(t, p, q, {p}, Without(t, Under(t, q)))
<1>1. Sound(t) /\ p \in Path /\ q \in Path /\ p \in DOMAIN t /\ ~IsPrefix(q, p)
  BY DEF Copyable, IsDir
<1>2. Sofar(t, p, q, {p}) = {}
  BY DEF Sofar, Sources, Under
<1>3. p \in Sources(t, p, q)
  BY <1>1, PrefixReflexive DEF Sources, Under
<1>4. Without(t, Under(t, q)) = Copied(t, p, q, {})
  <2>1. Without(t, Under(t, q)) = [x \in DOMAIN t \cap (DOMAIN t \ Under(t, q)) |-> t[x]]
    BY DEF Without, Restrict
  <2>2. Copied(t, p, q, {}) = [y \in DOMAIN t \ Under(t, q) |-> t[y]]
    <3>1. {q \o Suffix(p, x) : x \in {}} = {}
      OBVIOUS
    <3> QED BY <3>1 DEF Copied
  <2>3. DOMAIN t \cap (DOMAIN t \ Under(t, q)) = DOMAIN t \ Under(t, q)
    OBVIOUS
  <2> QED BY <2>1, <2>2, <2>3
<1> QED BY <1>2, <1>3, <1>4 DEF Copying

\* The destination, met inside the source, is skipped: nothing of it is a source.
LEMMA CopyingSkips ==
    ASSUME NEW t, NEW p, NEW q, Copyable(t, p, q), NEW todo, NEW new,
           Copying(t, p, q, todo, new)
    PROVE  Copying(t, p, q, todo \ {q}, new)
<1>1. Sofar(t, p, q, todo \ {q}) = Sofar(t, p, q, todo)
  BY DEF Sofar, Sources
<1> QED BY <1>1 DEF Copying

\* A source that is left to copy is still there, and the place for it is free.
LEMMA CopyingAt ==
    ASSUME NEW t, NEW p, NEW q, Copyable(t, p, q), NEW todo, NEW new,
           Copying(t, p, q, todo, new), NEW y \in todo, y # q
    PROVE  LET d == q \o Suffix(p, y) IN
           /\ y \in Sources(t, p, q) \ Sofar(t, p, q, todo)
           /\ y \in Path /\ d \in Path
           /\ y \in DOMAIN new /\ new[y] = t[y]
           /\ d \notin DOMAIN new /\ ParentIsDir(new, d) /\ Len(d) <= MaxDepth
           /\ IsPrefix(q, d)
<1> DEFINE d == q \o Suffix(p, y)
           done == Sofar(t, p, q, todo)
<1>1. Sound(t) /\ p \in Path /\ q \in Path /\ q # << >>
  BY RootIsPrefix DEF Copyable
<1>2. /\ y \in Sources(t, p, q)
      /\ y = p \/ (y # << >> /\ Front(y) \in done)
      /\ new = Copied(t, p, q, done)
  BY DEF Copying
<1>3. /\ y \in DOMAIN t /\ y \in Path /\ IsPrefix(p, y) /\ ~IsPrefix(q, y)
      /\ Suffix(p, y) \in Path /\ p \o Suffix(p, y) = y
      /\ d \in Path /\ IsPrefix(q, d)
  BY <1>1, <1>2, SourcePath
<1>4. y \notin done
  BY <1>3, PrefixReflexive DEF Sofar
<1>5. done \in SUBSET Sources(t, p, q)
  BY DEF Sofar
<1>6. /\ \A x \in done : q \o Suffix(p, x) \in DOMAIN new /\ new[q \o Suffix(p, x)] = t[x]
      /\ \A x \in DOMAIN t : ~IsPrefix(q, x) => x \in DOMAIN new /\ new[x] = t[x]
  BY <1>1, <1>2, <1>5, CopiedTree
<1>7. y \in DOMAIN new /\ new[y] = t[y]
  BY <1>3, <1>6
<1>8. d \notin DOMAIN new
  BY <1>1, <1>2, <1>4, <1>5, CopiedOneMore
<1>9. Len(d) <= MaxDepth
  BY <1>2 DEF Copyable
<1>10. ParentIsDir(new, d)
  <2>1. CASE y = p
    <3>1. d = q
      BY <1>1, <2>1, OwnSuffix
    <3>2. IsDir(t, Front(q)) /\ Parent(q) = Front(q)
      BY <1>1 DEF Copyable, ParentIsDir, Parent
    <3>3. ~IsPrefix(q, Front(q))
      BY <1>1, PrefixOfFront
    <3> QED BY <1>6, <3>1, <3>2, <3>3 DEF ParentIsDir, IsDir
  <2>2. CASE y # p
    <3>1. y # << >> /\ Front(y) \in done
      BY <1>2, <2>2
    <3>2. t[Front(y)] = Dir
      BY <1>1, <1>3, <3>1 DEF Sound, IsTree, IsDir, Parent
    <3>3. q \o Suffix(p, Front(y)) = Front(d) /\ d # << >>
      BY <1>1, <1>3, <2>2, CopyOfFront
    <3> QED BY <1>6, <3>1, <3>2, <3>3 DEF ParentIsDir, IsDir, Parent
  <2> QED BY <2>1, <2>2
<1> QED BY <1>2, <1>3, <1>4, <1>7, <1>8, <1>9, <1>10

\* A directory is made, and its entries are next: with the destination if that is
\* one of them.
LEMMA CopyingDirectory ==
    ASSUME NEW t, NEW p, NEW q, Copyable(t, p, q), NEW todo, NEW new,
           Copying(t, p, q, todo, new), NEW y \in todo, y # q, IsDir(t, y)
    PROVE  LET made == Placed(new, q \o Suffix(p, y), Dir)
           IN  Copying(t, p, q, (todo \ {y}) \cup Children(made, y), made)
<1> DEFINE d == q \o Suffix(p, y)
           made == Placed(new, d, Dir)
           done == Sofar(t, p, q, todo)
           next == (todo \ {y}) \cup Children(made, y)
<1>1. /\ Sound(t) /\ p \in Path /\ q \in Path
      /\ y \in Sources(t, p, q) \ done /\ y \in Path /\ d \in Path /\ t[y] = Dir
      /\ new = Copied(t, p, q, done) /\ done \in SUBSET Sources(t, p, q)
  <2>1. Sound(t) /\ p \in Path /\ q \in Path
    BY DEF Copyable
  <2>2. y \in Sources(t, p, q) \ done /\ y \in Path /\ d \in Path
    BY CopyingAt
  <2>3. new = Copied(t, p, q, done) /\ done \in SUBSET Sources(t, p, q) /\ t[y] = Dir
    BY DEF Copying, Sofar, IsDir
  <2> QED BY <2>1, <2>2, <2>3
<1>2. made = Copied(t, p, q, done \cup {y})
  BY <1>1, CopiedOneMore
<1>3. done \cup {y} \in SUBSET Sources(t, p, q)
  BY <1>1
<1>4. \A x \in Sources(t, p, q) : x \in DOMAIN t /\ x \in Path /\ IsPrefix(p, x) /\ ~IsPrefix(q, x)
  BY <1>1, SourcePath
<1> HIDE DEF made, done, next, d
<1>5. ASSUME NEW z \in Children(made, y)
      PROVE  /\ z \in Path /\ z # << >> /\ Front(z) = y
             /\ z = q \/ z \in Sources(t, p, q)
  <2>1. z \in DOMAIN made /\ z # << >> /\ Front(z) = y
    BY DEF Children
  <2>2. \/ \E x \in done \cup {y} : z = q \o Suffix(p, x)
        \/ z \in DOMAIN t /\ ~IsPrefix(q, z)
    BY <1>1, <1>2, <1>3, <2>1, CopiedTree
  <2>3. CASE \E x \in done \cup {y} : z = q \o Suffix(p, x)
    <3>1. z \in Path /\ IsPrefix(q, z)
      BY <1>1, <1>3, <2>3, SourcePath
    <3>2. q = z
      BY <1>1, <1>4, <2>1, <3>1, PrefixOfFront
    <3> QED BY <2>1, <3>1, <3>2
  <2>4. CASE z \in DOMAIN t /\ ~IsPrefix(q, z)
    <3>1. z \in Path
      BY <1>1, <2>4, UnderSound
    <3>2. IsPrefix(p, z)
      BY <1>1, <1>4, <2>1, <3>1, PrefixOfFront
    <3> QED BY <2>1, <2>4, <3>1, <3>2 DEF Sources, Under
  <2> QED BY <2>2, <2>3, <2>4
<1>6. \A z \in todo : z = q \/ z \in Sources(t, p, q)
  BY DEF Copying
<1>7. \A x, z \in todo : IsPrefix(x, z) => x = z
  BY DEF Copying
<1>8. \A z \in todo : z \in Path
  BY <1>1, <1>4, <1>6
<1>9. \A x \in Children(t, y) : ~IsPrefix(q, x) => x \in Children(made, y)
  <2>1. \A x \in DOMAIN t : ~IsPrefix(q, x) => x \in DOMAIN made
    BY <1>1, <1>2, <1>3, CopiedTree
  <2> QED BY <2>1 DEF Children
<1>10. Sofar(t, p, q, next) = done \cup {y}
  <2>1. ASSUME NEW x \in Sources(t, p, q), \A z \in next : ~IsPrefix(z, x), x # y
        PROVE  x \in done
    <3>1. x \in DOMAIN t /\ x \in Path /\ ~IsPrefix(q, x)
      BY <1>4
    <3>2. ~IsPrefix(y, x)
      <4>1. ASSUME IsPrefix(y, x) PROVE FALSE
        <5>1. PICK z \in Children(t, y) : IsPrefix(z, x)
          BY <1>1, <2>1, <3>1, <4>1, EntryTowards
        <5>2. z \in Path
          BY <1>1, UnderSound DEF Children
        <5>3. ~IsPrefix(q, z)
          BY <1>1, <3>1, <5>1, <5>2, PrefixTransitive
        <5>4. z \in next
          BY <1>9, <5>3 DEF next
        <5> QED BY <2>1, <5>1, <5>4
      <4> QED BY <4>1
    <3> QED BY <2>1, <3>2 DEF done, next, Sofar
  <2>2. ASSUME NEW x \in done, NEW z \in next PROVE ~IsPrefix(z, x)
    <3>1. x \in Sources(t, p, q) /\ \A w \in todo : ~IsPrefix(w, x)
      BY DEF done, Sofar
    <3>2. CASE z \in todo
      BY <3>1, <3>2
    <3>3. CASE z \in Children(made, y)
      <4>1. z \in Path /\ z # << >> /\ IsPrefix(y, z)
        BY <1>1, <1>5, <3>3, FrontPath
      <4>2. ~IsPrefix(y, x)
        BY <3>1
      <4> QED BY <1>1, <1>4, <3>1, <4>1, <4>2, PrefixTransitive
    <3> QED BY <3>2, <3>3 DEF next
  <2>3. ASSUME NEW z \in next PROVE ~IsPrefix(z, y)
    <3>1. CASE z \in todo \ {y}
      BY <1>7, <3>1
    <3>2. CASE z \in Children(made, y)
      <4>1. z \in Path /\ z # << >> /\ Front(z) = y
        BY <1>5, <3>2
      <4>2. IsPrefix(y, z) /\ y # z
        BY <1>1, <4>1, PrefixOfFront, PrefixReflexive
      <4>3. Len(y) = Len(z) - 1 /\ Len(z) \in Nat
        BY <4>1, FrontPath, PathLength
      <4>4. Len(y) <= Len(z)
        BY <4>3
      <4> QED BY <1>1, <4>1, <4>2, <4>4, PrefixAntisymmetric
    <3> QED BY <3>1, <3>2 DEF next
  <2> QED BY <1>1, <2>1, <2>2, <2>3 DEF Sofar, done
<1>11. ASSUME NEW z \in next
       PROVE  \/ z = q
              \/ /\ z \in Sources(t, p, q)
                 /\ z = p \/ (z # << >> /\ Front(z) \in done \cup {y})
  <2>1. CASE z \in todo
    BY <2>1 DEF Copying, done
  <2>2. CASE z \in Children(made, y)
    BY <1>5, <2>2
  <2> QED BY <2>1, <2>2 DEF next
<1>12. ASSUME NEW x \in next, NEW z \in next, IsPrefix(x, z) PROVE x = z
  <2>1. CASE x \in todo \ {y} /\ z \in todo \ {y}
    BY <1>7, <1>12, <2>1
  <2>2. CASE x \in todo \ {y} /\ z \in Children(made, y)
    <3>1. z \in Path /\ z # << >> /\ Front(z) = y /\ x \in Path
      BY <1>5, <1>8, <2>2
    <3>2. x # z => IsPrefix(x, y)
      BY <1>12, <3>1, PrefixOfFront
    <3> QED BY <1>7, <2>2, <3>2
  <2>3. CASE x \in Children(made, y) /\ z \in todo \ {y}
    <3>1. x \in Path /\ x # << >> /\ Front(x) = y /\ z \in Path
      BY <1>5, <1>8, <2>3
    <3>2. IsPrefix(y, x)
      BY <3>1, FrontPath
    <3>3. IsPrefix(y, z)
      BY <1>1, <1>12, <3>1, <3>2, PrefixTransitive
    <3> QED BY <1>7, <2>3, <3>3
  <2>4. CASE x \in Children(made, y) /\ z \in Children(made, y)
    <3>1. /\ x \in Path /\ x # << >> /\ Front(x) = y
          /\ z \in Path /\ z # << >> /\ Front(z) = y
      BY <1>5, <2>4
    <3>2. Len(x) \in Nat /\ Len(z) \in Nat /\ Len(y) = Len(x) - 1 /\ Len(y) = Len(z) - 1
      BY <3>1, FrontPath, PathLength
    <3>3. Len(z) <= Len(x)
      BY <3>2
    <3> QED BY <1>12, <3>1, <3>3, PrefixAntisymmetric
  <2> QED BY <2>1, <2>2, <2>3, <2>4 DEF next
<1>13. Copying(t, p, q, next, made)
  BY <1>2, <1>10, <1>11, <1>12 DEF Copying
<1> QED BY <1>13 DEF next, made, d

\* A file is copied.
LEMMA CopyingFile ==
    ASSUME NEW t, NEW p, NEW q, Copyable(t, p, q), NEW todo, NEW new,
           Copying(t, p, q, todo, new), NEW y \in todo, y # q, ~IsDir(t, y)
    PROVE  Copying(t, p, q, todo \ {y}, Placed(new, q \o Suffix(p, y), t[y]))
<1> DEFINE d == q \o Suffix(p, y)
           made == Placed(new, d, t[y])
           done == Sofar(t, p, q, todo)
           next == todo \ {y}
<1>1. /\ Sound(t) /\ p \in Path /\ q \in Path
      /\ y \in Sources(t, p, q) \ done /\ y \in Path
      /\ new = Copied(t, p, q, done) /\ done \in SUBSET Sources(t, p, q)
  <2>1. Sound(t) /\ p \in Path /\ q \in Path
    BY DEF Copyable
  <2>2. y \in Sources(t, p, q) \ done /\ y \in Path
    BY CopyingAt
  <2>3. new = Copied(t, p, q, done) /\ done \in SUBSET Sources(t, p, q)
    BY DEF Copying, Sofar
  <2> QED BY <2>1, <2>2, <2>3
<1>2. made = Copied(t, p, q, done \cup {y})
  BY <1>1, CopiedOneMore
<1> HIDE DEF made, d
<1>3. Sofar(t, p, q, next) = done \cup {y}
  <2>1. ASSUME NEW x \in Sources(t, p, q), x # y PROVE ~IsPrefix(y, x)
    <3>1. x \in DOMAIN t
      BY <1>1, SourcePath
    <3> QED BY <1>1, <2>1, <3>1, EntryTowards
  <2>2. \A z \in next : ~IsPrefix(z, y)
    BY DEF Copying
  <2> QED BY <1>1, <2>1, <2>2 DEF Sofar
<1>4. \A z \in next : \/ z = q
                      \/ /\ z \in Sources(t, p, q)
                         /\ z = p \/ (z # << >> /\ Front(z) \in done \cup {y})
  BY DEF Copying
<1>5. \A x, z \in next : IsPrefix(x, z) => x = z
  BY DEF Copying
<1>6. Copying(t, p, q, next, made)
  BY <1>2, <1>3, <1>4, <1>5 DEF Copying
<1> QED BY <1>6 DEF made, d

-----------------------------------------------------------------------------
(* MOVE and COPY without interference.                                     *)

\* Nothing that is moved or copied gets a path beyond the limit.
Fits(r, b) == \A x \in Sources(b, r.path, r.dest) : Len(r.dest \o Suffix(r.path, x)) <= MaxDepth

\* A COPY of what CopyIsTheTree is about, that has room.
WholeTree(r, b) ==
    ~DepthZero(r) /\ Copyable(b, r.path, r.dest) /\ ~IsFile(b, r.dest)

\* What the answer of a MOVE or COPY says of the directory t, when b was there before.
Outcome(h, b, t) ==
    LET r == h.req
        p == r.path
        q == r.dest
    IN  /\ h.status \in {201, 204, 500} => q \in Path
        /\ r.op = "MOVE" /\ h.status = 201 => t = Moved(b, p, q)
        /\ r.op = "MOVE" /\ h.status = 500 => PartlyRemoved(t, b, q)
        /\ r.op = "COPY" /\ h.status \in {201, 204, 500} /\ WholeTree(r, b) =>
              /\ h.status = IF q \in DOMAIN b THEN 204 ELSE 201
              /\ t = Copied(b, p, q, Sources(b, p, q))

\* A MOVE or COPY on its way, with the directory b when it came and t now.
Transfers(h, b, t) ==
    LET r == h.req
        p == r.path
        q == r.dest
    IN  /\ Sound(b)
        /\ h.pc \in {"decide", "remove", "rename", "copy"} => p \in DOMAIN b /\ q \in Path
        /\ h.pc = "decide" => t = b /\ h.status # 500
        /\ h.pc = "remove" =>
              /\ q \in DOMAIN b /\ q \in DOMAIN t
              /\ PartlyRemoved(t, b, q)
              /\ h.status # 500 /\ h.exists /\ ~h.flag /\ OverwriteT(r)
        /\ h.pc = "rename" => \/ t = b
                              \/ q \in DOMAIN b /\ t = Without(b, Under(b, q))
        /\ h.pc = "copy" /\ WholeTree(r, b) =>
              /\ Copying(b, p, q, h.todo, t)
              /\ h.status # 500 /\ ~h.flag
              /\ h.exists <=> q \in DOMAIN b
              /\ h.exists => OverwriteT(r)
        /\ h.pc = "done" => Outcome(h, b, t)

\* What holds of the MOVE or COPY that nothing disturbs.
TransferInv ==
    \A c \in Clients : alone = c /\ conn[c].req.op \in {"COPY", "MOVE"} =>
        Transfers(conn[c], before, tree)

\* Each step of one keeps it.
LEMMA TransferReceived ==
    ASSUME Inv, NEW c \in Clients, NEW r \in Requests[c], Receive(c, r),
           before' = tree, tree' = tree, r.op \in {"COPY", "MOVE"}
    PROVE  Transfers(conn'[c], before', tree')
<1> DEFINE h == IF Answer(r) # Later
                THEN [Idle EXCEPT !.pc = "done", !.req = r, !.status = Answer(r)]
                ELSE [Idle EXCEPT !.pc = FirstStep(r), !.req = r, !.todo = {}]
<1>1. conn'[c] = h
  <2>1. conn' = [conn EXCEPT ![c] = h] /\ c \in DOMAIN conn
    BY DEF Receive, Changing, Inv, ConnInv
  <2> HIDE DEF h
  <2> QED BY <2>1
<1>2. Sound(tree)
  BY DEF Inv, TreeInv
<1>3. CASE Answer(r) # Later
  <2>1. Answer(r) \in {403, 404, 400}
    BY <1>3 DEF Answer
  <2>2. h.pc = "done" /\ h.req = r /\ h.status \notin {201, 204, 500}
    BY <1>3, <2>1 DEF Idle
  <2> HIDE DEF h
  <2> QED BY <1>1, <1>2, <2>2 DEF Transfers, Outcome
<1>4. CASE Answer(r) = Later
  <2>1. h.pc = "decide" /\ h.req = r /\ h.status = 0
    BY <1>4 DEF Idle, FirstStep
  <2>2. r.path \in DOMAIN tree /\ r.dest \in Path
    BY <1>2, <1>4, Accepted
  <2> HIDE DEF h
  <2> QED BY <1>1, <1>2, <2>1, <2>2 DEF Transfers
<1> QED BY <1>3, <1>4

LEMMA NothingUnder ==
    ASSUME NEW t, Sound(t), NEW q \in Path, q \notin DOMAIN t
    PROVE  Under(t, q) = {}
<1>1. ASSUME NEW x \in DOMAIN t, IsPrefix(q, x) PROVE FALSE
  <2>1. IsDir(t, q)
    BY <1>1, EntryTowards
  <2> QED BY <2>1 DEF IsDir
<1> QED BY <1>1 DEF Under

LEMMA WithoutMore ==
    ASSUME NEW t, NEW S, NEW x
    PROVE  Without(Without(t, S), {x}) = Without(t, S \cup {x})
<1> DEFINE less == Without(t, S)
           D == DOMAIN t \cap (DOMAIN t \ S)
           E == DOMAIN t \cap (DOMAIN t \ (S \cup {x}))
<1>1. less = [y \in D |-> t[y]]
  BY DEF Without, Restrict
<1>2. DOMAIN less = D /\ \A y \in D : less[y] = t[y]
  BY <1>1
<1>3. Without(less, {x}) = [y \in DOMAIN less \cap (DOMAIN less \ {x}) |-> less[y]]
  BY DEF Without, Restrict
<1>4. Without(t, S \cup {x}) = [y \in E |-> t[y]]
  BY DEF Without, Restrict
<1>5. DOMAIN less \cap (DOMAIN less \ {x}) = E /\ \A y \in E : y \in D
  BY <1>2
<1> HIDE DEF less, D, E
<1>6. \A y \in E : less[y] = t[y]
  BY <1>2, <1>5
<1> QED BY <1>3, <1>4, <1>5, <1>6 DEF less

LEMMA TransferDecided ==
    ASSUME Inv, NEW c \in Clients, Decide(c), NEW b, Transfers(conn[c], b, tree)
    PROVE  Transfers(conn'[c], b, tree')
<1> DEFINE r == conn[c].req
           p == r.path
           q == r.dest
           exists == q \in DOMAIN tree
           isFile == IsFile(tree, q)
           clear == IsDir(tree, p) /\ OverwriteT(r) /\ exists /\ ~DepthZero(r) /\ ~isFile
           pc == IF clear THEN "remove" ELSE IF r.op = "COPY" THEN "copy" ELSE "rename"
           todo == IF clear THEN {} ELSE {p}
           h == [conn[c] EXCEPT !.pc = pc, !.todo = todo, !.exists = exists, !.flag = isFile]
<1>1. conn[c].pc = "decide" /\ Dispatched(c) /\ conn[c] \in Handler /\ tree' = tree
  BY DEF Decide, RefuseOverwrite, SameTree, Inv, ConnInv
<1>2. r.op \in {"COPY", "MOVE"} /\ q \in Path
  BY <1>1 DEF Dispatched
<1>3. Sound(b) /\ p \in DOMAIN b /\ tree = b /\ conn[c].status # 500
  BY <1>1 DEF Transfers
<1>4. \/ Reply(c, 409) \/ Reply(c, 412) \/ Reply(c, 403)
      \/ conn' = [conn EXCEPT ![c] = h] /\ (OverwriteT(r) \/ ~exists)
  BY DEF Decide, SamePath
<1>5. CASE Reply(c, 409) \/ Reply(c, 412) \/ Reply(c, 403)
  <2>1. 409 \in Nat /\ 412 \in Nat /\ 403 \in Nat
    OBVIOUS
  <2>2. /\ conn'[c].req = r /\ conn'[c].pc = "done"
        /\ conn'[c].status \in {409, 412, 403}
    BY <1>1, <1>5, <2>1, ReplyStep DEF Inv
  <2>3. conn'[c].status \notin {201, 204, 500}
    BY <2>2
  <2> QED BY <1>3, <2>2, <2>3 DEF Transfers, Outcome
<1>6. CASE conn' = [conn EXCEPT ![c] = h] /\ (OverwriteT(r) \/ ~exists)
  <2>1. conn'[c] = h
    <3>1. c \in DOMAIN conn
      BY DEF Inv, ConnInv
    <3> HIDE DEF h
    <3> QED BY <1>6, <3>1
  <2>2. /\ h.pc = pc /\ h.todo = todo /\ h.exists = exists /\ h.flag = isFile
        /\ h.req = r /\ h.status = conn[c].status
    <3> HIDE DEF pc, todo, exists, isFile
    <3> QED BY <1>1 DEF Handler
  <2> HIDE DEF h
  <2>3. CASE clear
    <3>1. h.pc = "remove"
      BY <2>2, <2>3
    <3>2. q \in DOMAIN b /\ h.exists /\ ~h.flag /\ OverwriteT(r)
      BY <1>3, <2>2, <2>3
    <3>3. PartlyRemoved(tree, b, q)
      <4>1. Without(b, {}) = b /\ {} \in SUBSET Under(b, q)
        BY <1>3, WithoutNothing
      <4> QED BY <1>3, <4>1 DEF PartlyRemoved
    <3> QED BY <1>1, <1>2, <1>3, <2>1, <2>2, <3>1, <3>2, <3>3 DEF Transfers
  <2>4. CASE ~clear /\ r.op = "MOVE"
    <3>1. h.pc = "rename"
      BY <2>2, <2>4
    <3> QED BY <1>1, <1>2, <1>3, <2>1, <2>2, <3>1 DEF Transfers
  <2>5. CASE ~clear /\ r.op = "COPY"
    <3>1. h.pc = "copy" /\ h.todo = {p}
      BY <2>2, <2>5
    <3>2. ASSUME WholeTree(r, b)
          PROVE  Copying(b, p, q, {p}, tree) /\ ~exists /\ ~isFile
      <4>1. Copyable(b, p, q) /\ IsDir(tree, p) /\ ~DepthZero(r) /\ ~isFile
        BY <1>3, <3>2 DEF WholeTree, Copyable
      <4>2. ~exists
        BY <1>6, <2>5, <4>1
      <4>3. Under(b, q) = {}
        BY <1>2, <1>3, <4>2, NothingUnder
      <4>4. Without(b, {}) = b
        BY <1>3, WithoutNothing
      <4> QED BY <1>3, <4>1, <4>2, <4>3, <4>4, CopyingStarts
    <3> QED BY <1>1, <1>2, <1>3, <2>1, <2>2, <3>1, <3>2, ZenonT(50) DEF Transfers
  <2> QED BY <1>2, <2>3, <2>4, <2>5
<1> QED BY <1>4, <1>5, <1>6

LEMMA TransferRemoved ==
    ASSUME Inv, NEW c \in Clients, RemoveNext(c), conn[c].req.op \in {"COPY", "MOVE"},
           NEW b, Transfers(conn[c], b, tree)
    PROVE  Transfers(conn'[c], b, tree')
<1> DEFINE r == conn[c].req
           p == r.path
           q == r.dest
<1>1. /\ conn[c].pc \in Removing /\ conn[c] \in Handler /\ c \in DOMAIN conn
      /\ Sound(tree) /\ Sound(b) /\ q \in Path /\ Target(r) = q
  <2>1. conn[c].pc \in Removing /\ Dispatched(c) /\ conn[c] \in Handler /\ c \in DOMAIN conn
    BY DEF RemoveNext, Inv, ConnInv
  <2>2. Sound(tree) /\ Sound(b)
    BY DEF Inv, TreeInv, Transfers
  <2>3. q \in Path /\ Target(r) = q
    BY <2>1 DEF Dispatched, Target
  <2> QED BY <2>1, <2>2, <2>3
<1>2. PICK x \in Under(tree, q) :
        /\ Children(tree, x) = {}
        /\ tree' = Without(tree, {x})
        /\ IF x # q
           THEN conn' = conn
           ELSE IF conn[c].pc = "orphan"
           THEN Reply(c, 204)
           ELSE Transfer(c)
  BY <1>1 DEF RemoveNext, SetTree, Becomes
<1>3. CASE conn[c].pc = "orphan"
  <2>1. 204 \in Nat
    OBVIOUS
  <2>2. CASE x # q
    BY <1>1, <1>2, <1>3, <2>2 DEF Transfers
  <2>3. CASE x = q
    <3>1. conn'[c].pc = "away"
      BY <1>2, <1>3, <2>1, <2>3, ReplyStep DEF Inv
    <3> QED BY <1>1, <3>1 DEF Transfers
  <2> QED BY <2>2, <2>3
<1>4. CASE conn[c].pc = "remove"
  <2>1. /\ p \in DOMAIN b /\ q \in DOMAIN b /\ q \in DOMAIN tree
        /\ PartlyRemoved(tree, b, q)
        /\ conn[c].status # 500 /\ conn[c].exists /\ ~conn[c].flag /\ OverwriteT(r)
    BY <1>4 DEF Transfers
  <2>2. PICK S \in SUBSET Under(b, q) : tree = Without(b, S)
    BY <2>1 DEF PartlyRemoved
  <2>3. tree' = Without(b, S \cup {x})
    <3>1. tree' = Without(Without(b, S), {x})
      BY <1>2, <2>2
    <3>2. \A y : Without(Without(b, S), {y}) = Without(b, S \cup {y})
      BY WithoutMore, ZenonT(30)
    <3> QED BY <3>1, <3>2
  <2>4. DOMAIN tree = DOMAIN b \ S /\ DOMAIN tree' = DOMAIN tree \ {x}
    BY <1>2, <2>2 DEF Without, Restrict
  <2>5. S \cup {x} \in SUBSET Under(b, q)
    BY <1>2, <2>4 DEF Under
  <2>6. CASE x # q
    <3>1. conn'[c] = conn[c]
      BY <1>2, <2>6
    <3>2. q \in DOMAIN tree'
      BY <2>1, <2>4, <2>6
    <3>3. PartlyRemoved(tree', b, q)
      BY <2>3, <2>5 DEF PartlyRemoved
    <3> QED BY <1>1, <1>4, <2>1, <3>1, <3>2, <3>3 DEF Transfers
  <2>7. CASE x = q
    <3> DEFINE pc == IF r.op = "COPY" THEN "copy" ELSE "rename"
               h == [conn[c] EXCEPT !.pc = pc, !.todo = {p}]
    <3>1. conn'[c] = h
      BY <1>1, <1>2, <1>4, <2>7 DEF Transfer
    <3>2. /\ h.pc = pc /\ h.todo = {p} /\ h.req = r
          /\ h.status = conn[c].status /\ h.exists = conn[c].exists /\ h.flag = conn[c].flag
      BY <1>1 DEF Handler
    <3>3. \A y \in Under(tree, q) : y = q
      BY <1>1, <1>2, <2>7, EntryTowards DEF Under
    <3>4. S \cup {x} = Under(b, q)
      BY <2>4, <2>5, <2>7, <3>3 DEF Under
    <3>5. tree' = Without(b, Under(b, q))
      BY <2>3, <3>4
    <3>6. WholeTree(r, b) => Copying(b, p, q, {p}, tree')
      BY <3>5, CopyingStarts DEF WholeTree
    <3> HIDE DEF h
    <3>7. pc \in {"copy", "rename"}
      OBVIOUS
    <3> HIDE DEF pc
    <3> QED BY <1>1, <2>1, <3>1, <3>2, <3>5, <3>6, <3>7 DEF Transfers
  <2> QED BY <2>6, <2>7
<1> QED BY <1>1, <1>3, <1>4 DEF Removing

\* A removal that fails may have removed a part of the destination.
LEMMA TransferRemovalFails ==
    ASSUME Inv, NEW c \in Clients, RemoveFails(c), conn[c].req.op = "MOVE",
           NEW b, Transfers(conn[c], b, tree)
    PROVE  Transfers(conn'[c], b, tree')
<1>1. conn[c].pc \in Removing /\ Reply(c, 500) /\ tree' = tree /\ Dispatched(c) /\ 500 \in Nat
  BY DEF RemoveFails, Inv, ConnInv
<1>2. /\ conn'[c].req = conn[c].req /\ conn'[c].status = 500
      /\ conn'[c].pc = IF conn[c].pc = "orphan" THEN "away" ELSE "done"
  BY <1>1, ReplyStep DEF Inv
<1>3. Sound(b)
  BY DEF Transfers
<1>4. CASE conn[c].pc = "orphan"
  BY <1>2, <1>3, <1>4 DEF Transfers
<1>5. CASE conn[c].pc = "remove"
  <2>1. conn[c].req.dest \in Path /\ PartlyRemoved(tree, b, conn[c].req.dest)
    BY <1>5 DEF Transfers
  <2>2. Outcome(conn'[c], b, tree')
    BY <1>1, <1>2, <2>1 DEF Outcome
  <2> QED BY <1>2, <1>3, <1>5, <2>2 DEF Transfers
<1> QED BY <1>1, <1>4, <1>5 DEF Removing

\* A rename to a place that was emptied before.
LEMMA MovedAfterRemoval ==
    ASSUME NEW b, Sound(b), NEW p \in Path, NEW q \in Path, ~IsPrefix(p, q), ~IsPrefix(q, p)
    PROVE  Moved(Without(b, Under(b, q)), p, q) = Moved(b, p, q)
<1> DEFINE t == Without(b, Under(b, q))
           new == {q \o Suffix(p, x) : x \in Under(b, p)}
           kept == DOMAIN b \ (Under(b, p) \cup Under(b, q))
<1>1. t = [x \in DOMAIN b \cap (DOMAIN b \ Under(b, q)) |-> b[x]]
  BY DEF Without, Restrict
<1>2. DOMAIN t = DOMAIN b \ Under(b, q) /\ \A x \in DOMAIN t : t[x] = b[x]
  BY <1>1
<1>3. ASSUME NEW x \in Under(b, p) PROVE ~IsPrefix(q, x) /\ x \in Path /\ IsPrefix(p, x)
  <2>1. x \in Path /\ IsPrefix(p, x)
    BY UnderSound DEF Under
  <2> QED BY <2>1, PrefixesRelated DEF Related
<1> HIDE DEF t
<1>4. Under(t, p) = Under(b, p) /\ Under(t, q) = {}
  <2>1. \A x \in DOMAIN t : x \in DOMAIN b /\ ~IsPrefix(q, x)
    BY <1>2 DEF Under
  <2>2. \A x \in Under(b, p) : x \in DOMAIN t
    BY <1>2, <1>3 DEF Under
  <2>3. \A x \in Under(b, p) : x \in Under(t, p)
    BY <2>2 DEF Under
  <2>4. \A x \in Under(t, p) : x \in Under(b, p)
    BY <2>1 DEF Under
  <2>5. Under(t, q) = {}
    BY <2>1 DEF Under
  <2> QED BY <2>3, <2>4, <2>5
<1>5. DOMAIN t \ (Under(t, p) \cup Under(t, q)) = kept
  BY <1>2, <1>4
<1>6. {q \o Suffix(p, x) : x \in Under(t, p)} = new
  BY <1>4
<1>7. Moved(t, p, q) = [r \in new \cup kept |-> IF r \in new THEN t[p \o Suffix(q, r)] ELSE t[r]]
  BY <1>5, <1>6 DEF Moved
<1>8. Moved(b, p, q) = [r \in new \cup kept |-> IF r \in new THEN b[p \o Suffix(q, r)] ELSE b[r]]
  BY DEF Moved
<1>9. ASSUME NEW r \in new PROVE t[p \o Suffix(q, r)] = b[p \o Suffix(q, r)]
  <2>1. PICK x \in Under(b, p) : r = q \o Suffix(p, x)
    OBVIOUS
  <2>2. Suffix(p, x) \in Path /\ p \o Suffix(p, x) = x
    BY <1>3, SuffixPath
  <2>3. Suffix(q, r) = Suffix(p, x)
    BY <2>1, <2>2, ConcatPath
  <2>4. x \in DOMAIN t
    BY <1>2, <1>3 DEF Under
  <2> QED BY <1>2, <2>2, <2>3, <2>4
<1>10. ASSUME NEW r \in kept PROVE t[r] = b[r]
  BY <1>2
<1> HIDE DEF new, kept
<1>11. \A r \in new \cup kept : (IF r \in new THEN t[p \o Suffix(q, r)] ELSE t[r])
                              = (IF r \in new THEN b[p \o Suffix(q, r)] ELSE b[r])
  BY <1>9, <1>10
<1> QED BY <1>7, <1>8, <1>11 DEF t

LEMMA TransferRenamed ==
    ASSUME Inv, NEW c \in Clients, Rename(c), NEW b, Transfers(conn[c], b, tree)
    PROVE  Transfers(conn'[c], b, tree')
<1> DEFINE r == conn[c].req
           p == r.path
           q == r.dest
<1>1. conn[c].pc = "rename" /\ Dispatched(c) /\ Sound(b) /\ Sound(tree)
  BY DEF Rename, Inv, ConnInv, TreeInv, Transfers
<1>2. r.op = "MOVE" /\ p \in Path /\ q \in Path /\ p # q
  BY <1>1, PathsAreShort DEF Dispatched
<1>3. /\ p \in DOMAIN b
      /\ tree = b \/ (q \in DOMAIN b /\ tree = Without(b, Under(b, q)))
  BY <1>1 DEF Transfers
<1>4. 201 \in Nat /\ 500 \in Nat
  OBVIOUS
<1>5. CASE CanRename(tree, p, q) /\ Reply(c, 201) /\ tree' = Moved(tree, p, q)
  <2>1. Reply(c, 201) /\ tree' = Moved(tree, p, q)
    BY <1>5
  <2>2. /\ conn'[c].pc = "done" /\ conn'[c].req = r /\ conn'[c].status = 201
    BY <1>1, <1>4, <2>1, ReplyStep DEF Inv
  <2>3. Moved(tree, p, q) = Moved(b, p, q)
    <3>1. CASE tree = b
      BY <3>1
    <3>2. CASE tree = Without(b, Under(b, q))
      <4>1. p \in DOMAIN tree /\ ~IsStrictPrefix(p, q)
        BY <1>5 DEF CanRename
      <4>2. ~IsPrefix(q, p)
        BY <3>2, <4>1 DEF Without, Restrict, Under
      <4>3. ~IsPrefix(p, q)
        BY <1>2, <4>1 DEF IsStrictPrefix
      <4> QED BY <1>1, <1>2, <3>2, <4>2, <4>3, MovedAfterRemoval
    <3> QED BY <1>3, <3>1, <3>2
  <2>4. conn'[c].status # 500
    BY <2>2
  <2>5. Outcome(conn'[c], b, tree')
    BY <1>2, <2>1, <2>2, <2>3, <2>4 DEF Outcome
  <2> QED BY <1>1, <2>2, <2>5 DEF Transfers
<1>6. CASE Reply(c, 500) /\ tree' = tree
  <2>1. /\ conn'[c].pc = "done" /\ conn'[c].req = r /\ conn'[c].status = 500
    BY <1>1, <1>4, <1>6, ReplyStep DEF Inv
  <2>2. PartlyRemoved(tree, b, q)
    <3>1. tree = b => tree = Without(b, {}) /\ {} \in SUBSET Under(b, q)
      BY <1>1, WithoutNothing
    <3> QED BY <1>3, <3>1 DEF PartlyRemoved
  <2>3. Outcome(conn'[c], b, tree')
    BY <1>2, <1>6, <2>1, <2>2 DEF Outcome
  <2> QED BY <1>1, <2>1, <2>3 DEF Transfers
<1>7. \/ CanRename(tree, p, q) /\ Reply(c, 201) /\ tree' = Moved(tree, p, q)
      \/ Reply(c, 500) /\ tree' = tree
  BY DEF Rename, SameTree
<1> QED BY <1>5, <1>6, <1>7

\* do_copy for one source path of a copy that nothing disturbs.
LEMMA CopyNextAlone ==
    ASSUME Inv, NEW c \in Clients, CopyNext(c), NEW b, WholeTree(conn[c].req, b),
           Copying(b, conn[c].req.path, conn[c].req.dest, conn[c].todo, tree), ~conn[c].flag
    PROVE  \E todo : /\ conn' = [conn EXCEPT ![c].todo = todo]
                     /\ Copying(b, conn[c].req.path, conn[c].req.dest, todo, tree')
<1> DEFINE r == conn[c].req
           p == r.path
           q == r.dest
           d(y) == q \o Suffix(p, y)
           asDir(y) == IF y = p THEN ~conn[c].flag ELSE IsDir(tree, y)
           made(y) == IF asDir(y) /\ CanMake(tree, d(y)) THEN Placed(tree, d(y), Dir) ELSE tree
           file(y) == IF asDir(y) THEN Append(d(y), Name(y)) ELSE d(y)
           rest(y) == conn[c].todo \ {y}
           some(y) == rest(y) \cup IF DepthZero(r) THEN {} ELSE Children(made(y), y)
<1>1. \E y \in conn[c].todo :
        \/ y = q /\ conn' = [conn EXCEPT ![c].todo = rest(y)] /\ SameTree
        \/ y # q /\ y \notin DOMAIN tree
        \/ /\ y # q /\ IsDir(tree, y)
           /\ conn' = [conn EXCEPT ![c].todo = some(y)] /\ SetTree(made(y))
        \/ /\ y # q /\ ~IsDir(tree, y) /\ CanWrite(made(y), file(y))
           /\ SetTree(Placed(made(y), file(y), IF file(y) = y THEN Partial ELSE tree[y]))
           /\ conn' = [conn EXCEPT ![c].todo = rest(y)]
        \/ y # q /\ ~IsDir(tree, y) /\ ~CanWrite(made(y), file(y))
  BY ZenonT(60) DEF CopyNext, OwnDest
<1>2. PICK y \in conn[c].todo :
        \/ y = q /\ conn' = [conn EXCEPT ![c].todo = rest(y)] /\ SameTree
        \/ y # q /\ y \notin DOMAIN tree
        \/ /\ y # q /\ IsDir(tree, y)
           /\ conn' = [conn EXCEPT ![c].todo = some(y)] /\ SetTree(made(y))
        \/ /\ y # q /\ ~IsDir(tree, y) /\ CanWrite(made(y), file(y))
           /\ SetTree(Placed(made(y), file(y), IF file(y) = y THEN Partial ELSE tree[y]))
           /\ conn' = [conn EXCEPT ![c].todo = rest(y)]
        \/ y # q /\ ~IsDir(tree, y) /\ ~CanWrite(made(y), file(y))
  BY <1>1, Zenon
<1>3. Copyable(b, p, q) /\ ~DepthZero(r) /\ b[p] = Dir
  BY DEF WholeTree, Copyable, IsDir
<1>4. CASE y = q
  <2>1. tree' = tree /\ conn' = [conn EXCEPT ![c].todo = rest(y)]
    BY <1>2, <1>4 DEF SameTree
  <2>2. Copying(b, p, q, rest(y), tree)
    BY <1>3, <1>4, CopyingSkips
  <2> QED BY <2>1, <2>2
<1>5. ASSUME y # q
      PROVE  /\ y \in DOMAIN tree /\ tree[y] = b[y] /\ y \in DOMAIN b
             /\ d(y) \notin DOMAIN tree /\ ParentIsDir(tree, d(y)) /\ Len(d(y)) <= MaxDepth
  <2> DEFINE left == conn[c].todo
  <2>1. Copying(b, p, q, left, tree) /\ y \in left
    OBVIOUS
  <2> HIDE DEF left, p, q
  <2>2. /\ y \in Sources(b, p, q)
        /\ y \in DOMAIN tree /\ tree[y] = b[y]
        /\ d(y) \notin DOMAIN tree /\ ParentIsDir(tree, d(y)) /\ Len(d(y)) <= MaxDepth
    BY <1>3, <1>5, <2>1, CopyingAt
  <2>3. y \in DOMAIN b
    BY <2>2 DEF Sources, Under
  <2> QED BY <2>2, <2>3
<1>6. CASE y # q /\ IsDir(tree, y)
  <2>1. asDir(y) /\ IsDir(b, y)
    BY <1>5, <1>6 DEF IsDir
  <2>2. CanMake(tree, d(y))
    BY <1>5, <1>6 DEF CanMake
  <2>3. made(y) = Placed(tree, d(y), Dir)
    BY <2>1, <2>2
  <2>4. some(y) = rest(y) \cup Children(Placed(tree, d(y), Dir), y)
    BY <1>3, <2>3, SMTT(30)
  <2>5. tree' = Placed(tree, d(y), Dir)
        /\ conn' = [conn EXCEPT ![c].todo = rest(y) \cup Children(Placed(tree, d(y), Dir), y)]
    <3> HIDE DEF made, some
    <3> QED BY <1>2, <1>6, <2>3, <2>4 DEF SetTree, Becomes, IsDir
  <2>6. Copying(b, p, q, rest(y) \cup Children(Placed(tree, d(y), Dir), y), Placed(tree, d(y), Dir))
    BY <1>3, <1>6, <2>1, CopyingDirectory
  <2> QED BY <2>5, <2>6
<1>7. CASE y # q /\ ~IsDir(tree, y)
  <2>1. y # p /\ ~IsDir(b, y) /\ ~asDir(y)
    BY <1>3, <1>5, <1>7 DEF IsDir
  <2>2. made(y) = tree /\ file(y) = d(y)
    BY <2>1
  <2>3. CanWrite(tree, d(y))
    BY <1>5, <1>7 DEF CanWrite, IsDir
  <2>4. d(y) # y
    BY <1>5, <1>7
  <2>5. /\ SetTree(Placed(made(y), file(y), IF file(y) = y THEN Partial ELSE tree[y]))
        /\ conn' = [conn EXCEPT ![c].todo = rest(y)]
    <3> HIDE DEF made, file, d
    <3> QED BY <1>2, <1>5, <1>7, <2>2, <2>3
  <2>6. tree' = Placed(tree, d(y), b[y]) /\ conn' = [conn EXCEPT ![c].todo = rest(y)]
    <3> HIDE DEF made, file, d
    <3> QED BY <1>5, <1>7, <2>2, <2>4, <2>5 DEF SetTree, Becomes
  <2>7. Copying(b, p, q, rest(y), Placed(tree, d(y), b[y]))
    BY <1>3, <1>7, <2>1, CopyingFile
  <2> QED BY <2>6, <2>7
<1> QED BY <1>4, <1>6, <1>7

LEMMA TransferCopied ==
    ASSUME Inv, NEW c \in Clients, CopyNext(c), NEW b, Transfers(conn[c], b, tree)
    PROVE  Transfers(conn'[c], b, tree')
<1> DEFINE r == conn[c].req
           p == r.path
           q == r.dest
<1>1. /\ conn[c].pc = "copy" /\ conn'[c].pc = "copy" /\ conn'[c].req = r
      /\ conn[c] \in Handler /\ c \in DOMAIN conn
  BY CopyStep DEF Inv, ConnInv
<1>2. Sound(b) /\ p \in DOMAIN b /\ q \in Path
  BY <1>1 DEF Transfers
<1>3. ASSUME WholeTree(r, b)
      PROVE  /\ Copying(b, p, q, conn'[c].todo, tree')
             /\ conn'[c].status # 500 /\ ~conn'[c].flag
             /\ conn'[c].exists <=> q \in DOMAIN b
             /\ conn'[c].exists => OverwriteT(r)
  <2>1. /\ Copying(b, p, q, conn[c].todo, tree)
        /\ conn[c].status # 500 /\ ~conn[c].flag
        /\ conn[c].exists <=> q \in DOMAIN b
        /\ conn[c].exists => OverwriteT(r)
    BY <1>1, <1>3 DEF Transfers
  <2>2. PICK todo : /\ conn' = [conn EXCEPT ![c].todo = todo]
                    /\ Copying(b, p, q, todo, tree')
    BY <1>3, <2>1, CopyNextAlone
  <2> DEFINE h == [conn[c] EXCEPT !.todo = todo]
  <2>3. conn'[c] = h
    BY <1>1, <2>2
  <2>4. h.todo = todo /\ h.status = conn[c].status /\ h.flag = conn[c].flag
        /\ h.exists = conn[c].exists
    BY <1>1 DEF Handler
  <2> HIDE DEF h
  <2> QED BY <2>1, <2>2, <2>3, <2>4
<1>4. conn'[c].pc \notin {"decide", "remove", "rename", "done"}
  BY <1>1
<1> QED BY <1>1, <1>2, <1>3, <1>4 DEF Transfers

\* When nothing is left, what was copied is the source.
LEMMA TransferCopyEnds ==
    ASSUME Inv, NEW c \in Clients, CopyEnds(c), NEW b, Transfers(conn[c], b, tree)
    PROVE  Transfers(conn'[c], b, tree')
<1> DEFINE r == conn[c].req
           p == r.path
           q == r.dest
           status == IF conn[c].status = 500 THEN 500
                     ELSE IF OverwriteT(r) /\ conn[c].exists THEN 204 ELSE 201
<1>1. conn[c].pc = "copy" /\ conn[c].todo = {} /\ Reply(c, status) /\ tree' = tree
      /\ Dispatched(c)
  BY DEF CopyEnds, SameTree, Inv, ConnInv
<1>2. status \in Nat
  OBVIOUS
<1>3. conn'[c].pc = "done" /\ conn'[c].req = r /\ conn'[c].status = status
  <2> HIDE DEF status
  <2> QED BY <1>1, <1>2, ReplyStep DEF Inv
<1>4. r.op = "COPY" /\ q \in Path /\ Sound(b)
  BY <1>1 DEF Dispatched, Transfers
<1>5. ASSUME WholeTree(r, b)
      PROVE  /\ status = IF q \in DOMAIN b THEN 204 ELSE 201
             /\ tree = Copied(b, p, q, Sources(b, p, q))
  <2>1. /\ Copying(b, p, q, {}, tree) /\ conn[c].status # 500
        /\ conn[c].exists <=> q \in DOMAIN b
        /\ conn[c].exists => OverwriteT(r)
    BY <1>1, <1>5 DEF Transfers
  <2>2. Sofar(b, p, q, {}) = Sources(b, p, q)
    BY DEF Sofar
  <2>3. tree = Copied(b, p, q, Sources(b, p, q))
    BY <2>1, <2>2 DEF Copying
  <2> QED BY <2>1, <2>3
<1> HIDE DEF status
<1>6. Outcome(conn'[c], b, tree')
  BY <1>1, <1>3, <1>4, <1>5 DEF Outcome
<1> QED BY <1>3, <1>4, <1>6 DEF Transfers

LEMMA TransferHandled ==
    ASSUME Inv, NEW c \in Clients, Handle(c), conn[c].req.op \in {"COPY", "MOVE"},
           alone' # Nobody, NEW b, Transfers(conn[c], b, tree)
    PROVE  Transfers(conn'[c], b, tree')
<1>1. Dispatched(c)
  BY DEF Inv, ConnInv
<1>2. CASE \/ EnsureParent(c) \/ MakeParents(c) \/ Create(c) \/ WriteBody(c) \/ WriteFails(c)
           \/ MakeCollection(c) \/ Unlink(c) \/ ListSelf(c) \/ ListNext(c) \/ SearchNext(c)
           \/ ListSkips(c) \/ ListPanics(c) \/ ListEnds(c)
  <2>1. conn[c].pc \in {"parent", "parents", "create", "write", "mkcol", "unlink", "self", "list"}
    BY <1>2 DEF EnsureParent, MakeParents, Create, WriteBody, WriteFails, MakeCollection, Unlink,
                ListSelf, ListNext, SearchNext, ListSkips, ListPanics, ListEnds
  <2> QED BY <1>1, <2>1, SMTT(30) DEF Dispatched
<1>3. ~CopyFails(c)
  BY DEF CopyFails
<1>4. CASE RemoveFails(c)
  <2>1. conn[c].req.op = "MOVE"
    BY <1>4 DEF RemoveFails
  <2> QED BY <1>4, <2>1, TransferRemovalFails
<1> QED BY <1>2, <1>3, <1>4, TransferDecided, TransferRemoved, TransferRenamed,
           TransferCopied, TransferCopyEnds DEF Handle

LEMMA TransferStep ==
    ASSUME Inv, AloneInv, TransferInv, [ZipRun]_zipVars
    PROVE  AloneInv' /\ TransferInv'
<1>1. AloneInv'
  BY AloneStep DEF AloneInv
<1>2. ASSUME NEW a \in Clients, alone' = a, conn'[a].req.op \in {"COPY", "MOVE"}
      PROVE  Transfers(conn'[a], before', tree')
  <2>1. CASE UNCHANGED <<tree, conn, hist>>
    BY <1>2, <2>1 DEF TransferInv, hist
  <2>2. CASE Handle(a) /\ alone = a /\ before' = before
    <3>1. conn[a].req.op \in {"COPY", "MOVE"} /\ alone' # Nobody
      BY <1>2, <2>2, HandleTree, ValueAssumption DEF Inv
    <3>2. Transfers(conn[a], before, tree)
      BY <2>2, <3>1 DEF TransferInv
    <3>3. Transfers(conn'[a], before, tree')
      BY <2>2, <3>1, <3>2, TransferHandled
    <3> QED BY <2>2, <3>3
  <2>3. CASE /\ Disconnect(a) \/ BodyEnds(a) \/ ClientLeaves(a)
             /\ alone = a /\ before' = before
    <3>1. /\ conn'[a].req = conn[a].req
          /\ conn'[a].pc \in {"away", "orphan", "done"}
          /\ conn'[a].pc = "done" => conn'[a].status = 200
      BY <2>3, LeaveConn DEF Inv
    <3>2. Sound(before)
      BY <1>2, <2>3, <3>1 DEF TransferInv, Transfers
    <3>3. conn'[a].pc = "done" => Outcome(conn'[a], before, tree')
      BY <3>1 DEF Outcome
    <3>4. conn'[a].pc \notin {"decide", "remove", "rename", "copy"}
      BY <3>1
    <3>5. Transfers(conn'[a], before, tree')
      BY <3>2, <3>3, <3>4 DEF Transfers
    <3> QED BY <2>3, <3>5
  <2>4. ASSUME NEW r \in Requests[a], Receive(a, r), before' = tree, tree' = tree
        PROVE  Transfers(conn'[a], before', tree')
    <3>1. conn'[a].req = r
      BY <2>4, ReceiveStep DEF Inv
    <3> QED BY <1>2, <2>4, <3>1, TransferReceived
  <2> QED BY <1>2, <2>1, <2>2, <2>3, <2>4, AloneStep
<1> QED BY <1>1, <1>2 DEF TransferInv

LEMMA TransfersReachable == ZipSpec => [](Inv /\ AloneInv /\ TransferInv)
<1>1. ZipInit => AloneInv /\ TransferInv
  BY ValueAssumption DEF ZipInit, Init, AloneInv, TransferInv
<1>2. Inv /\ AloneInv /\ TransferInv /\ [ZipRun]_zipVars => AloneInv' /\ TransferInv'
  BY TransferStep
<1> QED BY <1>1, <1>2, Reachable, PTL DEF ZipSpec

\* The paths that the COPY makes that nothing disturbs fit.
TransfersFit ==
    \A c \in Clients :
        alone = c /\ conn[c].req.op = "COPY" => Fits(conn[c].req, before)

\* A MOVE that no other request overlaps and that was answered 201 has renamed the
\* whole source, whatever the directory and the two paths; answered 500 it has lost
\* the destination or a part of it, but nothing else, however a call of it failed.
THEOREM MoveIsWholeAlways == ZipSpec => []MoveIsWhole
<1>1. ASSUME TransferInv, NEW c \in Clients, alone = c
      PROVE  /\ Answered(c, "MOVE", {201}) => tree = Moved(before, conn[c].req.path, conn[c].req.dest)
             /\ Answered(c, "MOVE", {500}) => PartlyRemoved(tree, before, conn[c].req.dest)
  <2>1. ASSUME conn[c].pc = "done", conn[c].req.op = "MOVE"
        PROVE  Outcome(conn[c], before, tree)
    BY <1>1, <2>1 DEF TransferInv, Transfers
  <2> QED BY <2>1 DEF Answered, Outcome
<1>2. TransferInv => MoveIsWhole
  BY <1>1 DEF MoveIsWhole
<1> QED BY <1>2, TransfersReachable, PTL

\* A COPY of a directory into a directory that no other request overlaps, and no
\* call of which meets an I/O error, always succeeds when its paths fit, and leaves
\* the source as it was at the destination, also when one is in the other, in
\* whatever order do_copy goes through the entries.
THEOREM CopyIsTheTreeAlways == ZipSpec => [](TransfersFit => CopyIsTheTree)
<1>1. ASSUME TransferInv, TransfersFit, NEW c \in Clients, alone = c,
             Answered(c, "COPY", {201, 204, 500}), ~DepthZero(conn[c].req),
             IsDir(before, conn[c].req.path), ~IsPrefix(conn[c].req.dest, conn[c].req.path),
             ~IsFile(before, conn[c].req.dest), ParentIsDir(before, conn[c].req.dest)
      PROVE  LET r == conn[c].req
                 source == {x \in Under(before, r.path) : ~IsPrefix(r.dest, x)}
             IN  /\ conn[c].status = IF r.dest \in DOMAIN before THEN 204 ELSE 201
                 /\ tree = Copied(before, r.path, r.dest, source)
  <2> DEFINE r == conn[c].req
             p == r.path
             q == r.dest
  <2>1. conn[c].pc = "done" /\ r.op = "COPY" /\ conn[c].status \in {201, 204, 500}
    BY <1>1 DEF Answered
  <2>2. Sound(before) /\ Outcome(conn[c], before, tree) /\ Fits(r, before)
    BY <1>1, <2>1 DEF TransferInv, Transfers, TransfersFit
  <2>3. q \in Path
    BY <2>1, <2>2 DEF Outcome
  <2>4. p \in Path
    BY <1>1, <2>2, UnderSound DEF IsDir
  <2>5. \A x \in Sources(before, p, q) : Len(q \o Suffix(p, x)) <= MaxDepth
    BY <2>2 DEF Fits
  <2>6. WholeTree(r, before)
    BY <1>1, <2>2, <2>3, <2>4, <2>5 DEF WholeTree, Copyable
  <2>7. /\ conn[c].status = IF q \in DOMAIN before THEN 204 ELSE 201
        /\ tree = Copied(before, p, q, Sources(before, p, q))
    BY <2>1, <2>2, <2>6 DEF Outcome
  <2> QED BY <2>7 DEF Sources
<1>2. Inv /\ AloneInv /\ TransferInv => (TransfersFit => CopyIsTheTree)
  BY <1>1 DEF CopyIsTheTree
<1> QED BY <1>2, TransfersReachable, PTL
=============================================================================
