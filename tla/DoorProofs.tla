----------------------------- MODULE DoorProofs -----------------------------
(***************************************************************************)
(* From a webhook to the previews, the sticky comment and the door, for any*)
(* repository, any number of pull requests and any limit.                  *)
(*                                                                         *)
(* What matchSegments and deployApps compute by recursion is shown by      *)
(* induction: the numbers that something is wrong for would have a least   *)
(* one.                                                                    *)
(***************************************************************************)
EXTENDS Door, SequenceTheorems, FiniteSetTheorems, WellFoundedInduction, TLAPS

-----------------------------------------------------------------------------
(* Induction, and counting.                                                *)

\* The least number principle, for a set.
LEMMA LeastNat ==
  ASSUME NEW S \in SUBSET Nat, S # {}
  PROVE  \E n \in S : \A m \in S : n <= m
<1>1. PICK n \in S : \A m \in S : ~ (<<m, n>> \in OpToRel(<, Nat))
  BY NatLessThanWellFounded, WFMin, Zenon
<1>2. \A m \in S : ~ (m < n)
  BY <1>1 DEF OpToRel
<1> QED BY <1>2

\* What holds of 0, and of n + 1 if of n, holds of every number.
LEMMA SetInduction ==
  ASSUME NEW S, 0 \in S, \A n \in Nat : n \in S => n + 1 \in S
  PROVE  Nat \subseteq S
<1> DEFINE T == Nat \ S
<1> SUFFICES ASSUME T # {} PROVE FALSE
  OBVIOUS
<1>1. PICK n \in T : \A m \in T : n <= m
  BY LeastNat
<1>2. n - 1 \in Nat /\ n - 1 \notin T
  BY <1>1
<1> QED BY <1>2

\* A finite set with two members is of two at least.
LEMMA TwoMembers ==
  ASSUME NEW S, IsFiniteSet(S), NEW p \in S, NEW q \in S, p # q
  PROVE  Cardinality(S) > 1
<1>1. Cardinality({p}) = 1 /\ IsFiniteSet({p})
  BY FS_Singleton
<1>2. Cardinality({p, q}) = 2
  <2>1. {p, q} = {p} \cup {q} /\ q \notin {p}
    OBVIOUS
  <2> QED BY <1>1, <2>1, FS_AddElement
<1>3. Cardinality({p, q}) <= Cardinality(S)
  <2>1. {p, q} \subseteq S
    OBVIOUS
  <2> QED BY <2>1, FS_Subset
<1>4. Cardinality(S) \in Nat
  BY FS_CardinalityType
<1> QED BY <1>2, <1>3, <1>4

-----------------------------------------------------------------------------
(* What a glob matches: matchSegments does what globs mean.                *)

\* What is left of pat from i on means what is left of name from j on.
Suffix(pat, name, i, j) ==
  \E cut \in [i .. Len(pat) + 1 -> 0 .. Len(name)] :
    /\ cut[i] = j - 1 /\ cut[Len(pat) + 1] = Len(name)
    /\ \A x \in i .. Len(pat) :
         \/ pat[x] = "**" /\ cut[x] <= cut[x + 1]
         \/ cut[x + 1] = cut[x] + 1 /\ SegMatch(pat[x], name[cut[x + 1]])

\* m is what matchSegments computes with.
Matcher(m, pat, name) ==
  m = [i \in 1 .. Len(pat) + 1 |->
        CASE i > Len(pat) -> {Len(name) + 1}
          [] i <= Len(pat) /\ pat[i] = "**" ->
               {j \in 1 .. Len(name) + 1 :
                  i = Len(pat) \/ \E k \in j .. Len(name) + 1 : k \in m[i + 1]}
          [] OTHER -> {j \in 1 .. Len(name) :
                         SegMatch(pat[i], name[j]) /\ j + 1 \in m[i + 1]}]

\* What matchSegments answers.
LEMMA MatcherChosen ==
  ASSUME NEW pat, NEW name
  PROVE  MatchSegments(pat, name) = (1 \in (CHOOSE m : Matcher(m, pat, name))[1])
BY Zenon DEF MatchSegments, Matcher

\* Nothing left of pat means nothing left of name.
LEMMA SuffixEnd ==
  ASSUME NEW pat \in Seq(STRING), NEW name \in Seq(STRING),
         NEW j \in 1 .. Len(name) + 1
  PROVE  Suffix(pat, name, Len(pat) + 1, j) <=> j > Len(name)
<1> DEFINE i == Len(pat) + 1
<1>0. Len(pat) \in Nat /\ Len(name) \in Nat
  OBVIOUS
<1>1. ASSUME Suffix(pat, name, i, j) PROVE j > Len(name)
  BY <1>0, <1>1 DEF Suffix
<1>2. ASSUME j > Len(name) PROVE Suffix(pat, name, i, j)
  <2> DEFINE cut == [x \in i .. i |-> Len(name)]
  <2>1. cut \in [i .. Len(pat) + 1 -> 0 .. Len(name)]
    BY <1>0
  <2>2. cut[i] = j - 1 /\ cut[Len(pat) + 1] = Len(name)
    BY <1>0, <1>2
  <2>3. i .. Len(pat) = {}
    BY <1>0
  <2> QED BY <2>1, <2>2, <2>3, Zenon DEF Suffix
<1> QED BY <1>1, <1>2

\* One segment of pat, and what the rest of it means.
LEMMA SuffixNext ==
  ASSUME NEW pat \in Seq(STRING), NEW name \in Seq(STRING),
         NEW i \in 1 .. Len(pat), NEW j \in 1 .. Len(name) + 1,
         NEW k \in 1 .. Len(name) + 1, Suffix(pat, name, i + 1, k),
         \/ pat[i] = "**" /\ j <= k
         \/ k = j + 1 /\ SegMatch(pat[i], name[j])
  PROVE  Suffix(pat, name, i, j)
<1>0. Len(pat) \in Nat /\ Len(name) \in Nat
  OBVIOUS
<1>1. PICK c \in [i + 1 .. Len(pat) + 1 -> 0 .. Len(name)] :
        /\ c[i + 1] = k - 1 /\ c[Len(pat) + 1] = Len(name)
        /\ \A x \in i + 1 .. Len(pat) :
             \/ pat[x] = "**" /\ c[x] <= c[x + 1]
             \/ c[x + 1] = c[x] + 1 /\ SegMatch(pat[x], name[c[x + 1]])
  BY Zenon DEF Suffix
<1> DEFINE cut == [x \in i .. Len(pat) + 1 |-> IF x = i THEN j - 1 ELSE c[x]]
<1>2. cut \in [i .. Len(pat) + 1 -> 0 .. Len(name)]
  BY <1>0
<1>3. cut[i] = j - 1 /\ \A x \in i + 1 .. Len(pat) + 1 : cut[x] = c[x]
  BY <1>0
<1> HIDE DEF cut
<1>4. cut[Len(pat) + 1] = Len(name)
  BY <1>0, <1>1, <1>3
<1>5. \/ pat[i] = "**" /\ cut[i] <= cut[i + 1]
      \/ cut[i + 1] = cut[i] + 1 /\ SegMatch(pat[i], name[cut[i + 1]])
  BY <1>0, <1>1, <1>3
<1>6. ASSUME NEW x \in i .. Len(pat)
      PROVE  \/ pat[x] = "**" /\ cut[x] <= cut[x + 1]
             \/ cut[x + 1] = cut[x] + 1 /\ SegMatch(pat[x], name[cut[x + 1]])
  <2>1. CASE x = i
    BY <2>1, <1>5
  <2>2. CASE x # i
    <3>1. x \in i + 1 .. Len(pat) /\ cut[x] = c[x] /\ cut[x + 1] = c[x + 1]
      BY <2>2, <1>0, <1>3
    <3> QED BY <3>1, <1>1
  <2> QED BY <2>1, <2>2
<1> QED BY <1>2, <1>3, <1>4, <1>6, Zenon DEF Suffix

\* What pat means begins with what its first segment means.
LEMMA SuffixStep ==
  ASSUME NEW pat \in Seq(STRING), NEW name \in Seq(STRING),
         NEW i \in 1 .. Len(pat), NEW j \in 1 .. Len(name) + 1,
         Suffix(pat, name, i, j)
  PROVE  \E k \in 1 .. Len(name) + 1 :
           /\ Suffix(pat, name, i + 1, k)
           /\ \/ pat[i] = "**" /\ j <= k
              \/ k = j + 1 /\ SegMatch(pat[i], name[j])
<1>0. Len(pat) \in Nat /\ Len(name) \in Nat
  OBVIOUS
<1>1. PICK c \in [i .. Len(pat) + 1 -> 0 .. Len(name)] :
        /\ c[i] = j - 1 /\ c[Len(pat) + 1] = Len(name)
        /\ \A x \in i .. Len(pat) :
             \/ pat[x] = "**" /\ c[x] <= c[x + 1]
             \/ c[x + 1] = c[x] + 1 /\ SegMatch(pat[x], name[c[x + 1]])
  BY Zenon DEF Suffix
<1> DEFINE cut == [x \in i + 1 .. Len(pat) + 1 |-> c[x]]
           k   == c[i + 1] + 1
<1>2. /\ cut \in [i + 1 .. Len(pat) + 1 -> 0 .. Len(name)]
      /\ \A x \in i + 1 .. Len(pat) + 1 : cut[x] = c[x]
      /\ k \in 1 .. Len(name) + 1 /\ cut[i + 1] = k - 1
  BY <1>0
<1>3. \/ pat[i] = "**" /\ j <= k
      \/ k = j + 1 /\ SegMatch(pat[i], name[j])
  <2>0. i \in i .. Len(pat) /\ i \in i .. Len(pat) + 1 /\ i + 1 \in i .. Len(pat) + 1
    BY <1>0
  <2>1. i \in i .. Len(pat) /\ c[i] \in 0 .. Len(name) /\ c[i + 1] \in 0 .. Len(name)
    BY <2>0
  <2>2. CASE pat[i] = "**" /\ c[i] <= c[i + 1]
    BY <1>1, <2>1, <2>2
  <2>3. CASE c[i + 1] = c[i] + 1 /\ SegMatch(pat[i], name[c[i + 1]])
    <3>1. c[i + 1] = j /\ k = j + 1
      BY <1>1, <2>1, <2>3
    <3> QED BY <2>3, <3>1
  <2> QED BY <1>1, <2>1, <2>2, <2>3
<1> HIDE DEF cut
<1>4. \A x \in i + 1 .. Len(pat) :
        /\ cut[x] = c[x] /\ cut[x + 1] = c[x + 1] /\ x \in i .. Len(pat)
  BY <1>0, <1>2
<1>5. \A x \in i + 1 .. Len(pat) :
        \/ pat[x] = "**" /\ cut[x] <= cut[x + 1]
        \/ cut[x + 1] = cut[x] + 1 /\ SegMatch(pat[x], name[cut[x + 1]])
  BY <1>1, <1>4
<1>6. cut[Len(pat) + 1] = Len(name)
  BY <1>0, <1>1, <1>2
<1>7. Suffix(pat, name, i + 1, k)
  BY <1>2, <1>5, <1>6, Zenon DEF Suffix
<1> QED BY <1>2, <1>3, <1>7

\* The recursion that matchSegments follows.
LEMMA SuffixRecursion ==
  ASSUME NEW pat \in Seq(STRING), NEW name \in Seq(STRING),
         NEW i \in 1 .. Len(pat), NEW j \in 1 .. Len(name) + 1
  PROVE  Suffix(pat, name, i, j) <=>
           IF pat[i] = "**"
             THEN i = Len(pat)
                    \/ \E k \in j .. Len(name) + 1 : Suffix(pat, name, i + 1, k)
             ELSE /\ j <= Len(name) /\ SegMatch(pat[i], name[j])
                  /\ Suffix(pat, name, i + 1, j + 1)
<1>0. Len(pat) \in Nat /\ Len(name) \in Nat
  OBVIOUS
<1>1. CASE pat[i] = "**"
  <2>1. ASSUME Suffix(pat, name, i, j)
        PROVE  \E k \in j .. Len(name) + 1 : Suffix(pat, name, i + 1, k)
    BY <2>1, <1>0, SuffixStep
  <2>2. ASSUME NEW k \in j .. Len(name) + 1, Suffix(pat, name, i + 1, k)
        PROVE  Suffix(pat, name, i, j)
    <3>1. k \in 1 .. Len(name) + 1 /\ j <= k
      BY <1>0
    <3> QED BY <3>1, <2>2, <1>1, SuffixNext
  <2>3. ASSUME i = Len(pat) PROVE Suffix(pat, name, i, j)
    <3>1. Len(name) + 1 \in 1 .. Len(name) + 1 /\ j <= Len(name) + 1
      BY <1>0
    <3>2. Suffix(pat, name, i + 1, Len(name) + 1)
      BY <1>0, <2>3, <3>1, SuffixEnd
    <3> QED BY <3>1, <3>2, <1>1, SuffixNext
  <2> QED BY <1>1, <2>1, <2>2, <2>3
<1>2. CASE pat[i] # "**"
  <2>1. ASSUME Suffix(pat, name, i, j)
        PROVE  /\ j <= Len(name) /\ SegMatch(pat[i], name[j])
               /\ Suffix(pat, name, i + 1, j + 1)
    BY <2>1, <1>0, <1>2, SuffixStep
  <2>2. ASSUME j <= Len(name), SegMatch(pat[i], name[j]),
               Suffix(pat, name, i + 1, j + 1)
        PROVE  Suffix(pat, name, i, j)
    <3>1. j + 1 \in 1 .. Len(name) + 1
      BY <1>0, <2>2
    <3> QED BY <3>1, <2>2, SuffixNext
  <2> QED BY <1>2, <2>1, <2>2
<1> QED BY <1>1, <1>2

\* The places in name that the rest of pat, from i on, matches from.
Places(pat, name, i) == {j \in 1 .. Len(name) + 1 : Suffix(pat, name, i, j)}

\* The sets of places follow the recursion of matchSegments.
LEMMA PlacesRecursion ==
  ASSUME NEW pat \in Seq(STRING), NEW name \in Seq(STRING),
         NEW i \in 1 .. Len(pat) + 1
  PROVE  Places(pat, name, i) =
           CASE i > Len(pat) -> {Len(name) + 1}
             [] i <= Len(pat) /\ pat[i] = "**" ->
                  {j \in 1 .. Len(name) + 1 :
                     \/ i = Len(pat)
                     \/ \E k \in j .. Len(name) + 1 : k \in Places(pat, name, i + 1)}
             [] OTHER -> {j \in 1 .. Len(name) :
                            /\ SegMatch(pat[i], name[j])
                            /\ j + 1 \in Places(pat, name, i + 1)}
<1>0. Len(pat) \in Nat /\ Len(name) \in Nat
  OBVIOUS
<1>1. CASE i > Len(pat)
  <2>1. i = Len(pat) + 1
    BY <1>0, <1>1
  <2>2. \A j \in 1 .. Len(name) + 1 : Suffix(pat, name, i, j) <=> j = Len(name) + 1
    BY <1>0, <2>1, SuffixEnd
  <2>3. Places(pat, name, i) = {Len(name) + 1}
    BY <1>0, <2>2 DEF Places
  <2> QED BY <1>1, <2>3
<1>2. CASE i <= Len(pat) /\ pat[i] = "**"
  <2>0. i \in 1 .. Len(pat)
    BY <1>0, <1>2
  <2>1. \A j \in 1 .. Len(name) + 1 :
          Suffix(pat, name, i, j)
            <=> \/ i = Len(pat)
                \/ \E k \in j .. Len(name) + 1 : Suffix(pat, name, i + 1, k)
    BY <1>2, <2>0, SuffixRecursion
  <2>2. \A j \in 1 .. Len(name) + 1 : \A k \in j .. Len(name) + 1 :
          k \in Places(pat, name, i + 1) <=> Suffix(pat, name, i + 1, k)
    BY <1>0 DEF Places
  <2>3. Places(pat, name, i) =
          {j \in 1 .. Len(name) + 1 :
             \/ i = Len(pat)
             \/ \E k \in j .. Len(name) + 1 : k \in Places(pat, name, i + 1)}
    <3> SUFFICES ASSUME NEW j \in 1 .. Len(name) + 1
                 PROVE  Suffix(pat, name, i, j) <=>
                          \/ i = Len(pat)
                          \/ \E k \in j .. Len(name) + 1 : k \in Places(pat, name, i + 1)
      BY Zenon DEF Places
    <3> QED BY <2>1, <2>2, Zenon
  <2> QED BY <1>0, <1>2, <2>3
<1>3. CASE i <= Len(pat) /\ pat[i] # "**"
  <2>0. i \in 1 .. Len(pat)
    BY <1>0, <1>3
  <2>1. \A j \in 1 .. Len(name) + 1 :
          Suffix(pat, name, i, j)
            <=> j <= Len(name) /\ SegMatch(pat[i], name[j])
                /\ Suffix(pat, name, i + 1, j + 1)
    BY <1>3, <2>0, SuffixRecursion
  <2>2. \A j \in 1 .. Len(name) :
          j + 1 \in Places(pat, name, i + 1) <=> Suffix(pat, name, i + 1, j + 1)
    BY <1>0 DEF Places
  <2>3. Places(pat, name, i) = {j \in 1 .. Len(name) :
                                 /\ SegMatch(pat[i], name[j])
                                 /\ j + 1 \in Places(pat, name, i + 1)}
    <3>1. \A j : j \in 1 .. Len(name) <=> j \in 1 .. Len(name) + 1 /\ j <= Len(name)
      BY <1>0
    <3> HIDE <1>0
    <3>2. ASSUME NEW j, j \in Places(pat, name, i)
          PROVE  j \in 1 .. Len(name) /\ SegMatch(pat[i], name[j])
                 /\ j + 1 \in Places(pat, name, i + 1)
      BY <3>1, <3>2, <2>1, <2>2, Zenon DEF Places
    <3>3. ASSUME NEW j \in 1 .. Len(name), SegMatch(pat[i], name[j]),
                 j + 1 \in Places(pat, name, i + 1)
          PROVE  j \in Places(pat, name, i)
      BY <3>1, <3>3, <2>1, <2>2, Zenon DEF Places
    <3> QED BY <3>2, <3>3
  <2> QED BY <1>0, <1>3, <2>3
<1> QED BY <1>0, <1>1, <1>2, <1>3

\* There is a function for matchSegments to compute with, ...
LEMMA MatcherExists ==
  ASSUME NEW pat \in Seq(STRING), NEW name \in Seq(STRING)
  PROVE  \E m : Matcher(m, pat, name)
<1> DEFINE m == [i \in 1 .. Len(pat) + 1 |-> Places(pat, name, i)]
<1>0. Len(pat) \in Nat
  OBVIOUS
<1>1. \A i \in 1 .. Len(pat) : m[i + 1] = Places(pat, name, i + 1)
  BY <1>0
<1>2. m = [i \in 1 .. Len(pat) + 1 |->
              CASE i > Len(pat) -> {Len(name) + 1}
                [] i <= Len(pat) /\ pat[i] = "**" ->
                     {j \in 1 .. Len(name) + 1 :
                        i = Len(pat) \/ \E k \in j .. Len(name) + 1 : k \in m[i + 1]}
                [] OTHER -> {j \in 1 .. Len(name) :
                               SegMatch(pat[i], name[j]) /\ j + 1 \in m[i + 1]}]
  <2> SUFFICES ASSUME NEW i \in 1 .. Len(pat) + 1
               PROVE  Places(pat, name, i) =
           CASE i > Len(pat) -> {Len(name) + 1}
             [] i <= Len(pat) /\ pat[i] = "**" ->
                  {j \in 1 .. Len(name) + 1 :
                     \/ i = Len(pat)
                     \/ \E k \in j .. Len(name) + 1 : k \in m[i + 1]}
             [] OTHER -> {j \in 1 .. Len(name) :
                            /\ SegMatch(pat[i], name[j])
                            /\ j + 1 \in m[i + 1]}
    BY Zenon
  <2>1. CASE i > Len(pat)
    BY <1>0, <2>1, PlacesRecursion
  <2>2. CASE i \in 1 .. Len(pat)
    <3>1. m[i + 1] = Places(pat, name, i + 1)
      BY <1>1, <2>2
    <3> HIDE DEF m
    <3>2. i <= Len(pat) /\ ~ (i > Len(pat))
      BY <1>0, <2>2
    <3>3. CASE pat[i] = "**"
      BY <2>2, <3>1, <3>2, <3>3, PlacesRecursion
    <3>4. CASE pat[i] # "**"
      BY <2>2, <3>1, <3>2, <3>4, PlacesRecursion
    <3> QED BY <3>3, <3>4
  <2>3. i > Len(pat) \/ i \in 1 .. Len(pat)
    BY <1>0
  <2> QED BY <2>1, <2>2, <2>3, Zenon
<1> QED BY <1>2 DEF Matcher

\* ... and no other than Places.
LEMMA MatcherIsPlaces ==
  ASSUME NEW pat \in Seq(STRING), NEW name \in Seq(STRING),
         NEW m, Matcher(m, pat, name)
  PROVE  m[1] = Places(pat, name, 1)
<1>0. Len(pat) \in Nat
  OBVIOUS
<1>1. ASSUME NEW i \in 1 .. Len(pat) + 1
      PROVE  m[i] =
               CASE i > Len(pat) -> {Len(name) + 1}
                 [] i <= Len(pat) /\ pat[i] = "**" ->
                      {j \in 1 .. Len(name) + 1 :
                         \/ i = Len(pat)
                         \/ \E k \in j .. Len(name) + 1 : k \in m[i + 1]}
                 [] OTHER -> {j \in 1 .. Len(name) :
                                /\ SegMatch(pat[i], name[j])
                                /\ j + 1 \in m[i + 1]}
  BY DEF Matcher
<1> DEFINE Right(i) == m[i] = Places(pat, name, i)
           Done == {n \in Nat : n <= Len(pat) => Right(Len(pat) + 1 - n)}
<1>2. 0 \in Done
  <2> DEFINE i == Len(pat) + 1
  <2>1. i \in 1 .. Len(pat) + 1 /\ i > Len(pat) /\ i = Len(pat) + 1 - 0
    BY <1>0
  <2> HIDE DEF i
  <2>2. m[i] = CASE i > Len(pat) -> {Len(name) + 1}
                [] i <= Len(pat) /\ pat[i] = "**" ->
                     {j \in 1 .. Len(name) + 1 :
                        \/ i = Len(pat)
                        \/ \E k \in j .. Len(name) + 1 : k \in m[i + 1]}
                [] OTHER -> {j \in 1 .. Len(name) :
                               /\ SegMatch(pat[i], name[j])
                               /\ j + 1 \in m[i + 1]}
    BY <1>1, <2>1, Zenon
  <2>4. m[i] = {Len(name) + 1}
    <3>1. ~ (i <= Len(pat))
      BY <1>0, <2>1
    <3> QED BY <2>1, <2>2, <3>1
  <2>3. Places(pat, name, i) = {Len(name) + 1}
    BY <2>1, PlacesRecursion
  <2> QED BY <2>1, <2>4, <2>3
<1>3. ASSUME NEW n \in Nat, n \in Done PROVE n + 1 \in Done
  <2> SUFFICES ASSUME n + 1 <= Len(pat) PROVE Right(Len(pat) + 1 - (n + 1))
    OBVIOUS
  <2> DEFINE i == Len(pat) - n
  <2>1. i \in 1 .. Len(pat) /\ i \in 1 .. Len(pat) + 1
        /\ i + 1 = Len(pat) + 1 - n /\ i = Len(pat) + 1 - (n + 1)
    BY <1>0
  <2>2. m[i + 1] = Places(pat, name, i + 1)
    BY <2>1, <1>0, <1>3
  <2> HIDE DEF i
  <2>3. m[i] = Places(pat, name, i)
    <3>1. i <= Len(pat) /\ ~ (i > Len(pat))
      BY <1>0, <2>1
    <3>2. CASE pat[i] = "**"
      <4>1. m[i] = {j \in 1 .. Len(name) + 1 :
                      \/ i = Len(pat)
                      \/ \E k \in j .. Len(name) + 1 : k \in m[i + 1]}
        BY <1>1, <2>1, <3>1, <3>2
      <4>2. Places(pat, name, i) =
              {j \in 1 .. Len(name) + 1 :
                 \/ i = Len(pat)
                 \/ \E k \in j .. Len(name) + 1 : k \in Places(pat, name, i + 1)}
        BY <2>1, <3>1, <3>2, PlacesRecursion
      <4> QED BY <2>2, <4>1, <4>2, Zenon
    <3>3. CASE pat[i] # "**"
      <4>1. m[i] = {j \in 1 .. Len(name) :
                      SegMatch(pat[i], name[j]) /\ j + 1 \in m[i + 1]}
        BY <1>1, <2>1, <3>1, <3>3
      <4>2. Places(pat, name, i) =
              {j \in 1 .. Len(name) :
                 SegMatch(pat[i], name[j]) /\ j + 1 \in Places(pat, name, i + 1)}
        BY <2>1, <3>1, <3>3, PlacesRecursion
      <4> QED BY <2>2, <4>1, <4>2, Zenon
    <3> QED BY <3>2, <3>3
  <2> QED BY <2>1, <2>3
<1> HIDE DEF Done
<1>4. Len(pat) \in Done
  BY <1>0, <1>2, <1>3, SetInduction
<1>5. Len(pat) + 1 - Len(pat) = 1
  BY <1>0
<1> QED BY <1>0, <1>4, <1>5 DEF Done

\* matchSegments finds what a glob means, whatever pattern and path.
THEOREM MatchIsMeant ==
  ASSUME NEW pat \in Seq(STRING), NEW name \in Seq(STRING)
  PROVE  MatchSegments(pat, name) <=> Meant(pat, name)
<1>1. PICK m : Matcher(m, pat, name) /\ MatchSegments(pat, name) = (1 \in m[1])
  <2>1. Matcher(CHOOSE m : Matcher(m, pat, name), pat, name)
    BY MatcherExists, Zenon
  <2> QED BY <2>1, MatcherChosen, Zenon
<1>2. MatchSegments(pat, name) <=> 1 \in Places(pat, name, 1)
  BY <1>1, MatcherIsPlaces, Zenon
<1>3. 1 \in Places(pat, name, 1) <=> Suffix(pat, name, 1, 1)
  BY DEF Places
<1>4. Suffix(pat, name, 1, 1) <=> Meant(pat, name)
  BY DEF Suffix, Meant
<1> QED BY <1>2, <1>3, <1>4

-----------------------------------------------------------------------------
(* What deployApps does, one app after the other.                          *)

\* acc is what deployApps comes to, app by app.
Deploys(acc, pr, c, apps, broken) ==
  acc = [n \in 0 .. Len(c.apps) |->
          CASE n = 0 -> [previews |-> previews, comment |-> comment[pr]]
            [] n \in apps -> DeployApp(acc[n - 1], pr, c.apps[n], c, broken)
            [] OTHER -> acc[n - 1]]

\* What deployApps ends with.
LEMMA DeploysChosen ==
  ASSUME NEW pr, NEW c, NEW apps, NEW broken, DeployApps(pr, c, apps, broken)
  PROVE  \E end :
           /\ end = (CHOOSE acc : Deploys(acc, pr, c, apps, broken))[Len(c.apps)]
           /\ previews' = end.previews
           /\ comment' = [comment EXCEPT ![pr] = end.comment]
           /\ gone' = IF apps = {} THEN gone ELSE {p \in gone : p.pr # pr}
BY Zenon DEF DeployApps, Deploys

\* The recursion of deployApps has such a function.
LEMMA DeploysExists ==
  ASSUME NEW pr, NEW c, Len(c.apps) \in Nat, NEW apps, apps \subseteq 1 .. Len(c.apps),
         NEW broken
  PROVE  \E acc : Deploys(acc, pr, c, apps, broken)
<1> DEFINE Step(n, x) == IF n \in apps THEN DeployApp(x, pr, c.apps[n], c, broken)
                                       ELSE x
           base == [previews |-> previews, comment |-> comment[pr]]
           Upto(n, f) == /\ f = [i \in 0 .. n |-> f[i]] /\ f[0] = base
                         /\ \A i \in 1 .. n : f[i] = Step(i, f[i - 1])
           S == {n \in Nat : \E f : Upto(n, f)}
<1> HIDE DEF Step, base
<1>1. 0 \in S
  <2> DEFINE f == [i \in 0 .. 0 |-> base]
  <2>1. Upto(0, f)
    OBVIOUS
  <2> QED BY <2>1
<1>2. ASSUME NEW n \in Nat, n \in S PROVE n + 1 \in S
  <2>1. PICK f : Upto(n, f)
    BY <1>2
  <2> DEFINE g == [i \in 0 .. n + 1 |-> IF i = n + 1 THEN Step(n + 1, f[n]) ELSE f[i]]
  <2>2. /\ g[n + 1] = Step(n + 1, f[n])
        /\ \A i \in 0 .. n : g[i] = f[i]
    OBVIOUS
  <2>3. g = [i \in 0 .. n + 1 |-> g[i]]
    OBVIOUS
  <2> HIDE DEF g
  <2>4. \A i \in 1 .. n + 1 : g[i] = Step(i, g[i - 1])
    <3> SUFFICES ASSUME NEW i \in 1 .. n + 1 PROVE g[i] = Step(i, g[i - 1])
      OBVIOUS
    <3>1. CASE i = n + 1
      BY <3>1, <2>2
    <3>2. CASE i \in 1 .. n
      BY <3>2, <2>1, <2>2
    <3> QED BY <3>1, <3>2
  <2>5. g[0] = base
    BY <2>1, <2>2
  <2>6. Upto(n + 1, g)
    BY <2>3, <2>4, <2>5
  <2> HIDE DEF Upto
  <2>7. n + 1 \in Nat
    OBVIOUS
  <2> QED BY <2>6, <2>7
<1> HIDE DEF S
<1>3. Len(c.apps) \in S
  BY <1>1, <1>2, SetInduction
<1>4. PICK f : Upto(Len(c.apps), f)
  BY <1>3 DEF S
<1>5. f = [n \in 0 .. Len(c.apps) |->
            CASE n = 0 -> [previews |-> previews, comment |-> comment[pr]]
              [] n \in apps -> DeployApp(f[n - 1], pr, c.apps[n], c, broken)
              [] OTHER -> f[n - 1]]
  <2> SUFFICES ASSUME NEW n \in 0 .. Len(c.apps)
               PROVE  f[n] = CASE n = 0 -> base
                               [] n \in apps -> DeployApp(f[n - 1], pr, c.apps[n], c, broken)
                               [] OTHER -> f[n - 1]
    BY <1>4 DEF base
  <2>1. CASE n = 0
    BY <2>1, <1>4
  <2>2. CASE n \in 1 .. Len(c.apps)
    BY <2>2, <1>4 DEF Step
  <2> QED BY <2>1, <2>2
<1> QED BY <1>5 DEF Deploys

\* deployApps comes by way of acc to what it leaves.
Arrives(acc, pr, c, apps, broken) ==
  /\ acc[0] = [previews |-> previews, comment |-> comment[pr]]
  /\ \A n \in 1 .. Len(c.apps) :
       acc[n] = IF n \in apps THEN DeployApp(acc[n - 1], pr, c.apps[n], c, broken)
                              ELSE acc[n - 1]
  /\ previews' = acc[Len(c.apps)].previews
  /\ comment' = [comment EXCEPT ![pr] = acc[Len(c.apps)].comment]
  /\ gone' = IF apps = {} THEN gone ELSE {p \in gone : p.pr # pr}

\* And it is found by going from one app to the next.
LEMMA DeploysInduction ==
  ASSUME NEW pr, NEW c, Len(c.apps) \in Nat, NEW apps, apps \subseteq 1 .. Len(c.apps),
         NEW broken, DeployApps(pr, c, apps, broken)
  PROVE  \E acc : Arrives(acc, pr, c, apps, broken)
<1> DEFINE acc == CHOOSE acc : Deploys(acc, pr, c, apps, broken)
<1>1. Deploys(acc, pr, c, apps, broken)
  BY DeploysExists, Zenon
<1>2. /\ previews' = acc[Len(c.apps)].previews
      /\ comment' = [comment EXCEPT ![pr] = acc[Len(c.apps)].comment]
      /\ gone' = IF apps = {} THEN gone ELSE {p \in gone : p.pr # pr}
  <2>1. PICK end :
           /\ end = (CHOOSE x : Deploys(x, pr, c, apps, broken))[Len(c.apps)]
           /\ previews' = end.previews
           /\ comment' = [comment EXCEPT ![pr] = end.comment]
           /\ gone' = IF apps = {} THEN gone ELSE {p \in gone : p.pr # pr}
    BY DeploysChosen, Zenon
  <2>2. end = acc[Len(c.apps)]
    BY <2>1
  <2> HIDE DEF acc
  <2> QED BY <2>1, <2>2
<1> HIDE DEF acc
<1>3. acc[0] = [previews |-> previews, comment |-> comment[pr]]
  <2>1. 0 \in 0 .. Len(c.apps)
    OBVIOUS
  <2> QED BY <1>1, <2>1 DEF Deploys
<1>4. ASSUME NEW n \in 1 .. Len(c.apps)
      PROVE  acc[n] = IF n \in apps
                        THEN DeployApp(acc[n - 1], pr, c.apps[n], c, broken)
                        ELSE acc[n - 1]
  <2>1. n \in 0 .. Len(c.apps) /\ n # 0
    OBVIOUS
  <2> QED BY <1>1, <2>1 DEF Deploys
<1> QED BY <1>2, <1>3, <1>4 DEF Arrives

\* A preview is the record that Upsert made.
Shape(p) == p = [pr |-> p.pr, app |-> p.app, cfg |-> p.cfg, status |-> p.status,
                 token |-> p.token, host |-> p.host, url |-> p.url]

\* The host of a preview is that of its app in the configuration it was deployed by.
Configured(p) ==
  /\ p.cfg \in Configs /\ Validate(p.cfg) /\ p.url = p.host
  /\ \E i \in DOMAIN p.cfg.apps :
       p.app = p.cfg.apps[i].name /\ p.host = Host(p.pr, p.cfg.apps[i])

\* A pull request has one preview for each app.
OnePerApp(ps) == \A p, q \in ps : p.pr = q.pr /\ p.app = q.app => p = q

\* The previews that there may be.
InOrder(ps) ==
  IsFiniteSet(ps) /\ OnePerApp(ps) /\ \A p \in ps : Shape(p) /\ Configured(p)

\* What deployApp may leave a preview as.
Statuses == {"running", "failed", "building"}

\* From previews xs to ys, by a deploy of c for pr.
Deployed(xs, ys, pr, c) ==
  /\ \A p \in ys :
       \/ p \in xs
       \/ /\ p.pr = pr /\ p.cfg = c /\ p.status \in Statuses
          /\ p.token = webhooks \/ \E q \in xs : p.token = q.token
  /\ \A p \in xs : p.pr # pr => p \in ys

\* Two deploys for one pull request are one.
LEMMA DeployedTwice ==
  ASSUME NEW xs, NEW ys, NEW zs, NEW pr, NEW c,
         Deployed(xs, ys, pr, c), Deployed(ys, zs, pr, c)
  PROVE  Deployed(xs, zs, pr, c)
<1>1. ASSUME NEW p \in zs
      PROVE  \/ p \in xs
             \/ /\ p.pr = pr /\ p.cfg = c /\ p.status \in Statuses
                /\ p.token = webhooks \/ \E q \in xs : p.token = q.token
  <2>1. CASE p \in ys
    BY <2>1 DEF Deployed
  <2>2. CASE p \notin ys
    <3>1. /\ p.pr = pr /\ p.cfg = c /\ p.status \in Statuses
          /\ p.token = webhooks \/ \E q \in ys : p.token = q.token
      BY <2>2 DEF Deployed
    <3>2. \A q \in ys : q.token = webhooks \/ \E r \in xs : q.token = r.token
      BY DEF Deployed
    <3> QED BY <3>1, <3>2
  <2> QED BY <2>1, <2>2
<1> QED BY <1>1 DEF Deployed

\* What deployApps carries along.
Pair(x) == x = [previews |-> x.previews, comment |-> x.comment]

\* What deployApp leaves of x, the previews and the comment, is y.
Kept(x, y, pr, c) ==
  /\ Pair(y) /\ InOrder(y.previews) /\ Deployed(x.previews, y.previews, pr, c)
  /\ y.comment \in {Notice("capacity"), Table(y.previews, pr)}

\* One app is deployed, or refused for capacity.
LEMMA DeployAppKeeps ==
  ASSUME NEW pr, NEW c \in Configs, Validate(c), NEW i \in DOMAIN c.apps, NEW broken,
         NEW x, Pair(x), InOrder(x.previews)
  PROVE  Kept(x, DeployApp(x, pr, c.apps[i], c, broken), pr, c)
<1> DEFINE y == DeployApp(x, pr, c.apps[i], c, broken)
<1> SUFFICES Kept(x, y, pr, c)
  OBVIOUS
<1> DEFINE old == {p \in Of(x.previews, pr) : p.app = c.apps[i].name}
           status == IF pr \in closed' THEN "building"
                     ELSE IF c.apps[i].name \in broken THEN "failed" ELSE "running"
           p1 == Upsert(old, pr, c.apps[i], c, status)
           new == (x.previews \ old) \cup {p1}
<1>1. y = IF old = {} /\ Cardinality(x.previews) >= MaxPreviews
            THEN [x EXCEPT !.comment = Notice("capacity")]
            ELSE [previews |-> new, comment |-> Table(new, pr)]
  BY DEF DeployApp
<1>2. /\ p1.pr = pr /\ p1.app = c.apps[i].name /\ p1.cfg = c
      /\ p1.host = Host(pr, c.apps[i]) /\ p1.url = p1.host /\ Shape(p1)
      /\ p1.status \in Statuses /\ p1.token = Token(old)
  BY DEF Upsert, Shape, Statuses
<1>3. \A p \in old : p \in x.previews /\ p.pr = pr /\ p.app = c.apps[i].name
  BY DEF Of
<1>4. \A p \in x.previews : p.pr = pr /\ p.app = c.apps[i].name => p \in old
  BY DEF Of
<1>7. Token(old) = webhooks \/ \E q \in x.previews : Token(old) = q.token
  BY <1>3 DEF Token
<1> HIDE DEF old, p1, y
<1>5. CASE old = {} /\ Cardinality(x.previews) >= MaxPreviews
  <2>1. y = [x EXCEPT !.comment = Notice("capacity")]
    BY <1>1, <1>5
  <2>2. y.previews = x.previews /\ y.comment = Notice("capacity") /\ Pair(y)
    BY <2>1 DEF Pair
  <2> QED BY <2>2 DEF Deployed, Kept
<1>6. CASE ~ (old = {} /\ Cardinality(x.previews) >= MaxPreviews)
  <2>1. y = [previews |-> new, comment |-> Table(new, pr)]
    BY <1>1, <1>6
  <2>2. y.previews = new /\ y.comment = Table(new, pr) /\ Pair(y)
    BY <2>1 DEF Pair
  <2>3. IsFiniteSet(new)
    <3>1. IsFiniteSet(x.previews \ old)
      BY FS_Subset DEF InOrder
    <3>2. IsFiniteSet({p1})
      BY FS_Singleton
    <3> QED BY <3>1, <3>2, FS_Union
  <2>4. \A p \in new : Shape(p) /\ Configured(p)
    BY <1>2 DEF InOrder, Configured
  <2>5. OnePerApp(new)
    <3> SUFFICES ASSUME NEW p \in new, NEW q \in new, p.pr = q.pr, p.app = q.app
                 PROVE  p = q
      BY DEF OnePerApp
    <3>1. CASE p \in x.previews \ old /\ q \in x.previews \ old
      BY <3>1 DEF InOrder, OnePerApp
    <3>2. CASE p = p1 \/ q = p1
      BY <3>2, <1>2, <1>4
    <3> QED BY <3>1, <3>2
  <2>6. Deployed(x.previews, new, pr, c)
    BY <1>2, <1>3, <1>7 DEF Deployed
  <2> QED BY <2>2, <2>3, <2>4, <2>5, <2>6 DEF InOrder, Kept
<1> QED BY <1>5, <1>6

\* All the apps that were selected are.
LEMMA DeployAppsKeeps ==
  ASSUME NEW pr, NEW c \in Configs, Validate(c), NEW apps, apps \subseteq DOMAIN c.apps,
         NEW broken, InOrder(previews), DeployApps(pr, c, apps, broken)
  PROVE  /\ InOrder(previews') /\ Deployed(previews, previews', pr, c)
         /\ apps = {} => UNCHANGED <<previews, gone>>
                         /\ comment' = [comment EXCEPT ![pr] = comment[pr]]
         /\ apps # {} =>
              /\ gone' = {p \in gone : p.pr # pr}
              /\ \E t \in {Notice("capacity"), Table(previews', pr)} :
                   comment' = [comment EXCEPT ![pr] = t]
<1>0. Len(c.apps) \in Nat /\ DOMAIN c.apps = 1 .. Len(c.apps)
  BY ConfigsAssumption
<1>1. PICK acc : Arrives(acc, pr, c, apps, broken)
  BY <1>0, DeploysInduction
<1> DEFINE Good(n) ==
      /\ Pair(acc[n]) /\ InOrder(acc[n].previews)
      /\ Deployed(previews, acc[n].previews, pr, c)
      /\ IF \E i \in apps : i <= n
           THEN acc[n].comment \in {Notice("capacity"), Table(acc[n].previews, pr)}
           ELSE acc[n] = acc[0]
    S == {n \in Nat : n <= Len(c.apps) => Good(n)}
<1>2. acc[0].previews = previews /\ acc[0].comment = comment[pr] /\ Pair(acc[0])
  BY <1>1 DEF Pair, Arrives
<1>3. \A i \in apps : i \in 1 .. Len(c.apps)
  BY <1>0
<1>4. 0 \in S
  <2>1. ~ \E i \in apps : i <= 0
    BY <1>3
  <2>2. Deployed(previews, acc[0].previews, pr, c)
    BY <1>2 DEF Deployed
  <2>3. Good(0)
    BY <2>1, <2>2, <1>2
  <2> HIDE DEF Good
  <2> QED BY <2>3
<1>5. ASSUME NEW n \in Nat, n \in S PROVE n + 1 \in S
  <2> SUFFICES ASSUME n + 1 <= Len(c.apps) PROVE Good(n + 1)
    BY DEF S
  <2>1. Good(n) /\ n + 1 \in 1 .. Len(c.apps) /\ n + 1 - 1 = n
    BY <1>0, <1>5
  <2>2. CASE n + 1 \in apps
    <3>1. acc[n + 1] = DeployApp(acc[n], pr, c.apps[n + 1], c, broken)
      BY <1>1, <2>1, <2>2 DEF Arrives
    <3>2. Kept(acc[n], acc[n + 1], pr, c)
      <4>1. Pair(acc[n]) /\ InOrder(acc[n].previews) /\ n + 1 \in DOMAIN c.apps
        BY <1>0, <2>1
      <4> HIDE DEF Good
      <4> QED BY <3>1, <4>1, DeployAppKeeps
    <3>3. Deployed(previews, acc[n + 1].previews, pr, c)
      BY <2>1, <3>2, DeployedTwice DEF Kept
    <3>4. \E i \in apps : i <= n + 1
      BY <2>2
    <3> QED BY <3>2, <3>3, <3>4 DEF Kept
  <2>3. CASE n + 1 \notin apps
    <3>1. acc[n + 1] = acc[n]
      BY <1>1, <2>1, <2>3 DEF Arrives
    <3>2. (\E i \in apps : i <= n + 1) <=> \E i \in apps : i <= n
      BY <1>3, <2>3
    <3> QED BY <2>1, <3>1, <3>2
  <2> QED BY <2>2, <2>3
<1> HIDE DEF S
<1>6. Len(c.apps) \in S
  BY <1>0, <1>4, <1>5, SetInduction
<1>7. Good(Len(c.apps))
  BY <1>0, <1>6 DEF S
<1>8. apps # {} => \E i \in apps : i <= Len(c.apps)
  BY <1>0, <1>3
<1>9. CASE apps = {}
  <2>1. acc[Len(c.apps)] = acc[0]
    BY <1>7, <1>9
  <2> QED BY <2>1, <1>1, <1>2, <1>7, <1>9 DEF Arrives
<1>10. CASE apps # {}
  BY <1>1, <1>7, <1>8, <1>10 DEF Arrives
<1> QED BY <1>9, <1>10

-----------------------------------------------------------------------------
(* The previews of pull requests, and their comments.                      *)

\* The comments are true, and a notice has no rows.
Comments ==
  /\ comment = [pr \in PRs |-> comment[pr]] /\ CommentTellsTruth
  /\ \A pr \in PRs :
       comment[pr].kind \in {"config", "capacity"} => comment[pr].rows = {}

\* The inductive invariant.
PRInv ==
  /\ head \in [PRs -> Configs \cup {NoConfig}]
  /\ changed \in [PRs -> Changes \cup {{}}]
  /\ InOrder(previews) /\ OutsidersWait /\ Comments

\* The previews of the other pull requests are what they were.
OnlyOf(pr) == \A x \in PRs \ {pr} : Of(previews', x) = Of(previews, x)

\* A comment is brought up to date.
LEMMA CommentUpdated ==
  ASSUME Comments, NEW pr \in PRs, OnlyOf(pr), gone' = {p \in gone : p.pr # pr},
         NEW t \in {Notice("capacity"), Notice("config"), Table(previews', pr)},
         comment' = [comment EXCEPT ![pr] = t]
  PROVE  Comments'
<1>1. comment' = [x \in PRs |-> comment'[x]]
  BY DEF Comments
<1>2. comment'[pr] = t /\ \A x \in PRs \ {pr} : comment'[x] = comment[x]
  BY DEF Comments
<1>3. \A x \in PRs \ {pr} : Of(previews' \cup gone', x) = Of(previews \cup gone, x)
  <2> SUFFICES ASSUME NEW x \in PRs \ {pr}
               PROVE  Of(previews' \cup gone', x) = Of(previews \cup gone, x)
    OBVIOUS
  <2>1. \A p : p \in previews' /\ p.pr = x <=> p \in previews /\ p.pr = x
    BY DEF OnlyOf, Of
  <2> QED BY <2>1 DEF Of
<1>4. Of(previews' \cup gone', pr) = Of(previews', pr)
  BY DEF Of
<1>5. /\ t.kind \in {"config", "capacity"} => t.rows = {}
      /\ t.kind \in {"config", "capacity"} \/ t.rows = {Row(p) : p \in Of(previews', pr)}
  BY DEF Notice, Table
<1> HIDE DEF Comments
<1>6. CommentTellsTruth'
  <2> SUFFICES ASSUME NEW x \in PRs
               PROVE  \/ comment'[x].kind \in {"config", "capacity"}
                      \/ comment'[x].rows = {Row(p) : p \in Of(previews' \cup gone', x)}
    BY DEF CommentTellsTruth, Row
  <2>1. CASE x = pr
    BY <2>1, <1>2, <1>4, <1>5
  <2>2. CASE x # pr
    BY <2>2, <1>2, <1>3 DEF Comments, CommentTellsTruth
  <2> QED BY <2>1, <2>2
<1>7. \A x \in PRs : comment'[x].kind \in {"config", "capacity"}
                       => comment'[x].rows = {}
  BY <1>2, <1>5 DEF Comments
<1> QED BY <1>1, <1>6, <1>7 DEF Comments

\* deployApps for a pull request that may be deployed.
LEMMA DeployAppsInv ==
  ASSUME InOrder(previews), OutsidersWait, Comments, NEW pr \in PRs, NEW c \in Configs,
         Validate(c), NEW apps, apps \subseteq DOMAIN c.apps, NEW broken,
         DeployApps(pr, c, apps, broken),
         approved \subseteq approved', pr \in Outsiders => <<pr, c>> \in approved'
  PROVE  InOrder(previews') /\ OutsidersWait' /\ Comments'
<1>1. /\ InOrder(previews') /\ Deployed(previews, previews', pr, c)
      /\ apps = {} => UNCHANGED <<previews, gone>>
                      /\ comment' = [comment EXCEPT ![pr] = comment[pr]]
      /\ apps # {} =>
           /\ gone' = {p \in gone : p.pr # pr}
           /\ \E t \in {Notice("capacity"), Table(previews', pr)} :
                comment' = [comment EXCEPT ![pr] = t]
  BY DeployAppsKeeps
<1>2. OutsidersWait'
  BY <1>1 DEF OutsidersWait, Deployed
<1>3. OnlyOf(pr)
  BY <1>1 DEF OnlyOf, Of, Deployed
<1>4. CASE apps = {}
  <2>1. comment' = comment
    BY <1>1, <1>4 DEF Comments
  <2>2. Comments'
    BY <1>1, <1>4, <2>1 DEF Comments, CommentTellsTruth, Of, Row
  <2> QED BY <1>1, <1>2, <2>2
<1>5. CASE apps # {}
  BY <1>1, <1>2, <1>3, <1>5, CommentUpdated
<1> QED BY <1>4, <1>5

\* A push of a pull request that nobody has to approve.
LEMMA DeploySelectedInv ==
  ASSUME PRInv, NEW pr \in PRs, pr \notin Outsiders, NEW c \in Configs \cup {NoConfig},
         NEW files, NEW broken, DeploySelected(pr, c, files, broken),
         UNCHANGED approved
  PROVE  InOrder(previews') /\ OutsidersWait' /\ Comments'
<1> USE DEF PRInv
<1>1. CASE Untouched
  BY <1>1 DEF Untouched, OutsidersWait, Comments, CommentTellsTruth, Of, Row
<1>2. CASE /\ c # NoConfig /\ ~Validate(c)
           /\ comment' = [comment EXCEPT ![pr] = Notice("config")]
           /\ UNCHANGED <<previews, gone>>
  <2>1. comment' = [x \in PRs |-> comment'[x]]
    BY <1>2 DEF Comments
  <2>2. /\ comment'[pr] = Notice("config")
        /\ \A x \in PRs \ {pr} : comment'[x] = comment[x]
    BY <1>2 DEF Comments
  <2>3. Notice("config").kind = "config" /\ Notice("config").rows = {}
    BY DEF Notice
  <2>4. CommentTellsTruth'
    BY <1>2, <2>2, <2>3 DEF Comments, CommentTellsTruth, Of, Row
  <2>5. Comments'
    BY <2>1, <2>2, <2>3, <2>4 DEF Comments
  <2> QED BY <1>2, <2>5 DEF OutsidersWait
<1>3. CASE /\ c # NoConfig /\ Validate(c)
           /\ DeployApps(pr, c, AppsToDeploy(c, "main", Branch[pr], files), broken)
  <2>1. AppsToDeploy(c, "main", Branch[pr], files) \subseteq DOMAIN c.apps
    BY DEF AppsToDeploy, MatchedApps
  <2> QED BY <1>3, <2>1, DeployAppsInv
<1> QED BY <1>1, <1>2, <1>3 DEF DeploySelected

\* opened, synchronize, reopened, ready_for_review.
LEMMA PushedInv ==
  ASSUME PRInv, NEW pr \in PRs, Pushed(pr) PROVE PRInv'
<1>1. PICK c \in Configs \cup {NoConfig}, files \in Changes :
        \E broken \in SUBSET Names(c) :
          /\ head' = [head EXCEPT ![pr] = c]
          /\ changed' = [changed EXCEPT ![pr] = files]
          /\ DeployFromEvent(pr, c, files, broken)
  BY DEF Pushed
<1>2. /\ head' \in [PRs -> Configs \cup {NoConfig}]
      /\ changed' \in [PRs -> Changes \cup {{}}]
  BY <1>1 DEF PRInv
<1>3. UNCHANGED approved
  BY DEF Pushed
<1>4. CASE Untouched
  BY <1>2, <1>3, <1>4
     DEF PRInv, Untouched, OutsidersWait, Comments, CommentTellsTruth, Of, Row
<1>5. CASE pr \notin Outsiders
           /\ \E broken : DeploySelected(pr, c, files, broken)
  BY <1>2, <1>3, <1>5, DeploySelectedInv DEF PRInv
<1>6. Untouched \/ (pr \notin Outsiders
                    /\ \E broken : DeploySelected(pr, c, files, broken))
  BY <1>1 DEF DeployFromEvent, AutoBuildAllowed, FromFork, Association,
              TrustedAuthor, Trusted
<1> QED BY <1>4, <1>5, <1>6

\* closed.
LEMMA ClosedInv ==
  ASSUME PRInv, NEW pr \in PRs, Closed(pr) PROVE PRInv'
<1> USE DEF PRInv, Closed
<1>1. InOrder(previews')
  <2>1. IsFiniteSet(previews')
    BY FS_Subset DEF InOrder
  <2> QED BY <2>1 DEF InOrder, OnePerApp
<1>2. \A x \in PRs : Of(previews' \cup gone', x) = Of(previews \cup gone, x)
  BY DEF Of
<1>3. CommentTellsTruth'
  BY <1>2 DEF Comments, CommentTellsTruth, Row
<1>4. OutsidersWait'
  BY DEF OutsidersWait
<1> QED BY <1>1, <1>3, <1>4 DEF Comments

\* A preview goes at its TTL.
LEMMA ExpireInv ==
  ASSUME PRInv, NEW p \in previews, Expire(p) PROVE PRInv'
<1> USE DEF PRInv, Expire
<1>1. InOrder(previews')
  <2>1. IsFiniteSet(previews')
    BY FS_Subset DEF InOrder
  <2> QED BY <2>1 DEF InOrder, OnePerApp
<1>2. \A x \in PRs : Of(previews' \cup gone', x) = Of(previews \cup gone, x)
  BY DEF Of
<1>3. CommentTellsTruth'
  BY <1>2 DEF Comments, CommentTellsTruth, Row
<1>4. OutsidersWait'
  BY DEF OutsidersWait
<1> QED BY <1>1, <1>3, <1>4 DEF Comments

\* /preview redeploy.
LEMMA RedeployInv ==
  ASSUME PRInv, NEW pr \in PRs, NEW app, Redeploy(pr, app)
  PROVE  InOrder(previews') /\ OutsidersWait' /\ Comments'
<1> DEFINE apps == {i \in DOMAIN head[pr].apps : app \in {"", head[pr].apps[i].name}}
<1>1. head[pr] \in Configs /\ Validate(head[pr])
  BY DEF PRInv, Redeploy
<1>2. PICK broken : DeployApps(pr, head[pr], apps, broken)
  BY DEF Redeploy
<1>3. approved \subseteq approved' /\ <<pr, head[pr]>> \in approved'
  BY DEF Redeploy
<1>4. apps \subseteq DOMAIN head[pr].apps
  OBVIOUS
<1> HIDE DEF apps
<1> QED BY <1>1, <1>2, <1>3, <1>4, DeployAppsInv DEF PRInv

\* /preview destroy.
LEMMA DestroyInv ==
  ASSUME PRInv, NEW pr \in PRs, NEW app, DestroyPreviews(pr, app)
  PROVE  InOrder(previews') /\ OutsidersWait' /\ Comments'
<1> USE DEF PRInv, DestroyPreviews, UpdateComment
<1>1. InOrder(previews')
  <2>1. IsFiniteSet(previews')
    BY FS_Subset DEF InOrder
  <2> QED BY <2>1 DEF InOrder, OnePerApp
<1>2. OutsidersWait'
  BY DEF OutsidersWait
<1>3. OnlyOf(pr)
  BY DEF OnlyOf, Of
<1> QED BY <1>1, <1>2, <1>3, CommentUpdated

\* /preview wake, when some wake up.
LEMMA WokenInv ==
  ASSUME PRInv, NEW pr \in PRs, NEW ps \in SUBSET Of(previews, pr),
         previews' = (previews \ ps) \cup {[p EXCEPT !.status = "running"] : p \in ps},
         UpdateComment(previews', pr), UNCHANGED approved
  PROVE  InOrder(previews') /\ OutsidersWait' /\ Comments'
<1> DEFINE up == {[p EXCEPT !.status = "running"] : p \in ps}
<1>0. \A p \in ps : p \in previews /\ p.pr = pr
  BY DEF Of
<1>1. \A p \in ps : LET q == [p EXCEPT !.status = "running"] IN
        /\ Shape(q) /\ q.pr = p.pr /\ q.app = p.app /\ q.cfg = p.cfg
        /\ q.host = p.host /\ q.url = p.url
  BY <1>0 DEF PRInv, InOrder, Shape
<1>2. \A q \in up : /\ Shape(q) /\ q.pr = pr
                    /\ \E p \in ps : /\ q.pr = p.pr /\ q.app = p.app /\ q.cfg = p.cfg
                                     /\ q.host = p.host /\ q.url = p.url
                                     /\ q = [p EXCEPT !.status = "running"]
  BY <1>0, <1>1
<1> HIDE DEF up
<1>3. IsFiniteSet(previews')
  <2>1. IsFiniteSet(ps) /\ IsFiniteSet(previews \ ps)
    BY FS_Subset, <1>0 DEF PRInv, InOrder
  <2>2. IsFiniteSet(up)
    <3> DEFINE f == [p \in ps |-> [p EXCEPT !.status = "running"]]
    <3>1. f \in Surjection(ps, up)
      BY DEF Surjection, up
    <3> QED BY <2>1, <3>1, FS_Surjection
  <2> QED BY <2>1, <2>2, FS_Union DEF up
<1>4. OnePerApp(previews')
  BY <1>0, <1>2 DEF OnePerApp, up, PRInv, InOrder
<1>5. InOrder(previews')
  BY <1>0, <1>2, <1>3, <1>4 DEF InOrder, Configured, up, PRInv
<1>6. OutsidersWait'
  BY <1>0, <1>2 DEF OutsidersWait, PRInv, up
<1>7. OnlyOf(pr)
  BY <1>0, <1>2 DEF OnlyOf, Of, up
<1> QED BY <1>5, <1>6, <1>7, CommentUpdated DEF UpdateComment, PRInv

\* A comment on a pull request.
LEMMA CommentedInv ==
  ASSUME PRInv, NEW pr \in PRs, Commented(pr) PROVE PRInv'
<1>1. PICK cmd : \/ /\ cmd.action = "status" /\ UpdateComment(previews, pr)
                    /\ UNCHANGED <<previews, approved>>
                 \/ DestroyPreviews(pr, cmd.app)
                 \/ WakePR(pr, cmd.app)
                 \/ Redeploy(pr, cmd.app)
  BY Zenon DEF Commented
<1>2. UNCHANGED <<head, changed>>
  BY DEF Commented
<1>3. CASE UpdateComment(previews, pr) /\ UNCHANGED <<previews, approved>>
  <2>1. OnlyOf(pr)
    BY <1>3 DEF OnlyOf
  <2>2. Comments'
    BY <1>3, <2>1, CommentUpdated DEF UpdateComment, PRInv
  <2> QED BY <1>2, <1>3, <2>2 DEF PRInv, OutsidersWait
<1>4. CASE DestroyPreviews(pr, cmd.app)
  BY <1>2, <1>4, DestroyInv DEF PRInv
<1>5. CASE Redeploy(pr, cmd.app)
  BY <1>2, <1>5, RedeployInv DEF PRInv
<1>6. CASE WakePR(pr, cmd.app) /\ ~ Redeploy(pr, cmd.app)
  <2>1. PICK ps \in SUBSET Of(previews, pr) :
          previews' = (previews \ ps)
                         \cup {[p EXCEPT !.status = "running"] : p \in ps}
    BY <1>6 DEF WakePR
  <2>2. UpdateComment(previews', pr) /\ UNCHANGED approved
    BY <1>6 DEF WakePR
  <2> QED BY <1>2, <2>1, <2>2, WokenInv DEF PRInv
<1> QED BY <1>1, <1>3, <1>4, <1>5, <1>6

\* Before the first webhook.
LEMMA InitPRInv == PRInit => PRInv
<1> SUFFICES ASSUME PRInit PROVE PRInv
  OBVIOUS
<1>1. InOrder(previews)
  BY FS_EmptySet DEF PRInit, InOrder, OnePerApp
<1>2. Comments
  BY DEF PRInit, Comments, CommentTellsTruth, None, Of
<1> QED BY <1>1, <1>2 DEF PRInit, PRInv, OutsidersWait

\* The invariant is inductive.
LEMMA NextPRInv ==
  PRInv /\ [WebhookStep \/ ExpireStep \/ ForgetClosed]_prVars => PRInv'
<1> SUFFICES ASSUME PRInv, [WebhookStep \/ ExpireStep \/ ForgetClosed]_prVars
             PROVE  PRInv'
  OBVIOUS
<1>1. CASE WebhookStep
  BY <1>1, PushedInv, ClosedInv, CommentedInv DEF WebhookStep
<1>2. CASE ExpireStep
  BY <1>2, ExpireInv DEF ExpireStep
<1>3. CASE ForgetClosed \/ UNCHANGED prVars
  BY <1>3 DEF ForgetClosed, prVars, PRInv, InOrder, OnePerApp, OutsidersWait, Comments,
              CommentTellsTruth, Of, Row
<1> QED BY <1>1, <1>2, <1>3

\* The invariant of the previews and their comments.
THEOREM PRInvHeld == PRSpec => []PRInv
BY InitPRInv, NextPRInv, PTL DEF PRSpec

\* What a row of the comment is made of, and a preview.
RowSet == [app : STRING, status : Statuses, url : PRs \X STRING,
           token : 0 .. MaxWebhooks]

\* A preview's record is of its type.
Sound(p) == p.pr \in PRs /\ p.cfg \in Configs /\ Row(p) \in RowSet
            /\ p.host \in PRs \X STRING

\* What PRInv leaves open of the types.
Plain ==
  /\ \A p \in previews \cup gone : Sound(p)
  /\ \A pr \in PRs : comment[pr].kind \in {"none", "config", "capacity", "table"}
  /\ closed \subseteq PRs /\ approved \subseteq PRs \X Configs
  /\ webhooks \in 0 .. MaxWebhooks

\* The rest it has: a comment is its previews' rows, or a notice without any.
LEMMA PlainTypes == PRInv /\ Plain => PRTypeOK
<1> SUFFICES ASSUME PRInv, Plain PROVE PRTypeOK
  OBVIOUS
<1>1. changed \in [PRs -> SUBSET UNION Changes]
  BY DEF PRInv
<1>2. ASSUME NEW pr \in PRs, NEW r \in comment[pr].rows PROVE r \in RowSet
  <2>1. PICK p \in previews \cup gone : r = Row(p)
    BY <1>2 DEF PRInv, Comments, CommentTellsTruth, Of
  <2> QED BY <2>1 DEF Plain, Sound
<1> QED BY <1>1, <1>2 DEF PRTypeOK, PRInv, Plain, Sound, RowSet, Statuses

\* A preview of a configuration is sound if its status and its token are.
LEMMA ConfiguredSound ==
  ASSUME NEW p, p.pr \in PRs, Configured(p), p.status \in Statuses,
         p.token \in 0 .. MaxWebhooks
  PROVE  Sound(p)
<1>1. p.cfg \in Configs /\ p.url = p.host
  BY DEF Configured
<1>2. p.app \in STRING /\ p.host \in PRs \X STRING
  BY ConfigsAssumption DEF Configured, Host
<1> QED BY <1>1, <1>2 DEF Sound, Row, RowSet

\* A deploy leaves sound previews.
LEMMA DeployedSound ==
  ASSUME Plain, InOrder(previews'), NEW pr \in PRs, NEW c,
         Deployed(previews, previews', pr, c)
  PROVE  \A p \in previews' : Sound(p)
<1> SUFFICES ASSUME NEW p \in previews' PROVE Sound(p)
  OBVIOUS
<1>1. CASE p \in previews
  BY <1>1 DEF Plain
<1>2. CASE p \notin previews
  <2>1. p.pr = pr /\ p.status \in Statuses
    BY <1>2 DEF Deployed
  <2>2. \A q \in previews : q.token \in 0 .. MaxWebhooks
    BY DEF Plain, Sound, Row, RowSet
  <2>3. p.token \in 0 .. MaxWebhooks
    BY <1>2, <2>2 DEF Deployed, Plain
  <2>4. Configured(p)
    BY DEF InOrder
  <2> QED BY <2>1, <2>3, <2>4, ConfiguredSound
<1> QED BY <1>1, <1>2

\* deployApps, with its comment.
LEMMA DeployAppsPlain ==
  ASSUME PRInv, Plain, NEW pr \in PRs, NEW c \in Configs, Validate(c),
         NEW apps, apps \subseteq DOMAIN c.apps, NEW broken,
         DeployApps(pr, c, apps, broken)
  PROVE  /\ \A p \in previews' \cup gone' : Sound(p)
         /\ \A x \in PRs :
              comment'[x].kind \in {"none", "config", "capacity", "table"}
<1>1. /\ InOrder(previews') /\ Deployed(previews, previews', pr, c)
      /\ apps = {} => UNCHANGED <<previews, gone>>
                      /\ comment' = [comment EXCEPT ![pr] = comment[pr]]
      /\ apps # {} =>
           /\ gone' = {p \in gone : p.pr # pr}
           /\ \E t \in {Notice("capacity"), Table(previews', pr)} :
                comment' = [comment EXCEPT ![pr] = t]
  BY DeployAppsKeeps DEF PRInv
<1>2. \A p \in previews' : Sound(p)
  BY <1>1, DeployedSound
<1>3. \A p \in gone' : Sound(p)
  BY <1>1 DEF Plain
<1>4. \A x \in PRs : comment'[x].kind \in {"none", "config", "capacity", "table"}
  BY <1>1 DEF Plain, PRInv, Comments, Notice, Table
<1> QED BY <1>2, <1>3, <1>4

\* opened, synchronize, reopened, ready_for_review.
LEMMA PushedPlain ==
  ASSUME PRInv, Plain, NEW pr \in PRs, Pushed(pr) PROVE Plain'
<1>1. PICK c \in Configs \cup {NoConfig}, files \in Changes :
        \E broken : DeployFromEvent(pr, c, files, broken)
  BY DEF Pushed
<1>2. UNCHANGED approved /\ closed' \subseteq PRs /\ webhooks' \in 0 .. MaxWebhooks
  BY WebhooksAssumption DEF Pushed, Delivered, Plain
<1>3. CASE Untouched
  BY <1>2, <1>3 DEF Untouched, Plain, Sound, Row
<1>4. CASE \E broken : DeploySelected(pr, c, files, broken)
  <2>1. PICK broken : DeploySelected(pr, c, files, broken)
    BY <1>4
  <2>2. CASE comment' = [comment EXCEPT ![pr] = Notice("config")]
             /\ UNCHANGED <<previews, gone>>
    BY <1>2, <2>2 DEF Plain, Sound, Row, PRInv, Comments, Notice
  <2>3. CASE /\ c # NoConfig /\ Validate(c)
             /\ DeployApps(pr, c, AppsToDeploy(c, "main", Branch[pr], files), broken)
    <3>1. AppsToDeploy(c, "main", Branch[pr], files) \subseteq DOMAIN c.apps
      BY DEF AppsToDeploy, MatchedApps
    <3>2. /\ \A p \in previews' \cup gone' : Sound(p)
          /\ \A x \in PRs :
               comment'[x].kind \in {"none", "config", "capacity", "table"}
      BY <2>3, <3>1, DeployAppsPlain
    <3> QED BY <1>2, <3>2 DEF Plain, Sound, Row
  <2> QED BY <1>3, <2>1, <2>2, <2>3 DEF DeploySelected
<1> QED BY <1>1, <1>3, <1>4 DEF DeployFromEvent

\* A close, the TTL, a restart.
LEMMA LeavesPlain ==
  ASSUME PRInv, Plain,
         \/ \E pr \in PRs : Closed(pr)
         \/ ExpireStep \/ ForgetClosed \/ UNCHANGED prVars
  PROVE  Plain'
<1>1. \A p \in previews' \cup gone' : p \in previews \cup gone
  BY DEF Closed, ExpireStep, Expire, ForgetClosed, prVars, Of
<1>2. UNCHANGED <<comment, approved>> /\ closed' \subseteq PRs
      /\ webhooks' \in 0 .. MaxWebhooks
  BY WebhooksAssumption
     DEF Closed, ExpireStep, Expire, ForgetClosed, prVars, Delivered, Plain
<1> QED BY <1>1, <1>2 DEF Plain, Sound, Row

\* /preview redeploy, of the configuration at the head.
LEMMA RedeployPlain ==
  ASSUME PRInv, Plain, NEW pr \in PRs, NEW app, Redeploy(pr, app)
  PROVE  /\ \A p \in previews' \cup gone' : Sound(p)
         /\ \A x \in PRs :
              comment'[x].kind \in {"none", "config", "capacity", "table"}
         /\ approved' \subseteq PRs \X Configs
<1> DEFINE apps == {i \in DOMAIN head[pr].apps : app \in {"", head[pr].apps[i].name}}
<1>1. head[pr] \in Configs /\ Validate(head[pr])
  BY DEF PRInv, Redeploy
<1>2. PICK broken : DeployApps(pr, head[pr], apps, broken)
  BY DEF Redeploy
<1>3. approved' \subseteq PRs \X Configs
  <2>1. approved' = approved \cup {<<pr, head[pr]>>}
    BY Zenon DEF Redeploy
  <2> QED BY <1>1, <2>1 DEF Plain
<1>4. apps \subseteq DOMAIN head[pr].apps
  OBVIOUS
<1> HIDE DEF apps
<1> QED BY <1>1, <1>2, <1>3, <1>4, DeployAppsPlain

\* The commands that set the comment last.
LEMMA UpdatePlain ==
  ASSUME PRInv, Plain, NEW pr \in PRs, UpdateComment(previews', pr)
  PROVE  /\ \A p \in gone' : Sound(p)
         /\ \A x \in PRs :
              comment'[x].kind \in {"none", "config", "capacity", "table"}
BY DEF UpdateComment, Plain, PRInv, Comments, Table

\* Who wakes up was sound before.
LEMMA WokenSound ==
  ASSUME PRInv, Plain, NEW ps \in SUBSET previews,
         previews' = (previews \ ps) \cup {[p EXCEPT !.status = "running"] : p \in ps}
  PROVE  \A p \in previews' : Sound(p)
<1> SUFFICES ASSUME NEW q \in ps PROVE Sound([q EXCEPT !.status = "running"])
  BY DEF Plain
<1>1. Shape(q) /\ Sound(q)
  BY DEF PRInv, InOrder, Plain
<1> DEFINE r == [q EXCEPT !.status = "running"]
<1>2. /\ r.pr = q.pr /\ r.app = q.app /\ r.cfg = q.cfg /\ r.token = q.token
      /\ r.host = q.host /\ r.url = q.url /\ r.status = "running"
  BY <1>1 DEF Shape
<1> HIDE DEF r
<1> QED BY <1>1, <1>2 DEF Sound, Row, RowSet, Statuses, r

\* A command, whichever it is.
LEMMA CommentedPlain ==
  ASSUME PRInv, Plain, NEW pr \in PRs, Commented(pr) PROVE Plain'
<1>1. PICK cmd : \/ /\ cmd.action = "status" /\ UpdateComment(previews, pr)
                    /\ UNCHANGED <<previews, approved>>
                 \/ DestroyPreviews(pr, cmd.app)
                 \/ WakePR(pr, cmd.app)
                 \/ Redeploy(pr, cmd.app)
  BY Zenon DEF Commented
<1>2. UNCHANGED closed /\ webhooks' \in 0 .. MaxWebhooks
  BY WebhooksAssumption DEF Commented, Delivered, Plain
<1>3. ASSUME UpdateComment(previews', pr), UNCHANGED approved,
             \A p \in previews' : Sound(p)
      PROVE  Plain'
  BY <1>2, <1>3, UpdatePlain DEF Plain, Sound, Row
<1>4. CASE UpdateComment(previews, pr) /\ UNCHANGED <<previews, approved>>
  BY <1>3, <1>4 DEF Plain, UpdateComment
<1>5. CASE DestroyPreviews(pr, cmd.app)
  BY <1>3, <1>5 DEF Plain, DestroyPreviews
<1>6. CASE Redeploy(pr, cmd.app)
  <2>1. /\ \A p \in previews' \cup gone' : Sound(p)
        /\ \A x \in PRs :
             comment'[x].kind \in {"none", "config", "capacity", "table"}
        /\ approved' \subseteq PRs \X Configs
    BY <1>6, RedeployPlain
  <2> QED BY <1>2, <2>1 DEF Plain, Sound, Row
<1>7. CASE WakePR(pr, cmd.app) /\ ~ Redeploy(pr, cmd.app)
  <2>1. PICK ps \in SUBSET Of(previews, pr) :
          previews' = (previews \ ps)
                         \cup {[p EXCEPT !.status = "running"] : p \in ps}
    BY <1>7 DEF WakePR
  <2>2. UpdateComment(previews', pr) /\ UNCHANGED approved
    BY <1>7 DEF WakePR
  <2>3. ps \in SUBSET previews
    BY DEF Of
  <2> QED BY <1>3, <2>1, <2>2, <2>3, WokenSound
<1> QED BY <1>1, <1>4, <1>5, <1>6, <1>7

\* Before the first webhook.
LEMMA InitPlain == PRInit => Plain
BY WebhooksAssumption DEF PRInit, Plain, None

\* Plain is inductive beside PRInv.
LEMMA NextPlain ==
  PRInv /\ Plain /\ [WebhookStep \/ ExpireStep \/ ForgetClosed]_prVars => Plain'
BY PushedPlain, LeavesPlain, CommentedPlain DEF WebhookStep

\* The records, the comments and the rest of PullRequests are of their types.
THEOREM PRTypeCorrect == PRSpec => []PRTypeOK
BY InitPRInv, NextPRInv, InitPlain, NextPlain, PlainTypes, PTL DEF PRSpec

\* internal/github and deployFromEvent: a fork's code waits for a trusted
\* comment, whatever is pushed, closed, reopened or woken.
THEOREM OutsidersWaitHeld == PRSpec => []OutsidersWait
<1>1. PRInv => OutsidersWait
  BY DEF PRInv
<1> QED BY <1>1, PRInvHeld, PTL

\* updatePRComment and its callers: the sticky comment shows the previews that
\* there are, and of those that went only such as no comment is written for.
THEOREM CommentTellsTruthHeld == PRSpec => []CommentTellsTruth
<1>1. PRInv => CommentTellsTruth
  BY DEF PRInv, Comments
<1> QED BY <1>1, PRInvHeld, PTL

\* RepoConfig.Host, with what Validate asks of subdomains: two previews of one
\* configuration never answer to one host.
THEOREM HostsDistinctHeld == PRSpec => []HostsDistinct
<1>1. PRInv => HostsDistinct
  <2> SUFFICES ASSUME PRInv, NEW p \in previews, NEW q \in previews,
                      p.host = q.host, p.cfg = q.cfg
               PROVE  p = q
    BY DEF HostsDistinct
  <2>1. /\ p.cfg \in Configs /\ Validate(p.cfg) /\ Configured(p) /\ Configured(q)
    BY DEF PRInv, InOrder, Configured
  <2>2. PICK i \in DOMAIN p.cfg.apps :
          p.app = p.cfg.apps[i].name /\ p.host = Host(p.pr, p.cfg.apps[i])
    BY <2>1 DEF Configured
  <2>3. PICK j \in DOMAIN p.cfg.apps :
          q.app = p.cfg.apps[j].name /\ q.host = Host(q.pr, p.cfg.apps[j])
    BY <2>1 DEF Configured
  <2>4. p.pr = q.pr /\ p.cfg.apps[i].sub = p.cfg.apps[j].sub
    <3>1. <<p.pr, p.cfg.apps[i].sub>> = <<q.pr, p.cfg.apps[j].sub>>
      BY <2>2, <2>3, Zenon DEF Host
    <3> QED BY <3>1
  <2>5. i = j
    <3> SUFFICES ASSUME i # j PROVE FALSE
      OBVIOUS
    <3>1. p.cfg.apps[i].sub = NoSub
      BY <2>1, <2>4 DEF Validate
    <3>2. MultiApp(p.cfg)
      BY <2>1, ConfigsAssumption DEF MultiApp
    <3> QED BY <2>1, <3>1, <3>2 DEF Validate
  <2> QED BY <2>2, <2>3, <2>4, <2>5 DEF PRInv, InOrder, OnePerApp
<1> QED BY <1>1, PRInvHeld, PTL

\* MatchedApps: the globs of .prevly.yml select the files that they mean.
THEOREM GlobsMeantHeld == PRSpec => []GlobsMeant
<1>1. PRInv => GlobsMeant
  <2> SUFFICES ASSUME PRInv, NEW pr \in PRs, head[pr] # NoConfig,
                      NEW i \in DOMAIN head[pr].apps
               PROVE  AppMatches(head[pr].apps[i], changed[pr])
                        <=> \E f \in changed[pr], g \in head[pr].apps[i].paths : Meant(g, f)
    BY DEF GlobsMeant
  <2>1. head[pr] \in Configs /\ changed[pr] \in Changes \cup {{}}
    BY DEF PRInv
  <2>2. /\ changed[pr] \subseteq Seq(STRING)
        /\ head[pr].apps[i].paths \subseteq Seq(STRING)
    BY <2>1, ConfigsAssumption
  <2>3. \A f \in changed[pr], g \in head[pr].apps[i].paths :
          MatchSegments(g, f) <=> Meant(g, f)
    BY <2>2, MatchIsMeant
  <2> QED BY <2>3, Zenon DEF AppMatches
<1> QED BY <1>1, PRInvHeld, PTL

\* previewFor and feedbackLink: the link of a row in the comment opens the widget
\* of its preview, of whatever configuration it was deployed by.
THEOREM LinksOpenHeld == PRSpec => []LinksOpen
<1>1. PRInv => LinksOpen
  <2> SUFFICES ASSUME PRInv, NEW pr \in PRs, NEW r \in comment[pr].rows,
                      ~ \E p \in gone : r = Row(p)
               PROVE  \/ /\ Routed(r.url) # {}
                         /\ \A p \in Routed(r.url) : p.token = r.token
                      \/ Cardinality(Routed(r.url)) > 1
    BY DEF LinksOpen
  <2>1. comment[pr].rows = {Row(p) : p \in Of(previews \cup gone, pr)}
    BY DEF PRInv, Comments, CommentTellsTruth
  <2>2. PICK p \in previews : r = Row(p)
    BY <2>1 DEF Of
  <2>3. r.url = p.host /\ r.token = p.token /\ p \in Routed(r.url)
    <3>1. p.url = p.host
      BY DEF PRInv, InOrder, Configured
    <3> QED BY <2>2, <3>1 DEF Row, Routed
  <2>4. IsFiniteSet(Routed(r.url))
    BY FS_Subset DEF PRInv, InOrder, Routed
  <2>5. ASSUME NEW q \in Routed(r.url), q # p
        PROVE  Cardinality(Routed(r.url)) > 1
    BY <2>3, <2>4, <2>5, TwoMembers
  <2> QED BY <2>3, <2>5
<1> QED BY <1>1, PRInvHeld, PTL

-----------------------------------------------------------------------------
(* The limiter by itself.                                                  *)

\* A bucket that was never asked for let nothing in.
Fresh == \A k \in Buckets : bucket[k] = NoBucket => let[k] = <<>>

\* What was let in since any report, and what is left in the bucket, is no more
\* than a full bucket and what was earned until the bucket's last visit.
Earned ==
  \A k \in Buckets : \A i \in DOMAIN let[k] :
    (Len(let[k]) - i + 1) * Cost + bucket[k].tokens
      <= Full + bucket[k].at - let[k][i]

LimiterInv == LimiterTypeOK /\ Fresh /\ Earned /\ RateHeld

\* A full bucket is a number of ticks.
LEMMA FullNat == Full \in Nat
BY RateAssumption, SMT DEF Full

\* One report more costs Cost more.
LEMMA OneMore == ASSUME NEW n \in Int PROVE (n + 1) * Cost = n * Cost + Cost
BY RateAssumption, SMT

\* A bucket, or none.
LEMMA BucketForm ==
  ASSUME LimiterTypeOK, NEW k \in Buckets
  PROVE  \/ bucket[k] = NoBucket
         \/ /\ bucket[k] \in [tokens : 0 .. Full, at : 0 .. now]
            /\ bucket[k] # NoBucket
BY SMT DEF LimiterTypeOK, NoBucket

\* Bringing a bucket up to date: what limiter.allow puts into it.
LEMMA FilledForm ==
  ASSUME LimiterTypeOK, NEW k \in Buckets
  PROVE  /\ Filled(k) = [tokens |-> Filled(k).tokens, at |-> now]
         /\ Filled(k).tokens \in 0 .. Full
         /\ Filled(k) \in [tokens : 0 .. Full, at : 0 .. now]
         /\ bucket[k] # NoBucket =>
              Filled(k).tokens <= bucket[k].tokens + (now - bucket[k].at)
<1>0. now \in Nat /\ Full \in Nat
  BY FullNat DEF LimiterTypeOK
<1>1. CASE bucket[k] = NoBucket
  <2>1. Filled(k) = [tokens |-> Full, at |-> now]
    BY <1>1 DEF Filled
  <2> QED BY <1>0, <1>1, <2>1, SMT
<1>2. CASE bucket[k] # NoBucket
  <2> DEFINE t == Least(Full, bucket[k].tokens + (now - bucket[k].at))
  <2>1. Filled(k) = [tokens |-> t, at |-> now]
    BY <1>2 DEF Filled
  <2>2. /\ bucket[k].tokens \in 0 .. Full /\ bucket[k].at \in 0 .. now
    BY <1>2, BucketForm, SMT
  <2>3. t \in 0 .. Full /\ t <= bucket[k].tokens + (now - bucket[k].at)
    BY <1>0, <2>2, SMT DEF Least
  <2> HIDE DEF t
  <2> QED BY <1>0, <2>1, <2>3, SMT
<1> QED BY <1>1, <1>2

\* The fresh limiter.
LEMMA LimiterInvInit == LimiterInit => LimiterInv
<1> SUFFICES ASSUME LimiterInit PROVE LimiterInv
  OBVIOUS
<1>1. LimiterTypeOK
  BY FullNat, SMT DEF LimiterInit, LimiterTypeOK, Never, NoBucket
<1>2. Fresh /\ Earned /\ RateHeld
  BY SMT DEF LimiterInit, Fresh, Earned, RateHeld
<1> QED BY <1>1, <1>2 DEF LimiterInv

\* A report that is let in.
LEMMA AllowKeepsInv ==
  ASSUME LimiterInv, NEW k \in Buckets, Allow(k), UNCHANGED now PROVE LimiterInv'
<1> DEFINE t == Filled(k).tokens
           L == Len(let[k])
<1>0. LimiterTypeOK /\ Fresh /\ Earned /\ RateHeld
  BY DEF LimiterInv
<1>1. /\ now \in Nat /\ now' = now /\ Full \in Nat /\ Cost \in Nat \ {0}
      /\ let[k] \in Seq(0 .. now) /\ L \in Nat
  BY <1>0, FullNat, RateAssumption DEF LimiterTypeOK
<1>2. /\ t \in 0 .. Full /\ t >= Cost
      /\ Filled(k) = [tokens |-> t, at |-> now]
      /\ bucket[k] # NoBucket => t <= bucket[k].tokens + (now - bucket[k].at)
  BY <1>0, FilledForm DEF Allow
<1>3. bucket' = [bucket EXCEPT ![k] = [tokens |-> t - Cost, at |-> now]]
  <2>1. [Filled(k) EXCEPT !.tokens = @ - Cost] = [tokens |-> t - Cost, at |-> now]
    <3> DEFINE f == Filled(k)
    <3>1. f = [tokens |-> t, at |-> now]
      BY <1>2
    <3> HIDE DEF f, t
    <3>2. [f EXCEPT !.tokens = f.tokens - Cost] = [tokens |-> t - Cost, at |-> now]
      BY <3>1, SMT
    <3> QED BY <3>2 DEF f
  <2> QED BY <2>1 DEF Allow
<1>4. let' = [let EXCEPT ![k] = Append(@, now)] /\ due' = [due EXCEPT ![k] = Never]
  BY DEF Allow
<1> HIDE DEF t, L
<1>5. LimiterTypeOK'
  <2>1. bucket' \in [Buckets -> [tokens : 0 .. Full, at : 0 .. now] \cup {NoBucket}]
    BY <1>0, <1>1, <1>2, <1>3, SMT DEF LimiterTypeOK
  <2>2. let' \in [Buckets -> Seq(0 .. now)]
    <3>1. Append(let[k], now) \in Seq(0 .. now)
      BY <1>1, SMT
    <3> QED BY <1>0, <1>4, <3>1 DEF LimiterTypeOK
  <2>3. due' \in [Buckets -> Int]
    BY <1>0, <1>4, SMT DEF LimiterTypeOK, Never
  <2> QED BY <1>1, <2>1, <2>2, <2>3 DEF LimiterTypeOK, Full, NoBucket
<1>6. ASSUME NEW j \in Buckets, j # k
      PROVE  bucket'[j] = bucket[j] /\ let'[j] = let[j]
  BY <1>0, <1>3, <1>4, <1>6 DEF LimiterTypeOK
<1>7. /\ bucket'[k] = [tokens |-> t - Cost, at |-> now]
      /\ let'[k] = Append(let[k], now)
  BY <1>0, <1>3, <1>4 DEF LimiterTypeOK
<1>8. /\ Len(let'[k]) = L + 1 /\ DOMAIN let'[k] = 1 .. L + 1
      /\ let'[k][L + 1] = now
      /\ \A i \in 1 .. L : let'[k][i] = let[k][i] /\ let[k][i] \in 0 .. now
      /\ DOMAIN let[k] = 1 .. L
  BY <1>1, <1>7, SMT DEF L

\* Since any report that was let in before, the new one included.
<1>9. ASSUME NEW i \in 1 .. L
      PROVE  ((L + 1) - i + 1) * Cost + (t - Cost) <= Full + now - let[k][i]
  <2>1. bucket[k] # NoBucket
    <3> SUFFICES ASSUME bucket[k] = NoBucket PROVE FALSE
      OBVIOUS
    <3>1. let[k] = <<>>
      BY <1>0 DEF Fresh
    <3>2. L = 0
      BY <3>1, SMT DEF L
    <3> QED BY <3>2, SMT
  <2>2. bucket[k].tokens \in 0 .. Full /\ bucket[k].at \in 0 .. now
    BY <1>0, <2>1, BucketForm, SMT
  <2>3. (L - i + 1) * Cost + bucket[k].tokens <= Full + bucket[k].at - let[k][i]
    BY <1>0, <1>8 DEF Earned, L
  <2>4. ((L + 1) - i + 1) * Cost = (L - i + 1) * Cost + Cost
    <3>1. ((L - i + 1) + 1) * Cost = (L - i + 1) * Cost + Cost
      BY <1>1, OneMore
    <3>2. (L + 1) - i + 1 = (L - i + 1) + 1
      BY <1>1, SMT
    <3> QED BY <3>1, <3>2
  <2>5. (L - i + 1) * Cost \in Int
    BY <1>1, SMT
  <2>6. let[k][i] \in Int
    BY <1>8, SMT
  <2> DEFINE w == (L - i + 1) * Cost
             x == let[k][i]
             b == bucket[k].tokens
             a == bucket[k].at
  <2>7. w + b <= Full + a - x /\ b \in Nat /\ a \in Nat /\ w \in Int /\ x \in Int
        /\ t <= b + (now - a) /\ t \in Int /\ now \in Nat /\ Full \in Nat /\ Cost \in Nat
    BY <1>1, <1>2, <2>1, <2>2, <2>3, <2>5, <2>6, SMT
  <2>8. ((L + 1) - i + 1) * Cost = w + Cost
    BY <2>4
  <2> HIDE DEF w, x, b, a
  <2>9. (w + Cost) + (t - Cost) <= Full + now - x
    BY <2>7, SMT
  <2> QED BY <2>8, <2>9 DEF x
<1>10. Fresh'
  <2> SUFFICES ASSUME NEW j \in Buckets, bucket'[j] = NoBucket PROVE let'[j] = <<>>
    BY DEF Fresh, NoBucket
  <2>1. j # k
    BY <1>1, <1>2, <1>7, SMT DEF NoBucket
  <2> QED BY <1>0, <1>6, <2>1 DEF Fresh
<1>11. Earned'
  <2> SUFFICES ASSUME NEW j \in Buckets, NEW i \in DOMAIN let'[j]
               PROVE  (Len(let'[j]) - i + 1) * Cost + bucket'[j].tokens
                        <= Full + bucket'[j].at - let'[j][i]
    BY DEF Earned, Full
  <2>1. CASE j # k
    BY <1>0, <1>6, <2>1 DEF Earned
  <2>2. CASE j = k /\ i \in 1 .. L
    <3>1. let'[k][i] = let[k][i] /\ Len(let'[k]) = L + 1
      BY <1>8, <2>2
    <3>2. bucket'[k].tokens = t - Cost /\ bucket'[k].at = now
      BY <1>7
    <3>3. ((L + 1) - i + 1) * Cost + (t - Cost) <= Full + now - let[k][i]
      BY <1>9, <2>2
    <3> QED BY <2>2, <3>1, <3>2, <3>3
  <2>3. CASE j = k /\ i = L + 1
    <3>1. (Len(let'[k]) - i + 1) * Cost = Cost
      BY <1>1, <1>8, <2>3, SMT
    <3>2. /\ bucket'[k].tokens = t - Cost /\ bucket'[k].at = now
          /\ let'[k][i] = now
      BY <1>7, <1>8, <2>3
    <3>3. Cost + (t - Cost) <= Full + now - now
      BY <1>1, <1>2, SMT
    <3> QED BY <2>3, <3>1, <3>2, <3>3
  <2>4. j = k => i \in 1 .. L \/ i = L + 1
    BY <1>1, <1>8, SMT
  <2> QED BY <2>1, <2>2, <2>3, <2>4
<1>12. RateHeld'
  <2> SUFFICES ASSUME NEW j \in Buckets, NEW m \in DOMAIN let'[j],
                      NEW n \in DOMAIN let'[j], m <= n
               PROVE  (n - m + 1) * Cost <= Full + let'[j][n] - let'[j][m]
    BY DEF RateHeld, Full
  <2>1. CASE j # k
    BY <1>0, <1>6, <2>1 DEF RateHeld
  <2>2. CASE j = k /\ n \in 1 .. L
    <3>1. n \in DOMAIN let[k] /\ m \in DOMAIN let[k]
      <4>1. m \in 1 .. L + 1
        BY <1>8, <2>2
      <4>2. m \in 1 .. L
        BY <1>1, <2>2, <4>1, SMT
      <4> QED BY <1>8, <2>2, <4>2
    <3>2. let'[k][n] = let[k][n] /\ let'[k][m] = let[k][m]
      BY <1>8, <3>1
    <3> QED BY <1>0, <2>2, <3>1, <3>2 DEF RateHeld
  <2>3. CASE j = k /\ n = L + 1 /\ m \in 1 .. L
    <3>1. ((L + 1) - m + 1) * Cost + (t - Cost) <= Full + now - let[k][m]
      BY <1>9, <2>3
    <3>2. /\ let'[k][n] = now /\ let'[k][m] = let[k][m]
          /\ let[k][m] \in Int
      BY <1>8, <2>3, SMT
    <3>3. ((L + 1) - m + 1) * Cost \in Int
      BY <1>1, <2>3, SMT
    <3> DEFINE w == ((L + 1) - m + 1) * Cost
    <3>4. (n - m + 1) * Cost = w
      <4>1. n = L + 1
        BY <2>3
      <4> QED BY <4>1
    <3> HIDE DEF w
    <3>5. w <= Full + now - let[k][m]
      <4>1. w + (t - Cost) <= Full + now - let[k][m] /\ w \in Int
        BY <3>1, <3>3 DEF w
      <4> QED BY <1>1, <1>2, <3>2, <4>1, SMT
    <3> QED BY <2>3, <3>2, <3>4, <3>5
  <2>4. CASE j = k /\ n = L + 1 /\ m = L + 1
    <3>1. (n - m + 1) * Cost = Cost
      BY <1>1, <2>4, SMT
    <3> QED BY <1>1, <1>2, <1>8, <2>4, <3>1, SMT
  <2>5. j = k => m \in 1 .. L + 1 /\ n \in 1 .. L + 1
    BY <1>8
  <2>6. j = k => \/ n \in 1 .. L
                 \/ n = L + 1 /\ (m \in 1 .. L \/ m = L + 1)
    BY <1>1, <2>5, SMT
  <2> QED BY <2>1, <2>2, <2>3, <2>4, <2>6
<1> QED BY <1>5, <1>10, <1>11, <1>12 DEF LimiterInv

\* A report that is refused.
LEMMA RefuseKeepsInv ==
  ASSUME LimiterInv, NEW k \in Buckets, Refuse(k), UNCHANGED now PROVE LimiterInv'
<1> DEFINE t == Filled(k).tokens
<1>0. LimiterTypeOK /\ Fresh /\ Earned /\ RateHeld
  BY DEF LimiterInv
<1>1. now \in Nat /\ now' = now /\ Full \in Nat /\ Cost \in Nat \ {0} /\ let' = let
  BY <1>0, FullNat, RateAssumption DEF LimiterTypeOK, Refuse
<1>2. /\ t \in 0 .. Full /\ t < Cost
      /\ Filled(k) = [tokens |-> t, at |-> now]
      /\ bucket[k] # NoBucket => t <= bucket[k].tokens + (now - bucket[k].at)
  BY <1>0, FilledForm DEF Refuse
<1>3. bucket' = [bucket EXCEPT ![k] = [tokens |-> t, at |-> now]]
  BY <1>2 DEF Refuse
<1>4. bucket[k] # NoBucket
  <2> SUFFICES ASSUME bucket[k] = NoBucket PROVE FALSE
    OBVIOUS
  <2>1. t = Full
    BY <1>1 DEF Filled
  <2>2. Full >= Cost
    BY RateAssumption, SMT DEF Full
  <2> QED BY <1>1, <1>2, <2>1, <2>2, SMT
<1>5. LimiterTypeOK'
  <2>1. bucket' \in [Buckets -> [tokens : 0 .. Full, at : 0 .. now] \cup {NoBucket}]
    BY <1>0, <1>1, <1>2, <1>3, SMT DEF LimiterTypeOK
  <2>2. due' \in [Buckets -> Int]
    <3> DEFINE c == now + RetryAfter(Cost - Filled(k).tokens) * Second
    <3>1. RetryAfter(Cost - Filled(k).tokens) \in Int
      BY <1>1, <1>2, RateAssumption, SMT DEF RetryAfter
    <3>2. c \in Int
      BY <1>1, <3>1, RateAssumption, SMT
    <3>3. due' = [due EXCEPT ![k] = c]
      BY DEF Refuse
    <3> QED BY <1>0, <3>2, <3>3 DEF LimiterTypeOK
  <2> QED BY <1>0, <1>1, <2>1, <2>2 DEF LimiterTypeOK, Full, NoBucket
<1> HIDE DEF t
<1>6. ASSUME NEW j \in Buckets, j # k PROVE bucket'[j] = bucket[j]
  BY <1>0, <1>3, <1>6 DEF LimiterTypeOK
<1>7. bucket'[k] = [tokens |-> t, at |-> now]
  BY <1>0, <1>3 DEF LimiterTypeOK
<1>8. Fresh'
  <2> SUFFICES ASSUME NEW j \in Buckets, bucket'[j] = NoBucket PROVE let'[j] = <<>>
    BY DEF Fresh, NoBucket
  <2>1. j # k
    BY <1>1, <1>2, <1>7, SMT DEF NoBucket
  <2> QED BY <1>0, <1>1, <1>6, <2>1 DEF Fresh
<1>9. Earned'
  <2> SUFFICES ASSUME NEW j \in Buckets, NEW i \in DOMAIN let[j]
               PROVE  (Len(let[j]) - i + 1) * Cost + bucket'[j].tokens
                        <= Full + bucket'[j].at - let[j][i]
    BY <1>1 DEF Earned, Full
  <2>1. CASE j # k
    BY <1>0, <1>6, <2>1 DEF Earned
  <2>2. CASE j = k
    <3> DEFINE w == (Len(let[k]) - i + 1) * Cost
               x == let[k][i]
               b == bucket[k].tokens
               a == bucket[k].at
    <3>1. b \in Nat /\ a \in Nat
      BY <1>0, <1>4, BucketForm, SMT
    <3>2. let[k] \in Seq(0 .. now)
      BY <1>0 DEF LimiterTypeOK
    <3>3. x \in Int /\ w \in Int
      BY <1>1, <2>2, <3>2, SMT
    <3>4. w + b <= Full + a - x
      BY <1>0, <2>2 DEF Earned
    <3> HIDE DEF w, x, b, a
    <3>5. t <= b + (now - a) /\ t \in Int
      BY <1>2, <1>4, SMT DEF a, b
    <3>6. w + t <= Full + now - x
      BY <1>1, <3>1, <3>3, <3>4, <3>5, SMT
    <3>7. bucket'[k].tokens = t /\ bucket'[k].at = now
      BY <1>7
    <3> QED BY <2>2, <3>6, <3>7 DEF w, x
  <2> QED BY <2>1, <2>2
<1>10. RateHeld'
  BY <1>0, <1>1 DEF RateHeld, Full
<1> QED BY <1>5, <1>8, <1>9, <1>10 DEF LimiterInv

\* Time passes.
LEMMA PassKeepsInv == ASSUME LimiterInv, Pass PROVE LimiterInv'
<1>1. LimiterTypeOK'
  <2>1. now \in Nat /\ now' \in Nat /\ \A x \in 0 .. now : x \in 0 .. now'
    BY SMT DEF LimiterInv, LimiterTypeOK, Pass
  <2>2. bucket' \in [Buckets -> [tokens : 0 .. Full, at : 0 .. now'] \cup {NoBucket}]
    BY <2>1, Zenon DEF LimiterInv, LimiterTypeOK, Pass
  <2>3. let' \in [Buckets -> Seq(0 .. now')]
    <3>1. \A k \in Buckets : let[k] \in Seq(0 .. now')
      <4>1. 0 .. now \subseteq 0 .. now'
        BY <2>1
      <4> QED BY <4>1, SeqMonotonic DEF LimiterInv, LimiterTypeOK
    <3> QED BY <3>1 DEF LimiterInv, LimiterTypeOK, Pass
  <2> QED BY <2>1, <2>2, <2>3 DEF LimiterInv, LimiterTypeOK, Pass, Full, NoBucket
<1>2. Fresh' /\ Earned' /\ RateHeld'
  BY DEF LimiterInv, Pass, Fresh, Earned, RateHeld, Full, NoBucket
<1> QED BY <1>1, <1>2 DEF LimiterInv

\* The daemon dies: every bucket is full again, and nothing is remembered.
LEMMA ForgetKeepsInv == ASSUME LimiterInv, Forget PROVE LimiterInv'
<1>1. LimiterTypeOK'
  BY SMT DEF LimiterInv, LimiterTypeOK, Forget, Full, NoBucket, Never
<1>2. Fresh' /\ Earned' /\ RateHeld'
  BY SMT DEF Forget, Fresh, Earned, RateHeld
<1> QED BY <1>1, <1>2 DEF LimiterInv

\* The invariant is inductive.
LEMMA LimiterInvNext == LimiterInv /\ [LimiterNext]_limiterVars => LimiterInv'
<1> SUFFICES ASSUME LimiterInv, [LimiterNext]_limiterVars PROVE LimiterInv'
  OBVIOUS
<1>1. ASSUME NEW k \in Buckets, Allow(k), UNCHANGED now PROVE LimiterInv'
  BY <1>1, AllowKeepsInv
<1>2. ASSUME NEW k \in Buckets, Refuse(k), UNCHANGED now PROVE LimiterInv'
  BY <1>2, RefuseKeepsInv
<1>3. CASE Pass
  BY <1>3, PassKeepsInv
<1>4. CASE Forget
  BY <1>4, ForgetKeepsInv
<1>5. CASE UNCHANGED limiterVars
  BY <1>5 DEF limiterVars, LimiterInv, LimiterTypeOK, Fresh, Earned, RateHeld,
              Full, NoBucket
<1> QED BY <1>1, <1>2, <1>3, <1>4, <1>5 DEF LimiterNext

\* Within any time no host and no site is let more reports than a full bucket
\* and what was earned meanwhile.
THEOREM RateHeldAlways == LimiterSpec => []RateHeld
<1>1. LimiterInv => RateHeld
  BY DEF LimiterInv
<1> QED BY LimiterInvInit, LimiterInvNext, <1>1, PTL DEF LimiterSpec

\* What Retry-After said is not before the reports are earned, but for the
\* rounding.
Honest ==
  \A k \in Buckets : due[k] # Never =>
    /\ bucket[k] # NoBucket
    /\ 2 * (due[k] - bucket[k].at) + Second > 2 * (Cost - bucket[k].tokens)

\* The reports that were let in after time x.
Since(k, x) == {i \in DOMAIN let[k] : let[k][i] > x}

\* A bucket has what was earned since any time, less what was spent since.
Spent ==
  \A k \in Buckets : bucket[k] # NoBucket =>
    \A x \in Int : x <= bucket[k].at =>
      bucket[k].tokens + Cost * Cardinality(Since(k, x))
        >= Least(Full, bucket[k].at - x)

\* Rounding down takes off less than the divisor.
LEMMA DivMod ==
  ASSUME NEW x \in Int, NEW d \in Nat \ {0}
  PROVE  x \div d \in Int /\ x - d < d * (x \div d)
OBVIOUS

\* The time that Retry-After names is not short by more than half a second.
LEMMA RetryAfterLong ==
  ASSUME NEW w \in Int
  PROVE  RetryAfter(w) \in Int /\ 2 * (RetryAfter(w) * Second) + Second > 2 * w
<1> DEFINE W == IF w < Second THEN Second ELSE w
           x == 2 * W + Second
           q == x \div (2 * Second)
<1>1. /\ Second \in Nat \ {0} /\ W \in Int /\ W >= w /\ x \in Int
      /\ 2 * Second \in Nat \ {0}
  BY RateAssumption
<1>2. RetryAfter(w) = q
  BY DEF RetryAfter
<1> HIDE DEF x
<1>3. q \in Int /\ x - 2 * Second < (2 * Second) * q
  <2> HIDE DEF W
  <2> QED BY <1>1, DivMod
<1>4. (2 * Second) * q = 2 * (q * Second)
  BY <1>1, <1>3
<1> HIDE DEF W, q
<1>5. 2 * (q * Second) > x - 2 * Second
  BY <1>1, <1>3, <1>4
<1> QED BY <1>1, <1>2, <1>3, <1>5 DEF x

\* The reports since any time are a number.
LEMMA SinceFinite ==
  ASSUME LimiterTypeOK, NEW k \in Buckets, NEW x \in Int
  PROVE  IsFiniteSet(Since(k, x)) /\ Cardinality(Since(k, x)) \in Nat
<1>1. DOMAIN let[k] = 1 .. Len(let[k]) /\ Len(let[k]) \in Nat
  BY DEF LimiterTypeOK
<1>2. IsFiniteSet(DOMAIN let[k])
  BY <1>1, FS_Interval
<1> QED BY <1>2, FS_Subset, FS_CardinalityType DEF Since

\* A bucket that is brought up to date has what was earned and not spent.
LEMMA FilledSpent ==
  ASSUME LimiterTypeOK, Spent, NEW k \in Buckets, NEW x \in Int, x <= now
  PROVE  Filled(k).tokens + Cost * Cardinality(Since(k, x)) >= Least(Full, now - x)
<1> DEFINE n == Cost * Cardinality(Since(k, x))
<1>0. now \in Nat /\ Full \in Nat /\ n \in Nat
  <2>1. Cardinality(Since(k, x)) \in Nat
    BY SinceFinite
  <2> QED BY <2>1, FullNat, RateAssumption DEF LimiterTypeOK
<1> HIDE DEF n
<1>1. CASE bucket[k] = NoBucket
  <2>1. Filled(k).tokens = Full
    BY <1>1 DEF Filled
  <2> QED BY <1>0, <2>1 DEF Least, n
<1>2. CASE bucket[k] # NoBucket
  <2> DEFINE t == bucket[k].tokens
             a == bucket[k].at
  <2>1. t \in Nat /\ a \in Nat /\ a <= now
    BY <1>2, BucketForm
  <2>2. Filled(k).tokens = Least(Full, t + (now - a))
    BY <1>2 DEF Filled
  <2>3. x <= a => t + n >= Least(Full, a - x)
    BY <1>2 DEF Spent, n
  <2> HIDE DEF t, a
  <2>4. Least(Full, t + (now - a)) + n >= Least(Full, now - x)
    BY <1>0, <2>1, <2>3 DEF Least
  <2> QED BY <2>2, <2>4 DEF n
<1> QED BY <1>1, <1>2

\* The fresh limiter.
LEMMA OwedInit == LimiterInit => Honest /\ Spent
BY DEF LimiterInit, Honest, Spent

\* A report that is let in.
LEMMA AllowKeepsOwed ==
  ASSUME LimiterTypeOK, Honest, Spent, NEW k \in Buckets, Allow(k), UNCHANGED now
  PROVE  Honest' /\ Spent'
<1> DEFINE t == Filled(k).tokens
<1>0. now \in Nat /\ Full \in Nat /\ t \in 0 .. Full /\ t >= Cost /\ Cost \in Nat
      /\ Filled(k) = [tokens |-> t, at |-> now]
  BY FullNat, FilledForm, RateAssumption DEF LimiterTypeOK, Allow
<1>1. bucket'[k].tokens = t - Cost /\ bucket'[k].at = now
      /\ let'[k] = Append(let[k], now) /\ due'[k] = Never
  BY <1>0 DEF LimiterTypeOK, Allow
<1>2. \A j \in Buckets : j # k => bucket'[j] = bucket[j] /\ let'[j] = let[j]
                                  /\ due'[j] = due[j]
  BY DEF LimiterTypeOK, Allow
<1>3. Honest'
  BY <1>1, <1>2 DEF Honest, NoBucket, Never
<1>4. ASSUME NEW x \in Int, x <= now
      PROVE  bucket'[k].tokens + Cost * Cardinality(Since(k, x)') >= Least(Full, now - x)
  <2> DEFINE c == Cardinality(Since(k, x))
             L == Len(let[k])
  <2>0. L \in Nat /\ DOMAIN let[k] = 1 .. L /\ let[k] \in Seq(0 .. now)
        /\ c \in Nat /\ IsFiniteSet(Since(k, x))
    BY SinceFinite DEF LimiterTypeOK
  <2>1. t + Cost * c >= Least(Full, now - x)
    BY <1>4, FilledSpent
  <2>2. /\ DOMAIN let'[k] = 1 .. L + 1 /\ let'[k][L + 1] = now
        /\ \A i \in 1 .. L : let'[k][i] = let[k][i]
    BY <1>1, <2>0
  <2>3. CASE x < now
    <3>1. Since(k, x)' = Since(k, x) \cup {L + 1}
      <4>1. \A i : i \in 1 .. L + 1 <=> i \in 1 .. L \/ i = L + 1
        BY <2>0
      <4>2. now > x
        BY <1>0, <2>3
      <4> HIDE DEF L
      <4>3. ASSUME NEW i
            PROVE  i \in Since(k, x)' <=> i \in Since(k, x) \/ i = L + 1
        <5>1. i \in Since(k, x)' <=> i \in 1 .. L + 1 /\ let'[k][i] > x
          BY <2>2 DEF Since
        <5>2. i \in Since(k, x) <=> i \in 1 .. L /\ let[k][i] > x
          BY <2>0 DEF Since
        <5>3. L + 1 \in 1 .. L + 1
          BY <2>0
        <5> QED BY <4>1, <4>2, <2>2, <5>1, <5>2, <5>3, Zenon
      <4> QED BY <4>3
    <3>2. L + 1 \notin Since(k, x)
      BY <2>0 DEF Since
    <3>3. Cardinality(Since(k, x)') = c + 1
      BY <2>0, <3>1, <3>2, FS_AddElement
    <3> HIDE DEF t, c
    <3>4. Cost * (c + 1) = Cost * c + Cost /\ Cost * c \in Nat
      BY <1>0, <2>0
    <3>5. (t - Cost) + Cost * (c + 1) >= Least(Full, now - x)
      <4>1. (t - Cost) + (Cost * c + Cost) = t + Cost * c
        BY <1>0, <3>4
      <4> QED BY <2>1, <3>4, <4>1
    <3> QED BY <1>1, <3>3, <3>5
  <2>4. CASE x = now
    <3>1. Cost * Cardinality(Since(k, x)') \in Nat
      <4>1. IsFiniteSet(Since(k, x)')
        <5>0. 1 \in Int /\ L + 1 \in Int
          BY <2>0
        <5> HIDE DEF L
        <5>1. IsFiniteSet(1 .. L + 1)
          BY <5>0, FS_Interval
        <5>2. Since(k, x)' \subseteq 1 .. L + 1
          BY <2>2 DEF Since
        <5> QED BY <5>1, <5>2, FS_Subset
      <4> QED BY <1>0, <4>1, FS_CardinalityType
    <3>2. Least(Full, now - x) = 0
      BY <1>0, <2>4 DEF Least
    <3>3. bucket'[k].tokens \in Nat
      BY <1>0, <1>1
    <3> QED BY <3>1, <3>2, <3>3
  <2> QED BY <1>0, <1>4, <2>3, <2>4
<1>5. Spent'
  <2> SUFFICES ASSUME NEW j \in Buckets, (bucket[j] # NoBucket)', NEW x \in Int,
                      x <= bucket'[j].at
               PROVE  bucket'[j].tokens + Cost * Cardinality(Since(j, x)')
                        >= Least(Full, bucket'[j].at - x)
    BY DEF Spent, Full, Least
  <2>1. CASE j = k
    BY <1>1, <1>4, <2>1
  <2>2. CASE j # k
    <3>1. Since(j, x)' = Since(j, x)
      BY <1>2, <2>2 DEF Since
    <3> QED BY <1>2, <2>2, <3>1 DEF Spent, NoBucket
  <2> QED BY <2>1, <2>2
<1> QED BY <1>3, <1>5

\* A report that is refused.
LEMMA RefuseKeepsOwed ==
  ASSUME LimiterTypeOK, Honest, Spent, NEW k \in Buckets, Refuse(k), UNCHANGED now
  PROVE  Honest' /\ Spent'
<1> DEFINE t == Filled(k).tokens
           r == RetryAfter(Cost - t)
<1>0. /\ now \in Nat /\ Full \in Nat /\ t \in 0 .. Full /\ t < Cost /\ Cost \in Nat
      /\ Filled(k) = [tokens |-> t, at |-> now] /\ Second \in Nat
  BY FullNat, FilledForm, RateAssumption DEF LimiterTypeOK, Refuse
<1>1. bucket'[k].tokens = t /\ bucket'[k].at = now /\ let' = let
      /\ due'[k] = now + r * Second
  BY <1>0 DEF LimiterTypeOK, Refuse
<1>2. \A j \in Buckets : j # k => bucket'[j] = bucket[j] /\ due'[j] = due[j]
  BY DEF LimiterTypeOK, Refuse
<1>3. Honest'
  <2>1. r \in Int /\ 2 * (r * Second) + Second > 2 * (Cost - t)
    <3> HIDE DEF t
    <3>1. Cost - t \in Int
      BY <1>0
    <3> QED BY <3>1, RetryAfterLong
  <2>2. r * Second \in Int
    BY <1>0, <2>1
  <2>3. 2 * (due'[k] - now) + Second > 2 * (Cost - t)
    <3> DEFINE s == r * Second
    <3> HIDE DEF s, t
    <3>1. due'[k] = now + s /\ s \in Int /\ 2 * s + Second > 2 * (Cost - t)
      BY <1>1, <2>1, <2>2 DEF s
    <3> QED BY <1>0, <3>1
  <2>4. bucket'[k] # NoBucket
    BY <1>0, <1>1 DEF NoBucket
  <2> QED BY <1>1, <1>2, <2>3, <2>4 DEF Honest, NoBucket, Never
<1>4. Spent'
  <2> SUFFICES ASSUME NEW j \in Buckets, (bucket[j] # NoBucket)', NEW x \in Int,
                      x <= bucket'[j].at
               PROVE  bucket'[j].tokens + Cost * Cardinality(Since(j, x))
                        >= Least(Full, bucket'[j].at - x)
    BY <1>1 DEF Spent, Since, Full, Least
  <2>1. CASE j = k
    BY <1>1, <2>1, FilledSpent
  <2>2. CASE j # k
    BY <1>2, <2>2 DEF Spent, NoBucket
  <2> QED BY <2>1, <2>2
<1> QED BY <1>3, <1>4

\* Both are inductive.
LEMMA OwedNext ==
  LimiterInv /\ Honest /\ Spent /\ [LimiterNext]_limiterVars => Honest' /\ Spent'
<1> SUFFICES ASSUME LimiterInv, Honest, Spent, [LimiterNext]_limiterVars
             PROVE  Honest' /\ Spent'
  OBVIOUS
<1>0. LimiterTypeOK
  BY DEF LimiterInv
<1>1. ASSUME NEW k \in Buckets, Allow(k) \/ Refuse(k), UNCHANGED now
      PROVE  Honest' /\ Spent'
  BY <1>0, <1>1, AllowKeepsOwed, RefuseKeepsOwed
<1>2. CASE Pass \/ UNCHANGED limiterVars
  BY <1>2 DEF Pass, limiterVars, Honest, Spent, Since, Full, Least, NoBucket, Never
<1>3. CASE Forget
  BY <1>3 DEF Forget, Honest, Spent, NoBucket, Never
<1> QED BY <1>1, <1>2, <1>3 DEF LimiterNext

\* A refusal, and how many reports the last hour saw.
LEMMA RefusedWhenSpent ==
  ASSUME LimiterInv, Spent, [LimiterNext]_limiterVars
  PROVE  RefusedForCause
<1> SUFFICES ASSUME NEW k \in Buckets, due'[k] # due[k], due'[k] # Never
             PROVE  Cardinality({i \in DOMAIN let[k] : let[k][i] > now - Full}) >= Rate
  BY DEF RefusedForCause
<1>0. LimiterTypeOK
  BY DEF LimiterInv
<1>1. Refuse(k)
  BY <1>0 DEF LimiterNext, limiterVars, Allow, Refuse, Pass, Forget, LimiterTypeOK
<1> DEFINE x == now - Full
           c == Cardinality(Since(k, x))
           t == Filled(k).tokens
<1>2. now \in Nat /\ Full \in Nat /\ x \in Int /\ x <= now
  BY <1>0, FullNat DEF LimiterTypeOK
<1>3. c \in Nat /\ t + Cost * c >= Least(Full, now - x)
  BY <1>0, <1>2, SinceFinite, FilledSpent
<1>4. t \in Nat /\ t < Cost
  BY <1>0, <1>1, FilledForm DEF Refuse
<1>5. Least(Full, now - x) = Full
  BY <1>2 DEF Least
<1> HIDE DEF x, c, t
<1>6. Rate \in Nat /\ Cost \in Nat \ {0}
  BY RateAssumption
<1>7. ASSUME c < Rate PROVE FALSE
  <2>1. Cost * (c + 1) <= Cost * Rate
    BY <1>3, <1>6, <1>7
  <2>2. Cost * (c + 1) = Cost * c + Cost /\ Cost * Rate = Full /\ Cost * c \in Nat
    BY <1>3, <1>6 DEF Full
  <2> QED BY <1>2, <1>3, <1>4, <1>5, <1>6, <2>1, <2>2
<1> QED BY <1>3, <1>6, <1>7 DEF c, Since, x

\* limiter.allow's Retry-After: whoever comes again half a second after the time
\* that it named is let in.
THEOREM RetryAfterHonestAlways == LimiterSpec => []RetryAfterHonest
<1>1. LimiterInv /\ Honest => RetryAfterHonest
  <2> SUFFICES ASSUME LimiterInv, Honest, NEW k \in Buckets, due[k] # Never,
                      2 * (now - due[k]) >= Second
               PROVE  Filled(k).tokens >= Cost
    BY DEF RetryAfterHonest
  <2>0. LimiterTypeOK
    BY DEF LimiterInv
  <2> DEFINE t == bucket[k].tokens
             a == bucket[k].at
             d == due[k]
  <2>1. /\ bucket[k] # NoBucket /\ t \in Nat /\ a \in Nat /\ d \in Int /\ now \in Nat
        /\ 2 * (d - a) + Second > 2 * (Cost - t)
    BY <2>0, BucketForm DEF Honest, LimiterTypeOK
  <2>2. Filled(k).tokens = Least(Full, t + (now - a))
    BY <2>1 DEF Filled
  <2> HIDE DEF t, a
  <2>3. Full \in Nat /\ Full >= Cost /\ Cost \in Nat /\ Second \in Nat
    BY RateAssumption DEF Full
  <2>4. t + (now - a) >= Cost
    <3> HIDE DEF d
    <3> QED BY <2>1, <2>3 DEF d
  <2> QED BY <2>1, <2>2, <2>3, <2>4 DEF Least
<1> QED BY LimiterInvInit, LimiterInvNext, OwedInit, OwedNext, <1>1, PTL DEF LimiterSpec

\* limiter.allow: a reviewer is refused only when the last hour saw max_per_hour
\* reports.
THEOREM RefusedForCauseAlways == LimiterSpec => [][RefusedForCause]_limiterVars
BY LimiterInvInit, LimiterInvNext, OwedInit, OwedNext, RefusedWhenSpent, PTL
   DEF LimiterSpec
=============================================================================
