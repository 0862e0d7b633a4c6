------------------------------ MODULE FindProofs -----------------------------
(***************************************************************************)
(* What sfind and locate find, for all trees of files, expressions and     *)
(* patterns, and whatever others do meanwhile.  First what the definitions *)
(* by recursion compute: a pattern is matched exactly when the text can be *)
(* cut into pieces for its parts (GlobDecides), and the parsed expression  *)
(* holds exactly for what the words ask (EvalIsAsked).  Then the walk, the *)
(* index and the search in it.                                             *)
(***************************************************************************)
EXTENDS Find, FiniteSetTheorems, SequenceTheorems, WellFoundedInduction, TLAPS

(* A nonempty set of numbers has a least one.                              *)
LEMMA LeastOf ==
  ASSUME NEW S \in SUBSET Nat, S # {}
  PROVE  \E n \in S : \A k \in S : n <= k
<1> DEFINE U == {0 .. k : k \in S}
<1>1. U \subseteq FiniteSubsetsOf(Nat) /\ U # {}
  <2>1. \A k \in S : 0 .. k \in SUBSET Nat /\ IsFiniteSet(0 .. k)
    BY FS_Interval
  <2> QED BY <2>1 DEF FiniteSubsetsOf
<1>2. PICK X \in U : \A Y \in U : <<Y, X>> \notin StrictSubsetOrdering(Nat)
  <2> HIDE DEF U
  <2> QED BY <1>1, FS_StrictSubsetOrderingWellFounded, WFMin
<1>3. PICK n \in S : X = 0 .. n
  OBVIOUS
<1>4. \A m \in S : n <= m
  <2>1. SUFFICES ASSUME NEW m \in S, m < n PROVE FALSE
    OBVIOUS
  <2>2. 0 .. m \subseteq 0 .. n /\ 0 .. m # 0 .. n /\ 0 .. m \in SUBSET Nat /\ 0 .. n \in SUBSET Nat
    BY <2>1
  <2>3. <<0 .. m, 0 .. n>> \in StrictSubsetOrdering(Nat)
    BY <2>2 DEF StrictSubsetOrdering
  <2> QED BY <1>2, <1>3, <2>3
<1> QED BY <1>4

(* A function that takes one step after the other exists.                  *)
Recurs(f, n, b, H) == f = [k \in 0 .. n |-> IF k = 0 THEN b ELSE H[<<k, f[k - 1]>>]]

LEMMA RecursionExists ==
  ASSUME NEW V, NEW b \in V, NEW n \in Nat, NEW H, \A k \in 1 .. n, v \in V : H[<<k, v>>] \in V
  PROVE  \E f \in [0 .. n -> V] : Recurs(f, n, b, H)
<1> DEFINE Stuck == {k \in 0 .. n : ~ \E f \in [0 .. k -> V] : Recurs(f, k, b, H)}
<1>1. SUFFICES ASSUME Stuck # {} PROVE FALSE
  OBVIOUS
<1>2. PICK m \in Stuck : \A k \in Stuck : m <= k
  <2>1. Stuck \in SUBSET Nat
    OBVIOUS
  <2> HIDE DEF Stuck
  <2> QED BY <1>1, <2>1, LeastOf
<1>3. CASE m = 0
  <2> DEFINE f == [k \in 0 .. 0 |-> b]
  <2>1. f \in [0 .. 0 -> V] /\ Recurs(f, 0, b, H)
    BY DEF Recurs
  <2> QED BY <1>2, <1>3, <2>1
<1>4. CASE m # 0
  <2>1. m \in Nat /\ m \in 1 .. n /\ m - 1 \in 0 .. n /\ m - 1 \notin Stuck
    <3>1. m \in Nat /\ m \in 1 .. n /\ m - 1 \in 0 .. n /\ ~(m <= m - 1)
      BY <1>2, <1>4
    <3> HIDE DEF Stuck
    <3> QED BY <1>2, <3>1
  <2>2. PICK f \in [0 .. m - 1 -> V] : Recurs(f, m - 1, b, H)
    BY <2>1
  <2> DEFINE g == [k \in 0 .. m |-> IF k = m THEN H[<<m, f[m - 1]>>] ELSE f[k]]
  <2>3. g \in [0 .. m -> V]
    <3> SUFFICES ASSUME NEW k \in 0 .. m PROVE g[k] \in V
      OBVIOUS
    <3>1. f[m - 1] \in V /\ (k # m => f[k] \in V)
      BY <2>1, <2>2
    <3> QED BY <2>1, <3>1
  <2>4. ASSUME NEW k \in 0 .. m
        PROVE  g[k] = IF k = 0 THEN b ELSE H[<<k, g[k - 1]>>]
    <3>1. CASE k = m
      <4>1. k # 0 /\ m - 1 \in 0 .. m /\ m - 1 # m /\ g[m - 1] = f[m - 1]
        BY <2>1, <3>1
      <4> QED BY <3>1, <4>1
    <3>2. CASE k # m
      <4>1. k \in 0 .. m - 1 /\ g[k] = f[k]
        BY <2>1, <3>2
      <4>2. f[k] = IF k = 0 THEN b ELSE H[<<k, f[k - 1]>>]
        BY <2>2, <4>1 DEF Recurs
      <4>3. k # 0 => k - 1 \in 0 .. m /\ g[k - 1] = f[k - 1]
        BY <2>1, <4>1
      <4> QED BY <4>1, <4>2, <4>3
    <3> QED BY <3>1, <3>2
  <2>5. Recurs(g, m, b, H)
    <3> HIDE DEF g
    <3> QED BY <2>3, <2>4 DEF Recurs
  <2> HIDE DEF g
  <2> QED BY <1>2, <2>3, <2>5
<1> QED BY <1>3, <1>4

(* Steps from 0 to n.                                                      *)
LEMMA StepByStep ==
  ASSUME NEW n \in Nat, NEW P \in SUBSET (0 .. n), 0 \in P, \A k \in 1 .. n : k - 1 \in P => k \in P
  PROVE  P = 0 .. n
<1> SUFFICES ASSUME (0 .. n) \ P # {} PROVE FALSE
  OBVIOUS
<1> DEFINE Q == (0 .. n) \ P
<1>1. PICK m \in Q : \A k \in Q : m <= k
  <2>1. Q \in SUBSET Nat
    OBVIOUS
  <2> HIDE DEF Q
  <2> QED BY <2>1, LeastOf DEF Q
<1>2. m \in 1 .. n /\ ~(m <= m - 1) /\ m - 1 \in 0 .. n
  OBVIOUS
<1>3. m - 1 \in P
  BY <1>1, <1>2
<1> QED BY <1>2, <1>3

(* Parts of a path.                                                        *)
LEMMA PrefixAt ==
  ASSUME NEW S, NEW p \in Seq(S), NEW q \in Seq(S)
  PROVE  IsPrefix(p, q) <=> Len(p) <= Len(q) /\ \A i \in 1 .. Len(p) : p[i] = q[i]
<1>1. Len(p) \in Nat /\ Len(q) \in Nat
  OBVIOUS
<1>2. SubSeq(p, 1, Len(p)) = p
  OBVIOUS
<1>3. CASE Len(p) <= Len(q)
  <2>1. SubSeq(q, 1, Len(p)) \in Seq(S) /\ Len(SubSeq(q, 1, Len(p))) = Len(p)
        /\ \A i \in 1 .. Len(p) : SubSeq(q, 1, Len(p))[i] = q[i]
    BY <1>1, <1>3
  <2>2. p = SubSeq(q, 1, Len(p)) <=> \A i \in 1 .. Len(p) : p[i] = SubSeq(q, 1, Len(p))[i]
    BY <2>1, SeqEqual
  <2> QED BY <1>2, <1>3, <2>1, <2>2 DEF IsPrefix
<1> QED BY <1>3 DEF IsPrefix

LEMMA PartOf ==
  ASSUME NEW S, NEW s \in Seq(S), NEW k \in 0 .. Len(s)
  PROVE  /\ SubSeq(s, 1, k) \in Seq(S) /\ Len(SubSeq(s, 1, k)) = k
         /\ \A i \in 1 .. k : SubSeq(s, 1, k)[i] = s[i]
         /\ IsPrefix(SubSeq(s, 1, k), s)
<1>1. /\ SubSeq(s, 1, k) \in Seq(S) /\ Len(SubSeq(s, 1, k)) = k
      /\ \A i \in 1 .. k : SubSeq(s, 1, k)[i] = s[i]
  OBVIOUS
<1> DEFINE t == SubSeq(s, 1, k)
<1>2. t \in Seq(S) /\ Len(t) = k /\ (\A i \in 1 .. k : t[i] = s[i]) /\ k <= Len(s)
  BY <1>1
<1> HIDE DEF t
<1>3. IsPrefix(t, s)
  BY <1>2, PrefixAt
<1> QED BY <1>1, <1>3 DEF t

LEMMA PrefixOrder ==
  ASSUME NEW S, NEW p \in Seq(S), NEW q \in Seq(S), NEW r \in Seq(S)
  PROVE  /\ IsPrefix(p, p)
         /\ IsPrefix(p, q) /\ IsPrefix(q, r) => IsPrefix(p, r)
         /\ IsPrefix(p, q) /\ Len(p) = Len(q) => p = q
         /\ IsPrefix(p, r) /\ IsPrefix(q, r) /\ Len(p) <= Len(q) => IsPrefix(p, q)
<1>1. Len(p) \in Nat /\ Len(q) \in Nat /\ Len(r) \in Nat
  OBVIOUS
<1>2. IsPrefix(p, p)
  BY PrefixAt
<1>3. ASSUME IsPrefix(p, q), IsPrefix(q, r) PROVE IsPrefix(p, r)
  <2>1. Len(p) <= Len(q) /\ Len(q) <= Len(r)
    BY <1>3, PrefixAt
  <2>2. \A i \in 1 .. Len(p) : i \in 1 .. Len(q) /\ p[i] = q[i] /\ q[i] = r[i]
    BY <1>1, <1>3, <2>1, PrefixAt
  <2>3. Len(p) <= Len(r) /\ \A i \in 1 .. Len(p) : p[i] = r[i]
    BY <1>1, <2>1, <2>2
  <2> QED BY <2>3, PrefixAt
<1>4. ASSUME IsPrefix(p, q), Len(p) = Len(q) PROVE p = q
  <2>1. \A i \in 1 .. Len(p) : p[i] = q[i]
    BY <1>4, PrefixAt
  <2> QED BY <1>4, <2>1, SeqEqual
<1>5. ASSUME IsPrefix(p, r), IsPrefix(q, r), Len(p) <= Len(q) PROVE IsPrefix(p, q)
  <2>1. \A i \in 1 .. Len(p) : i \in 1 .. Len(q) /\ p[i] = r[i] /\ q[i] = r[i]
    BY <1>1, <1>5, PrefixAt
  <2> QED BY <1>5, <2>1, PrefixAt
<1> QED BY <1>2, <1>3, <1>4, <1>5

LEMMA Strictly ==
  ASSUME NEW S, NEW p \in Seq(S), NEW q \in Seq(S), IsPrefix(p, q), p # q
  PROVE  Len(p) < Len(q)
<1>1. Len(p) \in Nat /\ Len(q) \in Nat /\ Len(p) <= Len(q)
  BY PrefixAt
<1>2. Len(p) # Len(q)
  BY PrefixOrder
<1> QED BY <1>1, <1>2

-----------------------------------------------------------------------------
(* A piece of a text fits a part when its letters are taken.               *)
LEMMA FitsAt ==
  ASSUME NEW S, NEW text \in Seq(S), NEW a \in 0 .. Len(text), NEW b \in 0 .. Len(text), a <= b,
         NEW part, NEW sep
  PROVE  Fits(SubSeq(text, a + 1, b), part, sep)
           <=> /\ part.wild # "star" => b = a + 1
               /\ \A l \in a + 1 .. b : Takes(part, text[l], sep)
<1> DEFINE piece == SubSeq(text, a + 1, b)
<1>1. Len(text) \in Nat
  OBVIOUS
<1>2. /\ piece \in Seq(S) /\ Len(piece) = b - a
      /\ \A i \in 1 .. b - a : piece[i] = text[a + i]
  BY <1>1
<1> HIDE DEF piece
<1>3. DOMAIN piece = 1 .. b - a
  BY <1>2
<1>4. ASSUME \A i \in DOMAIN piece : Takes(part, piece[i], sep), NEW l \in a + 1 .. b
      PROVE  Takes(part, text[l], sep)
  <2>1. l - a \in 1 .. b - a /\ a + (l - a) = l
    BY <1>1
  <2>2. Takes(part, piece[l - a], sep)
    BY <1>3, <1>4, <2>1
  <2>3. piece[l - a] = text[l]
    BY <1>2, <2>1
  <2> QED BY <2>2, <2>3
<1>5. ASSUME \A l \in a + 1 .. b : Takes(part, text[l], sep), NEW i \in DOMAIN piece
      PROVE  Takes(part, piece[i], sep)
  <2>1. a + i \in a + 1 .. b /\ piece[i] = text[a + i]
    BY <1>1, <1>2, <1>3
  <2> QED BY <1>5, <2>1
<1>6. Len(piece) = 1 <=> b = a + 1
  BY <1>1, <1>2
<1>7. Fits(piece, part, sep)
        <=> /\ part.wild # "star" => b = a + 1
            /\ \A l \in a + 1 .. b : Takes(part, text[l], sep)
  BY <1>4, <1>5, <1>6 DEF Fits
<1> QED BY <1>7 DEF piece

(* What is left of the text, from its letter j on, can be cut into pieces  *)
(* for the last k parts of the pattern.                                    *)
CutsFrom(pat, text, sep, k, j) ==
  \E cut \in [0 .. k -> 0 .. Len(text)] :
    /\ cut[0] = j - 1 /\ cut[k] = Len(text)
    /\ \A i \in 1 .. k :
         /\ cut[i - 1] <= cut[i]
         /\ Fits(SubSeq(text, cut[i - 1] + 1, cut[i]), pat[Len(pat) - k + i], sep)

LEMMA CutFirst ==
  ASSUME NEW S, NEW text \in Seq(S), NEW Q, NEW pat \in Seq(Q), NEW sep,
         NEW k \in 1 .. Len(pat), NEW j \in 1 .. Len(text) + 1
  PROVE  CutsFrom(pat, text, sep, k, j) <=>
           \E e \in j .. Len(text) + 1 :
             /\ Fits(SubSeq(text, j, e - 1), pat[Len(pat) - k + 1], sep)
             /\ CutsFrom(pat, text, sep, k - 1, e)
<1> DEFINE n == Len(pat)
           m == Len(text)
<1>0. n \in Nat /\ m \in Nat
  OBVIOUS
<1>1. ASSUME CutsFrom(pat, text, sep, k, j)
      PROVE  \E e \in j .. m + 1 : /\ Fits(SubSeq(text, j, e - 1), pat[n - k + 1], sep)
                                   /\ CutsFrom(pat, text, sep, k - 1, e)
  <2>1. PICK cut \in [0 .. k -> 0 .. m] :
          /\ cut[0] = j - 1 /\ cut[k] = m
          /\ \A i \in 1 .. k : /\ cut[i - 1] <= cut[i]
                               /\ Fits(SubSeq(text, cut[i - 1] + 1, cut[i]), pat[n - k + i], sep)
    BY <1>1 DEF CutsFrom
  <2> DEFINE e == cut[1] + 1
             rest == [i \in 0 .. k - 1 |-> cut[i + 1]]
  <2>2. cut[1] \in 0 .. m /\ cut[0] <= cut[1] /\ 1 \in 1 .. k
        /\ Fits(SubSeq(text, cut[0] + 1, cut[1]), pat[n - k + 1], sep)
    <3>1. 1 \in 0 .. k /\ 1 \in 1 .. k /\ 1 - 1 = 0
      BY <1>0
    <3>2. cut[1 - 1] <= cut[1] /\ Fits(SubSeq(text, cut[1 - 1] + 1, cut[1]), pat[n - k + 1], sep)
      BY <2>1, <3>1
    <3> QED BY <3>1, <3>2
  <2>3. e \in j .. m + 1 /\ e - 1 = cut[1] /\ cut[0] + 1 = j
    BY <1>0, <2>1, <2>2
  <2>4. rest \in [0 .. k - 1 -> 0 .. m]
    <3> SUFFICES ASSUME NEW i \in 0 .. k - 1 PROVE cut[i + 1] \in 0 .. m
      OBVIOUS
    <3>1. i + 1 \in 0 .. k
      OBVIOUS
    <3> QED BY <3>1
  <2>5. rest[0] = e - 1 /\ rest[k - 1] = m
    <3>1. 0 \in 0 .. k - 1 /\ k - 1 \in 0 .. k - 1 /\ 0 + 1 = 1 /\ (k - 1) + 1 = k
      OBVIOUS
    <3>2. rest[0] = cut[0 + 1] /\ rest[k - 1] = cut[(k - 1) + 1]
      BY <3>1
    <3> QED BY <2>1, <2>3, <3>1, <3>2
  <2>6. ASSUME NEW i \in 1 .. k - 1
        PROVE  /\ rest[i - 1] <= rest[i]
               /\ Fits(SubSeq(text, rest[i - 1] + 1, rest[i]), pat[n - (k - 1) + i], sep)
    <3>1. i + 1 \in 1 .. k /\ i - 1 \in 0 .. k - 1 /\ i \in 0 .. k - 1
          /\ (i + 1) - 1 = i /\ (i - 1) + 1 = i /\ n - k + (i + 1) = n - (k - 1) + i
      BY <1>0
    <3>2. /\ cut[(i + 1) - 1] <= cut[i + 1]
          /\ Fits(SubSeq(text, cut[(i + 1) - 1] + 1, cut[i + 1]), pat[n - k + (i + 1)], sep)
      BY <2>1, <3>1
    <3>3. rest[i - 1] = cut[(i - 1) + 1] /\ rest[i] = cut[i + 1]
      BY <3>1
    <3> HIDE DEF rest, n
    <3> QED BY <3>1, <3>2, <3>3
  <2>7. CutsFrom(pat, text, sep, k - 1, e)
    <3> HIDE DEF rest, e
    <3> QED BY <2>4, <2>5, <2>6 DEF CutsFrom
  <2>8. Fits(SubSeq(text, j, e - 1), pat[n - k + 1], sep)
    <3> HIDE DEF e
    <3> QED BY <2>2, <2>3
  <2> HIDE DEF e, rest
  <2> QED BY <2>3, <2>7, <2>8
<1>2. ASSUME NEW e \in j .. m + 1, Fits(SubSeq(text, j, e - 1), pat[n - k + 1], sep),
             CutsFrom(pat, text, sep, k - 1, e)
      PROVE  CutsFrom(pat, text, sep, k, j)
  <2>1. PICK rest \in [0 .. k - 1 -> 0 .. m] :
          /\ rest[0] = e - 1 /\ rest[k - 1] = m
          /\ \A i \in 1 .. k - 1 :
               /\ rest[i - 1] <= rest[i]
               /\ Fits(SubSeq(text, rest[i - 1] + 1, rest[i]), pat[n - (k - 1) + i], sep)
    BY <1>2 DEF CutsFrom
  <2> DEFINE cut == [i \in 0 .. k |-> IF i = 0 THEN j - 1 ELSE rest[i - 1]]
  <2>2. cut \in [0 .. k -> 0 .. m]
    <3> SUFFICES ASSUME NEW i \in 0 .. k PROVE (IF i = 0 THEN j - 1 ELSE rest[i - 1]) \in 0 .. m
      OBVIOUS
    <3>1. CASE i = 0
      BY <1>0, <3>1
    <3>2. CASE i # 0
      <4>1. i - 1 \in 0 .. k - 1
        BY <3>2
      <4> QED BY <3>2, <4>1
    <3> QED BY <3>1, <3>2
  <2>3. cut[0] = j - 1 /\ cut[k] = m
    <3>1. 0 \in 0 .. k /\ k \in 0 .. k /\ k # 0
      OBVIOUS
    <3> QED BY <2>1, <3>1
  <2>4. ASSUME NEW i \in 1 .. k
        PROVE  /\ cut[i - 1] <= cut[i]
               /\ Fits(SubSeq(text, cut[i - 1] + 1, cut[i]), pat[n - k + i], sep)
    <3>1. CASE i = 1
      <4>1. cut[i - 1] = j - 1 /\ cut[i] = rest[0] /\ i - 1 = 0
        BY <3>1
      <4>2. (j - 1) + 1 = j /\ j - 1 <= e - 1
        BY <1>0
      <4> HIDE DEF cut, n
      <4> QED BY <1>2, <2>1, <3>1, <4>1, <4>2
    <3>2. CASE i # 1
      <4>1. i - 1 \in 1 .. k - 1 /\ i - 1 \in 0 .. k /\ i - 1 # 0 /\ i # 0 /\ i \in 0 .. k
            /\ n - (k - 1) + (i - 1) = n - k + i
        BY <1>0, <3>2
      <4>2. cut[i - 1] = rest[(i - 1) - 1] /\ cut[i] = rest[i - 1]
        BY <4>1
      <4>3. /\ rest[(i - 1) - 1] <= rest[i - 1]
            /\ Fits(SubSeq(text, rest[(i - 1) - 1] + 1, rest[i - 1]),
                    pat[n - (k - 1) + (i - 1)], sep)
        BY <2>1, <4>1
      <4> HIDE DEF cut, n
      <4> QED BY <4>1, <4>2, <4>3
    <3> QED BY <3>1, <3>2
  <2> HIDE DEF cut
  <2> QED BY <2>2, <2>3, <2>4 DEF CutsFrom
<1> QED BY <1>1, <1>2

(* glob_match decides what it is to match: the text can be cut into pieces *)
(* for the parts.                                                          *)
LEMMA GlobDecides ==
  ASSUME NEW S, NEW text \in Seq(S), NEW Q, NEW pat \in Seq(Q), NEW sep,
         \A i \in DOMAIN pat : pat[i].wild \in {"star", "one", "in"}
  PROVE  GlobMatch(pat, text, sep) <=> IsGlobOf(pat, text, sep)
<1> DEFINE n == Len(pat)
           m == Len(text)
           V == SUBSET (1 .. m + 1)
           Before(k, v) ==
             IF pat[n - k + 1].wild = "star"
             THEN {j \in 1 .. m + 1 :
                     \E e \in v :
                       j <= e /\ \A l \in j .. e - 1 : Takes(pat[n - k + 1], text[l], sep)}
             ELSE {j \in 1 .. m : Takes(pat[n - k + 1], text[j], sep) /\ j + 1 \in v}
           H == [x \in (1 .. n) \X V |-> Before(x[1], x[2])]
           IsFrom(f) ==
             f = [k \in 0 .. n |->
                    IF k = 0 THEN {m + 1}
                    ELSE IF pat[n - k + 1].wild = "star"
                    THEN {j \in 1 .. m + 1 :
                            \E e \in f[k - 1] :
                              j <= e /\ \A l \in j .. e - 1 : Takes(pat[n - k + 1], text[l], sep)}
                    ELSE {j \in 1 .. m : Takes(pat[n - k + 1], text[j], sep) /\ j + 1 \in f[k - 1]}]
           F == CHOOSE f : IsFrom(f)
<1>1. n \in Nat /\ m \in Nat
  OBVIOUS
<1>2. IsFrom(F)
  <2>1. {m + 1} \in V
    BY <1>1
  <2>2. ASSUME NEW k \in 1 .. n, NEW v \in V
        PROVE  H[<<k, v>>] \in V /\ H[<<k, v>>] = Before(k, v)
    <3>1. H[<<k, v>>] = Before(k, v)
      <4> HIDE DEF Before, V
      <4> QED OBVIOUS
    <3>2. Before(k, v) \subseteq 1 .. m + 1
      BY <1>1
    <3> HIDE DEF Before, H
    <3> QED BY <3>1, <3>2
  <2>3. PICK f \in [0 .. n -> V] : Recurs(f, n, {m + 1}, H)
    <3> HIDE DEF V, H, n, m
    <3> QED BY <1>1, <2>1, <2>2, RecursionExists
  <2>4. ASSUME NEW k \in 1 .. n PROVE H[<<k, f[k - 1]>>] = Before(k, f[k - 1])
    <3>1. f[k - 1] \in V
      <4>1. k - 1 \in 0 .. n
        BY <1>1
      <4> HIDE DEF V, n
      <4> QED BY <4>1
    <3> HIDE DEF V, H, n, Before
    <3> QED BY <2>2, <3>1
  <2>5. IsFrom(f)
    <3>1. f = [k \in 0 .. n |-> IF k = 0 THEN {m + 1} ELSE H[<<k, f[k - 1]>>]]
      BY <2>3 DEF Recurs
    <3>2. \A k \in 0 .. n : k # 0 => H[<<k, f[k - 1]>>] = Before(k, f[k - 1])
      <4> HIDE DEF H, Before
      <4> QED BY <1>1, <2>4
    <3>3. f = [k \in 0 .. n |-> IF k = 0 THEN {m + 1} ELSE Before(k, f[k - 1])]
      <4> HIDE DEF H, Before
      <4> QED BY <3>1, <3>2
    <3> HIDE DEF H
    <3> QED BY <3>3
  <2> HIDE DEF IsFrom
  <2> QED BY <2>5
<1>3. /\ F[0] = {m + 1}
      /\ \A k \in 1 .. n : F[k] = Before(k, F[k - 1])
  <2>1. \A k \in 0 .. n : F[k] = IF k = 0 THEN {m + 1} ELSE Before(k, F[k - 1])
    <3> HIDE DEF F
    <3> QED BY <1>2
  <2> HIDE DEF F, Before
  <2> QED BY <1>1, <2>1
<1>4. GlobMatch(pat, text, sep) <=> 1 \in F[n]
  BY Zenon DEF GlobMatch
<1> DEFINE P == {k \in 0 .. n : /\ F[k] \subseteq 1 .. m + 1
                                /\ \A j \in 1 .. m + 1 :
                                     j \in F[k] <=> CutsFrom(pat, text, sep, k, j)}
<1>5. 0 \in P
  <2>1. ASSUME NEW j \in 1 .. m + 1
        PROVE  j = m + 1 <=> CutsFrom(pat, text, sep, 0, j)
    <3>1. ASSUME j = m + 1 PROVE CutsFrom(pat, text, sep, 0, j)
      <4> DEFINE cut == [i \in 0 .. 0 |-> m]
      <4>1. cut \in [0 .. 0 -> 0 .. m] /\ cut[0] = m /\ 1 .. 0 = {} /\ j - 1 = m
        BY <1>1, <3>1
      <4> HIDE DEF cut
      <4> QED BY <4>1 DEF CutsFrom
    <3>2. ASSUME CutsFrom(pat, text, sep, 0, j) PROVE j = m + 1
      BY <1>1, <3>2 DEF CutsFrom
    <3> QED BY <3>1, <3>2
  <2> HIDE DEF F
  <2> QED BY <1>1, <1>3, <2>1
<1>6. ASSUME NEW k \in 1 .. n, k - 1 \in P PROVE k \in P
  <2> DEFINE part == pat[n - k + 1]
             old == F[k - 1]
  <2>1. n - k + 1 \in DOMAIN pat /\ part.wild \in {"star", "one", "in"}
    <3>1. n - k + 1 \in DOMAIN pat
      BY <1>1
    <3> HIDE DEF n
    <3> QED BY <3>1
  <2>2. /\ old \subseteq 1 .. m + 1
        /\ \A e \in 1 .. m + 1 : e \in old <=> CutsFrom(pat, text, sep, k - 1, e)
    <3> HIDE DEF F
    <3> QED BY <1>6
  <2>3. ASSUME NEW j \in 1 .. m + 1, NEW e \in j .. m + 1
        PROVE  Fits(SubSeq(text, j, e - 1), part, sep)
                 <=> /\ part.wild # "star" => e = j + 1
                     /\ \A l \in j .. e - 1 : Takes(part, text[l], sep)
    <3>1. j - 1 \in 0 .. m /\ e - 1 \in 0 .. m /\ j - 1 <= e - 1 /\ (j - 1) + 1 = j
          /\ (e - 1 = (j - 1) + 1 <=> e = j + 1)
      BY <1>1
    <3> HIDE DEF part
    <3>2. Fits(SubSeq(text, (j - 1) + 1, e - 1), part, sep)
            <=> /\ part.wild # "star" => e - 1 = (j - 1) + 1
                /\ \A l \in (j - 1) + 1 .. e - 1 : Takes(part, text[l], sep)
      BY <3>1, FitsAt
    <3> QED BY <3>1, <3>2
  <2>4. ASSUME NEW j \in 1 .. m + 1
        PROVE  CutsFrom(pat, text, sep, k, j) <=>
                 \E e \in j .. m + 1 : /\ part.wild # "star" => e = j + 1
                                       /\ \A l \in j .. e - 1 : Takes(part, text[l], sep)
                                       /\ e \in old
    <3>1. CutsFrom(pat, text, sep, k, j) <=>
            \E e \in j .. m + 1 : /\ Fits(SubSeq(text, j, e - 1), part, sep)
                                  /\ CutsFrom(pat, text, sep, k - 1, e)
      BY CutFirst
    <3>2. j .. m + 1 \subseteq 1 .. m + 1
      BY <1>1
    <3> HIDE DEF part, old
    <3> QED BY <2>2, <2>3, <3>1, <3>2
  <2>5. F[k] = Before(k, old)
    <3> HIDE DEF F, Before
    <3> QED BY <1>3
  <2>6. CASE part.wild = "star"
    <3>1. F[k] = {j \in 1 .. m + 1 :
                    \E e \in old : j <= e /\ \A l \in j .. e - 1 : Takes(part, text[l], sep)}
      <4> HIDE DEF F
      <4> QED BY <2>5, <2>6
    <3>2. ASSUME NEW j \in 1 .. m + 1 PROVE j \in F[k] <=> CutsFrom(pat, text, sep, k, j)
      <4>1. \A e \in old : j <= e <=> e \in j .. m + 1
        <5> HIDE DEF old
        <5> QED BY <1>1, <2>2
      <4>2. j \in F[k] <=> \E e \in old : j <= e /\ \A l \in j .. e - 1 : Takes(part, text[l], sep)
        <5> HIDE DEF F, old, part
        <5> QED BY <3>1
      <4> HIDE DEF F, old, part
      <4> QED BY <2>4, <2>6, <4>1, <4>2
    <3> HIDE DEF F, old, part
    <3> QED BY <3>1, <3>2
  <2>7. CASE part.wild # "star"
    <3>1. F[k] = {j \in 1 .. m : Takes(part, text[j], sep) /\ j + 1 \in old}
      <4> HIDE DEF F
      <4> QED BY <2>5, <2>7
    <3>2. ASSUME NEW j \in 1 .. m + 1 PROVE j \in F[k] <=> CutsFrom(pat, text, sep, k, j)
      <4>1. j + 1 \in j .. m + 1 <=> j \in 1 .. m
        BY <1>1
      <4>2. j .. (j + 1) - 1 = {j}
        BY <1>1
      <4>3. CutsFrom(pat, text, sep, k, j) <=>
              j + 1 \in j .. m + 1 /\ Takes(part, text[j], sep) /\ j + 1 \in old
        <5> HIDE DEF old, part, m
        <5>1. CutsFrom(pat, text, sep, k, j) <=>
                /\ j + 1 \in j .. m + 1
                /\ \A l \in j .. (j + 1) - 1 : Takes(part, text[l], sep)
                /\ j + 1 \in old
          BY <2>4, <2>7
        <5> QED BY <4>2, <5>1
      <4> HIDE DEF F, old, part
      <4> QED BY <3>1, <4>1, <4>3
    <3>3. 1 .. m \subseteq 1 .. m + 1
      BY <1>1
    <3> HIDE DEF F, old, part
    <3> QED BY <3>1, <3>2, <3>3
  <2> HIDE DEF part
  <2> QED BY <2>6, <2>7
<1>7. P = 0 .. n
  <2>1. P \in SUBSET (0 .. n)
    OBVIOUS
  <2> HIDE DEF P, n
  <2> QED BY <1>1, <1>5, <1>6, <2>1, StepByStep
<1>8. 1 \in F[n] <=> CutsFrom(pat, text, sep, n, 1)
  <2>1. n \in P /\ 1 \in 1 .. m + 1
    <3> HIDE DEF P
    <3> QED BY <1>1, <1>7
  <2> HIDE DEF F
  <2> QED BY <2>1
<1>9. CutsFrom(pat, text, sep, n, 1) <=> IsGlobOf(pat, text, sep)
  <2>1. DOMAIN pat = 1 .. n /\ 1 - 1 = 0 /\ \A i \in 1 .. n : n - n + i = i
    BY <1>1
  <2> HIDE DEF F, P
  <2> QED BY <2>1 DEF CutsFrom, IsGlobOf
<1> HIDE DEF F, P
<1> QED BY <1>4, <1>8, <1>9

-----------------------------------------------------------------------------
(* The expression.  Check(words, i) is what the word i asks for; the words *)
(* between two bars are one alternative, and it is met when its checks are *)
(* among those that hold.                                                  *)
Check(words, i) == [test |-> words[i], holds |-> ~(i > 1 /\ words[i - 1].tok = "not")]
Checks(words) == [test : {words[i] : i \in DOMAIN words}, holds : BOOLEAN]
Limits(words) == {0, Len(words) + 1} \cup {i \in DOMAIN words : words[i].tok = "or"}
MetIn(words, good, b, e) ==
  \A i \in b + 1 .. e - 1 : words[i].tok \notin Operators => Check(words, i) \in good
NoBar(words, b, e) == \A i \in b + 1 .. e - 1 : i \notin Limits(words)
Alternative(words, good, b, e) ==
  b < e /\ NoBar(words, b, e) /\ MetIn(words, good, b, e)
AllGood(list, good) == \A j \in DOMAIN list : list[j] \in good
AnyGood(lists, good) == \E i \in DOMAIN lists : AllGood(lists[i], good)

Reading(words) ==
  [any : Seq(Seq(Checks(words))), all : Seq(Checks(words)), negate : BOOLEAN,
   action : {"print", "delete"}, min : SUBSET Nat, max : SUBSET Nat, error : BOOLEAN]

(* What has been read after k words.                                       *)
ReadSoFar(words, good, s, k) ==
  /\ s.negate <=> k > 0 /\ words[k].tok = "not"
  /\ \E b \in Limits(words) : b <= k /\ NoBar(words, b, k + 1)
  /\ \A b \in Limits(words) : b <= k /\ NoBar(words, b, k + 1) =>
       (AllGood(s.all, good) <=> MetIn(words, good, b, k + 1))
  /\ AnyGood(s.any, good) <=>
       \E b, e \in Limits(words) : e <= k /\ Alternative(words, good, b, e)

(* A "not" has nothing behind it that may be negated.                      *)
Unreadable(words) ==
  \E i \in DOMAIN words :
    words[i].tok = "not" /\ (i = Len(words) \/ words[i + 1].tok \notin MayNegate)

LEMMA FreshIsRead ==
  ASSUME NEW words
  PROVE  Fresh \in Reading(words)
BY DEF Fresh, Reading

LEMMA AppendGood ==
  ASSUME NEW S, NEW list \in Seq(S), NEW c \in S, NEW good
  PROVE  AllGood(Append(list, c), good) <=> AllGood(list, good) /\ c \in good
<1> DEFINE n == Len(list)
<1>1. /\ n \in Nat /\ DOMAIN list = 1 .. n /\ DOMAIN Append(list, c) = 1 .. n + 1
      /\ \A i \in 1 .. n : Append(list, c)[i] = list[i]
      /\ Append(list, c)[n + 1] = c
  OBVIOUS
<1> DEFINE more == Append(list, c)
<1>2. /\ n \in Nat /\ DOMAIN list = 1 .. n /\ DOMAIN more = 1 .. n + 1
      /\ \A i \in 1 .. n : more[i] = list[i]
      /\ more[n + 1] = c
  BY <1>1
<1> HIDE DEF n, more
<1>3. \A i \in 1 .. n + 1 : i = n + 1 \/ i \in 1 .. n
  BY <1>2
<1>4. 1 .. n \subseteq 1 .. n + 1 /\ n + 1 \in 1 .. n + 1
  BY <1>2
<1>5. AllGood(more, good) <=> AllGood(list, good) /\ c \in good
  BY <1>2, <1>3, <1>4 DEF AllGood
<1> QED BY <1>5 DEF more

LEMMA AppendAnyGood ==
  ASSUME NEW S, NEW lists \in Seq(S), NEW list \in S, NEW good
  PROVE  AnyGood(Append(lists, list), good) <=> AnyGood(lists, good) \/ AllGood(list, good)
<1> DEFINE n == Len(lists)
           more == Append(lists, list)
<1>1. /\ n \in Nat /\ DOMAIN lists = 1 .. n /\ DOMAIN more = 1 .. n + 1
      /\ \A i \in 1 .. n : more[i] = lists[i]
      /\ more[n + 1] = list
  OBVIOUS
<1> HIDE DEF n, more
<1>2. \A i \in 1 .. n + 1 : i = n + 1 \/ i \in 1 .. n
  BY <1>1
<1>3. 1 .. n \subseteq 1 .. n + 1 /\ n + 1 \in 1 .. n + 1
  BY <1>1
<1>4. AnyGood(more, good) <=> AnyGood(lists, good) \/ AllGood(list, good)
  BY <1>1, <1>2, <1>3 DEF AnyGood
<1> QED BY <1>4 DEF more

(* One word more.                                                          *)
LEMMA TokenRead ==
  ASSUME NEW W, NEW words \in Seq(W), NEW k \in 1 .. Len(words), NEW s \in Reading(words),
         IsWord(words[k])
  PROVE  ReadToken(s, words[k]) \in Reading(words)
<1> DEFINE t == words[k]
<1>0. k \in DOMAIN words
  OBVIOUS
<1>1. ASSUME NEW h \in BOOLEAN PROVE Append(s.all, [test |-> t, holds |-> h]) \in Seq(Checks(words))
  <2>1. [test |-> t, holds |-> h] \in Checks(words)
    BY <1>0 DEF Checks
  <2>2. s.all \in Seq(Checks(words))
    BY DEF Reading
  <2> DEFINE c == [test |-> t, holds |-> h]
  <2> HIDE DEF c
  <2> QED BY <2>1, <2>2 DEF c
<1>2. Append(s.any, s.all) \in Seq(Seq(Checks(words)))
  BY DEF Reading
<1>a. s.error \in BOOLEAN /\ s.negate \in BOOLEAN
  BY DEF Reading
<1>3. CASE s.error
  <2>1. ReadToken(s, words[k]) = s
    BY <1>a, <1>3 DEF ReadToken
  <2> QED BY <2>1
<1>4. CASE ~s.error /\ s.negate
  <2>0. ReadToken(s, t) =
          IF t.tok \in MayNegate
          THEN [s EXCEPT !.all = Append(@, [test |-> t, holds |-> FALSE]), !.negate = FALSE]
          ELSE [s EXCEPT !.error = TRUE]
    BY <1>a, <1>4 DEF ReadToken
  <2>1. CASE t.tok \in MayNegate
    <3>1. ReadToken(s, t) = [s EXCEPT !.all = Append(@, [test |-> t, holds |-> FALSE]),
                                      !.negate = FALSE]
      BY <2>0, <2>1
    <3> QED BY <1>1, <3>1 DEF Reading
  <2>2. CASE t.tok \notin MayNegate
    <3>1. ReadToken(s, t) = [s EXCEPT !.error = TRUE]
      BY <2>0, <2>2
    <3> QED BY <3>1 DEF Reading
  <2> QED BY <2>1, <2>2
<1>5. CASE ~s.error /\ ~s.negate
  <2>1. CASE t.tok = "not"
    <3>1. ReadToken(s, t) = [s EXCEPT !.negate = TRUE]
      BY <1>5, <2>1 DEF ReadToken
    <3> QED BY <3>1 DEF Reading
  <2>2. CASE t.tok = "and"
    BY <1>5, <2>2 DEF ReadToken
  <2>3. CASE t.tok = "or"
    <3>1. ReadToken(s, t) = [s EXCEPT !.any = Append(@, s.all), !.all = <<>>]
      BY <1>5, <2>3 DEF ReadToken, EndAlternative
    <3>2. <<>> \in Seq(Checks(words))
      OBVIOUS
    <3> QED BY <1>2, <3>1, <3>2 DEF Reading
  <2>4. CASE t.tok = "maxdepth"
    <3>1. ReadToken(s, t) = [s EXCEPT !.max = {t.n}]
      BY <1>5, <2>4 DEF ReadToken
    <3>2. {t.n} \in SUBSET Nat
      BY <2>4 DEF IsWord
    <3> QED BY <3>1, <3>2 DEF Reading
  <2>5. CASE t.tok = "mindepth"
    <3>1. ReadToken(s, t) = [s EXCEPT !.min = {t.n}]
      BY <1>5, <2>5 DEF ReadToken
    <3>2. {t.n} \in SUBSET Nat
      BY <2>5 DEF IsWord
    <3> QED BY <3>1, <3>2 DEF Reading
  <2>6. CASE t.tok \in {"print", "delete"}
    <3>1. ReadToken(s, t) = [s EXCEPT !.action = t.tok]
      BY <1>5, <2>6 DEF ReadToken
    <3> QED BY <2>6, <3>1 DEF Reading
  <2>7. CASE t.tok \notin Operators
    <3>1. ReadToken(s, t) = [s EXCEPT !.all = Append(@, [test |-> t, holds |-> TRUE])]
      BY <1>5, <2>7 DEF ReadToken, Operators
    <3> QED BY <1>1, <3>1 DEF Reading
  <2> QED BY <2>1, <2>2, <2>3, <2>4, <2>5, <2>6, <2>7 DEF Operators
<1> QED BY <1>3, <1>4, <1>5

LEMMA TokenRefused ==
  ASSUME NEW words, NEW s \in Reading(words), NEW t
  PROVE  /\ ReadToken(s, t).error => s.error \/ (s.negate /\ t.tok \notin MayNegate)
         /\ ReadToken(s, t).negate => s.error \/ ReadToken(s, t).error \/ t.tok = "not"
<1>1. /\ s.error \in BOOLEAN /\ s.negate \in BOOLEAN
      /\ DOMAIN s = {"any", "all", "negate", "action", "min", "max", "error"}
  BY DEF Reading
<1>2. CASE s.error
  BY <1>2
<1>3. CASE ~s.error /\ s.negate
  <2>1. ReadToken(s, t) =
          IF t.tok \in MayNegate
          THEN [s EXCEPT !.all = Append(@, [test |-> t, holds |-> FALSE]), !.negate = FALSE]
          ELSE [s EXCEPT !.error = TRUE]
    BY <1>1, <1>3 DEF ReadToken
  <2>2. CASE t.tok \in MayNegate
    <3>1. ReadToken(s, t) = [s EXCEPT !.all = Append(@, [test |-> t, holds |-> FALSE]),
                                      !.negate = FALSE]
      BY <2>1, <2>2
    <3>2. ReadToken(s, t).error = s.error /\ ReadToken(s, t).negate = FALSE
      BY <1>1, <3>1
    <3> QED BY <1>3, <3>2
  <2>3. CASE t.tok \notin MayNegate
    <3>1. ReadToken(s, t) = [s EXCEPT !.error = TRUE]
      BY <2>1, <2>3
    <3>2. ReadToken(s, t).error
      BY <1>1, <3>1
    <3> QED BY <1>3, <2>3, <3>2
  <2> QED BY <2>2, <2>3
<1>4. CASE ~s.error /\ ~s.negate
  <2>1. \/ t.tok = "not" /\ ReadToken(s, t) = [s EXCEPT !.negate = TRUE]
        \/ ReadToken(s, t) = s
        \/ ReadToken(s, t) = [s EXCEPT !.any = Append(@, s.all), !.all = <<>>]
        \/ ReadToken(s, t) = [s EXCEPT !.max = {t.n}]
        \/ ReadToken(s, t) = [s EXCEPT !.min = {t.n}]
        \/ ReadToken(s, t) = [s EXCEPT !.action = t.tok]
        \/ ReadToken(s, t) = [s EXCEPT !.all = Append(@, [test |-> t, holds |-> TRUE])]
    BY <1>1, <1>4 DEF ReadToken, EndAlternative
  <2>2. ReadToken(s, t).error = s.error /\ (ReadToken(s, t).negate => t.tok = "not")
    BY <1>1, <1>4, <2>1
  <2> QED BY <1>4, <2>2
<1> QED BY <1>1, <1>2, <1>3, <1>4

LEMMA OneMore ==
  ASSUME NEW W, NEW words \in Seq(W), NEW k \in 1 .. Len(words), NEW b \in 0 .. k - 1, NEW good
  PROVE  /\ MetIn(words, good, b, k + 1) <=>
              /\ MetIn(words, good, b, k)
              /\ words[k].tok \notin Operators => Check(words, k) \in good
         /\ NoBar(words, b, k + 1) <=> NoBar(words, b, k) /\ words[k].tok # "or"
<1> DEFINE n == Len(words)
<1>1. n \in Nat /\ DOMAIN words = 1 .. n
  OBVIOUS
<1>2. /\ \A i \in b + 1 .. (k + 1) - 1 : i = k \/ i \in b + 1 .. k - 1
      /\ b + 1 .. k - 1 \subseteq b + 1 .. (k + 1) - 1 /\ k \in b + 1 .. (k + 1) - 1
  BY <1>1
<1>3. k \in Limits(words) <=> words[k].tok = "or"
  BY <1>1 DEF Limits
<1>4. MetIn(words, good, b, k + 1) <=>
        /\ MetIn(words, good, b, k)
        /\ words[k].tok \notin Operators => Check(words, k) \in good
  <2> HIDE DEF n
  <2> QED BY <1>2 DEF MetIn
<1>5. NoBar(words, b, k + 1) <=> NoBar(words, b, k) /\ words[k].tok # "or"
  <2> HIDE DEF n
  <2> QED BY <1>2, <1>3 DEF NoBar
<1> QED BY <1>4, <1>5

LEMMA ReadOnce ==
  ASSUME NEW W, NEW words \in Seq(W), NEW k \in 1 .. Len(words), NEW s \in Reading(words), NEW good,
         ~s.error, ~ReadToken(s, words[k]).error, ReadSoFar(words, good, s, k - 1)
  PROVE  ReadSoFar(words, good, ReadToken(s, words[k]), k)
<1> DEFINE n == Len(words)
           t == words[k]
           new == ReadToken(s, words[k])
<1>0. n \in Nat /\ DOMAIN words = 1 .. n /\ k \in 1 .. n /\ (k - 1) + 1 = k
  OBVIOUS
<1>1. /\ s.negate \in BOOLEAN /\ s.error \in BOOLEAN
      /\ s.all \in Seq(Checks(words)) /\ s.any \in Seq(Seq(Checks(words)))
      /\ DOMAIN s = {"any", "all", "negate", "action", "min", "max", "error"}
  BY DEF Reading
<1>2. k \in Limits(words) <=> t.tok = "or"
  BY <1>0 DEF Limits
<1>3. \A b \in Limits(words) :
        b \in Nat /\ (b <= k - 1 => b \in 0 .. k - 1) /\ (b <= k <=> b <= k - 1 \/ b = k)
  BY <1>0 DEF Limits
<1>4. /\ s.negate <=> k - 1 > 0 /\ words[k - 1].tok = "not"
      /\ \E b \in Limits(words) : b <= k - 1 /\ NoBar(words, b, k)
      /\ \A b \in Limits(words) : b <= k - 1 /\ NoBar(words, b, k) =>
           (AllGood(s.all, good) <=> MetIn(words, good, b, k))
      /\ AnyGood(s.any, good) <=>
           \E b, e \in Limits(words) : e <= k - 1 /\ Alternative(words, good, b, e)
  BY <1>0 DEF ReadSoFar
<1>5. Check(words, k) = [test |-> t, holds |-> ~s.negate]
  <2>1. s.negate <=> (k > 1 /\ words[k - 1].tok = "not")
    BY <1>0, <1>4
  <2> HIDE DEF n
  <2> QED BY <1>1, <2>1 DEF Check
<1>6. CASE t.tok = "or"
  <2>1. ~s.negate
    BY <1>1, <1>6 DEF ReadToken, MayNegate
  <2>2. new = [s EXCEPT !.any = Append(@, s.all), !.all = <<>>]
    BY <1>1, <1>6, <2>1 DEF ReadToken, EndAlternative
  <2>3. new.any = Append(s.any, s.all) /\ new.all = <<>> /\ new.negate = s.negate
    <3> HIDE DEF new
    <3> QED BY <1>1, <2>2
  <2>4. new.negate <=> k > 0 /\ words[k].tok = "not"
    <3> HIDE DEF new
    <3> QED BY <1>6, <2>1, <2>3
  <2>5. \A b \in Limits(words) : b <= k /\ NoBar(words, b, k + 1) => b = k
    <3> SUFFICES ASSUME NEW b \in Limits(words), b <= k, NoBar(words, b, k + 1), b # k PROVE FALSE
      OBVIOUS
    <3>1. b \in 0 .. k - 1
      BY <1>3
    <3>2. NoBar(words, b, k + 1) <=> NoBar(words, b, k) /\ words[k].tok # "or"
      BY <3>1, OneMore
    <3> QED BY <1>6, <3>2
  <2>6. NoBar(words, k, k + 1) /\ MetIn(words, good, k, k + 1)
    <3>1. k + 1 .. (k + 1) - 1 = {}
      BY <1>0
    <3> QED BY <3>1 DEF NoBar, MetIn
  <2>7. AllGood(new.all, good)
    <3> HIDE DEF new
    <3>1. DOMAIN new.all = {}
      BY <2>3
    <3> QED BY <3>1 DEF AllGood
  <2>8. AnyGood(new.any, good) <=> AnyGood(s.any, good) \/ AllGood(s.all, good)
    <3> HIDE DEF new
    <3> QED BY <1>1, <2>3, AppendAnyGood
  <2>9. AllGood(s.all, good) <=> \E b \in Limits(words) : Alternative(words, good, b, k)
    <3>1. \A b \in Limits(words) : b < k <=> b <= k - 1
      BY <1>0, <1>3
    <3> QED BY <1>4, <3>1 DEF Alternative
  <2>10. AnyGood(new.any, good) <=>
           \E b, e \in Limits(words) : e <= k /\ Alternative(words, good, b, e)
    <3> HIDE DEF new
    <3>1. \A e \in Limits(words) : e <= k <=> e <= k - 1 \/ e = k
      BY <1>3
    <3>2. (\E b, e \in Limits(words) : e <= k /\ Alternative(words, good, b, e)) <=>
            \/ \E b, e \in Limits(words) : e <= k - 1 /\ Alternative(words, good, b, e)
            \/ \E b \in Limits(words) : Alternative(words, good, b, k)
      BY <1>2, <1>6, <3>1
    <3> QED BY <1>4, <2>8, <2>9, <3>2
  <2>11. \E b \in Limits(words) : b <= k /\ NoBar(words, b, k + 1)
    BY <1>0, <1>2, <1>6, <2>6
  <2> HIDE DEF new
  <2>12. ReadSoFar(words, good, new, k)
    BY <2>4, <2>5, <2>6, <2>7, <2>10, <2>11 DEF ReadSoFar
  <2> QED BY <2>12 DEF new
<1>7. CASE t.tok # "or"
  <2>1. \A b \in Limits(words) : b <= k <=> b <= k - 1
    BY <1>2, <1>3, <1>7
  <2>2. \A b \in Limits(words) : b <= k - 1 =>
          /\ NoBar(words, b, k + 1) <=> NoBar(words, b, k)
          /\ MetIn(words, good, b, k + 1) <=>
               /\ MetIn(words, good, b, k)
               /\ t.tok \notin Operators => Check(words, k) \in good
    <3> SUFFICES ASSUME NEW b \in Limits(words), b <= k - 1
                 PROVE  /\ NoBar(words, b, k + 1) <=> NoBar(words, b, k)
                        /\ MetIn(words, good, b, k + 1) <=>
                             /\ MetIn(words, good, b, k)
                             /\ t.tok \notin Operators => Check(words, k) \in good
      OBVIOUS
    <3>1. b \in 0 .. k - 1
      BY <1>3
    <3> QED BY <1>7, <3>1, OneMore
  <2>3. /\ new.any = s.any
        /\ new.negate <=> t.tok = "not"
        /\ AllGood(new.all, good) <=>
             AllGood(s.all, good) /\ (t.tok \notin Operators => Check(words, k) \in good)
    <3>1. CASE t.tok \in Operators
      <4>1. ~s.negate
        BY <1>1, <3>1 DEF ReadToken, MayNegate, Operators
      <4>2. \/ t.tok = "not" /\ new = [s EXCEPT !.negate = TRUE]
            \/ t.tok = "and" /\ new = s
            \/ t.tok = "maxdepth" /\ new = [s EXCEPT !.max = {t.n}]
            \/ t.tok = "mindepth" /\ new = [s EXCEPT !.min = {t.n}]
            \/ t.tok \in {"print", "delete"} /\ new = [s EXCEPT !.action = t.tok]
        BY <1>1, <1>7, <3>1, <4>1 DEF ReadToken, Operators
      <4> HIDE DEF new
      <4>3. new.any = s.any /\ new.all = s.all /\ (new.negate <=> t.tok = "not")
        BY <1>1, <4>1, <4>2
      <4> QED BY <3>1, <4>3
    <3>2. CASE t.tok \notin Operators
      <4> DEFINE c == [test |-> t, holds |-> ~s.negate]
      <4>1. c \in Checks(words) /\ c = Check(words, k)
        BY <1>0, <1>1, <1>5 DEF Checks
      <4>2. \/ s.negate /\ new = [s EXCEPT !.all = Append(@, [test |-> t, holds |-> FALSE]),
                                           !.negate = FALSE]
            \/ ~s.negate /\ new = [s EXCEPT !.all = Append(@, [test |-> t, holds |-> TRUE])]
        BY <1>1, <3>2 DEF ReadToken, Operators
      <4>3. new.any = s.any /\ new.all = Append(s.all, c) /\ ~new.negate
        <5> HIDE DEF new
        <5> QED BY <1>1, <4>2
      <4>4. AllGood(Append(s.all, c), good) <=> AllGood(s.all, good) /\ c \in good
        <5> HIDE DEF c
        <5> QED BY <1>1, <4>1, AppendGood
      <4>5. t.tok # "not"
        BY <3>2 DEF Operators
      <4> HIDE DEF c, new
      <4> QED BY <3>2, <4>1, <4>3, <4>4, <4>5
    <3> QED BY <3>1, <3>2
  <2> HIDE DEF new
  <2>4. new.negate <=> k > 0 /\ words[k].tok = "not"
    BY <1>0, <2>3
  <2>5. \E b \in Limits(words) : b <= k /\ NoBar(words, b, k + 1)
    BY <1>4, <2>1, <2>2
  <2>6. \A b \in Limits(words) : b <= k /\ NoBar(words, b, k + 1) =>
          (AllGood(new.all, good) <=> MetIn(words, good, b, k + 1))
    BY <1>4, <2>1, <2>2, <2>3
  <2>7. AnyGood(new.any, good) <=>
          \E b, e \in Limits(words) : e <= k /\ Alternative(words, good, b, e)
    BY <1>4, <2>1, <2>3
  <2>8. ReadSoFar(words, good, new, k)
    BY <2>4, <2>5, <2>6, <2>7 DEF ReadSoFar
  <2> QED BY <2>8 DEF new
<1> QED BY <1>6, <1>7

(* What is parsed without an error is met exactly when an alternative of   *)
(* the words is; there is no error without a "not" that cannot be read.    *)
LEMMA ExpressionReads ==
  ASSUME NEW W, NEW words \in Seq(W), \A i \in DOMAIN words : IsWord(words[i]), NEW good
  PROVE  /\ Expression(words) \in Reading(words)
         /\ ~Expression(words).error =>
              (AnyGood(Expression(words).any, good) <=>
                 \E b, e \in Limits(words) : Alternative(words, good, b, e))
         /\ Expression(words).error => Unreadable(words)
<1> DEFINE n == Len(words)
           V == Reading(words)
           H == [x \in (1 .. n) \X V |-> ReadToken(x[2], words[x[1]])]
           IsRead(f) ==
             f = [k \in 0 .. n |-> IF k = 0 THEN Fresh ELSE ReadToken(f[k - 1], words[k])]
           F == CHOOSE f : IsRead(f)
           end == F[n]
           whole == Expression(words)
<1>1. n \in Nat /\ DOMAIN words = 1 .. n
  OBVIOUS
<1>2. \A k \in 1 .. n, v \in V : ReadToken(v, words[k]) \in V
  <2> HIDE DEF V
  <2> SUFFICES ASSUME NEW k \in 1 .. n, NEW v \in V PROVE ReadToken(v, words[k]) \in V
    OBVIOUS
  <2>1. IsWord(words[k])
    BY <1>1
  <2> QED BY <2>1, TokenRead DEF V
<1>3. IsRead(F) /\ F \in [0 .. n -> V]
  <2>1. ASSUME NEW k \in 1 .. n, NEW v \in V
        PROVE  H[<<k, v>>] = ReadToken(v, words[k])
    <3> HIDE DEF V, n
    <3> QED OBVIOUS
  <2>2. Fresh \in V
    BY FreshIsRead
  <2>3. PICK f \in [0 .. n -> V] : Recurs(f, n, Fresh, H)
    <3>1. \A k \in 1 .. n, v \in V : H[<<k, v>>] \in V
      <4> HIDE DEF V, H, n
      <4> QED BY <1>2, <2>1
    <3> HIDE DEF V, H, n
    <3> QED BY <1>1, <2>2, <3>1, RecursionExists
  <2>4. ASSUME NEW k \in 1 .. n PROVE H[<<k, f[k - 1]>>] = ReadToken(f[k - 1], words[k])
    <3>1. f[k - 1] \in V
      <4>1. k - 1 \in 0 .. n
        BY <1>1
      <4> HIDE DEF V, n
      <4> QED BY <4>1
    <3> HIDE DEF V, H, n
    <3> QED BY <2>1, <3>1
  <2>5. IsRead(f)
    <3>1. f = [k \in 0 .. n |-> IF k = 0 THEN Fresh ELSE H[<<k, f[k - 1]>>]]
      BY <2>3 DEF Recurs
    <3>2. \A k \in 0 .. n : k # 0 => H[<<k, f[k - 1]>>] = ReadToken(f[k - 1], words[k])
      <4> HIDE DEF H
      <4> QED BY <1>1, <2>4
    <3> HIDE DEF H
    <3> QED BY <3>1, <3>2
  <2>6. IsRead(F)
    <3> HIDE DEF IsRead
    <3> QED BY <2>5
  <2> DEFINE P == {k \in 0 .. n : F[k] \in V}
  <2>7. /\ F[0] = Fresh
        /\ \A k \in 1 .. n : F[k] = ReadToken(F[k - 1], words[k])
        /\ DOMAIN F = 0 .. n
        /\ F = [k \in 0 .. n |-> F[k]]
    <3>1. F = [k \in 0 .. n |-> IF k = 0 THEN Fresh ELSE ReadToken(F[k - 1], words[k])]
      <4> HIDE DEF F
      <4> QED BY <2>6
    <3> HIDE DEF F
    <3> QED BY <1>1, <3>1
  <2>8. 0 \in P /\ \A k \in 1 .. n : k - 1 \in P => k \in P
    <3>1. 0 \in P
      <4> HIDE DEF F, V
      <4> QED BY <1>1, <2>2, <2>7
    <3>2. ASSUME NEW k \in 1 .. n, k - 1 \in P PROVE k \in P
      <4>1. F[k - 1] \in V /\ F[k] = ReadToken(F[k - 1], words[k])
        <5> HIDE DEF F, V
        <5> QED BY <2>7, <3>2
      <4>2. F[k] \in V
        <5> HIDE DEF F, V
        <5> QED BY <1>2, <4>1
      <4> HIDE DEF F, V
      <4> QED BY <1>1, <4>2
    <3> HIDE DEF P
    <3> QED BY <3>1, <3>2
  <2>9. P = 0 .. n
    <3>1. P \in SUBSET (0 .. n)
      OBVIOUS
    <3> HIDE DEF P, n
    <3> QED BY <1>1, <2>8, <3>1, StepByStep
  <2>10. \A k \in 0 .. n : F[k] \in V
    <3> HIDE DEF F, V
    <3> QED BY <2>9
  <2> HIDE DEF F, V, IsRead
  <2> QED BY <2>6, <2>7, <2>10
<1>4. /\ F[0] = Fresh
      /\ \A k \in 1 .. n : F[k] = ReadToken(F[k - 1], words[k])
      /\ \A k \in 0 .. n : F[k] \in V
      /\ end \in V
  <2>1. F = [k \in 0 .. n |-> IF k = 0 THEN Fresh ELSE ReadToken(F[k - 1], words[k])]
    <3> HIDE DEF F
    <3> QED BY <1>3
  <2>2. n \in 0 .. n /\ 0 \in 0 .. n /\ \A k \in 1 .. n : k \in 0 .. n /\ k # 0
    BY <1>1
  <2>3. F[0] = Fresh /\ \A k \in 1 .. n : F[k] = ReadToken(F[k - 1], words[k])
    <3> HIDE DEF F, V, n
    <3> QED BY <2>1, <2>2
  <2>4. (\A k \in 0 .. n : F[k] \in V) /\ end \in V
    <3> HIDE DEF F, V, n
    <3> QED BY <1>3, <2>2
  <2> QED BY <2>3, <2>4
<1>5. whole = [EndAlternative(end) EXCEPT !.error = @ \/ end.negate]
  BY Zenon DEF Expression
<1>6. /\ whole = [end EXCEPT !.any = Append(end.any, end.all), !.all = <<>>,
                             !.error = end.error \/ end.negate]
      /\ whole \in V
  <2> HIDE DEF F, n, whole
  <2>1. DOMAIN end = {"any", "all", "negate", "action", "min", "max", "error"}
    BY <1>4 DEF Reading
  <2>2. whole = [end EXCEPT !.any = Append(end.any, end.all), !.all = <<>>,
                             !.error = end.error \/ end.negate]
    BY <1>5, <2>1 DEF EndAlternative
  <2>3. Append(end.any, end.all) \in Seq(Seq(Checks(words))) /\ <<>> \in Seq(Checks(words))
    BY <1>4 DEF Reading
  <2>4. whole \in V
    BY <1>4, <2>2, <2>3 DEF Reading
  <2> QED BY <2>2, <2>4
<1>7. ASSUME ~whole.error
      PROVE  AnyGood(whole.any, good) <=> \E b, e \in Limits(words) : Alternative(words, good, b, e)
  <2>1. whole.error = (end.error \/ end.negate) /\ whole.any = Append(end.any, end.all)
    <3> HIDE DEF F, n, whole
    <3> QED BY <1>4, <1>6 DEF Reading
  <2>2. ~end.error /\ ~end.negate
    <3> HIDE DEF F, n, whole
    <3> QED BY <1>4, <1>7, <2>1 DEF Reading
  <2> DEFINE P == {k \in 0 .. n : F[k].error \/ ReadSoFar(words, good, F[k], k)}
  <2>3. 0 \in P
    <3>1. 0 \in Limits(words) /\ \A b \in Limits(words) : b <= 0 => b = 0
      BY <1>1 DEF Limits
    <3>2. NoBar(words, 0, 0 + 1) /\ MetIn(words, good, 0, 0 + 1)
      BY DEF NoBar, MetIn
    <3>3. AllGood(Fresh.all, good) /\ ~AnyGood(Fresh.any, good) /\ ~Fresh.negate
      <4>1. DOMAIN <<>> = {}
        OBVIOUS
      <4> QED BY <4>1 DEF Fresh, AllGood, AnyGood
    <3>4. ~ \E b, e \in Limits(words) : e <= 0 /\ Alternative(words, good, b, e)
      <4>1. \A b \in Limits(words) : ~(b < 0)
        BY <1>1 DEF Limits
      <4> QED BY <3>1, <4>1 DEF Alternative
    <3>5. ReadSoFar(words, good, Fresh, 0)
      BY <3>1, <3>2, <3>3, <3>4 DEF ReadSoFar
    <3> HIDE DEF F
    <3> QED BY <1>1, <1>4, <3>5
  <2>4. ASSUME NEW k \in 1 .. n, k - 1 \in P PROVE k \in P
    <3>1. F[k] = ReadToken(F[k - 1], words[k]) /\ F[k - 1] \in V /\ F[k] \in V
      <4>1. k \in 0 .. n /\ k - 1 \in 0 .. n
        BY <1>1
      <4> HIDE DEF F, V
      <4> QED BY <1>4, <4>1
    <3>2. CASE F[k - 1].error
      <4> HIDE DEF F
      <4>1. F[k].error
        BY <3>1, <3>2 DEF ReadToken
      <4> QED BY <1>1, <4>1
    <3>3. CASE F[k].error
      <4> HIDE DEF F
      <4> QED BY <1>1, <3>3
    <3>4. CASE ~F[k - 1].error /\ ~F[k].error
      <4>1. ReadSoFar(words, good, F[k - 1], k - 1)
        <5> HIDE DEF F
        <5> QED BY <2>4, <3>4
      <4>2. ReadSoFar(words, good, F[k], k)
        <5> HIDE DEF F
        <5> QED BY <3>1, <3>4, <4>1, ReadOnce
      <4> HIDE DEF F
      <4> QED BY <1>1, <4>2
    <3> QED BY <3>2, <3>3, <3>4
  <2>5. P = 0 .. n
    <3>1. P \in SUBSET (0 .. n)
      OBVIOUS
    <3> HIDE DEF P, n
    <3> QED BY <1>1, <2>3, <2>4, <3>1, StepByStep
  <2>6. ReadSoFar(words, good, end, n)
    <3>1. n \in P
      <4> HIDE DEF P
      <4> QED BY <1>1, <2>5
    <3> HIDE DEF F
    <3> QED BY <2>2, <3>1
  <2>7. AnyGood(whole.any, good) <=> AnyGood(end.any, good) \/ AllGood(end.all, good)
    <3>1. end.any \in Seq(Seq(Checks(words))) /\ end.all \in Seq(Checks(words))
      <4> HIDE DEF F, n
      <4> QED BY <1>4 DEF Reading
    <3> HIDE DEF end, whole
    <3> QED BY <2>1, <3>1, AppendAnyGood
  <2> HIDE DEF end, whole, P
  <2>8. /\ \A e \in Limits(words) : e \in Nat /\ (e <= n \/ e = n + 1)
        /\ n + 1 \in Limits(words)
    BY <1>1 DEF Limits
  <2>9. AllGood(end.all, good) <=> \E b \in Limits(words) : Alternative(words, good, b, n + 1)
    <3>1. \A b \in Limits(words) : b < n + 1 <=> b <= n
      BY <1>1, <2>8
    <3> QED BY <2>6, <3>1 DEF ReadSoFar, Alternative
  <2>10. AnyGood(end.any, good)
           <=> \E b, e \in Limits(words) : e <= n /\ Alternative(words, good, b, e)
    BY <2>6 DEF ReadSoFar
  <2> QED BY <2>7, <2>8, <2>9, <2>10
<1>8. ASSUME whole.error PROVE Unreadable(words)
  <2> DEFINE Told(k) == F[k].error => Unreadable(words)
             Behind(k) == F[k].negate => F[k].error \/ (k > 0 /\ words[k].tok = "not")
             P == {k \in 0 .. n : Told(k) /\ Behind(k)}
  <2>1. 0 \in P
    <3>1. ~Fresh.error /\ ~Fresh.negate
      BY DEF Fresh
    <3> HIDE DEF F, n
    <3> QED BY <1>1, <1>4, <3>1
  <2>2. ASSUME NEW k \in 1 .. n, k - 1 \in P PROVE k \in P
    <3>1. /\ F[k] = ReadToken(F[k - 1], words[k]) /\ F[k - 1] \in V
          /\ k \in 0 .. n /\ k > 0 /\ k \in DOMAIN words
      <4>1. k \in 0 .. n /\ k - 1 \in 0 .. n /\ k > 0 /\ k \in DOMAIN words
        BY <1>1
      <4> HIDE DEF F, V
      <4> QED BY <1>4, <4>1
    <3>2. Told(k - 1) /\ Behind(k - 1)
      <4> HIDE DEF Told, Behind
      <4> QED BY <2>2
    <3>3. /\ F[k].error => F[k - 1].error \/ (F[k - 1].negate /\ words[k].tok \notin MayNegate)
          /\ F[k].negate => F[k - 1].error \/ F[k].error \/ words[k].tok = "not"
      <4> HIDE DEF F
      <4> QED BY <3>1, TokenRefused
    <3>4. F[k - 1].error => F[k].error
      <4>1. F[k - 1].error => ReadToken(F[k - 1], words[k]) = F[k - 1]
        <5> HIDE DEF F
        <5> QED BY DEF ReadToken
      <4> HIDE DEF F
      <4> QED BY <3>1, <4>1
    <3>5. ASSUME F[k].error, ~F[k - 1].error PROVE Unreadable(words)
      <4>1. F[k - 1].negate /\ words[k].tok \notin MayNegate
        <5> HIDE DEF F
        <5> QED BY <3>3, <3>5
      <4>2. k - 1 > 0 /\ words[k - 1].tok = "not"
        <5> HIDE DEF F
        <5> QED BY <3>2, <3>5, <4>1
      <4>3. k - 1 \in DOMAIN words /\ (k - 1) + 1 = k
        BY <1>1, <4>2
      <4> QED BY <4>1, <4>2, <4>3 DEF Unreadable
    <3>6. Told(k) /\ Behind(k)
      <4> HIDE DEF F
      <4> QED BY <3>1, <3>2, <3>3, <3>4, <3>5
    <3> HIDE DEF Told, Behind
    <3> QED BY <3>1, <3>6
  <2>3. P = 0 .. n
    <3>1. P \in SUBSET (0 .. n)
      OBVIOUS
    <3> HIDE DEF P, n
    <3> QED BY <1>1, <2>1, <2>2, <3>1, StepByStep
  <2>4. Told(n) /\ Behind(n)
    <3>1. n \in P
      <4> HIDE DEF P
      <4> QED BY <1>1, <2>3
    <3> HIDE DEF Told, Behind
    <3> QED BY <3>1
  <2>5. end.error \/ end.negate
    <3> HIDE DEF F, n, whole
    <3> QED BY <1>4, <1>6, <1>8 DEF Reading
  <2>6. CASE end.error
    <3> HIDE DEF F
    <3> QED BY <2>4, <2>6
  <2>7. CASE end.negate /\ ~end.error
    <3>1. n > 0 /\ words[n].tok = "not"
      <4> HIDE DEF F
      <4> QED BY <2>4, <2>7
    <3>2. n \in DOMAIN words
      BY <1>1, <3>1
    <3> QED BY <3>1, <3>2 DEF Unreadable
  <2> QED BY <2>5, <2>6, <2>7
<1> QED BY <1>6, <1>7, <1>8

-----------------------------------------------------------------------------
(* The invariant.  First what the variables hold, and that what is there   *)
(* has a directory above it.                                               *)
Names == UNION {ToSet(p) : p \in Places}
Letters == UNION {ToSet(name) : name \in Names}
Letter == Letters \cup {"/"}
Stats == {Gone} \cup Metas \cup {l[p] : l \in FindLands, p \in Places}
Tree == \A p \in Places : There(p) /\ Len(p) > 1 => land[Front(p)].kind = "d"
Kinds == \A p \in Places : land[p] = Gone \/ land[p].kind \in {"f", "d", "l"}
Meant == IF job.tool = "sfind" THEN Expression(job.tokens) ELSE Fresh
ModeOf(step) ==
  IF step = "walk" THEN {"walk"}
  ELSE IF step \in {"scan", "write"} THEN {"scan"}
  ELSE IF step \in {"search", "read"} THEN {"search"} ELSE {"walk", "scan", "search"}
LandIs == land \in [Places -> Stats] /\ Kinds /\ Tree
Deeds == [path : Places, meta : Stats]
FindTypes ==
  /\ job \in FindJobs \cup LaterJobs
  /\ LandIs
  /\ todo \in Seq(Places) /\ inHand \in Seq(Places)
  /\ acts \in Seq(Deeds)
  /\ index \in [lines : Seq(Places), whole : BOOLEAN]
  /\ quiet \in BOOLEAN
  /\ findStep \in {"parse", "refused", "walk", "scan", "write", "search", "read", "done", "error"}
  /\ job.mode \in ModeOf(findStep)
  /\ findStep \in {"parse", "refused", "search"} => acts = <<>>
  /\ findStep \notin {"parse", "refused", "error"} => pred = Meant /\ ~pred.error
  /\ findStep = "refused" => Meant.error

(* A walk.  What is to be walked is below a root and not too deep, and in  *)
(* peace no two are on one path, nor is what was acted upon.  All that can *)
(* be reached is still to come, below what is to be walked, or settled.    *)
Rooted(p) == \E i \in DOMAIN job.roots : IsPrefix(job.roots[i], p)
Within(p) == \A n \in pred.max : Depth(p) <= n
Apart ==
  /\ IsInjective(todo) /\ \A p, q \in ToSet(todo) : IsPrefix(p, q) => p = q
  /\ \A p \in ToSet(todo), a \in Acted : ~IsPrefix(p, a)
  /\ \A i, j \in DOMAIN acts : acts[i].path = acts[j].path => i = j
Waits(p) == \E q \in ToSet(todo) : IsPrefix(q, p)
Settled(p) ==
  /\ \A meta \in Stats : meta = land[p] /\ Reached(p) /\ Asked(p, meta) => p \in Acted
  /\ pred.action = "delete" /\ p \in Acted => land[p].kind = "d"
WalkIsRight ==
  job.mode = "walk" /\ findStep \in {"walk", "done"} =>
    /\ \A q \in ToSet(todo) : Rooted(q) /\ Within(q)
    /\ \A deed \in ToSet(acts) : Reached(deed.path) /\ (Stable => Asked(deed.path, deed.meta))
    /\ quiet => Apart
    /\ quiet /\ Stable =>
         \A p \in Places : There(p) /\ Rooted(p) /\ Within(p) => Waits(p) \/ Settled(p)
    /\ findStep = "done" => todo = <<>>

(* A scan.  What is below a directory, with nothing to skip in between.    *)
Seen(q, p) ==
  /\ Len(q) < Len(p) /\ IsPrefix(q, p) /\ Depth(p) - 1 <= DepthLimit
  /\ \A k \in Len(q) + 1 .. Len(p) - 1 : p[k] \notin job.skip
Entered(q) ==
  \E i \in DOMAIN job.roots : /\ IsPrefix(job.roots[i], q)
                              /\ \A k \in Len(job.roots[i]) + 1 .. Len(q) : q[k] \notin job.skip
Whole == {p \in Places : There(p) /\ Scanned(p)}
ScanIsRight ==
  /\ findStep = "scan" /\ quiet =>
       /\ ToSet(inHand) \subseteq Whole
       /\ \A p \in Whole : p \in ToSet(inHand) \/ \E q \in ToSet(todo) : Seen(q, p)
       /\ \A q \in ToSet(todo) : Entered(q)
  /\ findStep = "write" /\ quiet => ToSet(inHand) = Whole
  /\ findStep = "done" /\ job.mode = "scan" /\ quiet => index.whole /\ Listed = Whole

(* A search.  What it should give is what Wanted says, of what is there.   *)
Existing == job.tool = "sfind" \/ job.existing
Desired ==
  {p \in Places : /\ IF Starred THEN IsGlobOf(job.pat, Subject(p), TRUE)
                     ELSE HasPart(Subject(p), Spelled)
                  /\ job.tool = "sfind" => \A meta \in Stats : meta = land[p] => Asked(p, meta)
                  /\ Existing => There(p)}
SearchIsRight ==
  job.mode = "search" /\ findStep \in {"read", "done"} =>
    /\ ToSet(inHand) \subseteq Listed /\ Acted \subseteq Listed
    /\ \A deed \in ToSet(acts) : Existing => deed.meta # Gone
    /\ \A n \in job.limit : Len(acts) <= IF n = 0 THEN 1 ELSE n
    /\ quiet /\ pred.action # "delete" =>
         /\ Acted \subseteq Desired
         /\ \A p \in Listed \cap Desired : p \in Acted \cup ToSet(inHand) \/ Bracketed(p)
    /\ findStep = "done" => inHand = <<>> \/ Full

FindInv == FindTypes /\ WalkIsRight /\ ScanIsRight /\ SearchIsRight

-----------------------------------------------------------------------------
(* What is known of a path, its name and its text.                         *)
LEMMA PlaceIs ==
  ASSUME NEW p \in Places
  PROVE  /\ p \in Seq(Names) /\ Len(p) \in Nat /\ Len(p) > 0
         /\ Len(p) > 1 => Front(p) \in Places
         /\ \A i \in 1 .. Len(p) : p[i] \in Seq(Letters)
<1>1. /\ p \in Seq(ToSet(p)) /\ Len(p) > 0
      /\ Len(p) > 1 => Front(p) \in Places
      /\ \A i \in DOMAIN p : p[i] \in Seq(ToSet(p[i]))
  BY FindAssumption DEF FindAssumption
<1>2. Len(p) \in Nat /\ DOMAIN p = 1 .. Len(p)
  BY <1>1
<1>3. \A i \in 1 .. Len(p) : p[i] \in Names
  BY <1>2 DEF Names, ToSet
<1>4. p \in Seq(Names)
  <2>1. ToSet(p) \subseteq Names
    BY DEF Names
  <2> QED BY <1>1, <2>1
<1>5. ASSUME NEW i \in 1 .. Len(p) PROVE p[i] \in Seq(Letters)
  <2>1. p[i] \in Seq(ToSet(p[i]))
    BY <1>1, <1>2
  <2>2. ToSet(p[i]) \subseteq Letters
    BY <1>3 DEF Letters
  <2> QED BY <2>1, <2>2
<1> QED BY <1>1, <1>2, <1>4, <1>5

LEMMA AboveIs ==
  ASSUME NEW p \in Places, Len(p) > 1
  PROVE  /\ Front(p) \in Places /\ Len(Front(p)) = Len(p) - 1 /\ IsPrefix(Front(p), p)
         /\ Under(p, Front(p))
<1>1. p \in Seq(Names) /\ Len(p) \in Nat /\ Front(p) \in Places
  BY PlaceIs
<1>2. Front(p) = SubSeq(p, 1, Len(p) - 1) /\ Len(p) - 1 \in 0 .. Len(p)
  BY <1>1 DEF Front
<1>3. Len(Front(p)) = Len(p) - 1 /\ IsPrefix(Front(p), p)
  BY <1>1, <1>2, PartOf
<1> QED BY <1>1, <1>3 DEF Under

LEMMA UnderIs ==
  ASSUME NEW p \in Places, NEW q \in Places, Under(p, q)
  PROVE  Front(p) = q /\ Len(p) > 1
<1>1. /\ p \in Seq(Names) /\ q \in Seq(Names) /\ Len(p) \in Nat /\ Len(q) \in Nat /\ Len(q) > 0
      /\ Len(p) = Len(q) + 1 /\ IsPrefix(q, p)
  BY PlaceIs DEF Under
<1>2. /\ Front(p) \in Places /\ Len(Front(p)) = Len(q) /\ IsPrefix(Front(p), p)
      /\ Front(p) \in Seq(Names)
  BY <1>1, AboveIs, PlaceIs
<1>3. IsPrefix(Front(p), q)
  BY <1>1, <1>2, PrefixOrder
<1>4. Front(p) = q
  BY <1>1, <1>2, <1>3, PrefixOrder
<1> QED BY <1>1, <1>4

LEMMA NameIs ==
  ASSUME NEW p \in Places
  PROVE  FileName(p) = p[Len(p)] /\ FileName(p) \in Seq(Letter)
<1>1. p \in Seq(Names) /\ Len(p) \in Nat /\ Len(p) > 0 /\ p[Len(p)] \in Seq(Letters)
  BY PlaceIs
<1> QED BY <1>1 DEF FileName, Last, Letter

LEMMA Flattened ==
  ASSUME NEW S, NEW seqs \in Seq(Seq(S))
  PROVE  FlattenSeq(seqs) \in Seq(S)
<1> DEFINE n == Len(seqs)
<1>1. n \in Nat /\ DOMAIN seqs = 1 .. n /\ \A i \in 1 .. n : seqs[i] \in Seq(S)
  OBVIOUS
<1>2. CASE n = 0
  <2>1. seqs = <<>>
    BY <1>2
  <2> QED BY <1>2, <2>1 DEF FlattenSeq
<1>3. CASE n # 0
  <2> DEFINE IsFlat(f) == f = [i \in 1 .. n |-> IF i = 1 THEN seqs[i] ELSE f[i - 1] \o seqs[i]]
             F == CHOOSE f : IsFlat(f)
             H == [x \in (1 .. n) \X Seq(S) |-> x[2] \o seqs[x[1]]]
             P == {k \in 0 .. n : k = 0 \/ F[k] \in Seq(S)}
  <2>1. FlattenSeq(seqs) = F[n]
    <3>1. Len(seqs) # 0
      BY <1>3
    <3> QED BY <3>1, Zenon DEF FlattenSeq
  <2>2. IsFlat(F)
    <3>1. \A k \in 1 .. n, v \in Seq(S) : H[<<k, v>>] = v \o seqs[k] /\ v \o seqs[k] \in Seq(S)
      <4>1. ASSUME NEW k \in 1 .. n, NEW v \in Seq(S)
            PROVE  H[<<k, v>>] = v \o seqs[k] /\ v \o seqs[k] \in Seq(S)
        <5>1. <<k, v>> \in (1 .. n) \X Seq(S) /\ seqs[k] \in Seq(S)
          BY <1>1
        <5> HIDE DEF n
        <5> QED BY <5>1
      <4> HIDE DEF H, n
      <4> QED BY <4>1
    <3>2. <<>> \in Seq(S)
      OBVIOUS
    <3>3. PICK g \in [0 .. n -> Seq(S)] : Recurs(g, n, <<>>, H)
      <4>1. \A k \in 1 .. n, v \in Seq(S) : H[<<k, v>>] \in Seq(S)
        <5> HIDE DEF n, H
        <5> QED BY <3>1
      <4> HIDE DEF H, n
      <4> QED BY <1>1, <3>2, <4>1, RecursionExists
    <3> DEFINE f == [i \in 1 .. n |-> g[i]]
    <3>4. \A i \in 1 .. n : g[i] = g[i - 1] \o seqs[i] /\ g[i - 1] \in Seq(S)
      <4>1. g = [k \in 0 .. n |-> IF k = 0 THEN <<>> ELSE H[<<k, g[k - 1]>>]]
        BY <3>3 DEF Recurs
      <4>2. \A i \in 1 .. n : i \in 0 .. n /\ i # 0 /\ i - 1 \in 0 .. n
        BY <1>1
      <4>3. \A i \in 1 .. n : g[i] = H[<<i, g[i - 1]>>] /\ g[i - 1] \in Seq(S)
        <5> HIDE DEF H, n
        <5> QED BY <4>1, <4>2
      <4> HIDE DEF H, n
      <4> QED BY <3>1, <4>3
    <3>5. g[0] = <<>>
      <4>1. 0 \in 0 .. n
        BY <1>1
      <4> HIDE DEF H, n
      <4> QED BY <3>3, <4>1 DEF Recurs
    <3>6. ASSUME NEW i \in 1 .. n
          PROVE  f[i] = IF i = 1 THEN seqs[i] ELSE f[i - 1] \o seqs[i]
      <4>1. CASE i = 1
        <5>1. g[1] = g[1 - 1] \o seqs[1] /\ seqs[1] \in Seq(S) /\ 1 - 1 = 0
          BY <1>1, <3>4, <4>1
        <5>2. <<>> \o seqs[1] = seqs[1]
          BY <5>1
        <5> HIDE DEF n
        <5> QED BY <3>5, <4>1, <5>1, <5>2
      <4>2. CASE i # 1
        <5>1. i - 1 \in 1 .. n
          BY <1>1, <4>2
        <5> HIDE DEF n
        <5> QED BY <3>4, <4>2, <5>1
      <4> QED BY <4>1, <4>2
    <3>7. IsFlat(f)
      <4>1. f = [i \in 1 .. n |-> f[i]]
        OBVIOUS
      <4> HIDE DEF f, n
      <4> QED BY <3>6, <4>1
    <3> HIDE DEF IsFlat
    <3> QED BY <3>7
  <2>3. F[1] = seqs[1] /\ \A i \in 1 .. n : i # 1 => F[i] = F[i - 1] \o seqs[i]
    <3>1. 1 \in 1 .. n
      BY <1>1, <1>3
    <3> HIDE DEF F, n
    <3> QED BY <2>2, <3>1
  <2>4. 0 \in P /\ \A k \in 1 .. n : k - 1 \in P => k \in P
    <3>1. 0 \in P
      BY <1>1
    <3>2. ASSUME NEW k \in 1 .. n, k - 1 \in P PROVE k \in P
      <4>1. k \in 0 .. n /\ (k - 1 = 0 <=> k = 1) /\ seqs[k] \in Seq(S)
        BY <1>1
      <4>2. F[k] \in Seq(S)
        <5>1. CASE k = 1
          <6> HIDE DEF F
          <6> QED BY <2>3, <4>1, <5>1
        <5>2. CASE k # 1
          <6>1. F[k - 1] \in Seq(S)
            <7> HIDE DEF F
            <7> QED BY <3>2, <4>1, <5>2
          <6>2. F[k] = F[k - 1] \o seqs[k]
            <7> HIDE DEF F
            <7> QED BY <2>3, <5>2
          <6> HIDE DEF F
          <6> QED BY <4>1, <6>1, <6>2
        <5> QED BY <5>1, <5>2
      <4> HIDE DEF F, n
      <4> QED BY <4>1, <4>2
    <3> HIDE DEF P
    <3> QED BY <3>1, <3>2
  <2>5. P = 0 .. n
    <3>1. P \in SUBSET (0 .. n)
      OBVIOUS
    <3> HIDE DEF P, n
    <3> QED BY <1>1, <2>4, <3>1, StepByStep
  <2>6. n \in P
    <3> HIDE DEF P
    <3> QED BY <1>1, <2>5
  <2> HIDE DEF F
  <2> QED BY <1>3, <2>1, <2>6
<1> QED BY <1>2, <1>3

LEMMA TextIs ==
  ASSUME NEW p \in Places
  PROVE  Text(p) \in Seq(Letter)
<1> DEFINE parts == [i \in DOMAIN p |-> IF i = 1 THEN p[i] ELSE <<"/">> \o p[i]]
<1>1. p \in Seq(Names) /\ Len(p) \in Nat /\ DOMAIN p = 1 .. Len(p)
  BY PlaceIs
<1>2. ASSUME NEW i \in 1 .. Len(p) PROVE parts[i] \in Seq(Letter)
  <2>1. p[i] \in Seq(Letter)
    <3>1. p[i] \in Seq(Letters)
      BY PlaceIs
    <3> QED BY <3>1 DEF Letter
  <2>2. <<"/">> \in Seq(Letter)
    BY DEF Letter
  <2>3. <<"/">> \o p[i] \in Seq(Letter)
    BY <2>1, <2>2
  <2> QED BY <1>1, <2>1, <2>3
<1>3. parts \in Seq(Seq(Letter))
  <2>1. parts \in [1 .. Len(p) -> Seq(Letter)]
    BY <1>1, <1>2
  <2> HIDE DEF parts
  <2> QED BY <1>1, <2>1
<1>4. FlattenSeq(parts) \in Seq(Letter)
  <2> HIDE DEF parts
  <2> QED BY <1>3, Flattened
<1> QED BY <1>4 DEF Text

-----------------------------------------------------------------------------
(* SortedBy gives all of a set, each once: for every number there is one   *)
(* that has so many before it.                                             *)
AtMost(paths, order, p) == {q \in paths : order[q] <= order[p]}

LEMMA MoreBefore ==
  ASSUME NEW paths \in SUBSET Places, NEW order \in {ByName, ByText},
         NEW p \in paths, NEW q \in paths, p # q
  PROVE  Cardinality(AtMost(paths, order, p)) # Cardinality(AtMost(paths, order, q))
<1>1. /\ IsFiniteSet(Places) /\ order \in [Places -> Nat] /\ IsInjective(order)
  BY FindAssumption DEF FindAssumption
<1>2. order[p] # order[q] /\ \A r \in paths : order[r] \in Nat
  BY <1>1 DEF IsInjective
<1>3. ASSUME NEW a \in paths, NEW b \in paths, order[a] < order[b]
      PROVE  Cardinality(AtMost(paths, order, a)) # Cardinality(AtMost(paths, order, b))
  <2>1. /\ AtMost(paths, order, b) \in SUBSET Places
        /\ AtMost(paths, order, a) \in SUBSET AtMost(paths, order, b)
    BY <1>2, <1>3 DEF AtMost
  <2>2. b \in AtMost(paths, order, b) /\ b \notin AtMost(paths, order, a)
    BY <1>2, <1>3 DEF AtMost
  <2>3. IsFiniteSet(AtMost(paths, order, b))
    BY <1>1, <2>1, FS_Subset
  <2> QED BY <2>1, <2>2, <2>3, FS_Subset
<1>4. order[p] \in Nat /\ order[q] \in Nat
  BY <1>2
<1>5. order[p] < order[q] \/ order[q] < order[p]
  BY <1>2, <1>4
<1> QED BY <1>3, <1>5

LEMMA SortedIs ==
  ASSUME NEW paths \in SUBSET Places, NEW order \in {ByName, ByText}
  PROVE  /\ SortedBy(paths, order) \in Seq(Places)
         /\ ToSet(SortedBy(paths, order)) = paths
         /\ IsInjective(SortedBy(paths, order))
<1> DEFINE N == Cardinality(paths)
           f == [p \in paths |-> Cardinality(AtMost(paths, order, p))]
           list == SortedBy(paths, order)
<1>1. IsFiniteSet(paths) /\ N \in Nat
  <2>1. IsFiniteSet(Places)
    BY FindAssumption DEF FindAssumption
  <2> QED BY <2>1, FS_Subset, FS_CardinalityType
<1>2. \A p \in paths : Cardinality(AtMost(paths, order, p)) \in 1 .. N
  <2> SUFFICES ASSUME NEW p \in paths PROVE Cardinality(AtMost(paths, order, p)) \in 1 .. N
    OBVIOUS
  <2> DEFINE A == AtMost(paths, order, p)
  <2>1. order[p] <= order[p]
    <3>1. order \in [Places -> Nat]
      BY FindAssumption DEF FindAssumption
    <3> QED BY <3>1
  <2>2. A \in SUBSET paths /\ p \in A
    BY <2>1 DEF AtMost
  <2> HIDE DEF A
  <2>3. IsFiniteSet(A) /\ Cardinality(A) <= N
    BY <1>1, <2>2, FS_Subset
  <2>4. Cardinality(A) \in Nat /\ Cardinality(A) # 0
    BY <2>2, <2>3, FS_CardinalityType, FS_EmptySet
  <2>5. Cardinality(A) \in 1 .. N
    <3> HIDE DEF N
    <3> QED BY <1>1, <2>3, <2>4
  <2> QED BY <2>5 DEF A
<1>3. f \in [paths -> 1 .. N]
  <2> HIDE DEF N
  <2> QED BY <1>2
<1>4. f \in Injection(paths, 1 .. N)
  <2>1. \A p, q \in paths : f[p] = f[q] => p = q
    BY MoreBefore
  <2> HIDE DEF f, N
  <2> QED BY <1>3, <2>1 DEF Injection, IsInjective
<1>5. IsFiniteSet(1 .. N) /\ Cardinality(1 .. N) = N
  <2> HIDE DEF N
  <2> QED BY <1>1, FS_Interval
<1>6. f \in Surjection(paths, 1 .. N)
  <2> HIDE DEF f
  <2> QED BY <1>4, <1>5, FS_Injection
<1>7. ASSUME NEW n \in 1 .. N
      PROVE  list[n] \in paths /\ Cardinality(AtMost(paths, order, list[n])) = n
  <2>1. PICK p \in paths : f[p] = n
    <3> HIDE DEF f, N
    <3> QED BY <1>6 DEF Surjection
  <2>2. Cardinality({q \in paths : order[q] <= order[p]}) = n
    BY <2>1 DEF AtMost
  <2>3. list[n] = CHOOSE r \in paths : Cardinality({q \in paths : order[q] <= order[r]}) = n
    BY DEF SortedBy
  <2>4. /\ list[n] \in paths
        /\ Cardinality({q \in paths : order[q] <= order[list[n]]}) = n
    <3> HIDE DEF list, N
    <3> QED BY <2>2, <2>3
  <2> QED BY <2>4 DEF AtMost
<1>8. DOMAIN list = 1 .. N /\ list \in [1 .. N -> paths]
  <2> DEFINE At(n) == CHOOSE p \in paths : Cardinality({q \in paths : order[q] <= order[p]}) = n
  <2>1. list = [n \in 1 .. N |-> At(n)]
    BY DEF SortedBy
  <2> HIDE DEF list, N, At
  <2> QED BY <1>7, <2>1
<1>9. list \in Seq(Places)
  <2> HIDE DEF list, N
  <2> QED BY <1>1, <1>8
<1>10. ToSet(list) = paths
  <2>1. ASSUME NEW p \in paths PROVE \E n \in 1 .. N : list[n] = p
    <3> DEFINE n == Cardinality(AtMost(paths, order, p))
    <3>1. n \in 1 .. N
      BY <1>2
    <3>2. list[n] \in paths /\ Cardinality(AtMost(paths, order, list[n])) = n
      <4> HIDE DEF n, list, N
      <4> QED BY <1>7, <3>1
    <3>3. list[n] = p
      <4> HIDE DEF list
      <4> QED BY <3>2, MoreBefore
    <3> HIDE DEF n, list, N
    <3> QED BY <3>1, <3>3
  <2> HIDE DEF list, N
  <2> QED BY <1>8, <2>1 DEF ToSet
<1>11. IsInjective(list)
  <2> HIDE DEF list, N
  <2> QED BY <1>7, <1>8 DEF IsInjective
<1> QED BY <1>9, <1>10, <1>11

-----------------------------------------------------------------------------
(* The parsed expression holds for a file exactly when the words ask for   *)
(* it, and what was parsed has limits that are numbers.                    *)
LEMMA GlobIs ==
  ASSUME NEW S, NEW text \in Seq(S), NEW pat, IsPattern(pat), NEW sep
  PROVE  GlobMatch(pat, text, sep) = IsGlobOf(pat, text, sep)
<1>1. pat \in Seq(ToSet(pat)) /\ \A i \in DOMAIN pat : pat[i].wild \in {"star", "one", "in"}
  BY DEF IsPattern
<1>2. GlobMatch(pat, text, sep) <=> IsGlobOf(pat, text, sep)
  <2> DEFINE Q == ToSet(pat)
  <2>1. pat \in Seq(Q)
    BY <1>1
  <2> HIDE DEF Q
  <2> QED BY <1>1, <2>1, GlobDecides
<1>3. GlobMatch(pat, text, sep) \in BOOLEAN
  BY DEF GlobMatch
<1>4. IsGlobOf(pat, text, sep) \in BOOLEAN
  BY Zenon DEF IsGlobOf
<1> QED BY <1>2, <1>3, <1>4

LEMMA HoldsIs ==
  ASSUME NEW t, IsWord(t), NEW p \in Places, NEW meta
  PROVE  Holds(t, p, meta) = IF t.tok = "name" THEN IsGlobOf(t.pat, FileName(p), FALSE)
                             ELSE IF t.tok = "path" THEN IsGlobOf(t.pat, Text(p), TRUE)
                             ELSE Holds(t, p, meta)
<1>1. CASE t.tok = "name"
  <2>1. Holds(t, p, meta) = GlobMatch(t.pat, FileName(p), FALSE)
    BY <1>1 DEF Holds
  <2>2. GlobMatch(t.pat, FileName(p), FALSE) = IsGlobOf(t.pat, FileName(p), FALSE)
    BY <1>1, NameIs, GlobIs DEF IsWord
  <2> QED BY <1>1, <2>1, <2>2
<1>2. CASE t.tok = "path"
  <2>1. Holds(t, p, meta) = GlobMatch(t.pat, Text(p), TRUE)
    BY <1>2 DEF Holds
  <2>2. GlobMatch(t.pat, Text(p), TRUE) = IsGlobOf(t.pat, Text(p), TRUE)
    BY <1>2, TextIs, GlobIs DEF IsWord
  <2> QED BY <1>2, <2>1, <2>2
<1> QED BY <1>1, <1>2

LEMMA MeantIs ==
  ASSUME IsCommand(job)
  PROVE  /\ Meant.min \in SUBSET Nat /\ Meant.max \in SUBSET Nat
         /\ Meant.action \in {"print", "delete"}
<1>1. CASE job.tool = "sfind"
  <2>1. Meant = Expression(job.tokens)
    BY <1>1 DEF Meant
  <2>2. job.tokens \in Seq(ToSet(job.tokens)) /\ \A i \in DOMAIN job.tokens : IsWord(job.tokens[i])
    BY DEF IsCommand
  <2>3. Expression(job.tokens) \in Reading(job.tokens)
    <3> DEFINE W == ToSet(job.tokens)
    <3>1. job.tokens \in Seq(W)
      BY <2>2
    <3> HIDE DEF W
    <3> QED BY <2>2, <3>1, ExpressionReads
  <2> QED BY <2>1, <2>3 DEF Reading
<1>2. CASE job.tool # "sfind"
  BY <1>2 DEF Meant, Fresh
<1> QED BY <1>1, <1>2

LEMMA EvalIsAsked ==
  ASSUME IsCommand(job), job.tool = "sfind", pred = Meant, ~pred.error,
         NEW p \in Places, NEW meta
  PROVE  Eval(p, meta) <=> Asked(p, meta)
<1> DEFINE words == job.tokens
           W == ToSet(words)
           good == {c \in Checks(words) : Holds(c.test, p, meta) = c.holds}
           n == Len(words)
<1>1. words \in Seq(W) /\ (\A i \in DOMAIN words : IsWord(words[i])) /\ pred = Expression(words)
  BY DEF IsCommand, Meant
<1>2. n \in Nat /\ DOMAIN words = 1 .. n
  <2> HIDE DEF words, W
  <2> QED BY <1>1
<1>3. /\ pred \in Reading(words)
      /\ AnyGood(pred.any, good) <=> \E b, e \in Limits(words) : Alternative(words, good, b, e)
  <2> HIDE DEF words, W, good
  <2> QED BY <1>1, ExpressionReads
<1>4. Eval(p, meta) <=> AnyGood(pred.any, good)
  <2>1. pred.any \in Seq(Seq(Checks(words)))
    <3> HIDE DEF words
    <3> QED BY <1>3 DEF Reading
  <2>2. \A i \in DOMAIN pred.any : \A j \in DOMAIN pred.any[i] : pred.any[i][j] \in Checks(words)
    <3> SUFFICES ASSUME NEW i \in DOMAIN pred.any, NEW j \in DOMAIN pred.any[i]
                 PROVE  pred.any[i][j] \in Checks(words)
      OBVIOUS
    <3>1. pred.any[i] \in Seq(Checks(words))
      BY <2>1
    <3> QED BY <3>1
  <2> HIDE DEF words
  <2> QED BY <2>2 DEF Eval, AnyGood, AllGood
<1>5. ASSUME NEW k \in 1 .. n
      PROVE  Wants(k, p, meta) <=> Check(words, k) \in good
  <2> DEFINE t == words[k]
             asked == ~(k > 1 /\ words[k - 1].tok = "not")
  <2>1. IsWord(t)
    <3> HIDE DEF words
    <3> QED BY <1>1, <1>2
  <2> DEFINE wanted == IF t.tok = "name" THEN IsGlobOf(t.pat, FileName(p), FALSE)
                       ELSE IF t.tok = "path" THEN IsGlobOf(t.pat, Text(p), TRUE)
                       ELSE Holds(t, p, meta)
  <2>2. Wants(k, p, meta) <=> Holds(t, p, meta) = asked
    <3>1. Wants(k, p, meta) <=> wanted = asked
      BY Zenon DEF Wants, Words
    <3>2. Holds(t, p, meta) = wanted
      <4> HIDE DEF t
      <4> QED BY <2>1, HoldsIs
    <3> HIDE DEF t, asked, wanted
    <3> QED BY <3>1, <3>2
  <2>3. Check(words, k) = [test |-> t, holds |-> asked] /\ Check(words, k) \in Checks(words)
    <3>1. asked \in BOOLEAN
      OBVIOUS
    <3>2. Check(words, k) = [test |-> t, holds |-> asked]
      BY DEF Check
    <3> HIDE DEF words, asked
    <3> QED BY <1>2, <3>1, <3>2 DEF Checks
  <2>4. Check(words, k).test = t /\ Check(words, k).holds = asked
    <3> HIDE DEF t, asked, words
    <3> QED BY <2>3
  <2>5. Check(words, k) \in good <=> Holds(t, p, meta) = asked
    <3> HIDE DEF t, asked, words
    <3> QED BY <2>3, <2>4
  <2> QED BY <2>2, <2>5
<1>6. Bars = Limits(words)
  BY DEF Bars, Limits, Words
<1>7. ASSUME NEW b \in Limits(words), NEW e \in Limits(words)
      PROVE  (/\ b < e /\ \A k \in b + 1 .. e - 1 : k \notin Bars
              /\ \A k \in b + 1 .. e - 1 : IsTest(k) => Wants(k, p, meta))
               <=> Alternative(words, good, b, e)
  <2>1. \A k \in b + 1 .. e - 1 : k \in 1 .. n
    <3> HIDE DEF words
    <3> QED BY <1>2 DEF Limits
  <2>2. \A k \in 1 .. n : IsTest(k) <=> words[k].tok \notin Operators
    BY DEF IsTest, Operators, Words
  <2>3. \A k \in 1 .. n : Wants(k, p, meta) <=> Check(words, k) \in good
    <3> HIDE DEF good, words
    <3> QED BY <1>5
  <2> HIDE DEF good, words
  <2> QED BY <1>6, <2>1, <2>2, <2>3 DEF Alternative, NoBar, MetIn
<1>8. Asked(p, meta) <=> \E b, e \in Limits(words) : Alternative(words, good, b, e)
  <2> HIDE DEF good, words
  <2> QED BY <1>6, <1>7 DEF Asked
<1> QED BY <1>3, <1>4, <1>8

-----------------------------------------------------------------------------
(* Queues and lists.                                                       *)
LEMMA JoinIs ==
  ASSUME NEW S, NEW a \in Seq(S), NEW b \in Seq(S)
  PROVE  /\ a \o b \in Seq(S)
         /\ ToSet(a \o b) = ToSet(a) \cup ToSet(b)
         /\ IsInjective(a) /\ IsInjective(b) /\ ToSet(a) \cap ToSet(b) = {} => IsInjective(a \o b)
<1> DEFINE m == Len(a)
           n == Len(b)
           c == a \o b
<1>1. /\ m \in Nat /\ n \in Nat /\ DOMAIN a = 1 .. m /\ DOMAIN b = 1 .. n
      /\ c \in Seq(S) /\ DOMAIN c = 1 .. m + n
      /\ \A i \in 1 .. m : c[i] = a[i]
      /\ \A i \in 1 .. n : c[m + i] = b[i]
  OBVIOUS
<1> HIDE DEF m, n, c
<1>2. /\ \A i \in 1 .. m + n : i \in 1 .. m \/ (i - m \in 1 .. n /\ m + (i - m) = i)
      /\ \A i \in 1 .. m : i \in 1 .. m + n
      /\ \A i \in 1 .. n : m + i \in 1 .. m + n
  BY <1>1
<1>3. \A i \in 1 .. m + n : (i \in 1 .. m /\ c[i] = a[i]) \/ (i - m \in 1 .. n /\ c[i] = b[i - m])
  BY <1>1, <1>2
<1>4. ToSet(c) = ToSet(a) \cup ToSet(b)
  <2>1. ASSUME NEW x \in ToSet(c) PROVE x \in ToSet(a) \cup ToSet(b)
    BY <1>1, <1>3 DEF ToSet
  <2>2. ASSUME NEW x \in ToSet(a) PROVE x \in ToSet(c)
    BY <1>1, <1>2 DEF ToSet
  <2>3. ASSUME NEW x \in ToSet(b) PROVE x \in ToSet(c)
    BY <1>1, <1>2 DEF ToSet
  <2> QED BY <2>1, <2>2, <2>3
<1>5. ASSUME IsInjective(a), IsInjective(b), ToSet(a) \cap ToSet(b) = {}
      PROVE  IsInjective(c)
  <2>1. SUFFICES ASSUME NEW i \in 1 .. m + n, NEW j \in 1 .. m + n, c[i] = c[j] PROVE i = j
    BY <1>1 DEF IsInjective
  <2>2. \A x \in 1 .. m, y \in 1 .. n : a[x] # b[y]
    BY <1>1, <1>5 DEF ToSet
  <2>3. CASE i \in 1 .. m /\ j \in 1 .. m
    BY <1>1, <1>5, <2>1, <2>3 DEF IsInjective
  <2>4. CASE i - m \in 1 .. n /\ j - m \in 1 .. n /\ c[i] = b[i - m] /\ c[j] = b[j - m]
    <3>1. i - m = j - m
      BY <1>1, <1>5, <2>1, <2>4 DEF IsInjective
    <3> QED BY <1>1, <3>1
  <2> QED BY <1>3, <2>1, <2>2, <2>3, <2>4
<1> QED BY <1>1, <1>4, <1>5 DEF c

LEMMA RestIs ==
  ASSUME NEW S, NEW s \in Seq(S), s # <<>>
  PROVE  /\ Head(s) \in S /\ Tail(s) \in Seq(S)
         /\ ToSet(s) = {Head(s)} \cup ToSet(Tail(s))
         /\ IsInjective(s) => IsInjective(Tail(s)) /\ Head(s) \notin ToSet(Tail(s))
<1> DEFINE n == Len(s)
           t == Tail(s)
<1>1. /\ n \in Nat /\ n > 0 /\ DOMAIN s = 1 .. n /\ Head(s) = s[1] /\ Head(s) \in S
      /\ t \in Seq(S) /\ DOMAIN t = 1 .. n - 1
      /\ \A i \in 1 .. n - 1 : t[i] = s[i + 1]
  OBVIOUS
<1> HIDE DEF n, t
<1>2. /\ \A i \in 1 .. n : i = 1 \/ (i - 1 \in 1 .. n - 1 /\ (i - 1) + 1 = i)
      /\ \A i \in 1 .. n - 1 : i + 1 \in 1 .. n /\ i + 1 # 1
      /\ 1 \in 1 .. n
  BY <1>1
<1>3. ToSet(s) = {s[1]} \cup ToSet(t)
  <2>1. ASSUME NEW x \in ToSet(s) PROVE x \in {s[1]} \cup ToSet(t)
    <3>1. PICK i \in 1 .. n : x = s[i]
      BY <1>1 DEF ToSet
    <3>2. i # 1 => x = t[i - 1]
      BY <1>1, <1>2, <3>1
    <3> QED BY <1>1, <1>2, <3>1, <3>2 DEF ToSet
  <2>2. ToSet(t) \subseteq ToSet(s) /\ s[1] \in ToSet(s)
    BY <1>1, <1>2 DEF ToSet
  <2> QED BY <2>1, <2>2
<1>4. ASSUME IsInjective(s) PROVE IsInjective(t) /\ s[1] \notin ToSet(t)
  <2>1. IsInjective(t)
    <3>1. SUFFICES ASSUME NEW i \in 1 .. n - 1, NEW j \in 1 .. n - 1, t[i] = t[j] PROVE i = j
      BY <1>1 DEF IsInjective
    <3>2. i + 1 = j + 1
      BY <1>1, <1>2, <1>4, <3>1 DEF IsInjective
    <3> QED BY <3>2
  <2>2. s[1] \notin ToSet(t)
    BY <1>1, <1>2, <1>4 DEF IsInjective, ToSet
  <2> QED BY <2>1, <2>2
<1> QED BY <1>1, <1>3, <1>4 DEF t

LEMMA AppendIs ==
  ASSUME NEW S, NEW s \in Seq(S), NEW e \in S
  PROVE  /\ Append(s, e) \in Seq(S)
         /\ DOMAIN Append(s, e) = DOMAIN s \cup {Len(s) + 1} /\ Len(s) + 1 \notin DOMAIN s
         /\ \A i \in DOMAIN s : Append(s, e)[i] = s[i]
         /\ Append(s, e)[Len(s) + 1] = e
<1>1. Len(s) \in Nat /\ DOMAIN s = 1 .. Len(s)
  OBVIOUS
<1>2. 1 .. Len(s) + 1 = 1 .. Len(s) \cup {Len(s) + 1} /\ Len(s) + 1 \notin 1 .. Len(s)
  BY <1>1
<1>3. /\ Append(s, e) \in Seq(S) /\ DOMAIN Append(s, e) = 1 .. Len(s) + 1
      /\ \A i \in DOMAIN s : Append(s, e)[i] = s[i]
      /\ Append(s, e)[Len(s) + 1] = e
  OBVIOUS
<1> QED BY <1>1, <1>2, <1>3

LEMMA ToSetIs ==
  /\ ToSet(<<>>) = {} /\ IsInjective(<<>>)
  /\ \A S : \A s \in Seq(S) : ToSet(s) \subseteq S
<1>1. DOMAIN <<>> = {}
  OBVIOUS
<1>2. ASSUME NEW S, NEW s \in Seq(S) PROVE ToSet(s) \subseteq S
  <2>1. \A i \in DOMAIN s : s[i] \in S
    OBVIOUS
  <2> QED BY <2>1 DEF ToSet
<1> QED BY <1>1, <1>2 DEF ToSet, IsInjective

-----------------------------------------------------------------------------
(* What is there has directories above it, and the first of them below a   *)
(* directory is one of its children.                                       *)
LEMMA OnOnePath ==
  ASSUME NEW p \in Places, NEW q \in Places, NEW r \in Places
  PROVE  /\ IsPrefix(p, p)
         /\ IsPrefix(p, q) /\ IsPrefix(q, r) => IsPrefix(p, r)
         /\ IsPrefix(p, q) /\ Len(p) = Len(q) => p = q
         /\ IsPrefix(p, r) /\ IsPrefix(q, r) /\ Len(p) <= Len(q) => IsPrefix(p, q)
         /\ IsPrefix(p, q) => Len(p) <= Len(q) /\ \A i \in 1 .. Len(p) : p[i] = q[i]
         /\ IsPrefix(p, q) /\ p # q => Len(p) < Len(q)
<1>1. p \in Seq(Names) /\ q \in Seq(Names) /\ r \in Seq(Names)
  BY PlaceIs
<1>2. /\ IsPrefix(p, p)
      /\ IsPrefix(p, q) /\ IsPrefix(q, r) => IsPrefix(p, r)
      /\ IsPrefix(p, q) /\ Len(p) = Len(q) => p = q
      /\ IsPrefix(p, r) /\ IsPrefix(q, r) /\ Len(p) <= Len(q) => IsPrefix(p, q)
  BY <1>1, PrefixOrder
<1>3. IsPrefix(p, q) => Len(p) <= Len(q) /\ \A i \in 1 .. Len(p) : p[i] = q[i]
  BY <1>1, PrefixAt
<1>4. IsPrefix(p, q) /\ p # q => Len(p) < Len(q)
  BY <1>1, Strictly
<1> QED BY <1>2, <1>3, <1>4

LEMMA AboveIsDir ==
  ASSUME Tree, NEW p \in Places, There(p), NEW k \in 1 .. Len(p)
  PROVE  /\ SubSeq(p, 1, k) \in Places /\ There(SubSeq(p, 1, k))
         /\ k < Len(p) => land[SubSeq(p, 1, k)].kind = "d"
<1> DEFINE n == Len(p) - 1
           Up(j) == SubSeq(p, 1, Len(p) - j)
           P == {j \in 0 .. n : /\ Up(j) \in Places /\ There(Up(j))
                                /\ j > 0 => land[Up(j)].kind = "d"}
<1>1. p \in Seq(Names) /\ Len(p) \in Nat /\ Len(p) > 0 /\ n \in Nat
  BY PlaceIs
<1>2. 0 \in P
  <2>1. Up(0) = p
    BY <1>1
  <2> HIDE DEF Up
  <2> QED BY <1>1, <2>1
<1>3. ASSUME NEW j \in 1 .. n, j - 1 \in P PROVE j \in P
  <2>1. Up(j - 1) \in Places /\ There(Up(j - 1)) /\ j \in 0 .. n
    <3> HIDE DEF Up
    <3> QED BY <1>1, <1>3
  <2>2. /\ Len(Up(j - 1)) = Len(p) - (j - 1) /\ IsPrefix(Up(j - 1), p)
        /\ Len(Up(j)) = Len(p) - j /\ IsPrefix(Up(j), p) /\ Up(j) \in Seq(Names)
    <3>1. Len(p) - (j - 1) \in 0 .. Len(p) /\ Len(p) - j \in 0 .. Len(p)
      BY <1>1
    <3> QED BY <1>1, <3>1, PartOf
  <2> DEFINE a == Up(j - 1)
             b == Up(j)
  <2> HIDE DEF Up, a, b
  <2>3. /\ a \in Places /\ There(a) /\ Len(a) = Len(p) - (j - 1) /\ IsPrefix(a, p)
        /\ Len(b) = Len(p) - j /\ IsPrefix(b, p) /\ b \in Seq(Names)
    BY <2>1, <2>2 DEF a, b
  <2>4. /\ Len(a) > 1 /\ Front(a) \in Places /\ Len(Front(a)) = Len(p) - j /\ IsPrefix(Front(a), a)
        /\ Front(a) \in Seq(Names) /\ a \in Seq(Names)
    BY <1>1, <2>3, AboveIs, PlaceIs
  <2>5. IsPrefix(Front(a), p)
    BY <1>1, <2>3, <2>4, PrefixOrder
  <2>6. IsPrefix(Front(a), b)
    BY <1>1, <2>3, <2>4, <2>5, PrefixOrder
  <2>7. Front(a) = b
    BY <1>1, <2>3, <2>4, <2>6, PrefixOrder
  <2>8. land[b].kind = "d" /\ There(b)
    BY <2>3, <2>4, <2>7 DEF Tree, There, Gone
  <2> QED BY <2>1, <2>4, <2>7, <2>8 DEF b
<1>4. P = 0 .. n
  <2>1. P \in SUBSET (0 .. n)
    OBVIOUS
  <2> HIDE DEF P, n
  <2> QED BY <1>1, <1>2, <1>3, <2>1, StepByStep
<1>5. Len(p) - k \in P /\ Len(p) - (Len(p) - k) = k
  <2>1. Len(p) - k \in 0 .. n /\ Len(p) - (Len(p) - k) = k
    BY <1>1
  <2> HIDE DEF P
  <2> QED BY <1>4, <2>1
<1>6. /\ SubSeq(p, 1, k) \in Places /\ There(SubSeq(p, 1, k))
      /\ Len(p) - k > 0 => land[SubSeq(p, 1, k)].kind = "d"
  BY <1>5
<1> QED BY <1>1, <1>6

LEMMA WayDown ==
  ASSUME Tree, NEW p \in Places, There(p), NEW q \in Places, IsPrefix(q, p), q # p
  PROVE  /\ land[q].kind = "d"
         /\ \E r \in Children(q) : /\ IsPrefix(r, p) /\ Len(r) = Len(q) + 1
                                   /\ FileName(r) = p[Len(q) + 1]
                                   /\ r # p => land[r].kind = "d"
<1>1. /\ p \in Seq(Names) /\ q \in Seq(Names) /\ Len(p) \in Nat /\ Len(q) \in Nat
      /\ Len(q) > 0 /\ Len(q) < Len(p)
  BY PlaceIs, OnOnePath
<1> DEFINE r == SubSeq(p, 1, Len(q) + 1)
           above == SubSeq(p, 1, Len(q))
<1>2. /\ r \in Places /\ There(r) /\ Len(r) = Len(q) + 1 /\ IsPrefix(r, p) /\ r \in Seq(Names)
      /\ r[Len(q) + 1] = p[Len(q) + 1]
      /\ Len(r) < Len(p) => land[r].kind = "d"
  <2>1. Len(q) + 1 \in 1 .. Len(p) /\ Len(q) + 1 \in 0 .. Len(p)
    BY <1>1
  <2>2. Len(r) = Len(q) + 1 /\ IsPrefix(r, p) /\ r \in Seq(Names) /\ r[Len(q) + 1] = p[Len(q) + 1]
    BY <1>1, <2>1, PartOf
  <2>3. r \in Places /\ There(r) /\ (Len(q) + 1 < Len(p) => land[r].kind = "d")
    BY <2>1, AboveIsDir
  <2> HIDE DEF r
  <2> QED BY <2>2, <2>3
<1>3. land[q].kind = "d"
  <2>1. Len(q) \in 1 .. Len(p) /\ Len(q) \in 0 .. Len(p)
    BY <1>1
  <2>2. above \in Places /\ land[above].kind = "d"
    BY <1>1, <2>1, AboveIsDir
  <2>3. Len(above) = Len(q) /\ IsPrefix(above, p) /\ above \in Seq(Names)
    BY <1>1, <2>1, PartOf
  <2> HIDE DEF above
  <2>4. above = q
    <3>1. IsPrefix(above, q)
      BY <1>1, <2>3, PrefixOrder
    <3> QED BY <1>1, <2>3, <3>1, PrefixOrder
  <2> QED BY <2>2, <2>4
<1> HIDE DEF r, above
<1>4. IsPrefix(q, r)
  BY <1>1, <1>2, PrefixOrder
<1>5. r \in Children(q)
  BY <1>2, <1>4 DEF Children, Under
<1>6. FileName(r) = p[Len(q) + 1]
  BY <1>2, NameIs
<1>7. r # p => Len(r) < Len(p)
  BY <1>2, OnOnePath
<1> QED BY <1>2, <1>3, <1>5, <1>6, <1>7

-----------------------------------------------------------------------------
(* What the variables hold, step by step.                                  *)
LEMMA CommandIs ==
  ASSUME job \in FindJobs \cup LaterJobs
  PROVE  /\ IsCommand(job) /\ job.tool \in {"sfind", "locate"}
         /\ job.mode \in {"walk", "scan", "search"}
         /\ job.mode = "walk" => job.tool = "sfind"
         /\ job.roots \in Seq(Places) /\ IsInjective(job.roots)
         /\ \A p \in ToSet(job.roots) : p \in Places /\ Len(p) = 1
<1>1. IsCommand(job)
  BY FindAssumption DEF FindAssumption
<1>2. /\ job.tool \in {"sfind", "locate"} /\ job.mode \in {"walk", "scan", "search"}
      /\ job.mode = "walk" => job.tool = "sfind"
      /\ job.roots \in Seq(Places) /\ IsInjective(job.roots)
      /\ \A i \in DOMAIN job.roots : Len(job.roots[i]) = 1
  BY <1>1 DEF IsCommand
<1>3. ASSUME NEW p \in ToSet(job.roots) PROVE p \in Places /\ Len(p) = 1
  <2>1. p \in Places
    BY <1>2, ToSetIs
  <2> QED BY <1>2, <2>1 DEF ToSet
<1> QED BY <1>1, <1>2, <1>3

LEMMA Removed ==
  ASSUME LandIs, NEW p \in Places, Deletable(p), land' = [land EXCEPT ![p] = Gone]
  PROVE  /\ LandIs'
         /\ \A q \in Places : land'[q] = IF q = p THEN Gone ELSE land[q]
<1>1. \A q \in Places : land'[q] = IF q = p THEN Gone ELSE land[q]
  BY DEF LandIs
<1>2. land' \in [Places -> Stats]
  <2>1. Gone \in Stats
    BY DEF Stats
  <2> QED BY <2>1 DEF LandIs
<1>3. Kinds'
  BY <1>1 DEF Kinds, LandIs
<1>4. Tree'
  <2>1. SUFFICES ASSUME NEW q \in Places, There(q)', Len(q) > 1 PROVE land'[Front(q)].kind = "d"
    BY DEF Tree
  <2>2. q # p /\ There(q)
    BY <1>1, <2>1 DEF There
  <2>3. land[Front(q)].kind = "d" /\ Front(q) \in Places /\ Under(q, Front(q))
    BY <2>1, <2>2, AboveIs DEF LandIs, Tree
  <2>4. Front(q) # p
    BY <2>2, <2>3 DEF Deletable, Children
  <2> QED BY <1>1, <2>3, <2>4
<1> QED BY <1>1, <1>2, <1>3, <1>4 DEF LandIs

LEMMA Made ==
  ASSUME LandIs, NEW p \in Places, ~There(p), Len(p) > 1, land[Front(p)].kind = "d",
         NEW meta \in Metas, land' = [land EXCEPT ![p] = meta]
  PROVE  LandIs'
<1>1. \A q \in Places : land'[q] = IF q = p THEN meta ELSE land[q]
  BY DEF LandIs
<1>2. land' \in [Places -> Stats]
  BY DEF LandIs, Stats
<1>3. Kinds'
  <2>1. meta.kind \in {"f", "d", "l"}
    BY FindAssumption DEF FindAssumption
  <2> QED BY <1>1, <2>1 DEF Kinds, LandIs
<1>4. Tree'
  <2>1. SUFFICES ASSUME NEW q \in Places, There(q)', Len(q) > 1 PROVE land'[Front(q)].kind = "d"
    BY DEF Tree
  <2>2. Front(q) \in Places
    BY <2>1, AboveIs
  <2>3. land[p].kind # "d"
    BY DEF There, Gone
  <2>4. land[Front(q)].kind = "d"
    <3>1. CASE q = p
      BY <3>1
    <3>2. CASE q # p
      <4>1. There(q)
        BY <1>1, <2>1, <3>2 DEF There
      <4> QED BY <2>1, <4>1 DEF LandIs, Tree
    <3> QED BY <3>1, <3>2
  <2> QED BY <1>1, <2>2, <2>3, <2>4
<1> QED BY <1>2, <1>3, <1>4 DEF LandIs

LEMMA ActLeaves ==
  ASSUME LandIs, acts \in Seq(Deeds), NEW p \in Places, Act(p, land[p]) \/ Pass
  PROVE  /\ LandIs' /\ acts' \in Seq(Deeds)
         /\ \A q \in Places : There(q)' => There(q) /\ land'[q] = land[q]
         /\ pred.action # "delete" => land' = land
<1>1. land[p] \in Stats
  BY DEF LandIs
<1>2. [path |-> p, meta |-> land[p]] \in Deeds
  BY <1>1 DEF Deeds
<1>3. acts' \in Seq(Deeds)
  BY <1>2 DEF Act, Pass
<1>4. CASE land' = land
  <2>1. LandIs'
    BY <1>4 DEF LandIs, Kinds, Tree, There
  <2> QED BY <1>3, <1>4, <2>1 DEF There
<1>5. CASE land' # land
  <2>1. Deletable(p) /\ land' = [land EXCEPT ![p] = Gone] /\ pred.action = "delete"
    BY <1>5 DEF Act, Pass
  <2>2. LandIs' /\ \A q \in Places : land'[q] = IF q = p THEN Gone ELSE land[q]
    BY <2>1, Removed
  <2> QED BY <1>3, <2>1, <2>2 DEF There
<1> QED BY <1>4, <1>5

LEMMA LandStays ==
  ASSUME LandIs, land' = land
  PROVE  LandIs'
BY DEF LandIs, Kinds, Tree, There

LEMMA ChildrenIs ==
  ASSUME NEW q
  PROVE  Children(q) \in SUBSET Places
BY DEF Children

LEMMA StepNames ==
  /\ \A m \in {"walk", "scan", "search"} : m \in ModeOf(m)
  /\ \A m \in {"walk", "scan", "search"} : m \in ModeOf("done") /\ m \in ModeOf("error")
                                           /\ m \in ModeOf("parse") /\ m \in ModeOf("refused")
  /\ ModeOf("write") = ModeOf("scan") /\ ModeOf("read") = ModeOf("search")
  /\ ModeOf("walk") = {"walk"} /\ ModeOf("scan") = {"scan"} /\ ModeOf("search") = {"search"}
BY DEF ModeOf

LEMMA TypesInit ==
  ASSUME FindInit
  PROVE  FindTypes
<1>1. \A l \in FindLands : /\ l \in [Places -> {l[p] : p \in Places}]
                           /\ \A p \in Places : l[p] = Gone \/ l[p].kind \in {"f", "d", "l"}
                           /\ \A p \in Places : l[p] # Gone /\ Len(p) > 1 => l[Front(p)].kind = "d"
  BY FindAssumption DEF FindAssumption
<1>2. LandIs
  <2>1. land \in [Places -> {land[p] : p \in Places}] /\ \A p \in Places : land[p] \in Stats
    BY <1>1 DEF FindInit, Stats
  <2>2. land \in [Places -> Stats]
    BY <2>1
  <2> QED BY <1>1, <2>2 DEF FindInit, LandIs, Kinds, Tree, There
<1>3. job.mode \in ModeOf("parse")
  <2>1. job \in FindJobs \cup LaterJobs
    BY DEF FindInit
  <2> QED BY <2>1, CommandIs, StepNames
<1>4. <<>> \in Seq(Places) /\ <<>> \in Seq(Deeds)
  OBVIOUS
<1> QED BY <1>2, <1>3, <1>4 DEF FindInit, FindIdle, FindTypes

LEMMA CommandTypes ==
  ASSUME FindTypes, ReadCommand
  PROVE  FindTypes'
<1>1. /\ findStep = "parse" /\ inHand' = <<>>
      /\ land' = land /\ job' = job /\ acts' = acts /\ index' = index /\ quiet' = quiet
  BY DEF ReadCommand
<1>2. /\ job \in FindJobs \cup LaterJobs /\ job.mode \in {"walk", "scan", "search"}
      /\ job.roots \in Seq(Places)
  BY CommandIs DEF FindTypes
<1>3. todo' \in Seq(Places)
  BY <1>2 DEF ReadCommand
<1>4. /\ findStep' \in {"walk", "scan", "search", "refused"}
      /\ findStep' # "refused" => findStep' = job.mode /\ pred' = Meant' /\ ~pred'.error
      /\ findStep' = "refused" => Meant'.error
  BY <1>1, <1>2 DEF ReadCommand, Meant
<1>5. job.mode \in ModeOf(findStep')
  BY <1>2, <1>4, StepNames
<1>6. acts = <<>>
  BY <1>1 DEF FindTypes
<1>7. LandIs'
  BY <1>1, LandStays DEF FindTypes
<1>8. <<>> \in Seq(Places)
  OBVIOUS
<1> QED BY <1>1, <1>2, <1>3, <1>4, <1>5, <1>6, <1>7, <1>8 DEF FindTypes

LEMMA WalkTypes ==
  ASSUME FindTypes, Walk
  PROVE  FindTypes'
<1> DEFINE p == Head(todo)
<1>1. todo # <<>> /\ p \in Places /\ Tail(todo) \in Seq(Places)
  BY RestIs DEF Walk, FindTypes
<1>2. /\ Act(p, land[p]) \/ Pass
      /\ job' = job /\ pred' = pred /\ index' = index /\ inHand' = inHand /\ findStep' = findStep
      /\ findStep = "walk"
  BY DEF Walk
<1>3. LandIs' /\ acts' \in Seq(Deeds)
  <2> HIDE DEF p
  <2> QED BY <1>1, <1>2, ActLeaves DEF FindTypes
<1>4. todo' \in Seq(Places) /\ quiet' \in BOOLEAN
  <2>1. PICK read \in BOOLEAN :
          /\ \/ todo' = SortedBy(Children(p), ByName) \o Tail(todo)
             \/ todo' = <<>> \o Tail(todo)
          /\ quiet' = (quiet /\ read)
    BY DEF Walk
  <2>2. SortedBy(Children(p), ByName) \in Seq(Places)
    BY SortedIs, ChildrenIs
  <2>3. <<>> \in Seq(Places)
    OBVIOUS
  <2>4. /\ SortedBy(Children(p), ByName) \o Tail(todo) \in Seq(Places)
        /\ <<>> \o Tail(todo) \in Seq(Places)
    <3> HIDE DEF p
    <3> QED BY <1>1, <2>2, <2>3, JoinIs
  <2> QED BY <2>1, <2>4 DEF FindTypes
<1>5. Meant' = Meant
  BY <1>2 DEF Meant
<1> QED BY <1>2, <1>3, <1>4, <1>5 DEF FindTypes

LEMMA ScanTypes ==
  ASSUME FindTypes, Scan
  PROVE  FindTypes'
<1> DEFINE q == Head(todo)
<1>1. todo # <<>> /\ q \in Places /\ Tail(todo) \in Seq(Places)
  BY RestIs DEF Scan, FindTypes
<1>2. /\ job' = job /\ pred' = pred /\ index' = index /\ findStep' = findStep
      /\ land' = land /\ acts' = acts /\ findStep = "scan"
  BY DEF Scan
<1>3. PICK entries \in SUBSET Children(q), dirs \in SUBSET Children(q), read \in BOOLEAN :
        /\ inHand' = inHand \o SortedBy(entries, ByName)
        /\ todo' = SortedBy(dirs, ByName) \o Tail(todo)
        /\ quiet' = (quiet /\ read)
  <2>1. PICK read \in BOOLEAN :
          LET below == land[q].kind = "d" /\ Depth(q) <= DepthLimit
              entries == IF read /\ below THEN Children(q) ELSE {}
              dirs == {p \in entries : land[p].kind = "d" /\ FileName(p) \notin job.skip}
          IN /\ inHand' = inHand \o SortedBy(entries, ByName)
             /\ todo' = SortedBy(dirs, ByName) \o Tail(todo)
             /\ quiet' = (quiet /\ read)
    BY DEF Scan
  <2> DEFINE below == land[q].kind = "d" /\ Depth(q) <= DepthLimit
             entries == IF read /\ below THEN Children(q) ELSE {}
             dirs == {p \in entries : land[p].kind = "d" /\ FileName(p) \notin job.skip}
  <2>2. entries \in SUBSET Children(q) /\ dirs \in SUBSET Children(q)
    OBVIOUS
  <2>3. /\ inHand' = inHand \o SortedBy(entries, ByName)
        /\ todo' = SortedBy(dirs, ByName) \o Tail(todo)
        /\ quiet' = (quiet /\ read)
    BY <2>1
  <2> HIDE DEF entries, dirs, q
  <2> QED BY <2>2, <2>3
<1>4. SortedBy(entries, ByName) \in Seq(Places) /\ SortedBy(dirs, ByName) \in Seq(Places)
  <2>1. entries \in SUBSET Places /\ dirs \in SUBSET Places
    BY ChildrenIs
  <2> HIDE DEF q
  <2> QED BY <2>1, SortedIs
<1>5. inHand' \in Seq(Places) /\ todo' \in Seq(Places)
  <2> HIDE DEF q
  <2> QED BY <1>1, <1>3, <1>4, JoinIs DEF FindTypes
<1>6. Meant' = Meant /\ LandIs'
  BY <1>2, LandStays DEF Meant, FindTypes
<1> QED BY <1>2, <1>3, <1>5, <1>6 DEF FindTypes

LEMMA FileIs ==
  ASSUME NEW S, NEW lines \in S, NEW whole \in BOOLEAN
  PROVE  [lines |-> lines, whole |-> whole] \in [lines : S, whole : BOOLEAN]
OBVIOUS

LEMMA CreateTypes ==
  ASSUME FindTypes, Create
  PROVE  FindTypes'
<1>1. /\ job' = job /\ pred' = pred /\ todo' = todo /\ land' = land /\ acts' = acts
      /\ quiet' = quiet
      /\ findStep = "scan"
      /\ \/ /\ findStep' = "write" /\ index' = [lines |-> <<>>, whole |-> FALSE]
            /\ inHand' = SortedBy(ToSet(inHand), ByText)
         \/ findStep' = "error" /\ index' = index /\ inHand' = inHand
  BY DEF Create
<1>2. SortedBy(ToSet(inHand), ByText) \in Seq(Places)
  BY SortedIs, ToSetIs DEF FindTypes
<1>3. Meant' = Meant /\ LandIs'
  BY <1>1, LandStays DEF Meant, FindTypes
<1>4. job.mode \in ModeOf("scan") /\ job.mode \in ModeOf("error")
  BY <1>1, CommandIs, StepNames DEF FindTypes
<1>5. index' \in [lines : Seq(Places), whole : BOOLEAN] /\ inHand' \in Seq(Places)
  <2> DEFINE Lists == Seq(Places)
  <2>1. <<>> \in Lists
    OBVIOUS
  <2>2. SortedBy(ToSet(inHand), ByText) \in Lists /\ inHand \in Lists
        /\ index \in [lines : Lists, whole : BOOLEAN]
    BY <1>2 DEF FindTypes
  <2> HIDE DEF Lists
  <2>3. [lines |-> <<>>, whole |-> FALSE] \in [lines : Lists, whole : BOOLEAN]
    BY <2>1, FileIs
  <2>4. index' \in [lines : Lists, whole : BOOLEAN] /\ inHand' \in Lists
    BY <1>1, <2>2, <2>3
  <2> QED BY <2>4 DEF Lists
<1>6. job.mode \in ModeOf(findStep') /\ findStep' \in {"write", "error"}
  BY <1>1, <1>4, StepNames
<1> QED BY <1>1, <1>3, <1>5, <1>6 DEF FindTypes

LEMMA WriteTypes ==
  ASSUME FindTypes, WriteIndex \/ CutShort
  PROVE  FindTypes'
<1>1. /\ job' = job /\ pred' = pred /\ todo' = todo /\ land' = land /\ acts' = acts
      /\ quiet' = quiet
      /\ inHand' = inHand /\ findStep = "write" /\ findStep' \in {"done", "error"}
  BY DEF WriteIndex, CutShort
<1>2. index' \in [lines : Seq(Places), whole : BOOLEAN]
  <2>1. \A n \in 0 .. Len(inHand) : SubSeq(inHand, 1, n) \in Seq(Places)
    BY PartOf DEF FindTypes
  <2>2. \/ index' = [lines |-> inHand, whole |-> TRUE]
        \/ \E n \in 0 .. Len(inHand) : index' = [lines |-> SubSeq(inHand, 1, n), whole |-> FALSE]
    BY DEF WriteIndex, CutShort
  <2> DEFINE Lists == Seq(Places)
  <2>3. inHand \in Lists /\ \A n \in 0 .. Len(inHand) : SubSeq(inHand, 1, n) \in Lists
    BY <2>1 DEF FindTypes
  <2> HIDE DEF Lists
  <2>4. index' \in [lines : Lists, whole : BOOLEAN]
    BY <2>2, <2>3, FileIs
  <2> QED BY <2>4 DEF Lists
<1>3. Meant' = Meant /\ LandIs'
  BY <1>1, LandStays DEF Meant, FindTypes
<1>4. job.mode \in ModeOf(findStep')
  BY <1>1, CommandIs, StepNames DEF FindTypes
<1> QED BY <1>1, <1>2, <1>3, <1>4 DEF FindTypes

LEMMA OpenTypes ==
  ASSUME FindTypes, OpenIndex
  PROVE  FindTypes'
<1>1. /\ job' = job /\ pred' = pred /\ todo' = todo /\ land' = land /\ acts' = acts
      /\ quiet' = quiet
      /\ index' = index /\ inHand' = index.lines /\ findStep = "search" /\ findStep' = "read"
  BY DEF OpenIndex
<1>2. Meant' = Meant /\ LandIs' /\ index.lines \in Seq(Places)
  BY <1>1, LandStays DEF Meant, FindTypes
<1>3. job.mode \in ModeOf(findStep')
  BY <1>1, StepNames DEF FindTypes
<1> QED BY <1>1, <1>2, <1>3 DEF FindTypes

LEMMA ReadTypes ==
  ASSUME FindTypes, Read
  PROVE  FindTypes'
<1> DEFINE p == Head(inHand)
<1>1. inHand # <<>> /\ p \in Places /\ Tail(inHand) \in Seq(Places)
  BY RestIs DEF Read, FindTypes
<1>2. /\ Act(p, land[p]) \/ Pass
      /\ job' = job /\ pred' = pred /\ index' = index /\ findStep' = findStep /\ todo' = todo
      /\ inHand' = Tail(inHand) /\ quiet' = quiet /\ findStep = "read"
  BY DEF Read
<1>3. LandIs' /\ acts' \in Seq(Deeds)
  <2> HIDE DEF p
  <2> QED BY <1>1, <1>2, ActLeaves DEF FindTypes
<1>4. Meant' = Meant
  BY <1>2 DEF Meant
<1> QED BY <1>1, <1>2, <1>3, <1>4 DEF FindTypes

LEMMA EndTypes ==
  ASSUME FindTypes, End
  PROVE  FindTypes'
<1>1. /\ job' = job /\ pred' = pred /\ todo' = todo /\ land' = land /\ acts' = acts
      /\ quiet' = quiet
      /\ index' = index /\ inHand' = inHand /\ findStep \in {"walk", "read"} /\ findStep' = "done"
  BY DEF End
<1>2. Meant' = Meant /\ LandIs'
  BY <1>1, LandStays DEF Meant, FindTypes
<1>3. job.mode \in ModeOf("done")
  BY CommandIs, StepNames DEF FindTypes
<1> QED BY <1>1, <1>2, <1>3 DEF FindTypes

LEMMA OthersTypes ==
  ASSUME FindTypes, Others
  PROVE  FindTypes'
<1>1. /\ job' = job /\ pred' = pred /\ todo' = todo /\ acts' = acts /\ quiet' = FALSE
      /\ index' = index /\ inHand' = inHand /\ findStep' = findStep
  BY DEF Others
<1>2. LandIs'
  <2>1. LandIs
    BY DEF FindTypes
  <2>2. PICK p \in Places :
          \/ Len(p) > 1 /\ Deletable(p) /\ land' = [land EXCEPT ![p] = Gone]
          \/ /\ ~There(p) /\ Len(p) > 1 /\ land[Front(p)].kind = "d"
             /\ \E meta \in Metas : land' = [land EXCEPT ![p] = meta]
    BY DEF Others
  <2> QED BY <2>1, <2>2, Removed, Made
<1>3. Meant' = Meant
  BY <1>1 DEF Meant
<1> QED BY <1>1, <1>2, <1>3 DEF FindTypes

LEMMA NextTypes ==
  ASSUME FindTypes, NextCommand
  PROVE  FindTypes'
<1>1. /\ job' \in LaterJobs /\ findStep' = "parse" /\ quiet' = TRUE
      /\ acts' = <<>> /\ inHand' = <<>>
      /\ todo' = <<>> /\ land' = land /\ index' = index
  BY DEF NextCommand
<1>2. <<>> \in Seq(Places) /\ <<>> \in Seq(Deeds)
  OBVIOUS
<1>3. job'.mode \in ModeOf("parse")
  <2>1. IsCommand(job')
    BY <1>1, FindAssumption DEF FindAssumption
  <2>2. job'.mode \in {"walk", "scan", "search"}
    BY <2>1 DEF IsCommand
  <2> QED BY <2>2, StepNames
<1>4. LandIs'
  BY <1>1, LandStays DEF FindTypes
<1> QED BY <1>1, <1>2, <1>3, <1>4 DEF FindTypes

LEMMA IdleTypes ==
  ASSUME FindTypes, UNCHANGED findVars
  PROVE  FindTypes'
<1>1. LandIs' /\ Meant' = Meant
  BY LandStays DEF findVars, FindTypes, Meant
<1> QED BY <1>1 DEF findVars, FindTypes

LEMMA TypesStep ==
  ASSUME FindTypes, [FindNext]_findVars
  PROVE  FindTypes'
BY CommandTypes, WalkTypes, ScanTypes, CreateTypes, WriteTypes, OpenTypes, ReadTypes, EndTypes,
   OthersTypes, NextTypes, IdleTypes DEF FindNext

-----------------------------------------------------------------------------
(* What is asked stays the same, as long as the tests look at the file at  *)
(* hand alone or nothing changes.                                          *)
LEMMA QuestionStays ==
  ASSUME job' = job, pred' = pred
  PROVE  /\ \A p : /\ Reached(p)' <=> Reached(p)
                   /\ Rooted(p)' <=> Rooted(p)
                   /\ Within(p)' <=> Within(p)
         /\ Stable' <=> Stable
<1>1. \A p : /\ Reached(p)' <=> Reached(p)
             /\ Rooted(p)' <=> Rooted(p)
             /\ Within(p)' <=> Within(p)
  BY DEF Reached, Rooted, Within
<1>2. Stable' <=> Stable
  BY DEF Stable, Words
<1> QED BY <1>1, <1>2

LEMMA AskedStays ==
  ASSUME IsCommand(job), job' = job, Stable \/ land' = land
  PROVE  \A p, meta : Asked(p, meta)' <=> Asked(p, meta)
<1> SUFFICES ASSUME NEW p, NEW meta PROVE Asked(p, meta)' <=> Asked(p, meta)
  OBVIOUS
<1> DEFINE n == Len(job.tokens)
<1>1. n \in Nat /\ DOMAIN Words = 1 .. n /\ Words' = Words
  <2>1. job.tokens \in Seq(ToSet(job.tokens))
    BY DEF IsCommand
  <2>2. n \in Nat /\ DOMAIN job.tokens = 1 .. n
    <3> DEFINE W == ToSet(job.tokens)
    <3>1. job.tokens \in Seq(W)
      BY <2>1
    <3> HIDE DEF W
    <3> QED BY <3>1
  <2> QED BY <2>2 DEF Words
<1>2. Bars' = Bars /\ (\A b \in Bars : b \in 0 .. n + 1)
  BY <1>1 DEF Bars, Words
<1>3. \A k : IsTest(k)' <=> IsTest(k)
  BY <1>1 DEF IsTest
<1>4. ASSUME NEW k \in 1 .. n PROVE Wants(k, p, meta)' <=> Wants(k, p, meta)
  <2> DEFINE t == Words[k]
  <2>1. t' = t
    BY <1>1
  <2>2. CASE land' = land
    <3>1. Holds(t, p, meta)' = Holds(t, p, meta)
      BY <2>1, <2>2 DEF Holds, There, Children
    <3> HIDE DEF t
    <3> QED BY <1>1, <3>1 DEF Wants, t
  <2>3. CASE Stable
    <3>1. t.tok \notin {"empty", "newer"}
      <4> HIDE DEF n
      <4> QED BY <1>1, <2>3 DEF Stable
    <3>2. Holds(t, p, meta)' = Holds(t, p, meta)
      BY <2>1, <3>1 DEF Holds
    <3> HIDE DEF t
    <3> QED BY <1>1, <3>2 DEF Wants, t
  <2> QED BY <2>2, <2>3
<1>5. \A b, e \in Bars : \A k \in b + 1 .. e - 1 : k \in 1 .. n
  <2> HIDE DEF n
  <2> QED BY <1>1, <1>2
<1> HIDE DEF n
<1> QED BY <1>2, <1>3, <1>4, <1>5 DEF Asked

-----------------------------------------------------------------------------
(* The walk.  The first path is replaced with nothing, or with all that is *)
(* in it, and then it is a directory that may be entered.                  *)
LEMMA WalkMoves ==
  ASSUME FindTypes, Walk, NEW p, p = Head(todo)
  PROVE  /\ p \in Places /\ Tail(todo) \in Seq(Places) /\ todo # <<>>
         /\ ToSet(todo) = {p} \cup ToSet(Tail(todo)) /\ ToSet(todo) \subseteq Places
         /\ LandIs' /\ acts' \in Seq(Deeds)
         /\ \A q \in Places : There(q)' => There(q) /\ land'[q] = land[q]
         /\ \E kids \in SUBSET Children(p) :
              /\ todo' = SortedBy(kids, ByName) \o Tail(todo)
              /\ ToSet(todo') = kids \cup ToSet(Tail(todo))
              /\ kids # {} => \A n \in pred.max : Depth(p) < n
              /\ quiet' /\ (\A n \in pred.max : Depth(p) < n) /\ land'[p].kind = "d"
                   => kids = Children(p)
<1> DEFINE open == \A n \in pred.max : Depth(p) < n
<1>1. /\ todo # <<>> /\ p \in Places /\ Tail(todo) \in Seq(Places)
      /\ ToSet(todo) = {p} \cup ToSet(Tail(todo)) /\ ToSet(todo) \subseteq Places
  BY RestIs, ToSetIs DEF Walk, FindTypes
<1>2. Act(p, land[p]) \/ Pass
  BY DEF Walk
<1>3. /\ LandIs' /\ acts' \in Seq(Deeds)
      /\ \A q \in Places : There(q)' => There(q) /\ land'[q] = land[q]
  BY <1>1, <1>2, ActLeaves DEF FindTypes
<1>4. PICK read \in BOOLEAN :
        /\ todo' = (IF read /\ (land[p].kind = "d" /\ open) /\ land'[p].kind = "d"
                    THEN SortedBy(Children(p), ByName) ELSE <<>>) \o Tail(todo)
        /\ quiet' = (quiet /\ read)
  BY DEF Walk
<1> DEFINE kids == IF read /\ (land[p].kind = "d" /\ open) /\ land'[p].kind = "d"
                   THEN Children(p) ELSE {}
<1>5. kids \in SUBSET Children(p) /\ kids \in SUBSET Places
  BY ChildrenIs
<1>6. SortedBy({}, ByName) = <<>>
  <2>1. SortedBy({}, ByName) \in Seq(Places) /\ ToSet(SortedBy({}, ByName)) = {}
    BY SortedIs
  <2> DEFINE s == SortedBy({}, ByName)
  <2>2. s \in Seq(Places) /\ ToSet(s) = {}
    BY <2>1
  <2> HIDE DEF s
  <2>3. DOMAIN s = {}
    BY <2>2 DEF ToSet
  <2>4. s = <<>>
    BY <2>2, <2>3
  <2> QED BY <2>4 DEF s
<1>7. todo' = SortedBy(kids, ByName) \o Tail(todo)
  BY <1>4, <1>6
<1>8. ToSet(todo') = kids \cup ToSet(Tail(todo))
  <2> DEFINE s == SortedBy(kids, ByName)
             rest == Tail(todo)
  <2>1. s \in Seq(Places) /\ ToSet(s) = kids /\ rest \in Seq(Places)
    <3> HIDE DEF kids
    <3> QED BY <1>1, <1>5, SortedIs
  <2>2. ToSet(s \o rest) = ToSet(s) \cup ToSet(rest)
    <3> HIDE DEF s, rest
    <3> QED BY <2>1, JoinIs
  <2>3. todo' = s \o rest
    BY <1>7
  <2> HIDE DEF kids, s
  <2> QED BY <2>1, <2>2, <2>3
<1>9. kids # {} => open
  BY <1>4
<1>10. quiet' /\ open /\ land'[p].kind = "d" => kids = Children(p)
  <2>1. land'[p].kind = "d" => land[p].kind = "d"
    <3>1. land'[p].kind = "d" => There(p)'
      BY DEF There, Gone
    <3> QED BY <1>1, <1>3, <3>1
  <2> QED BY <1>4, <2>1
<1> HIDE DEF kids
<1> QED BY <1>1, <1>3, <1>5, <1>7, <1>8, <1>9, <1>10

(* What is done about it.                                                  *)
Told(p) == There(p) /\ (\A n \in pred.min : Depth(p) >= n) /\ Eval(p, land[p])

LEMMA WalkDoes ==
  ASSUME FindTypes, Walk, NEW p, p = Head(todo), Told(p)
  PROVE  /\ Acted' = Acted \cup {p}
         /\ DOMAIN acts' = DOMAIN acts \cup {Len(acts) + 1} /\ Len(acts) + 1 \notin DOMAIN acts
         /\ \A i \in DOMAIN acts : acts'[i] = acts[i]
         /\ acts'[Len(acts) + 1].path = p
         /\ ToSet(acts') = ToSet(acts) \cup {[path |-> p, meta |-> land[p]]}
         /\ pred.action = "delete" /\ There(p)' => land[p].kind = "d"
<1> DEFINE deed == [path |-> p, meta |-> land[p]]
<1>1. p \in Places /\ deed \in Deeds /\ acts \in Seq(Deeds)
  <2>1. p \in Places
    BY WalkMoves
  <2> QED BY <2>1 DEF FindTypes, LandIs, Deeds
<1>2. Act(p, land[p])
  BY DEF Walk, Told
<1>3. acts' = Append(acts, deed)
  BY <1>2 DEF Act
<1>4. /\ DOMAIN acts' = DOMAIN acts \cup {Len(acts) + 1} /\ Len(acts) + 1 \notin DOMAIN acts
      /\ \A i \in DOMAIN acts : acts'[i] = acts[i]
      /\ acts'[Len(acts) + 1] = deed
  <2> HIDE DEF deed
  <2> QED BY <1>1, <1>3, AppendIs
<1>5. deed.path = p /\ deed.meta = land[p]
  OBVIOUS
<1>6. Acted' = Acted \cup {p}
  <2> HIDE DEF deed
  <2> QED BY <1>4, <1>5 DEF Acted
<1>7. ASSUME pred.action = "delete", There(p)' PROVE land[p].kind = "d"
  <2>1. Deletable(p) => land' = [land EXCEPT ![p] = Gone]
    BY <1>2, <1>7 DEF Act
  <2>2. Deletable(p) => land'[p] = Gone
    BY <1>1, <2>1 DEF FindTypes, LandIs
  <2>3. ~Deletable(p)
    BY <1>7, <2>2 DEF There
  <2> QED BY <2>3 DEF Deletable, Told
<1>8. ToSet(acts') = ToSet(acts) \cup {deed}
  <2> HIDE DEF deed
  <2> QED BY <1>4 DEF ToSet
<1>9. acts'[Len(acts) + 1].path = p
  <2> HIDE DEF deed
  <2> QED BY <1>4, <1>5
<1> QED BY <1>4, <1>6, <1>7, <1>8, <1>9

LEMMA WalkPasses ==
  ASSUME FindTypes, Walk, NEW p, p = Head(todo), ~Told(p)
  PROVE  acts' = acts /\ Acted' = Acted /\ land' = land
BY DEF Walk, Told, Pass, Acted

LEMMA WalkKeeps ==
  ASSUME FindTypes, WalkIsRight, Walk
  PROVE  WalkIsRight'
<1>1. PICK p : p = Head(todo)
  OBVIOUS
<1>2. /\ p \in Places /\ Tail(todo) \in Seq(Places) /\ todo # <<>> /\ todo \in Seq(Places)
      /\ ToSet(todo) = {p} \cup ToSet(Tail(todo)) /\ ToSet(todo) \subseteq Places
      /\ \A q \in Places : There(q)' => There(q) /\ land'[q] = land[q]
  BY <1>1, WalkMoves DEF FindTypes
<1>3. PICK kids \in SUBSET Children(p) :
        /\ todo' = SortedBy(kids, ByName) \o Tail(todo)
        /\ ToSet(todo') = kids \cup ToSet(Tail(todo))
        /\ kids # {} => \A n \in pred.max : Depth(p) < n
        /\ quiet' /\ (\A n \in pred.max : Depth(p) < n) /\ land'[p].kind = "d" => kids = Children(p)
  BY <1>1, WalkMoves
<1>4. /\ findStep = "walk" /\ findStep' = "walk" /\ job' = job /\ pred' = pred /\ (quiet' => quiet)
      /\ job.mode = "walk"
  BY StepNames DEF Walk, FindTypes
<1>5. /\ IsCommand(job) /\ job.tool = "sfind" /\ pred = Meant /\ ~pred.error
      /\ pred.max \in SUBSET Nat /\ pred.min \in SUBSET Nat
      /\ \A r \in ToSet(job.roots) : r \in Places
  BY <1>4, CommandIs, MeantIs DEF FindTypes
<1>6. /\ kids \in SUBSET Places
      /\ \A k \in kids : /\ There(k) /\ Len(k) = Len(p) + 1 /\ IsPrefix(p, k) /\ k # p
                         /\ Len(k) \in Nat /\ Len(p) \in Nat
  <2>1. \A k \in Places : Len(k) \in Nat
    BY PlaceIs
  <2> QED BY <1>2, <1>3, <2>1 DEF Children, Under
<1>7. /\ \A q \in ToSet(todo) : Rooted(q) /\ Within(q)
      /\ \A deed \in ToSet(acts) : Reached(deed.path) /\ (Stable => Asked(deed.path, deed.meta))
      /\ quiet => Apart
      /\ quiet /\ Stable =>
           \A q \in Places : There(q) /\ Rooted(q) /\ Within(q) => Waits(q) \/ Settled(q)
  BY <1>4 DEF WalkIsRight
<1>8. /\ \A q : /\ Reached(q)' <=> Reached(q)
                /\ Rooted(q)' <=> Rooted(q)
                /\ Within(q)' <=> Within(q)
      /\ Stable' <=> Stable
  BY <1>4, QuestionStays
<1>9. Stable => \A q, meta : Asked(q, meta)' <=> Asked(q, meta)
  BY <1>4, <1>5, AskedStays
<1>10. \A q : Reached(q) <=> Rooted(q) /\ Within(q) /\ \A n \in pred.min : Depth(q) >= n
  BY DEF Reached, Rooted, Within
<1>11. \A q \in Places : Eval(q, land[q]) <=> Asked(q, land[q])
  BY <1>5, EvalIsAsked
<1>12. \A q \in ToSet(todo') : Rooted(q) /\ Within(q)
  <2> SUFFICES ASSUME NEW q \in kids PROVE Rooted(q) /\ Within(q)
    BY <1>2, <1>3, <1>7
  <2>1. Rooted(q)
    <3>1. PICK i \in DOMAIN job.roots : IsPrefix(job.roots[i], p)
      BY <1>2, <1>7 DEF Rooted
    <3>2. job.roots[i] \in Places
      BY <1>5 DEF ToSet
    <3>3. IsPrefix(job.roots[i], q)
      BY <1>2, <1>6, <3>1, <3>2, OnOnePath
    <3> QED BY <3>3 DEF Rooted
  <2>2. Within(q)
    <3>1. \A n \in pred.max : Depth(p) < n
      BY <1>3
    <3>2. Depth(q) = Depth(p) + 1 /\ Depth(p) \in Int
      BY <1>6 DEF Depth
    <3> QED BY <1>5, <3>1, <3>2 DEF Within
  <2> QED BY <2>1, <2>2
<1>13. \A deed \in ToSet(acts') : Reached(deed.path) /\ (Stable => Asked(deed.path, deed.meta))
  <2>1. CASE Told(p)
    <3> DEFINE new == [path |-> p, meta |-> land[p]]
    <3>1. Reached(p) /\ Asked(p, land[p])
      BY <1>2, <1>7, <1>10, <1>11, <2>1 DEF Told
    <3>2. Reached(new.path) /\ Asked(new.path, new.meta)
      BY <3>1
    <3>3. ToSet(acts') = ToSet(acts) \cup {new}
      BY <1>1, <2>1, WalkDoes
    <3> HIDE DEF new
    <3> QED BY <1>7, <3>2, <3>3
  <2>2. CASE ~Told(p)
    BY <1>1, <1>7, <2>2, WalkPasses
  <2> QED BY <2>1, <2>2
<1>14. ASSUME quiet' PROVE Apart'
  <2>1. Apart /\ IsInjective(todo)
    BY <1>4, <1>7, <1>14 DEF Apart
  <2> DEFINE rest == ToSet(Tail(todo))
  <2>2. /\ rest \subseteq ToSet(todo) /\ p \in ToSet(todo) /\ p \notin rest
        /\ IsInjective(Tail(todo)) /\ rest \subseteq Places
    BY <1>1, <1>2, <2>1, RestIs
  <2>3. ASSUME NEW t \in rest PROVE ~IsPrefix(p, t) /\ ~IsPrefix(t, p) /\ t \in Places
    BY <2>1, <2>2 DEF Apart
  <2>4. ASSUME NEW k \in kids, NEW t \in rest PROVE ~IsPrefix(k, t) /\ ~IsPrefix(t, k)
    <3>1. t \in Places /\ Len(t) \in Nat
      BY <2>2, PlaceIs
    <3>2. IsPrefix(k, t) => IsPrefix(p, t)
      BY <1>2, <1>6, <3>1, OnOnePath
    <3>3. IsPrefix(t, k) /\ Len(t) <= Len(p) => IsPrefix(t, p)
      BY <1>2, <1>6, <3>1, OnOnePath
    <3>4. IsPrefix(t, k) /\ Len(t) > Len(p) => t = k
      <4>1. IsPrefix(t, k) /\ Len(t) > Len(p) => Len(t) = Len(k)
        BY <1>6, <3>1, OnOnePath
      <4> QED BY <1>6, <3>1, <4>1, OnOnePath
    <3>5. t # k
      BY <1>6, <2>3
    <3> QED BY <1>6, <2>3, <3>1, <3>2, <3>3, <3>4, <3>5
  <2>5. ASSUME NEW k \in kids, NEW l \in kids, IsPrefix(k, l) PROVE k = l
    BY <1>6, <2>5, OnOnePath
  <2>6. IsInjective(todo')
    <3>1. /\ SortedBy(kids, ByName) \in Seq(Places) /\ ToSet(SortedBy(kids, ByName)) = kids
          /\ IsInjective(SortedBy(kids, ByName))
      BY <1>6, SortedIs
    <3>2. kids \cap rest = {}
      BY <1>6, <2>3
    <3> QED BY <1>2, <1>3, <2>2, <3>1, <3>2, JoinIs
  <2>7. \A q, r \in ToSet(todo') : IsPrefix(q, r) => q = r
    <3>1. \A q, r \in rest : IsPrefix(q, r) => q = r
      BY <2>1, <2>2 DEF Apart
    <3> HIDE DEF rest
    <3> QED BY <1>3, <2>4, <2>5, <3>1 DEF rest
  <2>8. \A a \in Acted : a \in Places
    <3>1. \A i \in DOMAIN acts : acts[i] \in Deeds
      BY DEF FindTypes
    <3> QED BY <3>1 DEF Acted, Deeds
  <2>9. ASSUME NEW q \in ToSet(todo'), NEW a \in Acted PROVE ~IsPrefix(q, a)
    <3>1. CASE q \in rest
      BY <2>1, <2>2, <3>1 DEF Apart
    <3>2. CASE q \in kids
      <4>1. ~IsPrefix(p, a)
        BY <2>1, <2>2 DEF Apart
      <4> QED BY <1>2, <1>6, <2>8, <3>2, <4>1, OnOnePath
    <3> QED BY <1>3, <3>1, <3>2
  <2>10. ASSUME NEW q \in ToSet(todo') PROVE ~IsPrefix(q, p)
    <3>1. CASE q \in rest
      BY <2>3, <3>1
    <3>2. CASE q \in kids
      <4>1. IsPrefix(q, p) => Len(q) <= Len(p)
        BY <1>2, <1>6, <3>2, OnOnePath
      <4> QED BY <1>6, <3>2, <4>1
    <3> QED BY <1>3, <3>1, <3>2
  <2>11. \A q \in ToSet(todo'), a \in Acted' : ~IsPrefix(q, a)
    BY <1>1, <2>9, <2>10, WalkDoes, WalkPasses
  <2>12. \A i, j \in DOMAIN acts' : acts'[i].path = acts'[j].path => i = j
    <3>1. \A i, j \in DOMAIN acts : acts[i].path = acts[j].path => i = j
      BY <2>1 DEF Apart
    <3>2. p \notin Acted
      BY <1>2, <2>1, <2>2, OnOnePath DEF Apart
    <3>3. \A i \in DOMAIN acts : acts[i].path # p
      BY <3>2 DEF Acted
    <3>4. CASE Told(p)
      BY <1>1, <3>1, <3>3, <3>4, WalkDoes
    <3>5. CASE ~Told(p)
      BY <1>1, <3>1, <3>5, WalkPasses
    <3> QED BY <3>4, <3>5
  <2> QED BY <2>6, <2>7, <2>11, <2>12 DEF Apart
<1>15. ASSUME quiet', Stable, NEW q \in Places, There(q)', Rooted(q), Within(q)
       PROVE  Waits(q)' \/ Settled(q)'
  <2>1. There(q) /\ land'[q] = land[q] /\ (Waits(q) \/ Settled(q)) /\ Tree
    BY <1>2, <1>4, <1>7, <1>15 DEF FindTypes, LandIs
  <2>2. Apart /\ p \notin Acted
    <3>1. Apart
      BY <1>4, <1>7, <1>15
    <3> QED BY <1>2, <3>1, OnOnePath DEF Apart
  <2>3. Settled(q)' <=>
          /\ Reached(q) /\ Asked(q, land[q]) => q \in Acted'
          /\ pred.action = "delete" /\ q \in Acted' => land[q].kind = "d"
    <3>1. Settled(q)' <=>
            /\ \A meta \in Stats : meta = land'[q] /\ Reached(q)' /\ Asked(q, meta)' => q \in Acted'
            /\ pred'.action = "delete" /\ q \in Acted' => land'[q].kind = "d"
      BY DEF Settled
    <3>2. land[q] \in Stats
      BY DEF FindTypes, LandIs
    <3> QED BY <1>4, <1>8, <1>9, <1>15, <2>1, <3>1, <3>2
  <2>4. CASE q = p
    <3>1. CASE Told(p)
      <4>1. q \in Acted' /\ (pred.action = "delete" /\ There(p)' => land[p].kind = "d")
        BY <1>1, <2>4, <3>1, WalkDoes
      <4> QED BY <1>15, <2>3, <2>4, <4>1
    <3>2. CASE ~Told(p)
      <4>1. Acted' = Acted
        BY <1>1, <3>2, WalkPasses
      <4>2. ~(Reached(q) /\ Asked(q, land[q]))
        BY <1>2, <1>10, <1>11, <2>1, <2>4, <3>2 DEF Told
      <4> QED BY <2>2, <2>3, <2>4, <4>1, <4>2
    <3> QED BY <3>1, <3>2
  <2>5. CASE q # p /\ Settled(q)
    <3>1. q \in Acted' <=> q \in Acted
      BY <1>1, <2>5, WalkDoes, WalkPasses
    <3>2. land[q] \in Stats
      BY DEF FindTypes, LandIs
    <3> QED BY <2>3, <2>5, <3>1, <3>2 DEF Settled
  <2>6. CASE q # p /\ Waits(q)
    <3>1. PICK t \in ToSet(todo) : IsPrefix(t, q)
      BY <2>6 DEF Waits
    <3>2. CASE t \in ToSet(Tail(todo))
      BY <1>3, <3>1, <3>2 DEF Waits
    <3>3. CASE t = p
      <4>1. PICK r \in Children(p) : IsPrefix(r, q) /\ Len(r) = Len(p) + 1
        BY <1>2, <2>1, <2>6, <3>1, <3>3, WayDown
      <4>2. land[p].kind = "d" /\ There(p)
        <5>1. land[p].kind = "d"
          BY <1>2, <2>1, <2>6, <3>1, <3>3, WayDown
        <5> QED BY <5>1 DEF There, Gone
      <4>3. land'[p] = land[p]
        <5>1. ~Deletable(p)
          BY <4>1, <4>2 DEF Deletable
        <5>2. land' = land
          BY <1>1, <5>1 DEF Walk, Act, Pass
        <5> QED BY <5>2
      <4>4. \A n \in pred.max : Depth(p) < n
        <5>1. Len(p) < Len(q) /\ Len(p) \in Nat /\ Len(q) \in Nat
          BY <1>2, <2>6, <3>1, <3>3, OnOnePath, PlaceIs
        <5> QED BY <1>5, <1>15, <5>1 DEF Within, Depth
      <4>5. r \in ToSet(todo')
        BY <1>3, <1>15, <4>1, <4>2, <4>3, <4>4
      <4> QED BY <4>1, <4>5 DEF Waits
    <3> QED BY <1>2, <3>1, <3>2, <3>3
  <2> QED BY <2>1, <2>4, <2>5, <2>6
<1>16. \A q \in ToSet(todo') : Rooted(q)' /\ Within(q)'
  BY <1>8, <1>12
<1>17. \A deed \in ToSet(acts') : Reached(deed.path)' /\ (Stable' => Asked(deed.path, deed.meta)')
  BY <1>8, <1>9, <1>13
<1>18. quiet' /\ Stable' =>
         \A q \in Places : There(q)' /\ Rooted(q)' /\ Within(q)' => Waits(q)' \/ Settled(q)'
  BY <1>8, <1>15
<1>19. findStep' # "done"
  BY <1>4
<1> QED BY <1>14, <1>16, <1>17, <1>18, <1>19 DEF WalkIsRight

LEMMA WalkBegins ==
  ASSUME FindTypes, ReadCommand
  PROVE  WalkIsRight'
<1> SUFFICES ASSUME job'.mode = "walk", findStep' \in {"walk", "done"} PROVE WalkIsRight'
  BY DEF WalkIsRight
<1>1. /\ job' = job /\ acts' = acts /\ acts = <<>> /\ findStep' # "done" /\ todo' = job.roots
      /\ pred' = Meant
  BY CommandIs DEF ReadCommand, FindTypes, Meant
<1>2. /\ IsCommand(job) /\ job.roots \in Seq(Places) /\ IsInjective(job.roots)
      /\ \A r \in ToSet(job.roots) : r \in Places /\ Len(r) = 1
  BY CommandIs DEF FindTypes
<1>3. ASSUME NEW q \in ToSet(todo') PROVE Rooted(q)' /\ Within(q)'
  <2>1. PICK i \in DOMAIN job.roots : q = job.roots[i]
    BY <1>1 DEF ToSet
  <2>2. q \in Places /\ Len(q) = 1
    BY <1>1, <1>2
  <2>3. IsPrefix(q, q)
    BY <2>2, OnOnePath
  <2>4. Rooted(q)'
    BY <1>1, <2>1, <2>3 DEF Rooted
  <2>5. \A n \in Meant.max : n \in Nat
    BY <1>2, MeantIs
  <2>6. Within(q)'
    BY <1>1, <2>2, <2>5 DEF Within, Depth
  <2> QED BY <2>4, <2>6
<1>4. ToSet(acts') = {} /\ Acted' = {} /\ DOMAIN acts' = {}
  <2>1. DOMAIN <<>> = {}
    OBVIOUS
  <2> QED BY <1>1, <2>1, ToSetIs DEF Acted
<1>5. Apart'
  <2>1. \A p, q \in ToSet(job.roots) : IsPrefix(p, q) => p = q
    BY <1>2, OnOnePath
  <2> QED BY <1>1, <1>2, <1>4, <2>1 DEF Apart
<1>6. ASSUME NEW q \in Places, Rooted(q)' PROVE Waits(q)'
  <2>1. PICK i \in DOMAIN job.roots : IsPrefix(job.roots[i], q)
    BY <1>1, <1>6 DEF Rooted
  <2>2. job.roots[i] \in ToSet(todo')
    BY <1>1 DEF ToSet
  <2> QED BY <2>1, <2>2 DEF Waits
<1> QED BY <1>1, <1>3, <1>4, <1>5, <1>6 DEF WalkIsRight

(* Nothing else that is done changes what a walk has found: others end its *)
(* peace.                                                                  *)
LEMMA WalkRests ==
  ASSUME FindTypes, WalkIsRight, End \/ Others \/ UNCHANGED findVars
  PROVE  WalkIsRight'
<1> SUFFICES ASSUME job'.mode = "walk", findStep' \in {"walk", "done"} PROVE WalkIsRight'
  BY DEF WalkIsRight
<1>1. /\ job' = job /\ pred' = pred /\ acts' = acts /\ todo' = todo
      /\ quiet' => quiet /\ land' = land
      /\ findStep \in {"walk", "done"} /\ (findStep' = "done" => findStep = "done" \/ todo = <<>>)
  <2>1. CASE End
    <3>1. job.mode \in ModeOf(findStep) /\ findStep \in {"walk", "read"}
      BY <2>1 DEF End, FindTypes
    <3>2. findStep = "walk"
      BY <2>1, <3>1, StepNames DEF End
    <3> QED BY <2>1, <3>2 DEF End
  <2>2. CASE Others
    BY <2>2 DEF Others
  <2>3. CASE UNCHANGED findVars
    BY <2>3 DEF findVars
  <2> QED BY <2>1, <2>2, <2>3
<1>2. IsCommand(job) /\ job.mode = "walk"
  BY <1>1, CommandIs DEF FindTypes
<1>3. /\ \A q \in ToSet(todo) : Rooted(q) /\ Within(q)
      /\ \A deed \in ToSet(acts) : Reached(deed.path) /\ (Stable => Asked(deed.path, deed.meta))
      /\ quiet => Apart
      /\ quiet /\ Stable =>
           \A q \in Places : There(q) /\ Rooted(q) /\ Within(q) => Waits(q) \/ Settled(q)
      /\ findStep = "done" => todo = <<>>
  BY <1>1, <1>2 DEF WalkIsRight
<1>4. /\ \A q : /\ Reached(q)' <=> Reached(q)
                /\ Rooted(q)' <=> Rooted(q)
                /\ Within(q)' <=> Within(q)
      /\ Stable' <=> Stable
  BY <1>1, QuestionStays
<1>5. Stable => \A q, meta : Asked(q, meta)' <=> Asked(q, meta)
  BY <1>1, <1>2, AskedStays
<1>6. quiet' => Apart'
  <2>1. Acted' = Acted
    BY <1>1 DEF Acted
  <2> QED BY <1>1, <1>3, <2>1 DEF Apart
<1>7. ASSUME quiet', Stable', NEW q \in Places, There(q)', Rooted(q)', Within(q)'
      PROVE  Waits(q)' \/ Settled(q)'
  <2>1. There(q) /\ (Waits(q) \/ Settled(q))
    BY <1>1, <1>3, <1>4, <1>7 DEF There
  <2>2. Acted' = Acted /\ land' = land
    BY <1>1, <1>7 DEF Acted
  <2>3. Settled(q) => Settled(q)'
    BY <1>1, <1>4, <1>5, <1>7, <2>2 DEF Settled
  <2>4. Waits(q) => Waits(q)'
    BY <1>1 DEF Waits
  <2> QED BY <2>1, <2>3, <2>4
<1>8. \A q \in ToSet(todo') : Rooted(q)' /\ Within(q)'
  BY <1>1, <1>3, <1>4
<1>9. \A deed \in ToSet(acts') : Reached(deed.path)' /\ (Stable' => Asked(deed.path, deed.meta)')
  BY <1>1, <1>3, <1>4, <1>5
<1>10. findStep' = "done" => todo' = <<>>
  BY <1>1, <1>3
<1> QED BY <1>6, <1>7, <1>8, <1>9, <1>10 DEF WalkIsRight

LEMMA WalkElsewhere ==
  ASSUME FindTypes, Scan \/ Create \/ WriteIndex \/ CutShort \/ OpenIndex \/ Read \/ NextCommand
  PROVE  WalkIsRight'
<1>1. ~(job'.mode = "walk" /\ findStep' \in {"walk", "done"})
  BY StepNames DEF Scan, Create, WriteIndex, CutShort, OpenIndex, Read, NextCommand, FindTypes
<1> QED BY <1>1 DEF WalkIsRight

(* What that says at the end of a walk.                                    *)
LEMMA WalkIsExact ==
  ASSUME FindTypes, WalkIsRight
  PROVE  FindIsExact
<1> SUFFICES ASSUME findStep \in {"walk", "done"}, job.mode = "walk" PROVE FindIsExact
  BY DEF FindIsExact
<1>1. /\ \A deed \in ToSet(acts) : Reached(deed.path) /\ (Stable => Asked(deed.path, deed.meta))
      /\ quiet => Apart
      /\ quiet /\ Stable =>
           \A q \in Places : There(q) /\ Rooted(q) /\ Within(q) => Waits(q) \/ Settled(q)
      /\ findStep = "done" => todo = <<>>
  BY DEF WalkIsRight
<1>2. \A i \in DOMAIN acts : Reached(acts[i].path) /\ (Stable => Asked(acts[i].path, acts[i].meta))
  BY <1>1 DEF ToSet
<1>3. \A i, j \in DOMAIN acts : acts[i].path = acts[j].path /\ quiet => i = j
  BY <1>1 DEF Apart
<1>4. ASSUME findStep = "done", quiet, Stable, NEW p \in Places, There(p)
      PROVE  /\ Reached(p) /\ Asked(p, land[p]) => p \in Acted
             /\ pred.action = "delete" /\ p \in Acted => land[p].kind = "d"
  <2>1. ~Waits(p)
    BY <1>1, <1>4, ToSetIs DEF Waits
  <2>2. Reached(p) => Rooted(p) /\ Within(p)
    BY DEF Reached, Rooted, Within
  <2>3. p \in Acted => Reached(p)
    BY <1>2 DEF Acted
  <2>4. Reached(p) => Settled(p)
    BY <1>1, <1>4, <2>1, <2>2
  <2>5. land[p] \in Stats
    BY DEF FindTypes, LandIs
  <2> QED BY <2>3, <2>4, <2>5 DEF Settled
<1> QED BY <1>2, <1>3, <1>4 DEF FindIsExact

-----------------------------------------------------------------------------
(* The scan for an index.                                                  *)
LEMMA ScanStays ==
  ASSUME job' = job, land' = land
  PROVE  /\ Whole' = Whole
         /\ \A q, p : Seen(q, p)' <=> Seen(q, p)
         /\ \A q : Entered(q)' <=> Entered(q)
<1>1. \A p : Scanned(p)' <=> Scanned(p)
  BY DEF Scanned
<1>2. Whole' = Whole
  BY <1>1 DEF Whole, There
<1>3. \A q, p : Seen(q, p)' <=> Seen(q, p)
  BY DEF Seen
<1>4. \A q : Entered(q)' <=> Entered(q)
  BY DEF Entered
<1> QED BY <1>2, <1>3, <1>4

LEMMA ScanBegins ==
  ASSUME FindTypes, ReadCommand
  PROVE  ScanIsRight'
<1> SUFFICES ASSUME findStep' = "scan", quiet' PROVE ScanIsRight'
  <2>1. findStep' \in {"walk", "scan", "search", "refused"}
    BY CommandIs DEF ReadCommand, FindTypes
  <2> QED BY <2>1 DEF ScanIsRight
<1>1. /\ job' = job /\ land' = land /\ inHand' = <<>> /\ todo' = job.roots
      /\ job.roots \in Seq(Places) /\ \A r \in ToSet(job.roots) : r \in Places /\ Len(r) = 1
  BY CommandIs DEF ReadCommand, FindTypes
<1>2. \A i \in DOMAIN job.roots : job.roots[i] \in ToSet(todo')
  BY <1>1 DEF ToSet
<1>3. ToSet(inHand') \subseteq Whole
  BY <1>1, ToSetIs
<1>4. ASSUME NEW p \in Whole PROVE \E q \in ToSet(todo') : Seen(q, p)
  <2>1. PICK i \in DOMAIN job.roots : Seen(job.roots[i], p)
    <3>1. Scanned(p) /\ p \in Places
      BY DEF Whole
    <3>2. \A i \in DOMAIN job.roots : Len(job.roots[i]) \in Nat
      BY <1>1, <1>2, PlaceIs
    <3>3. Len(p) \in Nat
      BY <3>1, PlaceIs
    <3> QED BY <3>1, <3>2, <3>3 DEF Scanned, Seen
  <2> QED BY <1>2, <2>1
<1>5. ASSUME NEW q \in ToSet(todo') PROVE Entered(q)
  <2>1. PICK i \in DOMAIN job.roots : q = job.roots[i]
    BY <1>1 DEF ToSet
  <2>2. q \in Places /\ Len(q) = 1
    BY <1>1
  <2>3. IsPrefix(q, q) /\ Len(q) + 1 .. Len(q) = {}
    BY <2>2, OnOnePath
  <2> QED BY <2>1, <2>3 DEF Entered
<1> QED BY <1>1, <1>3, <1>4, <1>5, ScanStays DEF ScanIsRight

LEMMA ScanKeeps ==
  ASSUME FindTypes, ScanIsRight, Scan
  PROVE  ScanIsRight'
<1> SUFFICES ASSUME quiet' PROVE ScanIsRight'
  BY DEF ScanIsRight
<1>1. PICK q : q = Head(todo)
  OBVIOUS
<1>2. /\ q \in Places /\ Tail(todo) \in Seq(Places)
      /\ ToSet(todo) = {q} \cup ToSet(Tail(todo)) /\ ToSet(todo) \subseteq Places
  BY <1>1, RestIs, ToSetIs DEF Scan, FindTypes
<1>3. /\ findStep = "scan" /\ findStep' = "scan" /\ job' = job /\ land' = land
      /\ inHand \in Seq(Places) /\ Tree
  BY DEF Scan, FindTypes, LandIs
<1> DEFINE below == land[q].kind = "d" /\ Depth(q) <= DepthLimit
           entries == IF below THEN Children(q) ELSE {}
           dirs == {p \in entries : land[p].kind = "d" /\ FileName(p) \notin job.skip}
<1>4. /\ quiet
      /\ inHand' = inHand \o SortedBy(entries, ByName)
      /\ todo' = SortedBy(dirs, ByName) \o Tail(todo)
  <2>1. PICK read \in BOOLEAN :
          LET entered == IF read /\ below THEN Children(q) ELSE {}
          IN /\ inHand' = inHand \o SortedBy(entered, ByName)
             /\ todo' = SortedBy({p \in entered : /\ land[p].kind = "d"
                                                  /\ FileName(p) \notin job.skip}, ByName)
                          \o Tail(todo)
             /\ quiet' = (quiet /\ read)
    BY <1>1 DEF Scan
  <2>2. read /\ quiet
    BY <2>1
  <2> QED BY <2>1, <2>2
<1>5. entries \in SUBSET Places /\ dirs \in SUBSET Places /\ dirs \subseteq entries
      /\ entries \subseteq Children(q)
  BY ChildrenIs
<1>6. ToSet(inHand') = ToSet(inHand) \cup entries /\ ToSet(todo') = dirs \cup ToSet(Tail(todo))
  <2> HIDE DEF entries, dirs
  <2>1. /\ SortedBy(entries, ByName) \in Seq(Places) /\ ToSet(SortedBy(entries, ByName)) = entries
        /\ SortedBy(dirs, ByName) \in Seq(Places) /\ ToSet(SortedBy(dirs, ByName)) = dirs
    BY <1>5, SortedIs
  <2> DEFINE listed == SortedBy(entries, ByName)
             below2 == SortedBy(dirs, ByName)
             rest == Tail(todo)
  <2>2. /\ listed \in Seq(Places) /\ ToSet(listed) = entries /\ inHand' = inHand \o listed
        /\ below2 \in Seq(Places) /\ ToSet(below2) = dirs /\ todo' = below2 \o rest
        /\ rest \in Seq(Places)
    BY <1>2, <1>4, <2>1
  <2> HIDE DEF listed, below2, rest
  <2>3. ToSet(inHand') = ToSet(inHand) \cup entries
    BY <1>3, <2>2, JoinIs
  <2>4. ToSet(todo') = dirs \cup ToSet(rest)
    BY <2>2, JoinIs
  <2> QED BY <2>3, <2>4 DEF rest
<1>7. /\ ToSet(inHand) \subseteq Whole
      /\ \A p \in Whole : p \in ToSet(inHand) \/ \E t \in ToSet(todo) : Seen(t, p)
      /\ \A t \in ToSet(todo) : Entered(t)
  BY <1>3, <1>4 DEF ScanIsRight
<1>8. PICK i \in DOMAIN job.roots :
        /\ IsPrefix(job.roots[i], q)
        /\ \A k \in Len(job.roots[i]) + 1 .. Len(q) : q[k] \notin job.skip
  BY <1>2, <1>7 DEF Entered
<1> DEFINE r == job.roots[i]
<1>9. r \in Places /\ Len(r) \in Nat /\ Len(q) \in Nat /\ Len(r) <= Len(q)
  <2>1. r \in Places
    BY CommandIs DEF FindTypes, ToSet
  <2> QED BY <1>2, <1>8, <2>1, OnOnePath, PlaceIs
<1> HIDE DEF r
<1>10. ASSUME NEW p \in entries
       PROVE  /\ p \in Places /\ There(p) /\ Len(p) = Len(q) + 1 /\ IsPrefix(r, p)
              /\ \A k \in Len(r) + 1 .. Len(q) : p[k] \notin job.skip
  <2>1. p \in Places /\ There(p) /\ Len(p) = Len(q) + 1 /\ IsPrefix(q, p)
    BY <1>5 DEF Children, Under
  <2>2. IsPrefix(r, p)
    BY <1>2, <1>8, <1>9, <2>1, OnOnePath DEF r
  <2>3. \A k \in Len(r) + 1 .. Len(q) : p[k] = q[k]
    <3>1. \A k \in 1 .. Len(q) : q[k] = p[k]
      BY <1>2, <2>1, OnOnePath
    <3> QED BY <1>9, <3>1
  <2> QED BY <1>8, <2>1, <2>2, <2>3 DEF r
<1>11. entries \subseteq Whole
  <2> SUFFICES ASSUME NEW p \in entries PROVE p \in Whole
    OBVIOUS
  <2>1. below
    OBVIOUS
  <2>2. Len(p) > Len(r) /\ Depth(p) - 1 <= DepthLimit /\ Len(p) - 1 = Len(q)
    <3>1. Depth(p) - 1 = Depth(q)
      BY <1>9, <1>10 DEF Depth
    <3> QED BY <1>9, <1>10, <2>1, <3>1
  <2>3. Scanned(p)
    <3> HIDE DEF entries
    <3> QED BY <1>10, <2>2 DEF Scanned, r
  <2> QED BY <1>10, <2>3 DEF Whole
<1>12. ASSUME NEW p \in Whole
       PROVE  p \in ToSet(inHand') \/ \E t \in ToSet(todo') : Seen(t, p)
  <2>1. p \in Places /\ There(p) /\ Len(p) \in Nat
    BY PlaceIs DEF Whole
  <2>2. CASE p \in ToSet(inHand)
    BY <1>6, <2>2
  <2>3. CASE \E t \in ToSet(Tail(todo)) : Seen(t, p)
    BY <1>6, <2>3
  <2>4. CASE Seen(q, p)
    <3>1. /\ Len(q) < Len(p) /\ IsPrefix(q, p) /\ Depth(p) - 1 <= DepthLimit
          /\ \A k \in Len(q) + 1 .. Len(p) - 1 : p[k] \notin job.skip
      BY <2>4 DEF Seen
    <3>2. land[q].kind = "d"
      BY <1>2, <1>3, <2>1, <3>1, WayDown
    <3>3. PICK c \in Children(q) : /\ IsPrefix(c, p) /\ Len(c) = Len(q) + 1
                                   /\ FileName(c) = p[Len(q) + 1]
                                   /\ c # p => land[c].kind = "d"
      BY <1>2, <1>3, <1>9, <2>1, <3>1, WayDown
    <3>4. below
      <4>1. DepthLimit \in Nat
        BY FindAssumption DEF FindAssumption
      <4>2. Depth(q) <= DepthLimit
        BY <1>9, <2>1, <3>1, <4>1 DEF Depth
      <4> QED BY <3>2, <4>2
    <3>5. c \in entries /\ c \in Places
      BY <1>5, <3>3, <3>4
    <3>6. CASE c = p
      BY <1>6, <3>5, <3>6
    <3>7. CASE c # p
      <4>1. Len(c) < Len(p)
        BY <2>1, <3>3, <3>5, <3>7, OnOnePath
      <4>2. p[Len(q) + 1] \notin job.skip
        BY <1>9, <2>1, <3>1, <3>3, <4>1
      <4>3. c \in dirs
        <5> HIDE DEF entries
        <5> QED BY <3>3, <3>5, <3>7, <4>2
      <4>4. \A k \in Len(c) + 1 .. Len(p) - 1 : p[k] \notin job.skip
        <5>1. \A k \in Len(c) + 1 .. Len(p) - 1 : k \in Len(q) + 1 .. Len(p) - 1
          BY <1>9, <2>1, <3>3
        <5> QED BY <3>1, <5>1
      <4>5. Seen(c, p)
        BY <3>1, <3>3, <4>1, <4>4 DEF Seen
      <4> HIDE DEF dirs
      <4> QED BY <1>6, <4>3, <4>5
    <3> QED BY <3>6, <3>7
  <2> QED BY <1>2, <1>7, <2>2, <2>3, <2>4
<1>13. ASSUME NEW t \in ToSet(todo') PROVE Entered(t)
  <2>1. CASE t \in ToSet(Tail(todo))
    BY <1>2, <1>7, <2>1
  <2>2. CASE t \in dirs
    <3>1. t \in entries /\ FileName(t) \notin job.skip
      BY <2>2
    <3>2. /\ t \in Places /\ Len(t) = Len(q) + 1 /\ IsPrefix(r, t)
          /\ \A k \in Len(r) + 1 .. Len(q) : t[k] \notin job.skip
      <4> HIDE DEF entries
      <4> QED BY <1>10, <3>1
    <3>3. \A k \in Len(r) + 1 .. Len(t) : k \in Len(r) + 1 .. Len(q) \/ k = Len(t)
      BY <1>9, <3>2
    <3>4. t[Len(t)] \notin job.skip
      BY <3>1, <3>2, NameIs
    <3>5. \A k \in Len(r) + 1 .. Len(t) : t[k] \notin job.skip
      BY <3>2, <3>3, <3>4
    <3> QED BY <3>2, <3>5 DEF Entered, r
  <2> HIDE DEF dirs
  <2> QED BY <1>6, <2>1, <2>2
<1> HIDE DEF entries, dirs
<1>14. ToSet(inHand') \subseteq Whole
  BY <1>6, <1>7, <1>11
<1> QED BY <1>3, <1>12, <1>13, <1>14, ScanStays DEF ScanIsRight

LEMMA ScanEnds ==
  ASSUME FindTypes, ScanIsRight, Create \/ WriteIndex
  PROVE  ScanIsRight'
<1>1. job' = job /\ land' = land /\ quiet' = quiet
  BY DEF Create, WriteIndex
<1>2. Whole' = Whole
  BY <1>1, ScanStays
<1>3. CASE Create
  <2>1. /\ findStep = "scan" /\ todo = <<>>
        /\ \/ findStep' = "write" /\ inHand' = SortedBy(ToSet(inHand), ByText)
           \/ findStep' = "error"
    BY <1>3 DEF Create
  <2>2. ToSet(SortedBy(ToSet(inHand), ByText)) = ToSet(inHand)
    BY SortedIs, ToSetIs DEF FindTypes
  <2>3. quiet => ToSet(inHand) = Whole
    BY <2>1, ToSetIs DEF ScanIsRight
  <2> QED BY <1>1, <1>2, <2>1, <2>2, <2>3 DEF ScanIsRight
<1>4. CASE WriteIndex
  <2>1. /\ findStep = "write" /\ findStep' = "done" /\ index' = [lines |-> inHand, whole |-> TRUE]
    BY <1>4 DEF WriteIndex
  <2>2. Listed' = ToSet(inHand) /\ index'.whole
    BY <2>1 DEF Listed
  <2>3. quiet => ToSet(inHand) = Whole
    BY <2>1 DEF ScanIsRight
  <2> QED BY <1>1, <1>2, <2>1, <2>2, <2>3 DEF ScanIsRight
<1> QED BY <1>3, <1>4

LEMMA ScanElsewhere ==
  ASSUME FindTypes, ScanIsRight,
         \/ Walk \/ CutShort \/ OpenIndex \/ Read \/ End \/ Others \/ NextCommand
         \/ UNCHANGED findVars
  PROVE  ScanIsRight'
<1>1. CASE Walk \/ CutShort \/ OpenIndex \/ Read \/ NextCommand
  <2>1. findStep' \notin {"scan", "write", "done"}
    BY <1>1 DEF Walk, CutShort, OpenIndex, Read, NextCommand
  <2> QED BY <2>1 DEF ScanIsRight
<1>2. CASE End
  <2>1. findStep' = "done" /\ job' = job /\ findStep \in {"walk", "read"}
    BY <1>2 DEF End
  <2>2. job.mode # "scan"
    BY <2>1, StepNames DEF FindTypes
  <2> QED BY <2>1, <2>2 DEF ScanIsRight
<1>3. CASE Others
  BY <1>3 DEF Others, ScanIsRight
<1>4. CASE UNCHANGED findVars
  <2>1. /\ job' = job /\ land' = land /\ quiet' = quiet /\ findStep' = findStep /\ inHand' = inHand
        /\ todo' = todo /\ index' = index
    BY <1>4 DEF findVars
  <2>2. Listed' = Listed
    BY <2>1 DEF Listed
  <2> QED BY <2>1, <2>2, ScanStays DEF ScanIsRight
<1> QED BY <1>1, <1>2, <1>3, <1>4

LEMMA ScanIsWhole ==
  ASSUME ScanIsRight
  PROVE  IndexIsWhole
BY DEF ScanIsRight, IndexIsWhole, Whole

-----------------------------------------------------------------------------
(* A search of the index.                                                  *)
LEMMA DesiredIs ==
  ASSUME FindTypes, NEW p \in Places
  PROVE  p \in Desired <=> Wanted(p)
<1>1. land[p] \in Stats
  BY DEF FindTypes, LandIs
<1>2. (job.tool = "sfind" => \A meta \in Stats : meta = land[p] => Asked(p, meta))
        <=> (job.tool = "sfind" => Asked(p, land[p]))
  BY <1>1
<1>3. (Existing => There(p)) <=> (job.tool = "sfind" \/ job.existing => There(p))
  BY DEF Existing
<1> QED BY <1>2, <1>3 DEF Desired, Wanted

(* A pattern of letters is matched by the text they spell alone.           *)
LEMMA LettersMatch ==
  ASSUME IsCommand(job), ~Starred, NEW S, NEW text \in Seq(S), NEW sep
  PROVE  IsGlobOf(job.pat, text, sep) <=> text = Spelled
<1> DEFINE pat == job.pat
           n == Len(pat)
           m == Len(text)
<1>1. /\ n \in Nat /\ DOMAIN pat = 1 .. n /\ m \in Nat /\ DOMAIN text = 1 .. m
      /\ \A i \in 1 .. n : pat[i].wild = "in" /\ \E l : pat[i] = In({l})
  <2>1. pat \in Seq(ToSet(pat))
    BY DEF IsCommand, IsPattern
  <2>2. n \in Nat /\ DOMAIN pat = 1 .. n
    <3> DEFINE Q == ToSet(pat)
    <3>1. pat \in Seq(Q)
      BY <2>1
    <3> HIDE DEF Q
    <3> QED BY <3>1
  <2>3. \A i \in DOMAIN pat : pat[i].wild = "in" /\ \E l : pat[i] = In({l})
    BY DEF IsCommand, Starred
  <2>4. m \in Nat /\ DOMAIN text = 1 .. m
    OBVIOUS
  <2> HIDE DEF pat, m, n
  <2> QED BY <2>2, <2>3, <2>4
<1>2. /\ DOMAIN Spelled = 1 .. n /\ Len(Spelled) = n
      /\ \A i \in 1 .. n : pat[i].wild = "in" /\ pat[i].letters = {Spelled[i]}
      /\ Spelled = [i \in 1 .. n |-> Spelled[i]]
  <2>1. Spelled = [i \in 1 .. n |-> CHOOSE l \in pat[i].letters : TRUE]
    BY <1>1 DEF Spelled
  <2>2. ASSUME NEW i \in 1 .. n PROVE pat[i].letters = {Spelled[i]}
    <3>1. PICK l : pat[i] = In({l})
      BY <1>1
    <3>2. pat[i].letters = {l}
      BY <3>1 DEF In
    <3>3. Spelled[i] = CHOOSE k \in pat[i].letters : TRUE
      BY <2>1
    <3> QED BY <3>2, <3>3
  <2> HIDE DEF pat
  <2>3. DOMAIN Spelled = 1 .. n /\ Spelled = [i \in 1 .. n |-> Spelled[i]]
    BY <2>1
  <2> HIDE DEF n
  <2> QED BY <1>1, <2>2, <2>3
<1> DEFINE Cut(cut) == /\ cut[0] = 0 /\ cut[n] = m
                       /\ \A i \in 1 .. n :
                            /\ cut[i - 1] <= cut[i]
                            /\ Fits(SubSeq(text, cut[i - 1] + 1, cut[i]), pat[i], sep)
<1>3. IsGlobOf(pat, text, sep) <=> \E cut \in [0 .. n -> 0 .. m] : Cut(cut)
  BY <1>1 DEF IsGlobOf
<1>4. ASSUME NEW cut \in [0 .. n -> 0 .. m], NEW i \in 1 .. n, cut[i - 1] <= cut[i]
      PROVE  Fits(SubSeq(text, cut[i - 1] + 1, cut[i]), pat[i], sep)
               <=> /\ cut[i] = cut[i - 1] + 1
                   /\ \A l \in cut[i - 1] + 1 .. cut[i] : text[l] = Spelled[i]
  <2>1. i - 1 \in 0 .. n /\ i \in 0 .. n
    BY <1>1
  <2>2. cut[i - 1] \in 0 .. Len(text) /\ cut[i] \in 0 .. Len(text)
    BY <2>1
  <2>3. Fits(SubSeq(text, cut[i - 1] + 1, cut[i]), pat[i], sep)
          <=> /\ pat[i].wild # "star" => cut[i] = cut[i - 1] + 1
              /\ \A l \in cut[i - 1] + 1 .. cut[i] : Takes(pat[i], text[l], sep)
    <3> DEFINE a == cut[i - 1]
               b == cut[i]
    <3>1. a \in 0 .. Len(text) /\ b \in 0 .. Len(text) /\ a <= b
      BY <1>4, <2>2
    <3> HIDE DEF a, b, pat, m, n
    <3>2. Fits(SubSeq(text, a + 1, b), pat[i], sep)
            <=> /\ pat[i].wild # "star" => b = a + 1
                /\ \A l \in a + 1 .. b : Takes(pat[i], text[l], sep)
      BY <3>1, FitsAt
    <3> QED BY <3>2 DEF a, b
  <2>4. pat[i].wild = "in" /\ \A l : Takes(pat[i], text[l], sep) <=> text[l] = Spelled[i]
    <3> HIDE DEF pat, n
    <3> QED BY <1>2 DEF Takes
  <2> HIDE DEF pat, n, m
  <2> QED BY <2>3, <2>4
<1> HIDE DEF pat
<1>5. ASSUME NEW cut \in [0 .. n -> 0 .. m], Cut(cut) PROVE text = Spelled
  <2>1. \A i \in 1 .. n : /\ cut[i] = cut[i - 1] + 1
                          /\ \A l \in cut[i - 1] + 1 .. cut[i] : text[l] = Spelled[i]
    <3> HIDE DEF n, m
    <3> QED BY <1>4, <1>5
  <2> DEFINE P == {k \in 0 .. n : cut[k] = k}
  <2>2. 0 \in P /\ \A k \in 1 .. n : k - 1 \in P => k \in P
    <3>1. 0 \in P
      BY <1>1, <1>5
    <3>2. ASSUME NEW k \in 1 .. n, k - 1 \in P PROVE k \in P
      <4>1. cut[k - 1] = k - 1 /\ cut[k] = cut[k - 1] + 1 /\ k \in 0 .. n
        BY <1>1, <2>1, <3>2
      <4> QED BY <4>1
    <3> HIDE DEF P
    <3> QED BY <3>1, <3>2
  <2>3. P = 0 .. n
    <3>1. P \in SUBSET (0 .. n)
      OBVIOUS
    <3> HIDE DEF P, n
    <3> QED BY <1>1, <2>2, <3>1, StepByStep
  <2>4. \A k \in 0 .. n : cut[k] = k
    <3> HIDE DEF n
    <3> QED BY <2>3
  <2>5. m = n
    <3>1. n \in 0 .. n
      BY <1>1
    <3> HIDE DEF n, m
    <3> QED BY <1>5, <2>4, <3>1
  <2>6. ASSUME NEW i \in 1 .. n PROVE text[i] = Spelled[i]
    <3>1. i - 1 \in 0 .. n /\ i \in (i - 1) + 1 .. i
      BY <1>1
    <3>2. cut[i] = i /\ cut[i - 1] = i - 1
      BY <1>1, <2>4, <3>1
    <3> HIDE DEF n
    <3> QED BY <2>1, <3>1, <3>2
  <2>7. text = [i \in 1 .. m |-> text[i]]
    BY <1>1
  <2> HIDE DEF n, m
  <2> QED BY <1>2, <2>5, <2>6, <2>7
<1>6. ASSUME text = Spelled PROVE \E cut \in [0 .. n -> 0 .. m] : Cut(cut)
  <2> DEFINE cut == [k \in 0 .. n |-> k]
  <2>1. m = n
    BY <1>2, <1>6
  <2>2. cut \in [0 .. n -> 0 .. m] /\ cut[0] = 0 /\ cut[n] = m
    BY <1>1, <2>1
  <2>3. ASSUME NEW i \in 1 .. n
        PROVE  /\ cut[i - 1] <= cut[i]
               /\ Fits(SubSeq(text, cut[i - 1] + 1, cut[i]), pat[i], sep)
    <3>1. cut[i - 1] = i - 1 /\ cut[i] = i /\ i = (i - 1) + 1 /\ i - 1 <= i
      BY <1>1
    <3>2. \A l \in (i - 1) + 1 .. i : text[l] = Spelled[i]
      BY <1>1, <1>6
    <3> HIDE DEF cut, n, m
    <3>3. /\ cut[i - 1] <= cut[i] /\ cut[i] = cut[i - 1] + 1
          /\ \A l \in cut[i - 1] + 1 .. cut[i] : text[l] = Spelled[i]
      BY <3>1, <3>2
    <3> QED BY <1>4, <2>2, <3>3
  <2> HIDE DEF cut, n, m
  <2> QED BY <2>2, <2>3
<1> HIDE DEF Cut, n, m
<1>7. IsGlobOf(pat, text, sep) <=> text = Spelled
  BY <1>3, <1>5, <1>6
<1> QED BY <1>7 DEF pat

(* What a line matches is wanted, and what is wanted it matches unless     *)
(* there is a bracket.                                                     *)
WantedBy(p) == IF Starred THEN IsGlobOf(job.pat, Subject(p), TRUE) ELSE HasPart(Subject(p), Spelled)
LEMMA HitIs ==
  ASSUME IsCommand(job), NEW p \in Places
  PROVE  /\ Hit(p) => WantedBy(p)
         /\ WantedBy(p) => Hit(p) \/ Bracketed(p)
<1>1. Subject(p) \in Seq(Letter)
  BY NameIs, TextIs DEF Subject
<1>2. IsPattern(job.pat)
  BY DEF IsCommand
<1>3. GlobMatch(job.pat, Subject(p), TRUE) = IsGlobOf(job.pat, Subject(p), TRUE)
  BY <1>1, <1>2, GlobIs
<1>4. CASE Starred
  <2>1. UseGlob
    BY <1>4 DEF Starred, UseGlob
  <2> QED BY <1>3, <1>4, <2>1 DEF Hit, GlobBytes, WantedBy
<1>5. CASE ~Starred /\ UseGlob
  <2>1. Hit(p) <=> Subject(p) = Spelled
    BY <1>1, <1>3, <1>5, LettersMatch DEF Hit, GlobBytes
  <2>2. "[" \in ToSet(Spelled)
    <3>1. PICK i \in DOMAIN job.pat : job.pat[i] = In({"["})
      BY <1>5 DEF Starred, UseGlob
    <3>2. job.pat[i].letters = {"["}
      BY <3>1 DEF In
    <3>3. i \in DOMAIN Spelled /\ Spelled[i] = "["
      BY <3>2 DEF Spelled
    <3> QED BY <3>3 DEF ToSet
  <2>3. HasPart(Subject(p), Subject(p))
    <3> DEFINE t == Subject(p)
    <3>1. t \in Seq(Letter)
      BY <1>1
    <3> HIDE DEF t
    <3>2. Len(t) \in Nat /\ SubSeq(t, 0 + 1, 0 + Len(t)) = t /\ 0 \in 0 .. Len(t) - Len(t)
      BY <3>1
    <3>3. HasPart(t, t)
      BY <3>2 DEF HasPart
    <3> QED BY <3>3 DEF t
  <2> QED BY <1>5, <2>1, <2>2, <2>3 DEF WantedBy, Bracketed
<1>6. CASE ~Starred /\ ~UseGlob
  BY <1>6 DEF Hit, WantedBy
<1> QED BY <1>4, <1>5, <1>6

LEMMA DesiredStays ==
  ASSUME IsCommand(job), job' = job, land' = land
  PROVE  Desired' = Desired /\ \A p : Bracketed(p)' <=> Bracketed(p)
<1>1. \A p, meta : Asked(p, meta)' <=> Asked(p, meta)
  BY AskedStays
<1>2. (Starred' <=> Starred) /\ (Existing' <=> Existing) /\ Spelled' = Spelled
  BY DEF Starred, Existing, Spelled
<1>3. \A p : Subject(p)' = Subject(p) /\ (There(p)' <=> There(p))
  BY DEF Subject, There
<1> QED BY <1>1, <1>2, <1>3 DEF Desired, Bracketed

LEMMA SearchBegins ==
  ASSUME FindTypes, OpenIndex
  PROVE  SearchIsRight'
<1>1. /\ acts' = acts /\ acts = <<>> /\ inHand' = index.lines /\ index' = index
      /\ findStep' = "read" /\ job' = job
  BY DEF OpenIndex, FindTypes
<1>2. Listed' = Listed /\ ToSet(inHand') = Listed /\ ToSet(acts') = {} /\ Acted' = {}
  <2>1. DOMAIN <<>> = {}
    OBVIOUS
  <2> QED BY <1>1, <2>1, ToSetIs DEF Listed, Acted
<1>3. \A n \in job.limit : Len(acts') <= IF n = 0 THEN 1 ELSE n
  <2>1. Len(acts') = 0
    BY <1>1
  <2>2. job.limit \subseteq Nat
    BY CommandIs DEF FindTypes, IsCommand
  <2> QED BY <2>1, <2>2
<1> QED BY <1>1, <1>2, <1>3 DEF SearchIsRight

(* A line is read.                                                         *)
LEMMA SearchKeeps ==
  ASSUME FindTypes, SearchIsRight, Read
  PROVE  SearchIsRight'
<1>1. PICK p : p = Head(inHand)
  OBVIOUS
<1> DEFINE found == /\ Hit(p) /\ (Existing => There(p))
                    /\ job.tool = "sfind" => Eval(p, land[p])
           deed == [path |-> p, meta |-> land[p]]
<1>2. /\ p \in Places /\ ToSet(inHand) = {p} \cup ToSet(Tail(inHand)) /\ land[p] \in Stats
      /\ ToSet(inHand) \subseteq Places
  BY <1>1, RestIs, ToSetIs DEF Read, FindTypes, LandIs
<1>3. /\ job' = job /\ pred' = pred /\ index' = index /\ quiet' = quiet /\ findStep = "read"
      /\ findStep' = "read" /\ inHand' = Tail(inHand)
      /\ IF found THEN Act(p, land[p]) ELSE Pass
  BY <1>1 DEF Read, Existing
<1>4. IsCommand(job) /\ job.mode = "search" /\ pred = Meant /\ ~pred.error
  BY <1>3, CommandIs, StepNames DEF FindTypes
<1>5. /\ ToSet(inHand) \subseteq Listed /\ Acted \subseteq Listed
      /\ \A d \in ToSet(acts) : Existing => d.meta # Gone
      /\ \A n \in job.limit : Len(acts) <= IF n = 0 THEN 1 ELSE n
      /\ quiet /\ pred.action # "delete" =>
           /\ Acted \subseteq Desired
           /\ \A q \in Listed \cap Desired : q \in Acted \cup ToSet(inHand) \/ Bracketed(q)
  BY <1>3, <1>4 DEF SearchIsRight
<1>6. Listed' = Listed /\ (Existing' <=> Existing)
  BY <1>3 DEF Listed, Existing
<1>7. /\ Acted' = IF found THEN Acted \cup {p} ELSE Acted
      /\ ToSet(acts') = IF found THEN ToSet(acts) \cup {deed} ELSE ToSet(acts)
  <2>1. CASE found
    <3>1. deed \in Deeds /\ acts \in Seq(Deeds) /\ acts' = Append(acts, deed)
      BY <1>2, <1>3, <2>1 DEF Act, Deeds, FindTypes
    <3>2. deed.path = p
      OBVIOUS
    <3> HIDE DEF deed, found
    <3>3. /\ DOMAIN acts' = DOMAIN acts \cup {Len(acts) + 1}
          /\ \A i \in DOMAIN acts : acts'[i] = acts[i]
          /\ acts'[Len(acts) + 1] = deed
      BY <3>1, AppendIs
    <3>4. Acted' = Acted \cup {p}
      BY <3>2, <3>3 DEF Acted
    <3>5. ToSet(acts') = ToSet(acts) \cup {deed}
      BY <3>3 DEF ToSet
    <3> QED BY <2>1, <3>4, <3>5
  <2>2. CASE ~found
    <3>1. acts' = acts
      BY <1>3, <2>2 DEF Pass
    <3> HIDE DEF found
    <3> QED BY <2>2, <3>1 DEF Acted
  <2> QED BY <2>1, <2>2
<1>8. deed.meta = land[p] /\ (found /\ Existing => land[p] # Gone)
  BY DEF There
<1>9. /\ found => p \in Desired
      /\ p \in Desired => found \/ Bracketed(p)
  <2>1. (Hit(p) => WantedBy(p)) /\ (WantedBy(p) => Hit(p) \/ Bracketed(p))
    BY <1>2, <1>4, HitIs
  <2>2. job.tool = "sfind" => (Eval(p, land[p]) <=> Asked(p, land[p]))
    BY <1>2, <1>4, EvalIsAsked
  <2>3. (Existing => There(p)) <=> (job.tool = "sfind" \/ job.existing => There(p))
    BY DEF Existing
  <2>4. (found => Wanted(p)) /\ (Wanted(p) => found \/ Bracketed(p))
    BY <2>1, <2>2, <2>3 DEF Wanted, WantedBy
  <2> HIDE DEF found
  <2> QED BY <1>2, <2>4, DesiredIs
<1> HIDE DEF found, deed
<1>10. ASSUME quiet, pred.action # "delete"
       PROVE  /\ Acted' \subseteq Desired'
              /\ \A q \in Listed' \cap Desired' :
                   q \in Acted' \cup ToSet(inHand') \/ Bracketed(q)'
  <2>1. land' = land
    BY <1>2, <1>3, <1>10, ActLeaves DEF FindTypes
  <2>2. Desired' = Desired /\ \A q : Bracketed(q)' <=> Bracketed(q)
    BY <1>3, <1>4, <2>1, DesiredStays
  <2> QED BY <1>2, <1>3, <1>5, <1>6, <1>7, <1>9, <1>10, <2>2
<1>11. ToSet(inHand') \subseteq Listed' /\ Acted' \subseteq Listed'
  BY <1>2, <1>3, <1>5, <1>6, <1>7
<1>12. \A d \in ToSet(acts') : Existing' => d.meta # Gone
  BY <1>5, <1>6, <1>7, <1>8
<1>13. \A n \in job.limit : Len(acts') <= IF n = 0 THEN 1 ELSE n
  <2>1. ~(acts # <<>> /\ \E n \in job.limit : Len(acts) >= n)
    BY DEF Read, Full
  <2>2. acts \in Seq(Deeds) /\ deed \in Deeds /\ job.limit \subseteq Nat
    BY <1>2, <1>4 DEF FindTypes, Deeds, deed, IsCommand
  <2>3. acts' = acts \/ acts' = Append(acts, deed)
    BY <1>3 DEF Act, Pass, deed
  <2> DEFINE D == Deeds
  <2>4. acts \in Seq(D) /\ deed \in D
    BY <2>2
  <2> HIDE DEF D
  <2>5. /\ Len(acts) \in Nat /\ (acts = <<>> <=> Len(acts) = 0)
        /\ Len(acts') = Len(acts) \/ Len(acts') = Len(acts) + 1
    BY <2>3, <2>4
  <2>6. ASSUME NEW n \in job.limit PROVE Len(acts') <= IF n = 0 THEN 1 ELSE n
    <3>1. n \in Nat /\ Len(acts) <= (IF n = 0 THEN 1 ELSE n)
      BY <1>5, <2>2
    <3>2. Len(acts) = 0 \/ ~(Len(acts) >= n)
      BY <2>1, <2>5
    <3> QED BY <2>5, <3>1, <3>2
  <2> QED BY <2>6
<1> QED BY <1>3, <1>10, <1>11, <1>12, <1>13 DEF SearchIsRight

LEMMA SearchRests ==
  ASSUME FindTypes, SearchIsRight, End \/ Others \/ UNCHANGED findVars
  PROVE  SearchIsRight'
<1> SUFFICES ASSUME job'.mode = "search", findStep' \in {"read", "done"} PROVE SearchIsRight'
  BY DEF SearchIsRight
<1>1. /\ job' = job /\ pred' = pred /\ acts' = acts /\ inHand' = inHand /\ index' = index
      /\ quiet' => quiet /\ land' = land
      /\ findStep \in {"read", "done"}
      /\ findStep' = "done" => findStep = "done" \/ inHand = <<>> \/ Full
  <2>1. CASE End
    <3>1. job' = job /\ job.mode \in ModeOf(findStep) /\ findStep \in {"walk", "read"}
      BY <2>1 DEF End, FindTypes
    <3>2. findStep = "read"
      BY <3>1, StepNames
    <3> QED BY <2>1, <3>2 DEF End
  <2>2. CASE Others
    BY <2>2 DEF Others
  <2>3. CASE UNCHANGED findVars
    BY <2>3 DEF findVars
  <2> QED BY <2>1, <2>2, <2>3
<1>2. /\ ToSet(inHand) \subseteq Listed /\ Acted \subseteq Listed
      /\ \A deed \in ToSet(acts) : Existing => deed.meta # Gone
      /\ \A n \in job.limit : Len(acts) <= IF n = 0 THEN 1 ELSE n
      /\ quiet /\ pred.action # "delete" =>
           /\ Acted \subseteq Desired
           /\ \A q \in Listed \cap Desired : q \in Acted \cup ToSet(inHand) \/ Bracketed(q)
      /\ findStep = "done" => inHand = <<>> \/ Full
  BY <1>1 DEF SearchIsRight
<1>3. Listed' = Listed /\ Acted' = Acted /\ (Existing' <=> Existing) /\ (Full' <=> Full)
  BY <1>1 DEF Listed, Acted, Existing, Full
<1>4. quiet' => Desired' = Desired /\ \A p : Bracketed(p)' <=> Bracketed(p)
  BY <1>1, CommandIs, DesiredStays DEF FindTypes
<1> QED BY <1>1, <1>2, <1>3, <1>4 DEF SearchIsRight

LEMMA SearchElsewhere ==
  ASSUME FindTypes,
         \/ ReadCommand \/ Walk \/ Scan \/ Create \/ WriteIndex \/ CutShort \/ NextCommand
  PROVE  SearchIsRight'
<1>1. ~(job'.mode = "search" /\ findStep' \in {"read", "done"})
  <2>1. CASE ReadCommand
    <3>1. findStep' \in {"walk", "scan", "search", "refused"}
      BY <2>1, CommandIs DEF ReadCommand, FindTypes
    <3> QED BY <3>1
  <2>2. CASE WriteIndex
    <3>1. job' = job /\ findStep = "write" /\ job.mode \in ModeOf(findStep)
      BY <2>2 DEF WriteIndex, FindTypes
    <3> QED BY <3>1, StepNames
  <2> QED BY <2>1, <2>2 DEF Walk, Scan, Create, CutShort, NextCommand
<1> QED BY <1>1 DEF SearchIsRight

(* What that says at the end of a search.                                  *)
LEMMA SearchGives ==
  ASSUME FindTypes, SearchIsRight
  PROVE  SearchIsTrue
<1> SUFFICES ASSUME findStep = "done", job.mode = "search" PROVE SearchIsTrue
  BY DEF SearchIsTrue
<1>1. /\ Acted \subseteq Listed
      /\ \A deed \in ToSet(acts) : Existing => deed.meta # Gone
      /\ \A n \in job.limit : Len(acts) <= IF n = 0 THEN 1 ELSE n
      /\ quiet /\ pred.action # "delete" =>
           /\ Acted \subseteq Desired
           /\ \A q \in Listed \cap Desired : q \in Acted \cup ToSet(inHand) \/ Bracketed(q)
      /\ inHand = <<>> \/ Full
  BY DEF SearchIsRight
<1>2. \A i \in DOMAIN acts : (job.tool = "sfind" \/ job.existing) => acts[i].meta # Gone
  BY <1>1 DEF ToSet, Existing
<1>3. Listed \subseteq Places
  BY ToSetIs DEF Listed, FindTypes
<1>4. ToSet(inHand) = {} \/ \E n \in job.limit : Len(acts) >= n
  BY <1>1, ToSetIs DEF Full
<1> QED BY <1>1, <1>2, <1>3, <1>4, DesiredIs DEF SearchIsTrue

(* Nothing is done for a command line that is refused, and it has a reason.*)
LEMMA RefusalIsRight ==
  ASSUME FindTypes
  PROVE  RefusedForCause
<1> SUFFICES ASSUME findStep = "refused" PROVE RefusedForCause
  BY DEF RefusedForCause
<1> DEFINE words == job.tokens
           W == ToSet(words)
<1>1. IsCommand(job) /\ acts = <<>> /\ Meant.error
  BY CommandIs DEF FindTypes
<1>2. job.tool = "sfind"
  BY <1>1 DEF Meant, Fresh
<1>3. words \in Seq(W) /\ (\A i \in DOMAIN words : IsWord(words[i])) /\ Expression(words).error
  BY <1>1, <1>2 DEF IsCommand, Meant
<1>4. Unreadable(words)
  <2> HIDE DEF words, W
  <2> QED BY <1>3, ExpressionReads
<1>5. PICK i \in DOMAIN words :
        words[i].tok = "not" /\ (i = Len(words) \/ words[i + 1].tok \notin MayNegate)
  BY <1>4 DEF Unreadable
<1>6. i = Len(words) \/ i + 1 \in DOMAIN words
  <2> HIDE DEF words, W
  <2>1. DOMAIN words = 1 .. Len(words) /\ Len(words) \in Nat
    BY <1>3
  <2> QED BY <2>1
<1>7. i = Len(words) \/ ~IsTest(i + 1) \/ words[i + 1].tok \in MayNotNegate
  BY <1>3, <1>5, <1>6 DEF IsTest, IsWord, Words
<1> QED BY <1>1, <1>2, <1>5, <1>7 DEF RefusedForCause, Words

-----------------------------------------------------------------------------
(* A walk is exact, a search true and an index whole.                      *)
LEMMA FindInvInit ==
  ASSUME FindInit
  PROVE  FindInv
<1>1. findStep = "parse"
  BY DEF FindInit
<1> QED BY <1>1, TypesInit DEF FindInv, WalkIsRight, ScanIsRight, SearchIsRight

LEMMA FindInvStep ==
  ASSUME FindInv, [FindNext]_findVars
  PROVE  FindInv'
<1>1. FindTypes /\ WalkIsRight /\ ScanIsRight /\ SearchIsRight
  BY DEF FindInv
<1>2. FindTypes'
  BY <1>1, TypesStep
<1>3. WalkIsRight'
  BY <1>1, WalkBegins, WalkKeeps, WalkRests, WalkElsewhere DEF FindNext
<1>4. ScanIsRight'
  BY <1>1, ScanBegins, ScanKeeps, ScanEnds, ScanElsewhere DEF FindNext
<1>5. SearchIsRight'
  BY <1>1, SearchBegins, SearchKeeps, SearchRests, SearchElsewhere DEF FindNext
<1> QED BY <1>2, <1>3, <1>4, <1>5 DEF FindInv

(* Whatever others do meanwhile, sfind acts on what the expression asks    *)
(* for, and misses nothing of it when it is left in peace; so does a search*)
(* of an index, but for letters with a bracket among them, and an index    *)
(* that is written to its end has all there is.  A command line is refused *)
(* for a "not" without a test, or with one of those that take none.        *)
THEOREM FindIsTrueTheorem == FindSpec => []FindIsTrue
<1>1. FindInit => FindInv
  BY FindInvInit
<1>2. FindInv /\ [FindNext]_findVars => FindInv'
  BY FindInvStep
<1>3. FindInv => FindIsTrue
  BY WalkIsExact, ScanIsWhole, SearchGives, RefusalIsRight DEF FindInv, FindIsTrue
<1> QED BY <1>1, <1>2, <1>3, PTL DEF FindSpec
=============================================================================
