----------------------------- MODULE CodecProofs -----------------------------
(***************************************************************************)
(* Proofs about Codec, for any values, types, addresses and width of an    *)
(* int.  First the address: the loop of split_str is proved to find the    *)
(* runs between the delimiters, by induction over the characters it has    *)
(* read, and what run_server takes from an address follows from where the  *)
(* parts of the address stand in its text.  Then the call: a value is a    *)
(* tree, and what the codec does to it is proved path by path, so that no  *)
(* induction over its depth is needed.                                     *)
(***************************************************************************)
EXTENDS Codec, FiniteSetTheorems, WellFoundedInduction, TLAPS


-----------------------------------------------------------------------------
(* split_str.                                                              *)

LEMMA Counting ==
  ASSUME NEW T, 0 \in T, \A n \in Nat : n \in T => n + 1 \in T
  PROVE  Nat \subseteq T
<1> DEFINE R == {p \in Nat \X Nat : p[1] < p[2]}
<1> SUFFICES ASSUME Nat \ T # {} PROVE FALSE
  OBVIOUS
<1>1. IsWellFoundedOn(R, Nat)
  <2>1. R = OpToRel(<, Nat)
    BY DEF OpToRel
  <2> QED BY <2>1, NatLessThanWellFounded
<1>2. PICK x \in Nat \ T : \A y \in Nat \ T : <<y, x>> \notin R
  <2> HIDE DEF R
  <2> QED BY <1>1, WFMin
<1>3. x # 0 /\ x - 1 \in Nat /\ x - 1 + 1 = x
  BY <1>2
<1>4. x - 1 \in Nat \ T
  BY <1>2, <1>3
<1>5. <<x - 1, x>> \in R
  BY <1>2, <1>3
<1> QED BY <1>2, <1>4, <1>5

Started == [done |-> <<>>, token |-> <<>>]

\* f[i] is the state of the loop of split_str after i characters.
Scans(f, str, d, n) ==
  f = [i \in 0..n |-> IF i = 0 THEN Started ELSE Char(f[i - 1], str[i], d)]

LEMMA ScanExists ==
  ASSUME NEW str, NEW d
  PROVE  \A n \in Nat : \E f : Scans(f, str, d, n)
<1> DEFINE T == {n \in Nat : \E f : Scans(f, str, d, n)}
<1>1. 0 \in T
  <2> DEFINE f == [i \in 0..0 |-> Started]
  <2>1. f = [i \in 0..0 |-> IF i = 0 THEN Started ELSE Char(f[i - 1], str[i], d)]
    OBVIOUS
  <2> HIDE DEF f
  <2>2. Scans(f, str, d, 0)
    BY <2>1, Zenon DEF Scans
  <2> QED BY <2>2
<1>2. ASSUME NEW n \in Nat, n \in T PROVE n + 1 \in T
  <2>1. PICK f : Scans(f, str, d, n)
    BY <1>2
  <2> DEFINE g == [i \in 0..n + 1 |-> IF i <= n THEN f[i] ELSE Char(f[n], str[n + 1], d)]
  <2>2. ASSUME NEW i \in 0..n + 1
        PROVE  g[i] = IF i = 0 THEN Started ELSE Char(g[i - 1], str[i], d)
    <3>1. CASE i = 0
      BY <2>1, <3>1 DEF Scans
    <3>2. CASE i # 0 /\ i <= n
      <4>1. i - 1 \in 0..n + 1 /\ i - 1 <= n
        BY <3>2
      <4>2. g[i] = f[i] /\ g[i - 1] = f[i - 1]
        BY <3>2, <4>1
      <4> HIDE DEF g
      <4>3. f[i] = Char(f[i - 1], str[i], d)
        BY <2>1, <3>2 DEF Scans
      <4> QED BY <3>2, <4>2, <4>3
    <3>3. CASE i = n + 1
      <4>1. g[i] = Char(f[n], str[n + 1], d) /\ g[i - 1] = f[n]
        BY <3>3
      <4> HIDE DEF g
      <4> QED BY <3>3, <4>1
    <3> QED BY <3>1, <3>2, <3>3
  <2>3. g = [i \in 0..n + 1 |-> g[i]]
    OBVIOUS
  <2> HIDE DEF g
  <2>4. g = [i \in 0..n + 1 |-> IF i = 0 THEN Started ELSE Char(g[i - 1], str[i], d)]
    BY <2>2, <2>3
  <2>5. Scans(g, str, d, n + 1)
    BY <2>4, Zenon DEF Scans
  <2> QED BY <2>5
<1> HIDE DEF T
<1>3. Nat \subseteq T
  BY <1>1, <1>2, Counting
<1> QED BY <1>3 DEF T

LEMMA SplitScan ==
  ASSUME NEW S, NEW str \in Seq(S), NEW d
  PROVE  \E f : Scans(f, str, d, Len(str)) /\ SplitStr(str, d) = Char(f[Len(str)], d, d).done
<1> DEFINE f == CHOOSE f : Scans(f, str, d, Len(str))
<1>1. Scans(f, str, d, Len(str))
  <2>1. Len(str) \in Nat
    OBVIOUS
  <2> QED BY <2>1, ScanExists, Zenon
<1>2. SplitStr(str, d) = Char(f[Len(str)], d, d).done
  BY Zenon DEF SplitStr, Scans, Started
<1> HIDE DEF f
<1> QED BY <1>1, <1>2

LEMMA Ranks ==
  ASSUME NEW S, NEW str \in Seq(S), NEW d
  PROVE  /\ Rank(str, d, 0) = 0
         /\ Rank(str, d, Len(str)) = Cardinality(Begins(str, d))
         /\ \A n \in Nat :
              /\ Rank(str, d, n) \in Nat
              /\ Rank(str, d, n + 1) =
                   IF n + 1 \in Begins(str, d) THEN Rank(str, d, n) + 1 ELSE Rank(str, d, n)
<1> DEFINE B(n) == {j \in Begins(str, d) : j <= n}
<1>1. Begins(str, d) \subseteq 1..Len(str)
  BY DEF Begins
<1>2. B(0) = {} /\ B(Len(str)) = Begins(str, d)
  BY <1>1
<1>3. ASSUME NEW n \in Nat PROVE IsFiniteSet(B(n)) /\ Cardinality(B(n)) \in Nat
  <2>1. B(n) \in SUBSET (1..Len(str)) /\ IsFiniteSet(1..Len(str))
    BY <1>1, FS_Interval
  <2>2. IsFiniteSet(B(n))
    BY <2>1, FS_Subset
  <2> QED BY <2>2, FS_CardinalityType
<1>4. ASSUME NEW n \in Nat
      PROVE  Cardinality(B(n + 1)) =
               IF n + 1 \in Begins(str, d) THEN Cardinality(B(n)) + 1 ELSE Cardinality(B(n))
  <2>1. CASE n + 1 \in Begins(str, d)
    <3>1. B(n + 1) = B(n) \cup {n + 1} /\ n + 1 \notin B(n)
      BY <1>1, <2>1
    <3> HIDE DEF B
    <3>2. IsFiniteSet(B(n))
      BY <1>3
    <3>3. Cardinality(B(n) \cup {n + 1}) = Cardinality(B(n)) + 1
      BY <3>1, <3>2, FS_AddElement
    <3> QED BY <2>1, <3>1, <3>3
  <2>2. CASE n + 1 \notin Begins(str, d)
    <3>1. B(n + 1) = B(n)
      BY <1>1, <2>2
    <3> HIDE DEF B
    <3> QED BY <2>2, <3>1
  <2> QED BY <2>1, <2>2
<1>5. \A n : Rank(str, d, n) = Cardinality(B(n))
  BY DEF Rank
<1> HIDE DEF B
<1>6. Cardinality(B(0)) = 0
  BY <1>2, FS_EmptySet
<1> QED BY <1>2, <1>3, <1>4, <1>5, <1>6

\* The pieces in done are the runs that begin up to n.
Found(S, str, d, done, n) ==
  /\ done \in Seq(Seq(S))
  /\ \A i \in Begins(str, d) :
       i <= n => Rank(str, d, i) \in 1..Len(done) /\ RunAt(str, d, i, done[Rank(str, d, i)])
  /\ \A k \in 1..Len(done) : \E i \in Begins(str, d) : i <= n /\ Rank(str, d, i) = k

\* The token is the part up to n of the run that begins at b; the runs before it are in done.
Open(S, str, d, s, n, b) ==
  /\ b \in 1..n
  /\ Found(S, str, d, s.done, b - 1) /\ Rank(str, d, b - 1) = Len(s.done)
  /\ b \in Begins(str, d) /\ n = b + Len(s.token) - 1
  /\ \A k \in 1..Len(s.token) : s.token[k] = str[b + k - 1] /\ s.token[k] # d
  /\ \A j \in Begins(str, d) : j <= n => j <= b

ScanInv(S, str, d, s, n) ==
  /\ s = [done |-> s.done, token |-> s.token]
  /\ s.token \in Seq(S)
  /\ s.token = <<>> =>
       /\ Found(S, str, d, s.done, n) /\ Rank(str, d, n) = Len(s.done)
       /\ n = 0 \/ str[n] = d
  /\ s.token # <<>> => \E b : Open(S, str, d, s, n, b)

\* A run may end at n.
EndsAt(str, d, n) == n + 1 \in DOMAIN str => str[n + 1] = d

LEMMA Closing ==
  ASSUME NEW S, NEW str \in Seq(S), NEW d, NEW n \in 0..Len(str),
         NEW s, s.token \in Seq(S), s.token # <<>>,
         NEW b, Open(S, str, d, s, n, b), EndsAt(str, d, n)
  PROVE  /\ Found(S, str, d, Append(s.done, s.token), n)
         /\ Rank(str, d, n) = Len(Append(s.done, s.token))
<1> DEFINE done == s.done
           token == s.token
           new == Append(done, token)
<1>1. /\ done \in Seq(Seq(S)) /\ Len(done) \in Nat
      /\ b \in 1..n /\ b \in Begins(str, d) /\ n = b + Len(token) - 1
      /\ token \in Seq(S)
  BY DEF Found, Open
<1>2. /\ new \in Seq(Seq(S)) /\ Len(new) = Len(done) + 1
      /\ \A k \in 1..Len(done) : new[k] = done[k]
      /\ new[Len(done) + 1] = token
  BY <1>1
<1> HIDE DEF new
<1>3. RunAt(str, d, b, token)
  <2>1. DOMAIN token = 1..Len(token) /\ DOMAIN str = 1..Len(str)
    BY <1>1
  <2>2. \A k \in 1..Len(token) : b + k - 1 \in 1..Len(str)
    BY <1>1
  <2>3. \A k \in 1..Len(token) : token[k] = str[b + k - 1] /\ token[k] # d
    BY DEF Open
  <2>4. b + Len(token) = n + 1
    BY <1>1
  <2> QED BY <2>1, <2>2, <2>3, <2>4 DEF RunAt, EndsAt
<1>4. Found(S, str, d, done, b - 1) /\ Rank(str, d, b - 1) = Len(done)
  BY DEF Open
<1>5. Rank(str, d, b) = Len(done) + 1
  <2>1. b - 1 \in Nat /\ b - 1 + 1 = b
    BY <1>1
  <2> QED BY <1>1, <1>4, <2>1, Ranks
<1>6. Rank(str, d, n) = Rank(str, d, b)
  <2>1. b <= n /\ \A j \in Begins(str, d) : j <= n => j <= b
    BY <1>1 DEF Open
  <2>2. Begins(str, d) \subseteq Nat
    BY DEF Begins
  <2>3. {j \in Begins(str, d) : j <= n} = {j \in Begins(str, d) : j <= b}
    BY <1>1, <2>1, <2>2
  <2> QED BY <2>3, Zenon DEF Rank
<1>7. ASSUME NEW i \in Begins(str, d), i <= n
      PROVE  Rank(str, d, i) \in 1..Len(new) /\ RunAt(str, d, i, new[Rank(str, d, i)])
  <2>1. CASE i = b
    BY <1>1, <1>2, <1>3, <1>5, <2>1
  <2>2. CASE i # b
    <3>1. i <= b - 1
      <4>1. i <= b /\ i \in Int
        BY <1>7 DEF Open, Begins
      <4> QED BY <1>1, <2>2, <4>1
    <3>2. Rank(str, d, i) \in 1..Len(done) /\ RunAt(str, d, i, done[Rank(str, d, i)])
      BY <1>4, <3>1 DEF Found
    <3>3. new[Rank(str, d, i)] = done[Rank(str, d, i)] /\ Rank(str, d, i) \in 1..Len(new)
      <4>1. Rank(str, d, i) \in 1..Len(done)
        BY <3>2
      <4> HIDE DEF done
      <4> QED BY <1>1, <1>2, <4>1
    <3> QED BY <3>2, <3>3
  <2> QED BY <2>1, <2>2
<1>8. ASSUME NEW k \in 1..Len(new)
      PROVE  \E i \in Begins(str, d) : i <= n /\ Rank(str, d, i) = k
  <2>1. CASE k = Len(done) + 1
    BY <1>1, <1>5, <2>1
  <2>2. CASE k # Len(done) + 1
    <3>1. k \in 1..Len(done)
      BY <1>1, <1>2, <2>2
    <3>2. PICK i \in Begins(str, d) : i <= b - 1 /\ Rank(str, d, i) = k
      BY <1>4, <3>1 DEF Found
    <3>3. i <= n
      BY <1>1, <3>2 DEF Begins
    <3> QED BY <3>2, <3>3
  <2> QED BY <2>1, <2>2
<1>9. Found(S, str, d, new, n)
  BY <1>2, <1>7, <1>8 DEF Found
<1> QED BY <1>2, <1>5, <1>6, <1>9 DEF new

LEMMA ScanStart ==
  ASSUME NEW S, NEW str \in Seq(S), NEW d
  PROVE  ScanInv(S, str, d, Started, 0)
<1>1. Begins(str, d) \subseteq Nat \ {0}
  BY DEF Begins
<1>2. <<>> \in Seq(Seq(S)) /\ Len(<<>>) = 0
  OBVIOUS
<1>3. Found(S, str, d, <<>>, 0)
  BY <1>1, <1>2 DEF Found
<1>4. Rank(str, d, 0) = 0
  BY Ranks
<1> QED BY <1>2, <1>3, <1>4 DEF ScanInv, Started

LEMMA ScanStep ==
  ASSUME NEW S, NEW str \in Seq(S), NEW d, NEW n \in 0..Len(str), n + 1 \in 1..Len(str),
         NEW s, ScanInv(S, str, d, s, n)
  PROVE  ScanInv(S, str, d, Char(s, str[n + 1], d), n + 1)
<1> DEFINE c == str[n + 1]
           t == Char(s, c, d)
<1>0. /\ DOMAIN str = 1..Len(str) /\ n \in Nat /\ n + 1 - 1 = n /\ c \in S
      /\ Begins(str, d) \subseteq 1..Len(str)
      /\ Rank(str, d, n) \in Nat
      /\ n + 1 \notin Begins(str, d) => Rank(str, d, n + 1) = Rank(str, d, n)
  <2>1. DOMAIN str = 1..Len(str) /\ n \in Nat /\ n + 1 - 1 = n /\ c \in S
    OBVIOUS
  <2>2. Begins(str, d) \subseteq 1..Len(str)
    BY DEF Begins
  <2>3. /\ Rank(str, d, n) \in Nat
        /\ n + 1 \notin Begins(str, d) => Rank(str, d, n + 1) = Rank(str, d, n)
    BY <2>1, Ranks
  <2> QED BY <2>1, <2>2, <2>3
<1>1. CASE c # d /\ s.token = <<>>
  <2>1. t.token = <<c>> /\ t.done = s.done /\ t = [done |-> t.done, token |-> t.token]
    BY <1>1 DEF Char, ScanInv
  <2> HIDE DEF t
  <2>2. n = 0 \/ str[n] = d
    BY <1>1 DEF ScanInv
  <2>3. n + 1 \in Begins(str, d)
    BY <1>0, <1>1, <2>2 DEF Begins
  <2>4. /\ Found(S, str, d, t.done, n + 1 - 1) /\ Rank(str, d, n + 1 - 1) = Len(t.done)
    BY <1>0, <1>1, <2>1 DEF ScanInv
  <2>5. Open(S, str, d, t, n + 1, n + 1)
    BY <1>0, <1>1, <2>1, <2>3, <2>4 DEF Open
  <2>6. t.token \in Seq(S) /\ t.token # <<>>
    BY <1>0, <2>1
  <2> QED BY <2>1, <2>5, <2>6, Zenon DEF ScanInv, t
<1>2. CASE c # d /\ s.token # <<>>
  <2>1. /\ t.token = Append(s.token, c) /\ t.done = s.done
        /\ t = [done |-> t.done, token |-> t.token]
    BY <1>2 DEF Char, ScanInv
  <2> HIDE DEF t
  <2>2. PICK b : Open(S, str, d, s, n, b)
    BY <1>2 DEF ScanInv
  <2>3. s.token \in Seq(S) /\ Len(s.token) \in Nat /\ Len(s.token) # 0
    BY <1>2 DEF ScanInv
  <2>4. /\ t.token \in Seq(S) /\ t.token # <<>> /\ Len(t.token) = Len(s.token) + 1
        /\ \A k \in 1..Len(s.token) : t.token[k] = s.token[k]
        /\ t.token[Len(s.token) + 1] = c
    BY <1>0, <2>1, <2>3
  <2>5. str[n] # d
    <3>1. n = b + Len(s.token) - 1 /\ Len(s.token) \in 1..Len(s.token)
      BY <2>2, <2>3 DEF Open
    <3>2. s.token[Len(s.token)] = str[b + Len(s.token) - 1] /\ s.token[Len(s.token)] # d
      BY <2>2, <3>1 DEF Open
    <3> QED BY <3>1, <3>2
  <2>6. n + 1 \notin Begins(str, d)
    <3>1. n + 1 # 1
      BY <1>0, <2>2 DEF Open
    <3> QED BY <1>0, <2>5, <3>1 DEF Begins
  <2>7. b \in Begins(str, d) /\ n = b + Len(s.token) - 1
    BY <2>2 DEF Open
  <2>8. ASSUME NEW k \in 1..Len(t.token) PROVE t.token[k] = str[b + k - 1] /\ t.token[k] # d
    <3>1. CASE k = Len(s.token) + 1
      <4>1. b + k - 1 = n + 1
        BY <1>0, <2>3, <2>7, <3>1
      <4>2. t.token[k] = c
        BY <2>4, <3>1
      <4> QED BY <1>2, <4>1, <4>2
    <3>2. CASE k # Len(s.token) + 1
      <4>1. k \in 1..Len(s.token)
        BY <2>3, <2>4, <3>2
      <4> QED BY <2>2, <2>4, <4>1 DEF Open
    <3> QED BY <3>1, <3>2
  <2>9. \A j \in Begins(str, d) : j <= n + 1 => j <= b
    <3>1. \A j \in Begins(str, d) : j <= n => j <= b
      BY <2>2 DEF Open
    <3>2. \A j \in Begins(str, d) : j <= n + 1 => j <= n
      BY <1>0, <2>6
    <3> QED BY <3>1, <3>2
  <2>10. n + 1 = b + Len(t.token) - 1
    BY <1>0, <2>3, <2>4, <2>7
  <2>11. b \in 1..n + 1
    BY <2>2 DEF Open
  <2>12. Found(S, str, d, t.done, b - 1) /\ Rank(str, d, b - 1) = Len(t.done)
    BY <2>1, <2>2 DEF Open
  <2>13. Open(S, str, d, t, n + 1, b)
    BY <2>7, <2>8, <2>9, <2>10, <2>11, <2>12 DEF Open
  <2> QED BY <2>1, <2>4, <2>13, Zenon DEF ScanInv, t
<1>3. CASE c = d /\ s.token = <<>>
  <2>1. t = s
    BY <1>3 DEF Char
  <2> HIDE DEF t
  <2>2. n + 1 \notin Begins(str, d)
    BY <1>3 DEF Begins
  <2>3. Found(S, str, d, s.done, n) /\ Rank(str, d, n) = Len(s.done)
    BY <1>3 DEF ScanInv
  <2>4. \A i \in Begins(str, d) : i <= n + 1 <=> i <= n
    BY <1>0, <2>2
  <2>5. Found(S, str, d, s.done, n + 1)
    BY <2>3, <2>4 DEF Found
  <2>6. Rank(str, d, n + 1) = Len(s.done)
    BY <1>0, <2>2, <2>3
  <2> QED BY <1>3, <2>1, <2>5, <2>6 DEF ScanInv, t
<1>4. CASE c = d /\ s.token # <<>>
  <2>1. /\ t.token = <<>> /\ t.done = Append(s.done, s.token)
        /\ t = [done |-> t.done, token |-> t.token]
    BY <1>4 DEF Char
  <2> HIDE DEF t
  <2>2. PICK b : Open(S, str, d, s, n, b)
    BY <1>4 DEF ScanInv
  <2>3. s.token \in Seq(S)
    BY DEF ScanInv
  <2>4. EndsAt(str, d, n)
    BY <1>4 DEF EndsAt
  <2>5. Found(S, str, d, t.done, n) /\ Rank(str, d, n) = Len(t.done)
    <3> HIDE DEF c
    <3> QED BY <1>4, <2>1, <2>2, <2>3, <2>4, Closing
  <2>6. n + 1 \notin Begins(str, d)
    BY <1>4 DEF Begins
  <2>7. \A i \in Begins(str, d) : i <= n + 1 <=> i <= n
    BY <1>0, <2>6
  <2>8. Found(S, str, d, t.done, n + 1)
    BY <2>5, <2>7 DEF Found
  <2>9. Rank(str, d, n + 1) = Len(t.done)
    BY <1>0, <2>5, <2>6
  <2> QED BY <1>4, <2>1, <2>8, <2>9 DEF ScanInv, t
<1> QED BY <1>1, <1>2, <1>3, <1>4

LEMMA SplitFound ==
  ASSUME NEW S, NEW str \in Seq(S), NEW d
  PROVE  /\ Found(S, str, d, SplitStr(str, d), Len(str))
         /\ Len(SplitStr(str, d)) = Cardinality(Begins(str, d))
<1>1. PICK f : Scans(f, str, d, Len(str)) /\ SplitStr(str, d) = Char(f[Len(str)], d, d).done
  BY SplitScan
<1> DEFINE T == {n \in Nat : n <= Len(str) => ScanInv(S, str, d, f[n], n)}
<1>2. 0 \in T
  BY <1>1, ScanStart DEF Scans
<1>3. ASSUME NEW n \in Nat, n \in T PROVE n + 1 \in T
  <2>1. CASE n + 1 <= Len(str)
    <3>1. n \in 0..Len(str) /\ n + 1 \in 1..Len(str) /\ ScanInv(S, str, d, f[n], n)
      BY <1>3, <2>1
    <3>2. f[n + 1] = Char(f[n], str[n + 1], d)
      BY <1>1, <3>1 DEF Scans
    <3>3. ScanInv(S, str, d, f[n + 1], n + 1)
      BY <3>1, <3>2, ScanStep
    <3> QED BY <3>3
  <2>2. CASE ~(n + 1 <= Len(str))
    BY <2>2
  <2> QED BY <2>1, <2>2
<1> HIDE DEF T
<1>4. Nat \subseteq T
  BY <1>2, <1>3, Counting
<1>5. ScanInv(S, str, d, f[Len(str)], Len(str))
  <2>1. Len(str) \in Nat
    OBVIOUS
  <2> QED BY <1>4, <2>1 DEF T
<1> DEFINE s == f[Len(str)]
<1>6. Rank(str, d, Len(str)) = Cardinality(Begins(str, d))
  BY Ranks
<1>7. CASE s.token = <<>>
  <2>1. Char(s, d, d).done = s.done
    BY <1>7 DEF Char
  <2> QED BY <1>1, <1>5, <1>6, <1>7, <2>1 DEF ScanInv
<1>8. CASE s.token # <<>>
  <2>1. Char(s, d, d).done = Append(s.done, s.token)
    BY <1>8 DEF Char
  <2>2. PICK b : Open(S, str, d, s, Len(str), b)
    BY <1>5, <1>8 DEF ScanInv
  <2>3. s.token \in Seq(S)
    BY <1>5 DEF ScanInv
  <2>4. Len(str) \in 0..Len(str) /\ EndsAt(str, d, Len(str))
    BY DEF EndsAt
  <2> HIDE DEF s
  <2>5. /\ Found(S, str, d, Append(s.done, s.token), Len(str))
        /\ Rank(str, d, Len(str)) = Len(Append(s.done, s.token))
    BY <1>8, <2>2, <2>3, <2>4, Closing
  <2> QED BY <1>1, <1>6, <2>1, <2>5 DEF s
<1> QED BY <1>7, <1>8

LEMMA PieceType ==
  ASSUME NEW S, NEW str \in Seq(S), NEW d, NEW i \in Nat \ {0}
  PROVE  Piece(str, d, i) \in Seq(S)
<1>1. SplitStr(str, d) \in Seq(Seq(S))
  BY SplitFound DEF Found
<1> QED BY <1>1 DEF Piece

LEMMA FirstPiece ==
  ASSUME NEW S, NEW str \in Seq(S), NEW d, str # <<>>, str[1] # d
  PROVE  RunAt(str, d, 1, Piece(str, d, 1)) /\ Rank(str, d, 1) = 1
<1>1. 1 \in Begins(str, d)
  BY DEF Begins
<1>2. Rank(str, d, 1) = 1
  <2>1. 0 \in Nat /\ 0 + 1 = 1
    OBVIOUS
  <2> QED BY <1>1, <2>1, Ranks
<1>3. 1 <= Len(str)
  OBVIOUS
<1>4. 1 \in 1..Len(SplitStr(str, d)) /\ RunAt(str, d, 1, SplitStr(str, d)[1])
  BY <1>1, <1>2, <1>3, SplitFound DEF Found
<1> QED BY <1>2, <1>4 DEF Piece

LEMMA SecondPiece ==
  ASSUME NEW S, NEW str \in Seq(S), NEW d, NEW m \in Nat \ {0}, m + 2 <= Len(str),
         \A i \in 1..m : str[i] # d, str[m + 1] = d, str[m + 2] # d
  PROVE  RunAt(str, d, m + 2, Piece(str, d, 2))
<1>1. 1 \in Begins(str, d) /\ m + 2 \in Begins(str, d)
  <2>1. 1 \in DOMAIN str /\ m + 2 \in DOMAIN str /\ m + 2 - 1 = m + 1
    OBVIOUS
  <2> QED BY <2>1 DEF Begins
<1>2. {j \in Begins(str, d) : j <= m + 1} = {1}
  <2>1. ASSUME NEW j \in Begins(str, d), j <= m + 1 PROVE j = 1
    <3>1. j \in 1..Len(str) /\ str[j] # d /\ (j = 1 \/ str[j - 1] = d)
      BY DEF Begins
    <3>2. CASE j = m + 1
      BY <3>1, <3>2
    <3>3. CASE j # m + 1 /\ j # 1
      <4>1. j - 1 \in 1..m
        BY <2>1, <3>1, <3>3
      <4> QED BY <3>1, <3>3, <4>1
    <3> QED BY <3>2, <3>3
  <2>2. 1 <= m + 1
    OBVIOUS
  <2> QED BY <1>1, <2>1, <2>2
<1>3. Rank(str, d, m + 1) = 1
  <2>1. Rank(str, d, m + 1) = Cardinality({1})
    BY <1>2, Zenon DEF Rank
  <2> QED BY <2>1, FS_Singleton
<1>4. Rank(str, d, m + 2) = 2
  <2>1. m + 1 \in Nat /\ m + 1 + 1 = m + 2
    OBVIOUS
  <2> QED BY <1>1, <1>3, <2>1, Ranks
<1>5. 2 \in 1..Len(SplitStr(str, d)) /\ RunAt(str, d, m + 2, SplitStr(str, d)[2])
  BY <1>1, <1>4, SplitFound DEF Found
<1> QED BY <1>5 DEF Piece

LEMMA NoPiece ==
  ASSUME NEW d, NEW i \in Nat \ {0}
  PROVE  Piece(<<>>, d, i) = <<>>
<1>1. Begins(<<>>, d) = {}
  BY DEF Begins
<1>2. <<>> \in Seq({})
  OBVIOUS
<1>3. Len(SplitStr(<<>>, d)) = 0
  BY <1>1, <1>2, SplitFound, FS_EmptySet
<1> QED BY <1>3 DEF Piece

\* The k characters behind b are no delimiters.
Clear(str, d, b, k) == b + k <= Len(str) /\ \A j \in 1..k : str[b + j] # d

\* They are the beginning of p.
Prefix(str, b, k, p) == k <= Len(p) /\ \A j \in 1..k : p[j] = str[b + j]

LEMMA RunBehind ==
  ASSUME NEW S, NEW str \in Seq(S), NEW d, NEW b \in Nat, NEW p \in Seq(S),
         RunAt(str, d, b + 1, p), NEW k \in Nat \ {0}, Clear(str, d, b, k)
  PROVE  /\ Prefix(str, b, k, p)
         /\ b + k + 1 <= Len(str) /\ str[b + k + 1] = d => Len(p) = k
<1>1. /\ DOMAIN str = 1..Len(str) /\ DOMAIN p = 1..Len(p)
      /\ Len(p) \in Nat /\ Len(str) \in Nat
      /\ b + k <= Len(str)
  BY DEF Clear
<1>2. \A j \in 1..Len(p) : p[j] = str[b + j] /\ p[j] # d
  <2>1. \A j \in 1..Len(p) : p[j] = str[b + 1 + j - 1] /\ p[j] # d
    BY <1>1 DEF RunAt
  <2>2. \A j \in 1..Len(p) : b + 1 + j - 1 = b + j
    BY <1>1
  <2> QED BY <2>1, <2>2
<1>3. b + Len(p) + 1 <= Len(str) => str[b + Len(p) + 1] = d
  <2>1. b + 1 + Len(p) = b + Len(p) + 1
    BY <1>1
  <2>2. b + Len(p) + 1 <= Len(str) => b + Len(p) + 1 \in 1..Len(str)
    BY <1>1
  <2> QED BY <1>1, <2>1, <2>2 DEF RunAt
<1>4. ASSUME Len(p) < k PROVE FALSE
  <2>1. Len(p) + 1 \in 1..k /\ b + (Len(p) + 1) = b + Len(p) + 1 /\ b + Len(p) + 1 <= Len(str)
    BY <1>1, <1>4
  <2>2. str[b + (Len(p) + 1)] # d
    BY <2>1 DEF Clear
  <2> QED BY <1>3, <2>1, <2>2
<1>5. k <= Len(p)
  BY <1>1, <1>4
<1>6. Prefix(str, b, k, p)
  BY <1>1, <1>2, <1>5 DEF Prefix
<1>7. ASSUME b + k + 1 <= Len(str), str[b + k + 1] = d, k < Len(p) PROVE FALSE
  <2>1. k + 1 \in 1..Len(p) /\ b + (k + 1) = b + k + 1
    BY <1>1, <1>7
  <2>2. p[k + 1] = str[b + (k + 1)] /\ p[k + 1] # d
    BY <1>2, <2>1
  <2> QED BY <1>7, <2>1, <2>2
<1>8. ASSUME b + k + 1 <= Len(str), str[b + k + 1] = d PROVE Len(p) = k
  <2>1. ~(k < Len(p))
    BY <1>7, <1>8
  <2>2. \A l \in Nat : k <= l /\ ~(k < l) => l = k
    OBVIOUS
  <2> QED BY <1>1, <1>5, <2>1, <2>2, Zenon
<1> QED BY <1>6, <1>8

-----------------------------------------------------------------------------
(* The parts of an address in its text: the user ends at UserEnd, the host *)
(* at HostEnd, and the slash is at PathStart.                              *)

UserEnd(a) == IF a.user = <<>> THEN 4 ELSE 5 + Len(a.user)
HostEnd(a) == UserEnd(a) + Len(a.host)
PathStart(a) == IF a.port = <<>> THEN HostEnd(a) + 1 ELSE HostEnd(a) + Len(a.port) + 2

LEMMA AddressParts ==
  ASSUME NEW a \in Addresses
  PROVE  /\ a.user \in Seq(Chars) /\ a.host \in Seq(Chars) /\ a.port \in Seq(Chars)
         /\ a.vhost \in Seq(Chars)
         /\ a.host # <<>>
         /\ \A i \in 1..Len(a.user) : a.user[i] # "@"
         /\ \A i \in 1..Len(a.host) : a.host[i] \notin {"@", ":", "/"}
         /\ \A i \in 1..Len(a.port) : a.port[i] \in Digits
<1>1. /\ a \in [user : Seq(Chars), host : Seq(Chars), port : Seq(Digits), vhost : Seq(Chars)]
      /\ a.host # <<>> /\ ToSet(a.host) \cap {"@", ":", "/"} = {}
      /\ "@" \notin ToSet(a.user)
  BY AddressesAssumption
<1>2. a.port \in Seq(Chars)
  <2>1. a.port \in Seq(Digits) /\ Digits \subseteq Chars
    BY <1>1, CharsAssumption
  <2>2. \A i \in 1..Len(a.port) : a.port[i] \in Digits
    BY <2>1
  <2> QED BY <2>1, <2>2
<1>3. /\ \A i \in 1..Len(a.user) : a.user[i] # "@"
      /\ \A i \in 1..Len(a.host) : a.host[i] \notin {"@", ":", "/"}
  <2>1. /\ \A i \in 1..Len(a.user) : a.user[i] \in ToSet(a.user)
        /\ \A i \in 1..Len(a.host) : a.host[i] \in ToSet(a.host)
    BY <1>1 DEF ToSet
  <2> QED BY <1>1, <2>1
<1>4. \A i \in 1..Len(a.port) : a.port[i] \in Digits
  BY <1>1
<1> QED BY <1>1, <1>2, <1>3, <1>4

LEMMA Concatenated ==
  ASSUME NEW s \in Seq(Chars), NEW t \in Seq(Chars)
  PROVE  /\ s \o t \in Seq(Chars) /\ Len(s \o t) = Len(s) + Len(t)
         /\ \A i \in 1..Len(s) : (s \o t)[i] = s[i]
         /\ \A i \in 1..Len(t) : (s \o t)[Len(s) + i] = t[i]
OBVIOUS

LEMMA TextParts ==
  ASSUME NEW a \in Addresses
  PROVE  LET T == Text(a)
             e == UserEnd(a)
             g == HostEnd(a)
         IN  /\ T \in Seq(Chars) /\ Len(T) = PathStart(a) + Len(a.vhost)
             /\ a.user # <<>> => (\A i \in 1..e - 1 : T[i] # "@") /\ T[e] = "@"
             /\ a.user = <<>> => \A i \in 1..e : T[i] # "@"
             /\ \A i \in 1..Len(a.host) : T[e + i] = a.host[i]
             /\ a.port # <<>> =>
                  T[g + 1] = ":" /\ \A i \in 1..Len(a.port) : T[g + 1 + i] = a.port[i]
             /\ T[PathStart(a)] = "/"
             /\ \A i \in 1..Len(a.vhost) : T[PathStart(a) + i] = a.vhost[i]
<1> DEFINE A == <<"a", ":", "/", "/">>
           U == IF a.user = <<>> THEN <<>> ELSE Append(a.user, "@")
           P == IF a.port = <<>> THEN <<>> ELSE <<":">> \o a.port
           V == <<"/">> \o a.vhost
           X == A \o U
           Y == X \o a.host
           Z == Y \o P
           W == Z \o <<"/">>
           T == W \o a.vhost
           e == UserEnd(a)
           g == HostEnd(a)
           q == PathStart(a)
<1>1. Text(a) = T
  BY DEF Text
<1>2. /\ a.user \in Seq(Chars) /\ a.host \in Seq(Chars) /\ a.port \in Seq(Chars)
      /\ a.vhost \in Seq(Chars)
      /\ Len(a.user) \in Nat /\ Len(a.host) \in Nat
      /\ Len(a.port) \in Nat /\ Len(a.vhost) \in Nat
      /\ \A i \in 1..Len(a.user) : a.user[i] # "@"
  <2>1. /\ a.user \in Seq(Chars) /\ a.host \in Seq(Chars) /\ a.port \in Seq(Chars)
        /\ a.vhost \in Seq(Chars)
        /\ \A i \in 1..Len(a.user) : a.user[i] # "@"
    BY AddressParts
  <2> QED BY <2>1
<1>3. /\ A \in Seq(Chars) /\ Len(A) = 4 /\ \A i \in 1..4 : A[i] # "@"
  BY CharsAssumption
<1>4. /\ U \in Seq(Chars)
      /\ a.user = <<>> => Len(U) = 0
      /\ a.user # <<>> => Len(U) = Len(a.user) + 1 /\ U[Len(a.user) + 1] = "@"
      /\ a.user # <<>> => \A i \in 1..Len(a.user) : U[i] # "@"
  BY <1>2, CharsAssumption
<1>5. /\ P \in Seq(Chars)
      /\ a.port = <<>> => Len(P) = 0
      /\ a.port # <<>> => Len(P) = Len(a.port) + 1 /\ P[1] = ":"
      /\ a.port # <<>> => \A i \in 1..Len(a.port) : P[1 + i] = a.port[i]
  BY <1>2, CharsAssumption
<1>6. <<"/">> \in Seq(Chars) /\ Len(<<"/">>) = 1 /\ <<"/">>[1] = "/"
  BY CharsAssumption
<1>7. /\ e \in Nat /\ g = e + Len(a.host)
      /\ a.user = <<>> => e = 4
      /\ a.user # <<>> => e = 5 + Len(a.user)
      /\ Len(P) \in Nat /\ q = g + Len(P) + 1
  <2>1. /\ e \in Nat
        /\ a.user = <<>> => e = 4
        /\ a.user # <<>> => e = 5 + Len(a.user)
    BY <1>2 DEF UserEnd
  <2>2. g = e + Len(a.host)
    BY DEF HostEnd
  <2>3. Len(P) \in Nat /\ q = g + Len(P) + 1
    <3>1. CASE a.port = <<>>
      <4>1. Len(P) = 0
        BY <1>5, <3>1
      <4>2. q = g + 1
        BY <3>1 DEF PathStart
      <4>3. g \in Nat
        BY <1>2, <2>1, <2>2
      <4> HIDE DEF P, g, q
      <4> QED BY <4>1, <4>2, <4>3
    <3>2. CASE a.port # <<>>
      <4>1. Len(P) = Len(a.port) + 1
        BY <1>5, <3>2
      <4>2. q = g + Len(a.port) + 2
        BY <3>2 DEF PathStart
      <4>3. g \in Nat
        BY <1>2, <2>1, <2>2
      <4> HIDE DEF P, g, q
      <4> QED BY <1>2, <4>1, <4>2, <4>3
    <3> QED BY <3>1, <3>2
  <2> QED BY <2>1, <2>2, <2>3
<1> HIDE DEF A, U, P, X, Y, Z, W, T, e, g, q
<1>8. /\ X \in Seq(Chars) /\ Len(X) = e
      /\ \A i \in 1..4 : X[i] = A[i]
      /\ \A i \in 1..Len(U) : X[4 + i] = U[i]
  <2>1. X \in Seq(Chars) /\ Len(X) = Len(A) + Len(U)
    BY <1>3, <1>4, Concatenated DEF X
  <2>2. /\ \A i \in 1..Len(A) : X[i] = A[i]
        /\ \A i \in 1..Len(U) : X[Len(A) + i] = U[i]
    BY <1>3, <1>4, Concatenated, Zenon DEF X
  <2>3. Len(A) + Len(U) = e
    BY <1>2, <1>3, <1>4, <1>7
  <2> QED BY <1>3, <2>1, <2>2, <2>3
<1>9. /\ Y \in Seq(Chars) /\ Len(Y) = g
      /\ \A i \in 1..e : Y[i] = X[i]
      /\ \A i \in 1..Len(a.host) : Y[e + i] = a.host[i]
  <2>1. Y \in Seq(Chars) /\ Len(Y) = Len(X) + Len(a.host)
    BY <1>2, <1>8, Concatenated DEF Y
  <2>2. /\ \A i \in 1..Len(X) : Y[i] = X[i]
        /\ \A i \in 1..Len(a.host) : Y[Len(X) + i] = a.host[i]
    BY <1>2, <1>8, Concatenated, Zenon DEF Y
  <2> QED BY <1>7, <1>8, <2>1, <2>2
<1>10. /\ Z \in Seq(Chars) /\ Len(Z) = q - 1
       /\ \A i \in 1..g : Z[i] = Y[i]
       /\ \A i \in 1..Len(P) : Z[g + i] = P[i]
  <2>1. Z \in Seq(Chars) /\ Len(Z) = Len(Y) + Len(P)
    BY <1>5, <1>9, Concatenated DEF Z
  <2>2. /\ \A i \in 1..Len(Y) : Z[i] = Y[i]
        /\ \A i \in 1..Len(P) : Z[Len(Y) + i] = P[i]
    BY <1>5, <1>9, Concatenated, Zenon DEF Z
  <2>3. g + Len(P) = q - 1
    BY <1>2, <1>5, <1>7
  <2> QED BY <1>9, <2>1, <2>2, <2>3
<1>11. /\ W \in Seq(Chars) /\ Len(W) = q
       /\ \A i \in 1..q - 1 : W[i] = Z[i]
       /\ W[q] = "/"
  <2>1. /\ W \in Seq(Chars) /\ Len(W) = Len(Z) + 1
        /\ \A i \in 1..Len(Z) : W[i] = Z[i]
        /\ W[Len(Z) + 1] = "/"
    BY <1>6, <1>10 DEF W
  <2>2. q \in Nat
    BY <1>2, <1>7
  <2> QED BY <1>10, <2>1, <2>2
<1>12. /\ T \in Seq(Chars) /\ Len(T) = q + Len(a.vhost)
       /\ \A i \in 1..q : T[i] = W[i]
       /\ \A i \in 1..Len(a.vhost) : T[q + i] = a.vhost[i]
  <2>1. T \in Seq(Chars) /\ Len(T) = Len(W) + Len(a.vhost)
    BY <1>2, <1>11, Concatenated DEF T
  <2>2. /\ \A i \in 1..Len(W) : T[i] = W[i]
        /\ \A i \in 1..Len(a.vhost) : T[Len(W) + i] = a.vhost[i]
    BY <1>2, <1>11, Concatenated, Zenon DEF T
  <2> QED BY <1>11, <2>1, <2>2
<1>13. g \in Nat /\ q \in Nat /\ e <= g /\ g < q
  BY <1>2, <1>7
<1>14. \A i \in 1..e : T[i] = X[i]
  <2>1. \A i \in 1..e : i \in 1..g /\ i \in 1..q /\ i \in 1..q - 1
    BY <1>7, <1>13
  <2> QED BY <1>9, <1>10, <1>11, <1>12, <2>1
<1>15. ASSUME a.user # <<>> PROVE (\A i \in 1..e - 1 : T[i] # "@") /\ T[e] = "@"
  <2>1. T[e] = "@"
    <3>1. e \in 1..e /\ e = 4 + (Len(a.user) + 1) /\ Len(a.user) + 1 \in 1..Len(U)
      BY <1>2, <1>4, <1>7, <1>15
    <3> QED BY <1>4, <1>8, <1>14, <1>15, <3>1
  <2>2. ASSUME NEW i \in 1..e - 1 PROVE T[i] # "@"
    <3>1. i \in 1..e /\ T[i] = X[i]
      BY <1>7, <1>14
    <3>2. CASE i \in 1..4
      BY <1>3, <1>8, <3>1, <3>2
    <3>3. CASE i \notin 1..4
      <4>1. i - 4 \in 1..Len(a.user) /\ i = 4 + (i - 4) /\ i - 4 \in 1..Len(U)
        BY <1>2, <1>4, <1>7, <1>15, <3>3
      <4>2. X[i] = U[i - 4]
        BY <1>8, <4>1
      <4> QED BY <1>4, <1>15, <3>1, <4>1, <4>2
    <3> QED BY <3>2, <3>3
  <2> QED BY <2>1, <2>2
<1>16. ASSUME a.user = <<>> PROVE \A i \in 1..e : T[i] # "@"
  BY <1>3, <1>7, <1>8, <1>14, <1>16
<1>17. ASSUME NEW i \in 1..Len(a.host) PROVE T[e + i] = a.host[i]
  <2>1. e + i \in 1..g /\ e + i \in 1..q - 1 /\ e + i \in 1..q
    BY <1>2, <1>7, <1>13
  <2> QED BY <1>9, <1>10, <1>11, <1>12, <2>1
<1>18. ASSUME a.port # <<>>
       PROVE  T[g + 1] = ":" /\ \A i \in 1..Len(a.port) : T[g + 1 + i] = a.port[i]
  <2>1. ASSUME NEW i \in 1..Len(P) PROVE T[g + i] = P[i]
    <3>1. g + i \in 1..q - 1 /\ g + i \in 1..q
      BY <1>7, <1>13
    <3> QED BY <1>10, <1>11, <1>12, <3>1
  <2> DEFINE l == Len(a.port)
  <2>2. l \in Nat /\ Len(P) = l + 1
    BY <1>2, <1>5, <1>18
  <2> HIDE DEF l
  <2>3. 1 \in 1..Len(P)
    BY <2>2
  <2>4. ASSUME NEW i \in 1..l PROVE T[g + 1 + i] = a.port[i]
    <3>1. 1 + i \in 1..Len(P) /\ g + (1 + i) = g + 1 + i
      BY <1>13, <2>2
    <3>2. T[g + (1 + i)] = P[1 + i]
      BY <2>1, <3>1
    <3>3. P[1 + i] = a.port[i]
      BY <1>5, <1>18 DEF l
    <3> QED BY <3>1, <3>2, <3>3
  <2> QED BY <1>5, <1>18, <2>1, <2>3, <2>4 DEF l
<1>19. T[q] = "/"
  <2>1. q \in 1..q
    BY <1>13
  <2> QED BY <1>11, <1>12, <2>1
<1> QED BY <1>1, <1>12, <1>15, <1>16, <1>17, <1>18, <1>19, Zenon DEF e, g, q

\* The host and the port that run_server finds in c, what stands between the first two @.
PortOf(c) == Piece(Piece(c, ":", 2), "/", 1)

LEMMA Same ==
  ASSUME NEW S, NEW s \in Seq(S), NEW t \in Seq(S), Len(s) = Len(t),
         \A i \in 1..Len(t) : s[i] = t[i]
  PROVE  s = t
OBVIOUS

\* An address with a user and a port.
LEMMA Complete ==
  ASSUME NEW a \in Addresses, a.user # <<>>, a.port # <<>>
  PROVE  LET c == ConnSp(Text(a))
         IN  c # <<>> /\ Piece(c, ":", 1) = a.host /\ PortOf(c) = a.port
<1> DEFINE T == Text(a)
           c == ConnSp(T)
           e == UserEnd(a)
           h == Len(a.host)
           l == Len(a.port)
           n == Len(T)
           v == Len(a.vhost)
           Q == Piece(c, ":", 2)
<1>1. /\ a.user \in Seq(Chars) /\ a.host \in Seq(Chars) /\ a.port \in Seq(Chars)
      /\ a.vhost \in Seq(Chars) /\ a.host # <<>>
      /\ \A i \in 1..h : a.host[i] \notin {"@", ":", "/"}
      /\ \A i \in 1..l : a.port[i] \notin {"@", ":", "/"}
  BY AddressParts DEF Digits
<1>2. /\ h \in Nat \ {0} /\ l \in Nat \ {0} /\ v \in Nat /\ Len(a.user) \in Nat
  BY <1>1
<1>3. e \in Nat /\ e >= 5
  BY <1>2 DEF UserEnd
<1>4. HostEnd(a) = e + h /\ PathStart(a) = e + h + l + 2
  BY DEF HostEnd, PathStart
<1>5. T \in Seq(Chars) /\ n = e + h + l + 2 + v
  BY <1>4, TextParts
<1>6. /\ \A i \in 1..e - 1 : T[i] # "@"
      /\ T[e] = "@"
      /\ \A i \in 1..h : T[e + i] = a.host[i]
      /\ T[e + h + 1] = ":"
      /\ \A i \in 1..l : T[e + h + 1 + i] = a.port[i]
      /\ T[e + h + l + 2] = "/"
  BY <1>4, TextParts
<1> HIDE DEF T, e, h, l, n, v
<1>7. ASSUME NEW j \in 1..h + l + 2 PROVE T[e + j] # "@"
  <2>1. CASE j \in 1..h
    BY <1>1, <1>6, <2>1
  <2>2. CASE j = h + 1
    <3>1. e + j = e + h + 1
      BY <1>2, <1>3, <2>2
    <3> QED BY <1>6, <3>1
  <2>3. CASE j > h + 1 /\ j < h + l + 2
    <3>1. j - (h + 1) \in 1..l /\ e + j = e + h + 1 + (j - (h + 1))
      BY <1>2, <1>3, <2>3
    <3>2. T[e + j] = a.port[j - (h + 1)]
      BY <1>6, <3>1
    <3> QED BY <1>1, <3>1, <3>2
  <2>4. CASE j = h + l + 2
    <3>1. e + j = e + h + l + 2
      BY <1>2, <1>3, <2>4
    <3> QED BY <1>6, <3>1
  <2> QED BY <1>2, <2>1, <2>2, <2>3, <2>4
<1>8. c \in Seq(Chars) /\ RunAt(T, "@", e + 1, c)
  <2>1. /\ e - 1 \in Nat \ {0} /\ e - 1 + 1 = e /\ e - 1 + 2 = e + 1
        /\ e - 1 + 2 <= n /\ 1 \in 1..h + l + 2
    BY <1>2, <1>3, <1>5
  <2>2. T[e + 1] # "@"
    BY <1>7, <2>1
  <2>3. RunAt(T, "@", e - 1 + 2, Piece(T, "@", 2))
    BY <1>5, <1>6, <2>1, <2>2, SecondPiece DEF n
  <2> QED BY <1>5, <2>1, <2>3, PieceType DEF ConnSp
<1> HIDE DEF c
<1>9. h + l + 2 <= Len(c) /\ \A j \in 1..h + l + 2 : c[j] = T[e + j]
  <2> DEFINE k == h + l + 2
  <2>1. k \in Nat \ {0} /\ e + k <= n
    BY <1>2, <1>3, <1>5
  <2>2. Clear(T, "@", e, k)
    BY <1>7, <2>1 DEF Clear, n
  <2> HIDE DEF k
  <2>3. Prefix(T, e, k, c)
    BY <1>3, <1>5, <1>8, <2>1, <2>2, RunBehind
  <2> QED BY <2>3 DEF k, Prefix
<1>10. /\ \A i \in 1..h : c[i] = a.host[i]
       /\ c[h + 1] = ":"
       /\ \A i \in 1..l : c[h + 1 + i] = a.port[i]
       /\ c[h + l + 2] = "/"
       /\ Len(c) \in Nat /\ DOMAIN c = 1..Len(c)
  <2>1. ASSUME NEW i \in 1..h PROVE c[i] = a.host[i]
    <3>1. i \in 1..h + l + 2
      BY <1>2
    <3> QED BY <1>6, <1>9, <3>1
  <2>2. c[h + 1] = ":"
    <3>1. h + 1 \in 1..h + l + 2 /\ e + (h + 1) = e + h + 1
      BY <1>2, <1>3
    <3> QED BY <1>6, <1>9, <3>1
  <2>3. ASSUME NEW i \in 1..l PROVE c[h + 1 + i] = a.port[i]
    <3>1. h + 1 + i \in 1..h + l + 2 /\ e + (h + 1 + i) = e + h + 1 + i
      BY <1>2, <1>3
    <3> QED BY <1>6, <1>9, <3>1
  <2>4. c[h + l + 2] = "/"
    <3>1. h + l + 2 \in 1..h + l + 2 /\ e + (h + l + 2) = e + h + l + 2
      BY <1>2, <1>3
    <3> QED BY <1>6, <1>9, <3>1
  <2> QED BY <1>8, <2>1, <2>2, <2>3, <2>4
<1>11. Piece(c, ":", 1) = a.host
  <2> DEFINE p == Piece(c, ":", 1)
  <2>1. /\ 1 \in 1..h /\ c # <<>> /\ 0 \in Nat
        /\ 0 + h <= Len(c) /\ 0 + h + 1 <= Len(c) /\ 0 + h + 1 = h + 1
        /\ \A j \in 1..h : 0 + j = j
    BY <1>2, <1>9, <1>10
  <2>2. c[1] # ":" /\ \A j \in 1..h : c[0 + j] # ":"
    BY <1>1, <1>10, <2>1
  <2>3. p \in Seq(Chars) /\ RunAt(c, ":", 0 + 1, p)
    BY <1>8, <2>1, <2>2, FirstPiece, PieceType
  <2> HIDE DEF p
  <2>4. Clear(c, ":", 0, h)
    BY <2>1, <2>2 DEF Clear
  <2>5. /\ Prefix(c, 0, h, p)
        /\ 0 + h + 1 <= Len(c) /\ c[0 + h + 1] = ":" => Len(p) = h
    BY <1>2, <1>8, <2>1, <2>3, <2>4, RunBehind
  <2>6. Len(p) = h /\ \A j \in 1..h : p[j] = a.host[j]
    BY <1>10, <2>1, <2>5 DEF Prefix
  <2>7. p = a.host
    BY <1>1, <2>3, <2>6, Same DEF h
  <2> QED BY <2>7 DEF p
<1>12. Q \in Seq(Chars) /\ RunAt(c, ":", h + 1 + 1, Q)
  <2>1. /\ h + 2 <= Len(c) /\ h + 1 + 1 = h + 2 /\ 1 \in 1..l
    BY <1>2, <1>9, <1>10
  <2>2. c[h + 2] # ":"
    BY <1>1, <1>10, <2>1
  <2>3. \A j \in 1..h : c[j] # ":"
    BY <1>1, <1>10
  <2>4. RunAt(c, ":", h + 2, Piece(c, ":", 2))
    BY <1>2, <1>8, <1>10, <2>1, <2>2, <2>3, SecondPiece, Zenon
  <2> QED BY <1>8, <2>1, <2>4, PieceType
<1> HIDE DEF Q
<1>13. l + 1 <= Len(Q) /\ (\A j \in 1..l : Q[j] = a.port[j]) /\ Q[l + 1] = "/"
  <2> DEFINE k == l + 1
             b == h + 1
  <2>1. k \in Nat \ {0} /\ b \in Nat /\ b + k <= Len(c)
    BY <1>2, <1>9, <1>10
  <2>2. b + k = h + l + 2 /\ \A j \in 1..k : j \in 1..l \/ j = k
    BY <1>2
  <2>3. (\A j \in 1..l : j \in 1..k) /\ k \in 1..k
    BY <1>2
  <2>4. Clear(c, ":", b, k)
    <3>1. \A j \in 1..k : c[b + j] # ":"
      BY <1>1, <1>10, <2>2
    <3> QED BY <2>1, <3>1 DEF Clear
  <2>5. RunAt(c, ":", b + 1, Q)
    BY <1>12
  <2>6. (\A j \in 1..l : c[b + j] = a.port[j]) /\ c[b + k] = "/"
    BY <1>10, <2>2
  <2> HIDE DEF k, b
  <2>7. Prefix(c, b, k, Q)
    BY <1>8, <1>12, <2>1, <2>4, <2>5, RunBehind
  <2>8. k <= Len(Q) /\ (\A j \in 1..l : Q[j] = a.port[j]) /\ Q[k] = "/"
    BY <2>3, <2>6, <2>7 DEF Prefix
  <2> QED BY <2>8 DEF k
<1>14. Piece(Q, "/", 1) = a.port
  <2> DEFINE p == Piece(Q, "/", 1)
  <2>1. /\ 1 \in 1..l /\ Q # <<>> /\ 0 \in Nat
        /\ 0 + l <= Len(Q) /\ 0 + l + 1 <= Len(Q) /\ 0 + l + 1 = l + 1
        /\ \A j \in 1..l : 0 + j = j
    BY <1>2, <1>12, <1>13
  <2>2. Q[1] # "/" /\ \A j \in 1..l : Q[0 + j] # "/"
    BY <1>1, <1>13, <2>1
  <2>3. p \in Seq(Chars) /\ RunAt(Q, "/", 0 + 1, p)
    BY <1>12, <2>1, <2>2, FirstPiece, PieceType
  <2> HIDE DEF p
  <2>4. Clear(Q, "/", 0, l)
    BY <2>1, <2>2 DEF Clear
  <2>5. /\ Prefix(Q, 0, l, p)
        /\ 0 + l + 1 <= Len(Q) /\ Q[0 + l + 1] = "/" => Len(p) = l
    BY <1>2, <1>12, <2>1, <2>3, <2>4, RunBehind
  <2>6. Len(p) = l /\ \A j \in 1..l : p[j] = a.port[j]
    BY <1>13, <2>1, <2>5 DEF Prefix
  <2>7. p = a.port
    BY <1>1, <2>3, <2>6, Same DEF l
  <2> QED BY <2>7 DEF p
<1>15. c # <<>>
  BY <1>8 DEF RunAt
<1> QED BY <1>11, <1>14, <1>15 DEF PortOf, Q, c, T

-----------------------------------------------------------------------------
AddressInv ==
  /\ address = NoAddress \/ address \in Addresses
  /\ at = "address" => address \in Addresses
  /\ at \notin {"address", "wait_conn", "died"} => address = NoAddress
  /\ ProbesTheHost

LEMMA NoAddressIsNone == NoAddress \notin Addresses
BY AddressParts DEF NoAddress

LEMMA AddressInit == Init => AddressInv
BY DEF Init, AddressInv, ProbesTheHost

LEMMA AddressStep == AddressInv /\ [Next]_vars => AddressInv'
<1> SUFFICES ASSUME AddressInv, [Next]_vars PROVE AddressInv'
  OBVIOUS
<1> USE DEF Goto, Terminate, callVars, frameVars, requestVars, addressVars
<1>1. CASE RpcEncodeReq \/ ForeignReq \/ RpcDecodeReq \/ Find \/ GetTuple \/ Invoke
             \/ SendReply \/ RpcDecodeRep
  <2>1. /\ address' = address /\ address = NoAddress
        /\ at' \notin {"address", "wait_conn"}
    BY <1>1 DEF AddressInv, RpcEncodeReq, ForeignReq, RpcDecodeReq, Find, GetTuple, Invoke,
                SendReply, RpcDecodeRep
  <2> QED BY <2>1 DEF AddressInv, ProbesTheHost, NoAddress
<1>2. CASE SplitAddress
  <2>1. address \in Addresses /\ address' = address /\ at' \in {"wait_conn", "died"}
    BY <1>2 DEF AddressInv, SplitAddress
  <2> SUFFICES ASSUME address.user # <<>>, address.port # <<>>
               PROVE  at' = "wait_conn"
                      /\ target' = [host |-> address.host, port |-> address.port]
    BY <2>1, Zenon DEF AddressInv, ProbesTheHost
  <2> DEFINE c == ConnSp(Text(address))
             Q == Piece(c, ":", 2)
  <2>2. c # <<>> /\ Piece(c, ":", 1) = address.host /\ Piece(Q, "/", 1) = address.port
    BY <2>1, Complete DEF PortOf
  <2>3. address.host # <<>> /\ PortNumber(address.port)
    BY <2>1, AddressParts DEF PortNumber
  <2>4. Q # <<>>
    BY <2>2, NoPiece
  <2>5. /\ ReadText(c) = {c} /\ ReadText(Piece(c, ":", 1)) = {address.host}
        /\ ReadText(Q) = {Q} /\ ReadText(Piece(Q, "/", 1)) = {address.port}
    BY <2>2, <2>3, <2>4 DEF ReadText
  <2>6. \/ target' = [host |-> address.host, port |-> address.port] /\ at' = "wait_conn"
        \/ ~PortNumber(address.port)
        \/ <<>> \in {c, Piece(c, ":", 1), Q, Piece(Q, "/", 1)}
    <3>1. PICK addr \in ReadText(Piece(c, ":", 1)), hp \in ReadText(Q) :
          \E p \in ReadText(Piece(hp, "/", 1)) :
            \/ PortNumber(p) /\ target' = [host |-> addr, port |-> p] /\ at' = "wait_conn"
            \/ ~PortNumber(p)
            \/ <<>> \in {c, Piece(c, ":", 1), Q, Piece(hp, "/", 1)}
      <4>1. PICK conn_sp \in ReadText(c) :
            \E addr \in ReadText(Piece(conn_sp, ":", 1)), hp \in ReadText(Piece(conn_sp, ":", 2)) :
            \E p \in ReadText(Piece(hp, "/", 1)) :
              \/ PortNumber(p) /\ target' = [host |-> addr, port |-> p] /\ at' = "wait_conn"
              \/ ~PortNumber(p)
              \/ <<>> \in {c, Piece(conn_sp, ":", 1), Piece(conn_sp, ":", 2),
                           Piece(hp, "/", 1)}
        BY <1>2, Zenon DEF SplitAddress
      <4>2. conn_sp = c
        BY <2>5, <4>1
      <4> QED BY <4>1, <4>2, Zenon
    <3>2. addr = address.host /\ hp = Q
      BY <2>5, <3>1
    <3>3. PICK p \in ReadText(Piece(Q, "/", 1)) :
            \/ PortNumber(p) /\ target' = [host |-> addr, port |-> p] /\ at' = "wait_conn"
            \/ ~PortNumber(p)
            \/ <<>> \in {c, Piece(c, ":", 1), Q, Piece(Q, "/", 1)}
      BY <3>1, <3>2, Zenon
    <3>4. p = address.port
      BY <2>5, <3>3
    <3> QED BY <3>2, <3>3, <3>4, Zenon
  <2> HIDE DEF c, Q
  <2>7. <<>> \notin {c, Piece(c, ":", 1), Q, Piece(Q, "/", 1)}
    <3>1. address.port # <<>>
      OBVIOUS
    <3> QED BY <2>2, <2>3, <2>4, <3>1
  <2> QED BY <2>3, <2>6, <2>7, Zenon
<1>3. CASE UNCHANGED vars
  BY <1>3 DEF vars, AddressInv, ProbesTheHost
<1> QED BY <1>1, <1>2, <1>3 DEF Next, Stopped

LEMMA AddressSplit == AddressInv => SplitSound
<1> SUFFICES ASSUME AddressInv, at = "address", NEW d \in {"@", ":", "/"}
             PROVE  /\ Len(SplitStr(Text(address), d)) = Cardinality(Begins(Text(address), d))
                    /\ \A i \in Begins(Text(address), d) :
                         RunAt(Text(address), d, i,
                               SplitStr(Text(address), d)[Rank(Text(address), d, i)])
  BY DEF SplitSound
<1> DEFINE str == Text(address)
<1>1. str \in Seq(Chars)
  BY TextParts DEF AddressInv
<1> HIDE DEF str
<1>2. Found(Chars, str, d, SplitStr(str, d), Len(str))
  BY <1>1, SplitFound
<1>3. \A i \in Begins(str, d) : i <= Len(str)
  BY <1>1 DEF Begins
<1>4. Len(SplitStr(str, d)) = Cardinality(Begins(str, d))
  BY <1>1, SplitFound
<1> QED BY <1>2, <1>3, <1>4 DEF Found, str

\* split_str finds the pieces of every address that run_server may be given, all of
\* them, whole and in order, whatever characters and delimiters the address holds.
THEOREM SplitSoundCorrect == Spec => []SplitSound
<1>1. AddressInv /\ [Next]_vars => AddressInv'
  BY AddressStep
<1> QED BY <1>1, AddressInit, AddressSplit, PTL DEF Spec

\* If an address names a user and a port, then run_server waits for its host and port
\* and does not die of it, whatever the virtual host and the rest of the address are (the
\* first lines of run_server, wait_conn).
THEOREM ProbesTheHostCorrect == Spec => []ProbesTheHost
<1>1. AddressInv /\ [Next]_vars => AddressInv'
  BY AddressStep
<1>2. AddressInv => ProbesTheHost
  BY DEF AddressInv
<1> QED BY <1>1, <1>2, AddressInit, PTL DEF Spec

-----------------------------------------------------------------------------
(* The call.                                                               *)

\* What callers give, as it is written.
Dumps == {Dumped(v) : v \in Values}
AllDumped(vs) == [i \in DOMAIN vs |-> Dumped(vs[i])]

LEMMA DumpsAreTrees == \A v \in Dumps : Tree(v)
<1> SUFFICES ASSUME NEW v \in Values PROVE Tree(Dumped(v))
  BY DEF Dumps
<1> DEFINE d == Dumped(v)
<1>1. d = [p \in DOMAIN v |-> Written(v[p])]
  BY DEF Dumped
<1>2. d = [p \in DOMAIN d |-> d[p]] /\ DOMAIN d = DOMAIN v
  BY <1>1
<1>3. Tree(v)
  BY ValuesAssumption
<1> HIDE DEF d
<1>4. ASSUME NEW p \in DOMAIN v
      PROVE  /\ d[p] \in [t : NodeTypes, n : Int]
             /\ Container(d[p]) => \A i \in 1..d[p].n : Append(p, i) \in DOMAIN d
  <2>1. /\ v[p] \in [t : NodeTypes, n : Int]
        /\ Container(v[p]) => \A i \in 1..v[p].n : Append(p, i) \in DOMAIN v
    BY <1>3 DEF Tree
  <2>2. d[p] = IF v[p].t = "nonfinite" THEN [t |-> "null", n |-> 0] ELSE v[p]
    BY <1>1 DEF Written
  <2>3. CASE v[p].t = "nonfinite"
    BY <2>2, <2>3 DEF Container, NodeTypes, JsonTypes
  <2>4. CASE v[p].t # "nonfinite"
    BY <1>2, <2>1, <2>2, <2>4
  <2> QED BY <2>3, <2>4
<1>5. Tree(d)
  BY <1>2, <1>3, <1>4 DEF Tree
<1> QED BY <1>5 DEF d

LEMMA AllDumpedType ==
  ASSUME NEW vs \in Seq(Values)
  PROVE  /\ AllDumped(vs) \in Seq(Dumps) /\ Len(AllDumped(vs)) = Len(vs)
         /\ \A i \in DOMAIN vs : AllDumped(vs)[i] = Dumped(vs[i])
<1>1. \A i \in 1..Len(vs) : Dumped(vs[i]) \in Dumps
  BY DEF Dumps
<1>2. DOMAIN vs = 1..Len(vs) /\ Len(vs) \in Nat
  OBVIOUS
<1>3. AllDumped(vs) = [i \in 1..Len(vs) |-> Dumped(vs[i])]
  BY <1>2, Zenon DEF AllDumped
<1> QED BY <1>1, <1>2, <1>3

USE SizesAssumption, DumpsAreTrees

LEMMA ItemPath ==
  ASSUME NEW i \in Nat, NEW q \in Seq(Nat)
  PROVE  /\ Below(i, q) \in Seq(Nat) /\ Below(i, q) # <<>>
         /\ Head(Below(i, q)) = i /\ Tail(Below(i, q)) = q
BY DEF Below

LEMMA ValuePaths ==
  ASSUME NEW vs \in Seq(Dumps), NEW i \in 1..Len(vs)
  PROVE  /\ i \in DOMAIN vs /\ i \in Nat /\ vs[i] \in Dumps
         /\ Tree(vs[i]) /\ DOMAIN vs[i] \subseteq Seq(Nat)
<1>1. i \in DOMAIN vs /\ i \in Nat /\ vs[i] \in Dumps
  OBVIOUS
<1> QED BY <1>1 DEF Tree

LEMMA NodeRoot ==
  ASSUME NEW t, NEW vs \in Seq(Dumps)
  PROVE  /\ Type(Node(t, vs)) = t
         /\ Node(t, vs)[<<>>] = [t |-> t, n |-> Len(vs)]
         /\ DOMAIN Node(t, vs) = {<<>>} \cup ItemPaths(vs)
BY DEF Node, Type

LEMMA NodeItem ==
  ASSUME NEW t, NEW vs \in Seq(Dumps), NEW i \in 1..Len(vs), NEW q \in DOMAIN vs[i]
  PROVE  Below(i, q) \in DOMAIN Node(t, vs) /\ Node(t, vs)[Below(i, q)] = vs[i][q]
<1>1. i \in DOMAIN vs /\ i \in Nat /\ q \in Seq(Nat)
  BY ValuePaths
<1>2. Below(i, q) \in ItemPaths(vs)
  BY <1>1 DEF ItemPaths
<1>3. /\ Below(i, q) # <<>>
      /\ Head(Below(i, q)) = i /\ Tail(Below(i, q)) = q
  BY <1>1, ItemPath
<1>4. Node(t, vs)[Below(i, q)] = vs[Head(Below(i, q))][Tail(Below(i, q))]
  BY <1>2, <1>3, Zenon DEF Node
<1>5. Below(i, q) \in DOMAIN Node(t, vs)
  BY <1>2, NodeRoot
<1>6. vs[Head(Below(i, q))][Tail(Below(i, q))] = vs[i][q]
  BY <1>3, Zenon
<1> QED BY <1>4, <1>5, <1>6

LEMMA NodeItemDomain ==
  ASSUME NEW t, NEW vs \in Seq(Dumps), NEW i \in 1..Len(vs)
  PROVE  {Tail(p) : p \in {p \in DOMAIN Node(t, vs) : p # <<>> /\ Head(p) = i}} = DOMAIN vs[i]
<1> DEFINE D == {p \in DOMAIN Node(t, vs) : p # <<>> /\ Head(p) = i}
<1>1. ASSUME NEW q \in DOMAIN vs[i] PROVE \E p \in D : Tail(p) = q
  <2>1. i \in Nat /\ q \in Seq(Nat)
    BY ValuePaths
  <2>2. /\ Below(i, q) # <<>> /\ Head(Below(i, q)) = i /\ Tail(Below(i, q)) = q
    BY <2>1, ItemPath
  <2>3. Below(i, q) \in DOMAIN Node(t, vs)
    BY NodeItem
  <2> QED BY <2>2, <2>3
<1>2. ASSUME NEW p \in D PROVE Tail(p) \in DOMAIN vs[i]
  <2>1. p \in ItemPaths(vs) /\ Head(p) = i
    BY NodeRoot
  <2>2. PICK j \in DOMAIN vs : p \in {Below(j, q) : q \in DOMAIN vs[j]}
    BY <2>1, Zenon DEF ItemPaths
  <2>3. PICK q \in DOMAIN vs[j] : p = Below(j, q)
    BY <2>2
  <2>4. j \in 1..Len(vs)
    BY <2>2
  <2>5. j \in Nat /\ q \in Seq(Nat)
    BY <2>4, ValuePaths
  <2>6. Head(p) = j /\ Tail(p) = q
    BY <2>3, <2>5, ItemPath
  <2> QED BY <2>1, <2>6
<1> HIDE DEF D
<1>3. {Tail(p) : p \in D} = DOMAIN vs[i]
  BY <1>1, <1>2
<1> QED BY <1>3, Zenon DEF D

LEMMA Residue ==
  ASSUME NEW n \in Int
  PROVE  n % (2 * Top) \in 0 .. 2 * Top - 1
<1> DEFINE M == 2 * Top
<1>1. M \in Nat /\ M > 0
  OBVIOUS
<1> HIDE DEF M
<1>2. n % M \in 0 .. M - 1
  BY <1>1
<1> QED BY <1>2 DEF M

LEMMA ResidueOf ==
  ASSUME NEW M \in Nat \ {0}, NEW k \in 0 .. M - 1
  PROVE  k % M = k /\ (k - M) % M = k
OBVIOUS

LEMMA Truncated ==
  ASSUME NEW n \in Int
  PROVE  /\ Truncate(n) \in IntRange
         /\ Truncate(n) % (2 * Top) = n % (2 * Top)
<1> DEFINE low == n % (2 * Top)
<1>1. low \in 0 .. 2 * Top - 1
  BY Residue
<1>2. 2 * Top \in Nat \ {0}
  OBVIOUS
<1>3. low % (2 * Top) = low /\ (low - 2 * Top) % (2 * Top) = low
  BY <1>1, <1>2, ResidueOf, Zenon
<1>4. Truncate(n) = IF low < Top THEN low ELSE low - 2 * Top
  BY DEF Truncate
<1> HIDE DEF low
<1>5. Truncate(n) \in IntRange
  BY <1>1, <1>4 DEF IntRange
<1>6. Truncate(n) % (2 * Top) = low
  BY <1>3, <1>4
<1> QED BY <1>5, <1>6 DEF low

LEMMA TruncatedZero == Truncate(0) = 0
<1>1. 0 % (2 * Top) = 0
  BY ResidueOf
<1> QED BY <1>1 DEF Truncate

LEMMA ParsedElement ==
  ASSUME NEW v
  PROVE  /\ DOMAIN ParseElement(v) = DOMAIN v
         /\ \A p \in DOMAIN v :
              ParseElement(v)[p] = IF v[p].t = "int" THEN [v[p] EXCEPT !.n = Truncate(@)] ELSE v[p]
BY DEF ParseElement

LEMMA ParsedNode ==
  ASSUME NEW t \in NodeTypes \ {"int"}, NEW vs \in Seq(Dumps)
  PROVE  /\ Type(ParseElement(Node(t, vs))) = t
         /\ DOMAIN Items(ParseElement(Node(t, vs))) = 1..Len(vs)
         /\ Len(Items(ParseElement(Node(t, vs)))) = Len(vs)
         /\ Items(ParseElement(Node(t, vs))) =
              [i \in 1..Len(vs) |-> Item(ParseElement(Node(t, vs)), i)]
<1>1. /\ <<>> \in DOMAIN Node(t, vs)
      /\ Node(t, vs)[<<>>] = [t |-> t, n |-> Len(vs)]
  BY NodeRoot
<1>2. ParseElement(Node(t, vs))[<<>>] = [t |-> t, n |-> Len(vs)]
  <2>1. Node(t, vs)[<<>>].t # "int"
    BY <1>1
  <2> QED BY <1>1, <2>1, ParsedElement
<1>3. Items(ParseElement(Node(t, vs))) =
        [i \in 1..Len(vs) |-> Item(ParseElement(Node(t, vs)), i)]
  BY <1>2 DEF Items
<1> QED BY <1>2, <1>3 DEF Type

LEMMA ParsedNoKeywords ==
  /\ Type(ParseElement(Object(<<>>))) = "object"
  /\ Items(ParseElement(Object(<<>>))) = <<>>
<1> DEFINE v == ParseElement(Node("object", <<>>))
<1>1. <<>> \in Seq(Dumps) /\ Len(<<>>) = 0
  OBVIOUS
<1>2. "object" \in NodeTypes \ {"int"}
  BY DEF NodeTypes, JsonTypes
<1>3. Type(v) = "object" /\ Items(v) = [i \in 1..0 |-> Item(v, i)]
  BY <1>1, <1>2, ParsedNode
<1> HIDE DEF v
<1>4. [i \in 1..0 |-> Item(v, i)] = <<>>
  OBVIOUS
<1> QED BY <1>3, <1>4 DEF Object, v

LEMMA ParsedItem ==
  ASSUME NEW t, NEW vs \in Seq(Dumps), NEW i \in 1..Len(vs)
  PROVE  Item(ParseElement(Node(t, vs)), i) = ParseElement(vs[i])
<1> DEFINE v == ParseElement(Node(t, vs))
           w == Item(v, i)
<1>1. DOMAIN v = DOMAIN Node(t, vs)
  BY ParsedElement
<1>2. w = [q \in {Tail(p) : p \in {p \in DOMAIN v : p # <<>> /\ Head(p) = i}} |-> v[Below(i, q)]]
  BY DEF Item
<1>3. {Tail(p) : p \in {p \in DOMAIN v : p # <<>> /\ Head(p) = i}} = DOMAIN vs[i]
  BY <1>1, NodeItemDomain, Zenon
<1>4. w = [q \in DOMAIN vs[i] |-> v[Below(i, q)]]
  BY <1>2, <1>3, Zenon
<1>5. ASSUME NEW q \in DOMAIN vs[i]
      PROVE  v[Below(i, q)] =
               IF vs[i][q].t = "int" THEN [vs[i][q] EXCEPT !.n = Truncate(@)] ELSE vs[i][q]
  <2> HIDE DEF v, w
  <2>1. Below(i, q) \in DOMAIN Node(t, vs) /\ Node(t, vs)[Below(i, q)] = vs[i][q]
    BY NodeItem
  <2> QED BY <2>1, ParsedElement DEF v
<1>6. w = [q \in DOMAIN vs[i] |->
             IF vs[i][q].t = "int" THEN [vs[i][q] EXCEPT !.n = Truncate(@)] ELSE vs[i][q]]
  BY <1>4, <1>5, Zenon
<1> QED BY <1>6, Zenon DEF ParseElement

LEMMA ParsedCongruent ==
  ASSUME NEW v \in Dumps
  PROVE  Congruent(v, ParseElement(v))
<1> DEFINE a == ParseElement(v)
<1>1. DOMAIN a = DOMAIN v
  BY ParsedElement
<1>2. ASSUME NEW p \in DOMAIN v
      PROVE  /\ a[p].t = v[p].t
             /\ IF v[p].t = "int"
                THEN a[p].n % (2 * Top) = v[p].n % (2 * Top) /\ a[p].n \in IntRange
                ELSE a[p].n = v[p].n
  <2>1. v[p] \in [t : NodeTypes, n : Int]
    BY DEF Tree
  <2>2. a[p] = IF v[p].t = "int" THEN [v[p] EXCEPT !.n = Truncate(@)] ELSE v[p]
    BY ParsedElement
  <2>3. CASE v[p].t = "int"
    <3>1. a[p].t = v[p].t /\ a[p].n = Truncate(v[p].n)
      BY <2>1, <2>2, <2>3
    <3>2. v[p].n \in Int
      BY <2>1
    <3> QED BY <2>3, <3>1, <3>2, Truncated
  <2>4. CASE v[p].t # "int"
    BY <2>2, <2>4
  <2> QED BY <2>3, <2>4
<1> HIDE DEF a
<1>3. Congruent(v, a)
  BY <1>1, <1>2 DEF Congruent
<1> QED BY <1>3 DEF a

LEMMA ParsedNumber ==
  /\ ParseElement(Num(0)) = Num(0) /\ Type(Num(0)) = "int"
  /\ \A n \in Int : ParseElement(Str(n)) = Str(n) /\ Type(Str(n)) = "string"
<1>1. ParseElement(Num(0)) = Num(0)
  <2>1. Num(0) = [p \in {<<>>} |-> [t |-> "int", n |-> 0]]
    BY DEF Num, Leaf
  <2>2. DOMAIN Num(0) = {<<>>} /\ Num(0)[<<>>] = [t |-> "int", n |-> 0]
    BY <2>1
  <2>3. ParseElement(Num(0)) = [p \in {<<>>} |-> [t |-> "int", n |-> Truncate(0)]]
    BY <2>2 DEF ParseElement
  <2> QED BY <2>1, <2>3, TruncatedZero
<1>2. ASSUME NEW n \in Int PROVE ParseElement(Str(n)) = Str(n)
  <2>1. Str(n) = [p \in {<<>>} |-> [t |-> "string", n |-> n]]
    BY DEF Str, Leaf
  <2>2. DOMAIN Str(n) = {<<>>} /\ Str(n)[<<>>] = [t |-> "string", n |-> n]
    BY <2>1
  <2>3. ParseElement(Str(n)) = [p \in {<<>>} |-> Str(n)[p]]
    BY <2>2 DEF ParseElement
  <2> QED BY <2>1, <2>2, <2>3
<1> QED BY <1>1, <1>2 DEF Type, Num, Str, Leaf

-----------------------------------------------------------------------------
\* What of the request is still to come, and what of it has come.
RequestInv ==
  /\ given \in Seq(Values)
  /\ own =>
       /\ fault # "malformed" /\ res.error # KeywordError
       /\ at = "decode_req" => frame = EncodeReq(given)
       /\ at \in {"find", "get_tuple", "invoke"} =>
            kws = <<>> /\ args = Items(ParseElement(Array(AllDumped(given))))

LEMMA UptoSeq ==
  ASSUME NEW S, NEW n \in Nat
  PROVE  <<>> \in Seq(S) /\ Upto(S, n) \subseteq Seq(S)
<1>1. ASSUME NEW s \in Upto(S, n) PROVE s \in Seq(S)
  <2>1. PICK k \in 0..n : s \in [1..k -> S]
    BY Zenon DEF Upto
  <2> QED BY <2>1
<1> QED BY <1>1

LEMMA OwnDecoded ==
  ASSUME RequestInv, own, RpcDecodeReq
  PROVE  /\ at' = "find" /\ fault' = fault
         /\ kws' = <<>> /\ args' = Items(ParseElement(Array(AllDumped(given))))
<1> DEFINE data == [i \in DOMAIN frame |-> ParseElement(frame[i])]
<1>1. /\ DOMAIN frame = 1..5
      /\ frame[1] = Num(0) /\ frame[2] = MsgId /\ frame[3] = Meth
      /\ frame[4] = Array(AllDumped(given)) /\ frame[5] = Object(<<>>)
  BY DEF RequestInv, RpcDecodeReq, EncodeReq, AllDumped
<1>2. /\ Len(data) = 5
      /\ data[1] = ParseElement(Num(0)) /\ data[2] = ParseElement(MsgId)
      /\ data[3] = ParseElement(Meth)
      /\ data[4] = ParseElement(Array(AllDumped(given))) /\ data[5] = ParseElement(Object(<<>>))
  BY <1>1
<1>3. /\ data[1] = Num(0) /\ data[2] = MsgId
      /\ Type(data[1]) = "int" /\ Type(data[2]) = "string" /\ Type(data[3]) = "string"
  BY <1>2, ParsedNumber DEF MsgId, Meth
<1>4. Type(data[4]) = "array"
  BY <1>2, ParsedNode, AllDumpedType DEF RequestInv, NodeTypes, JsonTypes, Array
<1>5. Type(data[5]) = "object" /\ Items(data[5]) = <<>>
  BY <1>2, ParsedNoKeywords
<1> HIDE DEF data
<1>6. Decodable(data)
  BY <1>2, <1>3, <1>4, <1>5 DEF Decodable
<1>7. Asserted(data)
  BY <1>2, <1>3 DEF Asserted
<1>8. Read(data, 4) = {data[4]} /\ Read(data, 5) = {data[5]}
  BY <1>1 DEF Read, data
<1>9. args' = Items(data[4]) /\ kws' = Items(data[5]) /\ Goto("find")
  BY <1>6, <1>7, <1>8 DEF RpcDecodeReq, data
<1> QED BY <1>2, <1>5, <1>9 DEF Goto

LEMMA RequestInit == Init => RequestInv
<1> SUFFICES ASSUME Init PROVE RequestInv
  OBVIOUS
<1>1. given \in Upto(Values, MaxArgs) \/ given = <<>>
  BY DEF Init
<1>2. given \in Seq(Values)
  BY <1>1, UptoSeq
<1> QED BY <1>2 DEF Init, RequestInv, KeywordError

LEMMA RequestStep == RequestInv /\ [Next]_vars => RequestInv'
<1> SUFFICES ASSUME RequestInv, [Next]_vars PROVE RequestInv'
  OBVIOUS
<1> USE DEF RequestInv, Goto, Terminate, callVars, frameVars, requestVars, addressVars
<1>1. CASE RpcEncodeReq
  BY <1>1 DEF RpcEncodeReq
<1>2. CASE ForeignReq
  BY <1>2 DEF ForeignReq
<1>3. CASE RpcDecodeReq
  <2>1. /\ given' = given /\ own' = own /\ frame' = frame /\ res' = res
        /\ at' \in {"find", "died"}
    BY <1>3 DEF RpcDecodeReq
  <2>2. CASE own
    <3>1. /\ at' = "find" /\ fault' = fault
          /\ kws' = <<>> /\ args' = Items(ParseElement(Array(AllDumped(given))))
      BY <1>3, <2>2, OwnDecoded
    <3> QED BY <2>1, <2>2, <3>1
  <2> QED BY <2>1, <2>2
<1>4. CASE Find
  BY <1>4 DEF Find
<1>5. CASE GetTuple
  BY <1>5 DEF GetTuple
<1>6. CASE Invoke
  BY <1>6 DEF Invoke, Failed, What, KeywordError, MethodError, ForeignError
<1>7. CASE SendReply
  BY <1>7 DEF SendReply
<1>8. CASE RpcDecodeRep
  BY <1>8 DEF RpcDecodeRep
<1>9. CASE SplitAddress
  BY <1>9 DEF SplitAddress
<1>10. CASE UNCHANGED vars
  BY <1>10 DEF vars
<1> QED BY <1>1, <1>2, <1>3, <1>4, <1>5, <1>6, <1>7, <1>8, <1>9, <1>10 DEF Next, Stopped

LEMMA RequestCarried == RequestInv => Carried
<1> SUFFICES ASSUME RequestInv, own PROVE Carried
  BY DEF Carried
<1>1. ASSUME at \in {"find", "get_tuple", "invoke"}
      PROVE  /\ Len(args) = Len(given)
             /\ \A i \in DOMAIN given : Congruent(Dumped(given[i]), args[i])
  <2> DEFINE sent == AllDumped(given)
  <2>1. given \in Seq(Values) /\ args = Items(ParseElement(Array(sent)))
    BY <1>1 DEF RequestInv
  <2>2. /\ sent \in Seq(Dumps) /\ Len(sent) = Len(given)
        /\ \A i \in DOMAIN given : sent[i] = Dumped(given[i])
    BY <2>1, AllDumpedType
  <2> HIDE DEF sent
  <2>3. "array" \in NodeTypes \ {"int"}
    BY DEF NodeTypes, JsonTypes
  <2>4. /\ Len(args) = Len(given)
        /\ args = [i \in 1..Len(given) |-> Item(ParseElement(Array(sent)), i)]
    BY <2>1, <2>2, <2>3, ParsedNode DEF Array
  <2>5. ASSUME NEW i \in DOMAIN given PROVE Congruent(Dumped(given[i]), args[i])
    <3>1. i \in 1..Len(sent) /\ sent[i] \in Dumps /\ sent[i] = Dumped(given[i])
      BY <2>1, <2>2
    <3>2. args[i] = ParseElement(sent[i])
      BY <2>1, <2>2, <2>4, <3>1, ParsedItem DEF Array
    <3>3. Congruent(sent[i], args[i])
      BY <3>1, <3>2, ParsedCongruent
    <3> QED BY <3>1, <3>3
  <2> QED BY <2>4, <2>5
<1> QED BY <1>1 DEF Carried, RequestInv

\* Whatever the arguments are, a request that rpc_encode_req made reaches the method
\* with all of them, in order and shape, integers modulo the width of an int
\* (rpc_decode_req, _parse_json_element).
THEOREM CarriedCorrect == Spec => []Carried
<1>1. RequestInv /\ [Next]_vars => RequestInv'
  BY RequestStep
<1> QED BY <1>1, RequestInit, RequestCarried, PTL DEF Spec

-----------------------------------------------------------------------------
LEMMA Converted ==
  ASSUME NEW a, NEW p, Accepts(a, p)
  PROVE  /\ HasType(GetV(a, p), p)
         /\ GetV(a, p) = a \/ (GetV(a, p)[<<>>].n = 0 /\ Type(a) # Type(GetV(a, p)))
<1>1. CASE Container(p)
  BY <1>1 DEF Accepts, GetV, HasType, Held, Transforms
<1>2. CASE ~Container(p) /\ Held(a, p)
  BY <1>2 DEF GetV, HasType, Held
<1>3. CASE ~Container(p) /\ ~Held(a, p)
  <2>1. GetV(a, p) = Leaf(p.t, 0) /\ Type(a) # p.t
    BY <1>3 DEF GetV, Held
  <2>2. Leaf(p.t, 0)[<<>>] = [t |-> p.t, n |-> 0]
    BY DEF Leaf
  <2>3. Type(GetV(a, p)) = p.t /\ GetV(a, p)[<<>>].n = 0
    BY <2>1, <2>2 DEF Type
  <2> QED BY <1>3, <2>1, <2>3 DEF HasType
<1> QED BY <1>1, <1>2, <1>3

\* An argument of the parameter's type arrives so that getv takes it as it is.
LEMMA FitsAccepted ==
  ASSUME NEW v, Tree(v), NEW a, Congruent(v, a), NEW p, HasType(v, p)
  PROVE  Accepts(a, p) /\ GetV(a, p) = a
<1>1. <<>> \in DOMAIN v /\ Type(a) = p.t
  BY DEF Tree, Congruent, HasType, Type
<1>2. CASE ~Container(p) \/ p.of = "any"
  BY <1>1, <1>2 DEF Accepts, GetV, Held
<1>3. CASE Container(p) /\ p.of # "any"
  <2> DEFINE n == v[<<>>].n
  <2>1. Container(v[<<>>]) /\ v[<<>>].t # "int"
    BY <1>3 DEF HasType, Type, Container
  <2>2. a[<<>>].n = n /\ n \in Int
    BY <1>1, <2>1 DEF Congruent, Tree
  <2>3. ASSUME NEW i \in 1..n PROVE Type(Item(a, i)) = Type(Item(v, i))
    <3>1. i \in Nat
      BY <2>2
    <3>2. Append(<<>>, i) = Below(i, <<>>) /\ <<>> \in Seq(Nat)
      BY <3>1 DEF Below
    <3>3. Below(i, <<>>) \in DOMAIN v
      <4>1. \A j \in 1..v[<<>>].n : Append(<<>>, j) \in DOMAIN v
        BY <1>1, <2>1 DEF Tree
      <4> QED BY <3>2, <4>1, Zenon
    <3>4. /\ Below(i, <<>>) # <<>>
          /\ Head(Below(i, <<>>)) = i /\ Tail(Below(i, <<>>)) = <<>>
      BY <3>1, <3>2, ItemPath
    <3>5. DOMAIN a = DOMAIN v /\ a[Below(i, <<>>)].t = v[Below(i, <<>>)].t
      BY <3>3 DEF Congruent
    <3> DEFINE D == {Tail(q) : q \in {q \in DOMAIN v : q # <<>> /\ Head(q) = i}}
    <3>6. <<>> \in D
      BY <3>3, <3>4, Zenon
    <3>7. Item(a, i) = [q \in D |-> a[Below(i, q)]] /\ Item(v, i) = [q \in D |-> v[Below(i, q)]]
      BY <3>5 DEF Item
    <3> HIDE DEF D
    <3> QED BY <3>5, <3>6, <3>7 DEF Type
  <2>4. /\ Items(a) = [i \in 1..n |-> Item(a, i)]
        /\ Items(v) = [i \in 1..n |-> Item(v, i)]
    BY <2>2 DEF Items
  <2>5. \A i \in DOMAIN Items(v) : Type(Items(v)[i]) = p.of
    BY <1>3 DEF HasType
  <2> HIDE DEF n
  <2>6. Transforms(a, p)
    BY <1>1, <2>3, <2>4, <2>5 DEF Transforms
  <2> QED BY <1>3, <2>6 DEF Accepts, GetV
<1> QED BY <1>2, <1>3

LEMMA OwnArrives ==
  ASSUME RequestInv, own, at = "get_tuple"
  PROVE  /\ DOMAIN args = 1..Len(given) /\ Len(args) = Len(given)
         /\ DOMAIN given = 1..Len(given) /\ Len(given) \in Nat
         /\ \A i \in DOMAIN given :
              Tree(Dumped(given[i])) /\ Congruent(Dumped(given[i]), args[i])
<1>1. given \in Seq(Values) /\ args = Items(ParseElement(Array(AllDumped(given))))
  BY DEF RequestInv
<1>2. AllDumped(given) \in Seq(Dumps) /\ Len(AllDumped(given)) = Len(given)
  BY <1>1, AllDumpedType
<1>3. "array" \in NodeTypes \ {"int"}
  BY DEF NodeTypes, JsonTypes
<1>4. DOMAIN args = 1..Len(given)
  BY <1>1, <1>2, <1>3, ParsedNode DEF Array
<1>5. DOMAIN given = 1..Len(given) /\ Len(given) \in Nat
  BY <1>1
<1>6. \A i \in DOMAIN given : Tree(Dumped(given[i]))
  <2>1. \A i \in DOMAIN given : given[i] \in Values
    BY <1>1, <1>5
  <2> QED BY <2>1 DEF Dumps
<1> QED BY <1>4, <1>5, <1>6, RequestCarried DEF Carried

\* The first half of RunsWellTyped.
WellTyped ==
  at = "invoke" =>
    \A i \in DOMAIN method.params :
      /\ HasType(vals[i], method.params[i])
      /\ i \in DOMAIN args =>
           vals[i] = args[i] \/ (vals[i][<<>>].n = 0 /\ Type(args[i]) # Type(vals[i]))

\* The second half.
FitsRun ==
  own /\ Fitting =>
    /\ fault \notin {"malformed", "bad_any_cast", "past_the_end"}
    /\ at = "invoke" => \A i \in DOMAIN method.params : Congruent(Dumped(given[i]), vals[i])

TypedInv ==
  /\ method.params \in Seq(Types)
  /\ at = "address" => ~own
  /\ RequestInv
  /\ WellTyped
  /\ FitsRun

LEMMA TypedInit == Init => TypedInv
<1> SUFFICES ASSUME Init PROVE TypedInv
  OBVIOUS
<1>1. method.params \in Upto(Types, MaxArgs) \/ method.params = <<>>
  BY DEF Init
<1>2. method.params \in Seq(Types)
  BY <1>1, UptoSeq
<1>3. at = "address" => ~own
  BY DEF Init
<1> QED BY <1>2, <1>3, RequestInit DEF Init, TypedInv, WellTyped, FitsRun

LEMMA TypedStep == TypedInv /\ [Next]_vars => TypedInv'
<1> SUFFICES ASSUME TypedInv, [Next]_vars PROVE TypedInv'
  OBVIOUS
<1> USE DEF Goto, Terminate, callVars, frameVars, requestVars, addressVars
<1>0. RequestInv'
  BY RequestStep DEF TypedInv
<1>1. CASE GetTuple
  <2>1. /\ method' = method /\ args' = args /\ given' = given /\ own' = own
        /\ at = "get_tuple" /\ at' \in {"invoke", "died"}
    BY <1>1 DEF GetTuple
  <2> DEFINE params == method.params
  <2>2. DOMAIN params = 1..Len(params) /\ Len(params) \in Nat
    BY DEF TypedInv
  <2>3. ASSUME NEW data, \A i \in DOMAIN params : data[i] \in Read(args, i)
        PROVE  \A i \in DOMAIN params : i \in DOMAIN args => data[i] = args[i]
    BY <2>3 DEF Read
  <2>4. WellTyped'
    <3>1. SUFFICES ASSUME at' = "invoke", NEW i \in DOMAIN params
                   PROVE  /\ HasType(vals'[i], params[i])
                          /\ i \in DOMAIN args =>
                               \/ vals'[i] = args[i]
                               \/ vals'[i][<<>>].n = 0 /\ Type(args[i]) # Type(vals'[i])
      BY <2>1 DEF WellTyped
    <3>2. PICK data \in [DOMAIN params -> ToSet(args) \cup Stray] :
            /\ \A j \in DOMAIN params : data[j] \in Read(args, j)
            /\ \A j \in DOMAIN params : Accepts(data[j], params[j])
            /\ vals' = [j \in DOMAIN params |-> GetV(data[j], params[j])]
      BY <1>1, <3>1 DEF GetTuple
    <3>3. vals'[i] = GetV(data[i], params[i]) /\ Accepts(data[i], params[i])
      BY <3>2
    <3>4. i \in DOMAIN args => data[i] = args[i]
      BY <2>3, <3>2
    <3> HIDE DEF params
    <3> QED BY <3>3, <3>4, Converted
  <2>5. FitsRun'
    <3> SUFFICES ASSUME own, Fitting
                 PROVE  /\ fault' \notin {"malformed", "bad_any_cast", "past_the_end"}
                        /\ at' = "invoke" =>
                             \A i \in DOMAIN params : Congruent(Dumped(given[i]), vals'[i])
      BY <2>1 DEF FitsRun, Fitting
    <3>1. fault \notin {"malformed", "bad_any_cast", "past_the_end"}
      BY DEF TypedInv, FitsRun
    <3>2. /\ DOMAIN args = 1..Len(given) /\ Len(args) = Len(given)
          /\ DOMAIN given = 1..Len(given) /\ Len(given) \in Nat
          /\ \A i \in DOMAIN given :
               Tree(Dumped(given[i])) /\ Congruent(Dumped(given[i]), args[i])
      BY <2>1, OwnArrives DEF TypedInv
    <3>3. \A i \in DOMAIN params : i \in DOMAIN given /\ HasType(Dumped(given[i]), params[i])
      BY DEF Fitting
    <3>4. Len(params) <= Len(args)
      <4>1. \A i \in 1..Len(params) : i \in 1..Len(given)
        BY <2>2, <3>2, <3>3
      <4> HIDE DEF params
      <4> QED BY <2>2, <3>2, <4>1
    <3>5. \A i \in DOMAIN params : Accepts(args[i], params[i]) /\ GetV(args[i], params[i]) = args[i]
      BY <3>2, <3>3, FitsAccepted
    <3>6. PICK data \in [DOMAIN params -> ToSet(args) \cup Stray] :
            /\ \A j \in DOMAIN params : data[j] \in Read(args, j)
            /\ \/ /\ vals' = [j \in DOMAIN params |-> GetV(data[j], params[j])]
                  /\ at' = "invoke" /\ fault' = fault
               \/ \E j \in DOMAIN params : ~Accepts(data[j], params[j])
      <4>1. \/ \E data \in [DOMAIN params -> ToSet(args) \cup Stray] :
                 /\ \A j \in DOMAIN params : data[j] \in Read(args, j)
                 /\ \/ /\ vals' = [j \in DOMAIN params |-> GetV(data[j], params[j])]
                       /\ at' = "invoke" /\ fault' = fault
                    \/ \E j \in DOMAIN params : ~Accepts(data[j], params[j])
            \/ Len(params) > Len(args)
        BY <1>1 DEF GetTuple
      <4>2. ~(Len(params) > Len(args))
        <5> HIDE DEF params
        <5> QED BY <2>2, <3>2, <3>4
      <4> QED BY <4>1, <4>2, Zenon
    <3>7. \A j \in DOMAIN params : data[j] = args[j]
      BY <2>3, <3>2, <3>3, <3>6
    <3> HIDE DEF params
    <3>8. /\ vals' = [j \in DOMAIN params |-> GetV(data[j], params[j])]
          /\ at' = "invoke" /\ fault' = fault
      BY <3>5, <3>6, <3>7
    <3>9. \A j \in DOMAIN params : vals'[j] = args[j]
      BY <3>5, <3>7, <3>8
    <3> QED BY <3>1, <3>2, <3>3, <3>8, <3>9
  <2> QED BY <1>0, <2>1, <2>4, <2>5 DEF TypedInv
<1>2. CASE UNCHANGED vars
  BY <1>0, <1>2 DEF vars, TypedInv, WellTyped, FitsRun, Fitting
<1>3. CASE ForeignReq
  BY <1>0, <1>3 DEF ForeignReq, TypedInv, WellTyped, FitsRun
<1>4. CASE RpcEncodeReq \/ RpcDecodeReq \/ Find \/ Invoke \/ SendReply \/ RpcDecodeRep
             \/ SplitAddress
  <2>1. /\ method' = method /\ given' = given /\ own' = own
        /\ at' \notin {"invoke", "address"}
    BY <1>4 DEF RpcEncodeReq, RpcDecodeReq, Find, Invoke, SendReply, RpcDecodeRep,
                SplitAddress
  <2>2. /\ fault' \in {fault, "malformed", "exception", "parse_error", "dump_error"}
        \/ at = "address"
    BY <1>4 DEF RpcEncodeReq, RpcDecodeReq, Find, Invoke, SendReply, RpcDecodeRep,
                SplitAddress
  <2>3. own => fault' # "malformed"
    BY <1>0, <2>1 DEF RequestInv
  <2>4. FitsRun'
    BY <2>1, <2>2, <2>3 DEF TypedInv, FitsRun, Fitting
  <2>5. WellTyped'
    BY <2>1 DEF WellTyped
  <2> QED BY <1>0, <2>1, <2>4, <2>5 DEF TypedInv
<1> QED BY <1>1, <1>2, <1>3, <1>4 DEF Next, Stopped

\* Whatever a request holds, whoever made it, and whatever stands in memory behind its
\* arguments, no parameter of the method that runs has a value of another type than it
\* declares, and a parameter with an argument has that argument or a zero.  A call of the
\* client library that fits the method runs it with its arguments, integers modulo the
\* width of an int (getv, get_tuple).
THEOREM RunsWellTypedCorrect == Spec => []RunsWellTyped
<1>1. TypedInv /\ [Next]_vars => TypedInv'
  BY TypedStep
<1>2. TypedInv => RunsWellTyped
  BY DEF TypedInv, RunsWellTyped, WellTyped, FitsRun
<1> QED BY <1>1, <1>2, TypedInit, PTL DEF Spec

-----------------------------------------------------------------------------
\* The error e and the value v are what the caller has to get.
Right(e, v) ==
  /\ e # 0 <=> kws # <<>> \/ method.end = "runtime_error"
  /\ e = 0 => v = Dumped(returned)

\* The answer, from the method to the end of the call.
ReplyInv ==
  /\ at \in {"encode_req", "decode_req", "find", "get_tuple", "invoke"} =>
       res = [error |-> 0, result |-> <<>>] /\ returned = Null
  /\ at \in {"get_tuple", "invoke"} => kws = <<>>
  /\ at = "send_reply" =>
       res.result = <<>> \/ res.error = ForeignError \/ Right(res.error, res.result[1])
  /\ at = "decode_rep" => reply = EncodeRep(res) /\ Right(res.error, res.result[1])
  /\ at = "returned" => Right(outcome.error, outcome.value)

LEMMA DumpedNull == Dumped(Null) = Null
<1>1. DOMAIN Null = {<<>>} /\ Null[<<>>] = [t |-> "null", n |-> 0]
  BY DEF Null, Leaf
<1>2. Dumped(Null) = [p \in {<<>>} |-> [t |-> "null", n |-> 0]]
  BY <1>1 DEF Dumped, Written
<1> QED BY <1>2 DEF Null, Leaf

LEMMA ReplyInit == Init => ReplyInv
BY DEF Init, ReplyInv

LEMMA ReplyStep == ReplyInv /\ [Next]_vars => ReplyInv'
<1> SUFFICES ASSUME ReplyInv, [Next]_vars PROVE ReplyInv'
  OBVIOUS
<1> USE DEF ReplyInv, Goto, Terminate, callVars, frameVars, requestVars, addressVars
<1>1. CASE RpcEncodeReq
  BY <1>1 DEF RpcEncodeReq
<1>2. CASE ForeignReq
  BY <1>2 DEF ForeignReq
<1>3. CASE RpcDecodeReq
  BY <1>3 DEF RpcDecodeReq
<1>4. CASE Find
  BY <1>4 DEF Find, Right, Failed, KeywordError
<1>5. CASE GetTuple
  BY <1>5 DEF GetTuple
<1>6. CASE Invoke
  <2>1. kws' = <<>> /\ method' = method /\ returned = Null
    BY <1>6 DEF Invoke
  <2>2. CASE method.end \in {"returns", "void"}
    BY <1>6, <2>1, <2>2 DEF Invoke, Right
  <2>3. CASE method.end \in {"runtime_error", "blank_error", "foreign_error"}
    <3>1. /\ at' = "send_reply" /\ returned' = Null
          /\ res' = [error |-> What(method.end), result |-> <<Null>>]
      BY <1>6, <2>1, <2>3 DEF Invoke, Failed
    <3>2. res'.error = What(method.end) /\ res'.result[1] = Null
      BY <3>1
    <3>3. res'.error = ForeignError \/ Right(res.error, res.result[1])'
      BY <2>1, <2>3, <3>1, <3>2, DumpedNull DEF What, Right, MethodError
    <3> QED BY <3>1, <3>3
  <2>4. CASE method.end = "exception"
    BY <1>6, <2>4 DEF Invoke
  <2> QED BY <1>6, <2>2, <2>3, <2>4 DEF Invoke
<1>7. CASE SendReply
  BY <1>7 DEF SendReply, Right
<1>8. CASE RpcDecodeRep
  <2>1. reply = EncodeRep(res) /\ Right(res.error, res.result[1])
    BY <1>8 DEF RpcDecodeRep
  <2>2. reply[3] = Str(res.error) /\ reply[4] = res.result[1]
    BY <2>1 DEF EncodeRep
  <2>3. Str(res.error)[<<>>] = [t |-> "string", n |-> res.error]
    BY DEF Str, Leaf
  <2>4. ErrorOf(reply) = res.error
    BY <2>2, <2>3 DEF ErrorOf, Type
  <2>5. at' = "returned" /\ outcome' = [error |-> res.error, value |-> res.result[1]]
    BY <1>8, <2>2, <2>4 DEF RpcDecodeRep
  <2>6. kws' = kws /\ method' = method /\ returned' = returned
    BY <1>8 DEF RpcDecodeRep
  <2> QED BY <2>1, <2>5, <2>6 DEF Right
<1>9. CASE SplitAddress
  BY <1>9 DEF SplitAddress
<1>10. CASE UNCHANGED vars
  BY <1>10 DEF vars, Right
<1> QED BY <1>1, <1>2, <1>3, <1>4, <1>5, <1>6, <1>7, <1>8, <1>9, <1>10 DEF Next, Stopped

\* Whatever the method returns or throws, the caller that gets an answer gets an error
\* exactly if there is one with a text, and otherwise the result as it is written: null
\* for a double that is not finite, and for a runtime_error without a text (_rpc_worker,
\* send_reply, rpc_decode_rep, Caller::call).
THEOREM CallerSeesCorrect == Spec => []CallerSees
<1>1. ReplyInv /\ [Next]_vars => ReplyInv'
  BY ReplyStep
<1>2. ReplyInv => CallerSees
  BY DEF ReplyInv, CallerSees, Right
<1> QED BY <1>1, <1>2, ReplyInit, PTL DEF Spec
=============================================================================
