--------------------------- MODULE HashTableProofs ---------------------------
(***************************************************************************)
(* Safety of the hash table library, for any number of buckets, keys,      *)
(* values and nodes: the types, the lists, the loops and the memory. The   *)
(* invariant says of the nodes of a bucket what can be said of a set of    *)
(* nodes, without following links: each points to those with the next      *)
(* larger and the next smaller key. From it follows what a loop over the   *)
(* links meets, and so that the library does what Dictionary promises; and *)
(* that the keys it returns survive serialization.c.                       *)
(***************************************************************************)
EXTENDS KeyArrays, FiniteSetTheorems, SequenceTheorems, TLAPS

------------------------------------------------------------------------------
(* Sequences f[0], f[1], ... of which each member is made of the one before.*)

\* A set of numbers has a least one.
LEMMA Least == ASSUME NEW S \in SUBSET Nat, S # {}
               PROVE  \E n \in S : \A m \in S : n <= m
<1> DEFINE R == StrictSubsetOrdering(Nat)
           F == FiniteSubsetsOf(Nat)
           T == {1..n : n \in S}
<1>1. IsWellFoundedOn(R, F)
  BY FS_StrictSubsetOrderingWellFounded
<1>2. \A n \in S : 1..n \in F
  <2> TAKE n \in S
  <2>1. n \in Int /\ 1 \in Int /\ 1..n \in SUBSET Nat
    OBVIOUS
  <2>2. IsFiniteSet(1..n)
    BY <2>1, FS_Interval
  <2> QED BY <2>1, <2>2 DEF FiniteSubsetsOf
<1>3. T \subseteq F /\ T # {}
  BY <1>2
<1> HIDE DEF R, F
<1>4. PICK x \in T : \A y \in T : <<y, x>> \notin R
  BY <1>1, <1>3, WFMin
<1>5. PICK n \in S : x = 1..n
  BY <1>4
<1>6. ASSUME NEW m \in S, m < n PROVE FALSE
  <2>1. 1..m \in SUBSET Nat /\ 1..n \in SUBSET Nat /\ 1..m \subseteq 1..n /\ 1..m # 1..n
    <3>1. n \in 1..n /\ n \notin 1..m
      BY <1>6
    <3> QED BY <3>1, <1>6
  <2>2. <<1..m, 1..n>> \in R
    BY <2>1 DEF R, StrictSubsetOrdering
  <2> QED BY <2>2, <1>4, <1>5
<1> QED BY <1>6

\* Induction over numbers, for a set P of them.
LEMMA AllNumbers == ASSUME NEW P, 0 \in P, \A n \in Nat : n \in P => n + 1 \in P
                    PROVE  Nat \subseteq P
<1> SUFFICES ASSUME Nat \ P # {} PROVE FALSE
  OBVIOUS
<1>1. PICK n \in Nat \ P : \A m \in Nat \ P : n <= m
  BY Least
<1>2. n # 0 /\ n - 1 \in Nat /\ n = (n - 1) + 1
  BY <1>1
<1>3. n - 1 \in P
  BY <1>1, <1>2
<1> QED BY <1>2, <1>3

\* f is what step makes of x, over and over.
Iterates(f, S, x, step) == /\ f \in [Nat -> S] /\ f[0] = x
                           /\ \A j \in Nat : f[j + 1] = step[<<j, f[j]>>]

\* The first n + 1 members of such an f.
Partial(S, x, step, n) == {g \in [0..n -> S] : /\ g[0] = x
                                               /\ \A j \in 0..n : j # n => g[j + 1] = step[<<j, g[j]>>]}

LEMMA PartialExists ==
  ASSUME NEW S, NEW x \in S, NEW step \in [Nat \X S -> S]
  PROVE  \A n \in Nat : Partial(S, x, step, n) # {}
<1> DEFINE P == {n \in Nat : Partial(S, x, step, n) # {}}
<1>1. 0 \in P
  <2> DEFINE g == [j \in 0..0 |-> x]
  <2>1. g \in Partial(S, x, step, 0)
    BY DEF Partial
  <2> QED BY <2>1
<1>2. ASSUME NEW n \in Nat, n \in P PROVE n + 1 \in P
  <2>1. PICK g : g \in Partial(S, x, step, n)
    BY <1>2
  <2>2. g \in [0..n -> S] /\ g[0] = x /\ \A j \in 0..n : j # n => g[j + 1] = step[<<j, g[j]>>]
    BY <2>1 DEF Partial
  <2> DEFINE e == step[<<n, g[n]>>]
             f == [j \in 0..n+1 |-> IF j = n + 1 THEN e ELSE g[j]]
  <2>3. g[n] \in S /\ e \in S
    <3>1. g[n] \in S
      BY <2>2
    <3> QED BY <3>1
  <2> HIDE DEF e
  <2>4. f \in [0..n+1 -> S] /\ f[0] = x
    BY <2>2, <2>3
  <2>5. ASSUME NEW j \in 0..n+1, j # n + 1 PROVE f[j + 1] = step[<<j, f[j]>>]
    <3>1. f[j] = g[j] /\ j \in 0..n
      BY <2>5
    <3>2. CASE j = n
      <4>1. f[j + 1] = e
        BY <3>2
      <4>2. e = step[<<j, f[j]>>]
        BY <3>1, <3>2 DEF e
      <4> HIDE DEF f
      <4> QED BY <4>1, <4>2
    <3>3. CASE j # n
      <4>1. f[j + 1] = g[j + 1]
        BY <2>5, <3>3
      <4> QED BY <2>2, <3>1, <3>3, <4>1
    <3> QED BY <3>2, <3>3
  <2> HIDE DEF f
  <2>6. f \in Partial(S, x, step, n + 1)
    BY <2>4, <2>5 DEF Partial
  <2> QED BY <2>6
<1> HIDE DEF P
<1>3. Nat \subseteq P
  BY <1>1, <1>2, AllNumbers
<1> QED BY <1>3 DEF P

LEMMA PartialUnique ==
  ASSUME NEW S, NEW x, NEW step, NEW n \in Nat, NEW m \in Nat,
         NEW f \in Partial(S, x, step, n), NEW g \in Partial(S, x, step, m)
  PROVE  \A j \in Nat : j <= n /\ j <= m => f[j] = g[j]
<1> DEFINE P == {j \in Nat : j <= n /\ j <= m => f[j] = g[j]}
<1>1. /\ f[0] = x /\ \A j \in 0..n : j # n => f[j + 1] = step[<<j, f[j]>>]
      /\ g[0] = x /\ \A j \in 0..m : j # m => g[j + 1] = step[<<j, g[j]>>]
  BY DEF Partial
<1>2. 0 \in P
  BY <1>1
<1>3. ASSUME NEW j \in Nat, j \in P PROVE j + 1 \in P
  <2> SUFFICES ASSUME j + 1 <= n, j + 1 <= m PROVE f[j + 1] = g[j + 1]
    OBVIOUS
  <2>1. j \in 0..n /\ j # n /\ j \in 0..m /\ j # m /\ f[j] = g[j]
    BY <1>3
  <2> QED BY <1>1, <2>1
<1> HIDE DEF P
<1>4. Nat \subseteq P
  BY <1>2, <1>3, AllNumbers
<1> QED BY <1>4 DEF P

LEMMA Iteration ==
  ASSUME NEW S, NEW x \in S, NEW step \in [Nat \X S -> S]
  PROVE  \E f : Iterates(f, S, x, step)
<1> DEFINE G(n) == CHOOSE g : g \in Partial(S, x, step, n)
           f == [n \in Nat |-> G(n)[n]]
<1>1. \A n \in Nat : G(n) \in Partial(S, x, step, n)
  BY PartialExists
<1> HIDE DEF G
<1>2. ASSUME NEW n \in Nat PROVE f[n] \in S /\ G(n)[n] = f[n]
  <2>1. G(n) \in [0..n -> S]
    BY <1>1 DEF Partial
  <2> QED BY <2>1
<1>3. f[0] = x
  <2>1. G(0)[0] = x
    BY <1>1 DEF Partial
  <2> QED BY <2>1
<1>4. ASSUME NEW n \in Nat PROVE f[n + 1] = step[<<n, f[n]>>]
  <2>1. n + 1 \in Nat /\ n <= n + 1 /\ n <= n
    OBVIOUS
  <2>2. \A j \in 0..n+1 : j # n + 1 => G(n + 1)[j + 1] = step[<<j, G(n + 1)[j]>>]
    BY <1>1, <2>1 DEF Partial
  <2>3. G(n + 1)[n + 1] = step[<<n, G(n + 1)[n]>>]
    BY <2>2
  <2>4. G(n + 1)[n] = G(n)[n]
    BY <1>1, <2>1, PartialUnique
  <2> QED BY <2>1, <2>3, <2>4
<1>5. f \in [Nat -> S]
  BY <1>2
<1> QED BY <1>3, <1>4, <1>5 DEF Iterates

------------------------------------------------------------------------------
(* An array of strings as a buffer: what serialization.c writes and reads.   *)

CString == Seq(1..255)
Bytes == 0..255

\* Four bytes hold an int.
LEMMA IntWritten ==
  ASSUME NEW n \in Nat
  PROVE  htonl(n) \in Seq(Bytes) /\ Len(htonl(n)) = IntSize
<1> DEFINE q == n \div 256  r == q \div 256  t == r \div 256
<1>1. q \in Nat /\ n % 256 \in 0..255
  BY SMT
<1> HIDE DEF q
<1>2. r \in Nat /\ q % 256 \in 0..255
  BY SMT, <1>1
<1> HIDE DEF r
<1>3. t \in Nat /\ r % 256 \in 0..255
  BY SMT, <1>2
<1> HIDE DEF t
<1>4. t % 256 \in 0..255
  BY SMT, <1>3
<1>5. htonl(n) = <<t % 256, r % 256, q % 256, n % 256>>
  BY DEF htonl, t, r, q
<1> QED BY <1>1, <1>2, <1>3, <1>4, <1>5 DEF Bytes, IntSize

\* The int that was written is read.
LEMMA IntRead ==
  ASSUME NEW n \in Nat, n <= INT_MAX
  PROVE  ntohl(htonl(n)) = n
<1> DEFINE q == n \div 256  r == q \div 256  t == r \div 256
<1>1. n \in Nat /\ n < 2147483648
  BY SMT DEF INT_MAX
<1>2. /\ q \in Nat /\ n % 256 \in 0..255 /\ n = 256 * q + (n % 256) /\ q < 8388608
  BY SMT, <1>1
<1> HIDE DEF q
<1>3. /\ r \in Nat /\ q % 256 \in 0..255 /\ q = 256 * r + (q % 256) /\ r < 32768
  BY SMT, <1>2
<1> HIDE DEF r
<1>4. /\ t \in Nat /\ r % 256 \in 0..255 /\ r = 256 * t + (r % 256) /\ t < 128
  BY SMT, <1>3
<1> HIDE DEF t
<1>5. t % 256 = t /\ t % 256 \in 0..255
  BY <1>4
<1>6. htonl(n) = <<t % 256, r % 256, q % 256, n % 256>>
  BY DEF htonl, t, r, q
<1>7. ntohl(htonl(n)) = 256 * (256 * (256 * (t % 256) + (r % 256)) + (q % 256)) + (n % 256)
  BY <1>6 DEF ntohl
<1> QED BY SMT, <1>2, <1>3, <1>4, <1>5, <1>7

LEMMA TerminatedType ==
  ASSUME NEW k \in CString
  PROVE  /\ Terminated(k) \in Seq(Bytes) /\ Len(Terminated(k)) = Len(k) + 1 /\ Len(k) \in Nat
         /\ Terminated(k)[Len(k) + 1] = 0
         /\ \A x \in 1..Len(k) : Terminated(k)[x] = k[x] /\ k[x] \in 1..255
<1>1. k \in Seq(Bytes) /\ 0 \in Bytes
  <2>1. 1..255 \subseteq Bytes
    BY DEF Bytes
  <2> QED BY <2>1, SeqMonotonic DEF CString, Bytes
<1>2. Len(k) \in Nat /\ \A x \in 1..Len(k) : k[x] \in 1..255
  BY ElementOfSeq, LenProperties DEF CString
<1>3. Terminated(k) \in Seq(Bytes) /\ Len(Terminated(k)) = Len(k) + 1
      /\ \A x \in 1..Len(k) + 1 : Terminated(k)[x] = IF x <= Len(k) THEN k[x] ELSE 0
  BY <1>1, <1>2, AppendProperties DEF Terminated
<1> QED BY <1>2, <1>3

Prefix(s, t) == Len(s) <= Len(t) /\ \A x \in 1..Len(s) : t[x] = s[x]

LEMMA PrefixTransitive ==
  ASSUME NEW r, NEW s, NEW t, Len(r) \in Nat, Len(s) \in Nat, Len(t) \in Nat,
         Prefix(r, s), Prefix(s, t)
  PROVE  Prefix(r, t)
BY DEF Prefix

LEMMA PrefixConcat ==
  ASSUME NEW S, NEW s \in Seq(S), NEW t \in Seq(S)
  PROVE  Prefix(s, s \o t)
<1>1. Len(s) \in Nat /\ Len(t) \in Nat
  BY LenProperties
<1>2. Len(s \o t) = Len(s) + Len(t)
      /\ \A x \in 1..(Len(s) + Len(t)) : (s \o t)[x] = IF x <= Len(s) THEN s[x] ELSE t[x - Len(s)]
  BY ConcatProperties
<1> QED BY <1>1, <1>2 DEF Prefix

\* Where k was written behind s, k is read.
LEMMA StringRead ==
  ASSUME NEW buf \in Seq(Bytes), NEW s \in Seq(Bytes), NEW k \in CString,
         Prefix(s \o Terminated(k), buf)
  PROVE  StringAt(buf, Len(s)) = k
<1> DEFINE o == Len(s)  l == Len(k)  t == s \o Terminated(k)
           IsEnd(e) == buf[e] = 0 /\ \A b \in o + 1..e - 1 : buf[b] # 0
           end == CHOOSE e \in o + 1..Len(buf) : IsEnd(e)
<1>1. /\ Terminated(k) \in Seq(Bytes) /\ Len(Terminated(k)) = l + 1 /\ l \in Nat
      /\ Terminated(k)[l + 1] = 0
      /\ \A x \in 1..l : Terminated(k)[x] = k[x] /\ k[x] \in 1..255
  BY TerminatedType
<1>2. o \in Nat /\ Len(buf) \in Nat
  BY LenProperties
<1>3. Len(t) = o + l + 1 /\ \A x \in 1..(o + l + 1) : t[x] = IF x <= o THEN s[x] ELSE Terminated(k)[x - o]
  BY <1>1, <1>2, ConcatProperties
<1>4. o + l + 1 <= Len(buf) /\ \A x \in 1..(o + l + 1) : buf[x] = t[x]
  BY <1>3 DEF Prefix
<1> HIDE DEF o, l, t
<1>5. buf[o + l + 1] = 0
  BY <1>1, <1>2, <1>3, <1>4
<1>6. \A x \in 1..l : buf[o + x] = k[x] /\ buf[o + x] # 0
  <2> SUFFICES ASSUME NEW x \in 1..l PROVE buf[o + x] = k[x] /\ k[x] # 0
    BY DEF CString
  <2>1. o + x \in 1..(o + l + 1) /\ ~ (o + x <= o) /\ (o + x) - o = x
    BY <1>1, <1>2
  <2>2. t[o + x] = Terminated(k)[x]
    BY <1>3, <2>1
  <2>3. buf[o + x] = t[o + x]
    BY <1>4, <2>1
  <2>4. Terminated(k)[x] = k[x] /\ k[x] \in 1..255
    BY <1>1
  <2>5. k[x] # 0
    <3> DEFINE v == k[x]
    <3>1. v \in 1..255
      BY <2>4
    <3> HIDE DEF v
    <3>2. v # 0
      BY <3>1
    <3> QED BY <3>2 DEF v
  <2> QED BY <2>2, <2>3, <2>4, <2>5
<1>7. IsEnd(o + l + 1) /\ o + l + 1 \in o + 1..Len(buf)
  <2>1. ASSUME NEW b \in o + 1..(o + l + 1) - 1 PROVE buf[b] # 0
    <3>1. b - o \in 1..l /\ o + (b - o) = b
      BY <1>1, <1>2
    <3> QED BY <1>6, <3>1
  <2> QED BY <1>1, <1>2, <1>4, <1>5, <2>1
<1>8. \A e \in o + 1..Len(buf) : IsEnd(e) => e = o + l + 1
  <2> SUFFICES ASSUME NEW e \in o + 1..Len(buf), buf[e] = 0, \A b \in o + 1..e - 1 : buf[b] # 0
               PROVE  e = o + l + 1
    OBVIOUS
  <2>1. CASE e < o + l + 1
    <3>1. e - o \in 1..l /\ o + (e - o) = e
      BY <1>1, <1>2, <2>1
    <3> QED BY <1>6, <3>1
  <2>2. CASE o + l + 1 < e
    <3>1. o + l + 1 \in o + 1..e - 1
      BY <1>1, <1>2, <2>2
    <3> QED BY <1>5, <3>1
  <2> QED BY <1>1, <1>2, <2>1, <2>2
<1> HIDE DEF IsEnd
<1>9. end = o + l + 1
  BY <1>7, <1>8
<1>10. StringAt(buf, o) = SubSeq(buf, o + 1, end - 1)
  BY DEF StringAt, IsEnd
<1> HIDE DEF end
<1>11. StringAt(buf, o) = SubSeq(buf, o + 1, o + l)
  <2>1. (o + l + 1) - 1 = o + l
    BY <1>1, <1>2
  <2> QED BY <1>9, <1>10, <2>1
<1> DEFINE w == SubSeq(buf, o + 1, o + l)
<1>12. w \in Seq(Bytes) /\ Len(w) = l /\ \A x \in 1..l : w[x] = buf[o + x]
  <2>1. o + 1 \in Int /\ o + l \in Int
    BY <1>1, <1>2
  <2>2. \A x \in (o + 1)..(o + l) : buf[x] \in Bytes
    BY <1>1, <1>2, <1>4, ElementOfSeq
  <2>3. /\ w \in Seq(Bytes) /\ Len(w) = IF o + 1 <= o + l THEN (o + l) - (o + 1) + 1 ELSE 0
        /\ \A x \in 1..((o + l) - (o + 1) + 1) : w[x] = buf[(o + 1) + x - 1]
    BY <2>1, <2>2, SubSeqProperties
  <2> HIDE DEF w
  <2>4. (o + l) - (o + 1) + 1 = l /\ (o + 1 <= o + l <=> 1 <= l) /\ \A x \in 1..l : (o + 1) + x - 1 = o + x
    BY <1>1, <1>2
  <2>5. Len(w) = l
    BY <1>1, <2>3, <2>4
  <2> QED BY <2>3, <2>4, <2>5
<1> HIDE DEF w
<1>13. w = k
  <2>1. k \in [1..l -> 1..255] /\ w \in [1..l -> Bytes]
    BY <1>12, LenProperties DEF CString, l
  <2> QED BY <1>6, <1>12, <2>1
<1> QED BY <1>11, <1>13 DEF w, o

\* buf[j] is the number of keys and the first j of them, as they are written.
WrittenBy(buf, keys) == /\ buf[0] = htonl(Len(keys))
                        /\ \A j \in 0..Len(keys) : buf[j] \in Seq(Bytes)
                        /\ \A j \in 1..Len(keys) : buf[j] = buf[j - 1] \o Terminated(keys[j])

LEMMA Writing ==
  ASSUME NEW keys \in Seq(CString)
  PROVE  \E buf : WrittenBy(buf, keys) /\ Written(keys) = buf[Len(keys)]
<1> DEFINE n == Len(keys)
           B == Seq(Bytes)
           first == htonl(n)
           step == [p \in Nat \X B |-> IF p[1] + 1 \in 1..n THEN p[2] \o Terminated(keys[p[1] + 1])
                                                            ELSE p[2]]
           IsBuf(f) == f = [j \in 0..n |-> IF j = 0 THEN htonl(n) ELSE f[j - 1] \o Terminated(keys[j])]
<1>1. n \in Nat /\ \A j \in 1..n : keys[j] \in CString
  BY LenProperties, ElementOfSeq
<1>2. first \in B
  BY <1>1, IntWritten
<1>3. \A j \in 1..n : Terminated(keys[j]) \in B
  BY <1>1, TerminatedType
<1>4. Written(keys) = (CHOOSE f : IsBuf(f))[n]
  BY DEF Written
<1> HIDE DEF first
<1>5. PICK g : IsBuf(g) /\ g \in [0..n -> B]
  <2>1. step \in [Nat \X B -> B]
    <3>1. ASSUME NEW p \in Nat \X B, p[1] + 1 \in 1..n
          PROVE  p[2] \o Terminated(keys[p[1] + 1]) \in B
      <4>1. p[2] \in Seq(Bytes) /\ Terminated(keys[p[1] + 1]) \in Seq(Bytes)
        BY <1>3, <3>1
      <4> QED BY <4>1, ConcatProperties
    <3>2. \A p \in Nat \X B : p[2] \in B
      OBVIOUS
    <3> HIDE DEF B, n
    <3> QED BY <3>1, <3>2
  <2>2. \A j \in 1..n, s \in B : step[<<j - 1, s>>] = s \o Terminated(keys[j])
    <3> SUFFICES ASSUME NEW j \in 1..n, NEW s \in B PROVE step[<<j - 1, s>>] = s \o Terminated(keys[j])
      OBVIOUS
    <3> HIDE DEF B, n
    <3>1. <<j - 1, s>> \in Nat \X B /\ (j - 1) + 1 = j
      BY <1>1
    <3> QED BY <3>1
  <2> HIDE DEF step, B, n
  <2>3. PICK g : g \in Partial(B, first, step, n)
    <3>1. \A m \in Nat : Partial(B, first, step, m) # {}
      BY <1>2, <2>1, PartialExists
    <3>2. Partial(B, first, step, n) # {}
      BY <1>1, <3>1
    <3> QED BY <3>2
  <2>4. g \in [0..n -> B] /\ g[0] = first /\ \A j \in 0..n : j # n => g[j + 1] = step[<<j, g[j]>>]
    BY <2>3 DEF Partial
  <2>5. ASSUME NEW j \in 0..n, j # 0 PROVE g[j] = g[j - 1] \o Terminated(keys[j])
    <3>1. j \in 1..n /\ j - 1 \in 0..n /\ j - 1 # n /\ (j - 1) + 1 = j
      BY <1>1, <2>5
    <3>2. g[j] = step[<<j - 1, g[j - 1]>>] /\ g[j - 1] \in B
      BY <2>4, <3>1
    <3> QED BY <2>2, <3>1, <3>2
  <2>6. IsBuf(g)
    BY <2>4, <2>5 DEF first
  <2> QED BY <2>4, <2>6
<1>6. \A f : IsBuf(f) => /\ f[0] = first
                         /\ \A j \in 1..n : f[j] = f[j - 1] \o Terminated(keys[j])
  <2> SUFFICES ASSUME NEW f, IsBuf(f)
               PROVE  f[0] = first /\ \A j \in 1..n : f[j] = f[j - 1] \o Terminated(keys[j])
    OBVIOUS
  <2> HIDE DEF n
  <2>1. 0 \in 0..n /\ \A j \in 1..n : j \in 0..n /\ j # 0
    BY <1>1
  <2> QED BY <2>1 DEF first
<1> HIDE DEF IsBuf
<1> DEFINE f == CHOOSE f : IsBuf(f)
<1>7. f[0] = first /\ \A j \in 1..n : f[j] = f[j - 1] \o Terminated(keys[j])
  BY <1>5, <1>6
<1>8. Written(keys) = f[n]
  BY <1>4
<1> HIDE DEF f
<1> DEFINE P == {j \in Nat : j <= n => f[j] \in B}
<1>9. 0 \in P
  BY <1>2, <1>7
<1>10. ASSUME NEW j \in Nat, j \in P PROVE j + 1 \in P
  <2> SUFFICES ASSUME j + 1 <= n PROVE f[j + 1] \in Seq(Bytes)
    OBVIOUS
  <2> HIDE DEF n
  <2>1. j + 1 \in 1..n /\ (j + 1) - 1 = j /\ f[j] \in Seq(Bytes)
    BY <1>1, <1>10
  <2>2. Terminated(keys[j + 1]) \in Seq(Bytes)
    BY <1>3, <2>1
  <2>3. f[j] \o Terminated(keys[j + 1]) \in Seq(Bytes)
    BY <2>1, <2>2, ConcatProperties
  <2> QED BY <1>7, <2>1, <2>3
<1> HIDE DEF P
<1>11. Nat \subseteq P
  BY <1>9, <1>10, AllNumbers
<1>12. \A j \in 0..n : f[j] \in Seq(Bytes)
  BY <1>11 DEF P
<1>13. WrittenBy(f, keys)
  BY <1>7, <1>12 DEF WrittenBy, first
<1> QED BY <1>8, <1>13

LEMMA PartWritten ==
  ASSUME NEW keys \in Seq(CString), NEW buf, WrittenBy(buf, keys), NEW j \in 1..Len(keys)
  PROVE  /\ buf[j - 1] \in Seq(Bytes) /\ buf[j] \in Seq(Bytes) /\ keys[j] \in CString
         /\ Len(buf[j - 1]) \in Nat /\ Len(keys[j]) \in Nat
         /\ buf[j] = buf[j - 1] \o Terminated(keys[j])
         /\ Len(buf[j]) = Len(buf[j - 1]) + Len(keys[j]) + 1
         /\ Prefix(buf[j - 1], buf[j])
<1>1. Len(keys) \in Nat /\ keys[j] \in CString
  BY LenProperties, ElementOfSeq
<1>2. j - 1 \in 0..Len(keys) /\ j \in 0..Len(keys)
  BY <1>1
<1>3. buf[j - 1] \in Seq(Bytes) /\ buf[j] \in Seq(Bytes) /\ buf[j] = buf[j - 1] \o Terminated(keys[j])
  BY <1>2 DEF WrittenBy
<1>4. /\ Terminated(keys[j]) \in Seq(Bytes) /\ Len(Terminated(keys[j])) = Len(keys[j]) + 1
      /\ Len(keys[j]) \in Nat
  BY <1>1, TerminatedType
<1>5. Len(buf[j - 1]) \in Nat
  BY <1>3, LenProperties
<1>6. Len(buf[j - 1] \o Terminated(keys[j])) = Len(buf[j - 1]) + Len(Terminated(keys[j]))
  BY <1>3, <1>4, ConcatProperties
<1>7. Prefix(buf[j - 1], buf[j - 1] \o Terminated(keys[j]))
  BY <1>3, <1>4, PrefixConcat
<1>8. Len(buf[j]) = Len(buf[j - 1]) + Len(keys[j]) + 1
  <2> DEFINE a == Len(buf[j - 1])  b == Len(keys[j])
  <2>1. Len(buf[j]) = a + (b + 1) /\ a \in Nat /\ b \in Nat
    BY <1>3, <1>4, <1>5, <1>6
  <2> HIDE DEF a, b
  <2>2. a + (b + 1) = a + b + 1
    BY <2>1
  <2> QED BY <2>1, <2>2 DEF a, b
<1>9. Prefix(buf[j - 1], buf[j])
  BY <1>3, <1>7
<1> QED BY <1>1, <1>3, <1>4, <1>5, <1>8, <1>9

\* What is written stays.
LEMMA PartStays ==
  ASSUME NEW keys \in Seq(CString), NEW buf, WrittenBy(buf, keys)
  PROVE  \A j \in 0..Len(keys) : Prefix(buf[j], buf[Len(keys)])
<1> DEFINE n == Len(keys)
           P == {d \in Nat : d <= n => Prefix(buf[n - d], buf[n])}
<1>1. n \in Nat /\ \A j \in 0..n : buf[j] \in Seq(Bytes) /\ Len(buf[j]) \in Nat
  BY LenProperties DEF WrittenBy
<1>2. 0 \in P
  <2> HIDE DEF n
  <2>1. n - 0 = n /\ n \in 0..n
    BY <1>1
  <2>2. Prefix(buf[n], buf[n])
    BY <1>1, <2>1 DEF Prefix
  <2> QED BY <2>1, <2>2
<1>3. ASSUME NEW d \in Nat, d \in P PROVE d + 1 \in P
  <2> SUFFICES ASSUME d + 1 <= n PROVE Prefix(buf[n - (d + 1)], buf[n])
    OBVIOUS
  <2> DEFINE j == n - d
  <2>1. j \in 1..n /\ j \in 0..n /\ j - 1 \in 0..n /\ n \in 0..n /\ n - (d + 1) = j - 1
    BY <1>1
  <2>2. Prefix(buf[j - 1], buf[j])
    BY <2>1, PartWritten
  <2>3. Prefix(buf[j], buf[n])
    BY <1>1, <1>3
  <2> HIDE DEF j, n
  <2>4. Prefix(buf[j - 1], buf[n])
    BY <1>1, <2>1, <2>2, <2>3, PrefixTransitive
  <2> QED BY <2>1, <2>4
<1> HIDE DEF P
<1>4. Nat \subseteq P
  BY <1>2, <1>3, AllNumbers
<1>5. ASSUME NEW j \in 0..n PROVE Prefix(buf[j], buf[n])
  <2> HIDE DEF n
  <2>1. n - j \in Nat /\ n - j <= n /\ n - (n - j) = j
    BY <1>1
  <2>2. n - j \in P
    BY <1>4, <2>1
  <2> QED BY <2>1, <2>2 DEF P
<1> QED BY <1>5

\* The size that keyArray_to_buffer counts is that of what it writes.
LEMMA SizeCounted ==
  ASSUME NEW keys \in Seq(CString), NEW buf, WrittenBy(buf, keys),
         Written(keys) = buf[Len(keys)]
  PROVE  LET sent == keyArray_to_buffer(keys)
         IN  /\ sent.buf = Written(keys) /\ Len(sent.buf) = sent.size
             /\ Len(keys) <= sent.size
<1> DEFINE n == Len(keys)
           IsTotal(f) == f = [j \in 0..n |-> IF j = 0 THEN 0 ELSE f[j - 1] + Len(keys[j]) + 1]
           g == [j \in 0..n |-> Len(buf[j]) - IntSize]
           f == CHOOSE f : IsTotal(f)
<1>1. n \in Nat
  BY LenProperties
<1>2. Len(buf[0]) = IntSize
  BY <1>1, IntWritten DEF WrittenBy
<1>3. \A j \in 1..n : /\ Len(buf[j]) = Len(buf[j - 1]) + Len(keys[j]) + 1
                      /\ Len(buf[j - 1]) \in Nat /\ Len(keys[j]) \in Nat
  BY PartWritten
<1> HIDE DEF n
<1>4. IsTotal(g)
  <2>1. g[0] = 0
    BY <1>1, <1>2 DEF IntSize
  <2>2. ASSUME NEW j \in 0..n, j # 0 PROVE g[j] = g[j - 1] + Len(keys[j]) + 1
    <3>1. j \in 1..n /\ j - 1 \in 0..n
      BY <1>1, <2>2
    <3>2. g[j] = Len(buf[j]) - IntSize /\ g[j - 1] = Len(buf[j - 1]) - IntSize
      BY <3>1
    <3> DEFINE a == Len(buf[j - 1])  b == Len(keys[j])
    <3>3. Len(buf[j]) = a + b + 1 /\ a \in Nat /\ b \in Nat /\ IntSize = 4
      BY <1>3, <3>1 DEF IntSize
    <3>4. g[j] = Len(buf[j]) - IntSize /\ g[j - 1] = a - IntSize
      BY <3>2
    <3> HIDE DEF a, b, g
    <3>5. g[j] = g[j - 1] + b + 1
      BY <3>3, <3>4
    <3> QED BY <3>5 DEF b
  <2>3. g = [j \in 0..n |-> g[j]]
    OBVIOUS
  <2> HIDE DEF g
  <2> QED BY <2>1, <2>2, <2>3
<1>5. \A h : IsTotal(h) => h[0] = 0 /\ \A j \in 1..n : h[j] = h[j - 1] + Len(keys[j]) + 1
  <2> SUFFICES ASSUME NEW h, IsTotal(h)
               PROVE  h[0] = 0 /\ \A j \in 1..n : h[j] = h[j - 1] + Len(keys[j]) + 1
    OBVIOUS
  <2>1. 0 \in 0..n /\ \A j \in 1..n : j \in 0..n /\ j # 0
    BY <1>1
  <2> QED BY <2>1
<1>6. keyArray_to_buffer(keys) = [size |-> IntSize + f[n], buf |-> Written(keys)]
  BY DEF keyArray_to_buffer, n
<1> HIDE DEF IsTotal
<1>7. f[0] = 0 /\ \A j \in 1..n : f[j] = f[j - 1] + Len(keys[j]) + 1
  BY <1>4, <1>5
<1> HIDE DEF f, g
<1> DEFINE P == {j \in Nat : j <= n => /\ Len(buf[j]) = IntSize + f[j] /\ f[j] \in Nat
                                       /\ j <= f[j]}
<1>8. 0 \in P
  <2>1. IntSize + 0 = IntSize
    BY DEF IntSize
  <2> QED BY <1>2, <1>7, <2>1
<1>9. ASSUME NEW j \in Nat, j \in P PROVE j + 1 \in P
  <2> SUFFICES ASSUME j + 1 <= n 
               PROVE  /\ Len(buf[j + 1]) = IntSize + f[j + 1] /\ f[j + 1] \in Nat
                      /\ j + 1 <= f[j + 1]
    OBVIOUS
  <2>1. j + 1 \in 1..n /\ (j + 1) - 1 = j /\ Len(buf[j]) = IntSize + f[j] /\ f[j] \in Nat
        /\ j <= f[j]
    BY <1>1, <1>9
  <2>2. /\ Len(buf[j + 1]) = Len(buf[j]) + Len(keys[j + 1]) + 1 /\ Len(keys[j + 1]) \in Nat
        /\ f[j + 1] = f[j] + Len(keys[j + 1]) + 1
    BY <1>3, <1>7, <2>1
  <2> DEFINE a == f[j]  b == Len(keys[j + 1])
  <2>3. /\ a \in Nat /\ j <= a /\ b \in Nat /\ IntSize \in Nat
        /\ Len(buf[j + 1]) = (IntSize + a) + b + 1 /\ f[j + 1] = a + b + 1
    BY <2>1, <2>2 DEF IntSize
  <2> HIDE DEF a, b
  <2> QED BY <2>3
<1> HIDE DEF P
<1>10. n \in P
  BY <1>1, <1>8, <1>9, AllNumbers
<1>11. Len(buf[n]) = IntSize + f[n] /\ n <= IntSize + f[n]
  <2>1. Len(buf[n]) = IntSize + f[n] /\ n <= f[n] /\ f[n] \in Nat
    BY <1>1, <1>10 DEF P
  <2> QED BY <1>1, <2>1 DEF IntSize
<1>12. Written(keys) = buf[n]
  BY DEF n
<1> QED BY <1>6, <1>11, <1>12 DEF n

\* The number that is read at the front is the one that was written there.
LEMMA CountRead ==
  ASSUME NEW keys \in Seq(CString), NEW buf, WrittenBy(buf, keys), Len(keys) <= INT_MAX
  PROVE  ntohl(SubSeq(buf[Len(keys)], 1, IntSize)) = Len(keys)
<1> DEFINE n == Len(keys)
           w == buf[n]
           front == SubSeq(w, 1, IntSize)
<1>1. n \in Nat
  BY LenProperties
<1>2. /\ htonl(n) \in Seq(Bytes) /\ Len(htonl(n)) = IntSize /\ ntohl(htonl(n)) = n
  BY <1>1, IntWritten, IntRead
<1>3. buf[0] = htonl(n) /\ 0 \in 0..n /\ n \in 0..n
  BY <1>1 DEF WrittenBy
<1>4. w \in Seq(Bytes) /\ Len(w) \in Nat
  <2>1. w \in Seq(Bytes)
    BY <1>3 DEF WrittenBy
  <2> QED BY <2>1, LenProperties
<1>5. Prefix(htonl(n), w)
  BY <1>3, PartStays
<1> HIDE DEF w, n
<1>6. 4 <= Len(w) /\ \A x \in 1..4 : w[x] = htonl(n)[x] /\ w[x] \in Bytes
  <2>1. Len(htonl(n)) = 4
    BY <1>2 DEF IntSize
  <2>2. 4 <= Len(w) /\ \A x \in 1..4 : w[x] = htonl(n)[x]
    BY <1>5, <2>1 DEF Prefix
  <2>3. \A x \in 1..4 : w[x] \in Bytes
    BY <1>4, <2>2, ElementOfSeq
  <2> QED BY <2>2, <2>3
<1>7. \A x \in 1..4 : front[x] = htonl(n)[x]
  <2>1. IntSize = 4
    BY DEF IntSize
  <2>2. \A x \in 1..4 : front[x] = w[x]
    <3>1. \A x \in 1..(4 - 1 + 1) : SubSeq(w, 1, 4)[x] = w[1 + x - 1]
      BY <1>6, SubSeqProperties
    <3> QED BY <2>1, <3>1
  <2> QED BY <1>6, <2>2
<1> HIDE DEF front
<1>8. ntohl(front) = ntohl(htonl(n))
  <2>1. /\ front[1] = htonl(n)[1] /\ front[2] = htonl(n)[2]
        /\ front[3] = htonl(n)[3] /\ front[4] = htonl(n)[4]
    BY <1>7
  <2> QED BY <2>1 DEF ntohl
<1> QED BY <1>2, <1>8 DEF front, w, n

\* Each key is read where it was written.
LEMMA KeysRead ==
  ASSUME NEW keys \in Seq(CString), NEW buf, WrittenBy(buf, keys), Len(keys) <= INT_MAX
  PROVE  buffer_to_keyArray(buf[Len(keys)]) = keys
<1> DEFINE n == Len(keys)
           w == buf[n]
           IsOffset(f) == f = [j \in 1..n |-> IF j = 1 THEN IntSize
                                              ELSE f[j - 1] + strlen(w, f[j - 1]) + 1]
           g == [j \in 1..n |-> Len(buf[j - 1])]
           f == CHOOSE f : IsOffset(f)
<1>1. n \in Nat
  BY LenProperties
<1>2. Len(buf[0]) = IntSize
  BY <1>1, IntWritten DEF WrittenBy
<1>3. \A j \in 1..n : /\ Len(buf[j]) = Len(buf[j - 1]) + Len(keys[j]) + 1
                      /\ StringAt(w, Len(buf[j - 1])) = keys[j]
  <2> SUFFICES ASSUME NEW j \in 1..n
               PROVE  /\ Len(buf[j]) = Len(buf[j - 1]) + Len(keys[j]) + 1
                      /\ StringAt(w, Len(buf[j - 1])) = keys[j]
    OBVIOUS
  <2>1. /\ buf[j - 1] \in Seq(Bytes) /\ keys[j] \in CString
        /\ buf[j] = buf[j - 1] \o Terminated(keys[j])
        /\ Len(buf[j]) = Len(buf[j - 1]) + Len(keys[j]) + 1
    BY PartWritten
  <2>2. w \in Seq(Bytes) /\ Prefix(buf[j], w)
    <3>1. j \in 0..n /\ n \in 0..n
      BY <1>1
    <3> QED BY <3>1, PartStays DEF WrittenBy
  <2> HIDE DEF w
  <2>3. StringAt(w, Len(buf[j - 1])) = keys[j]
    BY <2>1, <2>2, StringRead
  <2> QED BY <2>1, <2>3
<1>4. ntohl(SubSeq(w, 1, IntSize)) = n
  BY CountRead
<1>5. buffer_to_keyArray(w) = [j \in 1..n |-> StringAt(w, f[j])]
  <2> DEFINE m == ntohl(SubSeq(w, 1, IntSize))
             h == CHOOSE h : h = [j \in 1..m |-> IF j = 1 THEN IntSize
                                                  ELSE h[j - 1] + strlen(w, h[j - 1]) + 1]
  <2>1. buffer_to_keyArray(w) = [j \in 1..m |-> StringAt(w, h[j])]
    BY DEF buffer_to_keyArray
  <2> HIDE DEF w, n
  <2>2. m = n
    BY <1>4
  <2> HIDE DEF m
  <2>3. h = f
    BY <2>2
  <2> HIDE DEF h, f
  <2> QED BY <2>1, <2>2, <2>3
<1>6. keys = [j \in 1..n |-> keys[j]]
  BY LenProperties
<1> HIDE DEF w, n
<1>7. IsOffset(g)
  <2>1. ASSUME NEW j \in 1..n, j = 1 PROVE g[j] = IntSize
    BY <1>2, <2>1
  <2>2. ASSUME NEW j \in 1..n, j # 1 PROVE g[j] = g[j - 1] + strlen(w, g[j - 1]) + 1
    <3>1. j - 1 \in 1..n
      BY <1>1, <2>2
    <3>2. g[j] = Len(buf[j - 1]) /\ g[j - 1] = Len(buf[(j - 1) - 1])
      BY <3>1
    <3>3. strlen(w, g[j - 1]) = Len(keys[j - 1])
      BY <1>3, <3>1, <3>2 DEF strlen
    <3> QED BY <1>3, <3>1, <3>2, <3>3
  <2>3. g = [j \in 1..n |-> g[j]]
    OBVIOUS
  <2> HIDE DEF g
  <2> QED BY <2>1, <2>2, <2>3
<1>8. \A h : IsOffset(h) => /\ 1 \in 1..n => h[1] = IntSize
                            /\ \A j \in 1..n : j # 1 => h[j] = h[j - 1] + strlen(w, h[j - 1]) + 1
  OBVIOUS
<1> HIDE DEF IsOffset
<1>9. /\ 1 \in 1..n => f[1] = IntSize
      /\ \A j \in 1..n : j # 1 => f[j] = f[j - 1] + strlen(w, f[j - 1]) + 1
  BY <1>7, <1>8
<1> HIDE DEF f, g
<1> DEFINE P == {j \in Nat : j + 1 <= n => f[j + 1] = Len(buf[j])}
<1>10. 0 \in P
  <2>1. 0 + 1 <= n => 1 \in 1..n
    BY <1>1
  <2> QED BY <1>2, <1>9, <2>1
<1>11. ASSUME NEW j \in Nat, j \in P PROVE j + 1 \in P
  <2> SUFFICES ASSUME (j + 1) + 1 <= n PROVE f[(j + 1) + 1] = Len(buf[j + 1])
    OBVIOUS
  <2> DEFINE m == j + 1
  <2>1. m \in 1..n /\ m + 1 \in 1..n /\ m + 1 # 1 /\ (m + 1) - 1 = m /\ m - 1 = j /\ f[m] = Len(buf[m - 1])
    BY <1>1, <1>11
  <2> HIDE DEF m
  <2>2. f[m + 1] = f[m] + strlen(w, f[m]) + 1
    BY <1>9, <2>1
  <2>3. strlen(w, f[m]) = Len(keys[m]) /\ Len(buf[m]) = Len(buf[m - 1]) + Len(keys[m]) + 1
    BY <1>3, <2>1 DEF strlen
  <2> QED BY <2>1, <2>2, <2>3 DEF m
<1> HIDE DEF P
<1>12. Nat \subseteq P
  BY <1>10, <1>11, AllNumbers
<1>13. \A j \in 1..n : f[j] = Len(buf[j - 1])
  <2> SUFFICES ASSUME NEW j \in 1..n PROVE f[j] = Len(buf[j - 1])
    OBVIOUS
  <2>1. j - 1 \in Nat /\ (j - 1) + 1 = j /\ j <= n
    BY <1>1
  <2>2. j - 1 \in P
    BY <1>12, <2>1
  <2> QED BY <2>1, <2>2 DEF P
<1>14. \A j \in 1..n : StringAt(w, f[j]) = keys[j]
  BY <1>3, <1>13
<1>15. buffer_to_keyArray(w) = [j \in 1..n |-> keys[j]]
  BY <1>5, <1>14
<1> QED BY <1>6, <1>15 DEF w, n

\* Any array of strings whose size an int holds is written and read back.
LEMMA WrittenAndRead ==
  ASSUME NEW keys \in Seq(CString), keyArray_to_buffer(keys).size <= INT_MAX
  PROVE  LET sent == keyArray_to_buffer(keys)
         IN  Len(sent.buf) = sent.size /\ buffer_to_keyArray(sent.buf) = keys
<1>1. PICK buf : WrittenBy(buf, keys) /\ Written(keys) = buf[Len(keys)]
  BY Writing
<1> DEFINE sent == keyArray_to_buffer(keys)
<1>2. /\ sent.buf = Written(keys) /\ Len(sent.buf) = sent.size
      /\ Len(keys) <= sent.size
  BY <1>1, SizeCounted
<1>3. Len(keys) <= INT_MAX
  <2> DEFINE size == sent.size
  <2>1. Len(keys) \in Nat /\ Len(sent.buf) \in Nat /\ INT_MAX \in Int
    <3>1. sent.buf \in Seq(Bytes)
      <4>1. Len(keys) \in 0..Len(keys)
        BY LenProperties
      <4> QED BY <1>1, <1>2, <4>1 DEF WrittenBy
    <3>2. INT_MAX \in Int
      BY SMT DEF INT_MAX
    <3> QED BY <3>1, <3>2, LenProperties
  <2>2. size \in Nat /\ Len(keys) <= size /\ size <= INT_MAX
    BY <1>2, <2>1
  <2> HIDE DEF size, sent
  <2> QED BY <2>1, <2>2
<1>4. buffer_to_keyArray(Written(keys)) = keys
  BY <1>1, <1>3, KeysRead
<1> QED BY <1>2, <1>4

------------------------------------------------------------------------------
(* Lists: a set M of nodes on a heap h.                                     *)

USE HashTableAssumption

Allocated(h, M) == M \subseteq Nodes /\ \A n \in M : h[n] \in node_t

Distinct(h, M) == \A m, n \in M : h[m].key = h[n].key => m = n

Adjacent(h, M, p, q) == /\ h[p].key < h[q].key
                        /\ \A m \in M : h[m].key <= h[p].key \/ h[q].key <= h[m].key

Smallest(h, M, n) == \A m \in M : h[n].key <= h[m].key
Largest(h, M, n)  == \A m \in M : h[m].key <= h[n].key

NextRight(h, M, n) == IF h[n].next = Null THEN Largest(h, M, n)
                      ELSE h[n].next \in M /\ Adjacent(h, M, n, h[n].next)

PreviousRight(h, M, n) == IF h[n].previous = Null THEN Smallest(h, M, n)
                          ELSE h[n].previous \in M /\ Adjacent(h, M, h[n].previous, n)

Forward(h, M) == Allocated(h, M) /\ Distinct(h, M) /\ \A n \in M : NextRight(h, M, n)

Ordered(h, M) == Forward(h, M) /\ \A n \in M : PreviousRight(h, M, n)

\* The nodes of M keep their keys.
SameKeys(h, g, M) == \A m \in M : g[m].key = h[m].key

\* From node first on there are all nodes of M.
Starts(h, M, first) == IF M = {} THEN first = Null
                       ELSE first \in M /\ Smallest(h, M, first)

LEMMA NodeType ==
  ASSUME NEW h, NEW M, Allocated(h, M), NEW n \in M
  PROVE  /\ n \in Nodes /\ n # Null /\ h[n] \in node_t /\ h[n] # Free
         /\ h[n].key \in Int /\ h[n].key \in Keys /\ h[n].value \in Values
         /\ h[n].next \in Pointers /\ h[n].previous \in Pointers
BY DEF Allocated, node_t

\* Only the nodes of M matter.
LEMMA OrderedFrame ==
  ASSUME NEW h, NEW g, NEW M, \A m \in M : g[m] = h[m]
  PROVE  /\ Ordered(h, M) => Ordered(g, M)
         /\ \A first : Starts(h, M, first) => Starts(g, M, first)
BY DEF Ordered, Forward, Allocated, Distinct, NextRight, PreviousRight, Adjacent, Smallest,
       Largest, Starts

\* The other nodes keep their keys.
LEMMA PlaceKeys ==
  ASSUME NEW h, NEW M, Allocated(h, M), NEW new \in Nodes \ M, NEW k, NEW v,
         NEW p \in M \cup {Null}, NEW n \in M \cup {Null}, p # Null => p # n
  PROVE  /\ Place(h, new, k, v, p, n)[new].key = k
         /\ \A m \in M : Place(h, new, k, v, p, n)[m].key = h[m].key
<1> SUFFICES ASSUME NEW m \in Nodes, m \in M \/ m = new
             PROVE Place(h, new, k, v, p, n)[m].key = IF m = new THEN k ELSE h[m].key
  BY DEF Allocated
<1>1. /\ p # new /\ n # new
      /\ m # new => h[m] \in node_t /\ m # Null
  BY NodeType
<1>2. CASE m = new
  BY <1>1, <1>2 DEF Place
<1>3. CASE m # new /\ m = p
  BY <1>1, <1>3 DEF Place, node_t
<1>4. CASE m # new /\ m = n
  BY <1>1, <1>4 DEF Place, node_t
<1>5. CASE m # new /\ m # p /\ m # n
  BY <1>1, <1>5 DEF Place
<1> QED BY <1>2, <1>3, <1>4, <1>5

\* Key k belongs between p and n, neighbours or the Null of an end.
Between(h, M, k, p, n) ==
    /\ p \in M \cup {Null} /\ n \in M \cup {Null}
    /\ p # Null => h[p].key < k
    /\ n # Null => k < h[n].key
    /\ \A m \in M : (p # Null /\ h[m].key <= h[p].key) \/ (n # Null /\ h[n].key <= h[m].key)

\* A new node between two neighbours, or at an end.
LEMMA PlaceOrdered ==
  ASSUME NEW h, NEW M, Ordered(h, M), M \subseteq Nodes,
         NEW new \in Nodes \ M, NEW k \in Keys, NEW v \in Values,
         NEW p \in M \cup {Null}, NEW n \in M \cup {Null},
         p # Null => h[p].key < k, n # Null => k < h[n].key,
         \A m \in M : (p # Null /\ h[m].key <= h[p].key) \/ (n # Null /\ h[n].key <= h[m].key)
  PROVE  Ordered(Place(h, new, k, v, p, n), M \cup {new})
<1> DEFINE g == Place(h, new, k, v, p, n)
<1>1. Allocated(h, M) /\ Distinct(h, M)
  BY DEF Ordered, Forward
<1>2. \A m \in M : /\ m \in Nodes /\ m # Null /\ m # new /\ h[m] \in node_t
                   /\ h[m].key \in Int /\ h[m].key \in Keys /\ h[m].value \in Values
                   /\ h[m].next \in Pointers /\ h[m].previous \in Pointers
  BY <1>1, NodeType
<1>3. /\ k \in Int /\ new # Null /\ p # new /\ n # new
      /\ p # Null /\ n # Null => p # n
  BY <1>2
<1>4. g[new] = [key |-> k, value |-> v, next |-> n, previous |-> p]
  BY DEF Place
<1>5. \A m \in M : /\ m = p => g[m] = [h[m] EXCEPT !.next = new]
                   /\ m = n => g[m] = [h[m] EXCEPT !.previous = new]
                   /\ m # p /\ m # n => g[m] = h[m]
  BY <1>2, <1>3 DEF Place
<1>6. \A m \in M : /\ g[m] \in node_t /\ g[m].key = h[m].key
                   /\ g[m].next = IF m = p THEN new ELSE h[m].next
                   /\ g[m].previous = IF m = n THEN new ELSE h[m].previous
  <2> SUFFICES ASSUME NEW m \in M
               PROVE  /\ g[m] \in node_t /\ g[m].key = h[m].key
                      /\ g[m].next = IF m = p THEN new ELSE h[m].next
                      /\ g[m].previous = IF m = n THEN new ELSE h[m].previous
    OBVIOUS
  <2>1. /\ h[m] \in node_t /\ m # Null /\ new \in Pointers
        /\ m = p => m # n
    BY <1>2, <1>3 DEF Pointers
  <2> HIDE DEF g
  <2>2. CASE m = p
    BY <1>5, <2>1, <2>2 DEF node_t
  <2>3. CASE m = n
    BY <1>5, <2>1, <2>3 DEF node_t
  <2>4. CASE m # p /\ m # n
    BY <1>5, <2>1, <2>4
  <2> QED BY <2>2, <2>3, <2>4
<1>7. /\ g[new] \in node_t /\ g[new].key = k /\ g[new].next = n /\ g[new].previous = p
  BY <1>4 DEF node_t, Pointers
<1> HIDE DEF g
<1>8. \A m \in M : h[m].key # k
  BY <1>2, <1>3
<1>9. Allocated(g, M \cup {new})
  BY <1>6, <1>7 DEF Allocated
<1>10. Distinct(g, M \cup {new})
  BY <1>1, <1>6, <1>7, <1>8 DEF Distinct
<1>11. ASSUME NEW x \in M PROVE NextRight(g, M \cup {new}, x)
  <2>1. NextRight(h, M, x)
    BY DEF Ordered, Forward
  <2>2. CASE x = p
    <3>1. \A m \in M : h[m].key <= h[p].key \/ k <= h[m].key
      BY <1>2, <1>3
    <3> QED BY <1>2, <1>3, <1>6, <1>7, <2>2, <3>1 DEF NextRight, Adjacent
  <2>3. CASE x # p /\ h[x].next = Null
    <3>1. Largest(h, M, x)
      BY <2>1, <2>3 DEF NextRight
    <3>2. n # Null /\ h[n].key <= h[x].key
      <4>1. p # Null => h[p].key <= h[x].key /\ h[p].key # h[x].key
        BY <1>1, <1>2, <2>3, <3>1 DEF Largest, Distinct
      <4>2. p # Null => h[p].key < h[x].key
        BY <1>2, <4>1
      <4> QED BY <1>2, <4>2
    <3>3. k <= h[x].key
      BY <1>2, <1>3, <3>2
    <3> QED BY <1>6, <1>7, <2>3, <3>1, <3>3 DEF NextRight, Largest
  <2>4. CASE x # p /\ h[x].next # Null
    <3> DEFINE y == h[x].next
    <3>1. y \in M /\ Adjacent(h, M, x, y)
      BY <2>1, <2>4 DEF NextRight
    <3>2. k <= h[x].key \/ h[y].key <= k
      <4>1. CASE p # Null /\ h[x].key <= h[p].key
        <5>1. h[x].key # h[p].key
          BY <1>1, <2>4, <4>1 DEF Distinct
        <5>2. h[x].key < h[p].key
          BY <1>2, <4>1, <5>1
        <5>3. h[y].key <= h[p].key
          BY <1>2, <3>1, <4>1, <5>2 DEF Adjacent
        <5> QED BY <1>2, <1>3, <3>1, <4>1, <5>3
      <4>2. CASE n # Null /\ h[n].key <= h[x].key
        BY <1>2, <1>3, <4>2
      <4> QED BY <4>1, <4>2
    <3>3. \A m \in M \cup {new} : g[m].key <= g[x].key \/ g[y].key <= g[m].key
      BY <1>6, <1>7, <3>1, <3>2 DEF Adjacent
    <3>4. g[x].next = y /\ g[x].key < g[y].key
      BY <1>6, <2>4, <3>1 DEF Adjacent
    <3> QED BY <2>4, <3>1, <3>3, <3>4 DEF NextRight, Adjacent
  <2> QED BY <2>2, <2>3, <2>4
<1>12. ASSUME NEW x \in M PROVE PreviousRight(g, M \cup {new}, x)
  <2>1. PreviousRight(h, M, x)
    BY DEF Ordered
  <2>2. CASE x = n
    <3>1. \A m \in M : h[m].key <= k \/ h[n].key <= h[m].key
      BY <1>2, <1>3
    <3> QED BY <1>2, <1>3, <1>6, <1>7, <2>2, <3>1 DEF PreviousRight, Adjacent
  <2>3. CASE x # n /\ h[x].previous = Null
    <3>1. Smallest(h, M, x)
      BY <2>1, <2>3 DEF PreviousRight
    <3>2. p # Null /\ h[x].key <= h[p].key
      <4>1. n # Null => h[x].key <= h[n].key /\ h[n].key # h[x].key
        BY <1>1, <1>2, <2>3, <3>1 DEF Smallest, Distinct
      <4>2. n # Null => h[x].key < h[n].key
        BY <1>2, <4>1
      <4> QED BY <1>2, <4>2
    <3>3. h[x].key <= k
      BY <1>2, <1>3, <3>2
    <3> QED BY <1>6, <1>7, <2>3, <3>1, <3>3 DEF PreviousRight, Smallest
  <2>4. CASE x # n /\ h[x].previous # Null
    <3> DEFINE y == h[x].previous
    <3>1. y \in M /\ Adjacent(h, M, y, x)
      BY <2>1, <2>4 DEF PreviousRight
    <3>2. k <= h[y].key \/ h[x].key <= k
      <4>1. CASE n # Null /\ h[n].key <= h[x].key
        <5>1. h[x].key # h[n].key
          BY <1>1, <2>4, <4>1 DEF Distinct
        <5>2. h[n].key < h[x].key
          BY <1>2, <4>1, <5>1
        <5>3. h[n].key <= h[y].key
          BY <1>2, <3>1, <4>1, <5>2 DEF Adjacent
        <5> QED BY <1>2, <1>3, <3>1, <4>1, <5>3
      <4>2. CASE p # Null /\ h[x].key <= h[p].key
        BY <1>2, <1>3, <4>2
      <4> QED BY <4>1, <4>2
    <3>3. \A m \in M \cup {new} : g[m].key <= g[y].key \/ g[x].key <= g[m].key
      BY <1>6, <1>7, <3>1, <3>2 DEF Adjacent
    <3>4. g[x].previous = y /\ g[y].key < g[x].key
      BY <1>6, <2>4, <3>1 DEF Adjacent
    <3> QED BY <2>4, <3>1, <3>3, <3>4 DEF PreviousRight, Adjacent
  <2> QED BY <2>2, <2>3, <2>4
<1>13. NextRight(g, M \cup {new}, new) /\ PreviousRight(g, M \cup {new}, new)
  <2>1. n = Null => \A m \in M : g[m].key <= k
    BY <1>2, <1>3, <1>6
  <2>2. n # Null => n \in M /\ k < g[n].key /\ \A m \in M : g[m].key <= k \/ g[n].key <= g[m].key
    BY <1>2, <1>3, <1>6
  <2>3. p = Null => \A m \in M : k <= g[m].key
    BY <1>2, <1>3, <1>6
  <2>4. p # Null => p \in M /\ g[p].key < k /\ \A m \in M : g[m].key <= g[p].key \/ k <= g[m].key
    BY <1>2, <1>3, <1>6
  <2>5. NextRight(g, M \cup {new}, new)
    BY <1>3, <1>7, <2>1, <2>2 DEF NextRight, Largest, Adjacent
  <2>6. PreviousRight(g, M \cup {new}, new)
    BY <1>3, <1>7, <2>3, <2>4 DEF PreviousRight, Smallest, Adjacent
  <2> QED BY <2>5, <2>6
<1>14. Ordered(g, M \cup {new})
  BY <1>9, <1>10, <1>11, <1>12, <1>13 DEF Ordered, Forward
<1> QED BY <1>14 DEF g

\* The links agree in both directions, and no node is its own neighbour.
LEMMA Neighbours ==
  ASSUME NEW h, NEW M, Ordered(h, M), NEW n \in M
  PROVE  /\ h[n].next # Null => /\ h[n].next \in M /\ h[n].next # n
                                /\ h[h[n].next].previous = n
         /\ h[n].previous # Null => /\ h[n].previous \in M /\ h[n].previous # n
                                    /\ h[h[n].previous].next = n
<1>1. Allocated(h, M) /\ Distinct(h, M)
  BY DEF Ordered, Forward
<1>2. \A m \in M : h[m].key \in Int
  BY <1>1, NodeType
<1>3. \A m \in M : NextRight(h, M, m) /\ PreviousRight(h, M, m)
  BY DEF Ordered, Forward
<1>4. ASSUME h[n].next # Null
      PROVE  h[n].next \in M /\ h[n].next # n /\ h[h[n].next].previous = n
  <2> DEFINE q == h[n].next
  <2>1. q \in M /\ h[n].key < h[q].key
        /\ \A m \in M : h[m].key <= h[n].key \/ h[q].key <= h[m].key
    BY <1>3, <1>4 DEF NextRight, Adjacent
  <2> DEFINE r == h[q].previous
  <2>2. r # Null
    BY <1>2, <1>3, <2>1 DEF PreviousRight, Smallest
  <2>3. r \in M /\ h[r].key < h[q].key
        /\ \A m \in M : h[m].key <= h[r].key \/ h[q].key <= h[m].key
    BY <1>3, <2>1, <2>2 DEF PreviousRight, Adjacent
  <2> HIDE DEF r
  <2>4. h[r].key = h[n].key
    BY <1>2, <2>1, <2>3
  <2>5. r = n
    BY <1>1, <2>3, <2>4 DEF Distinct
  <2> QED BY <1>2, <2>1, <2>5 DEF r
<1>5. ASSUME h[n].previous # Null
      PROVE  h[n].previous \in M /\ h[n].previous # n /\ h[h[n].previous].next = n
  <2> DEFINE q == h[n].previous
  <2>1. q \in M /\ h[q].key < h[n].key
        /\ \A m \in M : h[m].key <= h[q].key \/ h[n].key <= h[m].key
    BY <1>3, <1>5 DEF PreviousRight, Adjacent
  <2> DEFINE r == h[q].next
  <2>2. r # Null
    BY <1>2, <1>3, <2>1 DEF NextRight, Largest
  <2>3. r \in M /\ h[q].key < h[r].key
        /\ \A m \in M : h[m].key <= h[q].key \/ h[r].key <= h[m].key
    BY <1>3, <2>1, <2>2 DEF NextRight, Adjacent
  <2> HIDE DEF r
  <2>4. h[r].key = h[n].key
    BY <1>2, <2>1, <2>3
  <2>5. r = n
    BY <1>1, <2>3, <2>4 DEF Distinct
  <2> QED BY <1>2, <2>1, <2>5 DEF r
<1> QED BY <1>4, <1>5

\* A node taken out.
LEMMA UnlinkOrdered ==
  ASSUME NEW h, NEW M, Ordered(h, M), NEW n \in M
  PROVE  Ordered(Unlink(h, n), M \ {n})
<1> DEFINE g == Unlink(h, n)  p == h[n].previous  q == h[n].next
<1>1. Allocated(h, M) /\ Distinct(h, M) /\ \A m \in M : NextRight(h, M, m) /\ PreviousRight(h, M, m)
  BY DEF Ordered, Forward
<1>2. \A m \in M : /\ m \in Nodes /\ m # Null /\ h[m] \in node_t
                   /\ h[m].key \in Int /\ h[m].next \in Pointers /\ h[m].previous \in Pointers
  BY <1>1, NodeType
<1>3. /\ p # Null => p \in M /\ p # n /\ h[p].next = n
      /\ q # Null => q \in M /\ q # n /\ h[q].previous = n
  BY Neighbours
<1>4. \A m \in M \ {n} : /\ h[m].next = n => p = m
                         /\ h[m].previous = n => q = m
  BY <1>2, Neighbours
<1>5. p # Null /\ q # Null => p # q
  <2> SUFFICES ASSUME p # Null, q # Null PROVE h[p].key < h[q].key
    BY <1>2, <1>3
  <2>1. h[p].key < h[n].key /\ h[n].key < h[q].key
    BY <1>1 DEF NextRight, PreviousRight, Adjacent
  <2> QED BY <1>2, <1>3, <2>1
<1>6. \A m \in M \ {n} : /\ m = p => g[m] = [h[m] EXCEPT !.next = q]
                         /\ m = q => g[m] = [h[m] EXCEPT !.previous = p]
                         /\ m # p /\ m # q => g[m] = h[m]
  BY <1>2, <1>5 DEF Unlink
<1>7. p \in Pointers /\ q \in Pointers
  BY <1>2
<1> HIDE DEF g, p, q
<1>8. \A m \in M \ {n} : /\ g[m] \in node_t /\ g[m].key = h[m].key
                         /\ g[m].next = IF m = p THEN q ELSE h[m].next
                         /\ g[m].previous = IF m = q THEN p ELSE h[m].previous
  <2> SUFFICES ASSUME NEW m \in M \ {n}
               PROVE  /\ g[m] \in node_t /\ g[m].key = h[m].key
                      /\ g[m].next = IF m = p THEN q ELSE h[m].next
                      /\ g[m].previous = IF m = q THEN p ELSE h[m].previous
    OBVIOUS
  <2>1. h[m] \in node_t /\ (m = p => m # q)
    BY <1>2, <1>5
  <2>2. CASE m = p
    BY <1>6, <1>7, <2>1, <2>2 DEF node_t
  <2>3. CASE m = q
    BY <1>6, <1>7, <2>1, <2>3 DEF node_t
  <2>4. CASE m # p /\ m # q
    BY <1>6, <2>1, <2>4
  <2> QED BY <2>2, <2>3, <2>4
<1>9. \A m \in M \ {n} : h[m].key # h[n].key
  BY <1>1 DEF Distinct
<1>10. Allocated(g, M \ {n}) /\ Distinct(g, M \ {n})
  BY <1>1, <1>8 DEF Allocated, Distinct
<1>11. NextRight(h, M, n) /\ PreviousRight(h, M, n)
  BY <1>1
<1>12. ASSUME NEW x \in M \ {n} PROVE NextRight(g, M \ {n}, x)
  <2>1. NextRight(h, M, x)
    BY <1>1
  <2>2. CASE x = p
    <3>1. h[x].key < h[n].key /\ \A m \in M : h[m].key <= h[x].key \/ h[n].key <= h[m].key
      BY <1>2, <1>11, <2>2 DEF PreviousRight, Adjacent, p
    <3>2. q = Null => \A m \in M : h[m].key <= h[n].key
      BY <1>11 DEF NextRight, Largest, q
    <3>3. q # Null => h[n].key < h[q].key
                      /\ \A m \in M : h[m].key <= h[n].key \/ h[q].key <= h[m].key
      BY <1>11 DEF NextRight, Adjacent, q
    <3>4. q = Null => \A m \in M \ {n} : h[m].key <= h[x].key
      BY <1>2, <1>9, <3>1, <3>2
    <3>5. q # Null => h[x].key < h[q].key
                      /\ \A m \in M \ {n} : h[m].key <= h[x].key \/ h[q].key <= h[m].key
      BY <1>2, <1>3, <1>9, <3>1, <3>3
    <3>6. g[x].next = q /\ (q # Null => q \in M \ {n})
      BY <1>3, <1>8, <2>2
    <3> QED BY <1>8, <3>4, <3>5, <3>6 DEF NextRight, Largest, Adjacent
  <2>3. CASE x # p
    <3>1. h[x].next # n /\ g[x].next = h[x].next
      BY <1>4, <1>8, <2>3
    <3> QED BY <1>8, <2>1, <3>1 DEF NextRight, Largest, Adjacent
  <2> QED BY <2>2, <2>3
<1>13. ASSUME NEW x \in M \ {n} PROVE PreviousRight(g, M \ {n}, x)
  <2>1. PreviousRight(h, M, x)
    BY <1>1
  <2>2. CASE x = q
    <3>1. h[n].key < h[x].key /\ \A m \in M : h[m].key <= h[n].key \/ h[x].key <= h[m].key
      BY <1>2, <1>11, <2>2 DEF NextRight, Adjacent, q
    <3>2. p = Null => \A m \in M : h[n].key <= h[m].key
      BY <1>11 DEF PreviousRight, Smallest, p
    <3>3. p # Null => h[p].key < h[n].key
                      /\ \A m \in M : h[m].key <= h[p].key \/ h[n].key <= h[m].key
      BY <1>11 DEF PreviousRight, Adjacent, p
    <3>4. p = Null => \A m \in M \ {n} : h[x].key <= h[m].key
      BY <1>2, <1>9, <3>1, <3>2
    <3>5. p # Null => h[p].key < h[x].key
                      /\ \A m \in M \ {n} : h[m].key <= h[p].key \/ h[x].key <= h[m].key
      BY <1>2, <1>3, <1>9, <3>1, <3>3
    <3>6. g[x].previous = p /\ (p # Null => p \in M \ {n})
      BY <1>3, <1>8, <2>2
    <3> QED BY <1>8, <3>4, <3>5, <3>6 DEF PreviousRight, Smallest, Adjacent
  <2>3. CASE x # q
    <3>1. h[x].previous # n /\ g[x].previous = h[x].previous
      BY <1>4, <1>8, <2>3
    <3> QED BY <1>8, <2>1, <3>1 DEF PreviousRight, Smallest, Adjacent
  <2> QED BY <2>2, <2>3
<1> QED BY <1>10, <1>12, <1>13 DEF Ordered, Forward, g

LEMMA UnlinkKeys ==
  ASSUME NEW h, NEW M, Ordered(h, M), NEW n \in M
  PROVE  /\ Unlink(h, n)[n] = Free
         /\ \A m \in M \ {n} : Unlink(h, n)[m].key = h[m].key
<1> DEFINE p == h[n].previous  q == h[n].next
<1>1. Allocated(h, M) /\ NextRight(h, M, n) /\ PreviousRight(h, M, n)
  BY DEF Ordered, Forward
<1>2. /\ p # Null => p \in M /\ p # n /\ h[p].key < h[n].key
      /\ q # Null => q \in M /\ q # n /\ h[n].key < h[q].key
  BY <1>1, Neighbours DEF NextRight, PreviousRight, Adjacent
<1>3. /\ n \in Nodes /\ p # n /\ q # n
      /\ p # Null => p # q
  <2>1. n \in Nodes /\ n # Null /\ h[n].key \in Int
    BY <1>1, NodeType
  <2>2. p # Null => h[p].key \in Int
    BY <1>1, <1>2, NodeType
  <2> QED BY <1>2, <2>1, <2>2
<1>4. Unlink(h, n)[n] = Free
  BY <1>3 DEF Unlink
<1>5. ASSUME NEW m \in M \ {n} PROVE Unlink(h, n)[m].key = h[m].key
  <2>1. m \in Nodes /\ m # n /\ m # Null /\ h[m] \in node_t
    BY <1>1, NodeType
  <2> HIDE DEF p, q
  <2>2. CASE m = p
    BY <1>3, <2>1, <2>2 DEF Unlink, node_t, p, q
  <2>3. CASE m = q
    BY <1>3, <2>1, <2>3 DEF Unlink, node_t, p, q
  <2>4. CASE m # p /\ m # q
    BY <2>1, <2>4 DEF Unlink, p, q
  <2> QED BY <2>2, <2>3, <2>4
<1> QED BY <1>4, <1>5

Replaces(h, g, M, n, new, k) == /\ Ordered(g, (M \ {n}) \cup {new})
                                /\ g[n] = Free /\ g[new].key = k
                                /\ SameKeys(h, g, M \ {n})

\* A node replaced by a new one with its key.
LEMMA SubstituteOrdered ==
  ASSUME NEW h, NEW M, Ordered(h, M), NEW n \in M,
         NEW new \in Nodes, new \notin M, NEW v \in Values, NEW k, k = h[n].key
  PROVE  Replaces(h, Substitute(h, new, k, v, n), M, n, new, k)
<1>1. /\ Ordered(Unlink(h, n), M \ {n})
      /\ \A m \in M \ {n} : Unlink(h, n)[m].key = h[m].key
  <2>1. Ordered(Unlink(h, n), M \ {n})
    BY UnlinkOrdered
  <2> QED BY <2>1, UnlinkKeys
<1> DEFINE p == h[n].previous  q == h[n].next  u == Unlink(h, n)  L == M \ {n}
           w == Place(u, new, k, v, p, q)  g == Substitute(h, new, k, v, n)
<1>2. Allocated(h, M) /\ Distinct(h, M) /\ NextRight(h, M, n) /\ PreviousRight(h, M, n)
  BY DEF Ordered, Forward
<1>3. /\ \A m \in M : /\ m \in Nodes /\ m # Null /\ m # new /\ h[m] \in node_t
                      /\ h[m].key \in Int /\ h[m].key \in Keys
      /\ new \in Nodes /\ new # Null
  BY <1>2, NodeType
<1>4. /\ p # Null => p \in L /\ h[p].key < k
      /\ q # Null => q \in L /\ k < h[q].key
  <2>1. p # Null => p \in M /\ p # n
    BY Neighbours
  <2>2. q # Null => q \in M /\ q # n
    BY Neighbours
  <2> QED BY <1>2, <2>1, <2>2 DEF NextRight, PreviousRight, Adjacent
<1>5. ASSUME NEW m \in L
      PROVE  (p # Null /\ h[m].key <= h[p].key) \/ (q # Null /\ h[q].key <= h[m].key)
  <2>1. h[m].key # k
    BY <1>2 DEF Distinct
  <2>2. CASE h[m].key < k
    BY <1>2, <1>3, <2>2 DEF PreviousRight, Smallest, Adjacent
  <2>3. CASE k < h[m].key
    BY <1>2, <1>3, <2>3 DEF NextRight, Largest, Adjacent
  <2> QED BY <1>3, <2>1, <2>2, <2>3
<1>6. /\ p # new /\ q # new /\ p # n /\ q # n /\ n # new /\ n \in Nodes
      /\ p # Null => p # q
  BY <1>3, <1>4
<1>7. g[n] = Free
  BY <1>6 DEF Substitute, Place
<1>8. g[new] = [key |-> k, value |-> v, next |-> q, previous |-> p]
  BY <1>3, <1>6 DEF Substitute, Place
<1>9. w[new] = [key |-> k, value |-> v, next |-> q, previous |-> p]
  BY <1>3, <1>6 DEF Place
<1>10. ASSUME NEW m \in L PROVE g[m] = w[m]
  <2>1. m \in Nodes /\ m # n /\ m # new /\ m # Null /\ h[m] \in node_t
    BY <1>3
  <2>2. g[m] = Place(h, new, k, v, p, q)[m]
    BY <2>1 DEF Substitute, Place
  <2>3. CASE m = p
    <3>1. u[m] = [h[m] EXCEPT !.next = q]
      BY <1>6, <2>1, <2>3 DEF Unlink
    <3>2. w[m] = [u[m] EXCEPT !.next = new] /\ g[m] = [h[m] EXCEPT !.next = new]
      BY <1>6, <2>1, <2>2, <2>3 DEF Place
    <3> HIDE DEF u, w, g, q
    <3> QED BY <2>1, <3>1, <3>2 DEF node_t
  <2>4. CASE m = q
    <3>1. u[m] = [h[m] EXCEPT !.previous = p]
      BY <1>6, <2>1, <2>4 DEF Unlink
    <3>2. w[m] = [u[m] EXCEPT !.previous = new] /\ g[m] = [h[m] EXCEPT !.previous = new]
      BY <1>6, <2>1, <2>2, <2>4 DEF Place
    <3> HIDE DEF u, w, g, p
    <3> QED BY <2>1, <3>1, <3>2 DEF node_t
  <2>5. CASE m # p /\ m # q
    BY <2>1, <2>2, <2>5 DEF Place, Unlink
  <2> QED BY <2>3, <2>4, <2>5
<1>11. k \in Keys /\ L \subseteq Nodes /\ p \in L \cup {Null} /\ q \in L \cup {Null}
       /\ new \in Nodes \ L
  BY <1>3, <1>4
<1>12. Ordered(u, L) /\ \A m \in L : u[m].key = h[m].key
  BY <1>1
<1> HIDE DEF u, w, g, p, q, L
<1>13. /\ p # Null => u[p].key < k
       /\ q # Null => k < u[q].key
       /\ \A m \in L : (p # Null /\ u[m].key <= u[p].key) \/ (q # Null /\ u[q].key <= u[m].key)
  BY <1>4, <1>5, <1>12
<1>14. Ordered(Place(u, new, k, v, p, q), L \cup {new})
  BY <1>11, <1>12, <1>13, PlaceOrdered
<1>15. \A m \in L : Place(u, new, k, v, p, q)[m].key = u[m].key
  <2>1. Allocated(u, L)
    BY <1>12 DEF Ordered, Forward
  <2> QED BY <1>6, <1>11, <2>1, PlaceKeys
<1>16. Ordered(g, L \cup {new})
  <2>1. \A m \in L \cup {new} : g[m] = w[m]
    BY <1>8, <1>9, <1>10
  <2>2. Ordered(w, L \cup {new})
    BY <1>14 DEF w
  <2> QED BY <2>1, <2>2, OrderedFrame
<1>17. g[new].key = k /\ \A m \in L : g[m].key = h[m].key
  BY <1>8, <1>10, <1>12, <1>15 DEF w
<1> QED BY <1>7, <1>16, <1>17 DEF Replaces, SameKeys, g, L

\* table_destroy frees the first node that is left.
LEMMA FreeFirst ==
  ASSUME NEW h \in Heaps, NEW M, Forward(h, M), NEW n \in M, Starts(h, M, n)
  PROVE  LET g == [h EXCEPT ![n] = Free]
         IN  Forward(g, M \ {n}) /\ Starts(g, M \ {n}, h[n].next)
<1> DEFINE g == [h EXCEPT ![n] = Free]  q == h[n].next
<1>1. Allocated(h, M) /\ Distinct(h, M) /\ \A m \in M : NextRight(h, M, m)
  BY DEF Forward
<1>2. \A m \in M : m \in Nodes /\ m # Null /\ h[m].key \in Int
  BY <1>1, NodeType
<1>3. \A m \in M \ {n} : g[m] = h[m]
  BY <1>2 DEF Heaps
<1> HIDE DEF g
<1>4. \A m \in M \ {n} : h[n].key < h[m].key
  <2> SUFFICES ASSUME NEW m \in M \ {n} PROVE h[n].key < h[m].key
    OBVIOUS
  <2>1. h[n].key <= h[m].key /\ h[n].key # h[m].key
    BY <1>1 DEF Starts, Smallest, Distinct
  <2> QED BY <1>2, <2>1
<1>5. Forward(g, M \ {n})
  <2>1. Allocated(g, M \ {n}) /\ Distinct(g, M \ {n})
    BY <1>1, <1>3 DEF Allocated, Distinct
  <2>2. ASSUME NEW m \in M \ {n} PROVE NextRight(g, M \ {n}, m)
    <3>1. NextRight(h, M, m)
      BY <1>1
    <3>2. h[m].next # Null => h[m].next \in M /\ h[m].key < h[h[m].next].key
      BY <3>1 DEF NextRight, Adjacent
    <3>3. h[m].next # n
      BY <1>2, <1>4, <3>2
    <3> QED BY <1>3, <3>1, <3>3 DEF NextRight, Largest, Adjacent
  <2> QED BY <2>1, <2>2 DEF Forward
<1>6. Starts(g, M \ {n}, q)
  <2>1. CASE q = Null
    <3>1. M \ {n} = {}
      BY <1>1, <1>2, <1>4, <2>1 DEF NextRight, Largest
    <3> QED BY <2>1, <3>1 DEF Starts
  <2>2. CASE q # Null
    <3>1. q \in M /\ h[n].key < h[q].key
          /\ \A m \in M : h[m].key <= h[n].key \/ h[q].key <= h[m].key
      BY <1>1, <2>2 DEF NextRight, Adjacent
    <3>2. q \in M \ {n} /\ \A m \in M \ {n} : h[q].key <= h[m].key
      BY <1>2, <1>4, <3>1
    <3> QED BY <1>3, <3>2 DEF Starts, Smallest
  <2> QED BY <2>1, <2>2
<1> QED BY <1>5, <1>6 DEF g

------------------------------------------------------------------------------
(* The table: one set of nodes for each bucket.                             *)

In(h, b) == {n \in Nodes : h[n] # Free /\ hash_code(h[n].key) = b}

Right(h, l, M) == /\ Ordered(h, M)
                  /\ IF l = NoList THEN M = {}
                     ELSE l.size = Cardinality(M) /\ Starts(h, M, l.head)

Smaller(h, M, n) == {m \in M : h[m].key < h[n].key}

AllRight(h, ls) == \A b \in Buckets : Right(h, ls[b], In(h, b))

\* From heap h to heap g the nodes of bucket b become those of M, and no
\* others change.
Becomes(h, g, b, M) == /\ M \subseteq Nodes /\ g = [n \in Nodes |-> g[n]]
                       /\ Ordered(g, M) /\ \A m \in M : hash_code(g[m].key) = b
                       /\ \A m \in M : m \in In(h, b) \/ h[m] = Free
                       /\ \A m \in In(h, b) : m \in M \/ g[m] = Free
                       /\ \A m \in Nodes : m \in M \/ m \in In(h, b) \/ g[m] = h[m]

ListsRight == lists # NoTable /\ pc # "destroy" => AllRight(heap, lists)

Placement == /\ lists = NoTable => pc = "idle" /\ \A n \in Nodes : heap[n] = Free
             /\ pc \in {"call", "walk", "return"} => call \in Calls

Walking == pc = "walk" =>
               /\ call.op \in {"put", "get", "remove"}
               /\ node \in In(heap, Bucket)
               /\ i = Cardinality(Smaller(heap, In(heap, Bucket), node))
               /\ call.op = "put" => \A m \in Smaller(heap, In(heap, Bucket), node) :
                                         heap[m].key < call.key

Destroying == pc = "destroy" =>
                  /\ i \in Buckets
                  /\ \A b \in Buckets : /\ b < i => In(heap, b) = {}
                                        /\ i < b => Right(heap, lists[b], In(heap, b))
                  /\ Forward(heap, In(heap, i)) /\ Starts(heap, In(heap, i), node)

Inv == TypeInvariant /\ Placement /\ ListsRight /\ Walking /\ Destroying

LEMMA HashType == \A k \in Keys : hash_code(k) \in Buckets
BY DEF hash_code, Buckets

LEMMA CallType ==
  ASSUME NEW c \in Calls
  PROVE  /\ c.op \in {"put", "get", "remove", "size", "get_keys"}
         /\ c.op \in {"put", "get", "remove"} => c.key \in Keys
         /\ c.op = "put" => c.value \in Values
BY DEF Calls

LEMMA InType ==
  ASSUME NEW h \in Heaps, NEW b
  PROVE  /\ Allocated(h, In(h, b)) /\ In(h, b) \subseteq Nodes
         /\ IsFiniteSet(In(h, b)) /\ Cardinality(In(h, b)) \in Nat
         /\ \A n \in Nodes : h[n] = Free => n \notin In(h, b)
<1>1. In(h, b) \subseteq Nodes /\ \A n \in Nodes : h[n] = Free => n \notin In(h, b)
  BY DEF In
<1>2. IsFiniteSet(In(h, b)) /\ Cardinality(In(h, b)) \in Nat
  BY <1>1, FS_Subset, FS_CardinalityType
<1>3. Allocated(h, In(h, b))
  BY DEF In, Allocated, Heaps
<1> QED BY <1>1, <1>2, <1>3

\* A step that changes the nodes of one bucket.
LEMMA OneBucket ==
  ASSUME NEW h \in Heaps, NEW g, NEW b \in Buckets,
         NEW ls \in [Buckets -> list_t \cup {NoList}], AllRight(h, ls),
         NEW M, Becomes(h, g, b, M),
         NEW size \in Nat, NEW head \in Pointers, size = Cardinality(M), Starts(g, M, head)
  PROVE  /\ g \in Heaps
         /\ [ls EXCEPT ![b] = [size |-> size, head |-> head]] \in [Buckets -> list_t \cup {NoList}]
         /\ AllRight(g, [ls EXCEPT ![b] = [size |-> size, head |-> head]])
<1> DEFINE new == [size |-> size, head |-> head]  l == [ls EXCEPT ![b] = new]
<1>1. new \in list_t /\ new # NoList /\ new.size = size /\ new.head = head
  BY DEF list_t
<1>2. l \in [Buckets -> list_t \cup {NoList}] /\ l[b] = new
      /\ \A c \in Buckets : c # b => l[c] = ls[c]
  <2> HIDE DEF new
  <2> QED BY <1>1
<1>3. Allocated(g, M)
  BY DEF Becomes, Ordered, Forward
<1>4. g \in Heaps
  <2>1. \A n \in Nodes : g[n] \in node_t \cup {Free}
    BY <1>3 DEF Becomes, Allocated, Heaps
  <2> QED BY <2>1 DEF Becomes, Heaps
<1>5. In(g, b) = M
  BY <1>3 DEF Becomes, In, Allocated
<1>6. ASSUME NEW c \in Buckets, c # b
      PROVE  In(g, c) = In(h, c) /\ \A m \in In(h, c) : g[m] = h[m]
  <2>1. ASSUME NEW m \in In(h, c) PROVE g[m] = h[m]
    BY <1>6 DEF Becomes, In
  <2>2. ASSUME NEW m \in In(g, c) PROVE m \in In(h, c)
    BY <1>6 DEF Becomes, In
  <2>3. ASSUME NEW m \in In(h, c) PROVE m \in In(g, c)
    BY <2>1 DEF In
  <2> QED BY <2>1, <2>2, <2>3
<1>7. ASSUME NEW c \in Buckets PROVE Right(g, l[c], In(g, c))
  <2> HIDE DEF new, l
  <2>1. CASE c = b
    BY <1>1, <1>2, <1>5, <2>1 DEF Becomes, Right
  <2>2. CASE c # b
    <3>1. Right(h, ls[c], In(h, c)) /\ l[c] = ls[c]
      BY <1>2, <2>2 DEF AllRight
    <3>2. In(g, c) = In(h, c) /\ \A m \in In(h, c) : g[m] = h[m]
      BY <1>6, <2>2
    <3> HIDE DEF In
    <3>3. Ordered(g, In(h, c))
      BY <3>1, <3>2, OrderedFrame DEF Right
    <3>4. \A first : Starts(h, In(h, c), first) => Starts(g, In(h, c), first)
      BY <3>2, OrderedFrame
    <3> QED BY <3>1, <3>2, <3>3, <3>4 DEF Right
  <2> QED BY <2>1, <2>2
<1> QED BY <1>2, <1>4, <1>7 DEF AllRight

------------------------------------------------------------------------------
(* The loops: what the counter counts.                                      *)

LEMMA SmallerType ==
  ASSUME NEW h, NEW M, Allocated(h, M), IsFiniteSet(M), NEW n \in M
  PROVE  /\ IsFiniteSet(Smaller(h, M, n)) /\ Cardinality(Smaller(h, M, n)) \in Nat
         /\ Cardinality(Smaller(h, M, n)) < Cardinality(M)
         /\ Cardinality(Smaller(h, M, n)) = 0 <=> Smallest(h, M, n)
<1> DEFINE S == Smaller(h, M, n)
<1>1. S \subseteq M /\ n \notin S /\ \A m \in M : h[m].key \in Int
  BY NodeType DEF Smaller
<1>2. S = {} <=> Smallest(h, M, n)
  BY <1>1 DEF Smallest, Smaller
<1> HIDE DEF S
<1>3. IsFiniteSet(S) /\ Cardinality(S) \in Nat /\ (Cardinality(S) = 0 <=> S = {})
  BY <1>1, FS_Subset, FS_CardinalityType, FS_EmptySet
<1>4. Cardinality(S \cup {n}) = Cardinality(S) + 1
  BY <1>1, <1>3, FS_AddElement
<1>5. Cardinality(S \cup {n}) <= Cardinality(M) /\ Cardinality(M) \in Nat
  <2>1. S \cup {n} \subseteq M
    BY <1>1
  <2> QED BY <2>1, FS_Subset, FS_CardinalityType
<1>6. Cardinality(S) < Cardinality(M)
  BY <1>3, <1>4, <1>5
<1> QED BY <1>2, <1>3, <1>6 DEF S

LEMMA SmallerNext ==
  ASSUME NEW h, NEW M, Ordered(h, M), IsFiniteSet(M), NEW n \in M, h[n].next # Null
  PROVE  /\ h[n].next \in M
         /\ Smaller(h, M, h[n].next) = Smaller(h, M, n) \cup {n}
         /\ Cardinality(Smaller(h, M, h[n].next)) = Cardinality(Smaller(h, M, n)) + 1
<1> DEFINE q == h[n].next
<1>1. Allocated(h, M) /\ Distinct(h, M) /\ NextRight(h, M, n)
  BY DEF Ordered, Forward
<1>2. \A m \in M : h[m].key \in Int
  BY <1>1, NodeType
<1>3. q \in M /\ h[n].key < h[q].key
      /\ \A m \in M : h[m].key <= h[n].key \/ h[q].key <= h[m].key
  BY <1>1 DEF NextRight, Adjacent
<1> HIDE DEF q
<1>4. ASSUME NEW m \in M PROVE h[m].key < h[q].key <=> h[m].key < h[n].key \/ m = n
  <2>1. h[m].key = h[n].key => m = n
    BY <1>1 DEF Distinct
  <2> QED BY <1>2, <1>3, <2>1
<1>5. Smaller(h, M, q) = Smaller(h, M, n) \cup {n} /\ n \notin Smaller(h, M, n)
  BY <1>2, <1>4 DEF Smaller
<1>6. Cardinality(Smaller(h, M, n) \cup {n}) = Cardinality(Smaller(h, M, n)) + 1
  BY <1>1, <1>5, SmallerType, FS_AddElement
<1> QED BY <1>3, <1>5, <1>6 DEF q

\* The first node is smaller than all others, and there is one such node.
LEMMA StartsSmallest ==
  ASSUME NEW h, NEW M, Ordered(h, M), NEW first, Starts(h, M, first), NEW n \in M
  PROVE  /\ first \in M /\ h[first].key <= h[n].key
         /\ Smallest(h, M, n) <=> n = first
         /\ h[n].previous = Null <=> n = first
<1>1. Allocated(h, M) /\ Distinct(h, M) /\ PreviousRight(h, M, n)
  BY DEF Ordered, Forward
<1>2. \A m \in M : h[m].key \in Int /\ m # Null
  BY <1>1, NodeType
<1>3. first \in M /\ Smallest(h, M, first)
  BY DEF Starts
<1>4. Smallest(h, M, n) => n = first
  <2> SUFFICES ASSUME Smallest(h, M, n) PROVE h[n].key = h[first].key
    BY <1>1, <1>3 DEF Distinct
  <2> QED BY <1>2, <1>3 DEF Smallest
<1>5. h[n].previous # Null => n # first
  <2> SUFFICES ASSUME h[n].previous # Null, n = first PROVE FALSE
    OBVIOUS
  <2>1. h[n].previous \in M /\ h[h[n].previous].key < h[n].key
    BY <1>1 DEF PreviousRight, Adjacent
  <2> QED BY <1>2, <1>3, <2>1 DEF Smallest
<1>6. h[n].previous = Null => Smallest(h, M, n)
  BY <1>1 DEF PreviousRight
<1> QED BY <1>3, <1>4, <1>5, <1>6 DEF Smallest

------------------------------------------------------------------------------
(* The steps.                                                               *)

\* What a step of a call may assume.
LEMMA InCall ==
  ASSUME Inv, pc \in {"call", "walk"}
  PROVE  /\ heap \in Heaps /\ lists \in [Buckets -> list_t \cup {NoList}]
         /\ AllRight(heap, lists) /\ call \in Calls
BY DEF Inv, TypeInvariant, Placement, ListsRight

\* The end of a call.
LEMMA Ended ==
  ASSUME call \in Calls, call' = call, pc' = "return", node' = Null, i' = 0,
         heap' \in Heaps, lists' \in [Buckets -> list_t \cup {NoList}], AllRight(heap', lists')
  PROVE  Inv'
<1>1. TypeInvariant'
  BY DEF TypeInvariant, Pointers
<1>2. Placement'
  BY DEF Placement, Buckets
<1>3. ListsRight'
  BY DEF ListsRight, AllRight, Right, In
<1>4. Walking' /\ Destroying'
  BY DEF Walking, Destroying
<1> QED BY <1>1, <1>2, <1>3, <1>4 DEF Inv

\* The end of a call that changes nothing.
LEMMA EndedUnchanged ==
  ASSUME Inv, pc \in {"call", "walk"}, NEW r, Answer(r), UNCHANGED <<lists, heap>>
  PROVE  Inv'
BY InCall, Ended DEF Answer

\* Where a loop is.
LEMMA InWalk ==
  ASSUME Inv, pc = "walk"
  PROVE  /\ Bucket \in Buckets /\ call.key \in Keys /\ call.key \in Int
         /\ lists[Bucket] \in list_t /\ lists[Bucket] # NoList /\ List = lists[Bucket]
         /\ Ordered(heap, In(heap, Bucket))
         /\ List.size = Cardinality(In(heap, Bucket)) /\ List.size \in Nat
         /\ Starts(heap, In(heap, Bucket), List.head) /\ List.head \in Pointers
         /\ node \in In(heap, Bucket) /\ node \in Nodes
         /\ i = 0 <=> node = List.head
         /\ i < List.size
<1> DEFINE b == Bucket  M == In(heap, b)  l == lists[b]
<1>1. /\ call \in Calls /\ call.op \in {"put", "get", "remove"} /\ heap \in Heaps
      /\ lists \in [Buckets -> list_t \cup {NoList}]
      /\ node \in M /\ i = Cardinality(Smaller(heap, M, node))
  BY InCall DEF Inv, Walking
<1>2. call.key \in Keys /\ call.key \in Int /\ b \in Buckets
  BY <1>1, CallType, HashType DEF Bucket
<1>3. Right(heap, l, M) /\ l \in list_t \cup {NoList}
  BY <1>1, <1>2, InCall DEF AllRight
<1>4. Allocated(heap, M) /\ IsFiniteSet(M) /\ M \subseteq Nodes
  BY <1>1, InType
<1> HIDE DEF M, l, b
<1>5. /\ l # NoList /\ l \in list_t
      /\ Ordered(heap, M) /\ l.size = Cardinality(M) /\ Starts(heap, M, l.head)
  BY <1>1, <1>3 DEF Right
<1>6. l.size \in Nat /\ l.head \in Pointers
  BY <1>5 DEF list_t
<1>7. (i = 0 <=> node = l.head) /\ i < l.size
  BY <1>1, <1>4, <1>5, SmallerType, StartsSmallest
<1>8. List = l
  BY <1>5 DEF List, l, b
<1> QED BY <1>1, <1>2, <1>4, <1>5, <1>6, <1>7, <1>8 DEF M, l, b

LEMMA BeginSteps ==
  ASSUME Inv, table_create \/ Begin \/ Return
  PROVE  Inv'
<1>1. CASE table_create
  <2>1. lists' \in [Buckets -> list_t \cup {NoList}] /\ \A b \in Buckets : lists'[b] = NoList
    BY <1>1 DEF table_create
  <2>2. lists' # NoTable
    BY <2>1 DEF Buckets
  <2>3. \A b \in Buckets : In(heap, b) = {}
    BY <1>1 DEF Inv, Placement, table_create, In
  <2>4. \A b \in Buckets : Right(heap, lists'[b], In(heap, b))
    <3>1. Ordered(heap, {})
      BY DEF Ordered, Forward, Allocated, Distinct
    <3> QED BY <2>1, <2>3, <3>1 DEF Right
  <2>5. ListsRight' /\ TypeInvariant' /\ Placement'
    BY <1>1, <2>1, <2>2, <2>4
    DEF Inv, AllRight, TypeInvariant, Placement, ListsRight, table_create
  <2>6. Walking' /\ Destroying'
    BY <1>1 DEF table_create, Walking, Destroying
  <2> QED BY <2>5, <2>6 DEF Inv
<1>2. CASE Begin
  <2>1. TypeInvariant' /\ Placement' /\ ListsRight'
    BY <1>2 DEF Inv, TypeInvariant, Placement, ListsRight, Begin
  <2>2. Walking' /\ Destroying'
    BY <1>2 DEF Begin, Walking, Destroying
  <2> QED BY <2>1, <2>2 DEF Inv
<1>3. CASE Return
  <2>1. TypeInvariant' /\ Placement' /\ ListsRight'
    BY <1>3 DEF Inv, TypeInvariant, Placement, ListsRight, Return
  <2>2. Walking' /\ Destroying'
    BY <1>3 DEF Return, Walking, Destroying
  <2> QED BY <2>1, <2>2 DEF Inv
<1> QED BY <1>1, <1>2, <1>3

\* A loop starts at the smallest key of the list.
LEMMA StartWalkStep ==
  ASSUME Inv, StartWalk
  PROVE  Inv'
<1> DEFINE b == Bucket  M == In(heap, b)  l == lists[b]
<1>1. /\ pc = "call" /\ call.op \in {"put", "get", "remove"} /\ isEmpty(List) = 0
      /\ pc' = "walk" /\ node' = List.head /\ i' = 0 /\ UNCHANGED <<lists, heap, call, ret>>
  BY DEF StartWalk
<1>2. /\ heap \in Heaps /\ lists \in [Buckets -> list_t \cup {NoList}] /\ call \in Calls
      /\ \A c \in Buckets : Right(heap, lists[c], In(heap, c))
  BY <1>1, InCall DEF AllRight
<1>3. b \in Buckets
  BY <1>1, <1>2, CallType, HashType DEF Bucket
<1>4. Right(heap, l, M) /\ Allocated(heap, M) /\ IsFiniteSet(M) /\ M \subseteq Nodes
  BY <1>2, <1>3, InType
<1>5. l # NoList /\ List = l
  BY <1>1 DEF List, isEmpty, list_create
<1>6. l.head # Null
  BY <1>1, <1>5 DEF isEmpty
<1>7. Bucket' = b /\ b' = b
  BY <1>1 DEF Bucket
<1> HIDE DEF M, l, b
<1>8. Starts(heap, M, l.head) /\ l.head \in M /\ Smallest(heap, M, l.head)
  BY <1>4, <1>5, <1>6 DEF Right, Starts
<1>9. Cardinality(Smaller(heap, M, l.head)) = 0
  BY <1>4, <1>8, SmallerType
<1>10. Smaller(heap, M, l.head) = {}
  BY <1>4, <1>8, <1>9, SmallerType, FS_EmptySet
<1>11. Walking'
  <2>1. node' \in M /\ i' = Cardinality(Smaller(heap, M, node')) /\ Smaller(heap, M, node') = {}
    BY <1>1, <1>5, <1>8, <1>9, <1>10
  <2>2. In(heap', Bucket') = M
    BY <1>1, <1>7 DEF M
  <2> QED BY <1>1, <2>1, <2>2 DEF Walking
<1>12. TypeInvariant'
  <2>1. node' \in Pointers /\ i' \in Nat
    BY <1>1, <1>4, <1>5, <1>8 DEF Pointers
  <2> QED BY <1>1, <2>1 DEF Inv, TypeInvariant
<1>13. Placement' /\ ListsRight' /\ Destroying'
  BY <1>1, <1>2 DEF Inv, Placement, ListsRight, Destroying
<1> QED BY <1>11, <1>12, <1>13 DEF Inv

\* One node further, one more smaller key.
LEMMA AdvanceStep ==
  ASSUME Inv, Advance
  PROVE  Inv'
<1> DEFINE b == Bucket  M == In(heap, b)
<1>1. /\ pc = "walk" /\ ~Stops /\ heap[node].next # Null
      /\ node' = heap[node].next /\ i' = i + 1 /\ UNCHANGED <<lists, heap, call, pc, ret>>
  BY DEF Advance
<1>2. Ordered(heap, M) /\ node \in M /\ call.key \in Int
  BY <1>1, InWalk
<1>3. IsFiniteSet(M) /\ M \subseteq Nodes /\ Allocated(heap, M)
  BY <1>1, InCall, InType
<1>4. Walking
  BY DEF Inv
<1>5. Bucket' = Bucket /\ In(heap', Bucket') = M
  BY <1>1 DEF Bucket
<1>6. /\ i = Cardinality(Smaller(heap, M, node)) /\ call.op \in {"put", "get", "remove"}
      /\ call.op = "put" => \A m \in Smaller(heap, M, node) : heap[m].key < call.key
  BY <1>1, <1>4 DEF Walking
<1> HIDE DEF M, b
<1>7. /\ node' \in M /\ Smaller(heap, M, node') = Smaller(heap, M, node) \cup {node}
      /\ Cardinality(Smaller(heap, M, node')) = i + 1
  BY <1>1, <1>2, <1>3, <1>6, SmallerNext
<1>8. call.op = "put" => heap[node].key < call.key
  <2>1. heap[node].key \in Int
    BY <1>2, <1>3, NodeType
  <2> QED BY <1>1, <1>2, <2>1 DEF Stops
<1>9. Walking'
  BY <1>1, <1>5, <1>6, <1>7, <1>8 DEF Walking
<1>10. TypeInvariant'
  <2>1. node' \in Pointers /\ i' \in Nat
    BY <1>1, <1>3, <1>7 DEF Inv, TypeInvariant, Pointers
  <2> QED BY <1>1, <2>1 DEF Inv, TypeInvariant
<1>11. Placement' /\ ListsRight' /\ Destroying'
  BY <1>1 DEF Inv, Placement, ListsRight, Destroying
<1> QED BY <1>9, <1>10, <1>11 DEF Inv

\* The end of a call that makes M the nodes of its bucket.
LEMMA EndedOneBucket ==
  ASSUME Inv, pc \in {"call", "walk"}, Bucket \in Buckets, NEW r, Answer(r),
         NEW size \in Nat, NEW head \in Pointers, SetList(size, head),
         NEW M, Becomes(heap, heap', Bucket, M),
         size = Cardinality(M), Starts(heap', M, head)
  PROVE  Inv'
<1> DEFINE l == [lists EXCEPT ![Bucket] = [size |-> size, head |-> head]]
<1>1. /\ heap \in Heaps /\ lists \in [Buckets -> list_t \cup {NoList}] /\ call \in Calls
      /\ AllRight(heap, lists)
  BY InCall
<1>2. lists' = l
  BY DEF SetList
<1>3. heap' \in Heaps /\ l \in [Buckets -> list_t \cup {NoList}] /\ AllRight(heap', l)
  BY <1>1, OneBucket
<1> HIDE DEF l
<1> QED BY <1>1, <1>2, <1>3, Ended DEF Answer

------------------------------------------------------------------------------
(* The three changes of a list, in the table.                               *)

LEMMA PlaceBecomes ==
  ASSUME NEW h \in Heaps, NEW b, NEW M, M = In(h, b), Ordered(h, M),
         NEW new \in FreeNodes(h), NEW k \in Keys, hash_code(k) = b, NEW v \in Values,
         NEW p, NEW n, Between(h, M, k, p, n)
  PROVE  /\ Becomes(h, Place(h, new, k, v, p, n), b, M \cup {new})
         /\ Cardinality(M \cup {new}) = Cardinality(M) + 1
<1> DEFINE g == Place(h, new, k, v, p, n)  L == M \cup {new}
<1>1. /\ new \in Nodes /\ h[new] = Free /\ new \notin M /\ new # Null
      /\ Allocated(h, M) /\ M \subseteq Nodes /\ IsFiniteSet(M)
  BY InType DEF FreeNodes
<1>2. \A m \in M : m \in Nodes /\ m # Null /\ h[m].key \in Int
  BY <1>1, NodeType
<1>3. /\ p # Null => p # n
      /\ p \in M \cup {Null} /\ n \in M \cup {Null}
  <2>1. /\ p \in M \cup {Null} /\ n \in M \cup {Null} /\ k \in Int
        /\ p # Null => h[p].key < k
        /\ n # Null => k < h[n].key
    BY DEF Between
  <2>2. ASSUME p # Null, p = n PROVE FALSE
    <3>1. h[p].key \in Int /\ h[p].key < k /\ k < h[p].key
      BY <1>2, <2>1, <2>2
    <3> QED BY <2>1, <3>1
  <2> QED BY <2>1, <2>2
<1>4. Ordered(g, L)
  BY <1>1, <1>3, PlaceOrdered DEF Between
<1>5. g[new].key = k /\ \A m \in M : g[m].key = h[m].key
  BY <1>1, <1>3, PlaceKeys
<1>6. \A m \in L : hash_code(g[m].key) = b
  <2>1. \A m \in M : hash_code(h[m].key) = b
    BY DEF In
  <2> HIDE DEF g
  <2> QED BY <1>5, <2>1
<1>7. \A m \in Nodes : m \in L \/ g[m] = h[m]
  BY <1>1, <1>3 DEF Place
<1>8. g = [m \in Nodes |-> g[m]]
  BY DEF Place
<1> HIDE DEF g
<1>9. Becomes(h, g, b, L)
  BY <1>1, <1>4, <1>6, <1>7, <1>8 DEF Becomes
<1>10. Cardinality(L) = Cardinality(M) + 1
  BY <1>1, FS_AddElement
<1> QED BY <1>9, <1>10 DEF g

LEMMA UnlinkBecomes ==
  ASSUME NEW h \in Heaps, NEW b, NEW M, M = In(h, b), Ordered(h, M), NEW n \in M
  PROVE  /\ Becomes(h, Unlink(h, n), b, M \ {n})
         /\ Cardinality(M \ {n}) = Cardinality(M) - 1
<1> DEFINE g == Unlink(h, n)  L == M \ {n}
<1>1. Allocated(h, M) /\ M \subseteq Nodes /\ IsFiniteSet(M)
  BY InType
<1>2. Ordered(g, L)
  BY UnlinkOrdered
<1>3. g[n] = Free /\ \A m \in L : g[m].key = h[m].key
  BY UnlinkKeys
<1>4. \A m \in L : hash_code(g[m].key) = b
  <2>1. \A m \in M : hash_code(h[m].key) = b
    BY DEF In
  <2> HIDE DEF g
  <2> QED BY <1>3, <2>1
<1>5. /\ h[n].previous # Null => h[n].previous \in M
      /\ h[n].next # Null => h[n].next \in M
  BY Neighbours
<1>6. \A m \in Nodes : m \in M \/ g[m] = h[m]
  BY <1>1, <1>5 DEF Unlink
<1>7. g = [m \in Nodes |-> g[m]]
  BY DEF Unlink
<1> HIDE DEF g
<1>8. Becomes(h, g, b, L)
  BY <1>1, <1>2, <1>3, <1>4, <1>6, <1>7 DEF Becomes
<1>9. Cardinality(L) = Cardinality(M) - 1
  BY <1>1, FS_RemoveElement
<1> QED BY <1>8, <1>9 DEF g

LEMMA SubstituteBecomes ==
  ASSUME NEW h \in Heaps, NEW b, NEW M, M = In(h, b), Ordered(h, M), NEW n \in M,
         NEW new \in FreeNodes(h), NEW v \in Values, NEW k, k = h[n].key
  PROVE  /\ Becomes(h, Substitute(h, new, k, v, n), b, (M \ {n}) \cup {new})
         /\ Cardinality((M \ {n}) \cup {new}) = Cardinality(M)
<1> DEFINE g == Substitute(h, new, k, v, n)  L == (M \ {n}) \cup {new}
<1>1. /\ new \in Nodes /\ h[new] = Free /\ new \notin M
      /\ Allocated(h, M) /\ M \subseteq Nodes /\ IsFiniteSet(M)
  BY InType DEF FreeNodes
<1>2. /\ Ordered(g, L) /\ g[n] = Free /\ g[new].key = k /\ SameKeys(h, g, M \ {n})
  <2>1. Replaces(h, g, M, n, new, k)
    BY <1>1, SubstituteOrdered
  <2> QED BY <2>1 DEF Replaces
<1>3. \A m \in L : hash_code(g[m].key) = b
  <2>1. \A m \in M : hash_code(h[m].key) = b
    BY DEF In
  <2> HIDE DEF g
  <2> QED BY <1>2, <2>1 DEF SameKeys
<1>4. /\ h[n].previous # Null => h[n].previous \in M
      /\ h[n].next # Null => h[n].next \in M
  BY Neighbours
<1>5. \A m \in Nodes : m \in M \/ m = new \/ g[m] = h[m]
  BY <1>1, <1>4 DEF Substitute, Place
<1>6. g = [m \in Nodes |-> g[m]]
  <2> DEFINE w == Place(h, new, k, v, h[n].previous, h[n].next)
  <2>1. w = [m \in Nodes |-> w[m]] /\ g = [w EXCEPT ![n] = Free]
    BY DEF Place, Substitute
  <2> HIDE DEF w, g
  <2> QED BY <2>1
<1> HIDE DEF g
<1>7. Becomes(h, g, b, L)
  BY <1>1, <1>2, <1>3, <1>5, <1>6 DEF Becomes
<1>8. Cardinality(L) = Cardinality(M)
  <2>1. IsFiniteSet(M \ {n}) /\ Cardinality(M \ {n}) = Cardinality(M) - 1
    BY <1>1, FS_RemoveElement
  <2>2. Cardinality(L) = Cardinality(M \ {n}) + 1
    BY <1>1, <2>1, FS_AddElement
  <2> QED BY <1>1, <2>1, <2>2, FS_CardinalityType
<1> QED BY <1>7, <1>8 DEF g

------------------------------------------------------------------------------
(* The steps that end a call.                                               *)

\* The first node of the list after node new, with key k, comes before node n
\* or after all, when all keys before n are smaller than k.
LEMMA FirstAfterPlace ==
  ASSUME NEW h, NEW g, NEW M, Ordered(h, M), NEW new, SameKeys(h, g, M),
         NEW k \in Int, g[new].key = k, NEW first, Starts(h, M, first), NEW n \in M,
         k <= h[n].key, \A m \in Smaller(h, M, n) : h[m].key < k
  PROVE  Starts(g, M \cup {new}, IF n = first THEN new ELSE first)
<1>1. \A m \in M : h[m].key \in Int
  BY NodeType DEF Ordered, Forward
<1>2. first \in M /\ Smallest(h, M, first)
  BY DEF Starts
<1>3. CASE n = first
  <2>1. \A m \in M \cup {new} : g[new].key <= g[m].key
    BY <1>1, <1>2, <1>3 DEF Smallest, SameKeys
  <2> QED BY <1>3, <2>1 DEF Starts, Smallest
<1>4. CASE n # first
  <2>1. first \in Smaller(h, M, n)
    <3>1. h[first].key <= h[n].key /\ h[first].key # h[n].key
      BY <1>2, <1>4 DEF Smallest, Ordered, Forward, Distinct
    <3> QED BY <1>1, <1>2, <3>1 DEF Smaller
  <2>2. h[first].key < k
    BY <2>1
  <2>3. \A m \in M \cup {new} : g[first].key <= g[m].key
    BY <1>1, <1>2, <2>2 DEF Smallest, SameKeys
  <2> QED BY <1>2, <1>4, <2>3 DEF Starts, Smallest
<1> QED BY <1>3, <1>4

\* A list that isEmpty says is not filled has no nodes.
LEMMA NoMembers ==
  ASSUME heap \in Heaps, NEW b \in Buckets, b = Bucket, Right(heap, lists[b], In(heap, b)),
         isEmpty(List) # 0
  PROVE  In(heap, b) = {}
<1> DEFINE M == In(heap, b)  l == lists[b]
<1>1. CASE l = NoList
  BY <1>1 DEF Right
<1>2. CASE l # NoList
  <2>1. List = l /\ l.size = Cardinality(M) /\ Starts(heap, M, l.head)
    BY <1>2 DEF Right, List
  <2>2. l.head = Null \/ l.size = 0
    BY <2>1 DEF isEmpty
  <2>3. l.head # Null \/ M = {}
    BY <2>1, InType, NodeType DEF Starts
  <2>4. l.size = 0 => M = {}
    BY <2>1, InType, FS_EmptySet
  <2> QED BY <2>2, <2>3, <2>4
<1> QED BY <1>1, <1>2

LEMMA AddFirstStep ==
  ASSUME Inv, AddFirst
  PROVE  Inv'
<1> DEFINE b == Bucket  M == In(heap, b)  l == lists[b]  k == call.key
<1>1. PICK new \in FreeNodes(heap) :
          /\ pc = "call" /\ call.op = "put" /\ isEmpty(List) # 0
          /\ heap' = Place(heap, new, k, call.value, Null, Null)
          /\ SetList(1, new) /\ Answer(0)
  BY DEF AddFirst
<1>2. /\ heap \in Heaps /\ lists \in [Buckets -> list_t \cup {NoList}] /\ call \in Calls
      /\ AllRight(heap, lists)
  BY <1>1, InCall
<1>3. k \in Keys /\ call.value \in Values /\ b \in Buckets /\ hash_code(k) = b
  BY <1>1, <1>2, CallType, HashType DEF Bucket
<1>4. Right(heap, l, M) /\ IsFiniteSet(M)
  BY <1>2, <1>3, InType DEF AllRight
<1>5. M = {}
  BY <1>1, <1>2, <1>3, <1>4, NoMembers
<1>6. /\ Becomes(heap, heap', b, {new}) /\ Cardinality({new}) = 1
      /\ new \in Nodes /\ heap'[new].key = k
  <2> DEFINE L == M \cup {new}
  <2>1. Ordered(heap, M)
    BY <1>4 DEF Right
  <2>2. \A m \in M : FALSE
    BY <1>5
  <2>3. Becomes(heap, heap', b, L) /\ Cardinality(L) = Cardinality(M) + 1
    <3> HIDE DEF M, b, k
    <3>1. Between(heap, M, k, Null, Null)
      BY <2>2 DEF Between
    <3>2. M = In(heap, b)
      BY DEF M
    <3>3. heap \in Heaps /\ k \in Keys /\ call.value \in Values /\ hash_code(k) = b
      BY <1>2, <1>3
    <3>4. Becomes(heap, Place(heap, new, k, call.value, Null, Null), b, M \cup {new})
      BY <2>1, <3>1, <3>2, <3>3, PlaceBecomes
    <3>5. Cardinality(M \cup {new}) = Cardinality(M) + 1
      BY <2>1, <3>1, <3>2, <3>3, PlaceBecomes
    <3> QED BY <1>1, <3>4, <3>5
  <2>4. Cardinality(M) = 0 /\ L = {new}
    BY <1>5, FS_EmptySet
  <2>5. new \in Nodes
    BY <1>1 DEF FreeNodes
  <2>6. heap'[new].key = k
    BY <1>1, <2>5 DEF Place
  <2> HIDE DEF L
  <2> QED BY <2>3, <2>4, <2>5, <2>6
<1>7. Starts(heap', {new}, new)
  <2>1. k \in Int
    BY <1>3
  <2> QED BY <1>6, <2>1 DEF Starts, Smallest
<1>8. new \in Pointers /\ 1 \in Nat
  BY <1>6 DEF Pointers
<1> QED BY <1>1, <1>3, <1>6, <1>7, <1>8, EndedOneBucket

LEMMA AddBeforeStep ==
  ASSUME Inv, AddBefore
  PROVE  Inv'
<1> DEFINE b == Bucket  M == In(heap, b)  k == call.key  p == heap[node].previous  l == List
<1>1. PICK new \in FreeNodes(heap) :
          /\ pc = "walk" /\ call.op = "put" /\ k < heap[node].key
          /\ heap' = Place(heap, new, k, call.value, p, node)
          /\ SetList(l.size + 1, IF i = 0 THEN new ELSE l.head) /\ Answer(0)
  BY DEF AddBefore
<1>2. /\ heap \in Heaps /\ call \in Calls /\ call.value \in Values /\ hash_code(k) = b
  BY <1>1, InCall, CallType DEF Bucket
<1>3. /\ b \in Buckets /\ k \in Keys /\ k \in Int
      /\ Ordered(heap, M) /\ l.size = Cardinality(M) /\ l.size \in Nat
      /\ Starts(heap, M, l.head) /\ l.head \in Pointers /\ node \in M
      /\ (i = 0 <=> node = l.head)
  BY <1>1, InWalk
<1>4. \A m \in Smaller(heap, M, node) : heap[m].key < k
  BY <1>1 DEF Inv, Walking
<1>5. new \in Nodes /\ new \notin M /\ Allocated(heap, M) /\ M \subseteq Nodes
  BY <1>1, <1>2, InType DEF FreeNodes
<1> HIDE DEF M, b, k, p, l
<1>6. \A m \in M : heap[m].key \in Int /\ m # Null
  BY <1>5, NodeType
<1>7. PreviousRight(heap, M, node)
  BY <1>3 DEF Ordered
<1>8. /\ p # Null => p \in M /\ heap[p].key < k /\ p # node
      /\ \A m \in M : (p # Null /\ heap[m].key <= heap[p].key) \/ heap[node].key <= heap[m].key
  <2>1. p # Null => p \in Smaller(heap, M, node)
    BY <1>7 DEF PreviousRight, Adjacent, Smaller, p
  <2>2. p # Null => p \in M /\ p # node
    BY <1>3, <1>6, <2>1 DEF Smaller
  <2>3. \A m \in M : (p # Null /\ heap[m].key <= heap[p].key) \/ heap[node].key <= heap[m].key
    BY <1>7 DEF PreviousRight, Adjacent, Smallest, p
  <2> QED BY <1>4, <2>1, <2>2, <2>3
<1>9. /\ Becomes(heap, heap', b, M \cup {new})
      /\ Cardinality(M \cup {new}) = Cardinality(M) + 1
  <2>1. Between(heap, M, k, p, node) /\ M = In(heap, b)
    BY <1>1, <1>3, <1>6, <1>8 DEF M, Between
  <2> QED BY <1>1, <1>2, <1>3, <2>1, PlaceBecomes
<1>10. heap'[new].key = k /\ SameKeys(heap, heap', M)
  BY <1>1, <1>3, <1>5, <1>8, PlaceKeys DEF SameKeys
<1>11. k <= heap[node].key
  BY <1>1, <1>3, <1>6
<1>12. Starts(heap', M \cup {new}, IF node = l.head THEN new ELSE l.head)
  BY <1>3, <1>4, <1>10, <1>11, FirstAfterPlace
<1> DEFINE head == IF i = 0 THEN new ELSE l.head
<1>13. head \in Pointers /\ l.size + 1 \in Nat /\ Starts(heap', M \cup {new}, head)
  BY <1>3, <1>5, <1>12 DEF Pointers
<1>14. l.size + 1 = Cardinality(M \cup {new}) /\ SetList(l.size + 1, head)
  BY <1>1, <1>3, <1>9
<1> HIDE DEF head
<1> QED BY <1>1, <1>3, <1>9, <1>13, <1>14, EndedOneBucket DEF b

LEMMA AddInsteadStep ==
  ASSUME Inv, AddInstead
  PROVE  Inv'
<1> DEFINE b == Bucket  M == In(heap, b)  k == call.key  l == List
<1>1. PICK new \in FreeNodes(heap) :
          /\ pc = "walk" /\ call.op = "put" /\ k = heap[node].key
          /\ heap' = Substitute(heap, new, k, call.value, node)
          /\ SetList(l.size, IF i = 0 THEN new ELSE l.head) /\ Answer(-1)
  BY DEF AddInstead
<1>2. heap \in Heaps /\ call.value \in Values
  BY <1>1, InCall, CallType
<1>3. /\ b \in Buckets
      /\ Ordered(heap, M) /\ l.size = Cardinality(M) /\ l.size \in Nat
      /\ Starts(heap, M, l.head) /\ l.head \in Pointers /\ node \in M
      /\ (i = 0 <=> node = l.head)
  BY <1>1, InWalk
<1>4. new \in Nodes /\ new \notin M /\ Allocated(heap, M)
  BY <1>1, <1>2, InType DEF FreeNodes
<1> HIDE DEF M, b, k, l
<1> DEFINE L == (M \ {node}) \cup {new}  head == IF i = 0 THEN new ELSE l.head
<1>5. M = In(heap, b)
  BY DEF M
<1>6. Becomes(heap, heap', b, L)
  <2>1. Becomes(heap, Substitute(heap, new, k, call.value, node), b, (M \ {node}) \cup {new})
    BY <1>1, <1>2, <1>3, <1>5, SubstituteBecomes
  <2> QED BY <1>1, <2>1
<1>7. Cardinality(L) = Cardinality(M)
  BY <1>1, <1>2, <1>3, <1>5, SubstituteBecomes
<1>8. heap'[new].key = k /\ SameKeys(heap, heap', M \ {node})
  <2>1. Replaces(heap, Substitute(heap, new, k, call.value, node), M, node, new, k)
    BY <1>1, <1>2, <1>3, <1>4, SubstituteOrdered
  <2> QED BY <1>1, <2>1 DEF Replaces
<1>9. Starts(heap', L, head)
  <2>1. \A m \in M : heap[m].key \in Int
    BY <1>4, NodeType
  <2>2. l.head \in M /\ Smallest(heap, M, l.head)
    BY <1>3 DEF Starts
  <2>3. CASE node = l.head
    <3>1. \A m \in L : heap'[new].key <= heap'[m].key
      BY <1>1, <1>8, <2>1, <2>2, <2>3 DEF Smallest, SameKeys
    <3> QED BY <1>3, <2>3, <3>1 DEF Starts, Smallest
  <2>4. CASE node # l.head
    <3>1. \A m \in L : heap'[l.head].key <= heap'[m].key
      BY <1>1, <1>3, <1>8, <2>1, <2>2, <2>4 DEF Smallest, SameKeys
    <3> QED BY <1>3, <2>2, <2>4, <3>1 DEF Starts, Smallest
  <2> QED BY <2>3, <2>4
<1>10. head \in Pointers /\ l.size = Cardinality(L) /\ SetList(l.size, head)
  BY <1>1, <1>3, <1>4, <1>7 DEF Pointers
<1> HIDE DEF head, L
<1> QED BY <1>1, <1>3, <1>6, <1>9, <1>10, EndedOneBucket DEF b

LEMMA AddLastStep ==
  ASSUME Inv, AddLast
  PROVE  Inv'
<1> DEFINE b == Bucket  M == In(heap, b)  k == call.key  l == List
<1>1. PICK new \in FreeNodes(heap) :
          /\ pc = "walk" /\ call.op = "put" /\ ~Stops /\ heap[node].next = Null
          /\ heap' = Place(heap, new, k, call.value, node, Null)
          /\ SetList(l.size + 1, l.head) /\ Answer(0)
  BY DEF AddLast, PastEnd
<1>2. heap \in Heaps /\ call.value \in Values /\ hash_code(k) = b
  BY <1>1, InCall, CallType DEF Bucket
<1>3. /\ b \in Buckets /\ k \in Keys /\ k \in Int
      /\ Ordered(heap, M) /\ l.size = Cardinality(M) /\ l.size \in Nat
      /\ Starts(heap, M, l.head) /\ l.head \in Pointers /\ node \in M
  BY <1>1, InWalk
<1>4. new \in Nodes /\ new \notin M /\ Allocated(heap, M)
  BY <1>1, <1>2, InType DEF FreeNodes
<1>5. \A m \in M : heap[m].key \in Int /\ m # Null
  BY <1>4, NodeType
<1>6. heap[node].key < k
  BY <1>1, <1>3, <1>5 DEF Stops
<1> HIDE DEF M, b, k, l
<1>7. Largest(heap, M, node)
  BY <1>1, <1>3 DEF Ordered, Forward, NextRight
<1>8. Between(heap, M, k, node, Null) /\ M = In(heap, b)
  BY <1>3, <1>5, <1>6, <1>7 DEF Between, Largest, M
<1> DEFINE L == M \cup {new}
<1>9. Becomes(heap, heap', b, L)
  <2>1. Becomes(heap, Place(heap, new, k, call.value, node, Null), b, M \cup {new})
    BY <1>2, <1>3, <1>8, PlaceBecomes
  <2> QED BY <1>1, <2>1
<1>10. Cardinality(L) = Cardinality(M) + 1
  BY <1>2, <1>3, <1>8, PlaceBecomes
<1>11. heap'[new].key = k /\ SameKeys(heap, heap', M)
  BY <1>1, <1>3, <1>4, <1>5, PlaceKeys DEF SameKeys
<1>12. Starts(heap', L, l.head)
  <2>1. l.head \in M /\ Smallest(heap, M, l.head)
    BY <1>3 DEF Starts
  <2>2. heap[l.head].key <= heap[node].key
    BY <1>3, <2>1 DEF Smallest
  <2>3. heap[l.head].key <= k
    BY <1>3, <1>5, <1>6, <2>1, <2>2
  <2>4. \A m \in L : heap'[l.head].key <= heap'[m].key
    BY <1>11, <2>1, <2>3 DEF Smallest, SameKeys
  <2> QED BY <2>1, <2>4 DEF Starts, Smallest
<1>13. l.size + 1 = Cardinality(L) /\ l.size + 1 \in Nat
  BY <1>3, <1>10
<1> HIDE DEF L
<1> QED BY <1>1, <1>3, <1>9, <1>12, <1>13, EndedOneBucket DEF b

\* A malloc that fails leaves at most an empty list.
LEMMA PutFailsStep ==
  ASSUME Inv, PutFails
  PROVE  Inv'
<1> DEFINE b == Bucket  M == In(heap, b)
<1>1. /\ pc = "call" /\ call.op = "put" /\ Answer(-1) /\ heap' = heap
      /\ lists' = lists \/ lists' = [lists EXCEPT ![b] = List]
  BY DEF PutFails
<1>2. /\ heap \in Heaps /\ lists \in [Buckets -> list_t \cup {NoList}] /\ call \in Calls
      /\ AllRight(heap, lists)
  BY <1>1, InCall
<1>3. b \in Buckets
  BY <1>1, <1>2, CallType, HashType DEF Bucket
<1>4. List \in list_t /\ Right(heap, List, M)
  <2>1. Right(heap, lists[b], M)
    BY <1>2, <1>3 DEF AllRight
  <2>2. CASE lists[b] = NoList
    <3>1. M = {} /\ List = [size |-> 0, head |-> Null] /\ List \in list_t
      BY <2>1, <2>2 DEF Right, List, list_create, list_t, Pointers
    <3>2. Cardinality(M) = 0 /\ List.size = 0 /\ List.head = Null
      BY <3>1, FS_EmptySet
    <3> QED BY <2>1, <3>1, <3>2 DEF Right, Starts
  <2>3. CASE lists[b] # NoList
    BY <1>2, <1>3, <2>1, <2>3 DEF List
  <2> QED BY <2>2, <2>3
<1>5. lists' \in [Buckets -> list_t \cup {NoList}] /\ AllRight(heap, lists')
  BY <1>1, <1>2, <1>3, <1>4 DEF AllRight
<1> QED BY <1>1, <1>2, <1>5, Ended DEF Answer

LEMMA RemoveStep ==
  ASSUME Inv, table_remove
  PROVE  Inv'
<1> DEFINE b == Bucket  M == In(heap, b)  l == List  q == heap[node].next
           head == IF node = l.head THEN q ELSE l.head  L == M \ {node}
<1>1. /\ pc = "walk" /\ heap' = Unlink(heap, node)
      /\ SetList(l.size - 1, head) /\ Answer(0)
  BY DEF table_remove
<1>2. heap \in Heaps
  BY <1>1, InCall
<1>3. /\ b \in Buckets
      /\ Ordered(heap, M) /\ l.size = Cardinality(M) /\ l.size \in Nat
      /\ Starts(heap, M, l.head) /\ l.head \in Pointers /\ node \in M
      /\ 0 < l.size
  BY <1>1, InWalk DEF Inv, TypeInvariant
<1>4. Allocated(heap, M)
  BY <1>2, InType
<1>5. \A m \in M : heap[m].key \in Int /\ m # Null /\ heap[m].next \in Pointers
  BY <1>4, NodeType
<1> HIDE DEF M, b, l, q, head
<1>6. M = In(heap, b)
  BY DEF M
<1>7. Becomes(heap, heap', b, L)
  <2>1. Becomes(heap, Unlink(heap, node), b, M \ {node})
    BY <1>2, <1>3, <1>6, UnlinkBecomes
  <2> QED BY <1>1, <2>1
<1>8. Cardinality(L) = Cardinality(M) - 1
  BY <1>2, <1>3, <1>6, UnlinkBecomes
<1>9. SameKeys(heap, heap', L)
  BY <1>1, <1>3, UnlinkKeys DEF SameKeys
<1>10. l.head \in M /\ Smallest(heap, M, l.head)
  BY <1>3 DEF Starts
<1>11. Starts(heap', L, head)
  <2>1. CASE node = l.head /\ q = Null
    <3>1. Largest(heap, M, node) /\ Distinct(heap, M)
      BY <1>3, <2>1 DEF Ordered, Forward, NextRight, q
    <3>2. L = {}
      BY <1>5, <1>10, <2>1, <3>1 DEF Largest, Smallest, Distinct
    <3> QED BY <2>1, <3>2 DEF Starts, head
  <2>2. CASE node = l.head /\ q # Null
    <3>1. q \in M /\ heap[node].key < heap[q].key /\ Distinct(heap, M)
          /\ \A m \in M : heap[m].key <= heap[node].key \/ heap[q].key <= heap[m].key
      BY <1>3, <2>2 DEF Ordered, Forward, NextRight, Adjacent, q
    <3>2. q \in L /\ \A m \in L : heap[q].key <= heap[m].key
      <4>1. q \in L
        BY <1>5, <3>1
      <4>2. ASSUME NEW m \in L PROVE heap[q].key <= heap[m].key
        <5>1. heap[node].key <= heap[m].key /\ heap[m].key # heap[node].key
          BY <1>3, <1>10, <2>2, <3>1 DEF Smallest, Distinct
        <5>2. node \in M /\ m \in M
          BY <1>3
        <5> QED BY <1>5, <3>1, <5>1, <5>2
      <4> QED BY <4>1, <4>2
    <3> QED BY <1>9, <2>2, <3>2 DEF Starts, Smallest, SameKeys, head
  <2>3. CASE node # l.head
    BY <1>9, <1>10, <2>3 DEF Starts, Smallest, SameKeys, head
  <2> QED BY <2>1, <2>2, <2>3
<1>12. l.size - 1 = Cardinality(L) /\ l.size - 1 \in Nat /\ head \in Pointers
  BY <1>3, <1>5, <1>8 DEF head, q
<1> HIDE DEF L
<1> QED BY <1>1, <1>3, <1>7, <1>11, <1>12, EndedOneBucket DEF b

LEMMA ReadSteps ==
  ASSUME Inv, Missing \/ table_get \/ table_size \/ table_get_keys
  PROVE  Inv'
<1>1. /\ pc \in {"call", "walk"} /\ UNCHANGED <<lists, heap>>
      /\ \E r : Answer(r)
  BY DEF Missing, PastEnd, table_get, table_size, table_get_keys
<1> QED BY <1>1, EndedUnchanged

------------------------------------------------------------------------------
(* table_destroy.                                                           *)

\* A bucket is taken: what HeadOf gives is its first node.
LEMMA HeadRight ==
  ASSUME heap \in Heaps, lists \in [Buckets -> list_t \cup {NoList}], NEW b \in Buckets,
         Right(heap, lists[b], In(heap, b))
  PROVE  /\ HeadOf(b) \in Pointers
         /\ Forward(heap, In(heap, b)) /\ Starts(heap, In(heap, b), HeadOf(b))
BY DEF Right, HeadOf, Starts, Ordered, list_t, Pointers

LEMMA DestroySteps ==
  ASSUME Inv, table_destroy \/ NextBucket
  PROVE  Inv'
<1>1. CASE table_destroy
  <2>1. /\ heap \in Heaps /\ lists \in [Buckets -> list_t \cup {NoList}] /\ lists # NoTable
        /\ AllRight(heap, lists) /\ UNCHANGED <<lists, heap, call, ret>>
        /\ pc' = "destroy" /\ i' = 0 /\ node' = HeadOf(0)
    BY <1>1 DEF table_destroy, Inv, TypeInvariant, ListsRight
  <2>2. 0 \in Buckets /\ \A b \in Buckets : b \in Nat
    BY DEF Buckets
  <2>3. node' \in Pointers /\ Forward(heap, In(heap, 0)) /\ Starts(heap, In(heap, 0), node')
    BY <2>1, <2>2, HeadRight DEF AllRight
  <2>4. Destroying'
    <3>1. \A b \in Buckets : /\ b < i' => In(heap', b) = {}
                             /\ i' < b => Right(heap', lists'[b], In(heap', b))
      BY <2>1, <2>2 DEF AllRight
    <3>2. Forward(heap', In(heap', i')) /\ Starts(heap', In(heap', i'), node') /\ i' \in Buckets
      BY <2>1, <2>2, <2>3
    <3> QED BY <3>1, <3>2 DEF Destroying
  <2>5. TypeInvariant'
    BY <2>1, <2>3 DEF Inv, TypeInvariant
  <2>6. Placement' /\ ListsRight' /\ Walking'
    BY <2>1 DEF Placement, ListsRight, Walking
  <2> QED BY <2>4, <2>5, <2>6 DEF Inv
<1>2. CASE NextBucket
  <2>1. /\ pc = "destroy" /\ node = Null /\ i + 1 < N /\ i' = i + 1 /\ node' = HeadOf(i + 1)
        /\ UNCHANGED <<lists, heap, call, pc, ret>>
    BY <1>2 DEF NextBucket
  <2>2. /\ heap \in Heaps /\ lists \in [Buckets -> list_t \cup {NoList}] /\ lists # NoTable
        /\ i \in Buckets /\ i + 1 \in Buckets
        /\ \A b \in Buckets : b \in Int /\ (b < i + 1 => b < i \/ b = i) /\ (i + 1 < b => i < b)
    BY <2>1 DEF Inv, TypeInvariant, Placement, Destroying, Buckets
  <2>3. /\ \A b \in Buckets : /\ b < i => In(heap, b) = {}
                              /\ i < b => Right(heap, lists[b], In(heap, b))
        /\ Starts(heap, In(heap, i), Null)
    BY <2>1 DEF Inv, Destroying
  <2>4. In(heap, i) = {}
    BY <2>2, <2>3, InType DEF Starts
  <2>5. /\ node' \in Pointers
        /\ Forward(heap, In(heap, i + 1)) /\ Starts(heap, In(heap, i + 1), node')
    <3>1. i < i + 1
      BY <2>2
    <3> QED BY <2>1, <2>2, <2>3, <3>1, HeadRight
  <2>6. Destroying'
    <3>1. \A b \in Buckets : /\ b < i' => In(heap', b) = {}
                             /\ i' < b => Right(heap', lists'[b], In(heap', b))
      BY <2>1, <2>2, <2>3, <2>4
    <3>2. Forward(heap', In(heap', i')) /\ Starts(heap', In(heap', i'), node') /\ i' \in Buckets
      BY <2>1, <2>2, <2>5
    <3> QED BY <3>1, <3>2 DEF Destroying
  <2>7. TypeInvariant'
    BY <2>1, <2>2, <2>5 DEF Inv, TypeInvariant
  <2>8. Placement' /\ ListsRight' /\ Walking'
    BY <2>1, <2>2 DEF Inv, Placement, ListsRight, Walking
  <2> QED BY <2>6, <2>7, <2>8 DEF Inv
<1> QED BY <1>1, <1>2

LEMMA FreeNodeStep ==
  ASSUME Inv, FreeNode
  PROVE  Inv'
<1> DEFINE M == In(heap, i)  g == [heap EXCEPT ![node] = Free]
<1>1. /\ pc = "destroy" /\ node # Null /\ node' = heap[node].next /\ heap' = g
      /\ UNCHANGED <<lists, call, pc, i, ret>>
  BY DEF FreeNode
<1>2. /\ heap \in Heaps /\ lists \in [Buckets -> list_t \cup {NoList}] /\ lists # NoTable
      /\ i \in Buckets /\ Forward(heap, M) /\ Starts(heap, M, node)
      /\ \A b \in Buckets : /\ b < i => In(heap, b) = {}
                            /\ i < b => Right(heap, lists[b], In(heap, b))
  BY <1>1 DEF Inv, TypeInvariant, Placement, Destroying
<1>3. node \in M /\ M \subseteq Nodes /\ Allocated(heap, M)
  BY <1>1, <1>2, InType DEF Starts
<1>4. Forward(g, M \ {node}) /\ Starts(g, M \ {node}, node')
  BY <1>1, <1>2, <1>3, FreeFirst
<1>5. In(g, i) = M \ {node} /\ \A b \in Buckets : b # i => node \notin In(heap, b)
  BY <1>2, <1>3 DEF In, Heaps
<1>6. ASSUME NEW b \in Buckets, b # i
      PROVE  /\ In(g, b) = In(heap, b)
             /\ Right(heap, lists[b], In(heap, b)) => Right(g, lists[b], In(g, b))
  <2>1. In(g, b) = In(heap, b) /\ \A m \in In(heap, b) : g[m] = heap[m]
    BY <1>2, <1>3, <1>5, <1>6 DEF In, Heaps
  <2> HIDE DEF g
  <2>2. /\ Ordered(heap, In(heap, b)) => Ordered(g, In(heap, b))
        /\ \A first : Starts(heap, In(heap, b), first) => Starts(g, In(heap, b), first)
    BY <2>1, OrderedFrame
  <2> QED BY <2>1, <2>2 DEF Right
<1>7. g \in Heaps /\ node' \in Pointers
  BY <1>1, <1>2, <1>3, NodeType DEF Heaps
<1> HIDE DEF g, M
<1>8. Destroying'
  <2>1. \A b \in Buckets : /\ b < i' => In(heap', b) = {}
                           /\ i' < b => Right(heap', lists'[b], In(heap', b))
    BY <1>1, <1>2, <1>6 DEF Buckets
  <2>2. Forward(heap', In(heap', i')) /\ Starts(heap', In(heap', i'), node') /\ i' \in Buckets
    BY <1>1, <1>2, <1>4, <1>5
  <2> QED BY <2>1, <2>2 DEF Destroying
<1>9. TypeInvariant'
  BY <1>1, <1>7 DEF Inv, TypeInvariant
<1>10. Placement' /\ ListsRight' /\ Walking'
  BY <1>1, <1>2 DEF Inv, Placement, ListsRight, Walking
<1> QED BY <1>8, <1>9, <1>10 DEF Inv

\* All buckets are empty, and so is the memory.
LEMMA EndDestroyStep ==
  ASSUME Inv, EndDestroy
  PROVE  Inv'
<1>1. /\ pc = "destroy" /\ node = Null /\ i + 1 = N
      /\ lists' = NoTable /\ pc' = "idle" /\ i' = 0 /\ UNCHANGED <<heap, call, node, ret>>
  BY DEF EndDestroy
<1>2. /\ heap \in Heaps /\ i \in Buckets /\ Starts(heap, In(heap, i), Null)
      /\ \A b \in Buckets : b < i => In(heap, b) = {}
  BY <1>1 DEF Inv, TypeInvariant, Destroying
<1>3. In(heap, i) = {}
  BY <1>2, InType DEF Starts
<1>4. \A b \in Buckets : In(heap, b) = {}
  BY <1>1, <1>2, <1>3 DEF Buckets
<1>5. ASSUME NEW n \in Nodes PROVE heap[n] = Free
  <2> SUFFICES ASSUME heap[n] # Free PROVE FALSE
    OBVIOUS
  <2>1. heap[n].key \in Keys
    BY <1>2 DEF Heaps, node_t
  <2>2. hash_code(heap[n].key) \in Buckets
    BY <2>1, HashType
  <2>3. n \in In(heap, hash_code(heap[n].key))
    BY DEF In
  <2> QED BY <1>4, <2>2, <2>3
<1>6. TypeInvariant' /\ Placement'
  BY <1>1, <1>5 DEF Inv, TypeInvariant, Placement
<1>7. ListsRight' /\ Walking' /\ Destroying'
  BY <1>1 DEF ListsRight, Walking, Destroying
<1> QED BY <1>6, <1>7 DEF Inv

LEMMA Stutter ==
  ASSUME Inv, UNCHANGED vars
  PROVE  Inv'
BY DEF Inv, vars, TypeInvariant, Placement, ListsRight, Walking, Destroying, Bucket

LEMMA InvInit == Init => Inv
<1> SUFFICES ASSUME Init PROVE Inv
  OBVIOUS
<1>1. TypeInvariant /\ Placement
  BY DEF Init, TypeInvariant, Placement, Heaps, Pointers
<1>2. ListsRight /\ Walking /\ Destroying
  BY DEF Init, ListsRight, Walking, Destroying
<1> QED BY <1>1, <1>2 DEF Inv

LEMMA InvNext == Inv /\ [Next]_vars => Inv'
<1> SUFFICES ASSUME Inv, [Next]_vars PROVE Inv'
  OBVIOUS
<1>1. CASE table_create \/ Begin \/ Return
  BY <1>1, BeginSteps
<1>2. CASE StartWalk
  BY <1>2, StartWalkStep
<1>3. CASE Advance
  BY <1>3, AdvanceStep
<1>4. CASE table_put
  BY <1>4, PutFailsStep, AddFirstStep, AddBeforeStep, AddInsteadStep, AddLastStep DEF table_put
<1>5. CASE Missing \/ table_get \/ table_size \/ table_get_keys
  BY <1>5, ReadSteps
<1>6. CASE table_remove
  BY <1>6, RemoveStep
<1>7. CASE table_destroy \/ NextBucket
  BY <1>7, DestroySteps
<1>8. CASE FreeNode
  BY <1>8, FreeNodeStep
<1>9. CASE EndDestroy
  BY <1>9, EndDestroyStep
<1>10. CASE UNCHANGED vars
  BY <1>10, Stutter
<1> QED BY <1>1, <1>2, <1>3, <1>4, <1>5, <1>6, <1>7, <1>8, <1>9, <1>10 DEF Next

LEMMA Invariant == Spec => []Inv
BY InvInit, InvNext, PTL DEF Spec

------------------------------------------------------------------------------
(* The theorems.                                                            *)

\* Every variable has the type of what it stands for in the code.
THEOREM TypeCorrect == Spec => []TypeInvariant
<1>1. Inv => TypeInvariant
  BY DEF Inv
<1> QED BY <1>1, Invariant, PTL

\* The lists of table.c are sorted, linked in both directions and counted
\* after any sequence of puts, replacements and removals (list.c:92-148,
\* 166-177), however many buckets, keys and nodes there are.
THEOREM Sorted == Spec => []SortedLists
<1>1. ASSUME Inv, lists # NoTable, pc # "destroy", NEW b \in Buckets
      PROVE  IF lists[b] = NoList THEN Members(b) = {}
             ELSE /\ lists[b].size = Cardinality(Members(b))
                  /\ IF Members(b) = {} THEN lists[b].head = Null
                     ELSE /\ lists[b].head \in Members(b)
                          /\ heap[lists[b].head].previous = Null
                  /\ \A n \in Members(b) :
                        /\ heap[n].next = Null \/ /\ heap[n].next \in Members(b)
                                                  /\ Follows(b, n, heap[n].next)
                                                  /\ heap[heap[n].next].previous = n
                        /\ heap[n].previous = Null => n = lists[b].head
                        /\ heap[n].previous # Null =>
                              /\ heap[n].previous \in Members(b)
                              /\ heap[heap[n].previous].next = n
  <2> DEFINE M == Members(b)  l == lists[b]
  <2>1. M = In(heap, b) /\ heap \in Heaps
    BY <1>1 DEF Members, In, Inv, TypeInvariant
  <2>2. Right(heap, l, M)
    BY <1>1, <2>1 DEF Inv, ListsRight, AllRight
  <2>3. \A m \in M : heap[m].key \in Int
    BY <2>1, InType, NodeType
  <2>4. CASE l = NoList
    BY <2>2, <2>4 DEF Right
  <2>5. CASE l # NoList
    <3> HIDE DEF M, l
    <3>1. Ordered(heap, M) /\ l.size = Cardinality(M) /\ Starts(heap, M, l.head)
      BY <2>2, <2>5 DEF Right
    <3>2. IF M = {} THEN l.head = Null ELSE l.head \in M /\ heap[l.head].previous = Null
      BY <3>1, StartsSmallest DEF Starts
    <3>3. ASSUME NEW n \in M
          PROVE  /\ heap[n].next = Null \/ /\ heap[n].next \in M
                                           /\ Follows(b, n, heap[n].next)
                                           /\ heap[heap[n].next].previous = n
                 /\ heap[n].previous = Null => n = l.head
                 /\ heap[n].previous # Null => /\ heap[n].previous \in M
                                               /\ heap[heap[n].previous].next = n
      <4>1. heap[n].next # Null => heap[n].next \in M /\ heap[heap[n].next].previous = n
        BY <3>1, Neighbours
      <4>2. heap[n].previous # Null => heap[n].previous \in M /\ heap[heap[n].previous].next = n
        BY <3>1, Neighbours
      <4>3. heap[n].previous = Null => n = l.head
        BY <3>1, StartsSmallest
      <4>4. heap[n].next # Null => Adjacent(heap, M, n, heap[n].next)
        BY <3>1 DEF Ordered, Forward, NextRight
      <4>5. heap[n].next # Null => Follows(b, n, heap[n].next)
        BY <2>3, <3>3, <4>1, <4>4 DEF Adjacent, Follows, M
      <4> QED BY <4>1, <4>2, <4>3, <4>5
    <3> QED BY <2>5, <3>1, <3>2, <3>3 DEF M, l
  <2> QED BY <2>4, <2>5
<1>2. Inv => SortedLists
  BY <1>1 DEF SortedLists
<1> QED BY <1>2, Invariant, PTL

\* No loop of list.c is ended by its counter, nor reads a freed node
\* (list.c:87, 284).
THEOREM Loops == Spec => []LoopInBounds
<1>1. ASSUME Inv, pc = "walk" PROVE LoopInBounds
  <2>1. Members(Bucket) = In(heap, Bucket)
    BY DEF Members, In
  <2>2. /\ node \in In(heap, Bucket) /\ i < lists[Bucket].size
        /\ i = Cardinality(Smaller(heap, In(heap, Bucket), node))
    BY <1>1, InWalk DEF Inv, Walking
  <2> QED BY <2>1, <2>2 DEF LoopInBounds, Smaller
<1>2. Inv => LoopInBounds
  BY <1>1 DEF LoopInBounds
<1> QED BY <1>2, Invariant, PTL

\* table_destroy leaves no node allocated and frees none twice (table.h:17).
THEOREM Frees == Spec => []NothingLeaks
<1>1. ASSUME Inv PROVE NothingLeaks
  <2>1. lists = NoTable => \A n \in Nodes : heap[n] = Free
    BY <1>1 DEF Inv, Placement
  <2>2. ASSUME pc = "destroy", node # Null PROVE heap[node] # Free
    <3>1. node \in In(heap, i)
      BY <1>1, <2>2, InType DEF Inv, Destroying, Starts
    <3> QED BY <3>1 DEF In
  <2> QED BY <2>1, <2>2 DEF NothingLeaks
<1> QED BY <1>1, Invariant, PTL

------------------------------------------------------------------------------
(* The walk along a list.                                                   *)

NextOf(h, n) == IF n = Null THEN Null ELSE h[n].next

LEMMA WalkSteps ==
  ASSUME NEW h, NEW M, Ordered(h, M), NEW l, Starts(h, M, l.head)
  PROVE  /\ Walk(h, l)[0] = l.head
         /\ \A j \in Nat : Walk(h, l)[j + 1] = NextOf(h, Walk(h, l)[j])
<1> DEFINE S == M \cup {Null}
           step == [p \in Nat \X S |-> NextOf(h, p[2])]
           IsWalk(f) == f = [j \in Nat |-> IF j = 0 THEN l.head ELSE NextOf(h, f[j - 1])]
<1>1. l.head \in S
  BY DEF Starts
<1>2. \A n \in S : NextOf(h, n) \in S
  <2>1. \A n \in M : h[n].next # Null => h[n].next \in M
    BY Neighbours
  <2> QED BY <2>1 DEF NextOf
<1>3. step \in [Nat \X S -> S]
  BY <1>2
<1>4. \A j \in Nat, n \in S : step[<<j, n>>] = NextOf(h, n)
  OBVIOUS
<1> HIDE DEF step, S
<1>5. PICK f : Iterates(f, S, l.head, step)
  BY <1>1, <1>3, Iteration
<1>6. IsWalk(f)
  <2>1. f \in [Nat -> S] /\ f[0] = l.head
    BY <1>5 DEF Iterates
  <2>2. ASSUME NEW j \in Nat PROVE f[j + 1] = NextOf(h, f[j])
    BY <1>4, <1>5, <2>1 DEF Iterates
  <2>3. ASSUME NEW j \in Nat, j # 0 PROVE f[j] = NextOf(h, f[j - 1])
    <3>1. j - 1 \in Nat /\ (j - 1) + 1 = j
      BY <2>3
    <3> QED BY <2>2, <3>1
  <2> QED BY <2>1, <2>3
<1>7. Walk(h, l) = CHOOSE at : IsWalk(at)
  BY DEF Walk, NextOf
<1> HIDE DEF IsWalk
<1>8. IsWalk(Walk(h, l))
  BY <1>6, <1>7
<1>9. Walk(h, l) = [j \in Nat |-> IF j = 0 THEN l.head ELSE NextOf(h, Walk(h, l)[j - 1])]
  BY <1>8 DEF IsWalk
<1> HIDE DEF NextOf
<1>10. Walk(h, l)[0] = l.head
  BY <1>9
<1>11. ASSUME NEW j \in Nat PROVE Walk(h, l)[j + 1] = NextOf(h, Walk(h, l)[j])
  <2>1. j + 1 \in Nat /\ j + 1 # 0 /\ (j + 1) - 1 = j
    OBVIOUS
  <2> QED BY <1>9, <2>1
<1> QED BY <1>10, <1>11

\* Nodes with equally many smaller ones are the same.
LEMMA SmallerCount ==
  ASSUME NEW h, NEW M, Ordered(h, M), IsFiniteSet(M), NEW m \in M, NEW n \in M,
         Cardinality(Smaller(h, M, m)) = Cardinality(Smaller(h, M, n))
  PROVE  m = n
<1>1. Allocated(h, M) /\ Distinct(h, M)
  BY DEF Ordered, Forward
<1>2. \A q \in M : h[q].key \in Int
  BY <1>1, NodeType
<1>3. ASSUME NEW p \in M, NEW q \in M, h[p].key < h[q].key,
             Cardinality(Smaller(h, M, p)) = Cardinality(Smaller(h, M, q))
      PROVE  FALSE
  <2>1. Smaller(h, M, p) \subseteq Smaller(h, M, q)
    BY <1>2, <1>3 DEF Smaller
  <2>2. p \in Smaller(h, M, q) /\ p \notin Smaller(h, M, p)
    BY <1>2, <1>3 DEF Smaller
  <2>3. IsFiniteSet(Smaller(h, M, q))
    BY <1>1, SmallerType
  <2> QED BY <1>3, <2>1, <2>2, <2>3, FS_Subset
<1>4. h[m].key = h[n].key
  BY <1>2, <1>3
<1> QED BY <1>1, <1>4 DEF Distinct

\* The members of M, each at the number of those with smaller keys.
Meets(h, M, l) ==
    /\ \A j \in Nat : j < l.size => /\ Walk(h, l)[j] \in M
                                    /\ Cardinality(Smaller(h, M, Walk(h, l)[j])) = j
    /\ \A n \in M : \E j \in Nat : j < l.size /\ Walk(h, l)[j] = n

LEMMA WalkMeets ==
  ASSUME NEW h, NEW M, Ordered(h, M), IsFiniteSet(M),
         NEW l, l.size = Cardinality(M), Starts(h, M, l.head)
  PROVE  Meets(h, M, l)
<1> DEFINE w == Walk(h, l)
           P == {j \in Nat : j < l.size => /\ w[j] \in M
                                           /\ Cardinality(Smaller(h, M, w[j])) = j}
<1>1. w[0] = l.head /\ \A j \in Nat : w[j + 1] = NextOf(h, w[j])
  BY WalkSteps
<1>2. Allocated(h, M) /\ Distinct(h, M) /\ \A n \in M : NextRight(h, M, n)
  BY DEF Ordered, Forward
<1>3. l.size \in Nat /\ (l.size = 0 <=> M = {})
  BY FS_CardinalityType, FS_EmptySet
<1> HIDE DEF w
<1>4. 0 \in P
  <2> SUFFICES ASSUME 0 < l.size PROVE w[0] \in M /\ Cardinality(Smaller(h, M, w[0])) = 0
    OBVIOUS
  <2>1. l.head \in M /\ Smallest(h, M, l.head)
    BY <1>3 DEF Starts
  <2> QED BY <1>1, <1>2, <2>1, SmallerType
<1>5. ASSUME NEW j \in Nat, j \in P PROVE j + 1 \in P
  <2> SUFFICES ASSUME j + 1 < l.size
               PROVE  w[j + 1] \in M /\ Cardinality(Smaller(h, M, w[j + 1])) = j + 1
    OBVIOUS
  <2>1. w[j] \in M /\ Cardinality(Smaller(h, M, w[j])) = j
    BY <1>3, <1>5
  <2> DEFINE n == w[j]
  <2>2. h[n].next # Null
    <3> SUFFICES ASSUME h[n].next = Null PROVE FALSE
      OBVIOUS
    <3>1. Largest(h, M, n)
      BY <1>2, <2>1 DEF NextRight
    <3>2. \A m \in M : h[m].key \in Int
      BY <1>2, NodeType
    <3>3. \A m \in M \ {n} : h[m].key # h[n].key
      BY <1>2, <2>1 DEF Distinct
    <3>4. Smaller(h, M, n) = M \ {n}
      BY <2>1, <3>1, <3>2, <3>3 DEF Largest, Smaller
    <3>5. Cardinality(M \ {n}) = Cardinality(M) - 1
      BY <2>1, FS_RemoveElement
    <3> QED BY <1>3, <2>1, <3>4, <3>5
  <2>3. n # Null
    BY <1>2, <2>1, NodeType
  <2>4. w[j + 1] = h[n].next
    BY <1>1, <2>3 DEF NextOf
  <2> HIDE DEF n
  <2>5. n \in M /\ Cardinality(Smaller(h, M, n)) = j
    BY <2>1 DEF n
  <2> QED BY <2>2, <2>4, <2>5, SmallerNext
<1> HIDE DEF P
<1>6. Nat \subseteq P
  BY <1>4, <1>5, AllNumbers
<1>7. \A j \in Nat : j < l.size => w[j] \in M /\ Cardinality(Smaller(h, M, w[j])) = j
  BY <1>6 DEF P
<1>8. ASSUME NEW n \in M PROVE \E j \in Nat : j < l.size /\ w[j] = n
  <2> DEFINE j == Cardinality(Smaller(h, M, n))
  <2>1. j \in Nat /\ j < l.size
    BY <1>2, SmallerType
  <2>2. w[j] \in M /\ Cardinality(Smaller(h, M, w[j])) = j
    BY <1>7, <2>1
  <2>3. w[j] = n
    BY <2>2, SmallerCount
  <2> QED BY <2>1, <2>3
<1> QED BY <1>7, <1>8 DEF Meets, w

------------------------------------------------------------------------------
(* What the heap holds.                                                     *)

\* The nodes with key k.
With(h, k) == {n \in Nodes : h[n] # Free /\ h[n].key = k}

Stored(h, k) == IF With(h, k) = {} THEN NoValue ELSE h[CHOOSE n \in With(h, k) : TRUE].value

FoundIn(h, ls, k) ==
    LET b == hash_code(k)
        at(j) == h[Walk(h, ls[b])[j]]
        places == IF ls[b] = NoList THEN {}
                  ELSE {j \in 0..(ls[b].size - 1) : at(j).key = k}
    IN  IF places = {} THEN NoValue ELSE at(CHOOSE j \in places : TRUE).value

\* A key has one node.
LEMMA WithOne ==
  ASSUME NEW h \in Heaps, NEW ls, AllRight(h, ls), NEW k \in Keys
  PROVE  /\ With(h, k) \subseteq In(h, hash_code(k))
         /\ \A m, n \in With(h, k) : m = n
         /\ \A n \in With(h, k) : Stored(h, k) = h[n].value /\ h[n].value \in Values
<1>1. With(h, k) \subseteq In(h, hash_code(k))
  BY DEF With, In
<1>2. Distinct(h, In(h, hash_code(k))) /\ Allocated(h, In(h, hash_code(k)))
  BY HashType DEF AllRight, Right, Ordered, Forward
<1>3. \A m, n \in With(h, k) : m = n
  <2>1. \A n \in With(h, k) : h[n].key = k
    BY DEF With
  <2> QED BY <1>1, <1>2, <2>1 DEF Distinct
<1>4. \A n \in With(h, k) : h[n].value \in Values
  BY <1>1, <1>2, NodeType
<1> QED BY <1>1, <1>3, <1>4 DEF Stored

LEMMA FoundStored ==
  ASSUME NEW h \in Heaps, NEW ls, AllRight(h, ls), NEW k \in Keys
  PROVE  FoundIn(h, ls, k) = Stored(h, k)
<1> DEFINE b == hash_code(k)  l == ls[b]  M == In(h, b)  at(j) == h[Walk(h, l)[j]]
           places == IF l = NoList THEN {} ELSE {j \in 0..(l.size - 1) : at(j).key = k}
           found == IF places = {} THEN NoValue ELSE at(CHOOSE j \in places : TRUE).value
<1>1. FoundIn(h, ls, k) = found
  BY DEF FoundIn
<1>2. Right(h, l, M) /\ IsFiniteSet(M) /\ Cardinality(M) \in Nat /\ Allocated(h, M)
  BY HashType, InType DEF AllRight
<1>3. \A n \in M : n \in Nodes /\ h[n] # Free
  BY <1>2, NodeType
<1>4. With(h, k) \subseteq M
  BY DEF With, In
<1> HIDE DEF M, b, l
<1>5. CASE l = NoList
  <2>1. places = {} /\ With(h, k) = {}
    BY <1>2, <1>4, <1>5 DEF Right
  <2> QED BY <1>1, <2>1 DEF Stored
<1>6. CASE l # NoList
  <2>1. l.size \in Nat /\ Meets(h, M, l)
    BY <1>2, <1>6, WalkMeets DEF Right
  <2>2. ASSUME NEW j \in places PROVE Walk(h, l)[j] \in With(h, k)
    <3>1. j \in Nat /\ j < l.size /\ at(j).key = k
      BY <1>6, <2>1
    <3> QED BY <1>3, <2>1, <3>1 DEF Meets, With
  <2>3. ASSUME NEW n \in With(h, k) PROVE \E j \in places : Walk(h, l)[j] = n
    <3>1. PICK j \in Nat : j < l.size /\ Walk(h, l)[j] = n
      BY <1>4, <2>1 DEF Meets
    <3>2. j \in 0..(l.size - 1)
      BY <2>1, <3>1
    <3> QED BY <1>6, <3>1, <3>2 DEF With
  <2> HIDE DEF places
  <2>4. CASE places = {}
    <3>1. With(h, k) = {}
      BY <2>3, <2>4
    <3> QED BY <1>1, <2>4, <3>1 DEF Stored
  <2>5. CASE places # {}
    <3> DEFINE j == CHOOSE x \in places : TRUE
    <3>1. j \in places
      BY <2>5
    <3>2. found = h[Walk(h, l)[j]].value
      BY <2>5
    <3> HIDE DEF j, found
    <3>3. Walk(h, l)[j] \in With(h, k)
      BY <2>2, <3>1
    <3>4. h[Walk(h, l)[j]].value = Stored(h, k)
      BY <3>3, WithOne
    <3> QED BY <1>1, <3>2, <3>4
  <2> QED BY <2>4, <2>5
<1> QED BY <1>5, <1>6

USE NoneAssumption

------------------------------------------------------------------------------
(* What the three changes of a list do to what the heap holds.              *)

\* The nodes outside X keep their entries.
SameEntries(h, g, X) ==
    \A n \in Nodes \ X : /\ g[n] = Free <=> h[n] = Free
                         /\ h[n] # Free => g[n].key = h[n].key /\ g[n].value = h[n].value

\* A node comes, with key k and value v: the only one with that key.
Added(h, g, new, k, v) == /\ h[new] = Free /\ g[new] # Free /\ g[new].key = k /\ g[new].value = v
                          /\ SameEntries(h, g, {new})

LEMMA PlaceEntries ==
  ASSUME NEW h \in Heaps, NEW M, M \subseteq Nodes, Allocated(h, M), NEW new \in FreeNodes(h),
         NEW k \in Keys, NEW v \in Values,
         NEW p \in M \cup {Null}, NEW n \in M \cup {Null}, p # Null => p # n
  PROVE  Added(h, Place(h, new, k, v, p, n), new, k, v)
<1> DEFINE g == Place(h, new, k, v, p, n)
<1>1. p # new /\ n # new /\ new # Null /\ new \in Nodes /\ h[new] = Free
  BY DEF FreeNodes, Allocated
<1>2. g[new] = [key |-> k, value |-> v, next |-> n, previous |-> p]
  BY <1>1 DEF Place
<1>3. g[new] \in node_t
  <2>1. p \in Pointers /\ n \in Pointers
    BY DEF Pointers
  <2> QED BY <1>2, <2>1 DEF node_t
<1>4. g[new] # Free /\ g[new].key = k /\ g[new].value = v
  BY <1>2, <1>3
<1>5. ASSUME NEW m \in Nodes, m # new
      PROVE  /\ g[m] = Free <=> h[m] = Free
             /\ h[m] # Free => g[m].key = h[m].key /\ g[m].value = h[m].value
  <2>1. CASE m # p /\ m # n
    BY <1>5, <2>1 DEF Place
  <2>2. CASE m = p
    <3>1. m \in M /\ h[m] \in node_t /\ new \in Pointers
      BY <1>1, <2>2 DEF Allocated, Pointers
    <3>2. g[m] = [h[m] EXCEPT !.next = new]
      BY <1>1, <1>5, <2>2 DEF Place
    <3> HIDE DEF g
    <3>3. g[m] \in node_t /\ g[m].key = h[m].key /\ g[m].value = h[m].value
      BY <3>1, <3>2 DEF node_t
    <3> QED BY <3>1, <3>3
  <2>3. CASE m # p /\ m = n
    <3>1. m \in M /\ h[m] \in node_t /\ new \in Pointers
      BY <1>1, <2>3 DEF Allocated, Pointers
    <3>2. g[m] = [h[m] EXCEPT !.previous = new]
      BY <1>5, <2>3 DEF Place
    <3> HIDE DEF g
    <3>3. g[m] \in node_t /\ g[m].key = h[m].key /\ g[m].value = h[m].value
      BY <3>1, <3>2 DEF node_t
    <3> QED BY <3>1, <3>3
  <2> QED BY <2>1, <2>2, <2>3
<1> HIDE DEF g
<1>6. SameEntries(h, g, {new})
  BY <1>5 DEF SameEntries
<1> QED BY <1>1, <1>4, <1>6 DEF Added, g

\* The neighbours of a node differ.
LEMMA NeighboursDiffer ==
  ASSUME NEW h, NEW M, Ordered(h, M), NEW n \in M, h[n].previous # Null
  PROVE  h[n].previous # h[n].next
<1>1. Allocated(h, M) /\ NextRight(h, M, n) /\ PreviousRight(h, M, n)
  BY DEF Ordered, Forward
<1>2. h[n].previous \in M /\ h[h[n].previous].key < h[n].key
  BY <1>1 DEF PreviousRight, Adjacent
<1>3. h[n].next # Null => h[n].key < h[h[n].next].key
  BY <1>1 DEF NextRight, Adjacent
<1>4. h[n].key \in Int /\ h[h[n].previous].key \in Int
  BY <1>1, <1>2, NodeType
<1> QED BY <1>2, <1>3, <1>4

LEMMA UnlinkEntries ==
  ASSUME NEW h \in Heaps, NEW M, M \subseteq Nodes, Ordered(h, M), NEW n \in M
  PROVE  SameEntries(h, Unlink(h, n), {n}) /\ Unlink(h, n)[n] = Free
<1> DEFINE g == Unlink(h, n)  p == h[n].previous  q == h[n].next
<1>1. /\ Allocated(h, M) /\ p \in M \cup {Null} /\ q \in M \cup {Null}
      /\ p \in Pointers /\ q \in Pointers /\ (p # Null => p # q)
  <2>1. Allocated(h, M)
    BY DEF Ordered, Forward
  <2> QED BY <2>1, NodeType, Neighbours, NeighboursDiffer
<1>2. g[n] = Free
  BY UnlinkKeys
<1>3. ASSUME NEW m \in Nodes, m # n
      PROVE  /\ g[m] = Free <=> h[m] = Free
             /\ h[m] # Free => g[m].key = h[m].key /\ g[m].value = h[m].value
  <2>1. CASE m # p /\ m # q
    BY <1>3, <2>1 DEF Unlink
  <2>2. CASE m = p
    <3>1. m \in M /\ h[m] \in node_t
      BY <1>1, <2>2 DEF Allocated
    <3>2. g[m] = [h[m] EXCEPT !.next = q]
      BY <1>1, <1>3, <2>2 DEF Unlink
    <3> HIDE DEF g, q
    <3>3. g[m] \in node_t /\ g[m].key = h[m].key /\ g[m].value = h[m].value
      BY <1>1, <3>1, <3>2 DEF node_t
    <3> QED BY <3>1, <3>3
  <2>3. CASE m # p /\ m = q
    <3>1. m \in M /\ h[m] \in node_t
      BY <1>1, <2>3 DEF Allocated
    <3>2. g[m] = [h[m] EXCEPT !.previous = p]
      BY <1>3, <2>3 DEF Unlink
    <3> HIDE DEF g, p
    <3>3. g[m] \in node_t /\ g[m].key = h[m].key /\ g[m].value = h[m].value
      BY <1>1, <3>1, <3>2 DEF node_t
    <3> QED BY <3>1, <3>3
  <2> QED BY <2>1, <2>2, <2>3
<1> HIDE DEF g
<1>4. SameEntries(h, g, {n})
  BY <1>3 DEF SameEntries
<1> QED BY <1>2, <1>4 DEF g

\* A node with key k goes, and another comes with key k and value v.
Swapped(h, g, n, new, k, v) == /\ g[n] = Free
                               /\ g[new] # Free /\ g[new].key = k /\ g[new].value = v
                               /\ SameEntries(h, g, {n, new})

LEMMA SubstituteEntries ==
  ASSUME NEW h \in Heaps, NEW M, M \subseteq Nodes, Ordered(h, M), NEW n \in M,
         NEW new \in FreeNodes(h), NEW k \in Keys, NEW v \in Values
  PROVE  Swapped(h, Substitute(h, new, k, v, n), n, new, k, v)
<1> DEFINE g == Substitute(h, new, k, v, n)  p == h[n].previous  q == h[n].next
           w == Place(h, new, k, v, p, q)
<1>1. Allocated(h, M) /\ p \in M \cup {Null} /\ q \in M \cup {Null} /\ (p # Null => p # q)
  <2>1. Allocated(h, M)
    BY DEF Ordered, Forward
  <2> QED BY <2>1, Neighbours, NeighboursDiffer
<1> HIDE DEF p, q
<1>2. Added(h, w, new, k, v)
  BY <1>1, PlaceEntries
<1>3. g = [w EXCEPT ![n] = Free] /\ w = [m \in Nodes |-> w[m]]
  BY DEF Substitute, Place, p, q
<1> HIDE DEF g, w
<1>4. g[n] = Free /\ \A m \in Nodes : m # n => g[m] = w[m]
  BY <1>3
<1>5. SameEntries(h, g, {n, new})
  BY <1>2, <1>4 DEF Added, SameEntries
<1>6. n # new /\ new \in Nodes
  BY <1>1 DEF Allocated, FreeNodes
<1> QED BY <1>2, <1>4, <1>5, <1>6 DEF Added, Swapped, g

\* No node of X has a key other than k.
OnlyKey(h, g, X, k) == \A n \in X : (h[n] = Free \/ h[n].key = k) /\ (g[n] = Free \/ g[n].key = k)

\* The other keys keep their nodes and values.
LEMMA OtherKeys ==
  ASSUME NEW h, NEW g, NEW X, SameEntries(h, g, X), NEW k, OnlyKey(h, g, X, k)
  PROVE  \A c \in Keys : c # k => Stored(g, c) = Stored(h, c)
<1> SUFFICES ASSUME NEW c \in Keys, c # k PROVE Stored(g, c) = Stored(h, c)
  OBVIOUS
<1>1. \A n \in Nodes : n \in With(h, c) <=> n \in With(g, c)
  <2>1. \A n \in Nodes : n \in X => n \notin With(h, c) /\ n \notin With(g, c)
    BY DEF OnlyKey, With
  <2>2. \A n \in Nodes : n \notin X => (n \in With(h, c) <=> n \in With(g, c))
    BY DEF With, SameEntries
  <2> QED BY <2>1, <2>2
<1>2. With(h, c) = With(g, c) /\ \A n \in With(h, c) : n \in Nodes \ X /\ h[n] # Free
  <2>1. With(h, c) \subseteq Nodes /\ With(g, c) \subseteq Nodes
    BY DEF With
  <2>2. ASSUME NEW n \in With(h, c) PROVE n \in Nodes \ X /\ h[n] # Free
    BY DEF With, OnlyKey
  <2> QED BY <1>1, <2>1, <2>2
<1>3. \A n \in With(h, c) : g[n].value = h[n].value
  BY <1>2 DEF SameEntries
<1> DEFINE n == CHOOSE x \in With(h, c) : TRUE
<1>4. CASE With(h, c) = {}
  BY <1>2, <1>4 DEF Stored
<1>5. CASE With(h, c) # {}
  <2>1. n \in With(h, c)
    BY <1>5
  <2>2. Stored(h, c) = h[n].value /\ Stored(g, c) = g[n].value
    BY <1>2, <1>5 DEF Stored
  <2> QED BY <1>3, <2>1, <2>2
<1> QED BY <1>4, <1>5

\* What can be found on a heap.
Shown(h) == [k \in Keys |-> Stored(h, k)]

LEMMA ShownAdded ==
  ASSUME NEW h \in Heaps, NEW g \in Heaps, NEW ls, AllRight(g, ls),
         NEW new \in Nodes, NEW k \in Keys, NEW v, Added(h, g, new, k, v)
  PROVE  Shown(g) = [Shown(h) EXCEPT ![k] = v] /\ Stored(h, k) = NoValue
<1>1. new \in With(g, k)
  BY DEF Added, With
<1>2. Stored(g, k) = v
  BY <1>1, WithOne DEF Added
<1>3. With(h, k) = {}
  <2> SUFFICES ASSUME NEW n \in With(h, k) PROVE FALSE
    OBVIOUS
  <2>1. n # new /\ n \in With(g, k)
    BY DEF With, Added, SameEntries
  <2> QED BY <1>1, <2>1, WithOne
<1>4. \A c \in Keys : c # k => Stored(g, c) = Stored(h, c)
  <2>1. OnlyKey(h, g, {new}, k)
    BY DEF Added, OnlyKey
  <2> QED BY <2>1, OtherKeys DEF Added
<1>5. Stored(h, k) = NoValue
  BY <1>3 DEF Stored
<1> QED BY <1>2, <1>4, <1>5 DEF Shown

\* A node goes.
LEMMA ShownRemoved ==
  ASSUME NEW h \in Heaps, NEW g \in Heaps, NEW ls, AllRight(h, ls),
         NEW n \in Nodes, h[n] # Free, g[n] = Free, NEW k, k = h[n].key, SameEntries(h, g, {n})
  PROVE  Shown(g) = [Shown(h) EXCEPT ![k] = NoValue] /\ Stored(h, k) \in Values
<1>1. k \in Keys /\ n \in With(h, k)
  BY DEF Heaps, node_t, With
<1>2. Stored(h, k) \in Values
  BY <1>1, WithOne
<1>3. With(g, k) = {}
  <2> SUFFICES ASSUME NEW m \in With(g, k) PROVE FALSE
    OBVIOUS
  <2>1. m # n /\ m \in With(h, k)
    BY DEF With, SameEntries
  <2> QED BY <1>1, <2>1, WithOne
<1>4. \A c \in Keys : c # k => Stored(g, c) = Stored(h, c)
  <2>1. OnlyKey(h, g, {n}, k)
    BY DEF OnlyKey
  <2> QED BY <2>1, OtherKeys
<1>5. Stored(g, k) = NoValue
  BY <1>3 DEF Stored
<1> QED BY <1>1, <1>2, <1>4, <1>5 DEF Shown

\* A node takes the place of another with its key.
LEMMA ShownReplaced ==
  ASSUME NEW h \in Heaps, NEW g \in Heaps, NEW ls, AllRight(h, ls), NEW rs, AllRight(g, rs),
         NEW n \in Nodes, h[n] # Free, NEW k \in Keys, k = h[n].key, NEW v \in Values,
         NEW new \in Nodes, h[new] = Free, Swapped(h, g, n, new, k, v)
  PROVE  Shown(g) = [Shown(h) EXCEPT ![k] = v] /\ Stored(h, k) \in Values
<1>1. k \in Keys /\ n \in With(h, k) /\ new \in With(g, k)
  BY DEF Heaps, node_t, With, Swapped
<1>2. Stored(h, k) \in Values /\ Stored(g, k) = v
  BY <1>1, WithOne DEF Swapped
<1>3. \A c \in Keys : c # k => Stored(g, c) = Stored(h, c)
  <2>1. OnlyKey(h, g, {n, new}, k)
    BY DEF OnlyKey, Swapped
  <2> QED BY <2>1, OtherKeys DEF Swapped
<1> QED BY <1>1, <1>2, <1>3 DEF Shown

LEMMA DisjointCount ==
  ASSUME NEW X, NEW Y, IsFiniteSet(X), IsFiniteSet(Y), X \cap Y = {}
  PROVE  Cardinality(X \cup Y) = Cardinality(X) + Cardinality(Y)
<1>1. Cardinality(X \cap Y) = 0
  BY FS_EmptySet
<1>2. Cardinality(X \cup Y) = Cardinality(X) + Cardinality(Y) - Cardinality(X \cap Y)
  BY FS_Union
<1>3. Cardinality(X) \in Nat /\ Cardinality(Y) \in Nat
  BY FS_CardinalityType
<1> QED BY <1>1, <1>2, <1>3

------------------------------------------------------------------------------
(* The nodes of all buckets, counted and listed.                            *)

Taken(h) == {n \in Nodes : h[n] # Free}

\* The nodes of the first b buckets.
Before(h, b) == {n \in Nodes : h[n] # Free /\ hash_code(h[n].key) < b}

LEMMA BeforeNext ==
  ASSUME NEW h \in Heaps
  PROVE  /\ Before(h, 0) = {} /\ Before(h, N) = Taken(h)
         /\ \A b : IsFiniteSet(Before(h, b)) /\ Cardinality(Before(h, b)) \in Nat
         /\ \A b \in Nat : Before(h, b) \cap In(h, b) = {} /\ Before(h, b + 1) = Before(h, b) \cup In(h, b)
<1>1. \A n \in Nodes : h[n] # Free => hash_code(h[n].key) \in 0..N-1
  BY HashType DEF Heaps, node_t, Buckets
<1>2. Before(h, 0) = {} /\ Before(h, N) = Taken(h)
  BY <1>1 DEF Before, Taken
<1>3. \A b : IsFiniteSet(Before(h, b)) /\ Cardinality(Before(h, b)) \in Nat
  <2>1. \A b : Before(h, b) \in SUBSET Nodes
    BY DEF Before
  <2> QED BY <2>1, FS_Subset, FS_CardinalityType
<1>4. ASSUME NEW b \in Nat
      PROVE  Before(h, b) \cap In(h, b) = {} /\ Before(h, b + 1) = Before(h, b) \cup In(h, b)
  <2>1. \A n \in Nodes : h[n] # Free => (hash_code(h[n].key) < b + 1 <=>
                                          hash_code(h[n].key) < b \/ hash_code(h[n].key) = b)
    BY <1>1
  <2>2. \A n \in Nodes : h[n] # Free => ~ (hash_code(h[n].key) < b /\ hash_code(h[n].key) = b)
    BY <1>1
  <2> QED BY <2>1, <2>2 DEF Before, In
<1> QED BY <1>2, <1>3, <1>4

LEMMA SizeTaken ==
  ASSUME Inv, pc = "call"
  PROVE  SizeOf = Cardinality(Taken(heap))
<1> DEFINE count(b) == IF lists[b] = NoList THEN 0 ELSE lists[b].size
           step == [p \in Nat \X Nat |-> p[2] + IF p[1] \in Buckets THEN count(p[1]) ELSE 0]
           IsSize(f) == f = [b \in 0..N |-> IF b = 0 THEN 0
                                            ELSE f[b - 1] + IF lists[b - 1] = NoList THEN 0
                                                            ELSE lists[b - 1].size]
           IsTotal(f) == /\ f[0] = 0
                         /\ \A b \in Buckets : f[b + 1] = f[b] + count(b)
<1>1. heap \in Heaps /\ AllRight(heap, lists)
  BY InCall
<1>2. \A b \in Buckets : count(b) = Cardinality(In(heap, b)) /\ count(b) \in Nat
  <2> SUFFICES ASSUME NEW b \in Buckets PROVE count(b) = Cardinality(In(heap, b))
    BY <1>1, InType
  <2>1. Right(heap, lists[b], In(heap, b))
    BY <1>1 DEF AllRight
  <2> QED BY <2>1, FS_EmptySet DEF Right
<1>3. SizeOf = (CHOOSE size : IsSize(size))[N]
  BY DEF SizeOf
<1>4. \A f : IsSize(f) => IsTotal(f)
  <2> SUFFICES ASSUME NEW f, IsSize(f) PROVE IsTotal(f)
    OBVIOUS
  <2>1. f[0] = 0
    OBVIOUS
  <2>2. ASSUME NEW b \in Buckets PROVE f[b + 1] = f[b] + count(b)
    <3>1. b + 1 \in 0..N /\ b + 1 # 0 /\ (b + 1) - 1 = b
      BY DEF Buckets
    <3> QED BY <3>1
  <2> QED BY <2>1, <2>2
<1>5. PICK g : IsSize(g)
  <2>1. step \in [Nat \X Nat -> Nat]
    <3>1. ASSUME NEW p \in Nat \X Nat
          PROVE  p[2] + (IF p[1] \in Buckets THEN count(p[1]) ELSE 0) \in Nat
      <4> HIDE DEF count
      <4> QED BY <1>2
    <3> HIDE DEF count
    <3> QED BY <3>1
  <2>2. \A b \in Buckets, n \in Nat : step[<<b, n>>] = n + count(b)
    BY DEF Buckets
  <2> HIDE DEF step, count
  <2>3. PICK g : g \in Partial(Nat, 0, step, N)
    <3>1. \A n \in Nat : Partial(Nat, 0, step, n) # {}
      BY <2>1, PartialExists
    <3>2. Partial(Nat, 0, step, N) # {}
      BY <3>1
    <3> QED BY <3>2
  <2>4. g \in [0..N -> Nat] /\ g[0] = 0 /\ \A b \in 0..N : b # N => g[b + 1] = step[<<b, g[b]>>]
    BY <2>3 DEF Partial
  <2>5. ASSUME NEW b \in 0..N, b # 0 PROVE g[b] = g[b - 1] + count(b - 1)
    <3>1. b - 1 \in Buckets /\ b - 1 \in 0..N /\ b - 1 # N /\ (b - 1) + 1 = b
      BY <2>5 DEF Buckets
    <3> QED BY <2>2, <2>4, <3>1
  <2>6. IsSize(g)
    BY <2>4, <2>5 DEF count
  <2> QED BY <2>6
<1> HIDE DEF IsSize
<1> DEFINE f == CHOOSE size : IsSize(size)
<1>6. IsTotal(f)
  BY <1>4, <1>5
<1> HIDE DEF f
<1> DEFINE P == {b \in Nat : b <= N => f[b] = Cardinality(Before(heap, b))}
<1>7. 0 \in P
  BY <1>1, <1>6, BeforeNext, FS_EmptySet
<1>8. ASSUME NEW b \in Nat, b \in P PROVE b + 1 \in P
  <2> SUFFICES ASSUME b + 1 <= N PROVE f[b + 1] = Cardinality(Before(heap, b + 1))
    OBVIOUS
  <2>1. b \in Buckets /\ f[b] = Cardinality(Before(heap, b))
    BY <1>8 DEF Buckets
  <2>2. f[b + 1] = Cardinality(Before(heap, b)) + Cardinality(In(heap, b))
    BY <1>2, <1>6, <2>1
  <2>3. /\ IsFiniteSet(Before(heap, b)) /\ IsFiniteSet(In(heap, b))
        /\ Before(heap, b) \cap In(heap, b) = {} /\ Before(heap, b + 1) = Before(heap, b) \cup In(heap, b)
        /\ Cardinality(Before(heap, b)) \in Nat /\ Cardinality(In(heap, b)) \in Nat
    BY <1>1, BeforeNext, InType
  <2>4. Cardinality(Before(heap, b + 1)) = Cardinality(Before(heap, b)) + Cardinality(In(heap, b))
    BY <2>3, DisjointCount
  <2> QED BY <2>2, <2>4
<1> HIDE DEF P, IsTotal
<1>9. N \in P
  BY <1>7, <1>8, AllNumbers
<1> QED BY <1>1, <1>3, <1>9, BeforeNext DEF P, f

\* s lists the keys of the nodes of X, each once.
Lists(h, s, X) == /\ s \in Seq(Keys) /\ Len(s) = Cardinality(X)
                  /\ \A j \in 1..Len(s) : \E n \in X : s[j] = h[n].key
                  /\ \A n \in X : \E j \in 1..Len(s) : s[j] = h[n].key

LEMMA ListsConcat ==
  ASSUME NEW h, NEW X, NEW Y, IsFiniteSet(X), IsFiniteSet(Y), X \cap Y = {},
         NEW s, Lists(h, s, X), NEW t, Lists(h, t, Y)
  PROVE  Lists(h, s \o t, X \cup Y)
<1> DEFINE u == s \o t
<1>1. s \in Seq(Keys) /\ t \in Seq(Keys) /\ Len(s) = Cardinality(X) /\ Len(t) = Cardinality(Y)
      /\ Len(s) \in Nat /\ Len(t) \in Nat
  BY LenProperties DEF Lists
<1>2. /\ u \in Seq(Keys) /\ Len(u) = Len(s) + Len(t)
      /\ \A j \in 1..(Len(s) + Len(t)) : u[j] = IF j <= Len(s) THEN s[j] ELSE t[j - Len(s)]
  BY <1>1, ConcatProperties
<1>3. Len(u) = Cardinality(X \cup Y)
  BY <1>1, <1>2, DisjointCount
<1> HIDE DEF u
<1>4. ASSUME NEW j \in 1..Len(u) PROVE \E n \in X \cup Y : u[j] = h[n].key
  <2>1. CASE j <= Len(s)
    <3>1. j \in 1..Len(s) /\ u[j] = s[j]
      BY <1>1, <1>2, <2>1
    <3>2. \A x \in 1..Len(s) : \E n \in X : s[x] = h[n].key
      BY DEF Lists
    <3> QED BY <3>1, <3>2
  <2>2. CASE ~ (j <= Len(s))
    <3>1. j - Len(s) \in 1..Len(t) /\ u[j] = t[j - Len(s)]
      BY <1>1, <1>2, <2>2
    <3>2. \A x \in 1..Len(t) : \E n \in Y : t[x] = h[n].key
      BY DEF Lists
    <3> QED BY <3>1, <3>2
  <2> QED BY <2>1, <2>2
<1>5. ASSUME NEW n \in X \cup Y PROVE \E j \in 1..Len(u) : u[j] = h[n].key
  <2>1. CASE n \in X
    <3>1. PICK j \in 1..Len(s) : s[j] = h[n].key
      BY <2>1 DEF Lists
    <3>2. j \in 1..Len(u) /\ u[j] = s[j]
      BY <1>1, <1>2
    <3> QED BY <3>1, <3>2
  <2>2. CASE n \in Y
    <3>1. PICK j \in 1..Len(t) : t[j] = h[n].key
      BY <2>2 DEF Lists
    <3>2. j + Len(s) \in 1..Len(u) /\ u[j + Len(s)] = t[j]
      <4>1. /\ j + Len(s) \in 1..(Len(s) + Len(t)) /\ ~ (j + Len(s) <= Len(s))
            /\ (j + Len(s)) - Len(s) = j
        BY <1>1
      <4> QED BY <1>2, <4>1
    <3> QED BY <3>1, <3>2
  <2> QED BY <2>1, <2>2
<1> QED BY <1>2, <1>3, <1>4, <1>5 DEF Lists, u

\* list_get_keys returns the keys of the nodes of its list.
LEMMA ListsBucket ==
  ASSUME NEW h \in Heaps, NEW b \in Buckets, NEW l, Right(h, l, In(h, b)), l # NoList
  PROVE  Lists(h, list_get_keys(h, l), In(h, b))
<1> DEFINE M == In(h, b)  s == list_get_keys(h, l)
<1>1. Allocated(h, M) /\ IsFiniteSet(M) /\ Cardinality(M) \in Nat
  BY InType
<1>2. l.size = Cardinality(M) /\ Ordered(h, M) /\ Starts(h, M, l.head)
  BY DEF Right
<1> HIDE DEF M
<1>3. Meets(h, M, l)
  BY <1>1, <1>2, WalkMeets
<1>4. \A j \in 1..l.size : Walk(h, l)[j - 1] \in M
  BY <1>1, <1>2, <1>3 DEF Meets
<1>5. \A n \in M : h[n].key \in Keys
  BY <1>1, NodeType
<1>6. s = [j \in 1..l.size |-> h[Walk(h, l)[j - 1]].key]
  BY DEF list_get_keys
<1> HIDE DEF s
<1>7. s \in [1..l.size -> Keys]
  BY <1>4, <1>5, <1>6
<1>8. s \in Seq(Keys) /\ Len(s) = l.size
  <2>1. l.size \in Nat
    BY <1>1, <1>2
  <2> QED BY <1>7, <2>1, SeqDef
<1>9. ASSUME NEW j \in 1..Len(s) PROVE \E n \in M : s[j] = h[n].key
  BY <1>4, <1>6, <1>8
<1>10. ASSUME NEW n \in M PROVE \E j \in 1..Len(s) : s[j] = h[n].key
  <2>1. PICK j \in Nat : j < l.size /\ Walk(h, l)[j] = n
    BY <1>3 DEF Meets
  <2>2. j + 1 \in 1..l.size /\ (j + 1) - 1 = j
    BY <1>1, <1>2, <2>1
  <2> QED BY <1>6, <1>8, <2>1, <2>2
<1> QED BY <1>2, <1>8, <1>9, <1>10 DEF Lists, M, s

LEMMA KeysListed ==
  ASSUME Inv, pc = "call"
  PROVE  Lists(heap, KeysOf, Taken(heap))
<1> DEFINE part(b) == IF lists[b] = NoList THEN <<>> ELSE list_get_keys(heap, lists[b])
           S == Seq(Keys)
           step == [p \in Nat \X S |-> p[2] \o IF p[1] \in Buckets THEN part(p[1]) ELSE <<>>]
           IsKeys(f) == f = [b \in 0..N |-> IF b = 0 THEN <<>>
                                            ELSE f[b - 1] \o IF lists[b - 1] = NoList THEN <<>>
                                                             ELSE list_get_keys(heap, lists[b - 1])]
           IsJoined(f) == /\ f[0] = <<>>
                          /\ \A b \in Buckets : f[b + 1] = f[b] \o part(b)
<1>1. heap \in Heaps /\ AllRight(heap, lists)
  BY InCall
<1>2. \A b \in Buckets : Lists(heap, part(b), In(heap, b)) /\ part(b) \in S
  <2> SUFFICES ASSUME NEW b \in Buckets PROVE Lists(heap, part(b), In(heap, b))
    BY DEF Lists
  <2>1. Right(heap, lists[b], In(heap, b))
    BY <1>1 DEF AllRight
  <2>2. CASE lists[b] = NoList
    <3>1. In(heap, b) = {} /\ part(b) = <<>>
      BY <2>1, <2>2 DEF Right
    <3> HIDE DEF part
    <3>2. Lists(heap, <<>>, {})
      BY EmptySeq, FS_EmptySet DEF Lists
    <3> QED BY <3>1, <3>2
  <2>3. CASE lists[b] # NoList
    <3>1. Lists(heap, list_get_keys(heap, lists[b]), In(heap, b))
      BY <1>1, <2>1, <2>3, ListsBucket
    <3> QED BY <2>3, <3>1
  <2> QED BY <2>2, <2>3
<1>3. KeysOf = (CHOOSE keys : IsKeys(keys))[N]
  BY DEF KeysOf
<1>4. \A f : IsKeys(f) => IsJoined(f)
  <2> SUFFICES ASSUME NEW f, IsKeys(f) PROVE IsJoined(f)
    OBVIOUS
  <2>1. f[0] = <<>>
    OBVIOUS
  <2>2. ASSUME NEW b \in Buckets PROVE f[b + 1] = f[b] \o part(b)
    <3>1. b + 1 \in 0..N /\ b + 1 # 0 /\ (b + 1) - 1 = b
      BY DEF Buckets
    <3> QED BY <3>1
  <2> QED BY <2>1, <2>2
<1>5. PICK g : IsKeys(g)
  <2>1. step \in [Nat \X S -> S]
    <3>1. ASSUME NEW p \in Nat \X S
          PROVE  p[2] \o (IF p[1] \in Buckets THEN part(p[1]) ELSE <<>>) \in S
      <4> DEFINE t == IF p[1] \in Buckets THEN part(p[1]) ELSE <<>>
      <4>1. p[2] \in Seq(Keys)
        OBVIOUS
      <4>2. t \in Seq(Keys)
        <5> HIDE DEF part
        <5> QED BY <1>2, EmptySeq
      <4> HIDE DEF t
      <4>3. p[2] \o t \in Seq(Keys)
        BY <4>1, <4>2, ConcatProperties
      <4> QED BY <4>3 DEF t
    <3> HIDE DEF part, S
    <3> QED BY <3>1
  <2>2. \A b \in Buckets, s \in S : step[<<b, s>>] = s \o part(b)
    <3> HIDE DEF part
    <3>1. \A b \in Buckets, s \in S : <<b, s>> \in Nat \X S
      BY DEF Buckets
    <3> QED BY <3>1
  <2>3. <<>> \in S
    BY EmptySeq
  <2> HIDE DEF step, part, S
  <2>4. PICK g : g \in Partial(S, <<>>, step, N)
    <3>1. \A n \in Nat : Partial(S, <<>>, step, n) # {}
      BY <2>1, <2>3, PartialExists
    <3>2. Partial(S, <<>>, step, N) # {}
      BY <3>1
    <3> QED BY <3>2
  <2>5. g \in [0..N -> S] /\ g[0] = <<>> /\ \A b \in 0..N : b # N => g[b + 1] = step[<<b, g[b]>>]
    BY <2>4 DEF Partial
  <2>6. ASSUME NEW b \in 0..N, b # 0 PROVE g[b] = g[b - 1] \o part(b - 1)
    <3>1. b - 1 \in Buckets /\ b - 1 \in 0..N /\ b - 1 # N /\ (b - 1) + 1 = b
      BY <2>6 DEF Buckets
    <3>2. g[b] = step[<<b - 1, g[b - 1]>>] /\ g[b - 1] \in S
      BY <2>5, <3>1
    <3> QED BY <2>2, <3>1, <3>2
  <2>7. IsKeys(g)
    BY <2>5, <2>6 DEF part
  <2> QED BY <2>7
<1> HIDE DEF IsKeys
<1> DEFINE f == CHOOSE keys : IsKeys(keys)
<1>6. IsJoined(f)
  BY <1>4, <1>5
<1> HIDE DEF f, part
<1> DEFINE P == {b \in Nat : b <= N => Lists(heap, f[b], Before(heap, b))}
<1>7. 0 \in P
  <2>1. Lists(heap, <<>>, {})
    BY EmptySeq, FS_EmptySet DEF Lists
  <2>2. f[0] = <<>> /\ Before(heap, 0) = {}
    BY <1>1, <1>6, BeforeNext
  <2> QED BY <2>1, <2>2
<1>8. ASSUME NEW b \in Nat, b \in P PROVE b + 1 \in P
  <2> SUFFICES ASSUME b + 1 <= N PROVE Lists(heap, f[b + 1], Before(heap, b + 1))
    OBVIOUS
  <2>1. b \in Buckets /\ Lists(heap, f[b], Before(heap, b))
    BY <1>8 DEF Buckets
  <2>2. f[b + 1] = f[b] \o part(b)
    BY <1>6, <2>1
  <2>3. Lists(heap, part(b), In(heap, b))
    BY <1>2, <2>1
  <2>4. /\ IsFiniteSet(Before(heap, b)) /\ IsFiniteSet(In(heap, b))
        /\ Before(heap, b) \cap In(heap, b) = {} /\ Before(heap, b + 1) = Before(heap, b) \cup In(heap, b)
    BY <1>1, BeforeNext, InType
  <2>5. Lists(heap, f[b] \o part(b), Before(heap, b) \cup In(heap, b))
    BY <2>1, <2>3, <2>4, ListsConcat
  <2> QED BY <2>2, <2>4, <2>5
<1> HIDE DEF P, IsJoined
<1>9. N \in P
  BY <1>7, <1>8, AllNumbers
<1> QED BY <1>1, <1>3, <1>9, BeforeNext DEF P, f

\* The keys a table t holds.
HeldBy(t) == {k \in Keys : t[k] # NoValue}

\* The keys held are those of the nodes, as many as there are nodes.
LEMMA HeldTaken ==
  ASSUME NEW h \in Heaps, NEW ls, AllRight(h, ls)
  PROVE  /\ \A k : k \in HeldBy(Shown(h)) <=> \E n \in Taken(h) : h[n].key = k
         /\ Cardinality(HeldBy(Shown(h))) = Cardinality(Taken(h))
<1> DEFINE H == HeldBy(Shown(h))  T == Taken(h)
<1>1. \A n \in T : h[n].key \in Keys /\ n \in With(h, h[n].key)
  BY DEF Taken, With, Heaps, node_t
<1>2. \A n \in T : h[n].key \in H
  <2> SUFFICES ASSUME NEW n \in T PROVE h[n].key \in H
    OBVIOUS
  <2>1. \A k \in Keys : \A m \in With(h, k) : Stored(h, k) \in Values
    BY WithOne
  <2>2. Stored(h, h[n].key) \in Values
    BY <1>1, <2>1
  <2> QED BY <1>1, <2>2 DEF HeldBy, Shown
<1>3. ASSUME NEW k \in H PROVE \E n \in T : h[n].key = k
  <2>1. k \in Keys /\ Stored(h, k) # NoValue
    BY DEF HeldBy, Shown
  <2>2. With(h, k) # {}
    BY <2>1 DEF Stored
  <2> QED BY <2>2 DEF With, Taken
<1>4. Cardinality(H) = Cardinality(T)
  <2> DEFINE f == [n \in T |-> h[n].key]
  <2>1. f \in [T -> H]
    BY <1>2
  <2>2. \A m, n \in T : f[m] = f[n] => m = n
    <3> SUFFICES ASSUME NEW m \in T, NEW n \in T, f[m] = f[n] PROVE m = n
      OBVIOUS
    <3>1. m \in With(h, h[n].key) /\ n \in With(h, h[n].key) /\ h[n].key \in Keys
      BY <1>1
    <3> QED BY <3>1, WithOne
  <2>3. \A k \in H : \E n \in T : f[n] = k
    BY <1>3
  <2> HIDE DEF f, H, T
  <2>4. f \in Bijection(T, H)
    BY <2>1, <2>2, <2>3 DEF Bijection, Injection, Surjection, IsInjective
  <2>5. ExistsBijection(T, H)
    BY <2>4 DEF ExistsBijection
  <2>6. IsFiniteSet(T)
    BY FS_Subset DEF T, Taken
  <2> QED BY <2>5, <2>6, FS_Bijection
<1> QED BY <1>2, <1>3, <1>4

\* What table_get_keys returns are the keys held, each once.
LEMMA KeysHeld ==
  ASSUME NEW h \in Heaps, NEW ls, AllRight(h, ls), NEW s, Lists(h, s, Taken(h)),
         NEW H, H = HeldBy(Shown(h))
  PROVE  s \in {q \in [1..Cardinality(H) -> H] : \A k \in H : \E j \in DOMAIN q : q[j] = k}
<1>1. /\ \A k : k \in H <=> \E n \in Taken(h) : h[n].key = k
      /\ Cardinality(H) = Cardinality(Taken(h))
  BY HeldTaken
<1>2. /\ s \in Seq(Keys) /\ Len(s) = Cardinality(H) /\ DOMAIN s = 1..Len(s)
      /\ s \in [1..Len(s) -> Keys]
      /\ \A j \in 1..Len(s) : \E n \in Taken(h) : s[j] = h[n].key
      /\ \A n \in Taken(h) : \E j \in 1..Len(s) : s[j] = h[n].key
  BY <1>1, LenProperties DEF Lists
<1>3. \A j \in 1..Len(s) : s[j] \in H
  BY <1>1, <1>2
<1>4. s \in [1..Len(s) -> H]
  BY <1>2, <1>3
<1>5. \A k \in H : \E j \in DOMAIN s : s[j] = k
  BY <1>1, <1>2
<1> QED BY <1>2, <1>4, <1>5

------------------------------------------------------------------------------
(* What the refinement needs of the variables beside Inv.                   *)

\* getNode and list_add have passed no node with the key of the call.
Passed == pc = "walk" => \A m \in Smaller(heap, In(heap, Bucket), node) : heap[m].key # call.key

\* There is a call from its beginning to its return, and an answer before it.
Calling == /\ pc \in {"idle", "destroy"} => call = NoCall /\ ret = NoAnswer
           /\ pc \in {"call", "walk"} => ret = NoAnswer
           /\ pc = "return" => ret # NoAnswer

DictInv == Inv /\ Passed /\ Calling

LEMMA PassedNext ==
  ASSUME Inv, Passed, [Next]_vars
  PROVE  Passed'
<1> SUFFICES ASSUME pc' = "walk"
             PROVE  \A m \in Smaller(heap', In(heap', Bucket'), node') : heap'[m].key # call'.key
  BY DEF Passed
<1>1. StartWalk \/ Advance \/ UNCHANGED vars
  BY DEF Next, table_create, Begin, Return, table_put, PutFails, AddFirst, AddBefore, AddInstead,
         AddLast, Missing, table_get, table_remove, table_size, table_get_keys, Answer,
         table_destroy, FreeNode, NextBucket, EndDestroy
<1>2. UNCHANGED <<lists, heap, call>> /\ Bucket' = Bucket
  BY <1>1 DEF StartWalk, Advance, vars, Bucket
<1> DEFINE M == In(heap, Bucket)
<1>3. In(heap', Bucket') = M
  BY <1>2
<1>4. CASE StartWalk
  <2>1. Inv'
    BY <1>4, StartWalkStep
  <2>2. /\ heap \in Heaps /\ node' \in M /\ i' = Cardinality(Smaller(heap, M, node')) /\ i' = 0
    BY <1>2, <1>3, <1>4, <2>1 DEF Inv, Walking, TypeInvariant, StartWalk
  <2>3. IsFiniteSet(Smaller(heap, M, node'))
    BY <2>2, InType, SmallerType
  <2>4. Smaller(heap, M, node') = {}
    BY <2>2, <2>3, FS_EmptySet
  <2> QED BY <1>2, <1>3, <2>4
<1>5. CASE Advance
  <2>1. pc = "walk" /\ ~Stops /\ heap[node].next # Null /\ node' = heap[node].next
    BY <1>5 DEF Advance
  <2>2. Ordered(heap, M) /\ node \in M /\ call.key \in Int
    BY <2>1, InWalk
  <2>3. IsFiniteSet(M) /\ Allocated(heap, M)
    BY <2>1, InCall, InType
  <2>4. \A m \in Smaller(heap, M, node) : heap[m].key # call.key
    BY <2>1 DEF Passed
  <2> HIDE DEF M
  <2>5. Smaller(heap, M, node') = Smaller(heap, M, node) \cup {node}
    BY <2>1, <2>2, <2>3, SmallerNext
  <2>6. heap[node].key # call.key
    <3>1. heap[node].key \in Int
      BY <2>2, <2>3, NodeType
    <3> QED BY <2>1, <2>2, <3>1 DEF Stops
  <2> QED BY <1>2, <1>3, <2>4, <2>5, <2>6
<1>6. CASE UNCHANGED vars
  BY <1>6 DEF vars, Passed, Bucket
<1> QED BY <1>1, <1>4, <1>5, <1>6

LEMMA CallingNext ==
  ASSUME Inv, Calling, [Next]_vars
  PROVE  Calling'
<1>1. CASE table_create \/ Begin \/ Return \/ StartWalk \/ Advance
  BY <1>1 DEF Calling, table_create, Begin, Return, StartWalk, Advance
<1>2. CASE table_put
  <2>1. pc' = "return" /\ (ret' = -1 \/ ret' = 0)
    BY <1>2 DEF table_put, PutFails, AddFirst, AddBefore, AddInstead, AddLast, Answer
  <2>2. -1 \in Int /\ 0 \in Int
    OBVIOUS
  <2> QED BY <2>1, <2>2 DEF Calling
<1>3. CASE Missing
  <2>1. pc' = "return" /\ (ret' = NoValue \/ ret' = 1)
    BY <1>3 DEF Missing, Answer
  <2>2. 1 \in Int
    OBVIOUS
  <2> QED BY <2>1, <2>2 DEF Calling
<1>4. CASE table_get
  <2>1. pc = "walk" /\ pc' = "return" /\ ret' = heap[node].value
    BY <1>4 DEF table_get, Answer
  <2>2. heap \in Heaps /\ node \in In(heap, Bucket)
    BY <2>1, InCall, InWalk
  <2>3. heap[node].value \in Values
    BY <2>2, InType, NodeType
  <2> QED BY <2>1, <2>3 DEF Calling
<1>5. CASE table_remove
  <2>1. pc' = "return" /\ ret' = 0
    BY <1>5 DEF table_remove, Answer
  <2>2. 0 \in Int
    OBVIOUS
  <2> QED BY <2>1, <2>2 DEF Calling
<1>6. CASE table_size
  <2>1. pc = "call" /\ pc' = "return" /\ ret' = SizeOf
    BY <1>6 DEF table_size, Answer
  <2>2. SizeOf = Cardinality(Taken(heap)) /\ Taken(heap) \in SUBSET Nodes
    BY <2>1, SizeTaken DEF Taken
  <2>3. SizeOf \in Int
    BY <2>2, FS_Subset, FS_CardinalityType
  <2> QED BY <2>1, <2>3 DEF Calling
<1>7. CASE table_get_keys
  <2>1. pc = "call" /\ pc' = "return" /\ (ret' = NoValue \/ ret' = KeysOf)
    BY <1>7 DEF table_get_keys, Answer
  <2>2. KeysOf \in Seq(Keys)
    BY <2>1, KeysListed DEF Lists
  <2> QED BY <2>1, <2>2 DEF Calling
<1>8. CASE table_destroy \/ FreeNode \/ NextBucket \/ EndDestroy
  BY <1>8 DEF Calling, table_destroy, FreeNode, NextBucket, EndDestroy
<1>9. CASE UNCHANGED vars
  BY <1>9 DEF Calling, vars
<1> QED BY <1>1, <1>2, <1>3, <1>4, <1>5, <1>6, <1>7, <1>8, <1>9 DEF Next

LEMMA DictInvInit == Init => DictInv
BY InvInit DEF Init, DictInv, Passed, Calling

LEMMA DictInvNext == DictInv /\ [Next]_vars => DictInv'
BY InvNext, PassedNext, CallingNext DEF DictInv

------------------------------------------------------------------------------
(* The abstract table.                                                      *)

LEMMA ShownType ==
  ASSUME NEW h \in Heaps, NEW ls, AllRight(h, ls)
  PROVE  Shown(h) \in [Keys -> Values \cup {NoValue}] /\ Shown(h) # NoTable
<1>1. \A k \in Keys : Stored(h, k) \in Values \cup {NoValue}
  <2> SUFFICES ASSUME NEW k \in Keys PROVE Stored(h, k) \in Values \cup {NoValue}
    OBVIOUS
  <2>1. CASE With(h, k) = {}
    BY <2>1 DEF Stored
  <2>2. CASE With(h, k) # {}
    BY <2>2, WithOne
  <2> QED BY <2>1, <2>2
<1>2. Shown(h) \in [Keys -> Values \cup {NoValue}]
  BY <1>1 DEF Shown
<1> QED BY <1>2

LEMMA FoundShown ==
  ASSUME NEW h \in Heaps, NEW ls, AllRight(h, ls)
  PROVE  [k \in Keys |-> FoundIn(h, ls, k)] = Shown(h)
BY FoundStored DEF Shown

\* A table that there is and is not being destroyed.
Present == lists # NoTable /\ pc # "destroy"

LEMMA TableNow ==
  ASSUME Inv
  PROVE  /\ Present => /\ AbsTable = Shown(heap) /\ AbsTable # NoTable
                       /\ heap \in Heaps /\ AllRight(heap, lists)
         /\ ~Present => AbsTable = NoTable
<1>1. ASSUME Present
      PROVE  heap \in Heaps /\ AllRight(heap, lists)
  BY <1>1 DEF Present, Inv, ListsRight, TypeInvariant
<1>2. ASSUME Present
      PROVE  AbsTable = [k \in Keys |-> FoundIn(heap, lists, k)]
  BY <1>2 DEF Present, AbsTable, Found, FoundIn
<1>3. ASSUME Present PROVE AbsTable = Shown(heap) /\ AbsTable # NoTable
  BY <1>1, <1>2, <1>3, FoundShown, ShownType
<1>4. ~Present => AbsTable = NoTable
  BY DEF Present, AbsTable
<1> QED BY <1>1, <1>3, <1>4

LEMMA TableNext ==
  ASSUME Inv'
  PROVE  /\ Present' => /\ AbsTable' = Shown(heap') /\ AbsTable' # NoTable
                        /\ heap' \in Heaps /\ AllRight(heap', lists')
         /\ ~Present' => AbsTable' = NoTable
<1>1. ASSUME Present'
      PROVE  heap' \in Heaps /\ AllRight(heap', lists')
  BY <1>1 DEF Present, Inv, ListsRight, TypeInvariant, AllRight, Right, In
<1>2. ASSUME Present'
      PROVE  AbsTable' = [k \in Keys |-> FoundIn(heap', lists', k)]
  BY <1>2 DEF Present, AbsTable, Found, FoundIn, Walk
<1>3. ASSUME Present' PROVE AbsTable' = Shown(heap') /\ AbsTable' # NoTable
  BY <1>1, <1>2, <1>3, FoundShown, ShownType
<1>4. ~Present' => AbsTable' = NoTable
  BY DEF Present, AbsTable
<1> QED BY <1>1, <1>3, <1>4

------------------------------------------------------------------------------
(* Each step does what one of Dictionary does, or nothing it sees.          *)

\* A step of Dictionary, or none.
AbsNext == Observed!Next \/ UNCHANGED Observed!vars

\* At the end of the work of a call: what Dictionary's Perform needs.
LEMMA Performs ==
  ASSUME DictInv, pc \in {"call", "walk"}, Inv', NEW r, Answer(r)
  PROVE  /\ AbsTable = Shown(heap) /\ heap \in Heaps /\ AllRight(heap, lists)
         /\ AbsTable' = Shown(heap') /\ heap' \in Heaps /\ AllRight(heap', lists')
         /\ call # NoCall /\ ret = NoAnswer /\ ret' = r /\ UNCHANGED call /\ call \in Calls
<1>1. Present
  BY DEF DictInv, Inv, Placement, Present
<1>2. AbsTable = Shown(heap) /\ heap \in Heaps /\ AllRight(heap, lists)
  BY <1>1, TableNow DEF DictInv
<1>3. pc' = "return" /\ ret' = r /\ UNCHANGED call
  BY DEF Answer
<1>4. Present'
  BY <1>3 DEF Inv, Placement, Present
<1>5. AbsTable' = Shown(heap') /\ heap' \in Heaps /\ AllRight(heap', lists')
  BY <1>4, TableNext
<1>6. call \in Calls /\ call # NoCall /\ ret = NoAnswer
  BY DEF DictInv, Inv, Placement, Calling
<1> QED BY <1>2, <1>3, <1>5, <1>6

LEMMA HeldNow ==
  ASSUME AbsTable = Shown(heap)
  PROVE  /\ Observed!Held = HeldBy(Shown(heap))
         /\ \A k \in Keys : k \in Observed!Held <=> Stored(heap, k) # NoValue
BY DEF Observed!Held, HeldBy, Shown

\* A put that adds a node.
LEMMA AddPerforms ==
  ASSUME DictInv, pc \in {"call", "walk"}, Inv', Answer(0), call.op = "put",
         NEW new \in Nodes, Added(heap, heap', new, call.key, call.value)
  PROVE  AbsNext
<1>1. /\ AbsTable = Shown(heap) /\ heap \in Heaps
      /\ AbsTable' = Shown(heap') /\ heap' \in Heaps /\ AllRight(heap', lists')
      /\ call # NoCall /\ ret = NoAnswer /\ ret' = 0 /\ UNCHANGED call /\ call \in Calls
  BY Performs
<1>2. call.key \in Keys
  BY <1>1, CallType
<1> DEFINE k == call.key  v == call.value
<1>3. k \in Keys /\ Added(heap, heap', new, k, v)
  BY <1>2
<1> HIDE DEF k, v
<1>4. Shown(heap') = [Shown(heap) EXCEPT ![k] = v] /\ Stored(heap, k) = NoValue
  BY <1>1, <1>3, ShownAdded
<1>5. AbsTable' = [AbsTable EXCEPT ![k] = v] /\ k \notin Observed!Held
  BY <1>1, <1>3, <1>4, HeldNow
<1>6. Observed!Put
  BY <1>1, <1>5 DEF Observed!Put, k, v
<1> QED BY <1>1, <1>6 DEF AbsNext, Observed!Next, Observed!Perform

LEMMA AddSteps ==
  ASSUME DictInv, Inv', AddFirst \/ AddBefore \/ AddLast
  PROVE  AbsNext
<1>1. Inv
  BY DEF DictInv
<1>2. CASE AddFirst
  <2>1. PICK new \in FreeNodes(heap) :
            /\ pc = "call" /\ call.op = "put" /\ Answer(0)
            /\ heap' = Place(heap, new, call.key, call.value, Null, Null)
    BY <1>2 DEF AddFirst
  <2>2. heap \in Heaps /\ call.key \in Keys /\ call.value \in Values
    BY <1>1, <2>1, InCall, CallType
  <2>3. Allocated(heap, {})
    BY DEF Allocated
  <2> DEFINE k == call.key  v == call.value
  <2>4. k \in Keys /\ v \in Values
    BY <2>2
  <2> HIDE DEF k, v
  <2>5. Added(heap, Place(heap, new, k, v, Null, Null), new, k, v)
    BY <2>2, <2>3, <2>4, PlaceEntries
  <2>6. Added(heap, heap', new, call.key, call.value) /\ new \in Nodes
    BY <2>1, <2>5 DEF k, v, FreeNodes
  <2> QED BY <2>1, <2>6, AddPerforms
<1>3. CASE AddBefore
  <2>1. PICK new \in FreeNodes(heap) :
            /\ pc = "walk" /\ call.op = "put" /\ Answer(0)
            /\ heap' = Place(heap, new, call.key, call.value, heap[node].previous, node)
    BY <1>3 DEF AddBefore
  <2> DEFINE M == In(heap, Bucket)  k == call.key  v == call.value  p == heap[node].previous
  <2>2. heap \in Heaps /\ k \in Keys /\ v \in Values
    BY <1>1, <2>1, InCall, CallType
  <2>3. M \subseteq Nodes /\ Allocated(heap, M)
    BY <2>2, InType
  <2>4. Ordered(heap, M) /\ node \in M
    BY <1>1, <2>1, InWalk
  <2> HIDE DEF M, k, v
  <2>5. p \in M \cup {Null} /\ p # node
    <3>1. node # Null
      BY <2>3, <2>4, NodeType
    <3> QED BY <2>4, <3>1, Neighbours
  <2> HIDE DEF p
  <2>6. Added(heap, Place(heap, new, k, v, p, node), new, k, v)
    BY <2>2, <2>3, <2>4, <2>5, PlaceEntries
  <2>7. Added(heap, heap', new, call.key, call.value) /\ new \in Nodes
    BY <2>1, <2>6 DEF k, v, p, FreeNodes
  <2> QED BY <2>1, <2>7, AddPerforms
<1>4. CASE AddLast
  <2>1. PICK new \in FreeNodes(heap) :
            /\ pc = "walk" /\ call.op = "put" /\ Answer(0)
            /\ heap' = Place(heap, new, call.key, call.value, node, Null)
    BY <1>4 DEF AddLast, PastEnd
  <2> DEFINE M == In(heap, Bucket)  k == call.key  v == call.value
  <2>2. heap \in Heaps /\ k \in Keys /\ v \in Values
    BY <1>1, <2>1, InCall, CallType
  <2>3. M \subseteq Nodes /\ Allocated(heap, M)
    BY <2>2, InType
  <2>4. node \in M
    BY <1>1, <2>1, InWalk
  <2> HIDE DEF M, k, v
  <2>5. Added(heap, Place(heap, new, k, v, node, Null), new, k, v)
    BY <2>2, <2>3, <2>4, PlaceEntries
  <2>6. Added(heap, heap', new, call.key, call.value) /\ new \in Nodes
    BY <2>1, <2>5 DEF k, v, FreeNodes
  <2> QED BY <2>1, <2>6, AddPerforms
<1> QED BY <1>2, <1>3, <1>4

LEMMA AddInsteadPerforms ==
  ASSUME DictInv, Inv', AddInstead
  PROVE  AbsNext
<1>1. PICK new \in FreeNodes(heap) :
          /\ pc = "walk" /\ call.op = "put" /\ call.key = heap[node].key
          /\ heap' = Substitute(heap, new, call.key, call.value, node) /\ Answer(-1)
  BY DEF AddInstead
<1>2. /\ AbsTable = Shown(heap) /\ heap \in Heaps /\ AllRight(heap, lists)
      /\ AbsTable' = Shown(heap') /\ heap' \in Heaps /\ AllRight(heap', lists')
      /\ call # NoCall /\ ret = NoAnswer /\ ret' = -1 /\ UNCHANGED call /\ call \in Calls
  BY <1>1, Performs
<1> DEFINE M == In(heap, Bucket)  k == call.key  v == call.value
<1>3. k \in Keys /\ v \in Values /\ k = heap[node].key
  BY <1>1, <1>2, CallType
<1>4. M \subseteq Nodes /\ Ordered(heap, M) /\ node \in M /\ heap[node] # Free
  <2>1. Inv
    BY DEF DictInv
  <2> QED BY <1>1, <1>2, <2>1, InWalk, InType DEF In
<1>5. new \in Nodes /\ heap[new] = Free
  BY DEF FreeNodes
<1> HIDE DEF M, k, v
<1> DEFINE g == Substitute(heap, new, k, v, node)
<1>6. heap' = g
  BY <1>1 DEF k, v
<1>7. Swapped(heap, g, node, new, k, v)
  BY <1>2, <1>3, <1>4, SubstituteEntries
<1> HIDE DEF g
<1>8. Shown(heap') = [Shown(heap) EXCEPT ![k] = v] /\ Stored(heap, k) \in Values
  <2>1. node \in Nodes /\ heap[node] # Free /\ Swapped(heap, heap', node, new, k, v)
    BY <1>4, <1>6, <1>7
  <2>2. heap \in Heaps /\ heap' \in Heaps /\ AllRight(heap, lists) /\ AllRight(heap', lists')
    BY <1>2
  <2> QED BY <1>3, <1>5, <2>1, <2>2, ShownReplaced
<1>9. AbsTable' = [AbsTable EXCEPT ![k] = v] /\ k \in Observed!Held
  BY <1>2, <1>3, <1>8, HeldNow
<1>10. Observed!Put
  BY <1>1, <1>2, <1>9 DEF Observed!Put, k, v
<1> QED BY <1>2, <1>10 DEF AbsNext, Observed!Next, Observed!Perform

LEMMA PutFailsPerforms ==
  ASSUME DictInv, Inv', PutFails
  PROVE  AbsNext
<1>1. pc = "call" /\ call.op = "put" /\ Answer(-1) /\ heap' = heap
  BY DEF PutFails
<1>2. /\ AbsTable = Shown(heap) /\ AbsTable' = Shown(heap')
      /\ call # NoCall /\ ret = NoAnswer /\ ret' = -1 /\ UNCHANGED call
  BY <1>1, Performs
<1>3. AbsTable' = AbsTable
  BY <1>1, <1>2
<1>4. Observed!Put
  BY <1>1, <1>2, <1>3 DEF Observed!Put
<1> QED BY <1>2, <1>4 DEF AbsNext, Observed!Next, Observed!Perform

LEMMA RemovePerforms ==
  ASSUME DictInv, Inv', table_remove
  PROVE  AbsNext
<1>1. /\ pc = "walk" /\ call.op = "remove" /\ Stops
      /\ heap' = Unlink(heap, node) /\ Answer(0)
  BY DEF table_remove
<1>2. /\ AbsTable = Shown(heap) /\ heap \in Heaps /\ AllRight(heap, lists)
      /\ AbsTable' = Shown(heap') /\ heap' \in Heaps
      /\ call # NoCall /\ ret = NoAnswer /\ ret' = 0 /\ UNCHANGED call /\ call \in Calls
  BY <1>1, Performs
<1> DEFINE M == In(heap, Bucket)  k == call.key
<1>3. k \in Keys /\ k = heap[node].key
  BY <1>1, <1>2, CallType DEF Stops
<1>4. M \subseteq Nodes /\ Ordered(heap, M) /\ node \in M /\ heap[node] # Free
  <2>1. Inv
    BY DEF DictInv
  <2> QED BY <1>1, <1>2, <2>1, InWalk, InType DEF In
<1> HIDE DEF M, k
<1>5. SameEntries(heap, heap', {node}) /\ heap'[node] = Free /\ node \in Nodes
  BY <1>1, <1>2, <1>4, UnlinkEntries
<1>6. Shown(heap') = [Shown(heap) EXCEPT ![k] = NoValue] /\ Stored(heap, k) \in Values
  BY <1>2, <1>3, <1>4, <1>5, ShownRemoved
<1>7. AbsTable' = [AbsTable EXCEPT ![k] = NoValue] /\ k \in Observed!Held
  BY <1>2, <1>3, <1>6, HeldNow
<1>8. Observed!Remove
  BY <1>1, <1>2, <1>7 DEF Observed!Remove, k
<1> QED BY <1>2, <1>8 DEF AbsNext, Observed!Next, Observed!Perform

\* Dictionary counts as HashTable does.
LEMMA SameCount == \A S : Observed!Cardinality(S) = Cardinality(S)
BY DEF Observed!Cardinality, Cardinality

\* A call misses a key that no node has.
LEMMA MissingKey ==
  ASSUME DictInv, Missing
  PROVE  With(heap, call.key) = {}
<1>1. Inv /\ Passed
  BY DEF DictInv
<1>2. pc \in {"call", "walk"}
  BY DEF Missing, PastEnd
<1>3. /\ heap \in Heaps /\ lists \in [Buckets -> list_t \cup {NoList}]
      /\ AllRight(heap, lists) /\ call \in Calls
  BY <1>1, <1>2, InCall
<1>4. CASE pc = "call" /\ call.op \in {"get", "remove"} /\ isEmpty(List) # 0
  <2>1. call.key \in Keys /\ Bucket \in Buckets /\ hash_code(call.key) = Bucket
    BY <1>3, <1>4, CallType, HashType DEF Bucket
  <2>2. In(heap, Bucket) = {}
    BY <1>3, <1>4, <2>1, NoMembers DEF AllRight
  <2> QED BY <2>1, <2>2 DEF With, In
<1>5. CASE PastEnd
  <2> DEFINE M == In(heap, Bucket)
  <2>1. pc = "walk" /\ ~Stops /\ heap[node].next = Null
    BY <1>5 DEF PastEnd
  <2>2. Ordered(heap, M) /\ node \in M /\ call.key \in Int /\ call.key \in Keys
    BY <1>1, <2>1, InWalk
  <2>3. Allocated(heap, M) /\ Distinct(heap, M) /\ Largest(heap, M, node)
    BY <2>1, <2>2 DEF Ordered, Forward, NextRight
  <2>4. \A m \in Smaller(heap, M, node) : heap[m].key # call.key
    BY <1>1, <2>1 DEF Passed
  <2>5. With(heap, call.key) \subseteq M /\ \A n \in With(heap, call.key) : heap[n].key = call.key
    BY DEF With, In, Bucket
  <2> HIDE DEF M
  <2>6. heap[node].key # call.key
    <3>1. heap[node].key \in Int
      BY <2>2, <2>3, NodeType
    <3> QED BY <2>1, <2>2, <3>1 DEF Stops
  <2>7. ASSUME NEW m \in M PROVE heap[m].key # call.key
    <3>1. CASE m = node
      BY <2>6, <3>1
    <3>2. CASE m # node
      <4>1. heap[m].key <= heap[node].key /\ heap[m].key # heap[node].key
        BY <2>2, <2>3, <3>2 DEF Largest, Distinct
      <4>2. heap[m].key \in Int /\ heap[node].key \in Int
        BY <2>2, <2>3, NodeType
      <4>3. m \in Smaller(heap, M, node)
        BY <4>1, <4>2 DEF Smaller
      <4> QED BY <2>4, <4>3
    <3> QED BY <3>1, <3>2
  <2> QED BY <2>5, <2>7
<1> QED BY <1>4, <1>5 DEF Missing

LEMMA MissingPerforms ==
  ASSUME DictInv, Inv', Missing
  PROVE  AbsNext
<1>1. /\ pc \in {"call", "walk"} /\ heap' = heap /\ call.op \in {"get", "remove"}
      /\ Answer(IF call.op = "get" THEN NoValue ELSE 1)
  <2>1. pc = "walk" => call.op \in {"put", "get", "remove"}
    BY DEF DictInv, Inv, Walking
  <2> QED BY <2>1 DEF Missing, PastEnd
<1>2. /\ AbsTable = Shown(heap) /\ AbsTable' = Shown(heap') /\ heap \in Heaps /\ AllRight(heap, lists)
      /\ call # NoCall /\ ret = NoAnswer /\ ret' = (IF call.op = "get" THEN NoValue ELSE 1)
      /\ UNCHANGED call /\ call \in Calls
  BY <1>1, Performs
<1>3. call.key \in Keys
  BY <1>1, <1>2, CallType
<1>4. Stored(heap, call.key) = NoValue
  BY MissingKey DEF Stored
<1>5. AbsTable' = AbsTable /\ AbsTable[call.key] = NoValue /\ call.key \notin Observed!Held
      /\ AbsTable \in [Keys -> Values \cup {NoValue}]
  BY <1>1, <1>2, <1>3, <1>4, ShownType, HeldNow DEF Shown
<1>6. CASE call.op = "get"
  <2>1. Observed!Read
    BY <1>2, <1>5, <1>6 DEF Observed!Read
  <2> QED BY <1>2, <2>1 DEF AbsNext, Observed!Next, Observed!Perform
<1>7. CASE call.op = "remove"
  <2>1. [AbsTable EXCEPT ![call.key] = NoValue] = AbsTable
    BY <1>3, <1>5
  <2>2. Observed!Remove
    BY <1>2, <1>5, <1>7, <2>1 DEF Observed!Remove
  <2> QED BY <1>2, <2>2 DEF AbsNext, Observed!Next, Observed!Perform
<1> QED BY <1>1, <1>6, <1>7

LEMMA ReadPerforms ==
  ASSUME DictInv, Inv', table_get \/ table_size \/ table_get_keys
  PROVE  AbsNext
<1>1. Inv
  BY DEF DictInv
<1>2. CASE table_get
  <2>1. pc = "walk" /\ call.op = "get" /\ Stops /\ Answer(heap[node].value) /\ heap' = heap
    BY <1>2 DEF table_get
  <2>2. /\ AbsTable = Shown(heap) /\ AbsTable' = Shown(heap') /\ heap \in Heaps /\ AllRight(heap, lists)
        /\ call # NoCall /\ ret = NoAnswer /\ ret' = heap[node].value /\ UNCHANGED call /\ call \in Calls
    BY <2>1, Performs
  <2>3. call.key \in Keys /\ call.key = heap[node].key
    BY <2>1, <2>2, CallType DEF Stops
  <2>4. node \in With(heap, call.key)
    BY <1>1, <2>1, <2>3, InWalk DEF In, With
  <2>5. Stored(heap, call.key) = heap[node].value
    BY <2>2, <2>3, <2>4, WithOne
  <2>6. AbsTable' = AbsTable /\ AbsTable[call.key] = heap[node].value
    BY <2>1, <2>2, <2>3, <2>5 DEF Shown
  <2>7. Observed!Read
    BY <2>1, <2>2, <2>6 DEF Observed!Read
  <2> QED BY <2>2, <2>7 DEF AbsNext, Observed!Next, Observed!Perform
<1>3. CASE table_size
  <2>1. pc = "call" /\ call.op = "size" /\ Answer(SizeOf) /\ heap' = heap
    BY <1>3 DEF table_size
  <2>2. /\ AbsTable = Shown(heap) /\ AbsTable' = Shown(heap') /\ heap \in Heaps /\ AllRight(heap, lists)
        /\ call # NoCall /\ ret = NoAnswer /\ ret' = SizeOf /\ UNCHANGED call
    BY <2>1, Performs
  <2>3. SizeOf = Observed!Cardinality(Observed!Held)
    BY <1>1, <2>1, <2>2, SizeTaken, HeldTaken, HeldNow, SameCount
  <2>4. Observed!Read
    BY <2>1, <2>2, <2>3 DEF Observed!Read
  <2> QED BY <2>2, <2>4 DEF AbsNext, Observed!Next, Observed!Perform
<1>4. CASE table_get_keys
  <2>1. /\ pc = "call" /\ call.op = "get_keys" /\ heap' = heap
        /\ Answer(IF HasEmptyList THEN NoValue ELSE KeysOf)
    BY <1>4 DEF table_get_keys
  <2>2. /\ AbsTable = Shown(heap) /\ AbsTable' = Shown(heap') /\ heap \in Heaps /\ AllRight(heap, lists)
        /\ call # NoCall /\ ret = NoAnswer /\ (ret' = NoValue \/ ret' = KeysOf) /\ UNCHANGED call
    BY <2>1, Performs
  <2>3. Observed!Held = HeldBy(Shown(heap))
    BY <2>2, HeldNow
  <2>4. Lists(heap, KeysOf, Taken(heap))
    BY <1>1, <2>1, KeysListed
  <2>5. KeysOf \in Observed!Listings(Observed!Held)
    <3> DEFINE H == Observed!Held
    <3>1. H = HeldBy(Shown(heap))
      BY <2>3
    <3> HIDE DEF H
    <3>2. KeysOf \in {q \in [1..Cardinality(H) -> H] : \A k \in H : \E j \in DOMAIN q : q[j] = k}
      BY <2>2, <2>4, <3>1, KeysHeld
    <3>3. Cardinality(H) = Observed!Cardinality(H)
      BY SameCount
    <3> QED BY <3>2, <3>3 DEF Observed!Listings, H
  <2>6. Observed!Read
    BY <2>1, <2>2, <2>5 DEF Observed!Read
  <2> QED BY <2>2, <2>6 DEF AbsNext, Observed!Next, Observed!Perform
<1> QED BY <1>2, <1>3, <1>4

LEMMA OtherPerforms ==
  ASSUME DictInv, Inv',
         \/ table_create \/ Begin \/ Return \/ StartWalk \/ Advance
         \/ table_destroy \/ FreeNode \/ NextBucket \/ EndDestroy \/ UNCHANGED vars
  PROVE  AbsNext
<1>1. /\ Present => AbsTable = Shown(heap) /\ AbsTable # NoTable
      /\ ~Present => AbsTable = NoTable
  BY TableNow DEF DictInv
<1>2. /\ Present' => AbsTable' = Shown(heap')
      /\ ~Present' => AbsTable' = NoTable
  BY TableNext
<1>3. Calling /\ (lists = NoTable => pc = "idle")
  BY DEF DictInv, Inv, Placement
<1>4. CASE table_create
  <2>1. lists' # NoTable
    <3>1. lists' \in [Buckets -> list_t \cup {NoList}]
      BY <1>4 DEF table_create
    <3> QED BY <3>1 DEF Buckets
  <2>2. ~Present /\ Present' /\ UNCHANGED <<heap, call, ret>>
    BY <1>4, <2>1 DEF table_create, Present
  <2>3. \A k \in Keys : Stored(heap, k) = NoValue
    <3>1. \A n \in Nodes : heap[n] = Free
      BY <1>4 DEF table_create, DictInv, Inv, Placement
    <3>2. \A k \in Keys : With(heap, k) = {}
      BY <3>1 DEF With
    <3> QED BY <3>2 DEF Stored
  <2>4. AbsTable' = [k \in Keys |-> NoValue]
    BY <1>2, <2>2, <2>3 DEF Shown
  <2>5. Observed!Create
    BY <1>1, <2>2, <2>4 DEF Observed!Create
  <2> QED BY <2>5 DEF AbsNext, Observed!Next
<1>5. CASE Begin
  <2>1. Present /\ Present' /\ UNCHANGED <<heap, ret>> /\ call' \in Calls /\ call = NoCall
    BY <1>3, <1>5 DEF Begin, Present, Calling
  <2>2. AbsTable # NoTable /\ AbsTable' = AbsTable
    BY <1>1, <1>2, <2>1
  <2>3. Observed!Begin
    BY <2>1, <2>2 DEF Observed!Begin, Observed!Calls, Calls
  <2> QED BY <2>3 DEF AbsNext, Observed!Next
<1>6. CASE Return
  <2>1. Present /\ Present' /\ UNCHANGED heap /\ ret # NoAnswer /\ call' = NoCall /\ ret' = NoAnswer
    BY <1>3, <1>6 DEF Return, Present, Calling
  <2>2. AbsTable' = AbsTable
    BY <1>1, <1>2, <2>1
  <2>3. Observed!Return
    BY <2>1, <2>2 DEF Observed!Return
  <2> QED BY <2>3 DEF AbsNext, Observed!Next
<1>7. CASE StartWalk \/ Advance
  <2>1. Present /\ Present' /\ UNCHANGED <<heap, call, ret>>
    BY <1>3, <1>7 DEF StartWalk, Advance, Present
  <2> QED BY <1>1, <1>2, <2>1 DEF AbsNext, Observed!vars
<1>8. CASE table_destroy
  <2>1. Present /\ ~Present' /\ UNCHANGED <<call, ret>> /\ call = NoCall
    BY <1>3, <1>8 DEF table_destroy, Present, Calling
  <2>2. Observed!Destroy
    BY <1>1, <1>2, <2>1 DEF Observed!Destroy
  <2> QED BY <2>2 DEF AbsNext, Observed!Next
<1>9. CASE FreeNode \/ NextBucket \/ EndDestroy
  <2>1. ~Present /\ ~Present' /\ UNCHANGED <<call, ret>>
    BY <1>9 DEF FreeNode, NextBucket, EndDestroy, Present
  <2> QED BY <1>1, <1>2, <2>1 DEF AbsNext, Observed!vars
<1>10. CASE UNCHANGED vars
  <2>1. Present' = Present /\ UNCHANGED <<heap, call, ret>>
    BY <1>10 DEF vars, Present
  <2> QED BY <1>1, <1>2, <2>1 DEF AbsNext, Observed!vars
<1> QED BY <1>4, <1>5, <1>6, <1>7, <1>8, <1>9, <1>10

LEMMA AbsStep == DictInv /\ [Next]_vars => AbsNext
<1> SUFFICES ASSUME DictInv, [Next]_vars PROVE AbsNext
  OBVIOUS
<1>1. Inv'
  BY InvNext DEF DictInv
<1> QED BY <1>1, AddSteps, AddInsteadPerforms, PutFailsPerforms, RemovePerforms, MissingPerforms,
           ReadPerforms, OtherPerforms DEF Next, table_put

LEMMA AbsInit == Init => Observed!Init
BY DEF Init, Observed!Init, AbsTable

\* What the library keeps of the promise of table.h:20-52, for any number of buckets,
\* keys, values and nodes: it is a dictionary. Each call changes what can be found, or
\* reads it, at one step between its beginning and its return, and gives the answer
\* that is due to it; no other step changes what can be found. The two answers that
\* are not those of the header are in Observed: -1 for a replacement that was made
\* (table.c:83), and a NULL for the keys (table.c:152).
THEOREM ActsAsDictionary == Spec => ImplementsDictionary
<1>1. DictInv /\ [Next]_vars => [Observed!Next]_Observed!vars
  BY AbsStep DEF AbsNext
<1>2. Spec => Observed!Spec
  BY AbsInit, DictInvInit, DictInvNext, <1>1, PTL DEF Spec, Observed!Spec
<1> QED BY <1>2 DEF ImplementsDictionary

------------------------------------------------------------------------------
(* The keys that are returned, through serialization.c.                     *)

\* Keys are returned, or NULL.
Listing == pc = "return" /\ call.op = "get_keys" /\ ret # NoValue => ret \in Seq(Keys)

LEMMA ListingNext ==
  ASSUME Inv, Listing, [Next]_vars
  PROVE  Listing'
<1>1. CASE table_create \/ Begin \/ Return \/ StartWalk \/ Advance
  BY <1>1 DEF Listing, table_create, Begin, Return, StartWalk, Advance
<1>2. CASE table_put
  <2>1. call' = call /\ call.op = "put"
    BY <1>2 DEF table_put, PutFails, AddFirst, AddBefore, AddInstead, AddLast, Answer
  <2> QED BY <2>1 DEF Listing
<1>3. CASE Missing
  <2>1. call' = call /\ call.op \in {"put", "get", "remove"}
    <3>1. pc = "walk" => call.op \in {"put", "get", "remove"}
      BY DEF Inv, Walking
    <3> QED BY <1>3, <3>1 DEF Missing, PastEnd, Answer
  <2> QED BY <2>1 DEF Listing
<1>4. CASE table_get \/ table_remove \/ table_size
  BY <1>4 DEF Listing, table_get, table_remove, table_size, Answer
<1>5. CASE table_get_keys
  <2>1. pc = "call" /\ (ret' = NoValue \/ ret' = KeysOf)
    BY <1>5 DEF table_get_keys, Answer
  <2>2. KeysOf \in Seq(Keys)
    BY <2>1, KeysListed DEF Lists
  <2> QED BY <2>1, <2>2 DEF Listing
<1>6. CASE table_destroy \/ FreeNode \/ NextBucket \/ EndDestroy
  BY <1>6 DEF Listing, table_destroy, FreeNode, NextBucket, EndDestroy
<1>7. CASE UNCHANGED vars
  BY <1>7 DEF Listing, vars
<1> QED BY <1>1, <1>2, <1>3, <1>4, <1>5, <1>6, <1>7 DEF Next

\* The array that table_get_keys returns, of any number of keys of any length whose
\* sum an int holds, survives being put in a buffer and taken out of it
\* (serialization.c:24-92): what is written fills the memory allocated for it, and
\* the same keys come out in the same order.
THEOREM KeysSurvive == Spec => []RoundTrip
<1>1. Init => Listing
  BY DEF Init, Listing
<1>2. Listing => RoundTrip
  <2> SUFFICES ASSUME Listing, pc = "return", call.op = "get_keys", ret # NoValue
               PROVE  LET keys == [j \in DOMAIN ret |-> Names[ret[j]]]
                          sent == keyArray_to_buffer(keys)
                      IN  sent.size <= INT_MAX => /\ Len(sent.buf) = sent.size
                                                  /\ buffer_to_keyArray(sent.buf) = keys
    BY DEF RoundTrip
  <2> DEFINE keys == [j \in DOMAIN ret |-> Names[ret[j]]]
  <2>1. ret \in Seq(Keys)
    BY DEF Listing
  <2>2. Len(ret) \in Nat /\ DOMAIN ret = 1..Len(ret) /\ \A j \in 1..Len(ret) : ret[j] \in Keys
    BY <2>1, LenProperties, ElementOfSeq
  <2>3. keys \in [1..Len(ret) -> CString]
    BY <2>2, NamesAssumption DEF CString
  <2> HIDE DEF keys
  <2>4. keys \in Seq(CString)
    BY <2>2, <2>3, SeqDef
  <2>5. LET sent == keyArray_to_buffer(keys)
        IN  sent.size <= INT_MAX => Len(sent.buf) = sent.size /\ buffer_to_keyArray(sent.buf) = keys
    BY <2>4, WrittenAndRead
  <2> QED BY <2>5 DEF keys
<1>3. Inv /\ Listing /\ [Next]_vars => Listing'
  BY ListingNext
<1> QED BY <1>1, <1>2, <1>3, Invariant, PTL DEF Spec
=============================================================================
