------------------------- MODULE FrameDecoderProofs -------------------------
(***************************************************************************)
(* Proofs about FrameDecoder, for any pieces of bytes and any number of    *)
(* them: its types, that only whole frames are found, and that none is     *)
(* passed over.  The first sections hold what they need of FlattenSeq, by  *)
(* induction over the natural numbers, and of the bytes of a frame.        *)
(***************************************************************************)
EXTENDS FrameDecoder, SequenceTheorems, WellFoundedInduction, TLAPS

USE PiecesAssumption

----------------------------------------------------------------------------
\* Induction, on sets of natural numbers.

Below == {p \in Nat \X Nat : p[1] < p[2]}

LEMMA LeastElement ==
  ASSUME NEW T, T \subseteq Nat, T # {}
  PROVE  \E x \in T : \A y \in T : x <= y
  <1>1. IsWellFoundedOn(Below, Nat)
    BY NatLessThanWellFounded DEF OpToRel, Below
  <1>2. PICK x \in T : \A y \in T : ~ (<<y, x>> \in Below)
    BY <1>1, WFMin
  <1>3. ASSUME NEW y \in T, ~ (x <= y) PROVE FALSE
    <2>1. y < x /\ <<y, x>> \in Nat \X Nat
      BY <1>3
    <2>2. <<y, x>>[1] = y /\ <<y, x>>[2] = x
      OBVIOUS
    <2>3. <<y, x>> \in Below
      BY <2>1, <2>2 DEF Below
    <2> QED
      BY <2>3, <1>2, <1>3
  <1> QED
    BY <1>3

\* A set that holds zero and is closed under successors holds every number.
LEMMA SetInduction ==
  ASSUME NEW T, T \subseteq Nat, 0 \in T, \A n \in T : n + 1 \in T
  PROVE  T = Nat
  <1>1. CASE Nat \ T # {}
    <2>1. PICK x \in Nat \ T : \A y \in Nat \ T : x <= y
      BY <1>1, LeastElement
    <2>2. x > 0 /\ x - 1 \in Nat /\ x - 1 \in T
      BY <2>1
    <2> QED
      BY <2>1, <2>2
  <1> QED
    BY <1>1

----------------------------------------------------------------------------
\* FlattenSeq, from its recursive definition.

\* The function FlattenSeq is defined by: after k sequences, their concatenation.
Joins(s, g) == g = [k \in 1..Len(s) |-> IF k = 1 THEN s[k] ELSE g[k - 1] \o s[k]]

LEMMA JoinsAt ==
  ASSUME NEW s, NEW g, Joins(s, g), NEW k \in 1..Len(s)
  PROVE  g[k] = IF k = 1 THEN s[k] ELSE g[k - 1] \o s[k]
  <1> DEFINE F == [m \in 1..Len(s) |-> IF m = 1 THEN s[m] ELSE g[m - 1] \o s[m]]
  <1>1. g = F
    BY Zenon DEF Joins
  <1>2. F[k] = IF k = 1 THEN s[k] ELSE g[k - 1] \o s[k]
    OBVIOUS
  <1> HIDE DEF F
  <1> QED
    BY <1>1, <1>2

LEMMA JoinsExist ==
  ASSUME NEW S, NEW s \in Seq(Seq(S))
  PROVE  \E g : Joins(s, g)
  <1> DEFINE Upto(n, g) ==
        g = [k \in 1..n |-> IF k = 1 THEN s[k] ELSE g[k - 1] \o s[k]]
      T == {n \in Nat : \E g : Upto(n, g)}
  <1>1. 0 \in T
    <2>1. Upto(0, [k \in 1..0 |-> s])
      OBVIOUS
    <2> QED
      BY <2>1
  <1>2. ASSUME NEW n \in T PROVE n + 1 \in T
    <2>1. n \in Nat /\ n + 1 \in Nat
      OBVIOUS
    <2>2. PICK g : Upto(n, g)
      OBVIOUS
    <2> DEFINE h == [k \in 1..(n + 1) |-> IF k = 1 THEN s[k] ELSE g[k - 1] \o s[k]]
    <2>3. \A k \in 1..n : g[k] = IF k = 1 THEN s[k] ELSE g[k - 1] \o s[k]
      BY <2>2
    <2>4. ASSUME NEW k \in 1..n PROVE h[k] = g[k]
      BY <2>1, <2>3, k \in 1..(n + 1)
    <2>5. ASSUME NEW k \in 1..(n + 1), k # 1 PROVE h[k - 1] = g[k - 1]
      BY <2>1, <2>4, <2>5, k - 1 \in 1..n
    <2>6. h = [k \in 1..(n + 1) |-> IF k = 1 THEN s[k] ELSE h[k - 1] \o s[k]]
      BY <2>5
    <2> HIDE DEF h
    <2>7. Upto(n + 1, h)
      BY <2>6
    <2> QED
      BY <2>1, <2>7
  <1>3. T = Nat
    <2> HIDE DEF T
    <2>1. T \subseteq Nat
      BY DEF T
    <2> QED
      BY <1>1, <1>2, <2>1, SetInduction
  <1>4. Len(s) \in T
    BY <1>3, LenProperties
  <1> QED
    BY <1>4 DEF Joins

LEMMA FlattenIs ==
  ASSUME NEW S, NEW s \in Seq(Seq(S)), Len(s) # 0
  PROVE  \E g : Joins(s, g) /\ FlattenSeq(s) = g[Len(s)]
  <1> DEFINE G == CHOOSE g : Joins(s, g)
  <1>1. Joins(s, G)
    BY JoinsExist
  <1>2. FlattenSeq(s) = G[Len(s)]
    BY DEF FlattenSeq, Joins
  <1> QED
    BY <1>1, <1>2

\* Two sequences of sequences join alike as far as they are alike.
LEMMA JoinsAgree ==
  ASSUME NEW S, NEW s \in Seq(Seq(S)), NEW t \in Seq(Seq(S)), Len(t) <= Len(s),
         \A k \in 1..Len(t) : t[k] = s[k],
         NEW g, Joins(s, g), NEW h, Joins(t, h)
  PROVE  \A k \in 1..Len(t) : h[k] = g[k] /\ g[k] \in Seq(S)
  <1> DEFINE T == {n \in Nat : n \in 1..Len(t) => h[n] = g[n] /\ g[n] \in Seq(S)}
  <1>1. Len(s) \in Nat /\ Len(t) \in Nat
    BY LenProperties
  <1>2. 0 \in T
    OBVIOUS
  <1>3. ASSUME NEW n \in T PROVE n + 1 \in T
    <2> DEFINE x == n + 1
    <2>1. SUFFICES ASSUME x \in 1..Len(t) PROVE h[x] = g[x] /\ g[x] \in Seq(S)
      OBVIOUS
    <2>2. n \in Nat /\ x - 1 = n /\ (n # 0 => n \in 1..Len(t)) /\ (x = 1 <=> n = 0)
      BY <1>1, <2>1
    <2>3. n # 0 => h[n] = g[n] /\ g[n] \in Seq(S)
      BY <2>2
    <2> HIDE DEF x, T
    <2>4. x \in 1..Len(s) /\ t[x] = s[x]
      BY <1>1, <2>1
    <2>5. s[x] \in Seq(S)
      BY <2>4, ElementOfSeq
    <2>6. h[x] = IF x = 1 THEN t[x] ELSE h[x - 1] \o t[x]
      BY <2>1, JoinsAt
    <2>7. g[x] = IF x = 1 THEN s[x] ELSE g[x - 1] \o s[x]
      BY <2>4, JoinsAt
    <2>8. n # 0 => g[n] \o s[x] \in Seq(S)
      BY <2>3, <2>5, ConcatProperties
    <2> QED
      BY <2>2, <2>3, <2>4, <2>5, <2>6, <2>7, <2>8
  <1>4. T = Nat
    <2>1. T \subseteq Nat
      OBVIOUS
    <2> HIDE DEF T
    <2> QED
      BY <1>2, <1>3, <2>1, SetInduction
  <1>5. ASSUME NEW k \in 1..Len(t) PROVE h[k] = g[k] /\ g[k] \in Seq(S)
    <2>1. k \in T
      BY <1>1, <1>4, k \in Nat
    <2> QED
      BY <2>1
  <1> QED
    BY <1>5

LEMMA PrefixProperties ==
  ASSUME NEW S, NEW s \in Seq(S), NEW k \in 0..Len(s)
  PROVE  /\ SubSeq(s, 1, k) \in Seq(S)
         /\ Len(SubSeq(s, 1, k)) = k
         /\ \A m \in 1..k : SubSeq(s, 1, k)[m] = s[m]
  <1>1. Len(s) \in Nat /\ k \in Nat
    BY LenProperties
  <1>2. \A m \in 1..k : s[m] \in S
    BY <1>1, ElementOfSeq
  <1>3. /\ SubSeq(s, 1, k) \in Seq(S)
        /\ Len(SubSeq(s, 1, k)) = IF 1 <= k THEN k - 1 + 1 ELSE 0
        /\ \A m \in 1..(k - 1 + 1) : SubSeq(s, 1, k)[m] = s[1 + m - 1]
    BY <1>1, <1>2, SubSeqProperties
  <1>4. k - 1 + 1 = k /\ \A m \in 1..k : 1 + m - 1 = m
    BY <1>1
  <1> QED
    BY <1>1, <1>3, <1>4

\* One sequence more is one concatenation more.
LEMMA FlattenPrefix ==
  ASSUME NEW S, NEW s \in Seq(Seq(S)), NEW k \in 0..Len(s)
  PROVE  /\ FlattenSeq(SubSeq(s, 1, k)) \in Seq(S)
         /\ k = 0 => FlattenSeq(SubSeq(s, 1, k)) = <<>>
         /\ k < Len(s) =>
               FlattenSeq(SubSeq(s, 1, k + 1)) = FlattenSeq(SubSeq(s, 1, k)) \o s[k + 1]
  <1>1. PICK g : Joins(s, g)
    BY JoinsExist
  <1>2. Len(s) \in Nat
    BY LenProperties
  <1>3. ASSUME NEW m \in 1..Len(s)
        PROVE  FlattenSeq(SubSeq(s, 1, m)) = g[m] /\ g[m] \in Seq(S)
    <2> DEFINE t == SubSeq(s, 1, m)
    <2>1. t \in Seq(Seq(S)) /\ Len(t) = m /\ \A n \in 1..m : t[n] = s[n]
      BY <1>2, m \in 0..Len(s), PrefixProperties
    <2> HIDE DEF t
    <2>0. m # 0 /\ m \in 1..Len(t) /\ Len(t) <= Len(s)
      BY <1>2, <2>1
    <2>2. PICK h : Joins(t, h) /\ FlattenSeq(t) = h[m]
      BY <2>0, <2>1, FlattenIs
    <2>3. \A n \in 1..Len(t) : h[n] = g[n] /\ g[n] \in Seq(S)
      BY <1>1, <2>0, <2>1, <2>2, JoinsAgree
    <2> QED
      BY <2>0, <2>2, <2>3 DEF t
  <1>4. FlattenSeq(SubSeq(s, 1, 0)) = <<>>
    <2>1. SubSeq(s, 1, 0) = <<>>
      BY SubSeqEmpty
    <2> QED
      BY <2>1 DEF FlattenSeq
  <1>5. CASE k = 0
    <2>1. FlattenSeq(SubSeq(s, 1, k)) = <<>>
      BY <1>4, <1>5
    <2>2. ASSUME k < Len(s)
          PROVE  FlattenSeq(SubSeq(s, 1, k + 1)) = <<>> \o s[k + 1]
      <3>1. 1 \in 1..Len(s) /\ k + 1 = 1
        BY <1>2, <1>5, <2>2
      <3>2. g[1] = s[1] /\ s[1] \in Seq(S)
        BY <1>1, <3>1, JoinsAt, ElementOfSeq
      <3> QED
        BY <1>3, <3>1, <3>2, ConcatEmptySeq
    <2> QED
      BY <2>1, <2>2, EmptySeq
  <1>6. CASE k # 0
    <2>1. k \in 1..Len(s) /\ k \in Nat
      BY <1>2, <1>6
    <2>2. ASSUME k < Len(s) PROVE g[k + 1] = g[k] \o s[k + 1] /\ k + 1 \in 1..Len(s)
      <3>1. k + 1 \in 1..Len(s) /\ k + 1 - 1 = k /\ k + 1 # 1
        BY <1>2, <2>1, <2>2
      <3>2. PICK n \in 1..Len(s) : n = k + 1
        BY <3>1
      <3>3. g[n] = IF n = 1 THEN s[n] ELSE g[n - 1] \o s[n]
        BY <1>1, JoinsAt
      <3>4. n # 1 /\ n - 1 = k
        BY <3>1, <3>2
      <3>5. g[n] = g[k] \o s[n]
        BY <3>3, <3>4
      <3> QED
        BY <3>1, <3>2, <3>5
    <2> QED
      BY <1>3, <1>6, <2>1, <2>2
  <1> QED
    BY <1>5, <1>6

\* What is joined stays in its place whatever is joined behind it.
LEMMA FlattenKeeps ==
  ASSUME NEW S, NEW s \in Seq(Seq(S)), NEW k \in 0..Len(s)
  PROVE  /\ FlattenSeq(s) \in Seq(S)
         /\ Len(FlattenSeq(SubSeq(s, 1, k))) <= Len(FlattenSeq(s))
         /\ \A m \in 1..Len(FlattenSeq(SubSeq(s, 1, k))) :
               FlattenSeq(s)[m] = FlattenSeq(SubSeq(s, 1, k))[m]
  <1> DEFINE F(n) == FlattenSeq(SubSeq(s, 1, n))
             Kept(n) == /\ Len(F(k)) <= Len(F(n))
                        /\ \A m \in 1..Len(F(k)) : F(n)[m] = F(k)[m]
             T == {d \in Nat : k + d <= Len(s) => Kept(k + d)}
  <1>1. Len(s) \in Nat /\ k \in Nat
    BY LenProperties
  <1>2. \A n \in 0..Len(s) : F(n) \in Seq(S) /\ Len(F(n)) \in Nat
    BY FlattenPrefix, LenProperties
  <1>3. \A n \in 0..Len(s) : n < Len(s) => F(n + 1) = F(n) \o s[n + 1]
    BY FlattenPrefix
  <1> HIDE DEF F
  <1>4. 0 \in T
    BY <1>1, <1>2
  <1>5. ASSUME NEW d \in T PROVE d + 1 \in T
    <2>1. SUFFICES ASSUME k + (d + 1) <= Len(s) PROVE Kept(k + (d + 1))
      OBVIOUS
    <2>2. PICK n \in 0..Len(s) : n = k + d
      BY <1>1, <2>1
    <2>3. n < Len(s) /\ n + 1 = k + (d + 1) /\ n + 1 \in 1..Len(s) /\ k + d <= Len(s)
      BY <1>1, <2>1, <2>2
    <2>4. Kept(n)
      BY <2>2, <2>3
    <2>5. s[n + 1] \in Seq(S)
      BY <2>3, ElementOfSeq
    <2>6. F(n) \in Seq(S) /\ Len(F(n)) \in Nat /\ Len(F(k)) \in Nat /\ Len(s[n + 1]) \in Nat
      BY <1>1, <1>2, <2>5, LenProperties
    <2>7. /\ Len(F(n) \o s[n + 1]) = Len(F(n)) + Len(s[n + 1])
          /\ \A m \in 1..(Len(F(n)) + Len(s[n + 1])) :
                (F(n) \o s[n + 1])[m] =
                    IF m <= Len(F(n)) THEN F(n)[m] ELSE s[n + 1][m - Len(F(n))]
      BY <2>5, <2>6, ConcatProperties
    <2>8. F(n + 1) = F(n) \o s[n + 1]
      BY <1>3, <2>3
    <2>9. Kept(n + 1)
      BY <2>4, <2>6, <2>7, <2>8
    <2> QED
      BY <2>3, <2>9
  <1>6. T = Nat
    <2>1. T \subseteq Nat
      OBVIOUS
    <2> HIDE DEF T
    <2> QED
      BY <1>4, <1>5, <2>1, SetInduction
  <1>7. Kept(Len(s))
    <2>1. \A d \in Nat : k + d <= Len(s) => Kept(k + d)
      BY <1>6
    <2> HIDE DEF T, Kept
    <2>2. PICK d \in Nat : k + d = Len(s)
      <3>1. Len(s) - k \in Nat /\ k + (Len(s) - k) = Len(s)
        BY <1>1
      <3> QED
        BY <3>1
    <2>3. k + d <= Len(s)
      BY <1>1, <2>2
    <2>4. Kept(k + d)
      BY <2>1, <2>3
    <2> QED
      BY <2>2, <2>4, Zenon
  <1>8. F(Len(s)) = FlattenSeq(s)
    <2>1. SubSeq(s, 1, Len(s)) = s
      BY SubSeqFull
    <2> QED
      BY <2>1 DEF F
  <1>9. F(Len(s)) \in Seq(S)
    BY <1>1, <1>2
  <1> QED
    BY <1>7, <1>8, <1>9 DEF F

\* The next piece begins behind the first k and lies within the whole.
InPlace(S, s, k, start) ==
    /\ s[k + 1] \in Seq(S)
    /\ start \in Nat /\ Len(s[k + 1]) \in Nat
    /\ Len(FlattenSeq(SubSeq(s, 1, k + 1))) = start + Len(s[k + 1])
    /\ start + Len(s[k + 1]) <= Len(FlattenSeq(s))
    /\ \A m \in 1..Len(s[k + 1]) : FlattenSeq(s)[start + m] = s[k + 1][m]

LEMMA PieceInPlace ==
  ASSUME NEW S, NEW s \in Seq(Seq(S)), NEW k \in Nat, k < Len(s)
  PROVE  InPlace(S, s, k, Len(FlattenSeq(SubSeq(s, 1, k))))
  <1> DEFINE A == FlattenSeq(SubSeq(s, 1, k))
             B == FlattenSeq(SubSeq(s, 1, k + 1))
             W == FlattenSeq(s)
             P == s[k + 1]
  <1>1. k \in 0..Len(s) /\ k + 1 \in 0..Len(s) /\ k + 1 \in 1..Len(s)
    BY LenProperties
  <1>2. A \in Seq(S) /\ P \in Seq(S) /\ B = A \o P
    BY <1>1, FlattenPrefix, ElementOfSeq
  <1>3. /\ Len(B) <= Len(W)
        /\ \A m \in 1..Len(B) : W[m] = B[m]
    BY <1>1, FlattenKeeps
  <1> HIDE DEF A, B, W, P
  <1>4. Len(A) \in Nat /\ Len(P) \in Nat
    BY <1>2, LenProperties
  <1>5. /\ Len(B) = Len(A) + Len(P)
        /\ \A m \in 1..(Len(A) + Len(P)) :
              B[m] = IF m <= Len(A) THEN A[m] ELSE P[m - Len(A)]
    BY <1>2, ConcatProperties
  <1>6. ASSUME NEW m \in 1..Len(P) PROVE W[Len(A) + m] = P[m]
    <2>1. PICK n \in 1..(Len(A) + Len(P)) : n = Len(A) + m
      BY <1>4
    <2>2. ~(n <= Len(A)) /\ n - Len(A) = m
      BY <1>4, <2>1
    <2>3. W[n] = B[n] /\ B[n] = P[m]
      BY <1>3, <1>5, <2>2
    <2> QED
      BY <2>1, <2>3
  <1> QED
    BY <1>2, <1>3, <1>4, <1>5, <1>6 DEF InPlace, A, B, W, P

----------------------------------------------------------------------------
\* The bytes of a frame.

LEMMA Slice ==
  ASSUME NEW S, NEW s \in Seq(S), NEW m \in Nat \ {0}, NEW n \in Nat,
         NEW len \in Nat, n = m + len - 1, n <= Len(s)
  PROVE  /\ SubSeq(s, m, n) \in Seq(S)
         /\ Len(SubSeq(s, m, n)) = len
         /\ \A q \in 1..len : SubSeq(s, m, n)[q] = s[m + q - 1]
  <1>1. Len(s) \in Nat
    BY LenProperties
  <1>2. \A q \in m..n : s[q] \in S
    BY <1>1, ElementOfSeq
  <1>3. /\ SubSeq(s, m, n) \in Seq(S)
        /\ Len(SubSeq(s, m, n)) = IF m <= n THEN n - m + 1 ELSE 0
        /\ \A q \in 1..(n - m + 1) : SubSeq(s, m, n)[q] = s[m + q - 1]
    BY <1>2, SubSeqProperties
  <1> QED
    BY <1>3

\* The bytes f of a frame, one by one.
Framed(f, op, p) ==
    /\ f \in Seq(Byte \cup {Checksum(op, p)}) /\ Len(f) = Len(p) + 6
    /\ f[1] = RespStart /\ f[2] = RespStart /\ f[3] = op /\ f[4] = Len(p) % 256
    /\ \A m \in 1..Len(p) : f[4 + m] = p[m]
    /\ f[Len(p) + 5] = Checksum(op, p) /\ f[Len(p) + 6] = FrameEnd

LEMMA FrameProperties ==
  ASSUME NEW op \in Byte, NEW p \in Seq(Byte)
  PROVE  Framed(Frame(RespStart, op, p), op, p)
  <1> DEFINE f == Frame(RespStart, op, p)
  <1> DEFINE c == Checksum(op, p)
             S == Byte \cup {c}
             head == <<RespStart, RespStart, op, Len(p) % 256>>
             tail == <<c, FrameEnd>>
  <1>1. Len(p) \in Nat /\ Len(p) % 256 \in Byte
    <2>1. Len(p) \in Nat
      BY LenProperties
    <2>2. \A n \in Nat : n % 256 \in 0..255
      OBVIOUS
    <2> QED
      BY <2>1, <2>2 DEF Byte
  <1> HIDE DEF c, f
  <1>2. RespStart \in S /\ FrameEnd \in S /\ op \in S /\ Len(p) % 256 \in S /\ c \in S
    BY <1>1 DEF Byte, RespStart, FrameEnd
  <1>3. p \in Seq(S)
    BY SeqMonotonic
  <1> HIDE DEF S
  <1>4. /\ head \in Seq(S) /\ Len(head) = 4
        /\ head[1] = RespStart /\ head[2] = RespStart /\ head[3] = op
        /\ head[4] = Len(p) % 256
    BY <1>2
  <1>5. tail \in Seq(S) /\ Len(tail) = 2 /\ tail[1] = c /\ tail[2] = FrameEnd
    BY <1>2
  <1> HIDE DEF head, tail
  <1>6. /\ head \o p \in Seq(S) /\ Len(head \o p) = Len(head) + Len(p)
        /\ \A m \in 1..(Len(head) + Len(p)) :
              (head \o p)[m] = IF m <= Len(head) THEN head[m] ELSE p[m - Len(head)]
    <2>1. head \in Seq(S)
      BY <1>4
    <2> QED
      BY <1>3, <2>1, ConcatProperties
  <1> DEFINE front == head \o p
  <1> HIDE DEF front
  <1>7. /\ front \in Seq(S) /\ Len(front) = 4 + Len(p)
        /\ \A m \in 1..(4 + Len(p)) : front[m] = IF m <= 4 THEN head[m] ELSE p[m - 4]
    BY <1>4, <1>6 DEF front
  <1>8. /\ f \in Seq(S) /\ Len(f) = Len(front) + Len(tail)
        /\ \A m \in 1..(Len(front) + Len(tail)) :
              f[m] = IF m <= Len(front) THEN front[m] ELSE tail[m - Len(front)]
    <2>1. f = front \o tail
      BY DEF f, Frame, front, head, tail, c
    <2>2. front \in Seq(S) /\ tail \in Seq(S)
      BY <1>5, <1>7
    <2>3. /\ front \o tail \in Seq(S) /\ Len(front \o tail) = Len(front) + Len(tail)
          /\ \A m \in 1..(Len(front) + Len(tail)) :
                (front \o tail)[m] =
                    IF m <= Len(front) THEN front[m] ELSE tail[m - Len(front)]
      BY <2>2, ConcatProperties
    <2> QED
      BY <2>1, <2>3
  <1>9. /\ Len(f) = Len(p) + 6
        /\ \A m \in 1..(Len(p) + 4) : f[m] = IF m <= 4 THEN head[m] ELSE p[m - 4]
        /\ \A m \in (Len(p) + 5)..(Len(p) + 6) : f[m] = tail[m - (Len(p) + 4)]
    BY <1>1, <1>5, <1>7, <1>8
  <1>10. ASSUME NEW m \in 1..Len(p) PROVE f[4 + m] = p[m]
    <2>1. 4 + m \in 1..(Len(p) + 4) /\ ~(4 + m <= 4) /\ 4 + m - 4 = m
      BY <1>1
    <2> QED
      BY <1>9, <2>1
  <1>11. f[Len(p) + 5] = tail[1] /\ f[Len(p) + 6] = tail[2]
    <2>1. /\ Len(p) + 5 \in (Len(p) + 5)..(Len(p) + 6)
          /\ Len(p) + 6 \in (Len(p) + 5)..(Len(p) + 6)
          /\ Len(p) + 5 - (Len(p) + 4) = 1 /\ Len(p) + 6 - (Len(p) + 4) = 2
      BY <1>1
    <2> QED
      BY <1>9, <2>1
  <1>12. f[1] = head[1] /\ f[2] = head[2] /\ f[3] = head[3] /\ f[4] = head[4]
    <2>1. \A m \in 1..4 : m \in 1..(Len(p) + 4) /\ m <= 4
      BY <1>1
    <2> QED
      BY <1>9, <2>1
  <1> QED
    BY <1>1, <1>4, <1>5, <1>8, <1>9, <1>10, <1>11, <1>12 DEF S, c, f, Framed

\* What the loop checks of the bytes at a position, for a payload of n bytes.
Checked(j, n) ==
    /\ Header(j) /\ buf[j + 3] = n /\ buf[j + n + 5] = FrameEnd
    /\ Checksum(buf[j + 2], SubSeq(buf, j + 4, j + n + 3)) = buf[j + n + 4]

LEMMA FrameAtBytes ==
  ASSUME buf \in Seq(Byte), NEW j \in Nat \ {0}, NEW n \in Byte, j + n + 5 <= Len(buf)
  PROVE  FrameAt(j, n) <=> Checked(j, n)
  <1> DEFINE p == SubSeq(buf, j + 4, j + n + 3)
             op == buf[j + 2]
             f == Frame(RespStart, op, p)
             cut == SubSeq(buf, j, j + n + 5)
             S == Byte \cup {Checksum(op, p)}
  <1>1. Len(buf) \in Nat /\ n \in Nat /\ n % 256 = n
    <2>1. \A m \in 0..255 : m \in Nat /\ m % 256 = m
      OBVIOUS
    <2>2. n \in 0..255
      BY DEF Byte
    <2>3. Len(buf) \in Nat
      BY LenProperties
    <2> QED
      BY <2>1, <2>2, <2>3
  <1>2. /\ p \in Seq(Byte) /\ Len(p) = n /\ op \in Byte
        /\ \A m \in 1..n : p[m] = buf[j + 3 + m]
    <2>1. /\ j + 4 \in Nat \ {0} /\ j + n + 3 \in Nat
          /\ j + n + 3 = j + 4 + n - 1 /\ j + n + 3 <= Len(buf)
          /\ \A m \in 1..n : j + 4 + m - 1 = j + 3 + m
          /\ j + 2 \in 1..Len(buf)
      BY <1>1
    <2>2. /\ SubSeq(buf, j + 4, j + n + 3) \in Seq(Byte)
          /\ Len(SubSeq(buf, j + 4, j + n + 3)) = n
          /\ \A m \in 1..n : SubSeq(buf, j + 4, j + n + 3)[m] = buf[j + 4 + m - 1]
      <3> DEFINE a == j + 4
                 b == j + n + 3
      <3>1. a \in Nat \ {0} /\ b \in Nat /\ b = a + n - 1 /\ b <= Len(buf)
        BY <2>1
      <3> HIDE DEF a, b
      <3>2. /\ SubSeq(buf, a, b) \in Seq(Byte) /\ Len(SubSeq(buf, a, b)) = n
            /\ \A q \in 1..n : SubSeq(buf, a, b)[q] = buf[a + q - 1]
        BY <1>1, <3>1, Slice
      <3> QED
        BY <3>2 DEF a, b
    <2>3. buf[j + 2] \in Byte
      BY <2>1, ElementOfSeq
    <2> QED
      BY <2>1, <2>2, <2>3
  <1>3. /\ cut \in Seq(Byte) /\ Len(cut) = n + 6
        /\ \A m \in 1..(n + 6) : cut[m] = buf[j + m - 1]
    <2>1. j + n + 5 \in Nat /\ n + 6 \in Nat /\ j + n + 5 = j + (n + 6) - 1
      BY <1>1
    <2> DEFINE b == j + n + 5
               len == n + 6
    <2>2. b \in Nat /\ len \in Nat /\ b = j + len - 1 /\ b <= Len(buf)
      BY <2>1
    <2> HIDE DEF b, len
    <2>3. /\ SubSeq(buf, j, b) \in Seq(Byte) /\ Len(SubSeq(buf, j, b)) = len
          /\ \A q \in 1..len : SubSeq(buf, j, b)[q] = buf[j + q - 1]
      BY <2>2, Slice
    <2> QED
      BY <2>3 DEF b, len
  <1>4. FrameAt(j, n) <=> cut = f
    BY DEF FrameAt
  <1>5. Checked(j, n) <=>
            /\ buf[j] = RespStart /\ buf[j + 1] = RespStart
            /\ buf[j + 3] = n /\ buf[j + n + 5] = FrameEnd
            /\ Checksum(op, p) = buf[j + n + 4]
    BY DEF Checked, Header
  <1> HIDE DEF p, op, f, cut, S
  <1>6. /\ f \in Seq(S) /\ Len(f) = n + 6
        /\ f[1] = RespStart /\ f[2] = RespStart /\ f[3] = op /\ f[4] = n
        /\ \A m \in 1..n : f[4 + m] = p[m]
        /\ f[n + 5] = Checksum(op, p) /\ f[n + 6] = FrameEnd
    <2>1. Framed(f, op, p)
      BY <1>2, FrameProperties DEF f
    <2> QED
      BY <1>1, <1>2, <2>1 DEF Framed, S
  <1>7. /\ cut[1] = buf[j] /\ cut[2] = buf[j + 1] /\ cut[3] = op /\ cut[4] = buf[j + 3]
        /\ \A m \in 1..n : cut[4 + m] = p[m]
        /\ cut[n + 5] = buf[j + n + 4] /\ cut[n + 6] = buf[j + n + 5]
    <2>1. /\ cut[1] = buf[j + 1 - 1] /\ cut[2] = buf[j + 2 - 1] /\ cut[3] = buf[j + 3 - 1]
          /\ cut[4] = buf[j + 4 - 1] /\ cut[n + 5] = buf[j + (n + 5) - 1]
          /\ cut[n + 6] = buf[j + (n + 6) - 1]
      BY <1>1, <1>3
    <2>2. \A m \in 1..n : cut[4 + m] = buf[j + 3 + m]
      <3>1. \A m \in 1..n : 4 + m \in 1..(n + 6) /\ j + (4 + m) - 1 = j + 3 + m
        BY <1>1
      <3> QED
        BY <1>3, <3>1
    <2>3. /\ j + 1 - 1 = j /\ j + 2 - 1 = j + 1 /\ j + 3 - 1 = j + 2 /\ j + 4 - 1 = j + 3
          /\ j + (n + 5) - 1 = j + n + 4 /\ j + (n + 6) - 1 = j + n + 5
      BY <1>1
    <2> QED
      BY <1>2, <2>1, <2>2, <2>3 DEF op
  <1>8. cut = f => Checked(j, n)
    BY <1>5, <1>6, <1>7
  <1>9. ASSUME Checked(j, n) PROVE cut = f
    <2>1. \A m \in 1..(n + 6) :
             \/ m \in {1, 2, 3, 4} \/ m = n + 5 \/ m = n + 6
             \/ \E q \in 1..n : m = 4 + q
      <3>1. ASSUME NEW m \in 1..(n + 6), m > 4, m < n + 5 PROVE \E q \in 1..n : m = 4 + q
        <4>1. m - 4 \in 1..n /\ m = 4 + (m - 4)
          BY <1>1, <3>1
        <4> QED
          BY <4>1
      <3> QED
        BY <1>1, <3>1
    <2>2. ASSUME NEW m \in 1..(n + 6) PROVE cut[m] = f[m]
      <3>1. CASE m \in {1, 2, 3, 4}
        BY <1>5, <1>6, <1>7, <1>9, <3>1
      <3>2. CASE m = n + 5 \/ m = n + 6
        BY <1>5, <1>6, <1>7, <1>9, <3>2
      <3>3. ASSUME NEW q \in 1..n, m = 4 + q PROVE cut[m] = f[m]
        <4>1. cut[4 + q] = f[4 + q]
          BY <1>6, <1>7
        <4> QED
          BY <3>3, <4>1, Zenon
      <3> QED
        BY <2>1, <3>1, <3>2, <3>3
    <2>3. cut \in Seq(S) /\ Len(cut) = Len(f)
      BY <1>3, <1>6, SeqMonotonic DEF S
    <2>4. Len(cut) = n + 6
      BY <1>3
    <2> QED
      BY <1>6, <2>2, <2>3, <2>4, SeqEqual
  <1> QED
    BY <1>4, <1>8, <1>9

\* The loop recognises exactly the frames.
LEMMA LoopFindsFrames ==
  ASSUME buf \in Seq(Byte), NEW j \in Nat \ {0}, j + 5 <= Len(buf)
  PROVE  /\ SomeFrameAt(j) <=> Header(j) /\ Fits(j) /\ Intact(j)
         /\ buf[j + 3] \in Byte
         /\ Fits(j) => Payload(j) \in Seq(Byte) /\ Len(Payload(j)) = buf[j + 3]
         /\ Header(j) /\ Fits(j) /\ Intact(j) => FrameAt(j, buf[j + 3])
  <1> DEFINE n == buf[j + 3]
  <1>1. Len(buf) \in Nat /\ n \in Byte /\ n \in Nat
    <2>1. Len(buf) \in Nat /\ j + 3 \in 1..Len(buf)
      BY LenProperties
    <2>2. n \in Byte
      BY <2>1, ElementOfSeq
    <2>3. \A b \in Byte : b \in Nat
      BY DEF Byte
    <2> QED
      BY <2>1, <2>2, <2>3
  <1>2. Fits(j) <=> j + n + 5 <= Len(buf)
    BY <1>1 DEF Fits, Total
  <1>3. /\ j + Total(j) - 1 = j + n + 5 /\ j + Total(j) - 2 = j + n + 4
        /\ j + 3 + n = j + n + 3
    <2>1. Total(j) = 6 + n
      BY DEF Total
    <2>2. \A a, b \in Nat : /\ a + (6 + b) - 1 = a + b + 5 /\ a + (6 + b) - 2 = a + b + 4
                            /\ a + 3 + b = a + b + 3
      OBVIOUS
    <2>3. j \in Nat /\ n \in Nat
      BY <1>1
    <2> HIDE DEF n
    <2> QED
      BY <2>1, <2>2, <2>3
  <1>4. Header(j) /\ Intact(j) <=> Checked(j, n)
    BY <1>3 DEF Intact, Checked, Payload
  <1>5. Fits(j) => (FrameAt(j, n) <=> Checked(j, n))
    BY <1>1, <1>2, FrameAtBytes
  <1>6. ASSUME NEW m \in Byte, FrameAt(j, m) PROVE m = n
    <2>1. j + m + 5 <= Len(buf)
      BY <1>6 DEF FrameAt
    <2>2. Checked(j, m)
      BY <1>6, <2>1, FrameAtBytes
    <2> QED
      BY <2>2 DEF Checked
  <1>7. SomeFrameAt(j) <=> FrameAt(j, n)
    BY <1>1, <1>6 DEF SomeFrameAt
  <1>8. FrameAt(j, n) => Fits(j)
    BY <1>2 DEF FrameAt
  <1>9. ASSUME Fits(j) PROVE Payload(j) \in Seq(Byte) /\ Len(Payload(j)) = n
    <2>1. /\ j + 4 \in Nat \ {0} /\ j + 3 + n \in Nat
          /\ j + 3 + n = j + 4 + n - 1 /\ j + 3 + n <= Len(buf)
      BY <1>1, <1>2, <1>9
    <2> DEFINE a == j + 4
               b == j + 3 + n
               len == n
    <2>2. /\ a \in Nat \ {0} /\ b \in Nat /\ len \in Nat
          /\ b = a + len - 1 /\ b <= Len(buf)
      BY <1>1, <2>1
    <2>3. Payload(j) = SubSeq(buf, a, b)
      BY DEF Payload
    <2> HIDE DEF a, b, len
    <2>4. SubSeq(buf, a, b) \in Seq(Byte) /\ Len(SubSeq(buf, a, b)) = len
      BY <2>2, Slice
    <2> QED
      BY <2>3, <2>4 DEF len
  <1> QED
    BY <1>1, <1>4, <1>5, <1>7, <1>8, <1>9

----------------------------------------------------------------------------
\* The scan, step by step.

Notes == [at : 1..Len(buf), opcode : Byte, payload : Seq(Byte)]

LEMMA InitType == Init => TypeOK /\ parts \in Seq(Seq(Byte))
  <1> SUFFICES ASSUME Init PROVE TypeOK /\ parts \in Seq(Seq(Byte))
    OBVIOUS
  <1>1. parts \in Seq(Pieces)
    <2>1. PICK n \in 0..MaxPieces : parts \in [1..n -> Pieces]
      BY DEF Init, BoundedSeq, SeqOf
    <2> QED
      BY <2>1, SeqDef
  <1>2. parts \in Seq(Seq(Byte))
    BY <1>1, SeqMonotonic
  <1>3. buf \in Seq(Byte) /\ Len(buf) \in Nat
    <2>1. 0 \in 0..Len(parts)
      BY <1>2, LenProperties
    <2>2. FlattenSeq(parts) \in Seq(Byte)
      BY <1>2, <2>1, FlattenKeeps
    <2> QED
      BY <2>2, LenProperties DEF Init
  <1>4. out \in Seq(Notes)
    BY DEF Init
  <1> QED
    BY <1>1, <1>2, <1>3, <1>4 DEF Init, TypeOK, Notes

\* What a found frame adds.
LEMMA EmitAdds ==
  ASSUME TypeOK, Emit
  PROVE  /\ UNCHANGED <<parts, buf, state>> /\ i + 5 <= Len(buf)
         /\ Len(out) \in Nat /\ out' \in Seq(Notes) /\ Len(out') = Len(out) + 1
         /\ \A k \in 1..Len(out) : out'[k] = out[k]
         /\ out'[Len(out) + 1] = [at |-> i, opcode |-> buf[i + 2], payload |-> Payload(i)]
         /\ Payload(i) \in Seq(Byte) /\ Len(Payload(i)) \in Byte
         /\ FrameAt(i, Len(Payload(i)))
         /\ i' = i + 6 + Len(Payload(i)) /\ i' \in 1..(Len(buf) + 1)
  <1> DEFINE n == buf[i + 3]
             note == [at |-> i, opcode |-> buf[i + 2], payload |-> Payload(i)]
  <1>1. /\ UNCHANGED <<parts, buf, state>> /\ out' = Append(out, note)
        /\ i' = i + Total(i) /\ Header(i) /\ Fits(i) /\ Intact(i) /\ i + 5 <= Len(buf)
    BY DEF Emit, InRange
  <1>2. buf \in Seq(Byte) /\ i \in Nat \ {0} /\ Len(buf) \in Nat /\ i \in 1..Len(buf)
    <2>1. buf \in Seq(Byte) /\ i \in 1..(Len(buf) + 1)
      BY DEF TypeOK
    <2>2. Len(buf) \in Nat
      BY <2>1, LenProperties
    <2> QED
      BY <1>1, <2>1, <2>2
  <1>3. /\ n \in Byte /\ n \in Nat
        /\ Payload(i) \in Seq(Byte) /\ Len(Payload(i)) = n /\ FrameAt(i, n)
    BY <1>1, <1>2, LoopFindsFrames DEF Byte
  <1>4. buf[i + 2] \in Byte
    <2>1. i + 2 \in 1..Len(buf)
      BY <1>1, <1>2
    <2> QED
      BY <1>2, <2>1, ElementOfSeq
  <1>5. i' = i + 6 + n /\ i' \in 1..(Len(buf) + 1)
    <2>1. Total(i) = 6 + n
      BY DEF Total
    <2>2. i' = i + (6 + n) /\ i + (6 + n) - 1 <= Len(buf)
      BY <1>1, <2>1 DEF Fits
    <2>3. \A a, b, c \in Nat : a + (6 + b) = a + 6 + b
                               /\ (a + (6 + b) - 1 <= c => a + 6 + b \in 1..(c + 1))
      OBVIOUS
    <2> QED
      BY <1>2, <1>3, <2>2, <2>3
  <1>6. note \in Notes /\ out \in Seq(Notes)
    BY <1>2, <1>3, <1>4 DEF Notes, TypeOK
  <1> HIDE DEF note, n
  <1>7. /\ out' \in Seq(Notes) /\ Len(out') = Len(out) + 1
        /\ \A k \in 1..Len(out) : out'[k] = out[k]
        /\ out'[Len(out) + 1] = note
    BY <1>1, <1>6, AppendProperties
  <1>8. Len(out) \in Nat
    BY <1>6, LenProperties
  <1> QED
    BY <1>1, <1>3, <1>5, <1>7, <1>8 DEF note

\* What the other steps leave alone.
LEMMA OtherSteps ==
  ASSUME TypeOK, [Next]_vars
  PROVE  \/ Emit
         \/ /\ UNCHANGED <<parts, buf, out>> /\ i' \in 1..(Len(buf) + 1)
            /\ \/ i' = i
               \/ /\ i' = i + 1 /\ i + 5 <= Len(buf) /\ state = "scan" /\ state' = "scan"
                  /\ ~(Header(i) /\ Fits(i) /\ Intact(i))
  <1>1. Len(buf) \in Nat /\ i \in 1..(Len(buf) + 1)
    BY LenProperties DEF TypeOK
  <1>2. CASE Skip \/ Reject
    BY <1>1, <1>2 DEF Skip, Reject, InRange
  <1>3. CASE Cut \/ Finish \/ UNCHANGED vars
    BY <1>1, <1>3 DEF Cut, Finish, vars
  <1> QED
    BY <1>2, <1>3 DEF Next

LEMMA StepType ==
  ASSUME TypeOK, [Next]_vars
  PROVE  TypeOK'
  <1>1. state' \in {"scan", "cut", "end"}
    BY DEF TypeOK, Next, Skip, Cut, Reject, Emit, Finish, vars
  <1>2. CASE Emit
    BY <1>1, <1>2, EmitAdds DEF TypeOK, Notes
  <1>3. CASE ~Emit
    BY <1>1, <1>3, OtherSteps DEF TypeOK
  <1> QED
    BY <1>2, <1>3

\* Every variable keeps its type, for any pieces: whatever a length byte announces, the scan
\* never stands beyond the end of the value, and opcode and payload of what it finds are bytes
\* of it (packet.go:42-63).
THEOREM TypeCorrect == Spec => []TypeOK
  <1>1. Init => TypeOK
    BY InitType
  <1>2. TypeOK /\ [Next]_vars => TypeOK'
    BY StepType
  <1> QED
    BY <1>1, <1>2, PTL DEF Spec

----------------------------------------------------------------------------
\* What is found are frames, one behind the other.

LEMMA StepFound ==
  ASSUME TypeOK, FoundInv, [Next]_vars
  PROVE  FoundInv'
  <1> DEFINE Whole(k) == /\ FrameAt(out[k].at, Len(out[k].payload))
                         /\ out[k].opcode = buf[out[k].at + 2]
             Apart(k) == out[k].at >= out[k - 1].at + 6 + Len(out[k - 1].payload)
  <1>1. Len(out) \in Nat /\ DOMAIN out = 1..Len(out)
    BY LenProperties DEF TypeOK
  <1>2. /\ \A k \in 1..Len(out) : Whole(k)
        /\ \A k \in 1..Len(out) : k # 1 => Apart(k)
        /\ out # <<>> => After(out[Len(out)]) <= i
    BY <1>1 DEF FoundInv, OnlyFrames
  <1>3. CASE ~Emit
    <2>1. UNCHANGED <<buf, out>> /\ (i' = i \/ i' = i + 1)
      BY <1>3, OtherSteps
    <2>2. OnlyFrames'
      BY <2>1 DEF FoundInv, OnlyFrames, FrameAt
    <2>3. ASSUME out # <<>> PROVE After(out[Len(out)]) <= i'
      <3>1. Len(out) \in 1..Len(out)
        BY <1>1, <2>3, EmptySeq DEF TypeOK
      <3>2. out[Len(out)] \in Notes
        BY <3>1, ElementOfSeq DEF TypeOK, Notes
      <3>3. out[Len(out)].at \in Nat /\ Len(out[Len(out)].payload) \in Nat /\ i \in Nat
        <4>1. out[Len(out)].at \in Nat /\ out[Len(out)].payload \in Seq(Byte)
          BY <3>2 DEF Notes
        <4>2. i \in 1..(Len(buf) + 1) /\ Len(buf) \in Nat
          BY LenProperties DEF TypeOK
        <4> QED
          BY <4>1, <4>2, LenProperties
      <3> QED
        BY <1>2, <2>1, <2>3, <3>3 DEF After
    <2> QED
      BY <2>1, <2>2, <2>3 DEF FoundInv, After
  <1>4. CASE Emit
    <2> DEFINE note == [at |-> i, opcode |-> buf[i + 2], payload |-> Payload(i)]
               last == Len(out) + 1
    <2>1. /\ buf' = buf /\ out' \in Seq(Notes) /\ Len(out') = last
          /\ \A k \in 1..Len(out) : out'[k] = out[k]
          /\ out'[last] = note
          /\ Len(Payload(i)) \in Byte
          /\ FrameAt(i, Len(Payload(i))) /\ i' = i + 6 + Len(Payload(i))
      BY <1>4, EmitAdds
    <2>2. DOMAIN out' = 1..last /\ out' # <<>>
      BY <1>1, <2>1, LenProperties
    <2>3. note.at = i /\ note.opcode = buf[i + 2] /\ note.payload = Payload(i)
      OBVIOUS
    <2> HIDE DEF note
    <2>4. \A j, n : FrameAt(j, n)' <=> FrameAt(j, n)
      BY <2>1 DEF FrameAt
    <2>5. ASSUME NEW k \in 1..last
          PROVE  /\ FrameAt(out'[k].at, Len(out'[k].payload))
                 /\ out'[k].opcode = buf[out'[k].at + 2]
      <3>1. CASE k = last
        BY <2>1, <2>3, <3>1
      <3>2. CASE k # last
        <4>1. k \in 1..Len(out)
          BY <1>1, <3>2
        <4> QED
          BY <1>2, <2>1, <4>1
      <3> QED
        BY <3>1, <3>2
    <2>6. ASSUME NEW k \in 1..last, k # 1
          PROVE  out'[k].at >= out'[k - 1].at + 6 + Len(out'[k - 1].payload)
      <3>1. CASE k = last
        <4>1. Len(out) \in 1..Len(out) /\ k - 1 = Len(out) /\ out # <<>>
          BY <1>1, <2>6, <3>1
        <4>2. out'[k].at = i /\ out'[k - 1] = out[Len(out)]
          BY <2>1, <2>3, <3>1, <4>1
        <4>3. out[Len(out)].at + 6 + Len(out[Len(out)].payload) <= i
          BY <1>2, <4>1 DEF After
        <4>4. /\ i \in Nat /\ out[Len(out)].at \in Nat /\ Len(out[Len(out)].payload) \in Nat
          <5>1. out[Len(out)] \in Notes
            BY <4>1, ElementOfSeq DEF TypeOK, Notes
          <5>2. out[Len(out)].at \in Nat /\ out[Len(out)].payload \in Seq(Byte)
            BY <5>1 DEF Notes
          <5>3. i \in 1..(Len(buf) + 1) /\ Len(buf) \in Nat
            BY LenProperties DEF TypeOK
          <5> QED
            BY <5>2, <5>3, LenProperties
        <4> QED
          BY <4>2, <4>3, <4>4
      <3>2. CASE k # last
        <4>1. k \in 1..Len(out) /\ k - 1 \in 1..Len(out)
          BY <1>1, <2>6, <3>2
        <4> QED
          BY <1>2, <2>1, <2>6, <4>1
      <3> QED
        BY <3>1, <3>2
    <2>7. After(out'[last]) <= i'
      <3>1. i' = i + 6 + Len(Payload(i)) /\ i' \in Nat
        <4>1. i' \in 1..(Len(buf) + 1) /\ Len(buf) \in Nat
          BY <1>4, EmitAdds, LenProperties DEF TypeOK
        <4> QED
          BY <2>1, <4>1
      <3> QED
        BY <2>1, <2>3, <3>1 DEF After
    <2>8. OnlyFrames'
      BY <2>1, <2>2, <2>5, <2>6 DEF OnlyFrames, FrameAt
    <2> QED
      BY <2>1, <2>7, <2>8 DEF FoundInv, After
  <1> QED
    BY <1>3, <1>4

----------------------------------------------------------------------------
\* No frame is passed over.

LEMMA StepPassed ==
  ASSUME TypeOK, NothingPassedOver, [Next]_vars
  PROVE  NothingPassedOver'
  <1>1. /\ buf \in Seq(Byte) /\ Len(buf) \in Nat /\ i \in Nat \ {0}
        /\ Len(out) \in Nat /\ DOMAIN out = 1..Len(out)
    <2>1. buf \in Seq(Byte) /\ out \in Seq(Notes) /\ i \in 1..(Len(buf) + 1)
      BY DEF TypeOK, Notes
    <2>2. Len(buf) \in Nat
      BY <2>1, LenProperties
    <2> QED
      BY <2>1, <2>2, LenProperties
  <1>2. CASE ~Emit
    <2>1. /\ UNCHANGED <<buf, out>>
          /\ i' = i \/ (i' = i + 1 /\ i + 5 <= Len(buf) /\ ~(Header(i) /\ Fits(i) /\ Intact(i)))
      BY <1>2, OtherSteps
    <2>2. \A j : (SomeFrameAt(j)' <=> SomeFrameAt(j)) /\ (Covered(j)' <=> Covered(j))
      BY <2>1 DEF SomeFrameAt, FrameAt, Covered
    <2>3. i' = i + 1 => ~SomeFrameAt(i) \/ i' = i
      BY <1>1, <2>1, LoopFindsFrames
    <2>4. \A j \in 1..(i' - 1) : j \in 1..(i - 1) \/ (j = i /\ i' = i + 1)
      BY <1>1, <2>1
    <2>5. \A j \in 1..(i' - 1) : SomeFrameAt(j) => Covered(j)
      BY <1>1, <2>3, <2>4 DEF NothingPassedOver
    <2> QED
      BY <2>2, <2>5 DEF NothingPassedOver
  <1>3. CASE Emit
    <2> DEFINE note == [at |-> i, opcode |-> buf[i + 2], payload |-> Payload(i)]
               last == Len(out) + 1
    <2>1. /\ buf' = buf /\ out' \in Seq(Notes) /\ Len(out') = last
          /\ \A k \in 1..Len(out) : out'[k] = out[k]
          /\ out'[last] = note
          /\ i' = i + 6 + Len(Payload(i)) /\ i' \in 1..(Len(buf) + 1)
      BY <1>3, EmitAdds
    <2>2. DOMAIN out' = 1..last
      BY <2>1, LenProperties
    <2>3. note.at = i /\ note.payload = Payload(i)
      OBVIOUS
    <2> HIDE DEF note
    <2>4. \A j : SomeFrameAt(j)' <=> SomeFrameAt(j)
      BY <2>1 DEF SomeFrameAt, FrameAt
    <2>5. ASSUME NEW j \in 1..(i' - 1), SomeFrameAt(j) PROVE Covered(j)'
      <3>1. CASE j \in 1..(i - 1)
        <4>1. PICK k \in 1..Len(out) :
                 out[k].at <= j /\ j < out[k].at + 6 + Len(out[k].payload)
          BY <1>1, <2>5, <3>1 DEF NothingPassedOver, Covered
        <4>2. k \in DOMAIN out' /\ out'[k] = out[k]
          BY <1>1, <2>1, <2>2
        <4> QED
          BY <4>1, <4>2 DEF Covered
      <3>2. CASE j >= i
        <4>1. last \in DOMAIN out' /\ out'[last].at = i /\ out'[last].payload = Payload(i)
          BY <1>1, <2>1, <2>2, <2>3
        <4>2. i <= j /\ j < i + 6 + Len(Payload(i))
          BY <1>1, <2>1, <2>5, <3>2
        <4> QED
          BY <4>1, <4>2 DEF Covered
      <3> QED
        BY <1>1, <2>1, <3>1, <3>2
    <2> QED
      BY <2>4, <2>5 DEF NothingPassedOver
  <1> QED
    BY <1>2, <1>3

----------------------------------------------------------------------------
\* A value of whole frames decodes to them.

\* What the scan finds where the next frame of such a value begins.
LEMMA NextPiece ==
  ASSUME TypeOK, buf = FlattenSeq(parts), CleanInv, AllFrames, Len(out) < Len(parts),
         NEW piece, piece = parts[Len(out) + 1]
  PROVE  /\ piece = Frame(RespStart, buf[i + 2], Payload(i))
         /\ Len(piece) = 6 + Len(Payload(i))
         /\ Len(FlattenSeq(SubSeq(parts, 1, Len(out) + 1))) = i + Len(piece) - 1
         /\ i + 5 <= Len(buf) /\ Header(i) /\ Fits(i) /\ Intact(i)
  <1> DEFINE start == Len(FlattenSeq(SubSeq(parts, 1, Len(out))))
             n == Len(piece) - 6
  <1>1. /\ parts \in Seq(Seq(Byte)) /\ buf \in Seq(Byte) /\ Len(buf) \in Nat
        /\ Len(out) \in Nat /\ Len(out) + 1 \in DOMAIN parts
    <2>1. parts \in Seq(Pieces) /\ buf \in Seq(Byte) /\ Len(out) \in Nat
      BY LenProperties DEF TypeOK
    <2>2. parts \in Seq(Seq(Byte))
      BY <2>1, SeqMonotonic
    <2>3. Len(buf) \in Nat /\ Len(parts) \in Nat /\ DOMAIN parts = 1..Len(parts)
      BY <2>1, <2>2, LenProperties
    <2> QED
      BY <2>1, <2>2, <2>3
  <1>2. i = start + 1
    BY DEF CleanInv
  <1>3. /\ piece \in Seq(Byte) /\ start \in Nat /\ Len(piece) \in Nat
        /\ Len(FlattenSeq(SubSeq(parts, 1, Len(out) + 1))) = start + Len(piece)
        /\ start + Len(piece) <= Len(buf)
        /\ \A m \in 1..Len(piece) : buf[start + m] = piece[m]
    <2> DEFINE k == Len(out)
    <2>1. /\ k \in Nat /\ k < Len(parts) /\ piece = parts[k + 1]
          /\ start = Len(FlattenSeq(SubSeq(parts, 1, k)))
      BY <1>1
    <2> HIDE DEF k
    <2>2. InPlace(Byte, parts, k, Len(FlattenSeq(SubSeq(parts, 1, k))))
      BY <1>1, <2>1, PieceInPlace
    <2>3. InPlace(Byte, parts, k, start)
      BY <2>1, <2>2, Zenon
    <2> HIDE DEF start
    <2> QED
      BY <2>1, <2>3 DEF k, InPlace
  <1> HIDE DEF start
  <1>4. n \in Byte /\ n \in Nat
    <2>1. Len(parts[Len(out) + 1]) - 6 \in Byte
      BY <1>1 DEF AllFrames
    <2>2. n \in Byte
      BY <2>1
    <2>3. \A b \in Byte : b \in Nat
      BY DEF Byte
    <2> QED
      BY <2>2, <2>3
  <1>5. piece = Frame(RespStart, piece[3], SubSeq(piece, 5, Len(piece) - 2))
    BY <1>1 DEF AllFrames
  <1>6. i \in Nat \ {0} /\ i + n + 5 <= Len(buf) /\ i + 5 <= Len(buf) /\ Len(piece) = n + 6
    BY <1>1, <1>2, <1>3, <1>4
  <1>7. \A m \in 1..(n + 6) : buf[i + m - 1] = piece[m]
    <2>1. \A m \in 1..(n + 6) : i + m - 1 = start + m /\ m \in 1..Len(piece)
      BY <1>2, <1>3, <1>4
    <2> QED
      BY <1>3, <2>1
  <1> HIDE DEF n
  <1>8. SubSeq(buf, i, i + n + 5) = piece
    <2> DEFINE b == i + n + 5
               len == n + 6
    <2>1. b \in Nat /\ len \in Nat /\ b = i + len - 1 /\ b <= Len(buf)
      BY <1>4, <1>6
    <2>2. Len(piece) = len /\ \A m \in 1..len : buf[i + m - 1] = piece[m]
      BY <1>6, <1>7
    <2> HIDE DEF b, len
    <2>3. /\ SubSeq(buf, i, b) \in Seq(Byte) /\ Len(SubSeq(buf, i, b)) = len
          /\ \A q \in 1..len : SubSeq(buf, i, b)[q] = buf[i + q - 1]
      <3>1. buf \in Seq(Byte) /\ i \in Nat \ {0}
        BY <1>1, <1>6
      <3> QED
        BY <2>1, <3>1, Slice
    <2> DEFINE cut == SubSeq(buf, i, b)
    <2> HIDE DEF cut
    <2>4. /\ cut \in Seq(Byte) /\ piece \in Seq(Byte) /\ Len(cut) = Len(piece)
          /\ \A q \in 1..Len(cut) : cut[q] = piece[q]
      BY <1>3, <2>2, <2>3 DEF cut
    <2>5. cut = piece
      BY <2>4, SeqEqual
    <2> QED
      BY <2>5 DEF b, cut
  <1>9. SubSeq(buf, i + 4, i + n + 3) = SubSeq(piece, 5, Len(piece) - 2)
    <2> DEFINE a == i + 4
               b == i + n + 3
               c == 5
               d == Len(piece) - 2
    <2>1. /\ a \in Nat \ {0} /\ b \in Nat /\ b = a + n - 1 /\ b <= Len(buf)
          /\ c \in Nat \ {0} /\ d \in Nat /\ d = c + n - 1 /\ d <= Len(piece)
      BY <1>3, <1>4, <1>6
    <2>2. \A q \in 1..n : buf[a + q - 1] = piece[c + q - 1]
      <3>1. \A q \in 1..n : 4 + q \in 1..(n + 6) /\ i + (4 + q) - 1 = a + q - 1
                            /\ 4 + q = c + q - 1
        BY <1>4, <1>6
      <3> QED
        BY <1>7, <3>1
    <2> HIDE DEF a, b, c, d
    <2>3. /\ SubSeq(buf, a, b) \in Seq(Byte) /\ Len(SubSeq(buf, a, b)) = n
          /\ \A q \in 1..n : SubSeq(buf, a, b)[q] = buf[a + q - 1]
      <3>1. buf \in Seq(Byte) /\ n \in Nat
        BY <1>1, <1>4
      <3>2. a \in Nat \ {0} /\ b \in Nat /\ b = a + n - 1 /\ b <= Len(buf)
        BY <2>1
      <3> QED
        BY <3>1, <3>2, Slice
    <2>4. /\ SubSeq(piece, c, d) \in Seq(Byte) /\ Len(SubSeq(piece, c, d)) = n
          /\ \A q \in 1..n : SubSeq(piece, c, d)[q] = piece[c + q - 1]
      <3>1. piece \in Seq(Byte) /\ n \in Nat
        BY <1>3, <1>4
      <3>2. c \in Nat \ {0} /\ d \in Nat /\ d = c + n - 1 /\ d <= Len(piece)
        BY <2>1
      <3> QED
        BY <3>1, <3>2, Slice
    <2> DEFINE left == SubSeq(buf, a, b)
               right == SubSeq(piece, c, d)
    <2> HIDE DEF left, right
    <2>5. /\ left \in Seq(Byte) /\ right \in Seq(Byte) /\ Len(left) = Len(right)
          /\ \A q \in 1..Len(left) : left[q] = right[q]
      BY <2>2, <2>3, <2>4 DEF left, right
    <2>6. left = right
      BY <2>5, SeqEqual
    <2> QED
      BY <2>6 DEF a, b, c, d, left, right
  <1>10. buf[i + 2] = piece[3]
    <2>1. 3 \in 1..(n + 6) /\ i + 3 - 1 = i + 2
      BY <1>4, <1>6
    <2> QED
      BY <1>7, <2>1
  <1>11. FrameAt(i, n)
    BY <1>6, <1>8, <1>9, <1>10, <1>5 DEF FrameAt
  <1>12. buf[i + 3] = n
    BY <1>1, <1>4, <1>6, <1>11, FrameAtBytes DEF Checked
  <1>13. Header(i) /\ Fits(i) /\ Intact(i)
    BY <1>1, <1>4, <1>6, <1>11, LoopFindsFrames DEF SomeFrameAt
  <1>14. Payload(i) = SubSeq(buf, i + 4, i + n + 3) /\ Len(Payload(i)) = n
    <2>1. i + 3 + n = i + n + 3
      BY <1>4, <1>6
    <2>2. Payload(i) = SubSeq(buf, i + 4, i + n + 3)
      BY <1>12, <2>1 DEF Payload
    <2>3. Len(Payload(i)) = buf[i + 3]
      BY <1>1, <1>6, <1>13, LoopFindsFrames
    <2> QED
      BY <1>12, <2>2, <2>3
  <1>15. piece = Frame(RespStart, buf[i + 2], Payload(i))
    BY <1>9, <1>10, <1>14, <1>5
  <1>16. Len(FlattenSeq(SubSeq(parts, 1, Len(out) + 1))) = i + Len(piece) - 1
    <2>1. \A a, b \in Nat : a + b = a + 1 + b - 1
      OBVIOUS
    <2>2. start + Len(piece) = start + 1 + Len(piece) - 1
      BY <1>3, <2>1
    <2> QED
      BY <1>2, <1>3, <2>2, Zenon
  <1> QED
    BY <1>4, <1>6, <1>13, <1>14, <1>15, <1>16

LEMMA StepClean ==
  ASSUME TypeOK, buf = FlattenSeq(parts), CleanInv, [Next]_vars
  PROVE  CleanInv'
  <1>1. parts' = parts
    BY OtherSteps, EmitAdds
  <1>2. AllFrames' <=> AllFrames
    BY <1>1 DEF AllFrames
  <1>3. SUFFICES ASSUME AllFrames
                 PROVE  /\ state' # "cut"
                        /\ Len(out') <= Len(parts)
                        /\ i' = Len(FlattenSeq(SubSeq(parts, 1, Len(out')))) + 1
                        /\ \A k \in DOMAIN out' :
                              Frame(RespStart, out'[k].opcode, out'[k].payload) = parts[k]
                        /\ state' = "end" => Len(out') = Len(parts)
    BY <1>1, <1>2 DEF CleanInv
  <1>4. /\ state # "cut" /\ Len(out) <= Len(parts)
        /\ i = Len(FlattenSeq(SubSeq(parts, 1, Len(out)))) + 1
        /\ \A k \in DOMAIN out : Frame(RespStart, out[k].opcode, out[k].payload) = parts[k]
        /\ state = "end" => Len(out) = Len(parts)
    BY <1>3 DEF CleanInv
  <1>5. /\ Len(out) \in Nat /\ DOMAIN out = 1..Len(out) /\ Len(parts) \in Nat
        /\ Len(buf) \in Nat /\ i \in Nat
    <2>1. out \in Seq(Notes) /\ parts \in Seq(Pieces) /\ buf \in Seq(Byte)
          /\ i \in 1..(Len(buf) + 1)
      BY DEF TypeOK, Notes
    <2>2. Len(buf) \in Nat
      BY <2>1, LenProperties
    <2> QED
      BY <2>1, <2>2, LenProperties
  <1>6. CASE UNCHANGED vars
    BY <1>4, <1>6 DEF vars
  <1>7. CASE Next /\ Len(out) < Len(parts)
    <2> DEFINE piece == parts[Len(out) + 1]
               note == [at |-> i, opcode |-> buf[i + 2], payload |-> Payload(i)]
               last == Len(out) + 1
    <2>1. /\ piece = Frame(RespStart, buf[i + 2], Payload(i))
          /\ Len(piece) = 6 + Len(Payload(i))
          /\ Len(FlattenSeq(SubSeq(parts, 1, last))) = i + Len(piece) - 1
          /\ i + 5 <= Len(buf) /\ Header(i) /\ Fits(i) /\ Intact(i)
      BY <1>3, <1>7, NextPiece
    <2>2. Emit
      BY <1>7, <2>1 DEF Next, Skip, Cut, Reject, Finish, InRange
    <2>3. /\ state' = state /\ state = "scan" /\ out' \in Seq(Notes) /\ Len(out') = last
          /\ \A k \in 1..Len(out) : out'[k] = out[k]
          /\ out'[last] = note
          /\ i' = i + 6 + Len(Payload(i)) /\ Len(Payload(i)) \in Byte
      BY <2>2, EmitAdds DEF Emit
    <2>4. note.opcode = buf[i + 2] /\ note.payload = Payload(i)
      OBVIOUS
    <2>5. Len(Payload(i)) \in Nat
      <3>1. \A b \in Byte : b \in Nat
        BY DEF Byte
      <3> QED
        BY <2>3, <3>1
    <2> HIDE DEF piece, note
    <2>6. i' = Len(FlattenSeq(SubSeq(parts, 1, Len(out')))) + 1
      <3>1. FlattenSeq(SubSeq(parts, 1, Len(out'))) = FlattenSeq(SubSeq(parts, 1, last))
        BY <2>3
      <3> DEFINE total == Len(FlattenSeq(SubSeq(parts, 1, last)))
      <3>2. total = i + (6 + Len(Payload(i))) - 1
        BY <2>1
      <3> HIDE DEF total
      <3>3. i' = total + 1
        BY <1>5, <2>3, <2>5, <3>2
      <3> QED
        BY <3>1, <3>3 DEF total
    <2>7. DOMAIN out' = 1..last
      BY <2>3, LenProperties
    <2>8. ASSUME NEW k \in DOMAIN out'
          PROVE  Frame(RespStart, out'[k].opcode, out'[k].payload) = parts[k]
      <3>1. CASE k = last
        BY <2>1, <2>3, <2>4, <3>1 DEF piece
      <3>2. CASE k # last
        <4>1. k \in 1..Len(out)
          BY <1>5, <2>7, <3>2
        <4> QED
          BY <1>4, <1>5, <2>3, <4>1
      <3> QED
        BY <3>1, <3>2
    <2> QED
      BY <1>5, <1>7, <2>3, <2>6, <2>8
  <1>8. CASE Next /\ Len(out) = Len(parts)
    <2>1. SubSeq(parts, 1, Len(out)) = parts
      BY <1>8, SubSeqFull DEF TypeOK
    <2>2. i = Len(buf) + 1
      BY <1>4, <2>1
    <2>3. ~InRange
      BY <1>5, <2>2 DEF InRange
    <2>4. Finish
      BY <1>8, <2>3 DEF Next, Skip, Cut, Reject, Emit
    <2> QED
      BY <1>4, <1>8, <2>4 DEF Finish
  <1> QED
    BY <1>4, <1>5, <1>6, <1>7, <1>8

----------------------------------------------------------------------------
\* Together.

LEMMA Inductive == Spec => []IInv
  <1>1. Init => IInv
    <2> SUFFICES ASSUME Init PROVE IInv
      OBVIOUS
    <2>1. TypeOK /\ parts \in Seq(Seq(Byte))
      BY InitType
    <2>2. /\ buf = FlattenSeq(parts) /\ i = 1 /\ out = <<>> /\ state = "scan"
          /\ Len(out) = 0 /\ DOMAIN out = {}
      BY DEF Init
    <2>3. FoundInv
      BY <2>2 DEF FoundInv, OnlyFrames
    <2>4. NothingPassedOver
      BY <2>2 DEF NothingPassedOver
    <2>5. CleanInv
      <3>1. Len(parts) \in Nat /\ 0 \in 0..Len(parts)
        BY <2>1, LenProperties
      <3>2. FlattenSeq(SubSeq(parts, 1, 0)) = <<>>
        BY <2>1, <3>1, FlattenPrefix
      <3> QED
        BY <2>2, <3>1, <3>2 DEF CleanInv
    <2> QED
      BY <2>1, <2>2, <2>3, <2>4, <2>5 DEF IInv
  <1>2. ASSUME IInv, [Next]_vars PROVE IInv'
    <2> USE <1>2 DEF IInv
    <2>1. TypeOK' /\ FoundInv' /\ NothingPassedOver' /\ CleanInv'
      BY StepType, StepFound, StepPassed, StepClean
    <2>2. (buf = FlattenSeq(parts))'
      BY OtherSteps, EmitAdds
    <2> QED
      BY <2>1, <2>2
  <1> QED
    BY <1>1, <1>2, PTL DEF Spec

\* For any pieces: what the scan finds are whole frames of the value, byte for byte, and no
\* two share a byte.
THEOREM WholeFramesOnly == Spec => []OnlyFrames
  <1>1. IInv => OnlyFrames
    BY DEF IInv, FoundInv
  <1> QED
    BY <1>1, Inductive, PTL

\* For any pieces: no frame behind the scan position is missed unless it lies inside one that
\* was found, and a value of whole frames decodes to exactly them.
THEOREM EveryFrameFound == Spec => []FramesFound
  <1>1. ASSUME IInv PROVE CleanValueDecodes
    <2> SUFFICES ASSUME state # "scan", AllFrames
                 PROVE  /\ state = "end"
                        /\ [k \in DOMAIN out |->
                               Frame(RespStart, out[k].opcode, out[k].payload)] = parts
      BY DEF CleanValueDecodes
    <2>1. /\ state = "end" /\ Len(out) = Len(parts)
          /\ \A k \in DOMAIN out : Frame(RespStart, out[k].opcode, out[k].payload) = parts[k]
      BY <1>1 DEF IInv, TypeOK, CleanInv
    <2>2. DOMAIN out = 1..Len(out) /\ parts \in [1..Len(parts) -> Pieces]
      BY <1>1, LenProperties DEF IInv, TypeOK
    <2> QED
      BY <2>1, <2>2
  <1>2. IInv => FramesFound
    BY <1>1 DEF FramesFound, IInv
  <1> QED
    BY <1>2, Inductive, PTL

=============================================================================
