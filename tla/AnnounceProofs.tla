--------------------------- MODULE AnnounceProofs ---------------------------
(***************************************************************************)
(* Proofs about announcing: what a daemon tells its LAN in a packet is what *)
(* another one reads from it, and the registry's limit on Announce calls.  *)
(*                                                                         *)
(* The packet is proved by induction over the bytes of a number and over   *)
(* the entries of a list.  The induction is over a SET of numbers, so that *)
(* no operator has to be instantiated; the recursive functions of the      *)
(* model are shown to exist the same way before they are used.             *)
(***************************************************************************)
EXTENDS LanDiscovery, AnnounceLimiter, SequenceTheorems, FiniteSetTheorems,
        WellFoundedInduction, TLAPS

-----------------------------------------------------------------------------
(* Induction, over a set of numbers rather than an operator *)

\* A set that holds 0 and with every number the next one holds all of them.
LEMMA SetInduction ==
    ASSUME NEW S, 0 \in S, \A n \in Nat : n \in S => n + 1 \in S
    PROVE  Nat \subseteq S
<1> DEFINE R == OpToRel(<, Nat)
           T == Nat \ S
<1>1. IsWellFoundedOn(R, Nat)
  BY NatLessThanWellFounded, Zenon
<1>2. SUFFICES ASSUME T # {} PROVE FALSE
  OBVIOUS
<1>3. PICK x \in T : \A y \in T : ~ (<<y, x>> \in R)
  <2> HIDE DEF R
  <2>1. T \subseteq Nat
    OBVIOUS
  <2> QED
    BY <1>1, <1>2, <2>1, WFMin
<1>4. \A y \in T : ~(y < x)
  BY <1>3 DEF OpToRel
<1>5. x # 0 /\ x - 1 \in Nat /\ x - 1 \notin T
  BY <1>4
<1> QED
  BY <1>5

\* The same up to a bound.
LEMMA BoundedInduction ==
    ASSUME NEW w \in Nat, NEW S, 0 \in S,
           \A n \in 0..w : n < w /\ n \in S => n + 1 \in S
    PROVE  0..w \subseteq S
<1> DEFINE T == S \cup {n \in Nat : n > w}
<1>1. 0 \in T /\ \A n \in Nat : n \in T => n + 1 \in T
  OBVIOUS
<1>2. Nat \subseteq T
  <2> HIDE DEF T
  <2> QED
    BY <1>1, SetInduction
<1> QED
  BY <1>2

\* The quotients that Left speaks of exist, and so Left computes them.
LEMMA LeftDef ==
    ASSUME NEW w \in Nat, NEW n
    PROVE  Left(w, n) = [i \in 0..w |-> IF i = 0 THEN n ELSE Left(w, n)[i - 1] \div Base]
<1> DEFINE P(f, m) == f = [i \in 0..m |-> IF i = 0 THEN n ELSE f[i - 1] \div Base]
           S == {m \in Nat : \E f : P(f, m)}
<1>1. 0 \in S
  <2> DEFINE f == [i \in 0..0 |-> n]
  <2>1. P(f, 0)
    OBVIOUS
  <2> QED
    BY <2>1
<1>2. ASSUME NEW m \in Nat, m \in S PROVE m + 1 \in S
  <2>1. PICK f : P(f, m)
    BY <1>2
  <2> DEFINE g == [i \in 0..(m + 1) |-> IF i = m + 1 THEN f[m] \div Base ELSE f[i]]
             h == [i \in 0..(m + 1) |-> IF i = 0 THEN n ELSE g[i - 1] \div Base]
  <2>2. ASSUME NEW i \in 0..(m + 1) PROVE g[i] = h[i]
    <3>1. CASE i = 0
      BY <2>1, <3>1
    <3>2. CASE i = m + 1
      BY <2>1, <3>2
    <3>3. CASE i # 0 /\ i # m + 1
      <4>1. i - 1 \in 0..(m + 1) /\ i - 1 # m + 1 /\ i \in 0..m
        BY <3>3
      <4>2. f[i] = f[i - 1] \div Base
        BY <2>1, <3>3, <4>1
      <4> QED
        BY <3>3, <4>1, <4>2
    <3> QED
      BY <3>1, <3>2, <3>3
  <2>3. P(g, m + 1)
    BY <2>2
  <2> HIDE DEF g, P
  <2>4. \E k : P(k, m + 1)
    BY <2>3
  <2> QED
    BY <2>4
<1>3. \E f : P(f, w)
  <2> HIDE DEF P
  <2>1. Nat \subseteq S
    <3> HIDE DEF S
    <3> QED
      BY <1>1, <1>2, SetInduction
  <2> QED
    BY <2>1
<1>4. P(CHOOSE f : P(f, w), w)
  <2> HIDE DEF P
  <2> QED
    BY <1>3
<1> QED
  BY <1>4 DEF Left

\* struct.unpack reads bytes from left to right: what it has read so far.
LEMMA ValueDef ==
    ASSUME NEW b, Len(b) \in Nat
    PROVE  \E f : /\ f = [i \in 0..Len(b) |-> IF i = 0 THEN 0 ELSE f[i - 1] * Base + b[i]]
                  /\ Value(b) = f[Len(b)]
<1> DEFINE P(f, m) == f = [i \in 0..m |-> IF i = 0 THEN 0 ELSE f[i - 1] * Base + b[i]]
           S == {m \in Nat : \E f : P(f, m)}
<1>1. 0 \in S
  <2> DEFINE f == [i \in 0..0 |-> 0]
  <2>1. P(f, 0)
    OBVIOUS
  <2> QED
    BY <2>1
<1>2. ASSUME NEW m \in Nat, m \in S PROVE m + 1 \in S
  <2>1. PICK f : P(f, m)
    BY <1>2
  <2> DEFINE g == [i \in 0..(m + 1) |-> IF i = m + 1 THEN f[m] * Base + b[m + 1] ELSE f[i]]
             h == [i \in 0..(m + 1) |-> IF i = 0 THEN 0 ELSE g[i - 1] * Base + b[i]]
  <2>2. ASSUME NEW i \in 0..(m + 1) PROVE g[i] = h[i]
    <3>1. CASE i = 0
      BY <2>1, <3>1
    <3>2. CASE i = m + 1
      BY <2>1, <3>2
    <3>3. CASE i # 0 /\ i # m + 1
      <4>1. i - 1 \in 0..(m + 1) /\ i - 1 # m + 1 /\ i \in 0..m
        BY <3>3
      <4>2. f[i] = f[i - 1] * Base + b[i]
        BY <2>1, <3>3, <4>1
      <4> QED
        BY <3>3, <4>1, <4>2
    <3> QED
      BY <3>1, <3>2, <3>3
  <2>3. P(g, m + 1)
    BY <2>2
  <2> HIDE DEF g, P
  <2>4. \E k : P(k, m + 1)
    BY <2>3
  <2> QED
    BY <2>4
<1>3. \E f : P(f, Len(b))
  <2> HIDE DEF P
  <2>1. Nat \subseteq S
    <3> HIDE DEF S
    <3> QED
      BY <1>1, <1>2, SetInduction
  <2> QED
    BY <2>1
<1> DEFINE F == CHOOSE f : P(f, Len(b))
<1>4. P(F, Len(b))
  <2> HIDE DEF P
  <2> QED
    BY <1>3
<1>5. Value(b) = F[Len(b)]
  BY DEF Value
<1> HIDE DEF F
<1> QED
  BY <1>4, <1>5

\* The quotients of a number are numbers, and so are its bytes.
LEMMA LeftType ==
    ASSUME NEW w \in Nat, NEW n \in Nat
    PROVE  \A i \in 0..w : Left(w, n)[i] \in Nat
<1>1. Base \in Nat /\ Base > 4
  BY FormatAssumption DEF VERSION
<1> DEFINE S == {i \in 0..w : Left(w, n)[i] \in Nat}
<1>2. 0 \in S
  BY LeftDef
<1>3. ASSUME NEW i \in 0..w, i < w, i \in S PROVE i + 1 \in S
  <2>1. Left(w, n)[i + 1] = Left(w, n)[i] \div Base
    <3>1. i + 1 \in 0..w /\ i + 1 # 0 /\ (i + 1) - 1 = i
      BY <1>3
    <3> QED
      BY <3>1, LeftDef
  <2> QED
    BY <1>1, <1>3, <2>1
<1>4. 0..w \subseteq S
  <2> HIDE DEF S
  <2> QED
    BY <1>2, <1>3, BoundedInduction
<1> QED
  BY <1>4

\* A field of w bytes is a sequence of w numbers.
LEMMA DigitsType ==
    ASSUME NEW w \in Nat, NEW n \in Nat
    PROVE  Digits(w, n) \in Seq(Nat) /\ Len(Digits(w, n)) = w
<1>1. Base \in Nat /\ Base > 4
  BY FormatAssumption DEF VERSION
<1>2. \A i \in 1..w : Left(w, n)[w - i] % Base \in Nat
  BY <1>1, LeftType
<1> QED
  BY <1>2 DEF Digits

\* A number that fits comes back: reading the first i bytes gives what is left
\* when the other ones are taken off.
LEMMA ValueOfDigits ==
    ASSUME NEW w \in Nat, NEW n \in Nat, Fits(w, n)
    PROVE  Value(Digits(w, n)) = n
<1> DEFINE b == Digits(w, n)
           q == Left(w, n)
<1>1. Base \in Nat /\ Base > 4
  BY FormatAssumption DEF VERSION
<1>2. Len(b) = w
  BY DigitsType
<1>3. PICK f : /\ f = [i \in 0..w |-> IF i = 0 THEN 0 ELSE f[i - 1] * Base + b[i]]
               /\ Value(b) = f[w]
  <2> HIDE DEF b
  <2> QED
    BY <1>2, ValueDef
<1> DEFINE S == {i \in 0..w : f[i] = q[w - i]}
<1>4. 0 \in S
  BY <1>3 DEF Fits
<1>5. ASSUME NEW i \in 0..w, i < w, i \in S PROVE i + 1 \in S
  <2>1. i + 1 \in 1..w /\ w - i \in 0..w /\ w - i # 0 /\ (w - i) - 1 = w - (i + 1)
        /\ w - (i + 1) \in 0..w /\ (i + 1) - 1 = i /\ i + 1 # 0 /\ i + 1 \in 0..w
    BY <1>5
  <2>2. q[w - i] = q[w - (i + 1)] \div Base
    BY <2>1, LeftDef
  <2>3. b[i + 1] = q[w - (i + 1)] % Base
    BY <2>1 DEF Digits
  <2>4. f[i + 1] = f[i] * Base + b[i + 1]
    BY <1>3, <2>1
  <2>5. q[w - (i + 1)] \in Nat
    BY <2>1, LeftType
  <2> HIDE DEF b, q
  <2>6. \A x \in Nat : (x \div Base) * Base + (x % Base) = x
    BY <1>1
  <2>7. f[i + 1] = q[w - (i + 1)]
    BY <1>5, <2>2, <2>3, <2>4, <2>5, <2>6
  <2> QED
    BY <2>1, <2>7
<1>6. 0..w \subseteq S
  <2> HIDE DEF S
  <2> QED
    BY <1>4, <1>5, BoundedInduction
<1>7. f[w] = q[0]
  BY <1>6
<1>8. q[0] = n
  BY LeftDef
<1> QED
  BY <1>3, <1>7, <1>8

-----------------------------------------------------------------------------
(* Fields of a packet *)

Bytes == Seq(Nat)

\* From offset o on, the bytes b are t.
At(b, o, t) ==
    /\ o \in Nat /\ o + Len(t) <= Len(b)
    /\ \A j \in 1..Len(t) : b[o + j] = t[j]

\* Slicing out a field gives the field.
LEMMA AtSlice ==
    ASSUME NEW b \in Bytes, NEW t \in Bytes, NEW o, At(b, o, t), NEW m, NEW n,
           m = o + 1, n = o + Len(t)
    PROVE  SubSeq(b, m, n) = t
<1>1. o \in Nat /\ Len(t) \in Nat /\ Len(b) \in Nat /\ m \in Int /\ n \in Int
  BY DEF At, Bytes
<1>2. \A i \in m..n : b[i] \in Nat
  <2> TAKE i \in m..n
  <2>1. i \in 1..Len(b)
    BY <1>1 DEF At
  <2> QED
    BY <2>1 DEF Bytes
<1> DEFINE s == SubSeq(b, m, n)
<1>3. /\ s \in Seq(Nat)
      /\ Len(s) = IF m <= n THEN n - m + 1 ELSE 0
      /\ \A i \in 1..(n - m + 1) : s[i] = b[m + i - 1]
  BY <1>1, <1>2, SubSeqProperties DEF s
<1> HIDE DEF s
<1>4. Len(s) = Len(t)
  BY <1>1, <1>3
<1>5. ASSUME NEW j \in 1..Len(t) PROVE s[j] = t[j]
  <2>1. n - m + 1 = Len(t) /\ m + j - 1 = o + j
    BY <1>1
  <2>2. j \in 1..(n - m + 1)
    BY <2>1
  <2>3. s[j] = b[m + j - 1]
    BY <1>3, <2>2
  <2> QED
    BY <2>1, <2>3 DEF At
<1>6. t \in Seq(Nat)
  BY DEF Bytes
<1>7. s = t
  BY <1>3, <1>4, <1>5, <1>6, SeqEqual
<1> QED
  BY <1>7 DEF s

\* A field of a field.
LEMMA AtWithin ==
    ASSUME NEW b \in Bytes, NEW t \in Bytes, NEW u \in Bytes, NEW o, NEW k,
           At(b, o, t), At(t, k, u)
    PROVE  At(b, o + k, u)
<1>1. /\ o \in Nat /\ k \in Nat /\ Len(b) \in Nat /\ Len(t) \in Nat /\ Len(u) \in Nat
      /\ o + Len(t) <= Len(b) /\ k + Len(u) <= Len(t)
  BY DEF At, Bytes
<1>2. ASSUME NEW j \in 1..Len(u) PROVE b[(o + k) + j] = u[j]
  <2>1. k + j \in 1..Len(t) /\ o + (k + j) = (o + k) + j
    BY <1>1
  <2> QED
    BY <2>1 DEF At
<1> QED
  BY <1>1, <1>2 DEF At

\* The two parts of a concatenation.
LEMMA AtParts ==
    ASSUME NEW s \in Bytes, NEW t \in Bytes
    PROVE  /\ s \o t \in Bytes /\ Len(s \o t) = Len(s) + Len(t)
           /\ At(s \o t, 0, s) /\ At(s \o t, Len(s), t)
<1>1. /\ s \o t \in Seq(Nat) /\ Len(s \o t) = Len(s) + Len(t)
      /\ \A i \in 1..(Len(s) + Len(t)) :
            (s \o t)[i] = IF i <= Len(s) THEN s[i] ELSE t[i - Len(s)]
  BY ConcatProperties DEF Bytes
<1>2. Len(s) \in Nat /\ Len(t) \in Nat
  BY DEF Bytes
<1>3. At(s \o t, 0, s)
  BY <1>1, <1>2 DEF At
<1>4. ASSUME NEW j \in 1..Len(t) PROVE (s \o t)[Len(s) + j] = t[j]
  <2>1. Len(s) + j \in 1..(Len(s) + Len(t)) /\ ~(Len(s) + j <= Len(s))
        /\ (Len(s) + j) - Len(s) = j
    BY <1>2
  <2> QED
    BY <1>1, <2>1
<1>5. At(s \o t, Len(s), t)
  BY <1>1, <1>2, <1>4 DEF At
<1> QED
  BY <1>1, <1>3, <1>5 DEF Bytes

-----------------------------------------------------------------------------
(* Entries *)

\* An entry that a packet of a version can carry.
EntryOK(v, e) ==
    /\ e.share \in Shares /\ e.ih \in Hashes \cup {NoHash} /\ e.seq \in Nat
    /\ v >= 4 => Fits(SeqLen, e.seq)

\* The fields of an entry, empty in a version that has none, and their widths.
HashField(v, e) ==
    IF v < 3 THEN <<>> ELSE IF e.ih = NoHash THEN Zeros(HashLen) ELSE e.ih
SeqField(v, e) == IF v < 4 THEN <<>> ELSE Digits(SeqLen, e.seq)

HashWidth(v) == IF v >= 3 THEN HashLen ELSE 0
SeqWidth(v) == IF v >= 4 THEN SeqLen ELSE 0
Stride(v) == IdLen + HashWidth(v) + SeqWidth(v)

\* The widths are numbers, and a field of w zeros has w bytes.
LEMMA Widths ==
    /\ IdLen \in Nat /\ HashLen \in Nat /\ SeqLen \in Nat /\ ShortLen \in Nat
    /\ \A v \in 1..4 : HashWidth(v) \in Nat /\ SeqWidth(v) \in Nat /\ Stride(v) \in Nat
    /\ \A w \in Nat : Zeros(w) \in Bytes /\ Len(Zeros(w)) = w
    /\ <<>> \in Bytes /\ Len(<<>>) = 0
<1>1. /\ IdLen \in Nat /\ HashLen \in Nat /\ SeqLen \in Nat /\ ShortLen \in Nat
  BY FormatAssumption
<1>2. \A v \in 1..4 : HashWidth(v) \in Nat /\ SeqWidth(v) \in Nat /\ Stride(v) \in Nat
  BY <1>1 DEF HashWidth, SeqWidth, Stride
<1>3. \A w \in Nat : Zeros(w) \in Bytes /\ Len(Zeros(w)) = w
  BY DEF Zeros, Bytes
<1> QED
  BY <1>1, <1>2, <1>3 DEF Bytes

\* Where the fields of an entry are.
LEMMA EntryFields ==
    ASSUME NEW v \in 1..4, NEW e, EntryOK(v, e)
    PROVE  /\ PackEntry(v, e) \in Bytes /\ Len(PackEntry(v, e)) = Stride(v)
           /\ Digits(IdLen, e.share) \in Bytes /\ Len(Digits(IdLen, e.share)) = IdLen
           /\ HashField(v, e) \in Bytes /\ Len(HashField(v, e)) = HashWidth(v)
           /\ SeqField(v, e) \in Bytes /\ Len(SeqField(v, e)) = SeqWidth(v)
           /\ At(PackEntry(v, e), 0, Digits(IdLen, e.share))
           /\ At(PackEntry(v, e), IdLen, HashField(v, e))
           /\ At(PackEntry(v, e), IdLen + HashWidth(v), SeqField(v, e))
<1> DEFINE d == Digits(IdLen, e.share)
           h == HashField(v, e)
           q == SeqField(v, e)
<1>1. d \in Bytes /\ Len(d) = IdLen
  BY FormatAssumption, Widths, DigitsType DEF EntryOK, Bytes
<1>2. h \in Bytes /\ Len(h) = HashWidth(v)
  <2>1. \A x \in Hashes : x \in Bytes /\ Len(x) = HashLen
    BY FormatAssumption DEF Bytes
  <2> QED
    BY <2>1, Widths DEF HashField, HashWidth, EntryOK
<1>3. q \in Bytes /\ Len(q) = SeqWidth(v)
  <2>1. Digits(SeqLen, e.seq) \in Bytes /\ Len(Digits(SeqLen, e.seq)) = SeqLen
    BY Widths, DigitsType DEF EntryOK, Bytes
  <2> QED
    BY <2>1, Widths DEF SeqField, SeqWidth
<1>4. PackEntry(v, e) = (d \o h) \o q
  BY DEF PackEntry, HashField, SeqField
<1> HIDE DEF d, h, q
<1>5. /\ d \o h \in Bytes /\ Len(d \o h) = IdLen + HashWidth(v)
      /\ At(d \o h, 0, d) /\ At(d \o h, IdLen, h)
  BY <1>1, <1>2, AtParts
<1>6. /\ (d \o h) \o q \in Bytes /\ Len((d \o h) \o q) = Stride(v)
      /\ At((d \o h) \o q, 0, d \o h) /\ At((d \o h) \o q, IdLen + HashWidth(v), q)
  BY <1>3, <1>5, AtParts DEF Stride
<1>7. At((d \o h) \o q, 0, d) /\ At((d \o h) \o q, IdLen, h)
  <2>1. At((d \o h) \o q, 0 + 0, d) /\ At((d \o h) \o q, 0 + IdLen, h)
    BY <1>1, <1>2, <1>5, <1>6, AtWithin
  <2> QED
    BY <2>1, Widths
<1> QED
  BY <1>1, <1>2, <1>3, <1>4, <1>6, <1>7 DEF d, h, q

\* The loop over the shares: what is packed after i of them.
LEMMA PackEntriesDef ==
    ASSUME NEW v, NEW es, Len(es) \in Nat
    PROVE  \E f : /\ f = [i \in 0..Len(es) |->
                             IF i = 0 THEN <<>> ELSE f[i - 1] \o PackEntry(v, es[i])]
                  /\ PackEntries(v, es) = f[Len(es)]
<1> DEFINE P(f, m) ==
               f = [i \in 0..m |-> IF i = 0 THEN <<>> ELSE f[i - 1] \o PackEntry(v, es[i])]
           S == {m \in Nat : \E f : P(f, m)}
<1>1. 0 \in S
  <2> DEFINE f == [i \in 0..0 |-> <<>>]
  <2>1. P(f, 0)
    OBVIOUS
  <2> QED
    BY <2>1
<1>2. ASSUME NEW m \in Nat, m \in S PROVE m + 1 \in S
  <2>1. PICK f : P(f, m)
    BY <1>2
  <2> DEFINE g == [i \in 0..(m + 1) |->
                      IF i = m + 1 THEN f[m] \o PackEntry(v, es[m + 1]) ELSE f[i]]
             h == [i \in 0..(m + 1) |->
                      IF i = 0 THEN <<>> ELSE g[i - 1] \o PackEntry(v, es[i])]
  <2>2. ASSUME NEW i \in 0..(m + 1) PROVE g[i] = h[i]
    <3>1. CASE i = 0
      BY <2>1, <3>1
    <3>2. CASE i = m + 1
      <4>1. i # 0 /\ i - 1 = m /\ m # m + 1 /\ m \in 0..(m + 1)
        BY <3>2
      <4>2. g[m] = f[m] /\ g[i] = f[m] \o PackEntry(v, es[i])
        BY <3>2, <4>1
      <4> HIDE DEF g
      <4> QED
        BY <4>1, <4>2
    <3>3. CASE i # 0 /\ i # m + 1
      <4>1. i - 1 \in 0..(m + 1) /\ i - 1 # m + 1 /\ i \in 0..m
        BY <3>3
      <4>2. f[i] = f[i - 1] \o PackEntry(v, es[i])
        BY <2>1, <3>3, <4>1
      <4> QED
        BY <3>3, <4>1, <4>2
    <3> QED
      BY <3>1, <3>2, <3>3
  <2>3. P(g, m + 1)
    BY <2>2
  <2> HIDE DEF g, P
  <2>4. \E k : P(k, m + 1)
    BY <2>3
  <2> QED
    BY <2>4
<1>3. \E f : P(f, Len(es))
  <2> HIDE DEF P
  <2>1. Nat \subseteq S
    <3> HIDE DEF S
    <3> QED
      BY <1>1, <1>2, SetInduction
  <2> QED
    BY <2>1
<1> DEFINE F == CHOOSE f : P(f, Len(es))
<1>4. P(F, Len(es))
  <2> HIDE DEF P
  <2> QED
    BY <1>3
<1>5. PackEntries(v, es) = F[Len(es)]
  BY DEF PackEntries
<1> HIDE DEF F
<1> QED
  BY <1>4, <1>5

\* The entries follow each other at a fixed distance.
LEMMA PackedEntries ==
    ASSUME NEW v \in 1..4, NEW es, Len(es) \in Nat,
           \A i \in 1..Len(es) : EntryOK(v, es[i])
    PROVE  /\ PackEntries(v, es) \in Bytes
           /\ Len(PackEntries(v, es)) = Len(es) * Stride(v)
           /\ \A i \in 1..Len(es) :
                 At(PackEntries(v, es), (i - 1) * Stride(v), PackEntry(v, es[i]))
<1> DEFINE n == Len(es)
           w == Stride(v)
           E(i) == PackEntry(v, es[i])
<1>1. PICK f : /\ f = [i \in 0..n |-> IF i = 0 THEN <<>> ELSE f[i - 1] \o E(i)]
               /\ PackEntries(v, es) = f[n]
  BY PackEntriesDef
<1>2. \A i \in 1..n : E(i) \in Bytes /\ Len(E(i)) = w
  BY EntryFields
<1>3. w \in Nat
  BY Widths
<1> DEFINE Packed(k) == /\ f[k] \in Bytes /\ Len(f[k]) = k * w
                        /\ \A i \in 1..k : At(f[k], (i - 1) * w, E(i))
           S == {k \in 0..n : Packed(k)}
<1> HIDE DEF E, w
<1>4. 0 \in S
  <2>1. f[0] = <<>> /\ 0 * w = 0
    BY <1>1, <1>3
  <2> QED
    BY <2>1, Widths
<1>5. ASSUME NEW k \in 0..n, k < n, k \in S PROVE k + 1 \in S
  <2>1. /\ k + 1 \in 1..n /\ (k + 1) - 1 = k /\ k + 1 # 0 /\ k + 1 \in 0..n /\ k \in Nat
    BY <1>5
  <2>2. f[k + 1] = f[k] \o E(k + 1)
    BY <1>1, <2>1
  <2>3. /\ f[k + 1] \in Bytes /\ Len(f[k + 1]) = k * w + w
        /\ At(f[k + 1], 0, f[k]) /\ At(f[k + 1], k * w, E(k + 1))
    BY <1>2, <1>5, <2>1, <2>2, AtParts
  <2>4. k * w + w = (k + 1) * w
    BY <1>3, <2>1
  <2>5. ASSUME NEW i \in 1..(k + 1) PROVE At(f[k + 1], (i - 1) * w, E(i))
    <3>1. CASE i = k + 1
      BY <2>1, <2>3, <3>1
    <3>2. CASE i # k + 1
      <4>1. i \in 1..k /\ i \in 1..n
        BY <2>1, <3>2
      <4>2. At(f[k], (i - 1) * w, E(i)) /\ E(i) \in Bytes
        BY <1>2, <1>5, <4>1
      <4>3. At(f[k + 1], 0 + (i - 1) * w, E(i))
        BY <1>5, <2>3, <4>2, AtWithin
      <4>4. (i - 1) * w \in Nat
        BY <4>2 DEF At
      <4>5. 0 + (i - 1) * w = (i - 1) * w
        BY <4>4
      <4> QED
        BY <4>3, <4>5
    <3> QED
      BY <3>1, <3>2
  <2> QED
    BY <2>1, <2>3, <2>4, <2>5
<1>6. n \in S
  <2>1. 0..n \subseteq S
    <3> HIDE DEF S
    <3> QED
      BY <1>4, <1>5, BoundedInduction
  <2> QED
    BY <2>1
<1> QED
  BY <1>1, <1>6 DEF E, w

-----------------------------------------------------------------------------
(* A whole packet *)

\* The header: version, peer id, port and number of entries.
Fixed == 1 + IdLen + 2 * ShortLen

\* The width of the header is a number, its two short fields counted singly.
LEMMA HeaderWidth == Fixed \in Nat /\ Fixed = 1 + IdLen + ShortLen + ShortLen
<1>1. IdLen \in Nat /\ ShortLen \in Nat
  BY Widths
<1> QED
  BY <1>1 DEF Fixed

\* Version 1 has no name.
NameField(v, p) == IF v < 2 THEN <<>> ELSE PackName(NameOf[p])

\* The bytes of the name that are sent.
CutName(p) ==
    SubSeq(NameOf[p], 1, IF Len(NameOf[p]) < NameMax THEN Len(NameOf[p]) ELSE NameMax)

\* The name field is the length of the cut name, which fits, and the cut name.
LEMMA NameFields ==
    ASSUME NEW p \in Peers
    PROVE  /\ CutName(p) \in Bytes /\ Len(CutName(p)) \in 0..NameMax
           /\ Fits(ShortLen, Len(CutName(p)))
           /\ PackName(NameOf[p]) \in Bytes
           /\ Len(PackName(NameOf[p])) = ShortLen + Len(CutName(p))
           /\ Digits(ShortLen, Len(CutName(p))) \in Bytes
           /\ Len(Digits(ShortLen, Len(CutName(p)))) = ShortLen
           /\ At(PackName(NameOf[p]), 0, Digits(ShortLen, Len(CutName(p))))
           /\ At(PackName(NameOf[p]), ShortLen, CutName(p))
<1> DEFINE name == NameOf[p]
           m == IF Len(name) < NameMax THEN Len(name) ELSE NameMax
           cut == SubSeq(name, 1, m)
           len == Digits(ShortLen, Len(cut))
<1>1. /\ name \in Seq(Nat) /\ Len(name) \in Nat /\ NameMax \in Nat
      /\ \A k \in 0..NameMax : Fits(ShortLen, k)
  BY FormatAssumption
<1>2. m \in 0..NameMax /\ m <= Len(name)
  BY <1>1
<1>3. cut \in Seq(Nat) /\ Len(cut) = m
  <2>1. \A i \in 1..m : name[i] \in Nat
    BY <1>1, <1>2
  <2> HIDE DEF m, name
  <2> QED
    BY <1>2, <2>1, SubSeqProperties
<1>4. len \in Bytes /\ Len(len) = ShortLen
  <2>1. Len(cut) \in Nat
    BY <1>1, <1>2, <1>3
  <2> HIDE DEF cut, m
  <2> QED
    BY <2>1, Widths, DigitsType DEF Bytes
<1>5. PackName(name) = len \o cut /\ CutName(p) = cut
  BY DEF PackName, CutName
<1> HIDE DEF len, cut, m, name
<1>6. /\ len \o cut \in Bytes /\ Len(len \o cut) = ShortLen + Len(cut)
      /\ At(len \o cut, 0, len) /\ At(len \o cut, ShortLen, cut)
  BY <1>3, <1>4, AtParts DEF Bytes
<1>7. len = Digits(ShortLen, Len(cut))
  BY DEF len
<1>8. cut \in Bytes
  BY <1>3 DEF Bytes
<1>9. Fits(ShortLen, Len(cut)) /\ Len(cut) \in 0..NameMax
  BY <1>1, <1>2, <1>3
<1>10. name = NameOf[p]
  BY DEF name
<1> QED
  BY <1>4, <1>5, <1>6, <1>7, <1>8, <1>9, <1>10

\* Where the fields of a packet are.
LEMMA BodyFields ==
    ASSUME NEW v \in 1..4, NEW p \in Peers, NEW es, Len(es) \in Nat,
           \A i \in 1..Len(es) : EntryOK(v, es[i])
    PROVE  LET b == PackBody(v, p, es)
               named == Fixed + Len(es) * Stride(v)
           IN  /\ b \in Bytes /\ Len(b) = named + Len(NameField(v, p)) /\ b[1] = v
               /\ At(b, 1, Digits(IdLen, p))
               /\ At(b, 1 + IdLen + ShortLen, Digits(ShortLen, Len(es)))
               /\ At(b, Fixed, PackEntries(v, es))
               /\ At(b, named, NameField(v, p))
<1> DEFINE b1 == <<v>>
           b2 == Digits(IdLen, p)
           b3 == Digits(ShortLen, Port)
           b4 == Digits(ShortLen, Len(es))
           b5 == PackEntries(v, es)
           b6 == NameField(v, p)
           b == PackBody(v, p, es)
           named == Fixed + Len(es) * Stride(v)
<1>0. /\ IdLen \in Nat /\ ShortLen \in Nat /\ Stride(v) \in Nat /\ Port \in Nat
      /\ Fixed = 1 + IdLen + ShortLen + ShortLen /\ Fixed \in Nat
  BY Widths, HeaderWidth DEF Port
<1>1. b1 \in Bytes /\ Len(b1) = 1 /\ b1[1] = v
  BY DEF Bytes
<1>2. b2 \in Bytes /\ Len(b2) = IdLen
  BY <1>0, FormatAssumption, DigitsType DEF Bytes
<1>3. b3 \in Bytes /\ Len(b3) = ShortLen
  BY <1>0, DigitsType DEF Bytes
<1>4. b4 \in Bytes /\ Len(b4) = ShortLen
  BY <1>0, DigitsType DEF Bytes
<1>5. b5 \in Bytes /\ Len(b5) = Len(es) * Stride(v) /\ Len(b5) \in Nat
  BY PackedEntries DEF Bytes
<1>6. b6 \in Bytes
  BY Widths, NameFields DEF NameField
<1>7. b = ((((b1 \o b2) \o b3) \o b4) \o b5) \o b6
  BY DEF PackBody, NameField
<1> DEFINE c2 == b1 \o b2
           c3 == c2 \o b3
           c4 == c3 \o b4
           c5 == c4 \o b5
<1> HIDE DEF b1, b2, b3, b4, b5, b6, b
<1>8. /\ c2 \in Bytes /\ Len(c2) = 1 + IdLen /\ At(c2, 0, b1) /\ At(c2, 1, b2)
  BY <1>0, <1>1, <1>2, AtParts
<1> HIDE DEF c2
<1>9. /\ c3 \in Bytes /\ Len(c3) = 1 + IdLen + ShortLen /\ At(c3, 0, c2)
  BY <1>0, <1>3, <1>8, AtParts
<1> HIDE DEF c3
<1>10. /\ c4 \in Bytes /\ Len(c4) = Fixed /\ At(c4, 0, c3)
       /\ At(c4, 1 + IdLen + ShortLen, b4)
  BY <1>0, <1>4, <1>9, AtParts
<1> HIDE DEF c4
<1>11. /\ c5 \in Bytes /\ Len(c5) = named /\ At(c5, 0, c4) /\ At(c5, Fixed, b5)
  BY <1>0, <1>5, <1>10, AtParts
<1>12. b = c5 \o b6
  BY <1>7 DEF c2, c3, c4
<1> HIDE DEF c5
<1>13. /\ b \in Bytes /\ Len(b) = named + Len(b6) /\ At(b, 0, c5) /\ At(b, named, b6)
  BY <1>6, <1>11, <1>12, AtParts
<1>14. ASSUME NEW t \in Bytes, NEW o \in Nat, NEW c \in Bytes, At(b, 0, c), At(c, o, t)
       PROVE  At(b, o, t)
  <2>1. At(b, 0 + o, t)
    BY <1>13, <1>14, AtWithin
  <2> QED
    BY <2>1
<1>15. At(b, 0, c4) /\ At(b, Fixed, b5)
  BY <1>0, <1>5, <1>10, <1>11, <1>13, <1>14
<1>16. At(b, 0, c3) /\ At(b, 1 + IdLen + ShortLen, b4)
  BY <1>0, <1>4, <1>9, <1>10, <1>14, <1>15
<1>17. At(b, 0, c2)
  BY <1>8, <1>9, <1>14, <1>16
<1>18. At(b, 0, b1) /\ At(b, 1, b2)
  BY <1>1, <1>2, <1>8, <1>14, <1>17
<1>19. b[1] = v
  <2>1. b[0 + 1] = b1[1]
    BY <1>1, <1>18 DEF At
  <2> QED
    BY <1>1, <2>1
<1> QED
  BY <1>13, <1>15, <1>16, <1>18, <1>19 DEF b2, b4, b5, b6, b

\* What a listener is told of an entry: an older packet says less.
Told(v, e) == [share |-> e.share,
               ih |-> IF v < 3 THEN NoHash ELSE e.ih,
               seq |-> IF v < 4 THEN 0 ELSE e.seq]

\* What the listener is told of a packet.
Decoded(v, p, es) ==
    [peer |-> p, shares |-> {Told(v, es[i]) : i \in 1..Len(es)},
     name |-> IF v < 2 THEN <<>> ELSE DecodeName(CutName(p))]

\* The decoded hash and seq fields are what was encoded.
LEMMA EntryValues ==
    ASSUME NEW v \in 1..4, NEW e, EntryOK(v, e)
    PROVE  /\ Value(Digits(IdLen, e.share)) = e.share
           /\ v >= 3 => UnpackHash(HashField(v, e)) = e.ih
           /\ v >= 4 => Value(SeqField(v, e)) = e.seq
<1>1. Value(Digits(IdLen, e.share)) = e.share
  BY FormatAssumption, Widths, ValueOfDigits DEF EntryOK
<1>2. v >= 3 => UnpackHash(HashField(v, e)) = e.ih
  <2>1. \A h \in Hashes : h # Zeros(HashLen)
    BY FormatAssumption
  <2>2. v >= 3 => ~(v < 3)
    OBVIOUS
  <2> QED
    BY <2>1, <2>2 DEF UnpackHash, HashField, EntryOK
<1>3. v >= 4 => Value(SeqField(v, e)) = e.seq
  <2>1. v >= 4 => ~(v < 4)
    OBVIOUS
  <2> QED
    BY <2>1, Widths, ValueOfDigits DEF SeqField, EntryOK
<1> QED
  BY <1>1, <1>2, <1>3

\* A packet that can be packed decodes, in every version, to what that version
\* tells of what it was made of.
LEMMA UnpackPacked ==
    ASSUME NEW v \in 1..4, NEW p \in Peers, NEW es, Len(es) \in Nat,
           \A i \in 1..Len(es) : EntryOK(v, es[i]), Fits(ShortLen, Len(es))
    PROVE  Unpack(Signed(p, PackBody(v, p, es))) = {Decoded(v, p, es)}
<1> DEFINE b       == PackBody(v, p, es)
           g       == Signed(p, b)
           peer    == SubSeq(b, 2, 1 + IdLen)
           count   == Value(SubSeq(b, 2 + IdLen + ShortLen, Fixed))
           stride  == IdLen + (IF b[1] >= 3 THEN HashLen ELSE 0)
                            + (IF b[1] >= 4 THEN SeqLen ELSE 0)
           named   == Fixed + count * stride
           first   == named + ShortLen
           nameLen == Value(SubSeq(b, named + 1, first))
           end     == IF b[1] >= 2 THEN first + nameLen ELSE named
           entry(i) ==
               [share |-> Value(SubSeq(b, Fixed + (i - 1) * stride + 1,
                                          Fixed + (i - 1) * stride + IdLen)),
                ih |-> IF b[1] < 3 THEN NoHash
                       ELSE UnpackHash(SubSeq(b, Fixed + (i - 1) * stride + IdLen + 1,
                                          Fixed + (i - 1) * stride + IdLen + HashLen)),
                seq |-> IF b[1] < 4 THEN 0
                        ELSE Value(SubSeq(b, Fixed + (i - 1) * stride + stride - SeqLen + 1,
                                          Fixed + (i - 1) * stride + stride))]
<1>1. Unpack(g) =
        IF /\ Len(b) >= Fixed
           /\ b[1] \in 1..4
           /\ named <= Len(b)
           /\ b[1] >= 2 => first <= Len(b)
           /\ end = Len(b)
           /\ Digits(IdLen, p) = peer /\ b = b
        THEN {[peer |-> Value(peer),
               shares |-> {entry(i) : i \in 1..count},
               name |-> IF b[1] < 2 THEN <<>>
                        ELSE DecodeName(SubSeq(b, first + 1, end))]}
        ELSE {}
  BY DEF Unpack, Signed, Fixed
<1>2. /\ b \in Bytes /\ Len(b) = Fixed + Len(es) * Stride(v) + Len(NameField(v, p))
      /\ b[1] = v
      /\ At(b, 1, Digits(IdLen, p))
      /\ At(b, 1 + IdLen + ShortLen, Digits(ShortLen, Len(es)))
      /\ At(b, Fixed, PackEntries(v, es))
      /\ At(b, Fixed + Len(es) * Stride(v), NameField(v, p))
  BY BodyFields
<1>3. /\ IdLen \in Nat /\ HashLen \in Nat /\ SeqLen \in Nat /\ ShortLen \in Nat
      /\ Stride(v) \in Nat /\ Fixed \in Nat /\ Fixed = 1 + IdLen + ShortLen + ShortLen
  BY Widths, HeaderWidth
<1> HIDE DEF b
<1>4. stride = Stride(v)
  BY <1>2 DEF Stride, HashWidth, SeqWidth
<1>5. peer = Digits(IdLen, p) /\ Value(peer) = p
  <2>1. p \in Nat /\ Fits(IdLen, p)
    BY FormatAssumption
  <2>2. Digits(IdLen, p) \in Bytes /\ Len(Digits(IdLen, p)) = IdLen
    BY <1>3, <2>1, DigitsType DEF Bytes
  <2> DEFINE d == Digits(IdLen, p)
  <2> HIDE DEF d
  <2>3. d \in Bytes /\ Len(d) = IdLen /\ At(b, 1, d) /\ b \in Bytes
    BY <1>2, <2>2 DEF d
  <2>4. peer = d
    <3>1. 2 = 1 + 1 /\ 1 + IdLen = 1 + Len(d)
      BY <2>3
    <3> QED
      BY <2>3, <3>1, AtSlice
  <2> QED
    BY <1>3, <2>1, <2>4, ValueOfDigits DEF d
<1>6. count = Len(es)
  <2> DEFINE d == Digits(ShortLen, Len(es))
  <2>1. d \in Bytes /\ Len(d) = ShortLen
    BY <1>3, DigitsType DEF Bytes
  <2>2. /\ 2 + IdLen + ShortLen = (1 + IdLen + ShortLen) + 1
        /\ Fixed = (1 + IdLen + ShortLen) + ShortLen
    BY <1>3
  <2>3. SubSeq(b, 2 + IdLen + ShortLen, Fixed) = d
    BY <1>2, <2>1, <2>2, AtSlice
  <2> QED
    BY <1>3, <2>3, ValueOfDigits
<1>7. named = Fixed + Len(es) * Stride(v) /\ named \in Nat
  BY <1>2, <1>4, <1>6 DEF At
<1> DEFINE cut == CutName(p)
<1>8. /\ cut \in Bytes /\ Len(cut) \in Nat /\ Fits(ShortLen, Len(cut))
      /\ Digits(ShortLen, Len(cut)) \in Bytes
      /\ Len(Digits(ShortLen, Len(cut))) = ShortLen
      /\ PackName(NameOf[p]) \in Bytes
      /\ Len(PackName(NameOf[p])) = ShortLen + Len(cut)
      /\ At(PackName(NameOf[p]), 0, Digits(ShortLen, Len(cut)))
      /\ At(PackName(NameOf[p]), ShortLen, cut)
  BY NameFields DEF Bytes
<1> HIDE DEF cut, named, stride, count, peer, entry
<1>9. ASSUME v >= 2
      PROVE  /\ nameLen = Len(cut) /\ SubSeq(b, first + 1, first + nameLen) = cut
             /\ Len(b) = first + nameLen /\ first \in Nat
  <2>1. NameField(v, p) = PackName(NameOf[p])
    BY <1>9 DEF NameField
  <2>2. At(b, named + 0, Digits(ShortLen, Len(cut))) /\ At(b, named + ShortLen, cut)
    BY <1>2, <1>7, <1>8, <2>1, AtWithin
  <2>3. named + 0 = named /\ first = named + ShortLen /\ first \in Nat
    BY <1>3, <1>7
  <2> DEFINE d == Digits(ShortLen, Len(cut))
  <2> HIDE DEF d, first
  <2>4. SubSeq(b, named + 1, first) = d
    <3>1. d \in Bytes /\ Len(d) = ShortLen /\ At(b, named, d) /\ b \in Bytes
      BY <1>2, <1>8, <2>2, <2>3 DEF d
    <3>2. first = named + Len(d)
      BY <2>3, <3>1
    <3> QED
      BY <3>1, <3>2, AtSlice
  <2>5. nameLen = Len(cut)
    BY <1>3, <1>8, <2>4, ValueOfDigits DEF d
  <2> HIDE DEF nameLen
  <2>6. SubSeq(b, first + 1, first + nameLen) = cut
    <3>1. At(b, first, cut) /\ cut \in Bytes /\ b \in Bytes
      BY <1>2, <1>8, <2>2, <2>3
    <3> QED
      BY <2>5, <3>1, AtSlice
  <2>7. Len(b) = first + nameLen
    <3>1. Len(b) = named + (ShortLen + Len(cut))
      BY <1>2, <1>7, <1>8, <2>1
    <3> QED
      BY <1>3, <1>7, <1>8, <2>3, <2>5, <3>1
  <2> QED
    BY <2>3, <2>5, <2>6, <2>7
<1>10. ASSUME v < 2 PROVE Len(b) = named
  BY <1>2, <1>7, <1>10, Widths DEF NameField
<1>11. ASSUME NEW i \in 1..Len(es) PROVE entry(i) = Told(v, es[i])
  <2> DEFINE e == es[i]
             x == PackEntry(v, e)
             o == (i - 1) * Stride(v)
             at == Fixed + o
  <2>1. EntryOK(v, e)
    OBVIOUS
  <2>2. /\ x \in Bytes /\ Len(x) = Stride(v)
        /\ Digits(IdLen, e.share) \in Bytes /\ Len(Digits(IdLen, e.share)) = IdLen
        /\ HashField(v, e) \in Bytes /\ Len(HashField(v, e)) = HashWidth(v)
        /\ SeqField(v, e) \in Bytes /\ Len(SeqField(v, e)) = SeqWidth(v)
        /\ At(x, 0, Digits(IdLen, e.share)) /\ At(x, IdLen, HashField(v, e))
        /\ At(x, IdLen + HashWidth(v), SeqField(v, e))
    BY <2>1, EntryFields
  <2>3. /\ Value(Digits(IdLen, e.share)) = e.share
        /\ v >= 3 => UnpackHash(HashField(v, e)) = e.ih
        /\ v >= 4 => Value(SeqField(v, e)) = e.seq
    BY <2>1, EntryValues
  <2>4. At(PackEntries(v, es), o, x) /\ PackEntries(v, es) \in Bytes
    BY PackedEntries
  <2>5. o \in Nat
    BY <2>4 DEF At
  <2> DEFINE d == Digits(IdLen, e.share)
             h == HashField(v, e)
             q == SeqField(v, e)
             all == PackEntries(v, es)
  <2> HIDE DEF e, x, o, d, h, q, all
  <2>6. At(b, at, x) /\ at \in Nat
    <3>1. At(b, Fixed, all) /\ At(all, o, x) /\ all \in Bytes /\ x \in Bytes
          /\ b \in Bytes
      BY <1>2, <2>2, <2>4 DEF all
    <3> QED
      BY <1>3, <2>5, <3>1, AtWithin
  <2> HIDE DEF at
  <2>7. /\ d \in Bytes /\ Len(d) = IdLen /\ At(b, at, d)
        /\ h \in Bytes /\ Len(h) = HashWidth(v) /\ At(b, at + IdLen, h)
        /\ q \in Bytes /\ Len(q) = SeqWidth(v) /\ At(b, at + (IdLen + HashWidth(v)), q)
    <3>1. /\ d \in Bytes /\ Len(d) = IdLen /\ At(x, 0, d)
          /\ h \in Bytes /\ Len(h) = HashWidth(v) /\ At(x, IdLen, h)
          /\ q \in Bytes /\ Len(q) = SeqWidth(v) /\ At(x, IdLen + HashWidth(v), q)
      BY <2>2 DEF d, h, q
    <3>2. /\ At(b, at + 0, d) /\ At(b, at + IdLen, h)
          /\ At(b, at + (IdLen + HashWidth(v)), q)
      BY <1>2, <2>2, <2>6, <3>1, AtWithin
    <3>3. at + 0 = at
      BY <2>6
    <3> QED
      BY <3>1, <3>2, <3>3
  <2>8. SubSeq(b, at + 1, at + IdLen) = d
    BY <1>2, <2>7, AtSlice
  <2>9. Value(SubSeq(b, at + 1, at + IdLen)) = e.share
    BY <2>3, <2>8 DEF d
  <2>10. ASSUME v >= 3
         PROVE  UnpackHash(SubSeq(b, at + IdLen + 1, at + IdLen + HashLen)) = e.ih
    <3>1. HashWidth(v) = HashLen
      BY <2>10 DEF HashWidth
    <3>2. SubSeq(b, at + IdLen + 1, at + IdLen + HashLen) = h
      <4> DEFINE k == at + IdLen
      <4>1. At(b, k, h) /\ h \in Bytes /\ Len(h) = HashLen /\ b \in Bytes
        BY <1>2, <2>7, <3>1
      <4> HIDE DEF k
      <4>2. SubSeq(b, k + 1, k + HashLen) = h
        BY <4>1, AtSlice
      <4> QED
        BY <4>2 DEF k
    <3> QED
      BY <2>3, <2>10, <3>2 DEF h
  <2>11. ASSUME v >= 4
         PROVE  Value(SubSeq(b, at + Stride(v) - SeqLen + 1, at + Stride(v))) = e.seq
    <3>1. HashWidth(v) = HashLen /\ SeqWidth(v) = SeqLen
      BY <2>11 DEF HashWidth, SeqWidth
    <3>2. /\ at + Stride(v) - SeqLen + 1 = (at + (IdLen + HashWidth(v))) + 1
          /\ at + Stride(v) = (at + (IdLen + HashWidth(v))) + SeqLen
      BY <1>3, <2>6, <3>1 DEF Stride
    <3>3. SubSeq(b, at + Stride(v) - SeqLen + 1, at + Stride(v)) = q
      BY <1>2, <2>7, <3>1, <3>2, AtSlice
    <3> QED
      BY <2>3, <2>11, <3>3 DEF q
  <2>12. (v < 3 \/ v >= 3) /\ (v < 4 \/ v >= 4)
    OBVIOUS
  <2>13. entry(i) =
           [share |-> Value(SubSeq(b, at + 1, at + IdLen)),
            ih |-> IF v < 3 THEN NoHash
                   ELSE UnpackHash(SubSeq(b, at + IdLen + 1, at + IdLen + HashLen)),
            seq |-> IF v < 4 THEN 0
                    ELSE Value(SubSeq(b, at + Stride(v) - SeqLen + 1, at + Stride(v)))]
    BY <1>2, <1>4 DEF at, o, entry
  <2>14. entry(i) = Told(v, e)
    BY <2>9, <2>10, <2>11, <2>12, <2>13 DEF Told
  <2> QED
    BY <2>14 DEF e
<1>12. {entry(i) : i \in 1..count} = {Told(v, es[i]) : i \in 1..Len(es)}
  BY <1>6, <1>11
<1> HIDE DEF nameLen, first
<1>13. /\ Len(b) >= Fixed /\ b[1] \in 1..4 /\ named <= Len(b)
       /\ b[1] >= 2 => first <= Len(b)
       /\ end = Len(b)
  <2>1. CASE v >= 2
    <3>1. nameLen \in Nat /\ first = named + ShortLen
      BY <1>8, <1>9, <2>1 DEF first
    <3>2. end = first + nameLen
      BY <1>2, <2>1
    <3>3. Fixed <= named
      BY <1>2, <1>3, <1>7, PackedEntries DEF At, Bytes
    <3>4. named <= first /\ first <= Len(b)
      <4>1. Len(b) = first + nameLen /\ first \in Nat
        BY <1>9, <2>1
      <4>2. named \in Nat /\ ShortLen \in Nat
        BY <1>3, <1>7
      <4> QED
        BY <3>1, <4>1, <4>2
    <3>5. end = Len(b)
      BY <1>9, <2>1, <3>2
    <3>6. b[1] \in 1..4 /\ Len(b) \in Nat
      BY <1>2 DEF Bytes
    <3> HIDE DEF end
    <3> QED
      BY <1>3, <1>7, <1>9, <2>1, <3>3, <3>4, <3>5, <3>6
  <2>2. CASE v < 2
    <3>1. Fixed <= named
      BY <1>2, <1>3, <1>7, PackedEntries DEF At, Bytes
    <3> QED
      BY <1>2, <1>3, <1>7, <1>10, <2>2, <3>1
  <2> QED
    BY <2>1, <2>2
<1>14. (IF b[1] < 2 THEN <<>> ELSE DecodeName(SubSeq(b, first + 1, end)))
         = (IF v < 2 THEN <<>> ELSE DecodeName(cut))
  <2>1. CASE v >= 2
    BY <1>2, <1>9, <2>1
  <2>2. CASE v < 2
    BY <1>2, <2>2
  <2> QED
    BY <2>1, <2>2
<1>15. Unpack(g) = {[peer |-> Value(peer), shares |-> {entry(i) : i \in 1..count},
                     name |-> IF b[1] < 2 THEN <<>>
                              ELSE DecodeName(SubSeq(b, first + 1, end))]}
  <2> HIDE DEF g, end
  <2> QED
    BY <1>1, <1>5, <1>13
<1>16. Unpack(g) = {[peer |-> p, shares |-> {Told(v, es[i]) : i \in 1..Len(es)},
                     name |-> IF v < 2 THEN <<>> ELSE DecodeName(cut)]}
  <2> HIDE DEF g, end
  <2> QED
    BY <1>5, <1>12, <1>14, <1>15, Zenon
<1> QED
  BY <1>16 DEF b, cut, Decoded

-----------------------------------------------------------------------------
(* The daemons and the network *)

\* The rows and the active shares of every peer, and who listens.
LanTypeOK ==
    /\ row \in [Peers -> [Shares -> Entry]]
    /\ active \in [Peers -> SUBSET Shares]
    /\ DOMAIN seen = Daemons

\* The history has what every row holds now.
Recorded == \A p \in Peers, s \in Shares : <<p, s, row[p][s]>> \in past

\* Entries that p may announce in a packet of version v.
Announceable(v, p, es) ==
    /\ Len(es) \in Nat /\ Fits(ShortLen, Len(es))
    /\ \A i \in 1..Len(es) :
          /\ EntryOK(v, es[i])
          /\ <<p, es[i].share, [ih |-> es[i].ih, seq |-> es[i].seq]>> \in past

\* Every datagram, damaged or not, carries the signature of a peer over a packet
\* that this peer sent and that was true then.
Genuine(g) ==
    \E v \in 1..4, p \in Peers : \E es :
        /\ p \in Daemons => v = 4
        /\ Announceable(v, p, es)
        /\ g = [bytes |-> g.bytes, key |-> Digits(IdLen, p), over |-> PackBody(v, p, es)]

AirGenuine == \A g \in air : Genuine(g)

\* Inductive: a report is true because the datagram it came from is genuine.
LanInv == LanTypeOK /\ Recorded /\ AirGenuine /\ ReportsTrue

\* A finite set can be listed.
LEMMA Listed ==
    ASSUME NEW S, IsFiniteSet(S)
    PROVE  SetToSeq(S) \in [1..Cardinality(S) -> S] /\ Cardinality(S) \in Nat
<1>1. Cardinality(S) \in Nat /\ ExistsBijection(1..Cardinality(S), S)
  BY FS_CardinalityType
<1>2. \E f \in [1..Cardinality(S) -> S] : IsInjective(f)
  BY <1>1 DEF ExistsBijection, Bijection, Injection
<1> QED
  BY <1>1, <1>2 DEF SetToSeq

\* What a peer announces is of its own rows.
LEMMA EntriesOf ==
    ASSUME LanTypeOK, Recorded, NEW p \in Peers
    PROVE  /\ Len(Entries(p)) \in Nat /\ DOMAIN Entries(p) = 1..Len(Entries(p))
           /\ \A i \in 1..Len(Entries(p)) : \E s \in Shares :
                 /\ Entries(p)[i] = [share |-> s, ih |-> row[p][s].ih, seq |-> row[p][s].seq]
                 /\ row[p][s] \in Entry /\ <<p, s, row[p][s]>> \in past
<1> DEFINE ids == SetToSeq(active[p])
           es == [i \in 1..Len(ids) |-> [share |-> ids[i], ih |-> row[p][ids[i]].ih,
                                         seq |-> row[p][ids[i]].seq]]
<1>1. IsFiniteSet(active[p]) /\ active[p] \subseteq Shares
  BY FormatAssumption, FS_Subset DEF LanTypeOK
<1>2. ids \in [1..Cardinality(active[p]) -> active[p]] /\ Cardinality(active[p]) \in Nat
  BY <1>1, Listed
<1> HIDE DEF ids
<1>3. Len(ids) \in Nat /\ \A i \in 1..Len(ids) : ids[i] \in Shares
  BY <1>1, <1>2
<1>4. Entries(p) = es
  BY DEF Entries, ids
<1>5. Len(es) = Len(ids) /\ DOMAIN es = 1..Len(ids)
  BY <1>3
<1>6. ASSUME NEW i \in 1..Len(ids)
      PROVE  \E s \in Shares :
                 /\ es[i] = [share |-> s, ih |-> row[p][s].ih, seq |-> row[p][s].seq]
                 /\ row[p][s] \in Entry /\ <<p, s, row[p][s]>> \in past
  <2>1. ids[i] \in Shares
    BY <1>3
  <2>2. row[p][ids[i]] \in Entry /\ <<p, ids[i], row[p][ids[i]]>> \in past
    BY <2>1 DEF LanTypeOK, Recorded
  <2>3. es[i] = [share |-> ids[i], ih |-> row[p][ids[i]].ih, seq |-> row[p][ids[i]].seq]
    OBVIOUS
  <2> HIDE DEF es
  <2> QED
    BY <2>1, <2>2, <2>3
<1> HIDE DEF es
<1> QED
  BY <1>3, <1>4, <1>5, <1>6

\* What a peer announces may be announced, if the count and the seqs fit.
LEMMA EntriesAnnounceable ==
    ASSUME LanTypeOK, Recorded, NEW p \in Peers, NEW v \in 1..4,
           Fits(ShortLen, Len(Entries(p))),
           v >= 4 => Packable(Entries(p))
    PROVE  Announceable(v, p, Entries(p))
<1> DEFINE es == Entries(p)
<1>1. /\ Len(es) \in Nat
      /\ \A i \in 1..Len(es) : \E s \in Shares :
            /\ es[i] = [share |-> s, ih |-> row[p][s].ih, seq |-> row[p][s].seq]
            /\ row[p][s] \in Entry /\ <<p, s, row[p][s]>> \in past
  BY EntriesOf
<1>2. v >= 4 => \A i \in 1..Len(es) : Fits(SeqLen, es[i].seq)
  BY DEF Packable
<1> HIDE DEF es
<1>3. ASSUME NEW i \in 1..Len(es)
      PROVE  /\ EntryOK(v, es[i])
             /\ <<p, es[i].share, [ih |-> es[i].ih, seq |-> es[i].seq]>> \in past
  <2>1. PICK s \in Shares :
            /\ es[i] = [share |-> s, ih |-> row[p][s].ih, seq |-> row[p][s].seq]
            /\ row[p][s] \in Entry /\ <<p, s, row[p][s]>> \in past
    BY <1>1
  <2>2. /\ es[i].share = s /\ es[i].ih = row[p][s].ih /\ es[i].seq = row[p][s].seq
    BY <2>1
  <2>3. /\ row[p][s] = [ih |-> row[p][s].ih, seq |-> row[p][s].seq]
        /\ row[p][s].ih \in Hashes \cup {NoHash} /\ row[p][s].seq \in Nat
    BY <2>1, FormatAssumption DEF Entry
  <2> QED
    BY <1>2, <2>1, <2>2, <2>3 DEF EntryOK
<1> QED
  BY <1>1, <1>3 DEF Announceable, es

\* The cut name decodes to the name, unless the cut fell inside a character.
LEMMA CutDecodes ==
    ASSUME NEW p \in Peers
    PROVE  LET cut == SubSeq(NameOf[p], 1, NameMax)
           IN  DecodeName(CutName(p)) =
                   IF Len(NameOf[p]) <= NameMax THEN NameOf[p]
                   ELSE IF cut[NameMax] = Lead THEN <<>> ELSE cut
<1> DEFINE name == NameOf[p]
           cut == SubSeq(name, 1, NameMax)
<1>1. /\ name \in Seq(Nat) /\ Len(name) \in Nat /\ NameMax \in Nat /\ NameMax # 0
      /\ DecodeName(name) = name
  BY FormatAssumption
<1> HIDE DEF name
<1>2. CASE Len(name) <= NameMax
  <2>1. CutName(p) = SubSeq(name, 1, Len(name))
    BY <1>1, <1>2 DEF CutName, name
  <2>2. CutName(p) = name
    BY <1>1, <2>1, SubSeqFull
  <2> QED
    BY <1>1, <1>2, <2>2 DEF name
<1>3. CASE ~(Len(name) <= NameMax)
  <2>1. CutName(p) = cut
    BY <1>1, <1>3 DEF CutName, name
  <2>2. Len(cut) = NameMax /\ cut \in Seq(Nat)
    <3>1. \A i \in 1..NameMax : name[i] \in Nat
      BY <1>1, <1>3
    <3> QED
      BY <1>1, <3>1, SubSeqProperties
  <2> HIDE DEF cut
  <2>3. cut # <<>>
    BY <1>1, <2>2
  <2>4. DecodeName(cut) = IF cut[NameMax] = Lead THEN <<>> ELSE cut
    BY <2>2, <2>3 DEF DecodeName
  <2> QED
    BY <1>3, <2>1, <2>4 DEF cut, name
<1> QED
  BY <1>2, <1>3

\* A packet of this release tells everything.
LEMMA RoundTripHolds ==
    ASSUME LanTypeOK, Recorded PROVE RoundTrip
<1> SUFFICES ASSUME NEW d \in Daemons, Packable(Entries(d))
             PROVE  LET cut == SubSeq(NameOf[d], 1, NameMax)
                    IN  Unpack(Signed(d, PackBody(VERSION, d, Entries(d)))) =
                          {[peer |-> d, shares |-> ToSet(Entries(d)),
                            name |-> IF Len(NameOf[d]) <= NameMax THEN NameOf[d]
                                     ELSE IF cut[NameMax] = Lead THEN <<>> ELSE cut]}
  BY DEF RoundTrip
<1> DEFINE es == Entries(d)
<1>1. d \in Peers /\ VERSION = 4 /\ 4 \in 1..4 /\ ~(4 < 2)
  BY DEF Peers, VERSION
<1>2. /\ Len(es) \in Nat /\ DOMAIN es = 1..Len(es)
      /\ \A i \in 1..Len(es) : \E s \in Shares :
            es[i] = [share |-> s, ih |-> row[d][s].ih, seq |-> row[d][s].seq]
  BY <1>1, EntriesOf
<1>3. Fits(ShortLen, Len(es))
  BY DEF Packable
<1>4. Announceable(4, d, es)
  BY <1>1, <1>3, EntriesAnnounceable
<1> HIDE DEF es
<1>5. \A i \in 1..Len(es) : Told(4, es[i]) = es[i]
  BY <1>2 DEF Told
<1>6. {Told(4, es[i]) : i \in 1..Len(es)} = ToSet(es)
  BY <1>2, <1>5 DEF ToSet
<1>7. Unpack(Signed(d, PackBody(4, d, es))) = {Decoded(4, d, es)}
  <2>1. \A i \in 1..Len(es) : EntryOK(4, es[i])
    BY <1>4 DEF Announceable
  <2> QED
    BY <1>1, <1>2, <1>3, <2>1, UnpackPacked
<1>8. Decoded(4, d, es) = [peer |-> d, shares |-> ToSet(es), name |-> DecodeName(CutName(d))]
  BY <1>1, <1>6 DEF Decoded
<1> QED
  BY <1>1, <1>7, <1>8, CutDecodes DEF es

\* What was true stays in the history.
LEMMA GenuineGrows ==
    ASSUME past \subseteq past', NEW g, Genuine(g) PROVE Genuine(g)'
<1>1. PICK v \in 1..4, p \in Peers : \E es :
          /\ p \in Daemons => v = 4
          /\ Announceable(v, p, es)
          /\ g = [bytes |-> g.bytes, key |-> Digits(IdLen, p), over |-> PackBody(v, p, es)]
  BY DEF Genuine
<1>2. PICK es :
          /\ p \in Daemons => v = 4
          /\ Announceable(v, p, es)
          /\ g = [bytes |-> g.bytes, key |-> Digits(IdLen, p), over |-> PackBody(v, p, es)]
  BY <1>1
<1>3. Announceable(v, p, es)'
  BY <1>2 DEF Announceable
<1> QED
  BY <1>2, <1>3 DEF Genuine

\* A report stays true when the history grows.
LEMMA ReportsGrow ==
    ASSUME past \subseteq past', seen' = seen, ReportsTrue PROVE ReportsTrue'
  BY DEF ReportsTrue

\* A packet a peer sends is genuine.
LEMMA SentGenuine ==
    ASSUME LanInv, NEW v \in 1..4, NEW p \in Peers, NEW es, Announceable(v, p, es),
           p \in Daemons => v = 4, Send(Signed(p, PackBody(v, p, es))),
           UNCHANGED <<row, active, past, seen>>
    PROVE  LanInv'
<1> DEFINE g == Signed(p, PackBody(v, p, es))
<1>1. g = [bytes |-> g.bytes, key |-> Digits(IdLen, p), over |-> PackBody(v, p, es)]
  BY DEF Signed
<1> HIDE DEF g
<1>2. Genuine(g)
  BY <1>1 DEF Genuine
<1>3. air' \subseteq air \cup {g}
  BY DEF Send, g
<1>4. AirGenuine'
  BY <1>2, <1>3, GenuineGrows DEF LanInv, AirGenuine
<1>5. ReportsTrue'
  BY ReportsGrow DEF LanInv
<1> QED
  BY <1>4, <1>5 DEF LanInv, LanTypeOK, Recorded

\* Only bytes that are what was signed decode.
LEMMA UnpackAccepts ==
    ASSUME NEW g, NEW r \in Unpack(g) PROVE g.over = g.bytes
  BY DEF Unpack

\* What a datagram tells was true of the peer that signed it.
LEMMA DecodedTrue ==
    ASSUME NEW g, Genuine(g), NEW r \in Unpack(g)
    PROVE  \A e \in r.shares : \E t \in past :
              /\ t[1] = r.peer /\ t[2] = e.share
              /\ e.ih \in {NoHash, t[3].ih}
              /\ r.peer \in Daemons => t[3] = [ih |-> e.ih, seq |-> e.seq]
<1>1. PICK v \in 1..4, p \in Peers : \E es :
          /\ p \in Daemons => v = 4
          /\ Announceable(v, p, es)
          /\ g = [bytes |-> g.bytes, key |-> Digits(IdLen, p), over |-> PackBody(v, p, es)]
  BY DEF Genuine
<1>2. PICK es :
          /\ p \in Daemons => v = 4
          /\ Announceable(v, p, es)
          /\ g = [bytes |-> g.bytes, key |-> Digits(IdLen, p), over |-> PackBody(v, p, es)]
  BY <1>1
<1>3. g = Signed(p, PackBody(v, p, es))
  <2> DEFINE body == PackBody(v, p, es)
  <2>1. g.over = g.bytes
    BY UnpackAccepts
  <2> HIDE DEF body
  <2>2. g = [bytes |-> g.bytes, key |-> Digits(IdLen, p), over |-> body]
    BY <1>2 DEF body
  <2>3. g.bytes = body
    BY <2>1, <2>2
  <2>4. g = Signed(p, body)
    BY <2>2, <2>3 DEF Signed
  <2> QED
    BY <2>4 DEF body
<1>4. Len(es) \in Nat /\ Fits(ShortLen, Len(es)) /\ \A i \in 1..Len(es) : EntryOK(v, es[i])
  BY <1>2 DEF Announceable
<1>5. r = Decoded(v, p, es)
  BY <1>3, <1>4, UnpackPacked
<1>6. r.peer = p /\ r.shares = {Told(v, es[i]) : i \in 1..Len(es)}
  BY <1>5 DEF Decoded
<1>7. SUFFICES ASSUME NEW i \in 1..Len(es)
               PROVE  \E t \in past :
                         /\ t[1] = p /\ t[2] = Told(v, es[i]).share
                         /\ Told(v, es[i]).ih \in {NoHash, t[3].ih}
                         /\ p \in Daemons => t[3] = [ih |-> Told(v, es[i]).ih,
                                                     seq |-> Told(v, es[i]).seq]
  BY <1>6
<1> DEFINE u == [ih |-> es[i].ih, seq |-> es[i].seq]
           t == <<p, es[i].share, u>>
<1>8. t \in past
  BY <1>2 DEF Announceable
<1>9. t[1] = p /\ t[2] = es[i].share /\ t[3] = u
  OBVIOUS
<1>10. u.ih = es[i].ih
  OBVIOUS
<1>11. /\ Told(v, es[i]).share = es[i].share
       /\ Told(v, es[i]).ih \in {NoHash, es[i].ih}
       /\ v = 4 => Told(v, es[i]).ih = es[i].ih /\ Told(v, es[i]).seq = es[i].seq
  BY DEF Told
<1>12. p \in Daemons => u = [ih |-> Told(v, es[i]).ih, seq |-> Told(v, es[i]).seq]
  BY <1>2, <1>11
<1> HIDE DEF t, u
<1> QED
  BY <1>8, <1>9, <1>10, <1>11, <1>12

\* Every step keeps the datagrams genuine and the reports true.
LEMMA LanStep ==
    ASSUME LanInv, [Next]_vars PROVE LanInv'
<1>0. /\ row \in [Peers -> [Shares -> Entry]] /\ active \in [Peers -> SUBSET Shares]
      /\ Recorded /\ AirGenuine /\ ReportsTrue /\ DOMAIN seen = Daemons /\ LanTypeOK
  BY DEF LanInv, LanTypeOK
<1>1. ASSUME NEW d \in Daemons, Announce(d) PROVE LanInv'
  <2>1. d \in Peers /\ VERSION = 4 /\ 4 \in 1..4
    BY DEF Peers, VERSION
  <2>2. /\ Packable(Entries(d)) /\ Send(Signed(d, PackBody(4, d, Entries(d))))
        /\ UNCHANGED <<row, active, past, seen>>
    BY <1>1, <2>1 DEF Announce
  <2>3. Announceable(4, d, Entries(d))
    BY <1>0, <2>1, <2>2, EntriesAnnounceable DEF Packable
  <2> QED
    BY <2>1, <2>2, <2>3, SentGenuine
<1>2. ASSUME NEW p \in Elders, AnnounceOld(p) PROVE LanInv'
  <2>1. p \in Peers /\ p \notin Daemons
    BY FormatAssumption DEF Peers
  <2>2. PICK v \in 1..3 : /\ Fits(ShortLen, Len(Entries(p)))
                          /\ Send(Signed(p, PackBody(v, p, Entries(p))))
                          /\ UNCHANGED <<row, active, past, seen>>
    BY <1>2 DEF AnnounceOld
  <2>3. v \in 1..4 /\ ~(v >= 4)
    OBVIOUS
  <2>4. Announceable(v, p, Entries(p))
    BY <1>0, <2>1, <2>2, <2>3, EntriesAnnounceable
  <2> QED
    BY <2>1, <2>2, <2>3, <2>4, SentGenuine
<1>3. ASSUME NEW d \in Daemons, NEW g \in air, OnDatagram(d, g) PROVE LanInv'
  <2>1. PICK r \in Unpack(g) : r.peer # d /\ seen' = [seen EXCEPT ![d] = r]
    BY <1>3 DEF OnDatagram
  <2>2. UNCHANGED <<row, active, past, air>>
    BY <1>3 DEF OnDatagram
  <2>3. Genuine(g)
    BY <1>0 DEF AirGenuine
  <2>4. \A e \in r.shares : \E t \in past :
           /\ t[1] = r.peer /\ t[2] = e.share
           /\ e.ih \in {NoHash, t[3].ih}
           /\ r.peer \in Daemons => t[3] = [ih |-> e.ih, seq |-> e.seq]
    BY <2>3, DecodedTrue
  <2>5. seen'[d] = r /\ \A c \in Daemons \ {d} : seen'[c] = seen[c]
    BY <1>0, <2>1
  <2>6. ReportsTrue'
    BY <1>0, <2>1, <2>2, <2>4, <2>5 DEF ReportsTrue
  <2>7. AirGenuine'
    BY <1>0, <2>2, GenuineGrows DEF AirGenuine
  <2>8. DOMAIN seen' = Daemons
    BY <1>0, <2>1
  <2> QED
    BY <1>0, <2>2, <2>6, <2>7, <2>8 DEF LanInv, LanTypeOK, Recorded
<1>4. ASSUME NEW g \in air, Damage(g) PROVE LanInv'
  <2>1. UNCHANGED <<row, active, past, seen>>
    BY <1>4 DEF Damage
  <2>2. \E b : air' = (air \ {g}) \cup {[g EXCEPT !.bytes = b]}
    BY <1>4 DEF Damage
  <2>3. PICK b : air' = (air \ {g}) \cup {[g EXCEPT !.bytes = b]}
    BY <2>2
  <2> DEFINE h == [g EXCEPT !.bytes = b]
  <2>4. PICK v \in 1..4, p \in Peers : \E es :
            /\ p \in Daemons => v = 4
            /\ Announceable(v, p, es)
            /\ g = [bytes |-> g.bytes, key |-> Digits(IdLen, p), over |-> PackBody(v, p, es)]
    BY <1>0 DEF AirGenuine, Genuine
  <2>5. PICK es :
            /\ p \in Daemons => v = 4
            /\ Announceable(v, p, es)
            /\ g = [bytes |-> g.bytes, key |-> Digits(IdLen, p), over |-> PackBody(v, p, es)]
    BY <2>4
  <2>6. h = [bytes |-> h.bytes, key |-> Digits(IdLen, p), over |-> PackBody(v, p, es)]
    <3> DEFINE k == Digits(IdLen, p)
               body == PackBody(v, p, es)
    <3> HIDE DEF k, body
    <3>1. g = [bytes |-> g.bytes, key |-> k, over |-> body]
      BY <2>5 DEF k, body
    <3>2. h = [bytes |-> b, key |-> k, over |-> body] /\ h.bytes = b
      BY <3>1
    <3> QED
      BY <3>2 DEF k, body
  <2> HIDE DEF h
  <2>7. Genuine(h)
    BY <2>5, <2>6 DEF Genuine
  <2>8. AirGenuine'
    BY <1>0, <2>1, <2>3, <2>7, GenuineGrows DEF AirGenuine, h
  <2>9. ReportsTrue'
    BY <1>0, <2>1, ReportsGrow
  <2> QED
    BY <1>0, <2>1, <2>8, <2>9 DEF LanInv, LanTypeOK, Recorded
<1>5. ASSUME NEW p \in Peers, NEW s \in Shares, Change(p, s) PROVE LanInv'
  <2>1. PICK h \in Hashes :
            row' = [row EXCEPT ![p][s] = [ih |-> h, seq |-> row[p][s].seq + 1]]
    BY <1>5 DEF Change
  <2>2. /\ past' = past \cup {<<p, s, row'[p][s]>>} /\ row[p][s].seq < SeqLimit
        /\ UNCHANGED <<active, air, seen>>
    BY <1>5 DEF Change
  <2>3. [ih |-> h, seq |-> row[p][s].seq + 1] \in Entry
    <3>1. row[p][s] \in Entry /\ SeqLimit \in Nat
      BY <1>0, FormatAssumption
    <3>2. row[p][s].seq \in 0..SeqLimit
      BY <3>1 DEF Entry
    <3>3. row[p][s].seq + 1 \in 0..SeqLimit
      BY <2>2, <3>1, <3>2
    <3> QED
      BY <3>3 DEF Entry
  <2>4. row' \in [Peers -> [Shares -> Entry]]
    BY <1>0, <2>1, <2>3
  <2>5. \A q \in Peers, z \in Shares : (q = p /\ z = s) \/ row'[q][z] = row[q][z]
    BY <1>0, <2>1
  <2>6. Recorded'
    BY <1>0, <2>2, <2>5 DEF Recorded
  <2>7. AirGenuine'
    BY <1>0, <2>2, GenuineGrows DEF AirGenuine
  <2>8. ReportsTrue'
    BY <1>0, <2>2, ReportsGrow
  <2> QED
    BY <1>0, <2>2, <2>4, <2>6, <2>7, <2>8 DEF LanInv, LanTypeOK
<1>6. ASSUME NEW p \in Peers, NEW s \in Shares, PauseOrResume(p, s) PROVE LanInv'
  <2>1. /\ active' = [active EXCEPT ![p] = IF s \in active[p] THEN active[p] \ {s}
                                           ELSE active[p] \cup {s}]
        /\ UNCHANGED <<row, past, air, seen>>
    BY <1>6 DEF PauseOrResume
  <2>2. active' \in [Peers -> SUBSET Shares]
    BY <1>0, <2>1
  <2>3. AirGenuine'
    BY <1>0, <2>1, GenuineGrows DEF AirGenuine
  <2>4. ReportsTrue'
    BY <1>0, <2>1, ReportsGrow
  <2> QED
    BY <1>0, <2>1, <2>2, <2>3, <2>4 DEF LanInv, LanTypeOK, Recorded
<1>7. CASE UNCHANGED vars
  <2>1. UNCHANGED <<row, active, past, air, seen>>
    BY <1>7 DEF vars
  <2>2. AirGenuine'
    BY <1>0, <2>1, GenuineGrows DEF AirGenuine
  <2>3. ReportsTrue'
    BY <1>0, <2>1, ReportsGrow
  <2> QED
    BY <1>0, <2>1, <2>2, <2>3 DEF LanInv, LanTypeOK, Recorded
<1> QED
  BY <1>1, <1>2, <1>3, <1>4, <1>5, <1>6, <1>7 DEF Next

\* It all begins with nothing sent.
LEMMA LanStart ==
    ASSUME Init PROVE LanInv
<1>1. PICK n \in {0, SeqLimit - 2} :
          row = [p \in Peers |-> [s \in Shares |-> [ih |-> NoHash, seq |-> n]]]
  BY DEF Init
<1>2. n \in 0..SeqLimit
  BY FormatAssumption
<1>3. [ih |-> NoHash, seq |-> n] \in Entry
  BY <1>2 DEF Entry
<1>4. row \in [Peers -> [Shares -> Entry]]
  BY <1>1, <1>3
<1>5. Recorded /\ AirGenuine
  BY DEF Init, Recorded, AirGenuine
<1>6. ReportsTrue
  BY DEF Init, ReportsTrue, NoReport
<1>7. active \in [Peers -> SUBSET Shares] /\ DOMAIN seen = Daemons
  BY DEF Init
<1> QED
  BY <1>4, <1>5, <1>6, <1>7 DEF LanInv, LanTypeOK

\* The invariant holds of every behaviour of the packet's senders, the network
\* and its receivers.
LEMMA LanAlways == Spec => []LanInv
<1>1. Init => LanInv
  BY LanStart
<1>2. LanInv /\ [Next]_vars => LanInv'
  BY LanStep
<1> QED
  BY <1>1, <1>2, PTL DEF Spec

\* What _on_datagram hands to the coordinator was true of the peer that signed
\* the packet: every share it lists was that peer's, with the hash the peer had
\* or none, and from a daemon of this release with the seq of that hash, for any
\* peers, shares, hashes, field widths and damage to datagrams.
THEOREM LanReportsTrue == Spec => []ReportsTrue
<1>1. LanInv => ReportsTrue
  BY DEF LanInv
<1> QED
  BY <1>1, LanAlways, PTL

\* unpack_packet undoes pack_packet: whenever a daemon can pack its shares, the
\* packet decodes to these shares with their hashes and seqs, and to its name cut
\* at NameMax bytes, or to no name when the cut splits a character.
THEOREM LanRoundTrip == Spec => []RoundTrip
<1>1. LanInv => RoundTrip
  BY RoundTripHolds DEF LanInv
<1> QED
  BY <1>1, LanAlways, PTL

-----------------------------------------------------------------------------
(* The token bucket *)

Clock == 0..MaxTime

\* A longer wait brings no fewer units back.
LEMMA MoreTime ==
    ASSUME NEW a \in Int, NEW b \in Int, a <= b
    PROVE  a * Rate \in Int /\ b * Rate \in Int /\ a * Rate <= b * Rate
  BY LimiterAssumption

\* A full bucket pays for a call.
LEMMA FullBucket == Burst * Unit \in Nat /\ Burst * Unit >= Unit
  BY LimiterAssumption

\* A refill is an integer and never more than a full bucket.
LEMMA RefilledType ==
    ASSUME TypeOK, NEW c \in Clock
    PROVE  Refilled(c) \in Int /\ Refilled(c) <= Burst * Unit
<1>1. CASE last = Idle
  BY <1>1, FullBucket DEF Refilled
<1>2. CASE last # Idle
  <2>1. last \in Int /\ c \in Int /\ c - last \in Int
    BY <1>2, LimiterAssumption DEF TypeOK, Clock
  <2>2. (c - last) * Rate \in Int
    BY <2>1, MoreTime
  <2> QED
    BY <1>2, <2>2, FullBucket DEF Refilled, Smaller, TypeOK
<1> QED
  BY <1>1, <1>2

\* The bucket never holds more than its burst, whatever the threads' clocks.
THEOREM TypeCorrect == LimiterSpec => []TypeOK
<1>1. LimiterInit => TypeOK
  BY LimiterAssumption, FullBucket DEF LimiterInit, TypeOK, NoPromise, Idle
<1>2. TypeOK /\ [LimiterNext]_limiterVars => TypeOK'
  <2> SUFFICES ASSUME TypeOK, [LimiterNext]_limiterVars PROVE TypeOK'
    OBVIOUS
  <2>1. CASE UNCHANGED limiterVars
    BY <2>1 DEF limiterVars, TypeOK
  <2>2. CASE Tick
    BY <2>2, LimiterAssumption DEF Tick, TypeOK
  <2>3. ASSUME NEW t \in Threads, ReadClock(t) PROVE TypeOK'
    BY <2>3 DEF ReadClock, TypeOK
  <2>4. ASSUME NEW t \in Threads, IsAllowed(t) PROVE TypeOK'
    <3> DEFINE full == Refilled(call[t])
    <3>1. call[t] \in Clock
      BY <2>4 DEF IsAllowed, TypeOK, Clock
    <3>2. full \in Int /\ full <= Burst * Unit
      BY <3>1, RefilledType
    <3>3. /\ last' \in {last, call[t]} /\ now' = now
          /\ call' = [call EXCEPT ![t] = Idle]
          /\ \/ /\ tokens' = full - Unit /\ granted' = granted + 1
                /\ promise' = NoPromise
             \/ /\ full < Unit /\ tokens' = full /\ granted' = granted
                /\ promise' = [at |-> call[t], owe |-> Unit - full]
      BY <2>4, <3>2, LimiterAssumption DEF IsAllowed
    <3> HIDE DEF full
    <3>4. tokens' \in Int /\ tokens' <= Burst * Unit /\ granted' \in Nat
      BY <3>2, <3>3, FullBucket, LimiterAssumption DEF TypeOK
    <3>5. promise' \in [at : 0..MaxTime \cup {Idle}, owe : Nat]
      <4>1. full < Unit => Unit - full \in Nat
        BY <3>2, LimiterAssumption
      <4> QED
        BY <3>1, <3>3, <4>1 DEF NoPromise, Clock
    <3> QED
      BY <3>1, <3>3, <3>4, <3>5 DEF TypeOK, Clock
  <2> QED
    BY <2>1, <2>2, <2>3, <2>4 DEF LimiterNext
<1> QED
  BY <1>1, <1>2, PTL DEF LimiterSpec

\* What a denial leaves behind when the calls of a key come one after the
\* other: the promise is the state of the bucket, and no clock is older than
\* the bucket's.
PromiseKept ==
    /\ last <= now
    /\ \A t \in Threads : call[t] # Idle => last <= call[t] /\ call[t] <= now
    /\ promise # NoPromise =>
          /\ last # Idle /\ last <= promise.at
          /\ promise.owe = Unit - tokens

\* The clock of a call in the past of which the bucket was last refilled, with
\* the time the promise asked for gone by, finds the units of a call.
LEMMA PromisePays ==
    ASSUME TypeOK, PromiseKept, promise # NoPromise, NEW c \in Clock,
           (c - promise.at) * Rate >= promise.owe
    PROVE  Refilled(c) >= Unit
<1>1. /\ last \in Int /\ promise.at \in Int /\ c \in Int /\ tokens \in Int
      /\ last <= promise.at /\ last # Idle /\ promise.owe = Unit - tokens
  BY LimiterAssumption DEF TypeOK, PromiseKept, Clock, Idle
<1>2. c - promise.at <= c - last /\ c - promise.at \in Int /\ c - last \in Int
  BY <1>1
<1>3. (c - last) * Rate \in Int /\ (c - last) * Rate >= Unit - tokens
  <2>1. /\ (c - promise.at) * Rate \in Int /\ (c - last) * Rate \in Int
        /\ (c - promise.at) * Rate <= (c - last) * Rate
    BY <1>2, MoreTime
  <2>2. Unit - tokens \in Int
    BY <1>1, LimiterAssumption
  <2> QED
    BY <1>1, <2>1, <2>2
<1> QED
  BY <1>1, <1>3, FullBucket, LimiterAssumption DEF Refilled, Smaller

\* One step of a single caller keeps the promise and honours it.
LEMMA PromiseStep ==
    ASSUME NEW only, Threads = {only}, TypeOK, PromiseKept, [LimiterNext]_limiterVars
    PROVE  /\ PromiseKept'
           /\ \A t \in Threads :
                 /\ promise # NoPromise /\ call[t] # Idle /\ call'[t] = Idle
                 /\ (call[t] - promise.at) * Rate >= promise.owe
                 => granted' > granted
<1>1. CASE UNCHANGED limiterVars
  BY <1>1 DEF limiterVars, PromiseKept
<1>2. CASE Tick
  BY <1>2 DEF Tick, PromiseKept, TypeOK, Idle
<1>3. CASE ReadClock(only)
  BY <1>3 DEF ReadClock, PromiseKept, TypeOK, Idle
<1>4. CASE IsAllowed(only)
  <2> DEFINE c == call[only]
             full == Refilled(c)
  <2>1. c \in Clock /\ c # Idle /\ last <= c /\ c <= now /\ now' = now
    BY <1>4 DEF IsAllowed, TypeOK, Clock, PromiseKept
  <2>2. full \in Int /\ (last = Idle => full >= Unit)
    BY <2>1, RefilledType, FullBucket DEF Refilled
  <2>3. CASE full >= Unit
    <3>1. /\ last' = c /\ granted' = granted + 1 /\ promise' = NoPromise
          /\ call' = [call EXCEPT ![only] = Idle]
      BY <1>4, <2>3 DEF IsAllowed
    <3>2. granted' > granted
      BY <3>1 DEF TypeOK
    <3> QED
      BY <2>1, <3>1, <3>2 DEF PromiseKept, TypeOK
  <2>4. CASE ~(full >= Unit)
    <3>1. /\ last # Idle /\ last' = last /\ tokens' = full
          /\ promise' = [at |-> c, owe |-> Unit - full]
          /\ call' = [call EXCEPT ![only] = Idle]
      BY <1>4, <2>2, <2>4 DEF IsAllowed
    <3>2. ~(promise # NoPromise /\ (c - promise.at) * Rate >= promise.owe)
      BY <2>1, <2>4, PromisePays
    <3>3. PromiseKept'
      BY <2>1, <3>1 DEF PromiseKept, TypeOK
    <3> QED
      BY <3>2, <3>3
  <2> QED
    BY <2>3, <2>4
<1> QED
  BY <1>1, <1>2, <1>3, <1>4 DEF LimiterNext

\* A retry after the time the denial named succeeds, when the calls of a key
\* come one after the other.
THEOREM RetryAfterHonest ==
    ASSUME NEW CONSTANT only, Threads = {only}
    PROVE  LimiterSpec => RetryHonest
<1>1. LimiterInit => PromiseKept
  BY LimiterAssumption DEF LimiterInit, PromiseKept, Idle
<1>2. TypeOK /\ PromiseKept /\ [LimiterNext]_limiterVars => PromiseKept'
  BY PromiseStep
<1>3. TypeOK /\ PromiseKept /\ [LimiterNext]_limiterVars
      => [\A t \in Threads :
            /\ promise # NoPromise /\ call[t] # Idle /\ call'[t] = Idle
            /\ (call[t] - promise.at) * Rate >= promise.owe
            => granted' > granted]_limiterVars
  BY PromiseStep
<1> QED
  BY <1>1, <1>2, <1>3, TypeCorrect, PTL DEF LimiterSpec, RetryHonest

====
