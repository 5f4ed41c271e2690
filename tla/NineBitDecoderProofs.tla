------------------------ MODULE NineBitDecoderProofs ------------------------
(***************************************************************************)
(* Theorems about NineBitDecoder for every number of byte values, every    *)
(* length of buffers and ring, and any number of bytes sent and lost: its  *)
(* types, that the cuts of the stream are invisible in what comes out, and *)
(* that the decoder finds its step again.                                  *)
(***************************************************************************)
EXTENDS NineBitDecoder, SequenceTheorems, WellFoundedInduction, TLAPS

-----------------------------------------------------------------------------
(* Lemmas on constants, numbers, recursion and sequences. *)

(* What DecoderAssumption says of single constants. *)
LEMMA Params ==
  /\ ByteBase \in Nat /\ ByteBase >= 2
  /\ InBytes \in Nat /\ OutWords \in Nat /\ OutWords >= 1 /\ InBytes <= 2 * OutWords
  /\ RingBytes \in Nat /\ HostBytes \in Nat /\ LossCap \in Nat
  BY DecoderAssumption

(* A set of numbers that holds 0 and every successor of its elements holds *)
(* every number: induction, over a set instead of a predicate.             *)
LEMMA NatSet ==
  ASSUME NEW T, 0 \in T, \A n \in Nat : n \in T => n + 1 \in T
  PROVE  Nat \subseteq T
<1> DEFINE U == Nat \ T
<1> SUFFICES ASSUME U # {} PROVE FALSE
  OBVIOUS
<1>1. PICK m \in U : \A k \in U : <<k, m>> \notin OpToRel(<, Nat)
  BY WFMin, NatLessThanWellFounded, Zenon
<1>2. m \in Nat /\ m \notin T
  OBVIOUS
<1>3. m # 0
  BY <1>2
<1>4. m - 1 \in Nat /\ m - 1 < m /\ (m - 1) + 1 = m
  BY <1>2, <1>3
<1>5. m - 1 \notin T
  <2> SUFFICES ASSUME m - 1 \in T PROVE FALSE
    OBVIOUS
  <2>1. (m - 1) + 1 \in T
    BY <1>4
  <2> QED
    BY <2>1, <1>2, <1>4
<1>6. m - 1 \in U
  BY <1>4, <1>5
<1>7. <<m - 1, m>> \in OpToRel(<, Nat)
  BY <1>2, <1>4, Zenon DEF OpToRel
<1> QED
  BY <1>1, <1>6, <1>7

(* A function that is defined by its value at 0 and by steps exists.       *)
LEMMA Recursion ==
  ASSUME NEW S, NEW e \in S, NEW L \in Nat, NEW step \in [1 .. L -> [S -> S]]
  PROVE  \E g \in [0 .. L -> S] :
           g[0] = e /\ \A n \in 1 .. L : g[n] = step[n][g[n - 1]]
<1> DEFINE Up(g, m) == /\ g \in [0 .. m -> S] /\ g[0] = e
                       /\ \A n \in 1 .. m : g[n] = step[n][g[n - 1]]
           Some(m) == \E g : Up(g, m)
           T == {m \in Nat : m <= L => Some(m)}
<1>1. Some(0)
  <2>1. Up([n \in 0 .. 0 |-> e], 0)
    OBVIOUS
  <2> HIDE DEF Up
  <2> QED
    BY <2>1
<1>2. ASSUME NEW m \in Nat, m + 1 <= L, Some(m) PROVE Some(m + 1)
  <2>1. PICK f : Up(f, m)
    BY <1>2
  <2> DEFINE v == step[m + 1][f[m]]
             g == [n \in 0 .. m + 1 |-> IF n = m + 1 THEN v ELSE f[n]]
  <2>2. v \in S
    <3>1. m + 1 \in 1 .. L /\ f[m] \in S
      BY <1>2, <2>1
    <3> QED
      BY <3>1
  <2>3. g \in [0 .. m + 1 -> S] /\ g[0] = e
    <3> HIDE DEF v
    <3> QED
      BY <2>1, <2>2
  <2>4. ASSUME NEW n \in 1 .. m + 1 PROVE g[n] = step[n][g[n - 1]]
    <3>1. n - 1 \in 0 .. m /\ (\A i \in 0 .. m : g[i] = f[i]) /\ g[m + 1] = v
      <4> HIDE DEF v
      <4> QED
        OBVIOUS
    <3> HIDE DEF g
    <3>2. CASE n = m + 1
      <4>1. n - 1 = m
        BY <3>2
      <4> QED
        BY <3>1, <3>2, <4>1
    <3>3. CASE n \in 1 .. m
      <4>1. f[n] = step[n][f[n - 1]]
        BY <2>1, <3>3, Zenon
      <4>2. n \in 0 .. m
        BY <3>3
      <4> QED
        BY <3>1, <4>1, <4>2
    <3>4. n = m + 1 \/ n \in 1 .. m
      OBVIOUS
    <3> QED
      BY <3>2, <3>3, <3>4
  <2>5. Up(g, m + 1)
    <3> HIDE DEF g, v
    <3> QED
      BY <2>3, <2>4
  <2> HIDE DEF Up
  <2> QED
    BY <2>5
<1>3. Nat \subseteq T
  <2>1. ASSUME NEW m \in Nat, m \in T PROVE m + 1 \in T
    <3> HIDE DEF Some
    <3> QED
      BY <1>2, <2>1
  <2>2. 0 \in T
    <3> HIDE DEF Some
    <3> QED
      BY <1>1
  <2> HIDE DEF T
  <2> QED
    BY <2>1, <2>2, NatSet
<1>4. Some(L)
  <2> HIDE DEF Some
  <2> QED
    BY <1>3
<1> QED
  BY <1>4

(* The part of a sequence behind a place. *)
LEMMA Drop ==
  ASSUME NEW S, NEW s \in Seq(S), NEW k \in 0 .. Len(s)
  PROVE  LET t == SubSeq(s, k + 1, Len(s))
         IN  /\ t \in Seq(S) /\ Len(t) = Len(s) - k
             /\ \A i \in 1 .. Len(s) - k : t[i] = s[k + i] /\ t[i] \in S
<1> DEFINE t == SubSeq(s, k + 1, Len(s))
<1>0. Len(s) \in Nat /\ k \in Nat
  OBVIOUS
<1>1. \A i \in k + 1 .. Len(s) : s[i] \in S
  BY <1>0, ElementOfSeq
<1>2. /\ t \in Seq(S) /\ Len(t) = (IF k + 1 <= Len(s) THEN Len(s) - (k + 1) + 1 ELSE 0)
      /\ \A i \in 1 .. Len(s) - (k + 1) + 1 : t[i] = s[(k + 1) + i - 1]
  BY <1>0, <1>1, SubSeqProperties
<1> HIDE DEF t
<1>3. Len(t) = Len(s) - k
  BY <1>0, <1>2
<1>4. ASSUME NEW i \in 1 .. Len(s) - k PROVE t[i] = s[k + i] /\ t[i] \in S
  <2>1. i \in 1 .. Len(s) - (k + 1) + 1 /\ (k + 1) + i - 1 = k + i /\ k + i \in k + 1 .. Len(s)
    BY <1>0
  <2> QED
    BY <1>1, <1>2, <2>1
<1> QED
  BY <1>2, <1>3, <1>4 DEF t

(* Elements taken away from what is behind a place. *)
LEMMA DropMore ==
  ASSUME NEW S, NEW s \in Seq(S), NEW k \in Nat, NEW j \in Nat, k + j <= Len(s)
  PROVE  LET t == SubSeq(s, k + 1, Len(s))
         IN  SubSeq(t, j + 1, Len(t)) = SubSeq(s, (k + j) + 1, Len(s))
<1> DEFINE t == SubSeq(s, k + 1, Len(s))
           u == SubSeq(t, j + 1, Len(t))
           w == SubSeq(s, (k + j) + 1, Len(s))
<1>0. Len(s) \in Nat /\ k \in 0 .. Len(s) /\ k + j \in 0 .. Len(s)
  OBVIOUS
<1>1. /\ t \in Seq(S) /\ Len(t) = Len(s) - k
      /\ \A i \in 1 .. Len(s) - k : t[i] = s[k + i]
  BY <1>0, Drop
<1>2. /\ w \in Seq(S) /\ Len(w) = Len(s) - (k + j)
      /\ \A i \in 1 .. Len(s) - (k + j) : w[i] = s[(k + j) + i]
  BY <1>0, Drop
<1> HIDE DEF t, w
<1>3. /\ u \in Seq(S) /\ Len(u) = Len(t) - j
      /\ \A i \in 1 .. Len(t) - j : u[i] = t[j + i]
  <2>1. j \in 0 .. Len(t)
    BY <1>0, <1>1
  <2> QED
    BY <1>1, <2>1, Drop
<1> HIDE DEF u
<1>4. Len(u) = Len(w)
  BY <1>0, <1>1, <1>2, <1>3
<1>5. ASSUME NEW i \in 1 .. Len(u) PROVE u[i] = w[i]
  <2>1. /\ i \in 1 .. Len(t) - j /\ i \in 1 .. Len(s) - (k + j)
        /\ j + i \in 1 .. Len(s) - k /\ k + (j + i) = (k + j) + i
    BY <1>0, <1>1, <1>2, <1>3
  <2>2. u[i] = t[j + i] /\ w[i] = s[(k + j) + i] /\ t[j + i] = s[k + (j + i)]
    BY <1>1, <1>2, <1>3, <2>1
  <2> QED
    BY <2>1, <2>2
<1>6. u = w
  BY <1>2, <1>3, <1>4, <1>5, SeqEqual
<1> QED
  BY <1>6 DEF t, u, w

-----------------------------------------------------------------------------
(* The decoder and its reference. *)

(* A pending byte, or none. *)
Pendings == {p \in Seq(Values) : Len(p) <= 1}

(* What the reference keeps, and what the loop does. *)
Pairs == [pending : Pendings, output : Seq(Word)]
Decodings == [input : Seq(Values), pending : Pendings, output : Seq(Word)]

(* No byte or one byte. *)
LEMMA PendingIs ==
  /\ <<>> \in Pendings
  /\ \A v \in Values : <<v>> \in Pendings /\ Len(<<v>>) = 1 /\ <<v>> # <<>> /\ <<v>>[1] = v
  /\ \A p \in Pendings : p # <<>> => Len(p) = 1 /\ p[1] \in Values /\ p = <<p[1]>>
<1>1. ASSUME NEW p \in Pendings, p # <<>> PROVE Len(p) = 1 /\ p[1] \in Values /\ p = <<p[1]>>
  <2>1. p \in Seq(Values) /\ Len(p) \in Nat /\ Len(p) # 0 /\ Len(p) <= 1
    BY <1>1, EmptySeq DEF Pendings
  <2>2. Len(p) = 1
    <3> DEFINE n == Len(p)
    <3> HIDE DEF n
    <3>1. n \in Nat /\ n # 0 /\ n <= 1
      BY <2>1 DEF n
    <3>2. n = 1
      BY <3>1
    <3> QED
      BY <3>2 DEF n
  <2> QED
    BY <2>1, <2>2
<1>2. \A v \in Values : <<v>> \in Pendings
  BY DEF Pendings
<1>3. <<>> \in Pendings
  BY DEF Pendings
<1> QED
  BY <1>1, <1>2, <1>3

(* A word has nine bits. *)
LEMMA NineBitType ==
  ASSUME NEW low \in Values, NEW bit8 \in Values, bit8 <= 1
  PROVE  NineBit(low, bit8) \in Word
<1>1. bit8 = 0 \/ bit8 = 1
  BY Params DEF Values
<1>2. CASE bit8 = 0
  BY <1>2, Params DEF NineBit, Word, Values
<1>3. CASE bit8 = 1
  BY <1>3, Params DEF NineBit, Word, Values
<1> QED
  BY <1>1, <1>2, <1>3

(* One byte more. *)
LEMMA AddType ==
  ASSUME NEW d \in Pairs, NEW v \in Values
  PROVE  Add(d, v) \in Pairs
<1>0. d.pending \in Pendings /\ d.output \in Seq(Word)
  BY DEF Pairs
<1>1. CASE d.pending = <<>> \/ v > 1
  <2>1. Add(d, v) = [pending |-> <<v>>, output |-> d.output]
    BY <1>1 DEF Add
  <2> QED
    BY <1>0, <2>1, PendingIs DEF Pairs
<1>2. CASE ~(d.pending = <<>> \/ v > 1)
  <2> DEFINE x == NineBit(d.pending[1], v)
  <2>1. Add(d, v) = [pending |-> <<>>, output |-> Append(d.output, x)]
    BY <1>2 DEF Add
  <2>2. x \in Word
    <3>1. v <= 1 /\ d.pending[1] \in Values
      BY <1>0, <1>2, PendingIs, Params DEF Values
    <3> QED
      BY <3>1, NineBitType
  <2> HIDE DEF x
  <2>3. Append(d.output, x) \in Seq(Word)
    BY <1>0, <2>2, AppendProperties
  <2> QED
    BY <2>1, <2>3, PendingIs DEF Pairs
<1> QED
  BY <1>1, <1>2

(* What the reference has made of the bytes up to each of them. *)
Runs(f, s) ==
  /\ f \in [0 .. Len(s) -> Pairs]
  /\ f[0] = [pending |-> <<>>, output |-> <<>>]
  /\ \A n \in 1 .. Len(s) : f[n] = Add(f[n - 1], s[n])

(* Paired computes it. *)
LEMMA PairedRuns ==
  ASSUME NEW s \in Seq(Values)
  PROVE  \E f : Runs(f, s) /\ Paired(s) = f[Len(s)]
<1> DEFINE L == Len(s)
           e == [pending |-> <<>>, output |-> <<>>]
           Is(g) == g = [n \in 0 .. L |-> IF n = 0 THEN e ELSE Add(g[n - 1], s[n])]
           c == CHOOSE g : Is(g)
           step == [n \in 1 .. L |-> [d \in Pairs |-> Add(d, s[n])]]
<1>0. L \in Nat /\ \A n \in 1 .. L : s[n] \in Values
  BY ElementOfSeq
<1>1. e \in Pairs
  BY PendingIs DEF Pairs
<1>2. step \in [1 .. L -> [Pairs -> Pairs]]
  BY <1>0, AddType
<1>3. Paired(s) = c[L]
  BY DEF Paired
<1> HIDE DEF e
<1>4. PICK g \in [0 .. L -> Pairs] : g[0] = e /\ \A n \in 1 .. L : g[n] = step[n][g[n - 1]]
  <2>1. L \in Nat
    BY <1>0
  <2> HIDE DEF step, L
  <2> QED
    BY <1>1, <1>2, <2>1, Recursion
<1>5. ASSUME NEW n \in 1 .. L PROVE g[n] = Add(g[n - 1], s[n])
  <2>1. g[n] = step[n][g[n - 1]]
    BY <1>4
  <2>2. g[n - 1] \in Pairs
    BY <1>0, <1>4
  <2> QED
    BY <2>1, <2>2
<1> HIDE DEF step
<1>6. Is(g)
  <2>1. g = [n \in 0 .. L |-> g[n]]
    BY <1>4
  <2>2. ASSUME NEW n \in 0 .. L PROVE g[n] = IF n = 0 THEN e ELSE Add(g[n - 1], s[n])
    <3>1. n = 0 \/ n \in 1 .. L
      BY <1>0
    <3> QED
      BY <1>4, <1>5, <3>1
  <2> QED
    BY <2>1, <2>2
<1>7. Is(c)
  <2> HIDE DEF Is
  <2> QED
    BY <1>6
<1> HIDE DEF c
<1>8. \A n \in 0 .. L : c[n] = g[n]
  <2> DEFINE T == {n \in Nat : n <= L => c[n] = g[n]}
  <2>1. 0 \in T
    BY <1>0, <1>4, <1>7
  <2>2. ASSUME NEW n \in Nat, n \in T PROVE n + 1 \in T
    <3> SUFFICES ASSUME n + 1 <= L PROVE c[n + 1] = g[n + 1]
      OBVIOUS
    <3>1. n + 1 \in 1 .. L /\ n + 1 # 0 /\ (n + 1) - 1 = n /\ n + 1 \in 0 .. L
      BY <1>0
    <3>2. c[n] = g[n]
      BY <1>0, <2>2
    <3>3. g[n + 1] = Add(g[n], s[n + 1])
      BY <1>5, <3>1
    <3>4. c[n + 1] = Add(c[n], s[n + 1])
      BY <1>7, <3>1
    <3> QED
      BY <3>2, <3>3, <3>4
  <2>3. Nat \subseteq T
    <3> HIDE DEF T
    <3> QED
      BY <2>1, <2>2, NatSet
  <2> QED
    BY <1>0, <2>3
<1>9. Runs(g, s)
  BY <1>4, <1>5 DEF Runs, e
<1> QED
  BY <1>0, <1>3, <1>8, <1>9

(* The reference goes the same way on a sequence and on one that goes on.  *)
LEMMA RunsAgree ==
  ASSUME NEW s \in Seq(Values), NEW t \in Seq(Values), NEW f, NEW g, Runs(f, s), Runs(g, t),
         Len(s) <= Len(t), \A i \in 1 .. Len(s) : s[i] = t[i]
  PROVE  \A n \in 0 .. Len(s) : f[n] = g[n]
<1> DEFINE L == Len(s)
           T == {n \in Nat : n <= L => f[n] = g[n]}
<1>0. L \in Nat /\ Len(t) \in Nat
  OBVIOUS
<1>1. 0 \in T
  BY DEF Runs
<1>2. ASSUME NEW n \in Nat, n \in T PROVE n + 1 \in T
  <2> SUFFICES ASSUME n + 1 <= L PROVE f[n + 1] = g[n + 1]
    OBVIOUS
  <2>1. f[n] = g[n]
    BY <1>0, <1>2
  <2>2. n + 1 \in 1 .. L /\ n + 1 \in 1 .. Len(t) /\ (n + 1) - 1 = n
    BY <1>0
  <2>3. f[n + 1] = Add(f[n], s[n + 1]) /\ g[n + 1] = Add(g[n], t[n + 1])
    BY <2>2 DEF Runs
  <2>4. s[n + 1] = t[n + 1]
    BY <2>2
  <2> QED
    BY <2>1, <2>3, <2>4
<1>3. Nat \subseteq T
  <2> HIDE DEF T
  <2> QED
    BY <1>1, <1>2, NatSet
<1> QED
  BY <1>0, <1>3

(* Concatenation of words is associative. *)
LEMMA Regroup == \A a, b, c \in Seq(Word) : (a \o b) \o c = a \o (b \o c)
  BY ConcatAssociative

(* The decoder has gone from e to r, and the reference to q: the same byte *)
(* is pending, and one's words are behind the other's.                     *)
Adds(r, q, e, base, rest) ==
  /\ r \in Decodings /\ r.input = rest /\ r.pending = q.pending
  /\ q.output = base \o r.output
  /\ Len(r.output) <= OutWords
  /\ 2 * Len(r.output) + Len(r.pending) <= 2 * Len(e.output) + 2

(* A low byte and its bit 8: the decoder and the reference do the same.    *)
LEMMA PairAdds ==
  ASSUME NEW e \in Decodings, ~Full(e), NEW p \in Pairs, NEW base \in Seq(Word),
         p.output = base \o e.output,
         NEW a \in Values, p.pending = <<a>>, NEW v \in Values, NEW rest \in Seq(Values)
  PROVE  Adds(Pair(e, a, v, rest), Add(p, v), e, base, rest)
<1> DEFINE r == Pair(e, a, v, rest)
           q == Add(p, v)
           x == NineBit(a, v)
<1>0. /\ e.output \in Seq(Word) /\ Len(e.output) \in Nat /\ Len(e.output) < OutWords
      /\ p.pending # <<>> /\ p.pending[1] = a /\ OutWords \in Nat
  <2>1. e.output \in Seq(Word)
    BY DEF Decodings
  <2>2. Len(e.output) \in Nat /\ ~(Len(e.output) >= OutWords)
    BY <2>1 DEF Full
  <2> QED
    BY <2>1, <2>2, Params, PendingIs
<1>1. CASE v <= 1
  <2>1. r = [input |-> rest, pending |-> <<>>, output |-> Append(e.output, x)]
    BY <1>1 DEF Pair
  <2>2. q = [pending |-> <<>>, output |-> Append(p.output, x)]
    <3>1. ~(p.pending = <<>> \/ v > 1)
      BY <1>0, <1>1, Params DEF Values
    <3> QED
      BY <1>0, <3>1 DEF Add
  <2>3. x \in Word
    BY <1>1, NineBitType
  <2> HIDE DEF r, q, x
  <2> DEFINE o == Append(e.output, x)
  <2>4. o \in Seq(Word) /\ Len(o) = Len(e.output) + 1
    BY <1>0, <2>3, AppendProperties
  <2>5. Append(p.output, x) = base \o o
    <3>1. o = e.output \o <<x>> /\ <<x>> \in Seq(Word)
      BY <1>0, <2>3, AppendIsConcat
    <3>2. base \o e.output \in Seq(Word)
      BY <1>0, ConcatProperties
    <3>3. Append(base \o e.output, x) = (base \o e.output) \o <<x>>
      BY <2>3, <3>2, AppendIsConcat
    <3>4. (base \o e.output) \o <<x>> = base \o (e.output \o <<x>>)
      BY <1>0, <3>1, Regroup, Zenon
    <3> QED
      BY <3>1, <3>3, <3>4
  <2> HIDE DEF o
  <2>6. r.output = o /\ r.pending = <<>> /\ r.input = rest /\ r \in Decodings
    BY <2>1, <2>4, PendingIs DEF o, Decodings
  <2>7. q.output = base \o o /\ q.pending = <<>>
    BY <2>2, <2>5
  <2>8. Len(r.output) = Len(e.output) + 1 /\ Len(r.pending) = 0
    BY <2>4, <2>6
  <2>9. Len(r.output) <= OutWords /\ 2 * Len(r.output) + Len(r.pending) <= 2 * Len(e.output) + 2
    BY <1>0, <2>8
  <2> QED
    BY <2>6, <2>7, <2>9 DEF r, q, Adds
<1>2. CASE ~(v <= 1)
  <2>1. r = [input |-> rest, pending |-> <<v>>, output |-> e.output]
    BY <1>2 DEF Pair
  <2>2. q = [pending |-> <<v>>, output |-> p.output]
    <3>1. v > 1
      BY <1>2, Params DEF Values
    <3> QED
      BY <3>1 DEF Add
  <2> HIDE DEF r, q
  <2>3. r.output = e.output /\ r.pending = <<v>> /\ r.input = rest /\ r \in Decodings
    BY <1>0, <2>1, PendingIs DEF Decodings
  <2>4. q.output = base \o e.output /\ q.pending = <<v>>
    BY <2>2
  <2>5. Len(r.output) = Len(e.output) /\ Len(r.pending) = 1
    BY <2>3, PendingIs
  <2>6. Len(r.output) <= OutWords /\ 2 * Len(r.output) + Len(r.pending) <= 2 * Len(e.output) + 2
    BY <1>0, <2>5
  <2> QED
    BY <2>3, <2>4, <2>6 DEF r, q, Adds
<1> QED
  BY <1>1, <1>2

(* The loop has come as far as place k of a stream w whose first m bytes   *)
(* were read before; f is what the reference makes of the stream.          *)
Reached(e, k, w, f, m) ==
  /\ e \in Decodings
  /\ e.input = SubSeq(w, k + 1, Len(w))
  /\ e.pending = f[k].pending
  /\ f[k].output = f[m].output \o e.output
  /\ Len(e.output) <= OutWords
  /\ 2 * Len(e.output) + Len(e.pending) <= (k - m) + 1

(* A turn takes a byte or two, and does with them what the reference does. *)
LEMMA TurnReaches ==
  ASSUME NEW w \in Seq(Values), NEW f, Runs(f, w), NEW m \in 0 .. Len(w), NEW k \in m .. Len(w),
         NEW e, Reached(e, k, w, f, m), k < Len(w), ~Full(e)
  PROVE  \E j \in k + 1 .. Len(w) : Reached(Turn(e), j, w, f, m)
<1> DEFINE L == Len(w)
           in == e.input
<1>0. /\ L \in Nat /\ m \in Nat /\ k \in Nat /\ k \in 0 .. L
      /\ e \in Decodings /\ in = SubSeq(w, k + 1, L)
      /\ e.pending \in Pendings /\ e.output \in Seq(Word)
      /\ 2 * Len(e.output) + Len(e.pending) <= (k - m) + 1
      /\ e.pending = f[k].pending /\ f[k].output = f[m].output \o e.output
  <2>1. e \in Decodings
    BY DEF Reached
  <2>2. e.pending \in Pendings /\ e.output \in Seq(Word)
    BY <2>1 DEF Decodings
  <2>3. /\ in = SubSeq(w, k + 1, L)
        /\ 2 * Len(e.output) + Len(e.pending) <= (k - m) + 1
        /\ e.pending = f[k].pending /\ f[k].output = f[m].output \o e.output
    BY DEF Reached
  <2>4. L \in Nat /\ m \in Nat /\ k \in Nat /\ k \in 0 .. L
    OBVIOUS
  <2> HIDE DEF L, in
  <2> QED
    BY <2>1, <2>2, <2>3, <2>4
<1>1. /\ in \in Seq(Values) /\ Len(in) = L - k
      /\ \A i \in 1 .. L - k : in[i] = w[k + i] /\ in[i] \in Values
  BY <1>0, Drop
<1> HIDE DEF in, L
<1>2. in # <<>> /\ in[1] = w[k + 1] /\ in[1] \in Values
  <2>1. 1 \in 1 .. L - k
    BY <1>0 DEF L
  <2>2. Len(in) # 0
    BY <1>0, <1>1 DEF L
  <2> QED
    BY <1>1, <2>1, <2>2
<1>3. /\ f[k] \in Pairs /\ f[m] \in Pairs /\ f[m].output \in Seq(Word)
      /\ k + 1 \in k + 1 .. L
      /\ f[k + 1] = Add(f[k], in[1]) /\ f[k + 1] \in Pairs
  <2>1. k \in 0 .. L /\ m \in 0 .. L /\ k + 1 \in 1 .. L /\ (k + 1) - 1 = k /\ k + 1 \in 0 .. L
        /\ k + 1 \in k + 1 .. L
    BY <1>0 DEF L
  <2>2. f[k] \in Pairs /\ f[m] \in Pairs /\ f[k + 1] \in Pairs
    BY <2>1 DEF Runs, L
  <2>3. f[k + 1] = Add(f[k], w[k + 1])
    BY <2>1 DEF Runs, L
  <2> QED
    BY <1>2, <2>1, <2>2, <2>3 DEF Pairs
<1>4. CASE e.pending # <<>>
  <2> DEFINE a == e.pending[1]
             r == Pair(e, a, in[1], Tail(in))
  <2>1. Turn(e) = r
    BY <1>2, <1>4 DEF Turn, in
  <2>2. a \in Values /\ e.pending = <<a>> /\ Len(e.pending) = 1
    BY <1>0, <1>4, PendingIs
  <2>3. Tail(in) = SubSeq(w, (k + 1) + 1, L) /\ Tail(in) \in Seq(Values)
    <3>1. SubSeq(in, 1 + 1, Len(in)) = SubSeq(w, (k + 1) + 1, L)
      <4>1. k + 1 <= Len(w) /\ 1 \in Nat /\ k \in Nat
        BY <1>0, <1>3 DEF L
      <4>2. SubSeq(SubSeq(w, k + 1, Len(w)), 1 + 1, Len(SubSeq(w, k + 1, Len(w))))
              = SubSeq(w, (k + 1) + 1, Len(w))
        BY <4>1, DropMore
      <4> QED
        BY <1>0, <4>2 DEF L
    <3>2. Tail(in) = SubSeq(in, 2, Len(in)) /\ Tail(in) \in Seq(Values)
      BY <1>1, <1>2, TailIsSubSeq, HeadTailProperties
    <3>3. 1 + 1 = 2
      OBVIOUS
    <3> QED
      BY <3>1, <3>2, <3>3
  <2> HIDE DEF a, r
  <2>4. /\ r \in Decodings /\ r.input = Tail(in) /\ r.pending = f[k + 1].pending
        /\ f[k + 1].output = f[m].output \o r.output
        /\ Len(r.output) <= OutWords
        /\ 2 * Len(r.output) + Len(r.pending) <= 2 * Len(e.output) + 2
    <3> DEFINE p == f[k]
               base == f[m].output
               v == in[1]
               rest == Tail(in)
    <3>1. /\ e \in Decodings /\ p \in Pairs /\ base \in Seq(Word) /\ p.output = base \o e.output
          /\ a \in Values /\ p.pending = <<a>> /\ v \in Values /\ rest \in Seq(Values)
          /\ f[k + 1] = Add(p, v)
      BY <1>0, <1>2, <1>3, <2>2, <2>3
    <3>2. r = Pair(e, a, v, rest)
      BY DEF r
    <3> HIDE DEF p, base, v, rest
    <3>3. Adds(r, f[k + 1], e, base, rest)
      <4>1. Adds(Pair(e, a, v, rest), Add(p, v), e, base, rest)
        BY <3>1, PairAdds, Zenon
      <4> QED
        BY <3>1, <3>2, <4>1
    <3> QED
      BY <3>3 DEF Adds, base, rest
  <2>5. 2 * Len(r.output) + Len(r.pending) <= ((k + 1) - m) + 1
    <3>1. /\ Len(e.output) \in Nat /\ Len(r.output) \in Nat /\ Len(r.pending) \in Nat
      <4>1. r.output \in Seq(Word) /\ r.pending \in Seq(Values)
        BY <2>4 DEF Decodings, Pendings
      <4> QED
        BY <1>0, <4>1
    <3> DEFINE x == Len(e.output)
               y == Len(r.output)
               z == Len(r.pending)
    <3>2. x \in Nat /\ y \in Nat /\ z \in Nat /\ 2 * x + 1 <= (k - m) + 1
          /\ 2 * y + z <= 2 * x + 2
      BY <1>0, <2>2, <2>4, <3>1
    <3> HIDE DEF x, y, z
    <3>3. 2 * y + z <= ((k + 1) - m) + 1
      BY <1>0, <3>2
    <3> QED
      BY <3>3 DEF y, z
  <2>6. Reached(r, k + 1, w, f, m)
    BY <2>3, <2>4, <2>5 DEF Reached, L
  <2> QED
    BY <1>3, <2>1, <2>6 DEF L
<1>5. CASE e.pending = <<>>
  <2>0. /\ f[k + 1].pending = <<in[1]>> /\ f[k + 1].output = f[k].output
    <3>1. Add(f[k], in[1]) = [pending |-> <<in[1]>>, output |-> f[k].output]
      BY <1>0, <1>5 DEF Add
    <3> QED
      BY <1>3, <3>1
  <2>1. CASE Len(in) = 1
    <3> DEFINE r == [input |-> <<>>, pending |-> in, output |-> e.output]
    <3>1. Turn(e) = r
      BY <1>2, <1>5, <2>1 DEF Turn, in
    <3>2. in = <<in[1]>>
      <4>1. in \in Seq(Values)
        BY <1>1
      <4> QED
        BY <2>1, <4>1
    <3>3. r \in Decodings
      <4>1. in \in Pendings
        BY <1>2, <3>2, PendingIs
      <4>2. <<>> \in Seq(Values)
        OBVIOUS
      <4> QED
        BY <1>0, <4>1, <4>2 DEF Decodings
    <3>4. k + 1 = L /\ SubSeq(w, (k + 1) + 1, L) = <<>>
      <4>1. k + 1 = L
        BY <1>0, <1>1, <2>1
      <4> QED
        BY <1>0, <4>1, SubSeqEmpty
    <3>5. /\ r.input = <<>> /\ r.pending = f[k + 1].pending
          /\ f[k + 1].output = f[m].output \o r.output /\ r.output = e.output
          /\ Len(r.pending) = 1
      BY <1>0, <2>0, <2>1, <3>2
    <3> HIDE DEF r
    <3>6. Len(r.output) <= OutWords
      BY <3>5 DEF Reached
    <3>7. 2 * Len(r.output) + Len(r.pending) <= ((k + 1) - m) + 1
      <4> DEFINE x == Len(e.output)
      <4>1. x \in Nat /\ 2 * x + 0 <= (k - m) + 1
        BY <1>0, <1>5
      <4>2. Len(r.output) = x /\ Len(r.pending) = 1
        BY <3>5
      <4> HIDE DEF x
      <4>3. 2 * x + 1 <= ((k + 1) - m) + 1
        BY <1>0, <4>1
      <4> QED
        BY <4>2, <4>3
    <3>8. Reached(r, k + 1, w, f, m)
      BY <3>3, <3>4, <3>5, <3>6, <3>7 DEF Reached, L
    <3> QED
      BY <1>3, <3>1, <3>8 DEF L
  <2>2. CASE Len(in) # 1
    <3> DEFINE a == in[1]
               v == in[2]
               rest == SubSeq(in, 3, Len(in))
               r == Pair(e, a, v, rest)
    <3>1. Turn(e) = r
      BY <1>2, <1>5, <2>2 DEF Turn, in
    <3>2. 2 \in 1 .. L - k /\ k + 2 <= L /\ k + 2 \in k + 1 .. L
      <4>1. L - k # 1 /\ L - k # 0 /\ L - k \in Nat
        BY <1>0, <1>1, <2>2 DEF L
      <4> QED
        BY <1>0, <4>1
    <3>3. v = w[k + 2] /\ v \in Values /\ a \in Values
      BY <1>1, <1>2, <3>2
    <3>4. rest = SubSeq(w, (k + 2) + 1, L) /\ rest \in Seq(Values)
      <4>1. SubSeq(in, 2 + 1, Len(in)) = SubSeq(w, (k + 2) + 1, L)
        <5>1. k + 2 <= Len(w) /\ 2 \in Nat /\ k \in Nat
          BY <1>0, <3>2 DEF L
        <5>2. SubSeq(SubSeq(w, k + 1, Len(w)), 2 + 1, Len(SubSeq(w, k + 1, Len(w))))
                = SubSeq(w, (k + 2) + 1, Len(w))
          BY <5>1, DropMore
        <5> QED
          BY <1>0, <5>2 DEF L
      <4>2. k + 2 \in 0 .. Len(w)
        BY <1>0, <3>2 DEF L
      <4>3. SubSeq(w, (k + 2) + 1, Len(w)) \in Seq(Values)
        BY <4>2, Drop
      <4>4. 2 + 1 = 3
        OBVIOUS
      <4> QED
        BY <4>1, <4>3, <4>4 DEF L
    <3>5. f[k + 2] = Add(f[k + 1], v)
      <4>1. k + 2 \in 1 .. L /\ (k + 2) - 1 = k + 1
        BY <1>0, <3>2
      <4> QED
        BY <3>3, <4>1 DEF Runs, L
    <3> HIDE DEF a, v, rest, r
    <3>6. /\ r \in Decodings /\ r.input = rest /\ r.pending = f[k + 2].pending
          /\ f[k + 2].output = f[m].output \o r.output
          /\ Len(r.output) <= OutWords
          /\ 2 * Len(r.output) + Len(r.pending) <= 2 * Len(e.output) + 2
      <4> DEFINE p == f[k + 1]
                 base == f[m].output
      <4>1. /\ e \in Decodings /\ p \in Pairs /\ base \in Seq(Word) /\ p.output = base \o e.output
            /\ a \in Values /\ p.pending = <<a>> /\ v \in Values /\ rest \in Seq(Values)
            /\ f[k + 2] = Add(p, v)
        BY <1>0, <1>3, <2>0, <3>3, <3>4, <3>5 DEF a
      <4>2. r = Pair(e, a, v, rest)
        BY DEF r
      <4> HIDE DEF p, base
      <4>3. Adds(r, f[k + 2], e, base, rest)
        <5>1. Adds(Pair(e, a, v, rest), Add(p, v), e, base, rest)
          BY <4>1, PairAdds, Zenon
        <5> QED
          BY <4>1, <4>2, <5>1
      <4> QED
        BY <4>3 DEF Adds, base
    <3>7. 2 * Len(r.output) + Len(r.pending) <= ((k + 2) - m) + 1
      <4>1. r.output \in Seq(Word) /\ r.pending \in Seq(Values)
        BY <3>6 DEF Decodings, Pendings
      <4> DEFINE x == Len(e.output)
                 y == Len(r.output)
                 z == Len(r.pending)
      <4>2. x \in Nat /\ y \in Nat /\ z \in Nat /\ 2 * x + 0 <= (k - m) + 1
            /\ 2 * y + z <= 2 * x + 2
        <5>1. Len(e.pending) = 0 /\ 2 * Len(e.output) + Len(e.pending) <= (k - m) + 1
          BY <1>0, <1>5
        <5>2. x \in Nat /\ y \in Nat /\ z \in Nat
          BY <1>0, <3>6, <4>1 DEF Pendings, Decodings
        <5> QED
          BY <3>6, <5>1, <5>2
      <4> HIDE DEF x, y, z
      <4>3. 2 * y + z <= ((k + 2) - m) + 1
        BY <1>0, <4>2
      <4> QED
        BY <4>3 DEF y, z
    <3>8. Reached(r, k + 2, w, f, m)
      BY <3>4, <3>6, <3>7 DEF Reached, L
    <3> QED
      BY <3>1, <3>2, <3>8 DEF L
  <2> QED
    BY <2>1, <2>2
<1> QED
  BY <1>4, <1>5

(* A turn of the loop keeps the types. *)
LEMMA TurnType == \A e \in Decodings : Turn(e) \in Decodings
<1> SUFFICES ASSUME NEW e \in Decodings PROVE Turn(e) \in Decodings
  OBVIOUS
<1> DEFINE in == e.input
<1>0. in \in Seq(Values) /\ e.pending \in Pendings /\ e.output \in Seq(Word)
  BY DEF Decodings
<1>1. ASSUME NEW a \in Values, NEW v \in Values, NEW rest \in Seq(Values)
      PROVE  Pair(e, a, v, rest) \in Decodings
  <2>1. CASE v <= 1
    <3>1. NineBit(a, v) \in Word
      BY <2>1, NineBitType
    <3>2. Append(e.output, NineBit(a, v)) \in Seq(Word)
      BY <1>0, <3>1, AppendProperties
    <3> QED
      BY <2>1, <3>2, PendingIs DEF Pair, Decodings
  <2>2. CASE ~(v <= 1)
    BY <1>0, <2>2, PendingIs DEF Pair, Decodings
  <2> QED
    BY <2>1, <2>2
<1> HIDE DEF in
<1>2. CASE in = <<>> \/ Full(e)
  BY <1>2 DEF Turn, in
<1>3. CASE ~(in = <<>> \/ Full(e))
  <2>1. Len(in) \in Nat /\ Len(in) # 0 /\ in # <<>>
    BY <1>0, <1>3, EmptySeq
  <2>2. in[1] \in Values /\ Tail(in) \in Seq(Values)
    <3>1. 1 \in 1 .. Len(in)
      BY <2>1
    <3>2. Tail(in) \in Seq(Values)
      BY <1>0, <2>1, HeadTailProperties
    <3> QED
      BY <1>0, <3>1, <3>2, ElementOfSeq
  <2>3. CASE e.pending # <<>>
    <3>1. e.pending[1] \in Values
      BY <1>0, <2>3, PendingIs
    <3>2. Turn(e) = Pair(e, e.pending[1], in[1], Tail(in))
      BY <1>3, <2>3 DEF Turn, in
    <3> QED
      BY <1>1, <2>2, <3>1, <3>2
  <2>4. CASE e.pending = <<>> /\ Len(in) = 1
    <3>1. in \in Pendings /\ <<>> \in Seq(Values)
      <4>1. Len(in) <= 1
        BY <2>4
      <4> QED
        BY <1>0, <4>1 DEF Pendings
    <3>2. Turn(e) = [input |-> <<>>, pending |-> in, output |-> e.output]
      BY <1>3, <2>4 DEF Turn, in
    <3> QED
      BY <1>0, <3>1, <3>2 DEF Decodings
  <2>5. CASE e.pending = <<>> /\ Len(in) # 1
    <3>1. 2 \in 0 .. Len(in) /\ 2 \in 1 .. Len(in) /\ 2 + 1 = 3
      BY <2>1, <2>5
    <3>2. in[2] \in Values /\ SubSeq(in, 2 + 1, Len(in)) \in Seq(Values)
      BY <1>0, <3>1, ElementOfSeq, Drop
    <3>3. Turn(e) = Pair(e, in[1], in[2], SubSeq(in, 2 + 1, Len(in)))
      BY <1>3, <2>5, <3>1 DEF Turn, in
    <3> QED
      BY <1>1, <2>2, <3>2, <3>3
  <2> QED
    BY <2>3, <2>4, <2>5
<1> QED
  BY <1>2, <1>3

(* Decoded computes the turns. *)
LEMMA DecodedTurns ==
  ASSUME NEW d \in Decodings
  PROVE  \E g \in [0 .. Len(d.input) -> Decodings] :
           /\ g[0] = d /\ \A n \in 1 .. Len(d.input) : g[n] = Turn(g[n - 1])
           /\ Decoded(d) = g[Len(d.input)]
<1> DEFINE L == Len(d.input)
           Is(h) == h = [n \in 0 .. L |-> IF n = 0 THEN d ELSE Turn(h[n - 1])]
           c == CHOOSE h : Is(h)
           step == [n \in 1 .. L |-> [e \in Decodings |-> Turn(e)]]
<1>0. L \in Nat
  <2>1. d.input \in Seq(Values)
    BY DEF Decodings
  <2> QED
    BY <2>1
<1>2. step \in [1 .. L -> [Decodings -> Decodings]]
  BY TurnType
<1>3. Decoded(d) = c[L]
  BY DEF Decoded
<1>4. PICK g \in [0 .. L -> Decodings] : g[0] = d /\ \A n \in 1 .. L : g[n] = step[n][g[n - 1]]
  <2> HIDE DEF step, L
  <2> QED
    BY <1>0, <1>2, Recursion
<1>5. ASSUME NEW n \in 1 .. L PROVE g[n] = Turn(g[n - 1])
  <2>1. g[n] = step[n][g[n - 1]]
    BY <1>4
  <2>2. g[n - 1] \in Decodings
    BY <1>0, <1>4
  <2> QED
    BY <2>1, <2>2
<1> HIDE DEF step
<1>6. Is(g)
  <2>1. g = [n \in 0 .. L |-> g[n]]
    BY <1>4
  <2>2. ASSUME NEW n \in 0 .. L PROVE g[n] = IF n = 0 THEN d ELSE Turn(g[n - 1])
    <3>1. n = 0 \/ n \in 1 .. L
      BY <1>0
    <3> QED
      BY <1>4, <1>5, <3>1
  <2> QED
    BY <2>1, <2>2
<1>7. Is(c)
  <2> HIDE DEF Is
  <2> QED
    BY <1>6
<1> HIDE DEF c
<1>8. \A n \in 0 .. L : c[n] = g[n]
  <2> DEFINE T == {n \in Nat : n <= L => c[n] = g[n]}
  <2>1. 0 \in T
    BY <1>0, <1>4, <1>7
  <2>2. ASSUME NEW n \in Nat, n \in T PROVE n + 1 \in T
    <3> SUFFICES ASSUME n + 1 <= L PROVE c[n + 1] = g[n + 1]
      OBVIOUS
    <3>1. n + 1 \in 1 .. L /\ n + 1 # 0 /\ (n + 1) - 1 = n /\ n + 1 \in 0 .. L
      BY <1>0
    <3>2. c[n] = g[n]
      BY <1>0, <2>2
    <3>3. g[n + 1] = Turn(g[n])
      BY <1>5, <3>1
    <3>4. c[n + 1] = Turn(c[n])
      BY <1>7, <3>1
    <3> QED
      BY <3>2, <3>3, <3>4
  <2>3. Nat \subseteq T
    <3> HIDE DEF T
    <3> QED
      BY <2>1, <2>2, NatSet
  <2> QED
    BY <1>0, <2>3
<1>9. c[L] = g[L]
  BY <1>0, <1>8
<1> QED
  BY <1>3, <1>4, <1>5, <1>9

(* Decoding what has been read goes where the reference goes: nothing is   *)
(* dropped, for a read of InBytes always finds room in the output.         *)
LEMMA DecodeReaches ==
  ASSUME NEW w \in Seq(Values), NEW f, Runs(f, w), NEW m \in 0 .. Len(w),
         NEW x, x = SubSeq(w, m + 1, Len(w)), Len(w) - m <= InBytes
  PROVE  LET r == Decode(f[m].pending, x)
         IN  /\ r.pending = f[Len(w)].pending
             /\ f[Len(w)].output = f[m].output \o r.output
             /\ r.output \in Seq(Word) /\ Len(r.output) <= OutWords
<1> DEFINE L == Len(w)
           p == f[m].pending
           d == [input |-> x, pending |-> p, output |-> <<>>]
           r == Decode(p, x)
<1>0. L \in Nat /\ m \in Nat /\ m \in 0 .. L /\ L \in 0 .. L /\ m \in m .. L
  OBVIOUS
<1>1. x \in Seq(Values) /\ Len(x) = L - m
  BY <1>0, Drop
<1>2. f[m] \in Pairs /\ p \in Pendings /\ f[m].output \in Seq(Word)
  BY <1>0 DEF Runs, Pairs
<1>3. d \in Decodings /\ d.input = x
  <2>1. <<>> \in Seq(Word)
    OBVIOUS
  <2> QED
    BY <1>1, <1>2, <2>1 DEF Decodings
<1>4. Reached(d, m, w, f, m)
  <2>1. d.pending = p /\ d.output = <<>> /\ Len(d.output) = 0
    OBVIOUS
  <2>2. f[m].output = f[m].output \o d.output
    BY <1>2, <2>1, ConcatEmptySeq
  <2>3. Len(d.pending) <= 1 /\ Len(d.pending) \in Nat
    BY <1>2, <2>1 DEF Pendings
  <2>4. 0 <= OutWords
    BY Params
  <2> HIDE DEF d
  <2>5. 2 * Len(d.output) + Len(d.pending) <= (m - m) + 1
    BY <1>0, <2>1, <2>3
  <2> QED
    BY <1>3, <2>1, <2>2, <2>4, <2>5 DEF Reached
<1>5. PICK g \in [0 .. L - m -> Decodings] :
        /\ g[0] = d /\ \A n \in 1 .. L - m : g[n] = Turn(g[n - 1])
        /\ Decoded(d) = g[L - m]
  <2>1. Len(d.input) = L - m
    BY <1>1, <1>3
  <2> DEFINE k == Len(d.input)
  <2> HIDE DEF d
  <2>2. \E g \in [0 .. k -> Decodings] :
          /\ g[0] = d /\ \A n \in 1 .. k : g[n] = Turn(g[n - 1])
          /\ Decoded(d) = g[k]
    BY <1>3, DecodedTurns
  <2>3. k = L - m
    BY <2>1
  <2> HIDE DEF k, L
  <2> QED
    BY <2>2, <2>3
<1> DEFINE Some(n) == \E k \in m .. L : /\ Reached(g[n], k, w, f, m)
                                        /\ Full(g[n]) \/ k = L \/ k >= m + n
           T == {n \in Nat : n <= L - m => Some(n)}
<1> HIDE DEF d
<1>6. Some(0)
  <2>1. m >= m + 0
    BY <1>0
  <2> QED
    BY <1>0, <1>4, <1>5, <2>1
<1>7. ASSUME NEW n \in Nat, n + 1 <= L - m, Some(n) PROVE Some(n + 1)
  <2>1. PICK k \in m .. L : /\ Reached(g[n], k, w, f, m)
                            /\ Full(g[n]) \/ k = L \/ k >= m + n
    BY <1>7
  <2>2. g[n + 1] = Turn(g[n])
    <3>1. n + 1 \in 1 .. L - m /\ (n + 1) - 1 = n
      BY <1>0, <1>7
    <3> QED
      BY <1>5, <3>1
  <2>3. CASE Full(g[n]) \/ k = L
    <3>1. k = L => g[n].input = <<>>
      BY <1>0, <2>1, SubSeqEmpty DEF Reached
    <3>2. Turn(g[n]) = g[n]
      BY <2>3, <3>1 DEF Turn
    <3> QED
      BY <2>1, <2>2, <2>3, <3>2
  <2>4. CASE ~(Full(g[n]) \/ k = L)
    <3>1. k < Len(w) /\ k >= m + n /\ k \in Nat
      BY <1>0, <2>1, <2>4
    <3>2. PICK j \in k + 1 .. Len(w) : Reached(Turn(g[n]), j, w, f, m)
      BY <2>1, <2>4, <3>1, TurnReaches
    <3>3. j \in m .. L /\ j >= m + (n + 1)
      BY <1>0, <3>1
    <3> QED
      BY <2>2, <3>2, <3>3
  <2> QED
    BY <2>3, <2>4
<1>8. Nat \subseteq T
  <2>1. 0 \in T
    <3> HIDE DEF Some
    <3> QED
      BY <1>6
  <2>2. ASSUME NEW n \in Nat, n \in T PROVE n + 1 \in T
    <3> HIDE DEF Some
    <3> QED
      BY <1>0, <1>7, <2>2
  <2> HIDE DEF T
  <2> QED
    BY <2>1, <2>2, NatSet
<1> DEFINE e == g[L - m]
<1>9. PICK k \in m .. L : Reached(e, k, w, f, m) /\ (Full(e) \/ k = L)
  <2>1. L - m \in Nat /\ L - m <= L - m
    BY <1>0
  <2>2. Some(L - m)
    <3> HIDE DEF Some
    <3> QED
      BY <1>8, <2>1
  <2>3. \A k \in m .. L : k >= m + (L - m) => k = L
    BY <1>0
  <2> HIDE DEF e
  <2> QED
    BY <2>2, <2>3 DEF e
<1>10. r = [pending |-> IF Len(e.input) = 1 THEN e.input ELSE e.pending, output |-> e.output]
  <2>1. Decoded([input |-> x, pending |-> p, output |-> <<>>]) = e
    BY <1>5 DEF d
  <2> HIDE DEF e, p
  <2> QED
    BY <2>1 DEF Decode
<1> HIDE DEF e, r, p
<1>11. /\ k \in Nat /\ k <= L /\ k >= m /\ k \in 0 .. L
       /\ e \in Decodings /\ e.input = SubSeq(w, k + 1, L) /\ e.pending = f[k].pending
       /\ f[k].output = f[m].output \o e.output
       /\ Len(e.output) <= OutWords
       /\ 2 * Len(e.output) + Len(e.pending) <= (k - m) + 1
  <2>1. k \in Nat /\ k <= L /\ k >= m /\ k \in 0 .. L
    BY <1>0
  <2> HIDE DEF L
  <2> QED
    BY <1>9, <2>1 DEF Reached, L
<1>12. e.output \in Seq(Word) /\ e.pending \in Pendings
  BY <1>11 DEF Decodings
<1>13. CASE k = L
  <2>1. e.input = <<>> /\ Len(e.input) = 0
    BY <1>0, <1>11, <1>13, SubSeqEmpty
  <2>2. r.pending = e.pending /\ r.output = e.output
    BY <1>10, <2>1
  <2> QED
    BY <1>11, <1>12, <1>13, <2>2 DEF r, p
<1>14. CASE k # L
  <2>1. Len(e.output) \in Nat /\ Len(e.pending) \in Nat /\ Len(e.output) = OutWords
    <3>1. Len(e.output) \in Nat /\ Len(e.pending) \in Nat
      BY <1>12 DEF Pendings
    <3>2. Len(e.output) >= OutWords
      BY <1>9, <1>14 DEF Full
    <3> QED
      BY <1>11, <3>1, <3>2, Params
  <2>2. k + 1 = L /\ Len(e.pending) = 0
    <3> DEFINE z == Len(e.pending)
               y == Len(e.output)
    <3>1. z \in Nat /\ y \in Nat /\ y = OutWords /\ 2 * y + z <= (k - m) + 1
      BY <1>11, <2>1
    <3>2. L - m <= 2 * OutWords /\ L \in Nat /\ k < L /\ OutWords \in Nat
      <4>1. L - m <= InBytes
        OBVIOUS
      <4> QED
        BY <1>0, <1>11, <1>14, <4>1, Params, SMTT(30)
    <3> HIDE DEF z, y, L
    <3>3. k + 1 = L /\ z = 0
      BY <1>0, <1>11, <3>1, <3>2
    <3> QED
      BY <3>3 DEF z
  <2>3. e.pending = <<>>
    BY <1>12, <2>2, PendingIs
  <2>4. /\ e.input \in Seq(Values) /\ Len(e.input) = 1
        /\ e.input[1] = w[L]
    <3>1. /\ e.input \in Seq(Values) /\ Len(e.input) = L - k
          /\ \A i \in 1 .. L - k : e.input[i] = w[k + i]
      BY <1>11, Drop
    <3>2. L - k = 1 /\ 1 \in 1 .. L - k
      BY <1>11, <2>2
    <3> QED
      BY <2>2, <3>1, <3>2
  <2>5. e.input = <<w[L]>>
    <3>1. e.input = <<e.input[1]>>
      BY <2>4
    <3> QED
      BY <2>4, <3>1
  <2>6. r.pending = <<w[L]>> /\ r.output = e.output
    BY <1>10, <2>4, <2>5
  <2>7. f[L] = Add(f[k], w[L])
    <3>1. L \in 1 .. Len(w) /\ L - 1 = k
      BY <1>11, <2>2
    <3> QED
      BY <3>1 DEF Runs
  <2>8. f[L].pending = <<w[L]>> /\ f[L].output = f[k].output
    <3>1. Add(f[k], w[L]) = [pending |-> <<w[L]>>, output |-> f[k].output]
      BY <1>11, <2>3 DEF Add
    <3> QED
      BY <2>7, <3>1
  <2> QED
    BY <1>11, <1>12, <2>6, <2>8 DEF r, p
<1> QED
  BY <1>13, <1>14

-----------------------------------------------------------------------------
(* Types, and the cuts of the stream. *)

(* The values of bytes are values. *)
LEMMA ValuesType ==
  ASSUME NEW s \in Seq(HostByte)
  PROVE  /\ ValuesOf(s) \in Seq(Values) /\ Len(ValuesOf(s)) = Len(s)
         /\ \A i \in 1 .. Len(s) : ValuesOf(s)[i] = s[i].v
<1>0. Len(s) \in Nat /\ DOMAIN s = 1 .. Len(s)
  OBVIOUS
<1>1. \A i \in 1 .. Len(s) : s[i].v \in Values
  <2> SUFFICES ASSUME NEW i \in 1 .. Len(s) PROVE s[i].v \in Values
    OBVIOUS
  <2>1. s[i] \in HostByte
    BY ElementOfSeq
  <2> QED
    BY <2>1 DEF HostByte
<1>2. ValuesOf(s) = [i \in 1 .. Len(s) |-> s[i].v]
  BY <1>0 DEF ValuesOf
<1> QED
  BY <1>0, <1>1, <1>2

(* The inductive invariant of types and cuts. *)
Safe == TypeOK /\ ChunksInvisible

(* A read keeps it. *)
LEMMA ReadSafe ==
  ASSUME Safe, Read
  PROVE  Safe'
<1>0. /\ ring \in Seq(HostByte) /\ heard \in Seq(HostByte) /\ Len(ring) <= RingBytes
      /\ out \in Seq(Word) /\ words = <<>> /\ Len(ring) \in Nat /\ Len(heard) \in Nat
      /\ TypeOK
  BY DEF Safe, TypeOK, Read
<1>1. PICK n \in 1 .. Len(ring) :
        /\ n <= InBytes
        /\ LET taken == SubSeq(ring, 1, n)
               d == Decode(pending, ValuesOf(taken))
           IN  /\ pending' = d.pending /\ words' = d.output
               /\ heard' = heard \o taken
        /\ ring' = SubSeq(ring, n + 1, Len(ring))
  BY DEF Read
<1> DEFINE taken == SubSeq(ring, 1, n)
           w == ValuesOf(heard')
           v == ValuesOf(heard)
           x == ValuesOf(taken)
           m == Len(heard)
<1>2. taken \in Seq(HostByte) /\ Len(taken) = n /\ n \in Nat
  <2>1. \A i \in 1 .. n : ring[i] \in HostByte
    <3> SUFFICES ASSUME NEW i \in 1 .. n PROVE ring[i] \in HostByte
      OBVIOUS
    <3>1. i \in 1 .. Len(ring)
      BY <1>0
    <3> QED
      BY <1>0, <3>1, ElementOfSeq
  <2>2. n \in Nat /\ 1 <= n
    OBVIOUS
  <2>3. taken \in Seq(HostByte) /\ Len(taken) = IF 1 <= n THEN n - 1 + 1 ELSE 0
    BY <2>1, <2>2, SubSeqProperties
  <2> QED
    BY <2>2, <2>3
<1> HIDE DEF taken
<1>3. /\ heard' \in Seq(HostByte) /\ Len(heard') = m + n
      /\ \A i \in 1 .. m : heard'[i] = heard[i]
      /\ \A i \in 1 .. n : heard'[m + i] = taken[i]
  <2>1. heard' = heard \o taken
    BY <1>1 DEF taken
  <2>2. /\ heard \o taken \in Seq(HostByte) /\ Len(heard \o taken) = m + n
        /\ \A i \in 1 .. m + n : (heard \o taken)[i] = IF i <= m THEN heard[i] ELSE taken[i - m]
    BY <1>0, <1>2, ConcatProperties
  <2>3. ASSUME NEW i \in 1 .. m PROVE heard'[i] = heard[i]
    BY <1>0, <1>2, <2>1, <2>2
  <2>4. ASSUME NEW i \in 1 .. n PROVE heard'[m + i] = taken[i]
    <3>1. m + i \in 1 .. m + n /\ ~(m + i <= m) /\ (m + i) - m = i
      BY <1>0, <1>2
    <3> QED
      BY <2>1, <2>2, <3>1
  <2> QED
    BY <2>1, <2>2, <2>3, <2>4
<1>4. /\ w \in Seq(Values) /\ Len(w) = m + n /\ \A i \in 1 .. m + n : w[i] = heard'[i].v
      /\ v \in Seq(Values) /\ Len(v) = m /\ \A i \in 1 .. m : v[i] = heard[i].v
      /\ x \in Seq(Values) /\ Len(x) = n /\ \A i \in 1 .. n : x[i] = taken[i].v
  BY <1>0, <1>2, <1>3, ValuesType
<1> HIDE DEF w, v, x, m
<1>5. m \in Nat /\ n \in Nat /\ m \in 0 .. Len(w) /\ Len(v) <= Len(w) /\ Len(w) - m <= InBytes
  BY <1>0, <1>1, <1>2, <1>4 DEF m
<1>6. \A i \in 1 .. Len(v) : v[i] = w[i]
  <2> SUFFICES ASSUME NEW i \in 1 .. m PROVE v[i] = w[i]
    BY <1>4
  <2>1. i \in 1 .. m + n
    BY <1>5
  <2> QED
    BY <1>3, <1>4, <2>1 DEF m
<1>7. x = SubSeq(w, m + 1, Len(w))
  <2> DEFINE y == SubSeq(w, m + 1, Len(w))
  <2>1. /\ y \in Seq(Values) /\ Len(y) = Len(w) - m
        /\ \A i \in 1 .. Len(w) - m : y[i] = w[m + i]
    BY <1>4, <1>5, Drop
  <2> HIDE DEF y
  <2>2. Len(y) = n /\ Len(w) - m = n
    BY <1>4, <1>5, <2>1
  <2>3. ASSUME NEW i \in 1 .. n PROVE x[i] = y[i]
    <3>1. m + i \in 1 .. m + n
      BY <1>5
    <3>2. x[i] = taken[i].v /\ y[i] = w[m + i] /\ w[m + i] = heard'[m + i].v
      BY <1>4, <2>1, <2>2, <3>1
    <3>3. heard'[m + i] = taken[i]
      BY <1>3 DEF m
    <3> QED
      BY <3>2, <3>3
  <2> QED
    BY <1>4, <2>1, <2>2, <2>3, SeqEqual DEF y
<1>8. PICK f : Runs(f, w) /\ Paired(w) = f[Len(w)]
  BY <1>4, PairedRuns
<1>9. f[m] = Paired(v)
  <2>1. PICK g : Runs(g, v) /\ Paired(v) = g[Len(v)]
    BY <1>4, PairedRuns
  <2>2. \A i \in 0 .. Len(v) : g[i] = f[i]
    BY <1>4, <1>5, <1>6, <1>8, <2>1, RunsAgree
  <2>3. Len(v) \in 0 .. Len(v)
    BY <1>4, <1>5
  <2> QED
    BY <1>4, <2>1, <2>2, <2>3
<1>10. f[m].pending = pending /\ f[m].output = out
  <2>1. pending = Paired(v).pending /\ out \o words = Paired(v).output
    BY DEF Safe, ChunksInvisible, v
  <2>2. out \o words = out
    BY <1>0, ConcatEmptySeq
  <2> QED
    BY <1>9, <2>1, <2>2
<1> DEFINE r == Decode(pending, x)
<1>11. /\ r.pending = f[Len(w)].pending
       /\ f[Len(w)].output = out \o r.output
       /\ r.output \in Seq(Word) /\ Len(r.output) <= OutWords
  <2> DEFINE q == Decode(f[m].pending, x)
  <2>1. /\ q.pending = f[Len(w)].pending
        /\ f[Len(w)].output = f[m].output \o q.output
        /\ q.output \in Seq(Word) /\ Len(q.output) <= OutWords
    <3>1. /\ w \in Seq(Values) /\ Runs(f, w) /\ m \in 0 .. Len(w)
          /\ x = SubSeq(w, m + 1, Len(w)) /\ Len(w) - m <= InBytes
      BY <1>4, <1>5, <1>7, <1>8
    <3> QED
      BY <3>1, DecodeReaches, ZenonT(60)
  <2>2. q = r
    BY <1>10
  <2> HIDE DEF q, r
  <2> QED
    BY <1>10, <2>1, <2>2
<1>12. pending' = r.pending /\ words' = r.output /\ out' = out
  BY <1>1 DEF x, taken, Read
<1>13. pending' \in Seq(Values) /\ Len(pending') <= 1
  <2>1. Len(w) \in 0 .. Len(w)
    BY <1>4, <1>5
  <2>2. f[Len(w)] \in Pairs
    BY <1>8, <2>1 DEF Runs
  <2> HIDE DEF r
  <2> QED
    BY <1>11, <1>12, <2>2 DEF Pairs, Pendings
<1> HIDE DEF r
<1>14. ChunksInvisible'
  <2>1. pending' = Paired(w).pending /\ out' \o words' = Paired(w).output
    BY <1>8, <1>11, <1>12
  <2> QED
    BY <2>1 DEF ChunksInvisible, ValuesOf, w, Paired, Add, NineBit
<1>15. ring' \in Seq(HostByte) /\ Len(ring') <= RingBytes
  <2>1. n \in 0 .. Len(ring)
    OBVIOUS
  <2>2. ring' \in Seq(HostByte) /\ Len(ring') = Len(ring) - n
    BY <1>0, <1>1, <2>1, Drop
  <2> QED
    BY <1>0, <1>2, <2>2, Params
<1>16. TypeOK'
  <2>1. UNCHANGED <<count, gap, losses, out>>
    BY DEF Read
  <2> QED
    BY <1>0, <1>3, <1>11, <1>12, <1>13, <1>15, <2>1 DEF TypeOK
<1> QED
  BY <1>14, <1>16 DEF Safe

(* Writing a word keeps it. *)
LEMMA WriteSafe ==
  ASSUME Safe, WriteWord
  PROVE  Safe'
<1>0. /\ words \in Seq(Word) /\ words # <<>> /\ out \in Seq(Word) /\ Len(words) <= OutWords
      /\ out' = Append(out, Head(words)) /\ words' = Tail(words)
      /\ UNCHANGED <<count, gap, losses, ring, pending, heard>> /\ TypeOK
  BY DEF Safe, TypeOK, WriteWord
<1> DEFINE h == <<Head(words)>>
<1>1. Head(words) \in Word /\ words' \in Seq(Word) /\ Len(words') <= OutWords
  <2>1. Head(words) \in Word /\ words' \in Seq(Word) /\ Len(words') = Len(words) - 1
    BY <1>0, HeadTailProperties
  <2>2. Len(words) \in Nat
    BY <1>0
  <2> QED
    BY <1>0, <2>1, <2>2, Params
<1>2. words = h \o words' /\ h \in Seq(Word)
  <2>1. Len(words) \in Nat /\ 1 \in 1 .. Len(words) /\ Len(words) \in 1 .. Len(words) /\ 1 + 1 = 2
    BY <1>0, EmptySeq
  <2>2. SubSeq(words, 1, Len(words)) = <<words[1]>> \o SubSeq(words, 1 + 1, Len(words))
    BY <1>0, <2>1, SubSeqRecursiveFirst
  <2> QED
    BY <1>0, <1>1, <2>1, <2>2, SubSeqFull, TailIsSubSeq, HeadTailProperties
<1>3. out' = out \o h /\ out' \in Seq(Word)
  BY <1>0, <1>1, AppendIsConcat, AppendProperties
<1> HIDE DEF h
<1>4. (out \o h) \o words' = out \o (h \o words')
  BY <1>0, <1>1, <1>2, Regroup, Zenon
<1>5. out' \o words' = out \o words
  BY <1>2, <1>3, <1>4
<1>6. ChunksInvisible'
  <2>1. Paired(ValuesOf(heard))' = Paired(ValuesOf(heard))
    BY <1>0 DEF Paired, ValuesOf, Add, NineBit
  <2> QED
    BY <1>0, <1>5, <2>1 DEF Safe, ChunksInvisible
<1>7. TypeOK'
  BY <1>0, <1>1, <1>3 DEF TypeOK
<1> QED
  BY <1>6, <1>7 DEF Safe

(* A byte that comes or is lost changes nothing that has been read. *)
LEMMA LineSafe ==
  ASSUME Safe, (\E v \in Values : Send(v)) \/ Lose
  PROVE  Safe'
<1>0. TypeOK /\ UNCHANGED <<pending, words, out, heard>>
  BY DEF Safe, Send, Lose
<1>1. ChunksInvisible'
  <2>1. Paired(ValuesOf(heard))' = Paired(ValuesOf(heard))
    BY <1>0 DEF Paired, ValuesOf, Add, NineBit
  <2> QED
    BY <1>0, <2>1 DEF Safe, ChunksInvisible
<1>2. ASSUME NEW v \in Values, Send(v) PROVE TypeOK'
  <2> DEFINE b == [v |-> v, low |-> count % 2 = 0, gap |-> gap]
  <2>1. b \in HostByte
    BY <1>0 DEF TypeOK, HostByte
  <2>2. ring' = Append(ring, b) /\ Len(ring) < RingBytes /\ ring \in Seq(HostByte)
    BY <1>0, <1>2 DEF Send, TypeOK
  <2> HIDE DEF b
  <2>3. ring' \in Seq(HostByte) /\ Len(ring') = Len(ring) + 1 /\ Len(ring) \in Nat
    BY <2>1, <2>2, AppendProperties
  <2>4. Len(ring') <= RingBytes
    BY <2>2, <2>3, Params
  <2>5. count' \in 0 .. HostBytes /\ gap' \in BOOLEAN /\ losses' = losses
    <3>1. count \in 0 .. HostBytes /\ count < HostBytes /\ count' = count + 1
      BY <1>0, <1>2 DEF Send, TypeOK
    <3>2. count' \in 0 .. HostBytes
      BY <3>1, Params
    <3> QED
      BY <1>2, <3>2 DEF Send
  <2> QED
    BY <1>0, <2>3, <2>4, <2>5 DEF TypeOK
<1>3. ASSUME Lose PROVE TypeOK'
  <2>1. count' \in 0 .. HostBytes /\ gap' \in BOOLEAN /\ losses' \in 0 .. LossCap /\ ring' = ring
    BY <1>0, <1>3, Params DEF Lose, TypeOK
  <2>2. ring' \in Seq(HostByte) /\ Len(ring') <= RingBytes
    BY <1>0, <2>1 DEF TypeOK
  <2>3. /\ pending' \in Seq(Values) /\ Len(pending') <= 1
        /\ words' \in Seq(Word) /\ Len(words') <= OutWords
        /\ out' \in Seq(Word) /\ heard' \in Seq(HostByte)
    BY <1>0 DEF TypeOK
  <2> QED
    BY <2>1, <2>2, <2>3 DEF TypeOK
<1> QED
  BY <1>1, <1>2, <1>3 DEF Safe

(* Types hold, and the cuts of the stream do not show. *)
THEOREM Invariance == Spec => []Safe
<1>1. Init => Safe
  <2> SUFFICES ASSUME Init PROVE Safe
    OBVIOUS
  <2>1. /\ count = 0 /\ gap = FALSE /\ losses = 0 /\ ring = <<>>
        /\ pending = <<>> /\ words = <<>> /\ out = <<>> /\ heard = <<>>
    BY DEF Init
  <2>2. /\ <<>> \in Seq(HostByte) /\ <<>> \in Seq(Values) /\ <<>> \in Seq(Word)
        /\ Len(<<>>) = 0 /\ <<>> \o <<>> = <<>>
    OBVIOUS
  <2>3. TypeOK
    <3>1. count \in 0 .. HostBytes /\ gap \in BOOLEAN /\ losses \in 0 .. LossCap
      <4>1. 0 \in 0 .. HostBytes /\ 0 \in 0 .. LossCap
        BY Params
      <4> QED
        BY <2>1, <4>1
    <3>2. Len(ring) <= RingBytes /\ Len(pending) <= 1 /\ Len(words) <= OutWords
      BY <2>1, <2>2, Params
    <3>3. /\ ring \in Seq(HostByte) /\ pending \in Seq(Values) /\ words \in Seq(Word)
          /\ out \in Seq(Word) /\ heard \in Seq(HostByte)
      BY <2>1, <2>2
    <3> QED
      BY <3>1, <3>2, <3>3 DEF TypeOK
  <2>4. ChunksInvisible
    <3>1. ValuesOf(<<>>) \in Seq(Values) /\ Len(ValuesOf(<<>>)) = 0
      BY <2>2, ValuesType
    <3>2. PICK f : Runs(f, ValuesOf(<<>>)) /\ Paired(ValuesOf(<<>>)) = f[Len(ValuesOf(<<>>))]
      BY <3>1, PairedRuns
    <3>3. Paired(ValuesOf(<<>>)) = [pending |-> <<>>, output |-> <<>>]
      BY <3>1, <3>2 DEF Runs
    <3> QED
      BY <2>1, <2>2, <3>3 DEF ChunksInvisible
  <2> QED
    BY <2>3, <2>4 DEF Safe
<1>2. Safe /\ [Next]_vars => Safe'
  <2> SUFFICES ASSUME Safe, [Next]_vars PROVE Safe'
    OBVIOUS
  <2>1. CASE Next
    BY <2>1, ReadSafe, WriteSafe, LineSafe DEF Next
  <2>2. CASE UNCHANGED vars
    <3>1. TypeOK'
      BY <2>2 DEF vars, Safe, TypeOK
    <3>2. Paired(ValuesOf(heard))' = Paired(ValuesOf(heard))
      BY <2>2 DEF vars, Paired, ValuesOf, Add, NineBit
    <3>3. ChunksInvisible'
      BY <2>2, <3>2 DEF vars, Safe, ChunksInvisible
    <3> QED
      BY <3>1, <3>3 DEF Safe
  <2> QED
    BY <2>1, <2>2
<1> QED
  BY <1>1, <1>2, PTL DEF Spec

(* Ring, pending byte and words keep their types; above all decode() never *)
(* gives out more words than there is room for.                            *)
THEOREM TypeCorrect == Spec => []TypeOK
<1>1. Safe => TypeOK
  BY DEF Safe
<1> QED
  BY <1>1, Invariance, PTL

(* Wherever reads cut the stream, the words are those of the whole stream, *)
(* none is dropped for want of room and none repeated: for every length of *)
(* the buffers with two bytes for each word, and any number of bytes.      *)
THEOREM ChunksNeverShow == Spec => []ChunksInvisible
<1>1. Safe => ChunksInvisible
  BY DEF Safe
<1> QED
  BY <1>1, Invariance, PTL

(* A sequence is what is before a place and what is behind it. *)
LEMMA CutInTwo ==
  ASSUME NEW S, NEW s \in Seq(S), NEW n \in 1 .. Len(s)
  PROVE  /\ SubSeq(s, 1, n) \in Seq(S) /\ SubSeq(s, n + 1, Len(s)) \in Seq(S)
         /\ SubSeq(s, 1, n) \o SubSeq(s, n + 1, Len(s)) = s
<1> DEFINE L == Len(s)
           a == SubSeq(s, 1, n)
           b == SubSeq(s, n + 1, L)
<1>0. L \in Nat /\ n \in Nat /\ n <= L /\ n >= 1 /\ n \in 0 .. Len(s)
  OBVIOUS
<1>1. /\ b \in Seq(S) /\ Len(b) = L - n
      /\ \A i \in 1 .. L - n : b[i] = s[n + i]
  BY <1>0, Drop
<1>2. /\ a \in Seq(S) /\ Len(a) = n
      /\ \A i \in 1 .. n : a[i] = s[i]
  <2>1. \A i \in 1 .. n : s[i] \in S
    BY <1>0, ElementOfSeq
  <2>2. /\ a \in Seq(S) /\ Len(a) = (IF 1 <= n THEN n - 1 + 1 ELSE 0)
        /\ \A i \in 1 .. n - 1 + 1 : a[i] = s[1 + i - 1]
    BY <1>0, <2>1, SubSeqProperties
  <2> HIDE DEF a
  <2> QED
    BY <1>0, <2>2
<1> HIDE DEF a, b
<1>3. /\ a \o b \in Seq(S) /\ Len(a \o b) = Len(a) + Len(b)
      /\ \A i \in 1 .. Len(a) + Len(b) : (a \o b)[i] = IF i <= Len(a) THEN a[i] ELSE b[i - Len(a)]
  BY <1>1, <1>2, ConcatProperties
<1>4. ASSUME NEW i \in 1 .. L PROVE (a \o b)[i] = s[i]
  <2>1. i \in 1 .. Len(a) + Len(b)
    BY <1>0, <1>1, <1>2
  <2>2. CASE i <= n
    BY <1>2, <1>3, <2>1, <2>2
  <2>3. CASE i > n
    <3>1. i - n \in 1 .. L - n /\ n + (i - n) = i /\ ~(i <= n)
      BY <1>0, <2>3
    <3> QED
      BY <1>1, <1>2, <1>3, <2>1, <3>1
  <2>4. i <= n \/ i > n
    BY <1>0
  <2> QED
    BY <2>2, <2>3, <2>4
<1>5. a \o b = s
  <2>1. Len(a \o b) = L
    BY <1>0, <1>1, <1>2, <1>3
  <2> QED
    BY <1>3, <1>4, <2>1, SeqEqual
<1> QED
  BY <1>1, <1>2, <1>5 DEF a, b, L

-----------------------------------------------------------------------------
(* In turn: what the host keeps to, and where a byte was lost, shows.      *)

(* No bit 8 is more than 1, and without a loss the two bytes of a word     *)
(* take turns.                                                             *)
Alternates(s) ==
  /\ \A j \in 1 .. Len(s) : ~s[j].low => s[j].v <= 1
  /\ \A j \in 2 .. Len(s) : ~s[j].gap => (s[j].low <=> ~s[j - 1].low)

Stream == heard \o ring

(* The invariant of the stream: without a loss the next byte continues it. *)
InTurn ==
  /\ Alternates(Stream)
  /\ ~gap /\ Stream # <<>> => (Stream[Len(Stream)].low <=> count % 2 = 1)

(* A step that leaves the stream alone. *)
LEMMA SameStream ==
  ASSUME InTurn, Stream' = Stream, gap' \/ (gap' = gap /\ count' = count)
  PROVE  InTurn'
<1>1. Alternates(Stream)'
  BY DEF InTurn, Alternates
<1>2. (~gap /\ Stream # <<>> => (Stream[Len(Stream)].low <=> count % 2 = 1))'
  BY DEF InTurn
<1> QED
  BY <1>1, <1>2 DEF InTurn

(* Every step keeps it. *)
LEMMA InTurnStep ==
  ASSUME TypeOK, InTurn, Next
  PROVE  InTurn'
<1>0. heard \in Seq(HostByte) /\ ring \in Seq(HostByte) /\ Stream \in Seq(HostByte)
      /\ count \in Nat /\ gap \in BOOLEAN
  <2>1. heard \in Seq(HostByte) /\ ring \in Seq(HostByte) /\ count \in Nat /\ gap \in BOOLEAN
    BY Params DEF TypeOK
  <2> QED
    BY <2>1, ConcatProperties DEF Stream
<1>1. CASE Read
  <2>1. PICK n \in 1 .. Len(ring) :
          /\ heard' = heard \o SubSeq(ring, 1, n)
          /\ ring' = SubSeq(ring, n + 1, Len(ring))
    BY <1>1 DEF Read
  <2> DEFINE a == SubSeq(ring, 1, n)
             b == SubSeq(ring, n + 1, Len(ring))
  <2>2. a \in Seq(HostByte) /\ b \in Seq(HostByte) /\ a \o b = ring
    BY <1>0, CutInTwo
  <2> HIDE DEF a, b
  <2>3. \A x, y, z \in Seq(HostByte) : (x \o y) \o z = x \o (y \o z)
    BY ConcatAssociative, SMTT(30)
  <2>4. (heard \o a) \o b = heard \o (a \o b)
    BY <1>0, <2>2, <2>3, ZenonT(60)
  <2>5. Stream' = Stream
    BY <2>1, <2>2, <2>4 DEF Stream, a, b
  <2>6. gap' = gap /\ count' = count
    BY <1>1 DEF Read
  <2> QED
    BY <2>5, <2>6, SameStream
<1>2. CASE WriteWord
  <2>1. Stream' = Stream /\ gap' = gap /\ count' = count
    BY <1>2 DEF WriteWord, Stream
  <2> QED
    BY <2>1, SameStream
<1>3. CASE Lose
  <2>1. Stream' = Stream /\ gap' = TRUE
    BY <1>3 DEF Lose, Stream
  <2> QED
    BY <2>1, SameStream
<1>4. ASSUME NEW v \in Values, Send(v) PROVE InTurn'
  <2> DEFINE b == [v |-> v, low |-> count % 2 = 0, gap |-> gap]
             L == Len(Stream)
             s == Stream'
  <2>1. b \in HostByte
    BY <1>0 DEF HostByte
  <2>2. s = Append(Stream, b)
    <3>1. heard' = heard /\ ring' = Append(ring, b)
      BY <1>4 DEF Send
    <3> HIDE DEF b
    <3>2. /\ Append(ring, b) = ring \o <<b>> /\ <<b>> \in Seq(HostByte)
          /\ Append(Stream, b) = Stream \o <<b>>
      BY <1>0, <2>1, AppendIsConcat
    <3>3. \A x, y, z \in Seq(HostByte) : (x \o y) \o z = x \o (y \o z)
      BY ConcatAssociative
    <3>4. (heard \o ring) \o <<b>> = heard \o (ring \o <<b>>)
      BY <1>0, <3>2, <3>3, Zenon
    <3> QED
      BY <3>1, <3>2, <3>4 DEF Stream
  <2>3. b.v = v /\ b.gap = gap /\ (b.low <=> count % 2 = 0)
    OBVIOUS
  <2> HIDE DEF b
  <2>4. /\ Len(s) = L + 1 /\ s[L + 1] = b /\ L \in Nat
        /\ \A j \in 1 .. L : s[j] = Stream[j]
    BY <1>0, <2>1, <2>2, AppendProperties
  <2> HIDE DEF s, L
  <2>5. count' = count + 1 /\ (count % 2 = 1 => v <= 1) /\ gap' = FALSE
    BY <1>4 DEF Send
  <2>6. (count % 2 = 0 \/ count % 2 = 1) /\ ((count + 1) % 2 = 1 <=> count % 2 = 0)
    BY <1>0
  <2>7. \A j \in 1 .. Len(s) : ~s[j].low => s[j].v <= 1
    <3> SUFFICES ASSUME NEW j \in 1 .. L + 1, ~s[j].low PROVE s[j].v <= 1
      BY <2>4
    <3>1. CASE j = L + 1
      BY <2>3, <2>4, <2>5, <2>6, <3>1
    <3>2. CASE j \in 1 .. L
      BY <2>4, <3>2 DEF InTurn, Alternates, L
    <3> QED
      BY <2>4, <3>1, <3>2
  <2>8. \A j \in 2 .. Len(s) : ~s[j].gap => (s[j].low <=> ~s[j - 1].low)
    <3> SUFFICES ASSUME NEW j \in 2 .. L + 1, ~s[j].gap PROVE s[j].low <=> ~s[j - 1].low
      BY <2>4
    <3>1. CASE j = L + 1
      <4>1. L \in 1 .. L /\ j - 1 = L /\ L # 0
        BY <2>4, <3>1
      <4>2. s[j] = b /\ s[j - 1] = Stream[L]
        BY <2>4, <3>1, <4>1
      <4>3. ~gap /\ Stream # <<>>
        <5>1. Stream # <<>>
          BY <4>1 DEF L
        <5> QED
          BY <2>3, <4>2, <5>1
      <4>4. Stream[L].low <=> count % 2 = 1
        BY <4>3 DEF InTurn, L
      <4> QED
        BY <2>3, <2>6, <4>2, <4>4
    <3>2. CASE j \in 2 .. L
      <4>1. j \in 1 .. L /\ j - 1 \in 1 .. L
        BY <2>4, <3>2
      <4>2. s[j] = Stream[j] /\ s[j - 1] = Stream[j - 1]
        BY <2>4, <4>1
      <4> QED
        BY <3>2, <4>2 DEF InTurn, Alternates, L
    <3> QED
      BY <2>4, <3>1, <3>2
  <2>9. s[Len(s)].low <=> count' % 2 = 1
    BY <2>3, <2>4, <2>5, <2>6
  <2>10. Alternates(s)
    BY <2>7, <2>8 DEF Alternates
  <2> QED
    BY <2>9, <2>10 DEF InTurn, s, Alternates
<1> QED
  BY <1>1, <1>2, <1>3, <1>4 DEF Next

(* The stream is in turn in every behaviour. *)
LEMMA AlwaysInTurn == Spec => []InTurn
<1>1. Init => InTurn
  <2> SUFFICES ASSUME Init PROVE InTurn
    OBVIOUS
  <2>1. Stream = <<>>
    BY DEF Init, Stream
  <2> QED
    BY <2>1 DEF InTurn, Alternates
<1>2. Safe /\ InTurn /\ [Next]_vars => InTurn'
  <2> SUFFICES ASSUME Safe, InTurn, [Next]_vars PROVE InTurn'
    OBVIOUS
  <2>1. CASE Next
    BY <2>1, InTurnStep DEF Safe
  <2>2. CASE UNCHANGED vars
    <3>1. Stream' = Stream /\ gap' = gap /\ count' = count
      BY <2>2 DEF vars, Stream
    <3> QED
      BY <3>1, SameStream
  <2> QED
    BY <2>1, <2>2
<1> QED
  BY <1>1, <1>2, Invariance, PTL DEF Spec

-----------------------------------------------------------------------------
(* The decoder finds its step. *)

(* What the reference has when it has paired m words since the low byte at *)
(* place i, and has its c words from before: the next low byte is pending. *)
Aligned(f, s, i, c, m) ==
  /\ s[i + 2 * m].low
  /\ f[i + 2 * m].pending = <<s[i + 2 * m].v>>
  /\ Len(f[i + 2 * m].output) = c + m
  /\ \A k \in 1 .. m : f[i + 2 * m].output[c + k]
                         = NineBit(s[i + 2 * k - 2].v, s[i + 2 * k - 1].v)

(* And when it has met the bit 8 of that byte too. *)
Met(f, s, i, c, m) ==
  /\ ~s[i + 2 * m + 1].low
  /\ f[i + 2 * m + 1].pending = <<>>
  /\ Len(f[i + 2 * m + 1].output) = c + m + 1
  /\ \A k \in 1 .. m + 1 : f[i + 2 * m + 1].output[c + k]
                             = NineBit(s[i + 2 * k - 2].v, s[i + 2 * k - 1].v)

(* After a low byte comes its bit 8. *)
LEMMA ThenMet ==
  ASSUME NEW s \in Seq(HostByte), NEW f, Runs(f, ValuesOf(s)), Alternates(s),
         NEW i \in 1 .. Len(s), NEW c \in Nat, NEW m \in Nat, Aligned(f, s, i, c, m),
         i + 2 * m + 1 <= Len(s), ~s[i + 2 * m + 1].gap
  PROVE  Met(f, s, i, c, m)
<1> DEFINE a == i + 2 * m
           w == ValuesOf(s)
           L == Len(s)
<1>0. /\ L \in Nat /\ a \in Nat /\ a \in 0 .. L /\ a + 1 \in 1 .. L /\ a + 1 \in 2 .. L
      /\ a \in 1 .. L /\ (a + 1) - 1 = a /\ a + 1 = i + 2 * m + 1
  OBVIOUS
<1>1. Len(w) = L /\ \A j \in 1 .. L : w[j] = s[j].v
  BY ValuesType
<1>2. ~s[a + 1].gap /\ s[a].low /\ f[a].pending = <<s[a].v>> /\ Len(f[a].output) = c + m
      /\ \A k \in 1 .. m : f[a].output[c + k] = NineBit(s[i + 2 * k - 2].v, s[i + 2 * k - 1].v)
  BY <1>0 DEF Aligned
<1>3. s[a].v \in Values /\ s[a + 1].v \in Values
  <2>1. s[a] \in HostByte /\ s[a + 1] \in HostByte
    BY <1>0, ElementOfSeq
  <2> QED
    BY <2>1 DEF HostByte
<1> HIDE DEF a, w
<1>4. ~s[a + 1].low /\ s[a + 1].v <= 1
  <2>1. s[a + 1].low <=> ~s[(a + 1) - 1].low
    BY <1>0, <1>2 DEF Alternates
  <2>2. ~s[a + 1].low
    BY <1>0, <1>2, <2>1
  <2> QED
    BY <1>0, <2>2 DEF Alternates
<1>5. f[a] \in Pairs /\ f[a].output \in Seq(Word)
  BY <1>0, <1>1 DEF Runs, w, Pairs
<1> DEFINE x == NineBit(s[a].v, s[a + 1].v)
<1>6. x \in Word
  BY <1>3, <1>4, NineBitType
<1>7. f[a + 1] = [pending |-> <<>>, output |-> Append(f[a].output, x)]
  <2>1. f[a + 1] = Add(f[a], s[a + 1].v)
    <3>1. f[a + 1] = Add(f[(a + 1) - 1], w[a + 1])
      BY <1>0, <1>1 DEF Runs, w
    <3> QED
      BY <1>0, <1>1, <3>1
  <2>2. f[a].pending # <<>> /\ f[a].pending[1] = s[a].v
    BY <1>2, <1>3, PendingIs
  <2>3. ~(s[a + 1].v > 1)
    BY <1>3, <1>4, Params DEF Values
  <2> QED
    BY <2>1, <2>2, <2>3 DEF Add
<1> HIDE DEF x
<1> DEFINE o == f[a + 1].output
<1>8. /\ Len(o) = c + m + 1 /\ o[c + m + 1] = x
      /\ \A j \in 1 .. c + m : o[j] = f[a].output[j]
  <2>1. o = Append(f[a].output, x)
    BY <1>7
  <2>2. /\ Len(o) = Len(f[a].output) + 1 /\ o[Len(f[a].output) + 1] = x
        /\ \A j \in 1 .. Len(f[a].output) : o[j] = f[a].output[j]
    BY <1>5, <1>6, <2>1, AppendProperties
  <2> QED
    BY <1>2, <2>2
<1> HIDE DEF o
<1>9. ASSUME NEW k \in 1 .. m + 1
      PROVE  o[c + k] = NineBit(s[i + 2 * k - 2].v, s[i + 2 * k - 1].v)
  <2>1. CASE k \in 1 .. m
    <3>1. c + k \in 1 .. c + m
      BY <2>1
    <3> QED
      BY <1>2, <1>8, <2>1, <3>1
  <2>2. CASE k = m + 1
    <3>1. i + 2 * k - 2 = a /\ i + 2 * k - 1 = a + 1 /\ c + k = c + m + 1
      BY <2>2 DEF a
    <3> QED
      BY <1>8, <3>1 DEF x
  <2>3. k \in 1 .. m \/ k = m + 1
    OBVIOUS
  <2> QED
    BY <2>1, <2>2, <2>3
<1>10. f[a + 1].pending = <<>>
  BY <1>7
<1> QED
  BY <1>0, <1>4, <1>8, <1>9, <1>10 DEF Met, o

(* And after its bit 8 the next low byte. *)
LEMMA ThenAligned ==
  ASSUME NEW s \in Seq(HostByte), NEW f, Runs(f, ValuesOf(s)), Alternates(s),
         NEW i \in 1 .. Len(s), NEW c \in Nat, NEW m \in Nat, Met(f, s, i, c, m),
         i + 2 * m + 2 <= Len(s), ~s[i + 2 * m + 2].gap
  PROVE  Aligned(f, s, i, c, m + 1)
<1> DEFINE a == i + 2 * m + 1
           w == ValuesOf(s)
           L == Len(s)
<1>0. /\ L \in Nat /\ a \in Nat /\ a + 1 \in 1 .. L /\ a + 1 \in 2 .. L
      /\ (a + 1) - 1 = a /\ a + 1 = i + 2 * m + 2 /\ a + 1 = i + 2 * (m + 1)
      /\ c + (m + 1) = c + m + 1
  OBVIOUS
<1>1. Len(w) = L /\ \A j \in 1 .. L : w[j] = s[j].v
  BY ValuesType
<1>2. /\ ~s[a + 1].gap /\ ~s[a].low /\ f[a].pending = <<>> /\ Len(f[a].output) = c + m + 1
      /\ \A k \in 1 .. m + 1 : f[a].output[c + k]
                                 = NineBit(s[i + 2 * k - 2].v, s[i + 2 * k - 1].v)
  BY <1>0 DEF Met
<1> HIDE DEF a, w
<1>3. s[a + 1].low
  <2>1. s[a + 1].low <=> ~s[(a + 1) - 1].low
    BY <1>0, <1>2 DEF Alternates
  <2> QED
    BY <1>0, <1>2, <2>1
<1>4. f[a + 1] = [pending |-> <<s[a + 1].v>>, output |-> f[a].output]
  <2>1. f[a + 1] = Add(f[(a + 1) - 1], w[a + 1])
    BY <1>0, <1>1 DEF Runs, w
  <2>2. f[a + 1] = Add(f[a], s[a + 1].v)
    BY <1>0, <1>1, <2>1
  <2> QED
    BY <1>2, <2>2 DEF Add
<1>5. f[a + 1].pending = <<s[a + 1].v>> /\ f[a + 1].output = f[a].output
  BY <1>4
<1> QED
  BY <1>0, <1>2, <1>3, <1>5 DEF Aligned

(* In turn, from a low byte that cannot be a bit 8 on, as long as no byte  *)
(* is lost, the reference pairs the bytes of the host's words.             *)
LEMMA StaysAligned ==
  ASSUME NEW s \in Seq(HostByte), NEW f, Runs(f, ValuesOf(s)), Alternates(s),
         NEW i \in 1 .. Len(s), s[i].low, s[i].v > 1,
         \A j \in i + 1 .. Len(s) : ~s[j].gap
  PROVE  \E c \in Nat : \A m \in Nat :
           /\ i + 2 * m <= Len(s) => Aligned(f, s, i, c, m)
           /\ i + 2 * m + 1 <= Len(s) => Met(f, s, i, c, m)
<1> DEFINE w == ValuesOf(s)
           L == Len(s)
           c == Len(f[i].output)
<1>0. L \in Nat /\ i \in Nat /\ i \in 1 .. L /\ i - 1 \in 0 .. L /\ i \in 0 .. L
  OBVIOUS
<1>1. Len(w) = L /\ w[i] = s[i].v
  BY ValuesType
<1>2. f[i] = [pending |-> <<s[i].v>>, output |-> f[i - 1].output] /\ f[i] \in Pairs
  <2>1. f[i] = Add(f[i - 1], s[i].v) /\ f[i] \in Pairs
    BY <1>0, <1>1 DEF Runs
  <2> QED
    BY <2>1 DEF Add
<1>3. c \in Nat
  <2>1. f[i].output \in Seq(Word)
    BY <1>2 DEF Pairs
  <2> QED
    BY <2>1
<1>4. Aligned(f, s, i, c, 0)
  <2>1. i + 2 * 0 = i /\ c + 0 = c
    BY <1>0, <1>3
  <2>2. f[i].pending = <<s[i].v>>
    BY <1>2
  <2> HIDE DEF c
  <2>3. Len(f[i].output) = c
    BY DEF c
  <2> QED
    BY <2>1, <2>2, <2>3 DEF Aligned
<1> HIDE DEF c
<1> DEFINE T == {m \in Nat : i + 2 * m <= L => Aligned(f, s, i, c, m)}
<1>5. ASSUME NEW m \in Nat, i + 2 * m + 1 <= L, Aligned(f, s, i, c, m)
      PROVE  Met(f, s, i, c, m)
  <2>1. i + 2 * m + 1 \in i + 1 .. Len(s)
    BY <1>0, <1>5
  <2> QED
    BY <1>3, <1>5, <2>1, ThenMet
<1>6. ASSUME NEW m \in Nat, m \in T PROVE m + 1 \in T
  <2> SUFFICES ASSUME i + 2 * (m + 1) <= L PROVE Aligned(f, s, i, c, m + 1)
    OBVIOUS
  <2>1. i + 2 * m <= L /\ i + 2 * m + 1 <= L /\ i + 2 * m + 2 <= Len(s)
        /\ i + 2 * m + 2 \in i + 1 .. Len(s)
    BY <1>0
  <2>2. Met(f, s, i, c, m)
    BY <1>5, <1>6, <2>1
  <2> QED
    BY <1>3, <2>1, <2>2, ThenAligned
<1>7. Nat \subseteq T
  <2>1. 0 \in T
    BY <1>4
  <2> HIDE DEF T
  <2> QED
    BY <1>6, <2>1, NatSet
<1>8. ASSUME NEW m \in Nat
      PROVE  /\ i + 2 * m <= Len(s) => Aligned(f, s, i, c, m)
             /\ i + 2 * m + 1 <= Len(s) => Met(f, s, i, c, m)
  <2>1. i + 2 * m <= Len(s) => Aligned(f, s, i, c, m)
    BY <1>7
  <2>2. i + 2 * m + 1 <= Len(s) => i + 2 * m <= Len(s)
    BY <1>0
  <2> QED
    BY <1>5, <2>1, <2>2
<1> QED
  BY <1>3, <1>8

(* So does the decoder. *)
LEMMA FindsStep ==
  ASSUME Safe, InTurn
  PROVE  Realigned
<1>0. /\ heard \in Seq(HostByte) /\ ring \in Seq(HostByte) /\ DOMAIN heard = 1 .. Len(heard)
      /\ Len(heard) \in Nat
  BY DEF Safe, TypeOK
<1>1. Alternates(heard)
  <2>1. /\ Len(heard) <= Len(Stream) /\ Len(Stream) \in Nat
        /\ \A j \in 1 .. Len(heard) : Stream[j] = heard[j]
    <3>1. /\ Len(heard \o ring) = Len(heard) + Len(ring) /\ Len(ring) \in Nat
          /\ \A j \in 1 .. Len(heard) + Len(ring) :
               (heard \o ring)[j] = IF j <= Len(heard) THEN heard[j] ELSE ring[j - Len(heard)]
      BY <1>0, ConcatProperties
    <3> QED
      BY <1>0, <3>1 DEF Stream
  <2>2. \A j \in 1 .. Len(heard) : ~heard[j].low => heard[j].v <= 1
    <3> SUFFICES ASSUME NEW j \in 1 .. Len(heard) PROVE ~heard[j].low => heard[j].v <= 1
      OBVIOUS
    <3>1. j \in 1 .. Len(Stream) /\ Stream[j] = heard[j]
      BY <1>0, <2>1
    <3> QED
      BY <3>1 DEF InTurn, Alternates
  <2>3. \A j \in 2 .. Len(heard) : ~heard[j].gap => (heard[j].low <=> ~heard[j - 1].low)
    <3> SUFFICES ASSUME NEW j \in 2 .. Len(heard)
                 PROVE  ~heard[j].gap => (heard[j].low <=> ~heard[j - 1].low)
      OBVIOUS
    <3>1. j \in 2 .. Len(Stream) /\ Stream[j] = heard[j] /\ Stream[j - 1] = heard[j - 1]
      <4>1. j \in 1 .. Len(heard) /\ j - 1 \in 1 .. Len(heard) /\ j \in 2 .. Len(Stream)
        BY <1>0, <2>1
      <4> QED
        BY <2>1, <4>1
    <3> QED
      BY <3>1 DEF InTurn, Alternates
  <2> QED
    BY <2>2, <2>3 DEF Alternates
<1> SUFFICES ASSUME NEW i \in 1 .. Len(heard), heard[i].low, heard[i].v > 1,
                    \A j \in i + 1 .. Len(heard) : ~heard[j].gap
             PROVE  LET n == (Len(heard) - i + 1) \div 2
                        all == out \o words
                    IN  /\ pending = IF heard[Len(heard)].low THEN <<heard[Len(heard)].v>> ELSE <<>>
                        /\ n <= Len(all)
                        /\ \A k \in 1 .. n : all[Len(all) - n + k]
                             = NineBit(heard[i + 2 * k - 2].v, heard[i + 2 * k - 1].v)
  BY <1>0 DEF Realigned
<1> DEFINE L == Len(heard)
           n == (L - i + 1) \div 2
           all == out \o words
           w == ValuesOf(heard)
<1>2. w \in Seq(Values) /\ Len(w) = L
  BY <1>0, ValuesType
<1>3. PICK f : Runs(f, w) /\ Paired(w) = f[Len(w)]
  BY <1>2, PairedRuns
<1>4. pending = f[L].pending /\ all = f[L].output
  <2> HIDE DEF w, all
  <2> QED
    BY <1>2, <1>3 DEF Safe, ChunksInvisible, w, all
<1>5. PICK c \in Nat : \A m \in Nat :
        /\ i + 2 * m <= L => Aligned(f, heard, i, c, m)
        /\ i + 2 * m + 1 <= L => Met(f, heard, i, c, m)
  BY <1>0, <1>1, <1>3, StaysAligned
<1>6. \E m \in Nat : \/ L = i + 2 * m /\ n = m
                     \/ L = i + 2 * m + 1 /\ n = m + 1
  <2> DEFINE q == L - i
  <2>1. q \in Nat /\ L = i + q /\ i \in Nat /\ n = (q + 1) \div 2
    BY <1>0
  <2> HIDE DEF q
  <2>2. q \div 2 \in Nat
    BY <2>1
  <2>3. \/ q = 2 * (q \div 2) /\ (q + 1) \div 2 = q \div 2
        \/ q = 2 * (q \div 2) + 1 /\ (q + 1) \div 2 = q \div 2 + 1
    BY <2>1
  <2> HIDE DEF L, n
  <2> QED
    BY <2>1, <2>2, <2>3
<1> HIDE DEF L, n, w, all
<1>7. PICK m \in Nat : \/ L = i + 2 * m /\ n = m
                       \/ L = i + 2 * m + 1 /\ n = m + 1
  BY <1>6
<1>8. n \in Nat /\ Len(all) = c + n
  <2>1. CASE L = i + 2 * m /\ n = m
    <3>1. Aligned(f, heard, i, c, m)
      BY <1>0, <1>5, <2>1 DEF L
    <3> QED
      BY <1>4, <2>1, <3>1 DEF Aligned
  <2>2. CASE L = i + 2 * m + 1 /\ n = m + 1
    <3>1. Met(f, heard, i, c, m)
      BY <1>0, <1>5, <2>2 DEF L
    <3>2. c + m + 1 = c + (m + 1)
      OBVIOUS
    <3> QED
      BY <1>4, <2>2, <3>1, <3>2 DEF Met
  <2> QED
    BY <1>7, <2>1, <2>2
<1>9. \A k \in 1 .. n : all[c + k] = NineBit(heard[i + 2 * k - 2].v, heard[i + 2 * k - 1].v)
  <2>1. CASE L = i + 2 * m /\ n = m
    <3>1. Aligned(f, heard, i, c, m)
      BY <1>0, <1>5, <2>1 DEF L
    <3> QED
      BY <1>4, <2>1, <3>1 DEF Aligned
  <2>2. CASE L = i + 2 * m + 1 /\ n = m + 1
    <3>1. Met(f, heard, i, c, m)
      BY <1>0, <1>5, <2>2 DEF L
    <3> QED
      BY <1>4, <2>2, <3>1 DEF Met
  <2> QED
    BY <1>7, <2>1, <2>2
<1>10. pending = IF heard[L].low THEN <<heard[L].v>> ELSE <<>>
  <2>1. CASE L = i + 2 * m /\ n = m
    <3>1. Aligned(f, heard, i, c, m)
      BY <1>0, <1>5, <2>1 DEF L
    <3> QED
      BY <1>4, <2>1, <3>1 DEF Aligned
  <2>2. CASE L = i + 2 * m + 1 /\ n = m + 1
    <3>1. Met(f, heard, i, c, m)
      BY <1>0, <1>5, <2>2 DEF L
    <3> QED
      BY <1>4, <2>2, <3>1 DEF Met
  <2> QED
    BY <1>7, <2>1, <2>2
<1>11. n <= Len(all) /\ \A k \in 1 .. n : Len(all) - n + k = c + k
  BY <1>8
<1> QED
  BY <1>9, <1>10, <1>11 DEF L, n, all

(* What the comment on decode() promises, for every number of byte values, *)
(* every length of buffers and any number of losses before: from a low     *)
(* byte on that cannot be a bit 8 the words that come out are the words    *)
(* that the host sends, until a byte is lost.                              *)
THEOREM StepIsFound == Spec => []Realigned
<1>1. Safe /\ InTurn => Realigned
  BY FindsStep
<1> QED
  BY <1>1, Invariance, AlwaysInTurn, PTL
=============================================================================
