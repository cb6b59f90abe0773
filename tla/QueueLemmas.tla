----------------------------- MODULE QueueLemmas -----------------------------
(***************************************************************************)
(* Lemmas about sequences as the channels, queues and lines of requests of *)
(* the other modules use them: what Append and Tail do at each place and   *)
(* to the range, and sequences put together and taken apart.               *)
(***************************************************************************)
EXTENDS SequenceTheorems, TLAPS

(* At each place.                                                            *)
LEMMA AppendAt ==
  ASSUME NEW S, NEW q \in Seq(S), NEW e \in S
  PROVE  /\ Append(q, e) \in Seq(S) /\ Len(q) \in Nat /\ Len(Append(q, e)) = Len(q) + 1
         /\ \A i \in 1 .. Len(q) : Append(q, e)[i] = q[i]
         /\ Append(q, e)[Len(q) + 1] = e
         /\ \A i \in 1 .. Len(Append(q, e)) : i \in 1 .. Len(q) \/ i = Len(q) + 1
<1>1. /\ Append(q, e) \in Seq(S) /\ Len(q) \in Nat /\ Len(Append(q, e)) = Len(q) + 1
      /\ \A i \in 1 .. Len(q) : Append(q, e)[i] = q[i]
      /\ Append(q, e)[Len(q) + 1] = e
  BY AppendProperties, LenProperties
<1> QED
  BY <1>1

LEMMA TailAt ==
  ASSUME NEW S, NEW q \in Seq(S), q # <<>>
  PROVE  /\ Tail(q) \in Seq(S) /\ Len(q) \in Nat \ {0} /\ Len(Tail(q)) = Len(q) - 1
         /\ Head(q) = q[1] /\ Head(q) \in S /\ 1 \in 1 .. Len(q)
         /\ \A i \in 1 .. Len(Tail(q)) : i + 1 \in 1 .. Len(q) /\ Tail(q)[i] = q[i + 1]
<1>1. /\ Tail(q) \in Seq(S) /\ Len(q) \in Nat \ {0} /\ Len(Tail(q)) = Len(q) - 1
      /\ Head(q) \in S /\ \A i \in 1 .. Len(Tail(q)) : Tail(q)[i] = q[i + 1]
  BY HeadTailProperties, EmptySeq
<1> QED
  BY <1>1

LEMMA SeqMonotone ==
  ASSUME NEW S, NEW T, S \subseteq T, NEW q \in Seq(S)
  PROVE  q \in Seq(T)
<1>1. q \in [1 .. Len(q) -> S] /\ Len(q) \in Nat /\ \A i \in 1 .. Len(q) : q[i] \in S
  BY LenProperties, ElementOfSeq
<1>2. q \in [1 .. Len(q) -> T]
  BY <1>1
<1> QED
  BY <1>1, <1>2

(* The first n, and what is left.                                            *)
LEMMA TakeFirst ==
  ASSUME NEW S, NEW q \in Seq(S), NEW n \in Nat \ {0}, n <= Len(q)
  PROVE  /\ SubSeq(q, 1, n) \in Seq(S) /\ Len(SubSeq(q, 1, n)) = n
         /\ \A i \in 1 .. n : SubSeq(q, 1, n)[i] = q[i] /\ SubSeq(q, 1, n)[i] \in S
         /\ SubSeq(q, n + 1, Len(q)) \in Seq(S)
         /\ Len(SubSeq(q, n + 1, Len(q))) = Len(q) - n
<1>1. Len(q) \in Nat /\ \A i \in 1 .. Len(q) : q[i] \in S
  BY LenProperties, ElementOfSeq
<1>2. \A i \in 1 .. n : q[i] \in S
  BY <1>1
<1>3. \A i \in n + 1 .. Len(q) : q[i] \in S
  BY <1>1
<1>4. /\ SubSeq(q, 1, n) \in Seq(S) /\ Len(SubSeq(q, 1, n)) = n
      /\ \A i \in 1 .. n : SubSeq(q, 1, n)[i] = q[i]
  <2>1. /\ SubSeq(q, 1, n) \in Seq(S)
        /\ Len(SubSeq(q, 1, n)) = IF 1 <= n THEN n - 1 + 1 ELSE 0
        /\ \A i \in 1 .. n - 1 + 1 : SubSeq(q, 1, n)[i] = q[1 + i - 1]
    BY <1>2, SubSeqProperties
  <2> QED
    BY <2>1
<1>5. /\ SubSeq(q, n + 1, Len(q)) \in Seq(S)
      /\ Len(SubSeq(q, n + 1, Len(q))) = Len(q) - n
  <2>1. n + 1 \in Int /\ Len(q) \in Int
    BY <1>1
  <2>2. /\ SubSeq(q, n + 1, Len(q)) \in Seq(S)
        /\ Len(SubSeq(q, n + 1, Len(q))) = IF n + 1 <= Len(q) THEN Len(q) - (n + 1) + 1 ELSE 0
    BY <1>3, <2>1, SubSeqProperties
  <2> QED
    BY <1>1, <2>2
<1> QED
  BY <1>2, <1>4, <1>5

(* The range, and queues without repetition.                                 *)
LEMMA QueueAppend ==
  ASSUME NEW S, NEW q \in Seq(S), NEW e \in S
  PROVE  /\ Range(Append(q, e)) = Range(q) \union {e}
         /\ IsInjective(q) /\ e \notin Range(q) => IsInjective(Append(q, e))
<1> DEFINE r == Append(q, e)
<1>1. /\ r \in Seq(S) /\ Len(r) = Len(q) + 1 /\ r[Len(q) + 1] = e
      /\ \A i \in 1 .. Len(q) : r[i] = q[i]
      /\ Len(q) \in Nat
  BY AppendProperties, LenProperties
<1>2. Range(r) = {r[i] : i \in 1 .. Len(r)} /\ Range(q) = {q[i] : i \in 1 .. Len(q)}
  BY <1>1, RangeEquality
<1>3. DOMAIN r = 1 .. Len(r) /\ DOMAIN q = 1 .. Len(q)
  BY <1>1, LenProperties
<1> HIDE DEF r
<1>4. 1 .. Len(r) = (1 .. Len(q)) \union {Len(q) + 1}
  BY <1>1
<1>5. Range(r) = Range(q) \union {e}
  BY <1>1, <1>2, <1>4
<1>6. ASSUME IsInjective(q), e \notin Range(q) PROVE IsInjective(r)
  <2> SUFFICES ASSUME NEW i \in 1 .. Len(r), NEW j \in 1 .. Len(r), r[i] = r[j] PROVE i = j
    BY <1>3 DEF IsInjective
  <2>1. CASE i \in 1 .. Len(q) /\ j \in 1 .. Len(q)
    BY <2>1, <1>1, <1>3, <1>6 DEF IsInjective
  <2>2. CASE i = Len(q) + 1 /\ j = Len(q) + 1
    BY <2>2
  <2>3. CASE i \in 1 .. Len(q) /\ j = Len(q) + 1
    BY <2>3, <1>1, <1>2, <1>6
  <2>4. CASE i = Len(q) + 1 /\ j \in 1 .. Len(q)
    BY <2>4, <1>1, <1>2, <1>6
  <2> QED
    BY <2>1, <2>2, <2>3, <2>4, <1>4
<1> QED
  BY <1>5, <1>6 DEF r

LEMMA QueueTail ==
  ASSUME NEW S, NEW q \in Seq(S), q # <<>>
  PROVE  /\ Range(q) = {Head(q)} \union Range(Tail(q))
         /\ IsInjective(q) => IsInjective(Tail(q)) /\ Head(q) \notin Range(Tail(q))
<1> DEFINE r == Tail(q)
<1>1. /\ r \in Seq(S) /\ Len(r) = Len(q) - 1
      /\ \A i \in 1 .. Len(r) : r[i] = q[i + 1]
      /\ Len(q) \in Nat \ {0} /\ Head(q) = q[1]
  BY HeadTailProperties, LenProperties, EmptySeq
<1>2. Range(r) = {r[i] : i \in 1 .. Len(r)} /\ Range(q) = {q[i] : i \in 1 .. Len(q)}
  BY <1>1, RangeEquality
<1>3. DOMAIN r = 1 .. Len(r) /\ DOMAIN q = 1 .. Len(q)
  BY <1>1, LenProperties
<1> HIDE DEF r
<1>4. \A i \in 1 .. Len(q) : i = 1 \/ (i - 1 \in 1 .. Len(r) /\ q[i] = r[i - 1])
  BY <1>1
<1>5. \A i \in 1 .. Len(r) : i + 1 \in 1 .. Len(q) /\ i + 1 # 1
  BY <1>1
<1>6. 1 \in 1 .. Len(q)
  BY <1>1
<1>7. Range(q) = {q[1]} \union Range(r)
  BY <1>1, <1>2, <1>4, <1>5, <1>6
<1>8. ASSUME IsInjective(q) PROVE IsInjective(r) /\ q[1] \notin Range(r)
  <2>1. \A i, j \in 1 .. Len(q) : q[i] = q[j] => i = j
    BY <1>3, <1>8 DEF IsInjective
  <2>2. q[1] \notin Range(r)
    BY <2>1, <1>1, <1>2, <1>5, <1>6
  <2>3. \A i, j \in 1 .. Len(r) : r[i] = r[j] => i + 1 = j + 1
    BY <2>1, <1>1, <1>5
  <2>4. \A i, j \in 1 .. Len(r) : r[i] = r[j] => i = j
    BY <2>3
  <2> QED
    BY <2>2, <2>4, <1>3 DEF IsInjective
<1> QED
  BY <1>1, <1>7, <1>8 DEF r

(* Sequences put together and taken apart.                                   *)

LEMMA HeadThenTail ==
  ASSUME NEW S, NEW q \in Seq(S), q # <<>>
  PROVE  /\ <<Head(q)>> \o Tail(q) = q
         /\ <<Head(q)>> \in Seq(S) /\ Tail(q) \in Seq(S) /\ Head(q) \in S
         /\ Head(q) = q[1] /\ Len(q) \in Nat \ {0}
<1> DEFINE h == <<Head(q)>>
<1>1. /\ Tail(q) \in Seq(S) /\ Len(Tail(q)) = Len(q) - 1 /\ Head(q) \in S
      /\ \A i \in 1 .. Len(q) - 1 : Tail(q)[i] = q[i + 1]
      /\ Len(q) \in Nat \ {0}
  BY HeadTailProperties, EmptySeq
<1>2. h \in Seq(S) /\ Len(h) = 1 /\ h[1] = q[1] /\ Head(q) = q[1]
  BY <1>1
<1> HIDE DEF h
<1>6. Len(h) + Len(Tail(q)) = Len(q)
  BY <1>1, <1>2
<1>3. /\ h \o Tail(q) \in Seq(S) /\ Len(h \o Tail(q)) = Len(q)
      /\ \A i \in 1 .. Len(q) : (h \o Tail(q))[i] = IF i <= 1 THEN h[i] ELSE Tail(q)[i - 1]
  <2>1. /\ h \o Tail(q) \in Seq(S) /\ Len(h \o Tail(q)) = Len(h) + Len(Tail(q))
        /\ \A i \in 1 .. Len(h) + Len(Tail(q)) :
             (h \o Tail(q))[i] = IF i <= Len(h) THEN h[i] ELSE Tail(q)[i - Len(h)]
    BY <1>1, <1>2, ConcatProperties
  <2> QED
    BY <1>2, <1>6, <2>1
<1>4. \A i \in 1 .. Len(q) : (h \o Tail(q))[i] = q[i]
  <2> TAKE i \in 1 .. Len(q)
  <2>1. CASE i = 1
    BY <1>2, <1>3, <2>1
  <2>2. CASE i # 1
    <3>1. i - 1 \in 1 .. Len(q) - 1 /\ ~(i <= 1) /\ (i - 1) + 1 = i
      BY <1>1, <2>2
    <3> QED
      BY <1>1, <1>3, <3>1
  <2> QED
    BY <2>1, <2>2
<1>5. h \o Tail(q) = q
  BY <1>3, <1>4, SeqEqual
<1> QED
  BY <1>1, <1>2, <1>5 DEF h

(* Moving the head of q to the end of p leaves p \o q as it is.              *)
LEMMA MoveHead ==
  ASSUME NEW S, NEW p \in Seq(S), NEW q \in Seq(S), q # <<>>
  PROVE  Append(p, Head(q)) \o Tail(q) = p \o q
<1>1. Append(p, Head(q)) = p \o <<Head(q)>>
  BY HeadThenTail, AppendIsConcat
<1> QED
  BY <1>1, HeadThenTail, ConcatAssociative

LEMMA TailOfConcat ==
  ASSUME NEW S, NEW p \in Seq(S), NEW q \in Seq(S), p # <<>>
  PROVE  p \o q # <<>> /\ Tail(p \o q) = Tail(p) \o q /\ Head(p \o q) = Head(p)
<1> DEFINE h == <<Head(p)>>  r == Tail(p) \o q
<1>1. h \in Seq(S) /\ Tail(p) \in Seq(S) /\ Len(h) = 1
  BY HeadThenTail
<1>2. r \in Seq(S)
  BY <1>1, ConcatProperties
<1>3. p \o q = h \o r
  BY <1>1, HeadThenTail, ConcatAssociative
<1> HIDE DEF h, r
<1>4. h \o r \in Seq(S) /\ Len(h \o r) = 1 + Len(r) /\ Len(r) \in Nat
      /\ \A i \in 1 .. 1 + Len(r) : (h \o r)[i] = IF i <= 1 THEN h[i] ELSE r[i - 1]
  <2>1. /\ h \o r \in Seq(S) /\ Len(h \o r) = Len(h) + Len(r)
        /\ \A i \in 1 .. Len(h) + Len(r) : (h \o r)[i] = IF i <= Len(h) THEN h[i] ELSE r[i - Len(h)]
    BY <1>1, <1>2, ConcatProperties
  <2> QED
    BY <1>1, <1>2, <2>1, LenProperties
<1>5. h \o r # <<>>
  BY <1>4, EmptySeq
<1>6. Tail(h \o r) = r
  <2>1. /\ Tail(h \o r) \in Seq(S) /\ Len(Tail(h \o r)) = Len(r)
        /\ \A i \in 1 .. Len(r) : Tail(h \o r)[i] = (h \o r)[i + 1]
    BY <1>4, <1>5, HeadTailProperties
  <2>2. \A i \in 1 .. Len(r) : (h \o r)[i + 1] = r[i]
    BY <1>4
  <2> QED
    BY <1>2, <2>1, <2>2, SeqEqual
<1>7. Head(h \o r) = h[1]
  BY <1>4, <1>5, HeadThenTail
<1> QED
  BY <1>3, <1>5, <1>6, <1>7 DEF h, r

LEMMA ConcatEnds ==
  ASSUME NEW S, NEW p \in Seq(S), NEW q \in Seq(S)
  PROVE  /\ p # <<>> => p \o q # <<>> /\ (p \o q)[1] = p[1]
         /\ q # <<>> => p \o q # <<>> /\ (p \o q)[Len(p \o q)] = q[Len(q)]
<1> DEFINE m == Len(p)  n == Len(q)  r == p \o q
<1>1. /\ m \in Nat /\ n \in Nat /\ r \in Seq(S) /\ Len(r) = m + n
      /\ \A i \in 1 .. m + n : r[i] = IF i <= m THEN p[i] ELSE q[i - m]
      /\ p = <<>> <=> m = 0
      /\ q = <<>> <=> n = 0
      /\ r = <<>> => Len(r) = 0
  BY ConcatProperties, LenProperties, EmptySeq
<1> HIDE DEF m, n, r
<1>2. ASSUME m # 0 PROVE r # <<>> /\ r[1] = p[1]
  <2>1. 1 \in 1 .. m + n /\ 1 <= m /\ m + n # 0
    BY <1>1, <1>2
  <2> QED
    BY <1>1, <2>1
<1>3. ASSUME n # 0 PROVE r # <<>> /\ r[m + n] = q[n]
  <2>1. m + n \in 1 .. m + n /\ ~(m + n <= m) /\ (m + n) - m = n /\ m + n # 0
    BY <1>1, <1>3
  <2> QED
    BY <1>1, <2>1
<1> QED
  BY <1>1, <1>2, <1>3 DEF m, n, r

=============================================================================
