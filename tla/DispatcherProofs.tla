--------------------------- MODULE DispatcherProofs ---------------------------
(* Theorems about Dispatcher, for any tasks, workers and bounds. *)
EXTENDS Dispatcher, SequenceTheorems, FiniteSetTheorems, TLAPS

(* First what the sequence operators of the queues do to who is in a      *)
(* queue, and that they keep a queue free of repetitions.                 *)

(* Appending what is not yet in a queue without repetitions. *)
LEMMA AppendToQueue ==
  ASSUME NEW S, NEW q \in Seq(S), NEW t \in S
  PROVE  /\ Append(q, t) \in Seq(S)
         /\ ToSet(Append(q, t)) = ToSet(q) \cup {t}
         /\ IsInjective(q) /\ t \notin ToSet(q) => IsInjective(Append(q, t))
<1>1. /\ Append(q, t) \in Seq(S)
      /\ Len(Append(q, t)) = Len(q) + 1
      /\ \A i \in 1..Len(q) : Append(q, t)[i] = q[i]
      /\ Append(q, t)[Len(q) + 1] = t
  BY AppendProperties
<1>2. /\ DOMAIN q = 1..Len(q) /\ Len(q) \in Nat
      /\ DOMAIN Append(q, t) = 1..(Len(q) + 1)
  BY <1>1, LenProperties
<1>3. ToSet(Append(q, t)) = ToSet(q) \cup {t}
  BY <1>1, <1>2 DEF ToSet
<1>4. IsInjective(q) /\ t \notin ToSet(q) => IsInjective(Append(q, t))
  BY <1>1, <1>2 DEF ToSet, IsInjective
<1>5. QED BY <1>1, <1>3, <1>4

(* Popping the head. *)
LEMMA PopFromQueue ==
  ASSUME NEW S, NEW q \in Seq(S), q # <<>>
  PROVE  /\ Head(q) \in S
         /\ Head(q) \in ToSet(q)
         /\ Tail(q) \in Seq(S)
         /\ ToSet(Tail(q)) \subseteq ToSet(q)
         /\ IsInjective(q) => /\ IsInjective(Tail(q))
                              /\ ToSet(Tail(q)) = ToSet(q) \ {Head(q)}
<1>1. /\ Head(q) \in S
      /\ Tail(q) \in Seq(S)
      /\ Len(Tail(q)) = Len(q) - 1
      /\ \A i \in 1..Len(Tail(q)) : Tail(q)[i] = q[i + 1]
      /\ Head(q) = q[1]
  BY HeadTailProperties
<1>2. /\ DOMAIN q = 1..Len(q) /\ Len(q) \in Nat /\ Len(q) > 0
      /\ DOMAIN Tail(q) = 1..(Len(q) - 1)
  BY <1>1, LenProperties, EmptySeq
<1>3. Head(q) \in ToSet(q) /\ ToSet(Tail(q)) \subseteq ToSet(q)
  BY <1>1, <1>2 DEF ToSet
<1>4. ASSUME IsInjective(q)
      PROVE  IsInjective(Tail(q)) /\ ToSet(Tail(q)) = ToSet(q) \ {Head(q)}
  <2>1. IsInjective(Tail(q))
    BY <1>1, <1>2, <1>4 DEF IsInjective
  <2>2. ASSUME NEW x \in ToSet(q), x # Head(q) PROVE x \in ToSet(Tail(q))
    <3>1. PICK i \in 1..Len(q) : q[i] = x
      BY <1>2, <2>2 DEF ToSet
    <3>2. i - 1 \in 1..(Len(q) - 1) /\ (i - 1) + 1 = i
      BY <1>1, <1>2, <2>2, <3>1
    <3>3. Tail(q)[i - 1] = x
      BY <1>1, <1>2, <3>1, <3>2
    <3>4. QED BY <1>2, <3>2, <3>3 DEF ToSet
  <2>3. Head(q) \notin ToSet(Tail(q))
    BY <1>1, <1>2, <1>4 DEF ToSet, IsInjective
  <2>4. QED BY <1>3, <2>1, <2>2, <2>3
<1>5. QED BY <1>1, <1>3, <1>4

(* What is where after the element at place i is gone. *)
LEMMA RemoveElements ==
  ASSUME NEW S, NEW q \in Seq(S), NEW i \in DOMAIN q
  PROVE  /\ RemoveAt(q, i) \in Seq(S)
         /\ Len(RemoveAt(q, i)) = Len(q) - 1
         /\ DOMAIN RemoveAt(q, i) = 1..(Len(q) - 1)
         /\ \A k \in 1..(Len(q) - 1) :
              RemoveAt(q, i)[k] = IF k < i THEN q[k] ELSE q[k + 1]
<1> DEFINE n == Len(q)
           r == RemoveAt(q, i)
<1>1. n \in Nat /\ DOMAIN q = 1..n /\ i \in 1..n
  BY LenProperties
<1>2. /\ SubSeq(q, 1, i - 1) \in Seq(S)
      /\ Len(SubSeq(q, 1, i - 1)) = i - 1
      /\ \A k \in 1..(i - 1) : SubSeq(q, 1, i - 1)[k] = q[k]
  BY <1>1, SubSeqProperties
<1>3. /\ SubSeq(q, i + 1, n) \in Seq(S)
      /\ Len(SubSeq(q, i + 1, n)) = n - i
      /\ \A k \in 1..(n - i) : SubSeq(q, i + 1, n)[k] = q[i + k]
  BY <1>1, SubSeqProperties
<1>4. /\ r \in Seq(S)
      /\ Len(r) = n - 1
      /\ DOMAIN r = 1..(n - 1)
      /\ \A k \in 1..(n - 1) : r[k] = IF k < i THEN q[k] ELSE q[k + 1]
  <2> DEFINE u == SubSeq(q, 1, i - 1)
             v == SubSeq(q, i + 1, n)
  <2>1. r = u \o v
    BY DEF RemoveAt
  <2>2. /\ u \in Seq(S) /\ Len(u) = i - 1 /\ \A k \in 1..(i - 1) : u[k] = q[k]
        /\ v \in Seq(S) /\ Len(v) = n - i /\ \A k \in 1..(n - i) : v[k] = q[i + k]
    BY <1>2, <1>3
  <2> HIDE DEF u, v, r
  <2>3. /\ r \in Seq(S)
        /\ Len(r) = n - 1
        /\ \A k \in 1..(n - 1) : r[k] = IF k <= i - 1 THEN u[k] ELSE v[k - (i - 1)]
    <3>1. /\ u \o v \in Seq(S)
          /\ Len(u \o v) = Len(u) + Len(v)
          /\ \A k \in 1..(Len(u) + Len(v)) :
               (u \o v)[k] = IF k <= Len(u) THEN u[k] ELSE v[k - Len(u)]
      BY <2>2, ConcatProperties
    <3>2. Len(u) + Len(v) = n - 1
      BY <1>1, <2>2
    <3>3. QED BY <2>1, <2>2, <3>1, <3>2
  <2>4. DOMAIN r = 1..(n - 1)
    BY <2>3, LenProperties
  <2>5. ASSUME NEW k \in 1..(n - 1), k >= i PROVE v[k - (i - 1)] = q[k + 1]
    <3>1. k - (i - 1) \in 1..(n - i) /\ i + (k - (i - 1)) = k + 1
      BY <1>1, <2>5
    <3>2. QED BY <2>2, <3>1
  <2>6. ASSUME NEW k \in 1..(n - 1) PROVE r[k] = IF k < i THEN q[k] ELSE q[k + 1]
    <3>1. CASE k < i
      BY <1>1, <2>2, <2>3, <3>1
    <3>2. CASE k >= i
      BY <1>1, <2>3, <2>5, <3>2
    <3>3. QED BY <1>1, <3>1, <3>2
  <2>7. QED BY <2>3, <2>4, <2>6
<1>5. QED BY <1>4

(* Withdrawing the element at place i. *)
LEMMA RemoveFromQueue ==
  ASSUME NEW S, NEW q \in Seq(S), NEW i \in DOMAIN q
  PROVE  /\ RemoveAt(q, i) \in Seq(S)
         /\ ToSet(RemoveAt(q, i)) \cup {q[i]} = ToSet(q)
         /\ IsInjective(q) => /\ IsInjective(RemoveAt(q, i))
                              /\ q[i] \notin ToSet(RemoveAt(q, i))
<1> DEFINE n == Len(q)
           r == RemoveAt(q, i)
<1>1. n \in Nat /\ DOMAIN q = 1..n /\ i \in 1..n
  BY LenProperties
<1>2. /\ r \in Seq(S)
      /\ DOMAIN r = 1..(n - 1)
      /\ \A k \in 1..(n - 1) : r[k] = IF k < i THEN q[k] ELSE q[k + 1]
  BY RemoveElements
<1> HIDE DEF n, r
<1>3. ToSet(r) \cup {q[i]} = ToSet(q)
  <2>1. \A k \in 1..(n - 1) : r[k] = q[k] \/ r[k] = q[k + 1]
    BY <1>2
  <2>2. \A k \in 1..(n - 1) : k \in 1..n /\ k + 1 \in 1..n
    BY <1>1
  <2>3. ToSet(r) \cup {q[i]} \subseteq ToSet(q)
    BY <1>1, <1>2, <2>1, <2>2 DEF ToSet
  <2>4. ASSUME NEW k \in 1..n PROVE q[k] \in ToSet(r) \cup {q[i]}
    <3>1. CASE k < i
      <4>1. k \in 1..(n - 1)
        BY <1>1, <3>1
      <4>2. r[k] = q[k]
        BY <1>2, <3>1, <4>1
      <4>3. QED BY <1>2, <4>1, <4>2 DEF ToSet
    <3>2. CASE k > i
      <4>1. k - 1 \in 1..(n - 1) /\ ~(k - 1 < i) /\ (k - 1) + 1 = k
        BY <1>1, <3>2
      <4>2. r[k - 1] = q[k]
        BY <1>2, <4>1
      <4>3. QED BY <1>2, <4>1, <4>2 DEF ToSet
    <3>3. QED BY <1>1, <3>1, <3>2
  <2>5. QED BY <1>1, <2>3, <2>4 DEF ToSet
<1>4. ASSUME IsInjective(q) PROVE IsInjective(r) /\ q[i] \notin ToSet(r)
  <2>1. \A a, b \in 1..n : q[a] = q[b] => a = b
    BY <1>1, <1>4 DEF IsInjective
  <2>2. IsInjective(r)
    BY <1>1, <1>2, <2>1 DEF IsInjective
  <2>3. q[i] \notin ToSet(r)
    BY <1>1, <1>2, <2>1 DEF ToSet
  <2>4. QED BY <2>2, <2>3
<1>5. QED BY <1>2, <1>3, <1>4 DEF r

(* Putting a task on top of a stack. *)
LEMMA PushOnStack ==
  ASSUME NEW S, NEW s \in Seq(S), NEW t \in S
  PROVE  /\ Cons(t, s) \in Seq(S)
         /\ Cons(t, s) # <<>>
         /\ DOMAIN Cons(t, s) = 1..(Len(s) + 1)
         /\ Cons(t, s)[1] = t
         /\ \A i \in 2..(Len(s) + 1) : Cons(t, s)[i] = s[i - 1]
<1>1. <<t>> \in Seq(S) /\ Len(<<t>>) = 1 /\ <<t>>[1] = t
  OBVIOUS
<1>2. /\ Cons(t, s) \in Seq(S)
      /\ Len(Cons(t, s)) = 1 + Len(s)
      /\ \A i \in 1..(1 + Len(s)) :
           Cons(t, s)[i] = IF i <= 1 THEN <<t>>[i] ELSE s[i - 1]
  BY <1>1, ConcatProperties DEF Cons
<1>3. DOMAIN Cons(t, s) = 1..(Len(s) + 1) /\ Len(s) \in Nat /\ Cons(t, s) # <<>>
  BY <1>2, LenProperties, EmptySeq
<1>4. QED BY <1>1, <1>2, <1>3

-------------------------------------------------------------------------------
(* Queues in a row: changing one of them changes the row at its place.    *)

Row(a, b, c) == a \o b \o c

(* A row falls into its two parts. *)
LEMMA PartsOfRow ==
  ASSUME NEW S, NEW a \in Seq(S), NEW b \in Seq(S)
  PROVE  /\ a \o b \in Seq(S)
         /\ Len(a \o b) = Len(a) + Len(b)
         /\ SubSeq(a \o b, 1, Len(a)) = a
         /\ SubSeq(a \o b, Len(a) + 1, Len(a \o b)) = b
<1>1. /\ a \o b \in Seq(S)
      /\ Len(a \o b) = Len(a) + Len(b)
      /\ \A i \in 1..(Len(a) + Len(b)) : (a \o b)[i] = IF i <= Len(a) THEN a[i] ELSE b[i - Len(a)]
  BY ConcatProperties
<1>2. Len(a) \in Nat /\ Len(b) \in Nat /\ \A i \in 1..(Len(a) + Len(b)) : (a \o b)[i] \in S
  BY <1>1, LenProperties, ElementOfSeq
<1> DEFINE r == a \o b
<1> HIDE DEF r
<1>3. /\ SubSeq(r, 1, Len(a)) \in Seq(S)
      /\ Len(SubSeq(r, 1, Len(a))) = Len(a)
      /\ \A i \in 1..Len(a) : SubSeq(r, 1, Len(a))[i] = r[i]
  <2>1. \A i \in 1..Len(a) : r[i] \in S
    BY <1>2 DEF r
  <2>2. QED BY <1>2, <2>1, SubSeqProperties
<1>4. SubSeq(r, 1, Len(a)) = a
  <2>1. \A i \in 1..Len(a) : SubSeq(r, 1, Len(a))[i] = a[i]
    BY <1>1, <1>2, <1>3 DEF r
  <2>2. QED BY <1>3, <2>1, SeqEqual
<1>5. /\ SubSeq(r, Len(a) + 1, Len(a) + Len(b)) \in Seq(S)
      /\ Len(SubSeq(r, Len(a) + 1, Len(a) + Len(b))) = Len(b)
      /\ \A i \in 1..Len(b) : SubSeq(r, Len(a) + 1, Len(a) + Len(b))[i] = r[Len(a) + i]
  <2>1. \A i \in (Len(a) + 1)..(Len(a) + Len(b)) : r[i] \in S
    BY <1>2 DEF r
  <2>2. Len(a) + 1 \in Int /\ Len(a) + Len(b) \in Int
    BY <1>2
  <2>3. /\ SubSeq(r, Len(a) + 1, Len(a) + Len(b)) \in Seq(S)
        /\ Len(SubSeq(r, Len(a) + 1, Len(a) + Len(b)))
             = IF Len(a) + 1 <= Len(a) + Len(b) THEN (Len(a) + Len(b)) - (Len(a) + 1) + 1 ELSE 0
        /\ \A i \in 1..((Len(a) + Len(b)) - (Len(a) + 1) + 1) :
             SubSeq(r, Len(a) + 1, Len(a) + Len(b))[i] = r[(Len(a) + 1) + i - 1]
    BY <2>1, <2>2, SubSeqProperties
  <2>4. (Len(a) + Len(b)) - (Len(a) + 1) + 1 = Len(b)
    BY <1>2
  <2>5. \A i \in 1..Len(b) : (Len(a) + 1) + i - 1 = Len(a) + i
    BY <1>2
  <2>6. QED BY <1>2, <2>3, <2>4, <2>5
<1>6. SubSeq(r, Len(a) + 1, Len(a) + Len(b)) = b
  <2>1. \A i \in 1..Len(b) : SubSeq(r, Len(a) + 1, Len(a) + Len(b))[i] = b[i]
    BY <1>1, <1>2, <1>5 DEF r
  <2>2. QED BY <1>5, <2>1, SeqEqual
<1>7. QED BY <1>1, <1>4, <1>6 DEF r

(* Appending to one of three queues. *)
LEMMA AppendInRow ==
  ASSUME NEW S, NEW a \in Seq(S), NEW b \in Seq(S), NEW c \in Seq(S), NEW t \in S
  PROVE  /\ InsertAt(Row(a, b, c), Len(a) + 1, t) = Row(Append(a, t), b, c)
         /\ InsertAt(Row(a, b, c), Len(a) + Len(b) + 1, t) = Row(a, Append(b, t), c)
         /\ InsertAt(Row(a, b, c), Len(a) + Len(b) + Len(c) + 1, t) = Row(a, b, Append(c, t))
<1>1. ASSUME NEW u \in Seq(S), NEW v \in Seq(S)
      PROVE  InsertAt(u \o v, Len(u) + 1, t) = (u \o <<t>>) \o v
  <2>1. /\ SubSeq(u \o v, 1, Len(u)) = u
        /\ SubSeq(u \o v, Len(u) + 1, Len(u \o v)) = v
    BY PartsOfRow
  <2> DEFINE n == Len(u) + 1
             r == u \o v
  <2>2. InsertAt(r, n, t) = SubSeq(r, 1, n - 1) \o <<t>> \o SubSeq(r, n, Len(r))
    BY Zenon DEF InsertAt
  <2>3. n - 1 = Len(u)
    BY LenProperties
  <2>4. SubSeq(r, 1, n - 1) = u
    BY <2>1, <2>3, Zenon
  <2>5. QED BY <2>1, <2>2, <2>4, Zenon
<1>2. <<t>> \in Seq(S)
  OBVIOUS
<1>3. /\ a \o b \in Seq(S) /\ b \o c \in Seq(S) /\ a \o b \o c \in Seq(S)
      /\ a \o <<t>> \in Seq(S) /\ b \o <<t>> \in Seq(S) /\ <<>> \in Seq(S)
      /\ Len(a \o b) = Len(a) + Len(b)
      /\ Len(a \o b \o c) = Len(a) + Len(b) + Len(c)
  BY <1>2, ConcatProperties, EmptySeq
<1>4. /\ Append(a, t) = a \o <<t>>
      /\ Append(b, t) = b \o <<t>>
      /\ Append(c, t) = c \o <<t>>
  BY AppendIsConcat
<1>5. InsertAt(a \o b \o c, Len(a) + 1, t) = Append(a, t) \o b \o c
  <2>1. a \o b \o c = a \o (b \o c)
    BY ConcatAssociative, SMTT(20)
  <2>2. InsertAt(a \o (b \o c), Len(a) + 1, t) = (a \o <<t>>) \o (b \o c)
    BY <1>1, <1>3
  <2>3. (a \o <<t>>) \o (b \o c) = (a \o <<t>>) \o b \o c
    BY <1>3, ConcatAssociative, SMTT(20)
  <2>4. QED BY <1>4, <2>1, <2>2, <2>3
<1>6. InsertAt(a \o b \o c, Len(a) + Len(b) + 1, t) = a \o Append(b, t) \o c
  <2>1. InsertAt((a \o b) \o c, Len(a \o b) + 1, t) = ((a \o b) \o <<t>>) \o c
    BY <1>1, <1>3
  <2>2. (a \o b) \o <<t>> = a \o (b \o <<t>>)
    BY <1>2, ConcatAssociative
  <2>3. QED BY <1>3, <1>4, <2>1, <2>2
<1>7. InsertAt(a \o b \o c, Len(a) + Len(b) + Len(c) + 1, t) = a \o b \o Append(c, t)
  <2> DEFINE r == a \o b \o c
  <2>1. InsertAt(r \o <<>>, Len(r) + 1, t) = (r \o <<t>>) \o <<>>
    BY <1>1, <1>3
  <2>2. r \o <<>> = r
    BY <1>3, ConcatEmptySeq
  <2>3. (r \o <<t>>) \o <<>> = r \o <<t>>
    BY <1>2, <1>3, ConcatProperties, ConcatEmptySeq
  <2>4. r \o <<t>> = (a \o b) \o (c \o <<t>>)
    BY <1>2, <1>3, ConcatAssociative
  <2>5. QED BY <1>3, <1>4, <2>1, <2>2, <2>3, <2>4
<1>8. QED BY <1>5, <1>6, <1>7 DEF Row

(* Popping the first part of what is put together. *)
LEMMA PopFromParts ==
  ASSUME NEW S, NEW u \in Seq(S), NEW v \in Seq(S), u # <<>>
  PROVE  u \o v # <<>> /\ Head(u \o v) = Head(u) /\ Tail(u \o v) = Tail(u) \o v
<1>1. /\ Head(u) = u[1] /\ Tail(u) \in Seq(S) /\ Len(Tail(u)) = Len(u) - 1
      /\ \A i \in 1..Len(Tail(u)) : Tail(u)[i] = u[i + 1]
  BY HeadTailProperties
<1>2. Len(u) \in Nat /\ Len(v) \in Nat /\ Len(u) > 0
  BY LenProperties, EmptySeq
<1>3. /\ u \o v \in Seq(S) /\ Len(u \o v) = Len(u) + Len(v)
      /\ \A i \in 1..(Len(u) + Len(v)) : (u \o v)[i] = IF i <= Len(u) THEN u[i] ELSE v[i - Len(u)]
  BY ConcatProperties
<1>4. u \o v # <<>>
  BY ConcatEqualIffEmpty
<1> DEFINE r == u \o v
           w == Tail(u) \o v
<1>5. /\ r \in Seq(S) /\ r # <<>> /\ Len(r) = Len(u) + Len(v)
      /\ \A i \in 1..(Len(u) + Len(v)) : r[i] = IF i <= Len(u) THEN u[i] ELSE v[i - Len(u)]
  BY <1>3, <1>4
<1>6. /\ w \in Seq(S) /\ Len(w) = (Len(u) - 1) + Len(v)
      /\ \A i \in 1..((Len(u) - 1) + Len(v)) :
           w[i] = IF i <= Len(u) - 1 THEN Tail(u)[i] ELSE v[i - (Len(u) - 1)]
  <2>1. /\ w \in Seq(S) /\ Len(w) = Len(Tail(u)) + Len(v)
        /\ \A i \in 1..(Len(Tail(u)) + Len(v)) :
             w[i] = IF i <= Len(Tail(u)) THEN Tail(u)[i] ELSE v[i - Len(Tail(u))]
    BY <1>1, ConcatProperties
  <2>2. QED BY <1>1, <2>1
<1> HIDE DEF r, w
<1>7. /\ Tail(r) \in Seq(S) /\ Len(Tail(r)) = Len(u) + Len(v) - 1
      /\ \A i \in 1..(Len(u) + Len(v) - 1) : Tail(r)[i] = r[i + 1]
      /\ Head(r) = r[1]
  BY <1>5, HeadTailProperties
<1>8. Head(r) = Head(u)
  BY <1>1, <1>2, <1>5, <1>7
<1>9. \A i \in 1..(Len(u) + Len(v) - 1) : Tail(r)[i] = w[i]
  <2> SUFFICES ASSUME NEW i \in 1..(Len(u) + Len(v) - 1) PROVE Tail(r)[i] = w[i]
    OBVIOUS
  <2>1. i + 1 \in 1..(Len(u) + Len(v)) /\ i \in 1..((Len(u) - 1) + Len(v))
    BY <1>2
  <2>2. CASE i <= Len(u) - 1
    <3>1. i + 1 <= Len(u) /\ i \in 1..Len(Tail(u))
      BY <1>1, <1>2, <2>2
    <3>2. QED BY <1>1, <1>5, <1>6, <1>7, <2>1, <2>2, <3>1
  <2>3. CASE ~(i <= Len(u) - 1)
    <3>1. ~(i + 1 <= Len(u)) /\ i + 1 - Len(u) = i - (Len(u) - 1)
      BY <1>2, <2>3
    <3>2. r[i + 1] = v[i + 1 - Len(u)]
      BY <1>5, <2>1, <3>1
    <3>3. w[i] = v[i - (Len(u) - 1)]
      BY <1>6, <2>1, <2>3
    <3>4. QED BY <1>7, <3>1, <3>2, <3>3
  <2>4. QED BY <2>2, <2>3
<1>10. Tail(r) = w
  <2>1. Len(Tail(r)) = Len(w)
    BY <1>2, <1>6, <1>7
  <2>2. QED BY <1>6, <1>7, <1>9, <2>1, SeqEqual
<1>11. QED BY <1>4, <1>8, <1>10 DEF r, w

(* Popping the first of three queues that is not empty. *)
LEMMA PopFromRow ==
  ASSUME NEW S, NEW a \in Seq(S), NEW b \in Seq(S), NEW c \in Seq(S)
  PROVE  /\ a # <<>> => /\ Row(a, b, c) # <<>>
                        /\ Head(Row(a, b, c)) = Head(a)
                        /\ Tail(Row(a, b, c)) = Row(Tail(a), b, c)
         /\ b # <<>> => /\ Row(<<>>, b, c) # <<>>
                        /\ Head(Row(<<>>, b, c)) = Head(b)
                        /\ Tail(Row(<<>>, b, c)) = Row(<<>>, Tail(b), c)
         /\ c # <<>> => /\ Row(<<>>, <<>>, c) # <<>>
                        /\ Head(Row(<<>>, <<>>, c)) = Head(c)
                        /\ Tail(Row(<<>>, <<>>, c)) = Row(<<>>, <<>>, Tail(c))
<1>1. /\ a \o b \in Seq(S) /\ <<>> \o b = b /\ <<>> \o c = c /\ <<>> \o <<>> = <<>>
      /\ <<>> \in Seq(S)
  BY ConcatProperties, ConcatEmptySeq, EmptySeq
<1>2. ASSUME a # <<>>
      PROVE  /\ Row(a, b, c) # <<>> /\ Head(Row(a, b, c)) = Head(a)
             /\ Tail(Row(a, b, c)) = Row(Tail(a), b, c)
  <2>1. a \o b # <<>> /\ Head(a \o b) = Head(a) /\ Tail(a \o b) = Tail(a) \o b
    BY <1>2, PopFromParts
  <2>2. /\ a \o b \o c # <<>> /\ Head(a \o b \o c) = Head(a \o b)
        /\ Tail(a \o b \o c) = Tail(a \o b) \o c
    BY <1>1, <2>1, PopFromParts
  <2>3. QED BY <2>1, <2>2 DEF Row
<1>3. ASSUME b # <<>>
      PROVE  /\ Row(<<>>, b, c) # <<>> /\ Head(Row(<<>>, b, c)) = Head(b)
             /\ Tail(Row(<<>>, b, c)) = Row(<<>>, Tail(b), c)
  <2>1. Tail(b) \in Seq(S)
    BY <1>3, HeadTailProperties
  <2>2. <<>> \o Tail(b) = Tail(b)
    BY <2>1, ConcatEmptySeq
  <2>3. b \o c # <<>> /\ Head(b \o c) = Head(b) /\ Tail(b \o c) = Tail(b) \o c
    BY <1>3, PopFromParts
  <2>4. QED BY <1>1, <2>2, <2>3 DEF Row
<1>4. ASSUME c # <<>>
      PROVE  /\ Row(<<>>, <<>>, c) # <<>> /\ Head(Row(<<>>, <<>>, c)) = Head(c)
             /\ Tail(Row(<<>>, <<>>, c)) = Row(<<>>, <<>>, Tail(c))
  <2>1. Tail(c) \in Seq(S)
    BY <1>4, HeadTailProperties
  <2>2. <<>> \o Tail(c) = Tail(c)
    BY <2>1, ConcatEmptySeq
  <2>3. QED BY <1>1, <1>4, <2>2 DEF Row
<1>5. QED BY <1>2, <1>3, <1>4

(* Withdrawing from one of three queues. *)
LEMMA RemoveInRow ==
  ASSUME NEW S, NEW a \in Seq(S), NEW b \in Seq(S), NEW c \in Seq(S)
  PROVE  /\ \A i \in DOMAIN a :
              /\ i \in DOMAIN Row(a, b, c) /\ Row(a, b, c)[i] = a[i]
              /\ RemoveAt(Row(a, b, c), i) = Row(RemoveAt(a, i), b, c)
         /\ \A i \in DOMAIN b :
              /\ Len(a) + i \in DOMAIN Row(a, b, c) /\ Row(a, b, c)[Len(a) + i] = b[i]
              /\ RemoveAt(Row(a, b, c), Len(a) + i) = Row(a, RemoveAt(b, i), c)
         /\ \A i \in DOMAIN c :
              /\ Len(a) + Len(b) + i \in DOMAIN Row(a, b, c)
              /\ Row(a, b, c)[Len(a) + Len(b) + i] = c[i]
              /\ RemoveAt(Row(a, b, c), Len(a) + Len(b) + i) = Row(a, b, RemoveAt(c, i))
<1>1. ASSUME NEW u \in Seq(S), NEW v \in Seq(S)
      PROVE  /\ \A i \in DOMAIN u :
                  /\ i \in DOMAIN (u \o v) /\ (u \o v)[i] = u[i]
                  /\ RemoveAt(u \o v, i) = RemoveAt(u, i) \o v
             /\ \A i \in DOMAIN v :
                  /\ Len(u) + i \in DOMAIN (u \o v) /\ (u \o v)[Len(u) + i] = v[i]
                  /\ RemoveAt(u \o v, Len(u) + i) = u \o RemoveAt(v, i)
  <2> DEFINE r == u \o v
             m == Len(u)
             n == Len(v)
  <2>1. /\ DOMAIN u = 1..m /\ m \in Nat /\ DOMAIN v = 1..n /\ n \in Nat
        /\ r \in Seq(S) /\ DOMAIN r = 1..(m + n) /\ Len(r) = m + n
        /\ \A k \in 1..(m + n) : r[k] = IF k <= m THEN u[k] ELSE v[k - m]
    BY LenProperties, ConcatProperties
  <2> HIDE DEF r, m, n
  <2>2. ASSUME NEW i \in DOMAIN u
        PROVE  i \in DOMAIN r /\ r[i] = u[i] /\ RemoveAt(r, i) = RemoveAt(u, i) \o v
    <3> DEFINE x == RemoveAt(r, i)
               y == RemoveAt(u, i) \o v
    <3>1. i \in 1..m /\ i \in DOMAIN r /\ r[i] = u[i]
      BY <2>1
    <3>2. /\ x \in Seq(S) /\ Len(x) = m + n - 1
          /\ \A k \in 1..(m + n - 1) : x[k] = IF k < i THEN r[k] ELSE r[k + 1]
      <4>1. /\ x \in Seq(S) /\ Len(x) = Len(r) - 1
            /\ \A k \in 1..(Len(r) - 1) : x[k] = IF k < i THEN r[k] ELSE r[k + 1]
        BY <2>1, <3>1, RemoveElements
      <4>2. QED BY <2>1, <4>1
    <3>3. /\ RemoveAt(u, i) \in Seq(S) /\ Len(RemoveAt(u, i)) = m - 1
          /\ \A k \in 1..(m - 1) : RemoveAt(u, i)[k] = IF k < i THEN u[k] ELSE u[k + 1]
      BY RemoveElements DEF m
    <3>4. /\ y \in Seq(S) /\ Len(y) = (m - 1) + n
          /\ \A k \in 1..((m - 1) + n) :
               y[k] = IF k <= m - 1 THEN RemoveAt(u, i)[k] ELSE v[k - (m - 1)]
      <4> DEFINE z == RemoveAt(u, i)
      <4>1. z \in Seq(S) /\ Len(z) = m - 1
        BY <3>3
      <4> HIDE DEF z
      <4>2. /\ z \o v \in Seq(S) /\ Len(z \o v) = Len(z) + Len(v)
            /\ \A k \in 1..(Len(z) + Len(v)) :
                 (z \o v)[k] = IF k <= Len(z) THEN z[k] ELSE v[k - Len(z)]
        BY <4>1, ConcatProperties
      <4>3. /\ z \o v \in Seq(S) /\ Len(z \o v) = (m - 1) + n
            /\ \A k \in 1..((m - 1) + n) :
                 (z \o v)[k] = IF k <= m - 1 THEN z[k] ELSE v[k - (m - 1)]
        BY <4>1, <4>2 DEF n
      <4>4. QED BY <4>3 DEF z
    <3> HIDE DEF x, y
    <3>5. ASSUME NEW k \in 1..(m + n - 1) PROVE x[k] = y[k]
      <4>1. k \in 1..((m - 1) + n) /\ k \in 1..(m + n) /\ k + 1 \in 1..(m + n)
        BY <2>1
      <4>2. CASE k < i
        <5>1. k <= m - 1 /\ k <= m /\ k \in 1..(m - 1)
          BY <2>1, <3>1, <4>2
        <5>2. x[k] = u[k] /\ y[k] = u[k]
          BY <2>1, <3>2, <3>3, <3>4, <4>1, <4>2, <5>1
        <5>3. QED BY <5>2
      <4>3. CASE ~(k < i) /\ k <= m - 1
        <5>1. k + 1 <= m /\ k \in 1..(m - 1)
          BY <2>1, <4>3
        <5>2. x[k] = u[k + 1]
          BY <2>1, <3>2, <4>1, <4>3, <5>1
        <5>3. y[k] = u[k + 1]
          BY <3>3, <3>4, <4>1, <4>3, <5>1
        <5>4. QED BY <5>2, <5>3
      <4>4. CASE ~(k <= m - 1)
        <5>1. ~(k < i) /\ ~(k + 1 <= m) /\ k + 1 - m = k - (m - 1)
          BY <2>1, <3>1, <4>4
        <5>2. x[k] = r[k + 1]
          BY <3>2, <5>1
        <5>3. r[k + 1] = v[k + 1 - m]
          BY <2>1, <4>1, <5>1
        <5>4. y[k] = v[k - (m - 1)]
          BY <3>4, <4>1, <4>4
        <5>5. QED BY <5>1, <5>2, <5>3, <5>4
      <4>5. QED BY <4>2, <4>3, <4>4
    <3>6. Len(x) = Len(y)
      BY <2>1, <3>2, <3>4
    <3>7. x = y
      BY <3>2, <3>4, <3>5, <3>6, SeqEqual
    <3>8. QED BY <3>1, <3>7 DEF x, y
  <2>3. ASSUME NEW i \in DOMAIN v
        PROVE  m + i \in DOMAIN r /\ r[m + i] = v[i] /\ RemoveAt(r, m + i) = u \o RemoveAt(v, i)
    <3> DEFINE x == RemoveAt(r, m + i)
               y == u \o RemoveAt(v, i)
    <3>1. i \in 1..n /\ m + i \in DOMAIN r /\ r[m + i] = v[i]
      <4>1. i \in 1..n /\ m + i \in 1..(m + n) /\ ~(m + i <= m) /\ (m + i) - m = i
        BY <2>1
      <4>2. r[m + i] = v[(m + i) - m]
        BY <2>1, <4>1
      <4>3. QED BY <2>1, <4>1, <4>2
    <3>2. /\ x \in Seq(S) /\ Len(x) = m + n - 1
          /\ \A k \in 1..(m + n - 1) : x[k] = IF k < m + i THEN r[k] ELSE r[k + 1]
      <4>1. /\ x \in Seq(S) /\ Len(x) = Len(r) - 1
            /\ \A k \in 1..(Len(r) - 1) : x[k] = IF k < m + i THEN r[k] ELSE r[k + 1]
        BY <2>1, <3>1, RemoveElements
      <4>2. QED BY <2>1, <4>1
    <3>3. /\ RemoveAt(v, i) \in Seq(S) /\ Len(RemoveAt(v, i)) = n - 1
          /\ \A k \in 1..(n - 1) : RemoveAt(v, i)[k] = IF k < i THEN v[k] ELSE v[k + 1]
      BY RemoveElements DEF n
    <3>4. /\ y \in Seq(S) /\ Len(y) = m + (n - 1)
          /\ \A k \in 1..(m + (n - 1)) :
               y[k] = IF k <= m THEN u[k] ELSE RemoveAt(v, i)[k - m]
      <4> DEFINE z == RemoveAt(v, i)
      <4>1. z \in Seq(S) /\ Len(z) = n - 1
        BY <3>3
      <4> HIDE DEF z
      <4>2. /\ u \o z \in Seq(S) /\ Len(u \o z) = Len(u) + Len(z)
            /\ \A k \in 1..(Len(u) + Len(z)) :
                 (u \o z)[k] = IF k <= Len(u) THEN u[k] ELSE z[k - Len(u)]
        BY <4>1, ConcatProperties
      <4>3. /\ u \o z \in Seq(S) /\ Len(u \o z) = m + (n - 1)
            /\ \A k \in 1..(m + (n - 1)) :
                 (u \o z)[k] = IF k <= m THEN u[k] ELSE z[k - m]
        BY <4>1, <4>2 DEF m
      <4>4. QED BY <4>3 DEF z
    <3> HIDE DEF x, y
    <3>5. ASSUME NEW k \in 1..(m + n - 1) PROVE x[k] = y[k]
      <4>1. k \in 1..(m + (n - 1)) /\ k \in 1..(m + n) /\ k + 1 \in 1..(m + n)
        BY <2>1
      <4>2. CASE k <= m
        <5>1. k < m + i
          BY <2>1, <3>1, <4>2
        <5>2. x[k] = u[k] /\ y[k] = u[k]
          BY <2>1, <3>2, <3>4, <4>1, <4>2, <5>1
        <5>3. QED BY <5>2
      <4>3. CASE ~(k <= m) /\ k < m + i
        <5>1. k - m \in 1..(n - 1) /\ k - m < i
          BY <2>1, <3>1, <4>3
        <5>2. x[k] = v[k - m]
          BY <2>1, <3>2, <4>1, <4>3
        <5>3. y[k] = v[k - m]
          BY <3>3, <3>4, <4>1, <4>3, <5>1
        <5>4. QED BY <5>2, <5>3
      <4>4. CASE ~(k < m + i)
        <5>1. ~(k <= m) /\ ~(k + 1 <= m) /\ k - m \in 1..(n - 1) /\ ~(k - m < i)
          BY <2>1, <3>1, <4>4
        <5>2. x[k] = v[(k + 1) - m]
          BY <2>1, <3>2, <4>1, <4>4, <5>1
        <5>3. y[k] = v[(k - m) + 1]
          BY <3>3, <3>4, <4>1, <5>1
        <5>4. (k + 1) - m = (k - m) + 1
          BY <2>1
        <5>5. QED BY <5>2, <5>3, <5>4
      <4>5. QED BY <4>2, <4>3, <4>4
    <3>6. Len(x) = Len(y)
      BY <2>1, <3>2, <3>4
    <3>7. x = y
      BY <3>2, <3>4, <3>5, <3>6, SeqEqual
    <3>8. QED BY <3>1, <3>7 DEF x, y
  <2>4. QED BY <2>2, <2>3 DEF r, m
<1>2. a \o b \in Seq(S) /\ b \o c \in Seq(S) /\ a \o b \o c = a \o (b \o c)
  BY ConcatProperties, ConcatAssociative
<1>3. ASSUME NEW i \in DOMAIN a
      PROVE  /\ i \in DOMAIN (a \o b \o c) /\ (a \o b \o c)[i] = a[i]
             /\ RemoveAt(a \o b \o c, i) = RemoveAt(a, i) \o b \o c
  <2>1. /\ i \in DOMAIN (a \o (b \o c)) /\ (a \o (b \o c))[i] = a[i]
        /\ RemoveAt(a \o (b \o c), i) = RemoveAt(a, i) \o (b \o c)
    BY <1>1, <1>2
  <2>2. RemoveAt(a, i) \o (b \o c) = RemoveAt(a, i) \o b \o c
    <3>1. RemoveAt(a, i) \in Seq(S)
      BY RemoveElements
    <3>2. QED BY <3>1, ConcatAssociative, SMTT(20)
  <2>3. QED BY <1>2, <2>1, <2>2
<1>4. ASSUME NEW i \in DOMAIN b
      PROVE  /\ Len(a) + i \in DOMAIN (a \o b \o c) /\ (a \o b \o c)[Len(a) + i] = b[i]
             /\ RemoveAt(a \o b \o c, Len(a) + i) = a \o RemoveAt(b, i) \o c
  <2> DEFINE j == Len(a) + i
  <2>1. /\ j \in DOMAIN (a \o b) /\ (a \o b)[j] = b[i]
        /\ RemoveAt(a \o b, j) = a \o RemoveAt(b, i)
    BY <1>1
  <2>2. /\ j \in DOMAIN ((a \o b) \o c) /\ ((a \o b) \o c)[j] = (a \o b)[j]
        /\ RemoveAt((a \o b) \o c, j) = RemoveAt(a \o b, j) \o c
    BY <1>1, <1>2, <2>1
  <2>3. QED BY <2>1, <2>2
<1>5. ASSUME NEW i \in DOMAIN c
      PROVE  /\ Len(a \o b) + i \in DOMAIN (a \o b \o c)
             /\ (a \o b \o c)[Len(a \o b) + i] = c[i]
             /\ RemoveAt(a \o b \o c, Len(a \o b) + i) = a \o b \o RemoveAt(c, i)
  BY <1>1, <1>2
<1>6. Len(a \o b) = Len(a) + Len(b)
  BY ConcatProperties
<1>7. QED BY <1>3, <1>4, <1>5, <1>6 DEF Row

-------------------------------------------------------------------------------
(* The dispatcher. *)

LEMMA PriorityType == \A t \in Tasks : Priority(t) \in Priorities
BY KindAssumption DEF Priority, Priorities, Interactive, Background, Training

LEMMA NoReportType == NoReport \notin Reports
BY NoTaskAssumption DEF NoReport, Reports

(* Popping the first queue keeps the queues typed. *)
LEMMA PopType ==
  ASSUME TypeOK, NEW p \in Priorities, First(p), Pop(p)
  PROVE  /\ pending' \in [Priorities -> Seq(Tasks)]
         /\ picked' \subseteq Tasks
         /\ ready' \in BOOLEAN
         /\ Head(pending[p]) \in Tasks
<1>1. pending[p] \in Seq(Tasks) /\ pending[p] # <<>>
  BY DEF TypeOK, First
<1>2. Head(pending[p]) \in Tasks /\ Tail(pending[p]) \in Seq(Tasks)
  BY <1>1, PopFromQueue
<1>3. QED BY <1>2 DEF TypeOK, Pop

LEMMA HandType ==
  ASSUME TypeOK, NEW w \in Workers, NEW t \in Tasks, Hand(w, t)
  PROVE  /\ stack' \in [Workers -> Seq(Tasks)]
         /\ stop' \in [Workers -> Nat]
         /\ faults' \in Nat
<1>1. stack[w] \in Seq(Tasks)
  BY DEF TypeOK
<1>2. Cons(t, stack[w]) \in Seq(Tasks)
  BY <1>1, PushOnStack
<1>3. stack' \in [Workers -> Seq(Tasks)]
  BY <1>2 DEF TypeOK, Hand
<1>4. stop' \in [Workers -> Nat]
  <2>1. stop \in [Workers -> Nat]
    BY DEF TypeOK
  <2>2. stop' = stop \/ stop' = [stop EXCEPT ![w] = 0]
    BY DEF Hand
  <2>3. QED BY <2>1, <2>2
<1>5. faults' \in Nat
  BY DEF TypeOK, Hand
<1>6. QED BY <1>3, <1>4, <1>5

LEMMA LeaveType ==
  ASSUME TypeOK, NEW w \in Workers, Leave(w), stack[w] # <<>>
  PROVE  /\ stack' \in [Workers -> Seq(Tasks)]
         /\ phase' \in [Workers -> {"run", "reporting", "failing"}]
<1>1. Tail(stack[w]) \in Seq(Tasks)
  BY PopFromQueue DEF TypeOK
<1>2. QED BY <1>1 DEF TypeOK, Leave

(* What the worker does when a report is answered, or not. *)
LEMMA AnsweredType ==
  ASSUME TypeOK, Settled, NEW w \in Workers, NEW ends \in BOOLEAN, Answered(w, ends)
  PROVE  /\ stack' \in [Workers -> Seq(Tasks)]
         /\ phase' \in [Workers -> {"run", "reporting", "failing"}]
         /\ faults' \in Nat
<1>1. CASE phase[w] = "reporting"
  <2>1. stack[w] # <<>>
    BY <1>1 DEF Settled
  <2>2. \/ Leave(w)
        \/ \E p \in {"run", "failing"} : Continue(w, p)
    BY <1>1 DEF Answered, Broken
  <2>3. CASE Leave(w)
    BY <2>1, <2>3, <1>1, LeaveType DEF Answered, TypeOK
  <2>4. CASE \E p \in {"run", "failing"} : Continue(w, p)
    BY <2>4, <1>1 DEF Answered, Continue, TypeOK
  <2>5. QED BY <2>2, <2>3, <2>4
<1>2. CASE phase[w] # "reporting"
  BY <1>2 DEF Answered, TypeOK
<1>3. QED BY <1>1, <1>2

LEMMA TypeJobStep ==
  ASSUME TypeOK, NEW t \in Tasks, JobStep(t)
  PROVE  TypeOK'
<1>1. CASE Add(t)
  BY <1>1 DEF TypeOK, Add, JobStates, Results, rpcVars, workerVars, boundVars
<1>2. CASE Push(t)
  <2>1. Priority(t) \in Priorities /\ pending[Priority(t)] \in Seq(Tasks)
    BY PriorityType DEF TypeOK
  <2>2. Append(pending[Priority(t)], t) \in Seq(Tasks)
    BY <2>1, AppendToQueue
  <2>3. pending' \in [Priorities -> Seq(Tasks)]
    BY <1>2, <2>1, <2>2 DEF TypeOK, Push
  <2>4. QED BY <1>2, <2>3 DEF TypeOK, Push, JobStates, rpcVars, workerVars, boundVars
<1>3. CASE Wake(t)
  BY <1>3 DEF TypeOK, Wake, JobStates, Results, rpcVars, workerVars, boundVars
<1>4. CASE OfferPicked(t)
  BY <1>4 DEF TypeOK, OfferPicked, JobStates, Results, rpcVars, workerVars, boundVars
<1>5. CASE OfferGivesUp(t)
  BY <1>5 DEF TypeOK, OfferGivesUp, JobStates, Results, rpcVars, workerVars, boundVars
<1>6. CASE Withdraw(t)
  <2>1. Priority(t) \in Priorities /\ pending[Priority(t)] \in Seq(Tasks)
    BY PriorityType DEF TypeOK
  <2>2. \A i \in DOMAIN pending[Priority(t)] : RemoveAt(pending[Priority(t)], i) \in Seq(Tasks)
    BY <2>1, RemoveFromQueue
  <2>3. pending' \in [Priorities -> Seq(Tasks)]
    <3>1. CASE UNCHANGED pending
      BY <3>1 DEF TypeOK
    <3>2. CASE \E i \in DOMAIN pending[Priority(t)] :
                 pending' = [pending EXCEPT ![Priority(t)] = RemoveAt(@, i)]
      <4>1. PICK i \in DOMAIN pending[Priority(t)] :
              pending' = [pending EXCEPT ![Priority(t)] = RemoveAt(pending[Priority(t)], i)]
        BY <3>2
      <4>2. RemoveAt(pending[Priority(t)], i) \in Seq(Tasks)
        BY <2>2, <4>1
      <4>3. pending \in [Priorities -> Seq(Tasks)]
        BY DEF TypeOK
      <4>4. QED BY <2>1, <4>1, <4>2, <4>3
    <3>3. QED BY <1>6, <3>1, <3>2 DEF Withdraw
  <2>4. QED BY <1>6, <2>3 DEF TypeOK, Withdraw, JobStates, Results, rpcVars, workerVars, boundVars
<1>7. CASE RunDone(t)
  BY <1>7 DEF TypeOK, RunDone, JobStates, Results, rpcVars, workerVars, boundVars
<1>8. CASE RunGivesUp(t)
  BY <1>8 DEF TypeOK, RunGivesUp, JobStates, Results, rpcVars, workerVars, boundVars
<1>9. CASE RemoveTask(t)
  BY <1>9 DEF TypeOK, RemoveTask, JobStates, Results, rpcVars, workerVars, boundVars
<1>10. QED BY <1>1, <1>2, <1>3, <1>4, <1>5, <1>6, <1>7, <1>8, <1>9 DEF JobStep

LEMMA TypeHandlerStep ==
  ASSUME TypeOK, Settled, NEW w \in Workers, HandlerStep(w)
  PROVE  TypeOK'
<1>1. CASE TakeAny(w)
  <2>1. PICK p \in Priorities : First(p) /\ Pop(p) /\ Hand(w, Head(pending[p]))
    BY <1>1 DEF TakeAny
  <2>2. /\ pending' \in [Priorities -> Seq(Tasks)] /\ picked' \subseteq Tasks /\ ready' \in BOOLEAN
        /\ Head(pending[p]) \in Tasks
    BY <2>1, PopType
  <2>3. stack' \in [Workers -> Seq(Tasks)] /\ stop' \in [Workers -> Nat] /\ faults' \in Nat
    BY <2>1, <2>2, HandType
  <2>4. QED BY <1>1, <2>2, <2>3 DEF TypeOK, TakeAny
<1>2. CASE TakeNothing(w)
  BY <1>2 DEF TypeOK, TakeNothing, apiVars, workerVars, boundVars
<1>3. CASE Woken(w)
  BY <1>3 DEF TypeOK, Woken, workerVars, boundVars
<1>4. CASE PollEnds(w)
  BY <1>4 DEF TypeOK, PollEnds, apiVars, boundVars
<1>5. CASE TakeWaiting(w)
  <2>1. CASE \E p \in 1..(Training - 1) : First(p) /\ Pop(p) /\ Hand(w, Head(pending[p]))
    <3>1. PICK p \in Priorities : First(p) /\ Pop(p) /\ Hand(w, Head(pending[p]))
      BY <2>1 DEF Training, Priorities
    <3>2. /\ pending' \in [Priorities -> Seq(Tasks)] /\ picked' \subseteq Tasks /\ ready' \in BOOLEAN
          /\ Head(pending[p]) \in Tasks
      BY <3>1, PopType
    <3>3. stack' \in [Workers -> Seq(Tasks)] /\ stop' \in [Workers -> Nat] /\ faults' \in Nat
      BY <3>1, <3>2, HandType
    <3>4. QED BY <1>5, <3>2, <3>3 DEF TypeOK, TakeWaiting
  <2>2. CASE UNCHANGED <<pending, picked, ready, stack, stop, faults>>
    BY <1>5, <2>2 DEF TypeOK, TakeWaiting
  <2>3. QED BY <1>5, <2>1, <2>2 DEF TakeWaiting
<1>6. CASE Apply(w)
  <2> DEFINE u == report[w].task
             what == report[w].what
  <2>1. report[w] \in Reports
    BY <1>6 DEF TypeOK, Apply
  <2>2. \E ends \in BOOLEAN : Answered(w, ends)
    BY <1>6 DEF Apply, Unsaved
  <2>3. /\ stack' \in [Workers -> Seq(Tasks)]
        /\ phase' \in [Workers -> {"run", "reporting", "failing"}]
        /\ faults' \in Nat
    BY <2>2, AnsweredType
  <2>4. done' = done \/ \E r \in {"ok", "err"} : Finish(u, r)
    BY <1>6 DEF Apply, Unsaved
  <2>5. u \in Tasks
    BY <2>1 DEF Reports
  <2>6. done' \in [Tasks -> {"none", "ok", "err"}]
    BY <2>4, <2>5 DEF TypeOK, Finish
  <2>7. report' \in [Workers -> Reports \cup {NoReport}]
    BY <1>6 DEF TypeOK, Apply
  <2>8. QED BY <1>6, <2>3, <2>6, <2>7 DEF TypeOK, Apply
<1>7. QED BY <1>1, <1>2, <1>3, <1>4, <1>5, <1>6 DEF HandlerStep

LEMMA TypeWorkerStep ==
  ASSUME TypeOK, Settled, NEW w \in Workers, WorkerStep(w)
  PROVE  TypeOK'
<1>1. CASE Poll(w)
  BY <1>1 DEF TypeOK, Poll, apiVars, workerVars, boundVars
<1>2. CASE CheckIn(w)
  <2>1. Tail(stack[w]) \in Seq(Tasks)
    BY <1>2, PopFromQueue DEF TypeOK, CheckIn
  <2>2. stack' \in [Workers -> Seq(Tasks)] /\ call' \in [Workers -> {"none", "take", "wait", "nested"}]
    BY <1>2, <2>1 DEF TypeOK, CheckIn
  <2>3. QED BY <1>2, <2>2 DEF TypeOK, CheckIn, boundVars
<1>3. ASSUME NEW what \in {"touch", "done", "fail"}, Report(w, what) PROVE TypeOK'
  <2> DEFINE t == Head(stack[w])
  <2>1. stack[w] # <<>> /\ t \in Tasks
    BY <1>3, PopFromQueue DEF TypeOK, Report, CanReport
  <2>2. /\ stack' \in [Workers -> Seq(Tasks)]
        /\ phase' \in [Workers -> {"run", "reporting", "failing"}]
    <3>1. Leave(w) \/ \E p \in {"run", "reporting"} : Continue(w, p)
      BY <1>3 DEF Report
    <3>2. CASE Leave(w)
      BY <2>1, <3>2, LeaveType
    <3>3. CASE \E p \in {"run", "reporting"} : Continue(w, p)
      BY <3>3 DEF Continue, TypeOK
    <3>4. QED BY <3>1, <3>2, <3>3
  <2>3. report' \in [Workers -> Reports \cup {NoReport}]
    <3>1. CASE UNCHANGED report
      BY <3>1 DEF TypeOK
    <3>2. ASSUME NEW u \in Lookup(id[t]),
                 report' = [report EXCEPT ![w] = [task |-> u, from |-> t, what |-> what]]
          PROVE  report' \in [Workers -> Reports \cup {NoReport}]
      <4>1. u \in Tasks
        BY DEF Lookup, TypeOK
      <4>2. [task |-> u, from |-> t, what |-> what] \in Reports
        BY <2>1, <4>1 DEF Reports
      <4>3. QED BY <3>2, <4>2 DEF TypeOK
    <3>3. QED BY <1>3, <3>1, <3>2 DEF Report
  <2>4. QED BY <1>3, <2>2, <2>3 DEF TypeOK, Report, apiVars, boundVars
<1>4. ASSUME NEW what \in {"touch", "done", "fail"}, ReportLost(w, what) PROVE TypeOK'
  <2>1. stack[w] # <<>>
    BY <1>4 DEF ReportLost, CanReport
  <2>2. Leave(w) \/ \E p \in {"run", "failing"} : Continue(w, p)
    BY <1>4 DEF ReportLost, Broken
  <2>3. /\ stack' \in [Workers -> Seq(Tasks)]
        /\ phase' \in [Workers -> {"run", "reporting", "failing"}]
    <3>1. CASE Leave(w)
      BY <2>1, <3>1, LeaveType
    <3>2. CASE \E p \in {"run", "failing"} : Continue(w, p)
      BY <3>2 DEF Continue, TypeOK
    <3>3. QED BY <2>2, <3>1, <3>2
  <2>4. QED BY <1>4, <2>3 DEF TypeOK, ReportLost, apiVars, rpcVars
<1>5. CASE StopTask(w)
  <2>1. stack[w] # <<>>
    BY <1>5 DEF StopTask, Cancelled, WorkingOn
  <2>2. /\ stack' \in [Workers -> Seq(Tasks)]
        /\ phase' \in [Workers -> {"run", "reporting", "failing"}]
    BY <1>5, <2>1, LeaveType DEF StopTask
  <2>3. QED BY <1>5, <2>2 DEF TypeOK, StopTask, apiVars, rpcVars, boundVars
<1>6. CASE Heartbeat(w)
  <2>1. WorkingOn(w) \in Nat
    BY PopFromQueue DEF TypeOK, WorkingOn
  <2>2. QED BY <1>6, <2>1 DEF TypeOK, Heartbeat, apiVars, rpcVars, boundVars
<1>7. CASE HeartbeatAnswered(w)
  BY <1>7 DEF TypeOK, HeartbeatAnswered, apiVars, rpcVars, boundVars
<1>8. CASE WorkerDies(w)
  BY <1>8 DEF TypeOK, WorkerDies, apiVars, rpcVars
<1>9. QED BY <1>1, <1>2, <1>3, <1>4, <1>5, <1>6, <1>7, <1>8 DEF WorkerStep

LEMMA TypeRestart ==
  ASSUME TypeOK, Settled, ApiRestarts
  PROVE  TypeOK'
<1>1. pending' \in [Priorities -> Seq(Tasks)]
  BY DEF ApiRestarts
<1>2. job' \in [Tasks -> JobStates]
  BY DEF ApiRestarts, JobStates, TypeOK
<1>3. stack' \in [Workers -> Seq(Tasks)]
  <2>1. ASSUME NEW w \in Workers, phase[w] = "reporting" PROVE Tail(stack[w]) \in Seq(Tasks)
    BY <2>1, PopFromQueue DEF TypeOK, Settled
  <2>2. QED BY <2>1 DEF ApiRestarts, TypeOK
<1>4. phase' \in [Workers -> {"run", "reporting", "failing"}]
  BY DEF ApiRestarts, TypeOK
<1>5. report' \in [Workers -> Reports \cup {NoReport}]
  BY DEF ApiRestarts
<1>6. /\ ids' \in Nat /\ boots' \in Nat /\ ready' \in BOOLEAN
      /\ running' \subseteq Tasks /\ gone' \subseteq Workers
  <2>1. boots' \in Nat
    BY DEF ApiRestarts, TypeOK
  <2>2. ids' = 0 /\ ready' = FALSE /\ running' = {} /\ gone' = {}
    BY DEF ApiRestarts
  <2>3. QED BY <2>1, <2>2
<1>7. call' \in [Workers -> {"none", "take", "wait", "nested"}]
  BY DEF ApiRestarts
<1>8. /\ UNCHANGED <<id, picked, done, result, stop, answer, faults>>
      /\ id \in [Tasks -> Nat] /\ picked \subseteq Tasks
      /\ done \in [Tasks -> {"none", "ok", "err"}] /\ result \in [Tasks -> Results]
      /\ stop \in [Workers -> Nat] /\ answer \in [Workers -> Nat] /\ faults \in Nat
  BY DEF ApiRestarts, TypeOK
<1>9. QED BY <1>1, <1>2, <1>3, <1>4, <1>5, <1>6, <1>7, <1>8 DEF TypeOK

-------------------------------------------------------------------------------

(* The inductive invariant.  PoppedOnce and Settled lean on each other: a   *)
(* task that waits was not picked because a picked one has left the queue,  *)
(* and what a worker is given is new to it because it waited.              *)
IInv == TypeOK /\ Settled /\ PoppedOnce /\ NoLostWakeup /\ OneHolder

(* The part of Settled about the jobs that are over. *)
LeftOver ==
  \A t \in Tasks : job[t] \in {"ended", "lost"} =>
    t \notin running /\ \A p \in Priorities : t \notin ToSet(pending[p])

(* Popping leaves the rest of the queues as they were. *)
LEMMA PopKeeps ==
  ASSUME TypeOK, Settled, PoppedOnce, NEW p \in Priorities, First(p), Pop(p), UNCHANGED job
  PROVE  /\ PoppedOnce'
         /\ Head(pending[p]) \in Tasks \ picked
         /\ \A t \in picked' : job[t] \notin {"new", "added"}
         /\ result[Head(pending[p])] # "refused"
         /\ HasPending' => ready'
         /\ \A q \in Priorities : ToSet(pending'[q]) \subseteq ToSet(pending[q])
<1> DEFINE h == Head(pending[p])
<1>1. pending[p] \in Seq(Tasks) /\ pending[p] # <<>>
  BY DEF TypeOK, First
<1>2. /\ h \in Tasks /\ h \in ToSet(pending[p])
      /\ IsInjective(Tail(pending[p]))
      /\ ToSet(Tail(pending[p])) = ToSet(pending[p]) \ {h}
  BY <1>1, PopFromQueue DEF PoppedOnce
<1>3. h \notin picked /\ Priority(h) = p /\ job[h] \in {"queued", "offering", "givingUp"}
  BY <1>2 DEF PoppedOnce
<1>4. /\ pending' = [pending EXCEPT ![p] = Tail(pending[p])]
      /\ picked' = picked \cup {h}
      /\ \A q \in Priorities : pending'[q] = IF q = p THEN Tail(pending[p]) ELSE pending[q]
  BY DEF Pop, TypeOK
<1> HIDE DEF h
<1>5. PoppedOnce'
  <2>1. ASSUME NEW q \in Priorities PROVE IsInjective(pending'[q])
    BY <1>2, <1>4 DEF PoppedOnce
  <2>2. ASSUME NEW q \in Priorities, NEW t \in ToSet(pending'[q])
        PROVE  /\ Priority(t) = q
               /\ t \notin picked'
               /\ job'[t] \in {"queued", "offering", "givingUp"}
    <3>1. t \in ToSet(pending[q]) /\ (q = p => t # h)
      BY <1>2, <1>4, <2>2
    <3>2. Priority(t) = q /\ t \notin picked /\ job[t] \in {"queued", "offering", "givingUp"}
      BY <3>1 DEF PoppedOnce
    <3>3. t # h
      BY <1>3, <3>1, <3>2
    <3>4. QED BY <1>4, <3>2, <3>3
  <2>3. QED BY <2>1, <2>2 DEF PoppedOnce
<1>6. \A t \in picked' : job[t] \notin {"new", "added"}
  BY <1>3, <1>4 DEF Settled
<1>7. result[h] # "refused"
  BY <1>2, <1>3 DEF Settled
<1>8. HasPending' => ready'
  BY DEF Pop, HasPending
<1>9. \A q \in Priorities : ToSet(pending'[q]) \subseteq ToSet(pending[q])
  BY <1>2, <1>4
<1>10. QED BY <1>2, <1>3, <1>5, <1>6, <1>7, <1>8, <1>9 DEF h

(* What is handed over was on no worker. *)
LEMMA HandKeeps ==
  ASSUME TypeOK, Settled, OneHolder, NEW w \in Workers, NEW t \in Tasks \ picked,
         Hand(w, t), picked' = picked \cup {t}, UNCHANGED phase
  PROVE  /\ OneHolder'
         /\ \A v \in Workers : ToSet(stack'[v]) \subseteq picked'
         /\ \A v \in Workers : phase'[v] # "run" => stack'[v] # <<>>
<1>1. CASE UNCHANGED stack
  BY <1>1 DEF OneHolder, Settled
<1>2. CASE stack' = [stack EXCEPT ![w] = Cons(t, @)]
  <2>1. stack \in [Workers -> Seq(Tasks)]
    BY DEF TypeOK
  <2> DEFINE s == Cons(t, stack[w])
  <2>2. /\ DOMAIN s = 1..(Len(stack[w]) + 1) /\ s # <<>>
        /\ s[1] = t
        /\ \A i \in 2..(Len(stack[w]) + 1) : s[i] = stack[w][i - 1]
        /\ Len(stack[w]) \in Nat /\ DOMAIN stack[w] = 1..Len(stack[w])
    BY <2>1, PushOnStack, LenProperties
  <2> HIDE DEF s
  <2>3. \A v \in Workers : stack'[v] = IF v = w THEN s ELSE stack[v]
    BY <1>2, <2>1 DEF s
  <2>4. \A v \in Workers : \A i \in DOMAIN stack[v] : stack[v][i] \in picked
    BY DEF Settled, ToSet
  <2>5. \A i \in DOMAIN s :
          \/ i = 1 /\ s[i] = t
          \/ i - 1 \in DOMAIN stack[w] /\ s[i] = stack[w][i - 1]
    BY <2>2
  <2>6. ASSUME NEW u \in Workers, NEW v \in Workers, NEW i \in DOMAIN stack'[u],
               NEW j \in DOMAIN stack'[v], stack'[u][i] = stack'[v][j]
        PROVE  u = v /\ i = j
    <3>1. CASE u = w /\ v = w
      <4>1. i \in DOMAIN s /\ j \in DOMAIN s /\ s[i] = s[j]
        BY <2>3, <2>6, <3>1
      <4>2. i \in Int /\ j \in Int
        BY <2>2, <4>1
      <4>3. CASE i = 1 \/ j = 1
        <5>1. \A k \in DOMAIN s : k # 1 => s[k] # t
          BY <2>4, <2>5
        <5>2. i = 1 /\ j = 1
          BY <2>2, <4>1, <4>3, <5>1
        <5>3. QED BY <3>1, <5>2
      <4>4. CASE i # 1 /\ j # 1
        <5>1. i - 1 \in DOMAIN stack[w] /\ j - 1 \in DOMAIN stack[w]
              /\ stack[w][i - 1] = stack[w][j - 1]
          BY <2>5, <4>1, <4>4
        <5>2. i - 1 = j - 1
          BY <5>1 DEF OneHolder
        <5>3. QED BY <3>1, <4>2, <5>2
      <4>5. QED BY <4>3, <4>4
    <3>2. CASE u = w /\ v # w
      <4>1. i \in DOMAIN s /\ j \in DOMAIN stack[v] /\ s[i] = stack[v][j]
        BY <2>3, <2>6, <3>2
      <4>2. QED BY <2>4, <2>5, <3>2, <4>1 DEF OneHolder
    <3>3. CASE u # w /\ v = w
      <4>1. i \in DOMAIN stack[u] /\ j \in DOMAIN s /\ s[j] = stack[u][i]
        BY <2>3, <2>6, <3>3
      <4>2. QED BY <2>4, <2>5, <3>3, <4>1 DEF OneHolder
    <3>4. CASE u # w /\ v # w
      BY <2>3, <2>6, <3>4 DEF OneHolder
    <3>5. QED BY <3>1, <3>2, <3>3, <3>4
  <2>7. OneHolder'
    BY <2>6 DEF OneHolder
  <2>8. ToSet(s) \subseteq picked'
    BY <2>4, <2>5 DEF ToSet
  <2>9. \A v \in Workers : ToSet(stack'[v]) \subseteq picked'
    BY <2>3, <2>8 DEF Settled
  <2>10. \A v \in Workers : phase'[v] # "run" => stack'[v] # <<>>
    BY <2>2, <2>3 DEF Settled
  <2>11. QED BY <2>7, <2>9, <2>10
<1>3. QED BY <1>1, <1>2 DEF Hand

(* What a worker leaves, no one else gets. *)
LEMMA TailKeeps ==
  ASSUME TypeOK, Settled, OneHolder, picked' = picked,
         stack' \in [Workers -> Seq(Tasks)],
         \A v \in Workers : \/ stack'[v] = stack[v]
                            \/ stack'[v] = <<>>
                            \/ stack[v] # <<>> /\ stack'[v] = Tail(stack[v])
  PROVE  /\ OneHolder'
         /\ \A v \in Workers : ToSet(stack'[v]) \subseteq picked'
<1>1. ASSUME NEW v \in Workers, NEW i \in DOMAIN stack'[v]
      PROVE  \/ i \in DOMAIN stack[v] /\ stack'[v] = stack[v]
             \/ /\ i + 1 \in DOMAIN stack[v] /\ stack'[v][i] = stack[v][i + 1]
                /\ i \in Nat /\ stack'[v] = Tail(stack[v])
  <2>1. CASE stack'[v] = stack[v]
    BY <1>1, <2>1
  <2>2. CASE stack'[v] = <<>>
    BY <1>1, <2>2
  <2>3. CASE stack[v] # <<>> /\ stack'[v] = Tail(stack[v])
    <3>1. stack[v] \in Seq(Tasks)
      BY DEF TypeOK
    <3>2. /\ Len(Tail(stack[v])) = Len(stack[v]) - 1
          /\ \A k \in 1..Len(Tail(stack[v])) : Tail(stack[v])[k] = stack[v][k + 1]
          /\ DOMAIN Tail(stack[v]) = 1..Len(Tail(stack[v]))
          /\ DOMAIN stack[v] = 1..Len(stack[v]) /\ Len(stack[v]) \in Nat
      BY <2>3, <3>1, HeadTailProperties, LenProperties
    <3>3. QED BY <1>1, <2>3, <3>2
  <2>4. QED BY <2>1, <2>2, <2>3
<1>2. OneHolder'
  <2>1. ASSUME NEW u \in Workers, NEW v \in Workers, NEW i \in DOMAIN stack'[u],
               NEW j \in DOMAIN stack'[v], stack'[u][i] = stack'[v][j]
        PROVE  u = v /\ i = j
    <3>1. PICK a \in DOMAIN stack[u] : stack[u][a] = stack'[u][i] /\
                 (\/ a = i /\ stack'[u] = stack[u]
                  \/ a = i + 1 /\ i \in Nat /\ stack'[u] = Tail(stack[u]))
      BY <1>1
    <3>2. PICK b \in DOMAIN stack[v] : stack[v][b] = stack'[v][j] /\
                 (\/ b = j /\ stack'[v] = stack[v]
                  \/ b = j + 1 /\ j \in Nat /\ stack'[v] = Tail(stack[v]))
      BY <1>1
    <3>3. u = v /\ a = b
      BY <2>1, <3>1, <3>2 DEF OneHolder
    <3>4. CASE stack'[u] = stack[u] /\ a = i
      <4>1. CASE stack'[v] = stack[v] /\ b = j
        BY <3>3, <3>4, <4>1
      <4>2. CASE stack'[v] = Tail(stack[v]) /\ b = j + 1 /\ stack'[v] # stack[v]
        BY <3>3, <3>4, <4>2
      <4>3. CASE stack'[v] = Tail(stack[v]) /\ stack'[v] = stack[v] /\ b = j + 1 /\ j \in Nat
        <5>1. stack[v] # <<>> /\ stack[v] \in Seq(Tasks)
          BY <3>2, EmptySeq DEF TypeOK
        <5>2. Len(Tail(stack[v])) = Len(stack[v]) - 1 /\ Len(stack[v]) \in Nat
          BY <5>1, HeadTailProperties, LenProperties
        <5>3. QED BY <4>3, <5>2
      <4>4. QED BY <3>2, <4>1, <4>2, <4>3
    <3>5. CASE stack'[u] = Tail(stack[u]) /\ a = i + 1 /\ i \in Nat
      <4>1. stack[u] # <<>> /\ stack[u] \in Seq(Tasks)
        BY <3>1, EmptySeq DEF TypeOK
      <4>2. stack'[u] # stack[u]
        <5>1. Len(Tail(stack[u])) = Len(stack[u]) - 1 /\ Len(stack[u]) \in Nat
          BY <4>1, HeadTailProperties, LenProperties
        <5>2. Len(stack'[u]) # Len(stack[u])
          BY <3>5, <5>1
        <5>3. QED BY <5>2
      <4>3. b = j + 1 /\ j \in Nat
        BY <3>2, <3>3, <4>2
      <4>4. i + 1 = j + 1 /\ i \in Nat /\ j \in Nat
        BY <3>3, <3>5, <4>3
      <4>5. i = j
        BY <4>4
      <4>6. QED BY <3>3, <4>5
    <3>6. QED BY <3>1, <3>4, <3>5
  <2>2. QED BY <2>1 DEF OneHolder
<1>3. ASSUME NEW v \in Workers PROVE ToSet(stack'[v]) \subseteq picked'
  BY <1>1 DEF Settled, ToSet
<1>4. QED BY <1>2, <1>3

-------------------------------------------------------------------------------

LEMMA InvInit == Init => IInv
<1> SUFFICES ASSUME Init PROVE IInv
  OBVIOUS
<1>1. TypeOK
  <2>1. /\ ids \in Nat /\ boots \in Nat /\ faults \in Nat /\ ready \in BOOLEAN
        /\ running \subseteq Tasks /\ picked \subseteq Tasks /\ gone \subseteq Workers
    BY DEF Init
  <2>2. /\ id \in [Tasks -> Nat]
        /\ stop \in [Workers -> Nat] /\ answer \in [Workers -> Nat]
    BY DEF Init
  <2>3. pending \in [Priorities -> Seq(Tasks)] /\ stack \in [Workers -> Seq(Tasks)]
    BY DEF Init
  <2>4. /\ done \in [Tasks -> {"none", "ok", "err"}]
        /\ job \in [Tasks -> JobStates]
        /\ result \in [Tasks -> Results]
        /\ call \in [Workers -> {"none", "take", "wait", "nested"}]
        /\ phase \in [Workers -> {"run", "reporting", "failing"}]
    BY DEF Init, JobStates, Results
  <2>5. report \in [Workers -> Reports \cup {NoReport}]
    BY DEF Init
  <2>6. QED BY <2>1, <2>2, <2>3, <2>4, <2>5 DEF TypeOK
<1>2. Settled
  BY DEF Init, Settled, ToSet
<1>3. PoppedOnce
  BY DEF Init, PoppedOnce, IsInjective, ToSet
<1>4. NoLostWakeup
  BY DEF Init, NoLostWakeup, HasPending
<1>5. OneHolder
  BY DEF Init, OneHolder
<1>6. QED BY <1>1, <1>2, <1>3, <1>4, <1>5 DEF IInv

LEMMA InvJobStep ==
  ASSUME IInv, NEW t \in Tasks, JobStep(t)
  PROVE  IInv'
<1> USE DEF IInv
<1>1. TypeOK'
  BY TypeJobStep
<1>2. UNCHANGED <<stack, phase, call, picked>>
  BY DEF JobStep, Add, Push, Wake, OfferPicked, OfferGivesUp, Withdraw, RunDone, RunGivesUp,
         RemoveTask, rpcVars, workerVars
<1>3. OneHolder'
  BY <1>2 DEF OneHolder
<1>4. /\ \A w \in Workers : ToSet(stack'[w]) \subseteq picked'
      /\ \A w \in Workers : phase'[w] # "run" => stack'[w] # <<>>
  BY <1>2 DEF Settled
<1>5. CASE Push(t)
  <2> DEFINE q == pending[Priority(t)]
  <2>1. Priority(t) \in Priorities /\ q \in Seq(Tasks) /\ job[t] = "added"
    BY <1>5, PriorityType DEF TypeOK, Push
  <2>2. t \notin picked /\ t \notin ToSet(q)
    BY <2>1 DEF Settled, PoppedOnce
  <2>3. ToSet(Append(q, t)) = ToSet(q) \cup {t} /\ IsInjective(Append(q, t))
    BY <2>1, <2>2, AppendToQueue DEF PoppedOnce
  <2>4. \A p \in Priorities : pending'[p] = IF p = Priority(t) THEN Append(q, t) ELSE pending[p]
    BY <1>5, <2>1 DEF Push, TypeOK
  <2>5. \A u \in Tasks : job'[u] = IF u = t THEN "queued" ELSE job[u]
    BY <1>5 DEF Push, TypeOK
  <2>6. \A p \in Priorities : ToSet(pending[p]) \subseteq Tasks
    BY DEF TypeOK, ToSet
  <2> HIDE DEF q
  <2>7. PoppedOnce'
    <3>1. \A p \in Priorities : IsInjective(pending'[p])
      BY <2>3, <2>4 DEF PoppedOnce
    <3>2. ASSUME NEW p \in Priorities, NEW u \in ToSet(pending'[p])
          PROVE  /\ Priority(u) = p
                 /\ u \notin picked'
                 /\ job'[u] \in {"queued", "offering", "givingUp"}
      <4>1. CASE u = t
        <5>1. p = Priority(t)
          BY <2>1, <2>4, <3>2, <4>1 DEF PoppedOnce
        <5>2. QED BY <1>2, <2>2, <2>5, <4>1, <5>1
      <4>2. CASE u # t
        <5>1. u \in ToSet(pending[p]) /\ u \in Tasks
          BY <2>1, <2>3, <2>4, <2>6, <3>2, <4>2 DEF q
        <5>2. QED BY <1>2, <2>5, <4>2, <5>1 DEF PoppedOnce
      <4>3. QED BY <4>1, <4>2
    <3>3. QED BY <3>1, <3>2 DEF PoppedOnce
  <2>8. NoLostWakeup'
    BY <2>5 DEF NoLostWakeup
  <2>9. Settled'
    <3>1. result' = result
      BY <1>5 DEF Push
    <3>2. \A u \in picked' : job'[u] \notin {"new", "added"}
      BY <1>2, <2>2, <2>5 DEF Settled, TypeOK
    <3>3. \A u \in Tasks : result'[u] = "refused" =>
            u \notin picked' /\ job'[u] \in {"leaving", "ended", "lost"}
      BY <1>2, <2>1, <2>5, <3>1 DEF Settled
    <3>4. LeftOver'
      <4>1. LeftOver /\ running' = running
        BY <1>5 DEF Settled, LeftOver, Push
      <4>2. \A p \in Priorities : ToSet(pending'[p]) \subseteq ToSet(pending[p]) \cup {t}
        BY <2>3, <2>4 DEF q
      <4>3. \A u \in Tasks : job'[u] \in {"ended", "lost"} => u # t /\ job[u] \in {"ended", "lost"}
        BY <2>5
      <4>4. QED BY <4>1, <4>2, <4>3 DEF LeftOver
    <3>5. QED BY <1>4, <3>2, <3>3, <3>4 DEF Settled, LeftOver
  <2>10. QED BY <1>1, <1>3, <2>7, <2>8, <2>9
<1>6. CASE Withdraw(t) /\ pending' # pending
  <2> DEFINE q == pending[Priority(t)]
  <2>1. Priority(t) \in Priorities /\ q \in Seq(Tasks) /\ job[t] = "givingUp"
    BY <1>6, PriorityType DEF TypeOK, Withdraw
  <2>2. PICK i \in DOMAIN q :
          /\ q[i] = t
          /\ pending' = [pending EXCEPT ![Priority(t)] = RemoveAt(q, i)]
          /\ job' = [job EXCEPT ![t] = "leaving"]
          /\ result' = [result EXCEPT ![t] = "refused"]
    BY <1>6 DEF Withdraw
  <2>3. /\ ToSet(RemoveAt(q, i)) \subseteq ToSet(q)
        /\ IsInjective(RemoveAt(q, i))
        /\ t \notin ToSet(RemoveAt(q, i))
        /\ t \in ToSet(q)
    <3>1. IsInjective(q)
      BY <2>1 DEF PoppedOnce
    <3>2. /\ ToSet(RemoveAt(q, i)) \subseteq ToSet(q)
          /\ IsInjective(RemoveAt(q, i))
          /\ q[i] \notin ToSet(RemoveAt(q, i))
      BY <2>1, <2>2, <3>1, RemoveFromQueue
    <3>3. q[i] \in ToSet(q)
      BY <2>2 DEF ToSet
    <3>4. QED BY <2>2, <3>2, <3>3
  <2>4. \A p \in Priorities : pending'[p] = IF p = Priority(t) THEN RemoveAt(q, i) ELSE pending[p]
    BY <2>1, <2>2 DEF TypeOK
  <2>5. \A u \in Tasks : /\ job'[u] = IF u = t THEN "leaving" ELSE job[u]
                         /\ result'[u] = IF u = t THEN "refused" ELSE result[u]
    BY <2>2 DEF TypeOK
  <2>6. \A p \in Priorities : ToSet(pending[p]) \subseteq Tasks
    BY DEF TypeOK, ToSet
  <2>7. t \notin picked
    BY <2>1, <2>3 DEF PoppedOnce
  <2> HIDE DEF q
  <2>8. PoppedOnce'
    <3>1. \A p \in Priorities : IsInjective(pending'[p])
      BY <2>3, <2>4 DEF PoppedOnce
    <3>2. ASSUME NEW p \in Priorities, NEW u \in ToSet(pending'[p])
          PROVE  /\ Priority(u) = p
                 /\ u \notin picked'
                 /\ job'[u] \in {"queued", "offering", "givingUp"}
      <4>1. u \in ToSet(pending[p]) /\ u \in Tasks
        BY <2>1, <2>3, <2>4, <2>6, <3>2 DEF q
      <4>2. Priority(u) = p /\ u \notin picked /\ job[u] \in {"queued", "offering", "givingUp"}
        BY <4>1 DEF PoppedOnce
      <4>3. u # t
        BY <2>3, <2>4, <3>2, <4>2
      <4>4. QED BY <1>2, <2>5, <4>1, <4>2, <4>3
    <3>3. QED BY <3>1, <3>2 DEF PoppedOnce
  <2>9. NoLostWakeup'
    <3>1. HasPending' => HasPending
      BY <2>1, <2>3, <2>4 DEF HasPending, ToSet, q
    <3>2. ready' = ready
      BY <1>6 DEF Withdraw
    <3>3. \A u \in Tasks : job[u] = "queued" => job'[u] = "queued"
      BY <2>1, <2>5
    <3>4. QED BY <1>2, <3>1, <3>2, <3>3 DEF NoLostWakeup
  <2>10. Settled'
    <3>1. \A u \in picked' : job'[u] \notin {"new", "added"}
      BY <1>2, <2>5, <2>7 DEF Settled, TypeOK
    <3>2. \A u \in Tasks : result'[u] = "refused" =>
            u \notin picked' /\ job'[u] \in {"leaving", "ended", "lost"}
      BY <1>2, <2>5, <2>7 DEF Settled
    <3>3. LeftOver'
      <4>1. LeftOver /\ running' = running
        BY <1>6 DEF Settled, LeftOver, Withdraw
      <4>2. \A p \in Priorities : ToSet(pending'[p]) \subseteq ToSet(pending[p])
        BY <2>3, <2>4 DEF q
      <4>3. \A u \in Tasks : job'[u] \in {"ended", "lost"} => job[u] \in {"ended", "lost"}
        BY <2>5
      <4>4. QED BY <4>1, <4>2, <4>3 DEF LeftOver
    <3>4. QED BY <1>4, <3>1, <3>2, <3>3 DEF Settled, LeftOver
  <2>11. QED BY <1>1, <1>3, <2>8, <2>9, <2>10
<1>7. CASE ~Push(t) /\ pending' = pending
  <2>1. \A u \in Tasks : u # t => job'[u] = job[u] /\ result'[u] = result[u]
    BY <1>7 DEF TypeOK, JobStep, Add, Wake, OfferPicked, OfferGivesUp, Withdraw, RunDone,
                RunGivesUp, RemoveTask
  <2>2. \/ /\ result' = result
           /\ \/ job[t] = "new" /\ job'[t] = "added"
              \/ job[t] = "queued" /\ job'[t] = "offering" /\ ready'
              \/ job[t] = "offering" /\ job'[t] = "givingUp"
              \/ job[t] = "offering" /\ job'[t] = "working" /\ t \in picked
              \/ /\ job[t] = "givingUp" /\ job'[t] = "working"
                 /\ t \notin ToSet(pending[Priority(t)])
              \/ job[t] = "leaving" /\ job'[t] = "ended"
        \/ job[t] = "working" /\ job'[t] = "leaving" /\ result'[t] # "refused"
    <3>1. job \in [Tasks -> JobStates] /\ result \in [Tasks -> Results]
          /\ done[t] \in {"none", "ok", "err"}
      BY DEF TypeOK
    <3>2. CASE Add(t) \/ Wake(t) \/ OfferPicked(t) \/ OfferGivesUp(t) \/ RemoveTask(t)
      BY <3>1, <3>2 DEF Add, Wake, OfferPicked, OfferGivesUp, RemoveTask
    <3>3. CASE RunDone(t) \/ RunGivesUp(t)
      BY <3>1, <3>3 DEF RunDone, RunGivesUp
    <3>4. CASE Withdraw(t)
      <4>1. CASE \A i \in DOMAIN pending[Priority(t)] : pending[Priority(t)][i] # t
        BY <3>1, <3>4, <4>1 DEF Withdraw, ToSet
      <4>2. CASE \E i \in DOMAIN pending[Priority(t)] : pending[Priority(t)][i] = t
        <5>1. PICK i \in DOMAIN pending[Priority(t)] :
                pending' = [pending EXCEPT ![Priority(t)] = RemoveAt(@, i)]
          BY <3>4, <4>2 DEF Withdraw
        <5>2. Priority(t) \in Priorities /\ pending[Priority(t)] \in Seq(Tasks)
          <6>1. pending \in [Priorities -> Seq(Tasks)]
            BY SMTT(20) DEF TypeOK
          <6>2. QED BY <6>1, PriorityType
        <5>3. pending[Priority(t)] = RemoveAt(pending[Priority(t)], i)
          BY <1>7, <5>1, <5>2 DEF TypeOK
        <5>4. IsInjective(pending[Priority(t)])
          BY <5>2 DEF PoppedOnce
        <5>5. pending[Priority(t)][i] \notin ToSet(RemoveAt(pending[Priority(t)], i))
          BY <5>2, <5>4, RemoveFromQueue
        <5>6. pending[Priority(t)][i] \in ToSet(pending[Priority(t)])
          BY DEF ToSet
        <5>7. QED BY <5>3, <5>5, <5>6
      <4>3. QED BY <4>1, <4>2
    <3>5. QED BY <1>7, <3>2, <3>3, <3>4 DEF JobStep
  <2>3. result'[t] = "refused" => result[t] = "refused"
    BY <2>2
  <2>4. job[t] # "queued" => ready' = ready
    BY <1>7 DEF JobStep, Add, Wake, OfferPicked, OfferGivesUp, Withdraw, RunDone,
                RunGivesUp, RemoveTask
  <2>5. PoppedOnce'
    BY <1>2, <1>7, <2>1, <2>2 DEF PoppedOnce, Settled, TypeOK, ToSet
  <2>6. NoLostWakeup'
    BY <1>2, <1>7, <2>1, <2>2, <2>4 DEF NoLostWakeup, HasPending
  <2>7. LeftOver'
    <3>1. CASE RemoveTask(t)
      <4>1. \A u \in running' : u \in running /\ u # t
        BY <3>1 DEF RemoveTask
      <4>2. job[t] = "leaving"
        BY <3>1 DEF RemoveTask
      <4>3. \A p \in Priorities : t \notin ToSet(pending[p])
        BY <4>2 DEF PoppedOnce
      <4>4. QED BY <1>7, <2>1, <4>1, <4>3 DEF Settled, LeftOver
    <3>2. CASE ~RemoveTask(t)
      <4>1. \A u \in running' : u \in running \/ (u = t /\ job'[t] = "added")
        BY <1>7, <3>2 DEF JobStep, Add, Wake, OfferPicked, OfferGivesUp, Withdraw, RunDone,
                          RunGivesUp, TypeOK
      <4>2. \A u \in Tasks : job'[u] \in {"ended", "lost"} => job[u] \in {"ended", "lost"}
        BY <1>7, <2>1, <3>2 DEF JobStep, Add, Wake, OfferPicked, OfferGivesUp, Withdraw,
                                RunDone, RunGivesUp, TypeOK
      <4>3. QED BY <1>7, <4>1, <4>2 DEF Settled, LeftOver
    <3>3. QED BY <3>1, <3>2
  <2>8. Settled'
    BY <1>2, <1>4, <2>1, <2>2, <2>3, <2>7 DEF Settled, LeftOver, TypeOK
  <2>9. QED BY <1>1, <1>3, <2>5, <2>6, <2>8
<1>8. QED
  BY <1>5, <1>6, <1>7 DEF JobStep, Add, Wake, OfferPicked, OfferGivesUp, RunDone, RunGivesUp,
                          RemoveTask

(* Steps that only take tasks off a worker's stack, or change nothing the   *)
(* invariant looks at.                                                     *)
LEMMA InvQuiet ==
  ASSUME IInv, TypeOK',
         UNCHANGED <<pending, running, picked, job, result>>,
         \A v \in Workers : \/ stack'[v] = stack[v]
                            \/ stack'[v] = <<>>
                            \/ stack[v] # <<>> /\ stack'[v] = Tail(stack[v]),
         \A v \in Workers : phase'[v] # "run" => stack[v] # <<>> /\ stack'[v] = stack[v],
         ready => ready' \/ \E w \in Workers : call'[w] = "take",
         \A w \in Workers : call[w] = "take" => call'[w] = "take" \/ ~HasPending
  PROVE  IInv'
<1> USE DEF IInv
<1>1. stack' \in [Workers -> Seq(Tasks)]
  BY DEF TypeOK
<1>2. OneHolder' /\ \A v \in Workers : ToSet(stack'[v]) \subseteq picked'
  <2>1. TypeOK /\ Settled /\ OneHolder /\ picked' = picked
    OBVIOUS
  <2>2. \A v \in Workers : \/ stack'[v] = stack[v]
                           \/ stack'[v] = <<>>
                           \/ stack[v] # <<>> /\ stack'[v] = Tail(stack[v])
    OBVIOUS
  <2> HIDE DEF IInv
  <2>3. QED BY ONLY <1>1, <2>1, <2>2, TailKeeps
<1>3. Settled'
  BY <1>2 DEF Settled
<1>4. PoppedOnce'
  BY DEF PoppedOnce
<1>5. NoLostWakeup'
  BY DEF NoLostWakeup, HasPending
<1>6. QED BY <1>2, <1>3, <1>4, <1>5

(* Steps that hand a task out. *)
LEMMA InvHand ==
  ASSUME IInv, TypeOK', NEW w \in Workers, NEW p \in Priorities,
         First(p), Pop(p), Hand(w, Head(pending[p])), UNCHANGED <<running, job, result, phase>>
  PROVE  IInv'
<1> USE DEF IInv
<1>1. /\ PoppedOnce'
      /\ Head(pending[p]) \in Tasks \ picked
      /\ \A t \in picked' : job[t] \notin {"new", "added"}
      /\ result[Head(pending[p])] # "refused"
      /\ HasPending' => ready'
      /\ \A q \in Priorities : ToSet(pending'[q]) \subseteq ToSet(pending[q])
  BY PopKeeps
<1>2. picked' = picked \cup {Head(pending[p])}
  BY DEF Pop
<1>3. /\ OneHolder'
      /\ \A v \in Workers : ToSet(stack'[v]) \subseteq picked'
      /\ \A v \in Workers : phase'[v] # "run" => stack'[v] # <<>>
  BY <1>1, <1>2, HandKeeps
<1>4. Settled'
  BY <1>1, <1>2, <1>3 DEF Settled
<1>5. NoLostWakeup'
  BY <1>1 DEF NoLostWakeup
<1>6. QED BY <1>1, <1>3, <1>4, <1>5

LEMMA InvHandlerStep ==
  ASSUME IInv, NEW w \in Workers, HandlerStep(w)
  PROVE  IInv'
<1>1. TypeOK'
  BY TypeHandlerStep DEF IInv
<1>2. /\ call \in [Workers -> {"none", "take", "wait", "nested"}]
      /\ phase \in [Workers -> {"run", "reporting", "failing"}]
      /\ stack \in [Workers -> Seq(Tasks)]
      /\ \A v \in Workers : phase[v] # "run" => stack[v] # <<>>
  BY DEF IInv, TypeOK, Settled
<1>3. CASE TakeAny(w)
  <2>1. PICK p \in Priorities : First(p) /\ Pop(p) /\ Hand(w, Head(pending[p]))
    BY <1>3 DEF TakeAny
  <2>2. UNCHANGED <<running, job, result, phase>>
    BY <1>3 DEF TakeAny
  <2>3. QED BY <1>1, <2>1, <2>2, InvHand
<1>4. CASE TakeNothing(w)
  BY <1>1, <1>2, <1>4, InvQuiet DEF TakeNothing, apiVars, workerVars
<1>5. CASE Woken(w)
  BY <1>1, <1>2, <1>5, InvQuiet DEF Woken, workerVars
<1>6. CASE PollEnds(w)
  BY <1>1, <1>2, <1>6, InvQuiet DEF PollEnds, apiVars
<1>7. CASE TakeWaiting(w)
  <2>1. CASE \E p \in 1..(Training - 1) : First(p) /\ Pop(p) /\ Hand(w, Head(pending[p]))
    <3>1. PICK p \in Priorities : First(p) /\ Pop(p) /\ Hand(w, Head(pending[p]))
      BY <2>1 DEF Training, Priorities
    <3>2. UNCHANGED <<running, job, result, phase>>
      BY <1>7 DEF TakeWaiting
    <3>3. QED BY <1>1, <3>1, <3>2, InvHand
  <2>2. CASE UNCHANGED <<pending, picked, ready, stack, stop, faults>>
    BY <1>1, <1>2, <1>7, <2>2, InvQuiet DEF TakeWaiting
  <2>3. QED BY <1>7, <2>1, <2>2 DEF TakeWaiting
<1>8. CASE Apply(w)
  <2>1. PICK ends \in BOOLEAN : Answered(w, ends)
    BY <1>8 DEF Apply, Unsaved
  <2>2. UNCHANGED <<pending, running, picked, job, result, ready, call>>
    BY <1>8 DEF Apply
  <2>3. \/ Leave(w) /\ stack[w] # <<>>
        \/ \E q \in {"run", "failing"} : Continue(w, q) /\ stack[w] # <<>>
        \/ UNCHANGED <<stack, phase>>
    BY <1>2, <2>1 DEF Answered, Broken
  <2>4. /\ \A v \in Workers : \/ stack'[v] = stack[v]
                              \/ stack[v] # <<>> /\ stack'[v] = Tail(stack[v])
        /\ \A v \in Workers : phase'[v] # "run" => stack[v] # <<>> /\ stack'[v] = stack[v]
    BY <1>2, <2>3 DEF Leave, Continue
  <2>5. QED BY <1>1, <2>2, <2>4, InvQuiet
<1>9. QED BY <1>3, <1>4, <1>5, <1>6, <1>7, <1>8 DEF HandlerStep

LEMMA InvWorkerStep ==
  ASSUME IInv, NEW w \in Workers, WorkerStep(w)
  PROVE  IInv'
<1>1. TypeOK'
  BY TypeWorkerStep DEF IInv
<1>2. /\ call \in [Workers -> {"none", "take", "wait", "nested"}]
      /\ phase \in [Workers -> {"run", "reporting", "failing"}]
      /\ stack \in [Workers -> Seq(Tasks)]
      /\ \A v \in Workers : phase[v] # "run" => stack[v] # <<>>
  BY DEF IInv, TypeOK, Settled
<1>3. /\ UNCHANGED <<pending, running, picked, job, result, ready>>
      /\ \A v \in Workers : call[v] = "take" => call'[v] = "take"
  <2>1. UNCHANGED <<pending, running, picked, job, result, ready>>
    BY DEF WorkerStep, Poll, CheckIn, Report, ReportLost, StopTask, Heartbeat,
           HeartbeatAnswered, WorkerDies, apiVars
  <2>2. \A v \in Workers : call[v] = "take" => call'[v] = "take"
    BY <1>2 DEF WorkerStep, Poll, CheckIn, Report, ReportLost, StopTask, Heartbeat,
                HeartbeatAnswered, WorkerDies, rpcVars
  <2>3. QED BY <2>1, <2>2
<1>4. \/ UNCHANGED <<stack, phase>>
      \/ Leave(w) /\ stack[w] # <<>>
      \/ \E q \in {"run", "reporting", "failing"} : Continue(w, q) /\ stack[w] # <<>>
      \/ CheckIn(w) \/ WorkerDies(w)
  BY DEF WorkerStep, Poll, Report, ReportLost, StopTask, Heartbeat, HeartbeatAnswered,
         CanReport, Broken, Cancelled, WorkingOn, workerVars
<1>5. /\ \A v \in Workers : \/ stack'[v] = stack[v]
                            \/ stack'[v] = <<>>
                            \/ stack[v] # <<>> /\ stack'[v] = Tail(stack[v])
      /\ \A v \in Workers : phase'[v] # "run" => stack[v] # <<>> /\ stack'[v] = stack[v]
  BY <1>2, <1>4 DEF Leave, Continue, CheckIn, WorkerDies
<1>6. QED BY <1>1, <1>3, <1>5, InvQuiet

LEMMA InvRestart ==
  ASSUME IInv, ApiRestarts
  PROVE  IInv'
<1> USE DEF IInv
<1>1. TypeOK'
  BY TypeRestart
<1>2. \A p \in Priorities : pending'[p] = <<>>
  BY DEF ApiRestarts
<1>3. PoppedOnce'
  BY <1>2 DEF PoppedOnce, IsInjective, ToSet
<1>4. NoLostWakeup'
  BY <1>2 DEF NoLostWakeup, HasPending
<1>5. stack \in [Workers -> Seq(Tasks)] /\ phase \in [Workers -> {"run", "reporting", "failing"}]
  BY DEF TypeOK
<1>6. \A v \in Workers : \/ stack'[v] = stack[v]
                         \/ stack[v] # <<>> /\ stack'[v] = Tail(stack[v])
  BY <1>5 DEF ApiRestarts, Settled
<1>7. \A v \in Workers : phase'[v] # "run" => stack'[v] # <<>>
  BY <1>5 DEF ApiRestarts, Settled
<1>8. UNCHANGED picked /\ UNCHANGED result
  BY DEF ApiRestarts
<1>9. OneHolder' /\ \A v \in Workers : ToSet(stack'[v]) \subseteq picked'
  <2>1. TypeOK /\ Settled /\ OneHolder /\ picked' = picked
    BY <1>8
  <2>2. stack' \in [Workers -> Seq(Tasks)]
    BY <1>1 DEF TypeOK
  <2> HIDE DEF IInv
  <2>3. QED BY ONLY <1>6, <2>1, <2>2, TailKeeps
<1>10. Settled'
  <2>1. \A t \in Tasks : job'[t] = IF job[t] \in {"new", "ended"} THEN job[t] ELSE "lost"
    BY DEF ApiRestarts
  <2>2. \A t \in picked' : job'[t] \notin {"new", "added"}
    BY <1>8, <2>1 DEF Settled, TypeOK
  <2>3. \A t \in Tasks : result'[t] = "refused" =>
          t \notin picked' /\ job'[t] \in {"leaving", "ended", "lost"}
    BY <1>8, <2>1 DEF Settled
  <2>4. LeftOver'
    BY <1>2 DEF ApiRestarts, LeftOver, ToSet
  <2>5. QED BY <1>7, <1>9, <2>2, <2>3, <2>4 DEF Settled, LeftOver
<1>11. QED BY <1>1, <1>3, <1>4, <1>9, <1>10

LEMMA InvStutter ==
  ASSUME IInv, UNCHANGED vars
  PROVE  IInv'
BY DEF IInv, TypeOK, Settled, PoppedOnce, NoLostWakeup, OneHolder, HasPending, vars, apiVars,
       rpcVars, workerVars, boundVars

(* IInv holds in every reachable state. *)
THEOREM Inductive == Spec => []IInv
<1>1. Init => IInv
  BY InvInit
<1>2. IInv /\ [Next]_vars => IInv'
  BY InvJobStep, InvHandlerStep, InvWorkerStep, InvRestart, InvStutter DEF Next
<1>3. QED BY <1>1, <1>2, PTL DEF Spec

(* Every variable keeps its type: the worker never leaves a task it is not  *)
(* in, and the dispatcher never pops an empty queue.                       *)
THEOREM TypeCorrect == Spec => []TypeOK
BY Inductive, PTL DEF IInv

(* However many jobs and workers there are, one buffered token is enough:   *)
(* a waiting task is never left without a wakeup on the way.               *)
THEOREM WakeupsSurvive == Spec => []NoLostWakeup
BY Inductive, PTL DEF IInv

(* The channel that takeBefore closes is never closed twice. *)
THEOREM NeverPoppedTwice == Spec => []PoppedOnce
BY Inductive, PTL DEF IInv

(* A task has one holder, whatever crashes and gets lost. *)
THEOREM SingleHolder == Spec => []OneHolder
BY Inductive, PTL DEF IInv

(* A job told that no worker took its task can rely on it: none has it, and *)
(* none will.                                                              *)
THEOREM RefusalIsFinal == Spec => []RefusedNeverRuns
<1>1. IInv => RefusedNeverRuns
  <2> SUFFICES ASSUME IInv, NEW t \in Tasks, result[t] = "refused"
               PROVE  /\ t \notin picked
                      /\ ~Waiting(t)
                      /\ \A w \in Workers : t \notin ToSet(stack[w])
    BY DEF RefusedNeverRuns
  <2>1. t \notin picked /\ job[t] \in {"leaving", "ended", "lost"}
    BY DEF IInv, Settled
  <2>2. ~Waiting(t)
    BY <2>1, PriorityType DEF IInv, PoppedOnce, Waiting
  <2>3. QED BY <2>1, <2>2 DEF IInv, Settled
<1>2. QED BY <1>1, Inductive, PTL

-------------------------------------------------------------------------------
(* Numbers.  They tell tasks apart only until the first restart, after     *)
(* which they are given out again.                                         *)

(* The task that had number n is over, and no other will get the number. *)
Over(n) == n \in 1..ids /\ \A t \in Tasks : id[t] = n => job[t] = "ended"

(* A task has a number of its own, under which it is registered for as     *)
(* long as its job lives; what the heartbeat says of a number is that the  *)
(* job which had it is over.                                               *)
Numbered ==
  /\ \A t \in Tasks : job[t] # "lost" /\ id[t] <= ids /\ (id[t] = 0 <=> job[t] = "new")
  /\ \A t, u \in Tasks : id[t] = id[u] /\ id[t] # 0 => t = u
  /\ running = {t \in Tasks : job[t] \notin {"new", "ended"}}
  /\ \A w \in Workers : answer[w] # 0 => Over(answer[w])
  /\ \A w \in Workers : stop[w] # 0 => Over(stop[w])
  /\ OwnResults

UntilRestart == boots = 0 => Numbered

(* A job that lives goes on, and nothing else happens to the numbers. *)
LEMMA NumberedQuiet ==
  ASSUME Numbered, UNCHANGED <<ids, id, running>>,
         \A t \in Tasks : \/ job'[t] = job[t]
                          \/ /\ job[t] \notin {"new", "ended", "lost"}
                             /\ job'[t] \notin {"new", "ended", "lost"},
         \A w \in Workers : answer'[w] \in {0, answer[w]} \/ Over(answer'[w]),
         \A w \in Workers : stop'[w] \in {0, stop[w], answer[w]},
         \A w \in Workers : \/ report'[w] = report[w]
                            \/ report'[w].task = report'[w].from
  PROVE  Numbered'
<1>1. \A n : Over(n) => Over(n)'
  BY DEF Over
<1>2. \A t \in Tasks : job'[t] # "lost" /\ id'[t] <= ids' /\ (id'[t] = 0 <=> job'[t] = "new")
  BY DEF Numbered
<1>3. \A t, u \in Tasks : id'[t] = id'[u] /\ id'[t] # 0 => t = u
  BY DEF Numbered
<1>4. running' = {t \in Tasks : job'[t] \notin {"new", "ended"}}
  BY DEF Numbered
<1>5. \A w \in Workers : answer'[w] # 0 => Over(answer[w])'
  BY <1>1 DEF Numbered
<1>6. \A w \in Workers : stop'[w] # 0 => Over(stop[w])'
  BY <1>1 DEF Numbered
<1>7. OwnResults'
  BY DEF Numbered, OwnResults
<1>8. QED BY <1>2, <1>3, <1>4, <1>5, <1>6, <1>7 DEF Numbered

LEMMA NumberedAdd ==
  ASSUME TypeOK, Numbered, NEW t \in Tasks, Add(t)
  PROVE  Numbered'
<1>1. /\ ids' = ids + 1 /\ ids \in Nat
      /\ \A u \in Tasks : id'[u] = IF u = t THEN ids + 1 ELSE id[u]
      /\ \A u \in Tasks : job'[u] = IF u = t THEN "added" ELSE job[u]
      /\ job[t] = "new"
      /\ \A u \in Tasks : id[u] \in Nat /\ id[u] <= ids
  BY DEF Add, TypeOK, Numbered
<1>2. running' = running \cup {t}
  BY <1>1 DEF Add, TypeOK
<1>3. \A n : Over(n) => Over(n)'
  BY <1>1 DEF Over
<1>4. \A u \in Tasks : job'[u] # "lost" /\ id'[u] <= ids' /\ (id'[u] = 0 <=> job'[u] = "new")
  BY <1>1 DEF Numbered
<1>5. \A u, v \in Tasks : id'[u] = id'[v] /\ id'[u] # 0 => u = v
  BY <1>1 DEF Numbered
<1>6. running' = {u \in Tasks : job'[u] \notin {"new", "ended"}}
  BY <1>1, <1>2 DEF Numbered
<1>7. UNCHANGED <<answer, stop, report>>
  BY DEF Add, workerVars, rpcVars
<1>8. QED BY <1>3, <1>4, <1>5, <1>6, <1>7 DEF Numbered, OwnResults

LEMMA NumberedRemove ==
  ASSUME TypeOK, Numbered, NEW t \in Tasks, RemoveTask(t)
  PROVE  Numbered'
<1>1. /\ \A u \in Tasks : job'[u] = IF u = t THEN "ended" ELSE job[u]
      /\ job[t] = "leaving" /\ UNCHANGED <<ids, id>>
  BY DEF RemoveTask, TypeOK
<1>2. id[t] # 0 /\ t \in running
  BY <1>1 DEF Numbered
<1>3. running' = running \ {t}
  BY <1>2 DEF RemoveTask, Numbered
<1>4. \A n : Over(n) => Over(n)'
  BY <1>1 DEF Over
<1>5. running' = {u \in Tasks : job'[u] \notin {"new", "ended"}}
  BY <1>1, <1>3 DEF Numbered
<1>6. UNCHANGED <<answer, stop, report>>
  BY DEF RemoveTask, workerVars, rpcVars
<1>7. \A u \in Tasks : job'[u] # "lost" /\ id'[u] <= ids' /\ (id'[u] = 0 <=> job'[u] = "new")
  BY <1>1 DEF Numbered
<1>8. QED BY <1>1, <1>4, <1>5, <1>6, <1>7 DEF Numbered, OwnResults

LEMMA NumberedJobStep ==
  ASSUME IInv, Numbered, NEW t \in Tasks, JobStep(t)
  PROVE  Numbered'
<1>1. CASE Add(t)
  BY <1>1, NumberedAdd DEF IInv
<1>2. CASE RemoveTask(t)
  BY <1>2, NumberedRemove DEF IInv
<1>3. CASE ~Add(t) /\ ~RemoveTask(t)
  <2>1. UNCHANGED <<ids, id, running, answer, stop, report>>
    BY <1>3 DEF JobStep, Push, Wake, OfferPicked, OfferGivesUp, Withdraw, RunDone, RunGivesUp,
                rpcVars, workerVars
  <2>2. job \in [Tasks -> JobStates]
    BY DEF IInv, TypeOK
  <2>3. /\ job[t] \in {"added", "queued", "offering", "givingUp", "working"}
        /\ \E s \in {"queued", "offering", "givingUp", "working", "leaving"} :
             job' = [job EXCEPT ![t] = s]
    BY <1>3 DEF JobStep, Push, Wake, OfferPicked, OfferGivesUp, Withdraw, RunDone, RunGivesUp
  <2>4. \A u \in Tasks : \/ job'[u] = job[u]
                         \/ /\ job[u] \notin {"new", "ended", "lost"}
                            /\ job'[u] \notin {"new", "ended", "lost"}
    BY <2>2, <2>3
  <2>5. QED BY <2>1, <2>4, NumberedQuiet
<1>4. QED BY <1>1, <1>2, <1>3

LEMMA NumberedHandlerStep ==
  ASSUME IInv, Numbered, NEW w \in Workers, HandlerStep(w)
  PROVE  Numbered'
<1>1. UNCHANGED <<ids, id, running, job, answer>>
  BY DEF HandlerStep, TakeAny, TakeNothing, Woken, PollEnds, TakeWaiting, Apply,
         apiVars, workerVars
<1>2. \A v \in Workers : stop'[v] \in {0, stop[v]}
  <2>1. \/ UNCHANGED stop
        \/ \E t : Hand(w, t)
    BY DEF HandlerStep, TakeAny, TakeNothing, Woken, PollEnds, TakeWaiting, Apply, workerVars
  <2>2. UNCHANGED stop \/ stop' = [stop EXCEPT ![w] = 0]
    BY <2>1 DEF Hand
  <2>3. stop \in [Workers -> Nat]
    BY DEF IInv, TypeOK
  <2>4. QED BY <2>2, <2>3
<1>3. \A v \in Workers : report'[v] = report[v] \/ report'[v] = NoReport
  <2>1. UNCHANGED report \/ report' = [report EXCEPT ![w] = NoReport]
    BY DEF HandlerStep, TakeAny, TakeNothing, Woken, PollEnds, TakeWaiting, Apply, rpcVars
  <2>2. report \in [Workers -> Reports \cup {NoReport}]
    BY DEF IInv, TypeOK
  <2>3. QED BY <2>1, <2>2
<1>4. NoReport.task = NoReport.from
  BY DEF NoReport
<1>5. QED BY <1>1, <1>2, <1>3, <1>4, NumberedQuiet

(* What a worker is inside has a number of its own. *)
LEMMA StackNumbered ==
  ASSUME IInv, Numbered, NEW w \in Workers, stack[w] # <<>>
  PROVE  /\ Head(stack[w]) \in Tasks
         /\ id[Head(stack[w])] # 0
         /\ job[Head(stack[w])] \notin {"new", "added"}
         /\ Lookup(id[Head(stack[w])]) \subseteq {Head(stack[w])}
<1>1. Head(stack[w]) \in Tasks /\ Head(stack[w]) \in ToSet(stack[w])
  BY PopFromQueue DEF IInv, TypeOK
<1>2. job[Head(stack[w])] \notin {"new", "added"}
  BY <1>1 DEF IInv, Settled
<1>3. id[Head(stack[w])] # 0
  BY <1>1, <1>2 DEF Numbered
<1>4. QED BY <1>1, <1>2, <1>3 DEF Numbered, Lookup

LEMMA NumberedWorkerStep ==
  ASSUME IInv, Numbered, NEW w \in Workers, WorkerStep(w)
  PROVE  Numbered'
<1> DEFINE h == Head(stack[w])
<1>1. UNCHANGED <<ids, id, running, job>>
  BY DEF WorkerStep, Poll, CheckIn, Report, ReportLost, StopTask, Heartbeat,
         HeartbeatAnswered, WorkerDies, apiVars
<1>2. /\ stop \in [Workers -> Nat] /\ answer \in [Workers -> Nat]
      /\ report \in [Workers -> Reports \cup {NoReport}]
  BY DEF IInv, TypeOK
<1>3. \A v \in Workers : stop'[v] \in {0, stop[v], answer[v]}
  BY <1>2 DEF WorkerStep, Poll, CheckIn, Report, ReportLost, StopTask, Heartbeat,
         HeartbeatAnswered, WorkerDies, workerVars
<1>4. \A v \in Workers : answer'[v] \in {0, answer[v]} \/ Over(answer'[v])
  <2>1. CASE Heartbeat(w)
    <3>1. stack[w] # <<>> /\ Lookup(id[h]) = {} /\ answer' = [answer EXCEPT ![w] = id[h]]
      BY <2>1 DEF Heartbeat, WorkingOn
    <3>2. h \in Tasks /\ id[h] # 0 /\ job[h] \notin {"new", "added"}
      BY <3>1, StackNumbered
    <3>3. h \notin running /\ id[h] \in Nat /\ ids \in Nat
      BY <3>1, <3>2 DEF Lookup, IInv, TypeOK
    <3>4. job[h] = "ended"
      BY <3>2, <3>3 DEF Numbered
    <3>5. Over(id[h])
      BY <3>2, <3>3, <3>4 DEF Numbered, Over
    <3>6. QED BY <1>2, <3>1, <3>5
  <2>2. CASE ~Heartbeat(w)
    BY <1>2, <2>2 DEF WorkerStep, Poll, CheckIn, Report, ReportLost, StopTask,
         HeartbeatAnswered, WorkerDies, workerVars
  <2>3. QED BY <2>1, <2>2
<1>5. \A v \in Workers : report'[v] = report[v] \/ report'[v].task = report'[v].from
  <2>1. ASSUME NEW what \in {"touch", "done", "fail"}, Report(w, what), ~UNCHANGED report
        PROVE  \E u \in Lookup(id[h]) :
                 report' = [report EXCEPT ![w] = [task |-> u, from |-> h, what |-> what]]
    BY <2>1 DEF Report
  <2>2. \/ UNCHANGED report
        \/ /\ stack[w] # <<>>
           /\ \E what \in {"touch", "done", "fail"} : \E u \in Lookup(id[h]) :
                report' = [report EXCEPT ![w] = [task |-> u, from |-> h, what |-> what]]
    BY <2>1 DEF WorkerStep, Poll, CheckIn, Report, CanReport, ReportLost, StopTask, Heartbeat,
         HeartbeatAnswered, WorkerDies, rpcVars
  <2>3. ASSUME stack[w] # <<>>, NEW what \in {"touch", "done", "fail"}, NEW u \in Lookup(id[h]),
               report' = [report EXCEPT ![w] = [task |-> u, from |-> h, what |-> what]]
        PROVE  \A v \in Workers : report'[v] = report[v] \/ report'[v].task = report'[v].from
    <3>1. u = h
      BY <2>3, StackNumbered
    <3>2. report'[w].task = report'[w].from
      BY <1>2, <2>3, <3>1
    <3>3. QED BY <1>2, <2>3, <3>2
  <2>4. QED BY <2>2, <2>3
<1>6. QED BY <1>1, <1>3, <1>4, <1>5, NumberedQuiet

LEMMA NumberedStutter ==
  ASSUME Numbered, UNCHANGED vars
  PROVE  Numbered'
BY DEF Numbered, Over, OwnResults, vars, apiVars, rpcVars, workerVars

(* Until the first restart every number means one task. *)
THEOREM NumbersTell == Spec => []UntilRestart
<1>1. Init => UntilRestart
  BY DEF Init, UntilRestart, Numbered, Over, OwnResults, NoReport
<1>2. IInv /\ UntilRestart /\ [Next]_vars => UntilRestart'
  <2> SUFFICES ASSUME IInv, UntilRestart, [Next]_vars, boots' = 0 PROVE Numbered'
    BY DEF UntilRestart
  <2>1. CASE ApiRestarts
    BY <2>1 DEF ApiRestarts, IInv, TypeOK
  <2>2. ASSUME ~ApiRestarts, Next PROVE boots = 0
    BY <2>2 DEF Next, JobStep, Add, Push, Wake, OfferPicked, OfferGivesUp, Withdraw, RunDone,
           RunGivesUp, RemoveTask, HandlerStep, TakeAny, TakeNothing, Woken, PollEnds,
           TakeWaiting, Apply, WorkerStep, Poll, CheckIn, Report, ReportLost, StopTask,
           Heartbeat, HeartbeatAnswered, WorkerDies, boundVars
  <2>3. CASE UNCHANGED vars
    BY <2>3, NumberedStutter DEF UntilRestart, vars, boundVars
  <2>4. ASSUME NEW t \in Tasks, JobStep(t), boots = 0 PROVE Numbered'
    BY <2>4, NumberedJobStep DEF UntilRestart
  <2>5. ASSUME NEW w \in Workers, HandlerStep(w) \/ WorkerStep(w), boots = 0 PROVE Numbered'
    BY <2>5, NumberedHandlerStep, NumberedWorkerStep DEF UntilRestart
  <2>6. QED BY <2>1, <2>2, <2>3, <2>4, <2>5 DEF Next
<1>3. QED BY <1>1, <1>2, Inductive, PTL DEF Spec

(* Until the API restarts, no worker is told to stop a task that its job   *)
(* waits for, whatever is lost, late or repeated.                          *)
THEOREM HeartbeatStopsTheDead == Spec => [](boots = 0 => StopsOnlyTheDead)
<1>1. IInv /\ UntilRestart => (boots = 0 => StopsOnlyTheDead)
  <2> SUFFICES ASSUME IInv, Numbered, NEW w \in Workers, Cancelled(w)
               PROVE  job[Head(stack[w])] \in {"ended", "lost"}
    BY DEF UntilRestart, StopsOnlyTheDead
  <2>1. stack[w] # <<>> /\ stop[w] = id[Head(stack[w])] /\ stop[w] # 0
    BY DEF Cancelled, WorkingOn
  <2>2. Head(stack[w]) \in Tasks /\ Over(stop[w])
    BY <2>1, StackNumbered DEF Numbered
  <2>3. QED BY <2>1, <2>2 DEF Over
<1>2. QED BY <1>1, Inductive, NumbersTell, PTL

(* Until the API restarts, a report is applied to the task it is about.    *)
(* After a restart it need not be, as the run dispatcher_stale_results     *)
(* shows.                                                                  *)
THEOREM ReportsAreOwn == Spec => [](boots = 0 => OwnResults)
<1>1. UntilRestart => (boots = 0 => OwnResults)
  BY DEF UntilRestart, Numbered
<1>2. QED BY <1>1, NumbersTell, PTL

(* However a job ends, its task is in no queue and not registered, nothing  *)
(* is picked before it was offered, and a worker is inside nothing that was *)
(* not picked.                                                             *)
THEOREM JobsSettle == Spec => []Settled
BY Inductive, PTL DEF IInv

-------------------------------------------------------------------------------
(* Only a pop picks a task, and it picks the head of the first queue.     *)
LEMMA OnlyPopsPick ==
  ASSUME IInv, Next, picked' # picked
  PROVE  \E p \in Priorities : First(p) /\ Pop(p)
<1>1. ASSUME NEW t \in Tasks, JobStep(t) PROVE FALSE
  BY <1>1 DEF JobStep, Add, Push, Wake, OfferPicked, OfferGivesUp, Withdraw, RunDone,
              RunGivesUp, RemoveTask
<1>2. ASSUME NEW w \in Workers, WorkerStep(w) PROVE FALSE
  BY <1>2 DEF WorkerStep, Poll, CheckIn, Report, ReportLost, StopTask, Heartbeat,
              HeartbeatAnswered, WorkerDies, apiVars
<1>3. ASSUME NEW w \in Workers, HandlerStep(w) PROVE TakeAny(w) \/ TakeWaiting(w)
  BY <1>3 DEF HandlerStep, TakeNothing, Woken, PollEnds, Apply, apiVars
<1>4. ASSUME NEW w \in Workers, TakeAny(w) \/ TakeWaiting(w)
      PROVE  \E p \in Priorities : First(p) /\ Pop(p)
  BY <1>4 DEF TakeAny, TakeWaiting, Priorities, Training
<1>5. ~ApiRestarts
  BY DEF ApiRestarts
<1>6. QED BY <1>1, <1>2, <1>3, <1>4, <1>5 DEF Next

(* Whoever is handed a task, by a poll or by a check-in, gets the most     *)
(* urgent one there is.                                                    *)
THEOREM UrgentFirst == Spec => ByPriority
<1> DEFINE A == \A t \in picked' \ picked : \A u \in Tasks :
                  Waiting(u) => Priority(t) <= Priority(u)
<1>1. ASSUME IInv, Next PROVE A
  <2> SUFFICES ASSUME NEW t \in picked' \ picked, NEW u \in Tasks, Waiting(u)
               PROVE  Priority(t) <= Priority(u)
    OBVIOUS
  <2>1. PICK p \in Priorities : First(p) /\ Pop(p)
    BY <1>1, OnlyPopsPick
  <2>2. t = Head(pending[p])
    BY <2>1 DEF Pop
  <2>3. t \in ToSet(pending[p])
    BY <1>1, <2>1, <2>2, PopFromQueue DEF IInv, TypeOK, First
  <2>4. Priority(t) = p
    BY <1>1, <2>3 DEF IInv, PoppedOnce
  <2>5. Priority(u) \in Priorities /\ pending[Priority(u)] # <<>>
    BY PriorityType DEF Waiting, ToSet
  <2>6. QED BY <2>1, <2>4, <2>5 DEF First, Priorities
<1>2. IInv /\ [Next]_vars => [A]_vars
  BY <1>1
<1>3. QED BY <1>2, Inductive, PTL DEF Spec, ByPriority

(***************************************************************************)
(* Dispatcher implements TaskLine: the queues, the race between withdrawing *)
(* and popping, and the channels that tell of it look to everyone like one  *)
(* line that changes in single steps.                                       *)
(***************************************************************************)
(* Each queue is a part of the line, with one priority. *)
LEMMA LineParts ==
  ASSUME TypeOK, PoppedOnce
  PROVE  /\ pending[1] \in Seq(Tasks) /\ pending[2] \in Seq(Tasks) /\ pending[3] \in Seq(Tasks)
         /\ InLine \in Seq(Tasks)
         /\ Len(InLine) = Len(pending[1]) + Len(pending[2]) + Len(pending[3])
         /\ DOMAIN InLine = 1..(Len(pending[1]) + Len(pending[2]) + Len(pending[3]))
         /\ \A i \in DOMAIN InLine :
              Priority(InLine[i]) = IF i <= Len(pending[1]) THEN 1
                                    ELSE IF i <= Len(pending[1]) + Len(pending[2]) THEN 2 ELSE 3
<1> DEFINE a == pending[1]
           b == pending[2]
           c == pending[3]
<1>1. a \in Seq(Tasks) /\ b \in Seq(Tasks) /\ c \in Seq(Tasks)
  BY DEF TypeOK, Priorities
<1>2. /\ \A i \in DOMAIN a : Priority(a[i]) = 1
      /\ \A i \in DOMAIN b : Priority(b[i]) = 2
      /\ \A i \in DOMAIN c : Priority(c[i]) = 3
  BY DEF PoppedOnce, ToSet, Priorities
<1>3. InLine = a \o b \o c
  BY DEF InLine, Interactive, Background, Training
<1> HIDE DEF a, b, c
<1>4. /\ DOMAIN a = 1..Len(a) /\ DOMAIN b = 1..Len(b) /\ DOMAIN c = 1..Len(c)
      /\ Len(a) \in Nat /\ Len(b) \in Nat /\ Len(c) \in Nat
  BY <1>1, LenProperties
<1>5. /\ a \o b \in Seq(Tasks) /\ Len(a \o b) = Len(a) + Len(b)
      /\ \A i \in 1..(Len(a) + Len(b)) : (a \o b)[i] = IF i <= Len(a) THEN a[i] ELSE b[i - Len(a)]
  BY <1>1, ConcatProperties
<1>6. /\ InLine \in Seq(Tasks) /\ Len(InLine) = Len(a \o b) + Len(c)
      /\ \A i \in 1..(Len(a \o b) + Len(c)) :
           InLine[i] = IF i <= Len(a \o b) THEN (a \o b)[i] ELSE c[i - Len(a \o b)]
  BY <1>1, <1>3, <1>5, ConcatProperties
<1>7. DOMAIN InLine = 1..(Len(a) + Len(b) + Len(c)) /\ Len(InLine) = Len(a) + Len(b) + Len(c)
  BY <1>5, <1>6, LenProperties
<1>8. ASSUME NEW i \in 1..(Len(a) + Len(b) + Len(c))
      PROVE  Priority(InLine[i]) = IF i <= Len(a) THEN 1
                                   ELSE IF i <= Len(a) + Len(b) THEN 2 ELSE 3
  <2>1. CASE i <= Len(a)
    <3>1. i \in 1..Len(a) /\ i \in 1..(Len(a) + Len(b)) /\ i <= Len(a) + Len(b)
      BY <1>4, <2>1
    <3>2. InLine[i] = a[i]
      BY <1>5, <1>6, <2>1, <3>1
    <3>3. QED BY <1>2, <1>4, <2>1, <3>1, <3>2
  <2>2. CASE ~(i <= Len(a)) /\ i <= Len(a) + Len(b)
    <3>1. i - Len(a) \in 1..Len(b) /\ i \in 1..(Len(a) + Len(b))
      BY <1>4, <2>2
    <3>2. InLine[i] = b[i - Len(a)]
      BY <1>5, <1>6, <2>2, <3>1
    <3>3. QED BY <1>2, <1>4, <2>2, <3>1, <3>2
  <2>3. CASE ~(i <= Len(a) + Len(b))
    <3>1. i - Len(a \o b) \in 1..Len(c) /\ ~(i <= Len(a)) /\ ~(i <= Len(a \o b))
      BY <1>4, <1>5, <2>3
    <3>2. InLine[i] = c[i - Len(a \o b)]
      BY <1>5, <1>6, <3>1
    <3>3. QED BY <1>2, <1>4, <2>3, <3>1, <3>2
  <2>4. QED BY <2>1, <2>2, <2>3
<1>9. QED BY <1>1, <1>6, <1>7, <1>8 DEF a, b, c

(* Who is ahead of a task that joins: its own queue and the more urgent.   *)
LEMMA AheadOf ==
  ASSUME TypeOK, PoppedOnce, NEW t \in Tasks
  PROVE  Cardinality({i \in DOMAIN InLine :
                        [u \in Tasks |-> Priority(u)][InLine[i]] <= [u \in Tasks |-> Priority(u)][t]})
           = CASE Priority(t) = 1 -> Len(pending[1])
               [] Priority(t) = 2 -> Len(pending[1]) + Len(pending[2])
               [] OTHER -> Len(pending[1]) + Len(pending[2]) + Len(pending[3])
<1> DEFINE la == Len(pending[1])
           lb == Len(pending[2])
           lc == Len(pending[3])
           S == {i \in DOMAIN InLine :
                   [u \in Tasks |-> Priority(u)][InLine[i]] <= [u \in Tasks |-> Priority(u)][t]}
           k == CASE Priority(t) = 1 -> la
                  [] Priority(t) = 2 -> la + lb
                  [] OTHER -> la + lb + lc
<1>1. /\ la \in Nat /\ lb \in Nat /\ lc \in Nat
      /\ InLine \in Seq(Tasks)
      /\ DOMAIN InLine = 1..(la + lb + lc)
      /\ \A i \in 1..(la + lb + lc) :
           Priority(InLine[i]) = IF i <= la THEN 1 ELSE IF i <= la + lb THEN 2 ELSE 3
  BY LineParts, LenProperties
<1>2. \A i \in 1..(la + lb + lc) : InLine[i] \in Tasks
  BY <1>1, ElementOfSeq, LenProperties
<1>3. Priority(t) \in {1, 2, 3}
  BY PriorityType DEF Priorities
<1> HIDE DEF la, lb, lc
<1>4. S = {i \in 1..(la + lb + lc) : Priority(InLine[i]) <= Priority(t)}
  BY <1>1, <1>2
<1>5. k \in Nat /\ S = 1..k
  <2>1. CASE Priority(t) = 1
    BY <1>1, <1>4, <2>1
  <2>2. CASE Priority(t) = 2
    BY <1>1, <1>4, <2>2
  <2>3. CASE Priority(t) = 3
    BY <1>1, <1>4, <2>3
  <2>4. QED BY <1>3, <2>1, <2>2, <2>3
<1> HIDE DEF k, S
<1>6. Cardinality(S) = k
  BY <1>5, FS_Interval
<1>7. QED BY <1>6 DEF S, k, la, lb, lc

(* What became of a task is one thing: the cases of Fate exclude each other. *)
FateTold ==
  \A t \in Tasks :
    /\ t \in picked => Fate[t] = "taken"
    /\ result[t] = "refused" => Fate[t] = "refused" /\ t \notin picked
    /\ Waiting(t) => /\ Fate[t] = "waiting" /\ t \notin picked /\ result[t] # "refused"
                     /\ job[t] \in {"queued", "offering", "givingUp"}
    /\ t \notin picked /\ result[t] # "refused" /\ ~Waiting(t) =>
         Fate[t] = IF job[t] = "lost" THEN "lost" ELSE "new"

LEMMA FateCases == IInv => FateTold
<1> SUFFICES ASSUME IInv, NEW t \in Tasks
             PROVE  /\ t \in picked => Fate[t] = "taken"
                    /\ result[t] = "refused" => Fate[t] = "refused" /\ t \notin picked
                    /\ Waiting(t) => /\ Fate[t] = "waiting" /\ t \notin picked /\ result[t] # "refused"
                                     /\ job[t] \in {"queued", "offering", "givingUp"}
                    /\ t \notin picked /\ result[t] # "refused" /\ ~Waiting(t) =>
                         Fate[t] = IF job[t] = "lost" THEN "lost" ELSE "new"
  BY DEF FateTold
<1>1. result[t] = "refused" => t \notin picked /\ job[t] \in {"leaving", "ended", "lost"}
  BY DEF IInv, Settled
<1>2. Waiting(t) => t \notin picked /\ job[t] \in {"queued", "offering", "givingUp"}
  BY PriorityType DEF IInv, PoppedOnce, Waiting
<1>3. QED BY <1>1, <1>2 DEF Fate

LEMMA FateNext ==
  ASSUME IInv, IInv'
  PROVE  /\ FateTold
         /\ \A t \in Tasks :
              /\ t \in picked' => Fate'[t] = "taken"
              /\ result'[t] = "refused" => Fate'[t] = "refused"
              /\ Waiting(t)' => Fate'[t] = "waiting"
              /\ t \notin picked' /\ result'[t] # "refused" /\ ~Waiting(t)' =>
                   Fate'[t] = IF job'[t] = "lost" THEN "lost" ELSE "new"
<1>1. FateTold /\ FateTold'
  BY FateCases, PTL
<1>2. QED BY <1>1 DEF FateTold

-------------------------------------------------------------------------------
(* The steps. *)

LEMMA LineOperators ==
  /\ \A S : Line!Cardinality(S) = Cardinality(S)
  /\ \A s, i, e : Line!InsertAt(s, i, e) = InsertAt(s, i, e)
  /\ \A s, i : Line!RemoveAt(s, i) = RemoveAt(s, i)
<1>1. \A S : Line!Cardinality(S) = Cardinality(S)
  BY DEF Line!Cardinality, Cardinality
<1>2. \A s, i, e : Line!InsertAt(s, i, e) = InsertAt(s, i, e)
  BY DEF Line!InsertAt, InsertAt
<1>3. \A s, i : Line!RemoveAt(s, i) = RemoveAt(s, i)
  BY DEF Line!RemoveAt, RemoveAt
<1>4. QED BY <1>1, <1>2, <1>3

LEMMA LineInit == Init => Line!Init
<1> SUFFICES ASSUME Init PROVE Line!Init
  OBVIOUS
<1>1. pending[1] = <<>> /\ pending[2] = <<>> /\ pending[3] = <<>>
  BY DEF Init, Priorities
<1>2. InLine = <<>>
  <2>1. <<>> \in Seq(Tasks) /\ <<>> \o <<>> = <<>>
    BY EmptySeq, ConcatEmptySeq
  <2>2. QED BY <1>1, <2>1 DEF InLine, Interactive, Background, Training
<1>3. \A t \in Tasks : ~Waiting(t)
  BY <1>1, PriorityType DEF Waiting, ToSet, Priorities
<1>4. Fate = [t \in Tasks |-> "new"]
  <2>1. \A t \in Tasks : Fate[t] = "new"
    BY <1>3 DEF Init, Fate
  <2>2. QED BY <2>1 DEF Fate
<1>5. QED BY <1>2, <1>4 DEF Line!Init

(* Where the queues stay, and no job is refused or lost, nothing is seen.  *)
LEMMA LineQuiet ==
  ASSUME IInv, IInv', UNCHANGED <<pending, picked>>,
         \A t \in Tasks : (result'[t] = "refused") <=> (result[t] = "refused"),
         \A t \in Tasks : (job'[t] = "lost") <=> (job[t] = "lost")
  PROVE  UNCHANGED Line!vars
<1>1. UNCHANGED InLine
  BY DEF InLine
<1>2. \A t \in Tasks : Waiting(t)' <=> Waiting(t)
  BY DEF Waiting
<1>3. \A t \in Tasks : Fate'[t] = Fate[t]
  <2> SUFFICES ASSUME NEW t \in Tasks PROVE Fate'[t] = Fate[t]
    OBVIOUS
  <2>1. CASE t \in picked
    BY <2>1, FateNext DEF FateTold
  <2>2. CASE result[t] = "refused"
    BY <2>2, FateNext DEF FateTold
  <2>3. CASE Waiting(t)
    BY <1>2, <2>3, FateNext DEF FateTold
  <2>4. CASE t \notin picked /\ result[t] # "refused" /\ ~Waiting(t)
    BY <1>2, <2>4, FateNext DEF FateTold
  <2>5. QED BY <2>1, <2>2, <2>3, <2>4
<1>4. UNCHANGED Fate
  BY <1>3 DEF Fate
<1>5. QED BY <1>1, <1>4 DEF Line!vars

LEMMA LinePush ==
  ASSUME IInv, IInv', NEW t \in Tasks, Push(t)
  PROVE  Line!Offer(t)
<1>1. /\ TypeOK /\ PoppedOnce /\ Settled
      /\ Priority(t) \in {1, 2, 3} /\ pending \in [Priorities -> Seq(Tasks)]
  <2>1. TypeOK /\ PoppedOnce /\ Settled
    BY DEF IInv
  <2>2. Priority(t) \in {1, 2, 3}
    BY PriorityType DEF Priorities
  <2>3. QED BY <2>1, <2>2 DEF TypeOK
<1>2. /\ job[t] = "added" /\ UNCHANGED <<picked, result>>
      /\ pending' = [pending EXCEPT ![Priority(t)] = Append(pending[Priority(t)], t)]
      /\ job' = [job EXCEPT ![t] = "queued"]
  BY DEF Push
<1>3. t \notin picked /\ result[t] # "refused" /\ ~Waiting(t) /\ Fate[t] = "new"
  <2>1. t \notin picked /\ result[t] # "refused"
    BY <1>1, <1>2 DEF Settled
  <2>2. ~Waiting(t)
    BY <1>2, FateNext DEF FateTold
  <2>3. QED BY <1>2, <2>1, <2>2, FateNext DEF FateTold
<1>4. InLine' = InsertAt(InLine, Cardinality({i \in DOMAIN InLine :
                   [u \in Tasks |-> Priority(u)][InLine[i]] <= [u \in Tasks |-> Priority(u)][t]}) + 1, t)
  <2> DEFINE a == pending[1]
             b == pending[2]
             c == pending[3]
  <2>1. a \in Seq(Tasks) /\ b \in Seq(Tasks) /\ c \in Seq(Tasks) /\ InLine = Row(a, b, c)
    BY <1>1, LineParts DEF Row, InLine, Interactive, Background, Training
  <2>2. InLine' = Row(pending'[1], pending'[2], pending'[3])
    BY DEF Row, InLine, Interactive, Background, Training
  <2>3. /\ InsertAt(Row(a, b, c), Len(a) + 1, t) = Row(Append(a, t), b, c)
        /\ InsertAt(Row(a, b, c), Len(a) + Len(b) + 1, t) = Row(a, Append(b, t), c)
        /\ InsertAt(Row(a, b, c), Len(a) + Len(b) + Len(c) + 1, t) = Row(a, b, Append(c, t))
    <3> HIDE DEF a, b, c
    <3>1. QED BY <2>1, AppendInRow
  <2>4. \A p \in {1, 2, 3} : pending'[p] = IF p = Priority(t) THEN Append(pending[p], t)
                                           ELSE pending[p]
    BY <1>1, <1>2 DEF Priorities
  <2> DEFINE ahead == Cardinality({i \in DOMAIN InLine :
                        [u \in Tasks |-> Priority(u)][InLine[i]] <= [u \in Tasks |-> Priority(u)][t]})
  <2>5. ahead = CASE Priority(t) = 1 -> Len(a)
                  [] Priority(t) = 2 -> Len(a) + Len(b)
                  [] OTHER -> Len(a) + Len(b) + Len(c)
    BY <1>1, AheadOf
  <2> HIDE DEF a, b, c, ahead
  <2>6. CASE Priority(t) = 1
    <3>1. ahead = Len(a)
      BY <2>5, <2>6
    <3>2. pending'[1] = Append(a, t) /\ pending'[2] = b /\ pending'[3] = c
      BY <2>4, <2>6 DEF a, b, c
    <3>3. QED BY <2>1, <2>2, <2>3, <3>1, <3>2 DEF ahead
  <2>7. CASE Priority(t) = 2
    <3>1. ahead = Len(a) + Len(b)
      BY <2>5, <2>7
    <3>2. pending'[1] = a /\ pending'[2] = Append(b, t) /\ pending'[3] = c
      BY <2>4, <2>7 DEF a, b, c
    <3>3. QED BY <2>1, <2>2, <2>3, <3>1, <3>2 DEF ahead
  <2>8. CASE Priority(t) = 3
    <3>1. ahead = Len(a) + Len(b) + Len(c)
      BY <2>5, <2>8
    <3>2. pending'[1] = a /\ pending'[2] = b /\ pending'[3] = Append(c, t)
      BY <2>4, <2>8 DEF a, b, c
    <3>3. QED BY <2>1, <2>2, <2>3, <3>1, <3>2 DEF ahead
  <2>9. QED BY <1>1, <2>6, <2>7, <2>8
<1>5. \A u \in Tasks : Waiting(u)' <=> Waiting(u) \/ u = t
  <2>1. ToSet(Append(pending[Priority(t)], t)) = ToSet(pending[Priority(t)]) \cup {t}
    BY <1>1, AppendToQueue DEF Priorities
  <2>2. \A u \in Tasks : Priority(u) \in Priorities
    BY PriorityType
  <2>3. \A u \in Tasks : u # t => (Waiting(u)' <=> Waiting(u))
    BY <1>1, <1>2, <2>1, <2>2 DEF Waiting, PoppedOnce, Priority
  <2>4. Waiting(t)'
    BY <1>1, <1>2, <2>1, <2>2 DEF Waiting, Priority
  <2>5. QED BY <2>3, <2>4
<1>6. Fate' = [Fate EXCEPT ![t] = "waiting"]
  <2>1. \A u \in Tasks : Fate'[u] = IF u = t THEN "waiting" ELSE Fate[u]
    <3> SUFFICES ASSUME NEW u \in Tasks PROVE Fate'[u] = IF u = t THEN "waiting" ELSE Fate[u]
      OBVIOUS
    <3>1. CASE u = t
      BY <1>5, <3>1, FateNext
    <3>2. CASE u # t
      <4>1. job'[u] = job[u]
        BY <1>1, <1>2, <3>2 DEF TypeOK
      <4>2. Waiting(u)' <=> Waiting(u)
        BY <1>5, <3>2
      <4>3. QED BY <1>2, <3>2, <4>1, <4>2, FateNext DEF FateTold
    <3>3. QED BY <3>1, <3>2
  <2>2. QED BY <2>1 DEF Fate
<1>7. QED BY <1>3, <1>4, <1>6, LineOperators DEF Line!Offer

LEMMA LinePop ==
  ASSUME IInv, IInv', NEW p \in Priorities, First(p), Pop(p), UNCHANGED <<job, result>>
  PROVE  Line!Take
<1> DEFINE h == Head(pending[p])
<1>1. /\ TypeOK /\ PoppedOnce /\ p \in {1, 2, 3}
      /\ pending \in [Priorities -> Seq(Tasks)] /\ pending[p] # <<>>
  <2>1. TypeOK /\ PoppedOnce
    BY DEF IInv
  <2>2. p \in {1, 2, 3}
    BY DEF Priorities
  <2>3. pending[p] # <<>>
    BY DEF First
  <2>4. QED BY <2>1, <2>2, <2>3 DEF TypeOK
<1>2. /\ pending' = [pending EXCEPT ![p] = Tail(pending[p])]
      /\ picked' = picked \cup {h}
  BY DEF Pop
<1>3. h \in Tasks /\ ToSet(Tail(pending[p])) = ToSet(pending[p]) \ {h} /\ h \in ToSet(pending[p])
  BY <1>1, PopFromQueue DEF PoppedOnce
<1>4. InLine # <<>> /\ Head(InLine) = h /\ InLine' = Tail(InLine)
  <2> DEFINE a == pending[1]
             b == pending[2]
             c == pending[3]
  <2>1. a \in Seq(Tasks) /\ b \in Seq(Tasks) /\ c \in Seq(Tasks) /\ InLine = Row(a, b, c)
    BY <1>1, LineParts DEF Row, InLine, Interactive, Background, Training
  <2>2. InLine' = Row(pending'[1], pending'[2], pending'[3])
    BY DEF Row, InLine, Interactive, Background, Training
  <2>3. \A q \in {1, 2, 3} : pending'[q] = IF q = p THEN Tail(pending[p]) ELSE pending[q]
    BY <1>1, <1>2 DEF Priorities
  <2>4. \A q \in {1, 2, 3} : q < p => pending[q] = <<>>
    BY DEF First, Priorities
  <2>5. p = 1 => /\ a # <<>> /\ h = Head(a)
                 /\ pending'[1] = Tail(a) /\ pending'[2] = b /\ pending'[3] = c
    BY <1>1, <2>3
  <2>6. p = 2 => /\ a = <<>> /\ b # <<>> /\ h = Head(b)
                 /\ pending'[1] = a /\ pending'[2] = Tail(b) /\ pending'[3] = c
    BY <1>1, <2>3, <2>4
  <2>7. p = 3 => /\ a = <<>> /\ b = <<>> /\ c # <<>> /\ h = Head(c)
                 /\ pending'[1] = a /\ pending'[2] = b /\ pending'[3] = Tail(c)
    BY <1>1, <2>3, <2>4
  <2> HIDE DEF a, b, c, h
  <2>8. a \in Seq(Tasks) /\ b \in Seq(Tasks) /\ c \in Seq(Tasks)
    BY <2>1
  <2>9. a # <<>> => /\ Row(a, b, c) # <<>> /\ Head(Row(a, b, c)) = Head(a)
                    /\ Tail(Row(a, b, c)) = Row(Tail(a), b, c)
    BY <2>8, PopFromRow
  <2>10. b # <<>> => /\ Row(<<>>, b, c) # <<>> /\ Head(Row(<<>>, b, c)) = Head(b)
                     /\ Tail(Row(<<>>, b, c)) = Row(<<>>, Tail(b), c)
    BY <2>8, PopFromRow
  <2>11. c # <<>> => /\ Row(<<>>, <<>>, c) # <<>> /\ Head(Row(<<>>, <<>>, c)) = Head(c)
                     /\ Tail(Row(<<>>, <<>>, c)) = Row(<<>>, <<>>, Tail(c))
    BY <2>8, PopFromRow
  <2>12. CASE p = 1
    BY <2>1, <2>2, <2>5, <2>9, <2>12
  <2>13. CASE p = 2
    BY <2>1, <2>2, <2>6, <2>10, <2>13
  <2>14. CASE p = 3
    BY <2>1, <2>2, <2>7, <2>11, <2>14
  <2>15. QED BY <1>1, <2>12, <2>13, <2>14
<1>5. \A u \in Tasks : u # h => (Waiting(u)' <=> Waiting(u))
  <2>1. \A u \in Tasks : Priority(u) \in Priorities
    BY PriorityType
  <2>2. QED BY <1>1, <1>2, <1>3, <2>1 DEF Waiting, Priority
<1>6. Fate' = [Fate EXCEPT ![h] = "taken"]
  <2>1. \A u \in Tasks : Fate'[u] = IF u = h THEN "taken" ELSE Fate[u]
    <3> SUFFICES ASSUME NEW u \in Tasks PROVE Fate'[u] = IF u = h THEN "taken" ELSE Fate[u]
      OBVIOUS
    <3>1. CASE u = h
      BY <1>2, <3>1, FateNext
    <3>2. CASE u # h
      <4>1. u \in picked' <=> u \in picked
        BY <1>2, <3>2
      <4>2. Waiting(u)' <=> Waiting(u)
        BY <1>5, <3>2
      <4>3. QED BY <3>2, <4>1, <4>2, FateNext DEF FateTold
    <3>3. QED BY <3>1, <3>2
  <2>2. QED BY <1>3, <2>1 DEF Fate
<1>7. QED BY <1>4, <1>6 DEF Line!Take

LEMMA LineWithdraw ==
  ASSUME IInv, IInv', NEW t \in Tasks, Withdraw(t)
  PROVE  Line!Refuse(t) \/ UNCHANGED Line!vars
<1> DEFINE p == Priority(t)
<1>1. TypeOK /\ PoppedOnce /\ p \in {1, 2, 3} /\ pending \in [Priorities -> Seq(Tasks)]
  <2>1. TypeOK /\ PoppedOnce
    BY DEF IInv
  <2>2. p \in {1, 2, 3}
    BY PriorityType DEF Priorities
  <2>3. QED BY <2>1, <2>2 DEF TypeOK
<1>2. CASE \A i \in DOMAIN pending[p] : pending[p][i] # t
  <2>1. /\ UNCHANGED <<pending, picked, result>>
        /\ job[t] = "givingUp" /\ job' = [job EXCEPT ![t] = "working"]
    BY <1>2 DEF Withdraw
  <2>2. \A u \in Tasks : (job'[u] = "lost") <=> (job[u] = "lost")
    BY <1>1, <2>1 DEF TypeOK
  <2>3. UNCHANGED Line!vars
    BY <2>1, <2>2, LineQuiet
  <2>4. QED BY <2>3
<1>3. CASE ~\A i \in DOMAIN pending[p] : pending[p][i] # t
  <2>1. PICK i \in DOMAIN pending[p] :
          /\ pending[p][i] = t
          /\ pending' = [pending EXCEPT ![p] = RemoveAt(pending[p], i)]
    BY <1>3 DEF Withdraw
  <2>2. /\ result' = [result EXCEPT ![t] = "refused"]
        /\ job' = [job EXCEPT ![t] = "leaving"]
        /\ UNCHANGED picked
    BY <1>3 DEF Withdraw
  <2>3. Waiting(t) /\ Fate[t] = "waiting"
    <3>1. Waiting(t)
      BY <2>1 DEF Waiting, ToSet
    <3>2. QED BY <3>1, FateNext DEF FateTold
  <2>4. \E j \in DOMAIN InLine : InLine[j] = t /\ InLine' = RemoveAt(InLine, j)
    <3> DEFINE a == pending[1]
               b == pending[2]
               c == pending[3]
    <3>1. a \in Seq(Tasks) /\ b \in Seq(Tasks) /\ c \in Seq(Tasks) /\ InLine = Row(a, b, c)
      BY <1>1, LineParts DEF Row, InLine, Interactive, Background, Training
    <3>2. InLine' = Row(pending'[1], pending'[2], pending'[3])
      BY DEF Row, InLine, Interactive, Background, Training
    <3>3. \A q \in {1, 2, 3} : pending'[q] = IF q = p THEN RemoveAt(pending[p], i) ELSE pending[q]
      BY <1>1, <2>1 DEF Priorities
    <3>4. /\ \A k \in DOMAIN a :
               /\ k \in DOMAIN Row(a, b, c) /\ Row(a, b, c)[k] = a[k]
               /\ RemoveAt(Row(a, b, c), k) = Row(RemoveAt(a, k), b, c)
          /\ \A k \in DOMAIN b :
               /\ Len(a) + k \in DOMAIN Row(a, b, c) /\ Row(a, b, c)[Len(a) + k] = b[k]
               /\ RemoveAt(Row(a, b, c), Len(a) + k) = Row(a, RemoveAt(b, k), c)
          /\ \A k \in DOMAIN c :
               /\ Len(a) + Len(b) + k \in DOMAIN Row(a, b, c)
               /\ Row(a, b, c)[Len(a) + Len(b) + k] = c[k]
               /\ RemoveAt(Row(a, b, c), Len(a) + Len(b) + k) = Row(a, b, RemoveAt(c, k))
      <4> HIDE DEF a, b, c
      <4>1. QED BY <3>1, RemoveInRow
    <3>5. CASE p = 1
      <4>1. /\ pending'[1] = RemoveAt(a, i) /\ pending'[2] = b /\ pending'[3] = c
            /\ i \in DOMAIN a /\ a[i] = t
        BY <2>1, <3>3, <3>5
      <4> HIDE DEF a, b, c, p
      <4>2. QED BY <3>1, <3>2, <3>4, <4>1
    <3>6. CASE p = 2
      <4>1. /\ pending'[1] = a /\ pending'[2] = RemoveAt(b, i) /\ pending'[3] = c
            /\ i \in DOMAIN b /\ b[i] = t
        BY <2>1, <3>3, <3>6
      <4> HIDE DEF a, b, c, p
      <4>2. QED BY <3>1, <3>2, <3>4, <4>1
    <3>7. CASE p = 3
      <4>1. /\ pending'[1] = a /\ pending'[2] = b /\ pending'[3] = RemoveAt(c, i)
            /\ i \in DOMAIN c /\ c[i] = t
        BY <2>1, <3>3, <3>7
      <4> HIDE DEF a, b, c, p
      <4>2. QED BY <3>1, <3>2, <3>4, <4>1
    <3>8. QED BY <1>1, <3>5, <3>6, <3>7
  <2>5. \A u \in Tasks : u # t => (Waiting(u)' <=> Waiting(u))
    <3>1. ToSet(RemoveAt(pending[p], i)) \cup {t} = ToSet(pending[p])
      BY <1>1, <2>1, RemoveFromQueue DEF Priorities
    <3>2. \A u \in Tasks : Priority(u) \in Priorities
      BY PriorityType
    <3>3. \A q \in Priorities : pending'[q] = IF q = p THEN RemoveAt(pending[p], i) ELSE pending[q]
      BY <1>1, <2>1, <3>2
    <3> HIDE DEF p
    <3>4. QED BY <3>1, <3>2, <3>3 DEF Waiting, Priority
  <2>6. Fate' = [Fate EXCEPT ![t] = "refused"]
    <3>1. \A u \in Tasks : Fate'[u] = IF u = t THEN "refused" ELSE Fate[u]
      <4> SUFFICES ASSUME NEW u \in Tasks PROVE Fate'[u] = IF u = t THEN "refused" ELSE Fate[u]
        OBVIOUS
      <4>1. CASE u = t
        <5>1. result'[t] = "refused"
          BY <1>1, <2>2 DEF TypeOK
        <5>2. QED BY <4>1, <5>1, FateNext
      <4>2. CASE u # t
        <5>1. result'[u] = result[u] /\ job'[u] = job[u]
          BY <1>1, <2>2, <4>2 DEF TypeOK
        <5>2. Waiting(u)' <=> Waiting(u)
          BY <2>5, <4>2
        <5>3. QED BY <2>2, <4>2, <5>1, <5>2, FateNext DEF FateTold
      <4>3. QED BY <4>1, <4>2
    <3>2. QED BY <3>1 DEF Fate
  <2>7. Line!Refuse(t)
    BY <2>3, <2>4, <2>6, LineOperators DEF Line!Refuse
  <2>8. QED BY <2>7
<1>4. QED BY <1>2, <1>3

LEMMA LineRestart ==
  ASSUME IInv, IInv', ApiRestarts
  PROVE  Line!Crash
<1>1. pending'[1] = <<>> /\ pending'[2] = <<>> /\ pending'[3] = <<>>
  BY DEF ApiRestarts, Priorities
<1>2. InLine' = <<>>
  <2>1. <<>> \in Seq(Tasks) /\ <<>> \o <<>> = <<>>
    BY EmptySeq, ConcatEmptySeq
  <2>2. QED BY <1>1, <2>1 DEF InLine, Interactive, Background, Training
<1>3. \A t \in Tasks : ~Waiting(t)'
  BY <1>1, PriorityType DEF Waiting, ToSet, Priorities, Priority
<1>4. /\ UNCHANGED <<picked, result>>
      /\ \A t \in Tasks : job'[t] = IF job[t] \in {"new", "ended"} THEN job[t] ELSE "lost"
  BY DEF ApiRestarts
<1> DEFINE L == {t \in Tasks : Fate[t] \in {"new", "waiting"} /\ job'[t] = "lost"}
<1>5. ASSUME NEW t \in Tasks, Fate[t] = "waiting" PROVE Waiting(t) /\ job'[t] = "lost"
  <2>1. Waiting(t)
    BY <1>5, FateNext DEF FateTold
  <2>2. job[t] \in {"queued", "offering", "givingUp"}
    BY <2>1, FateNext DEF FateTold
  <2>3. QED BY <1>4, <2>1, <2>2
<1>6. {t \in Tasks : Fate[t] = "waiting"} \subseteq L
  BY <1>5
<1>7. ASSUME NEW t \in Tasks PROVE Fate'[t] = IF t \in L THEN "lost" ELSE Fate[t]
  <2>1. CASE t \in picked
    BY <1>4, <2>1, FateNext DEF FateTold
  <2>2. CASE result[t] = "refused"
    BY <1>4, <2>2, FateNext DEF FateTold
  <2>3. CASE Waiting(t)
    <3>1. Fate[t] = "waiting" /\ t \notin picked /\ result[t] # "refused"
      BY <2>3, FateNext DEF FateTold
    <3>2. QED BY <1>3, <1>4, <1>5, <3>1, FateNext
  <2>4. CASE t \notin picked /\ result[t] # "refused" /\ ~Waiting(t)
    <3>1. Fate[t] = IF job[t] = "lost" THEN "lost" ELSE "new"
      BY <2>4, FateNext DEF FateTold
    <3>2. Fate'[t] = IF job'[t] = "lost" THEN "lost" ELSE "new"
      BY <1>3, <1>4, <2>4, FateNext
    <3>3. QED BY <1>4, <3>1, <3>2
  <2>5. QED BY <2>1, <2>2, <2>3, <2>4
<1>8. Fate' = [t \in Tasks |-> IF t \in L THEN "lost" ELSE Fate[t]]
  BY <1>7 DEF Fate
<1>9. L \in SUBSET Tasks /\ L \subseteq {t \in Tasks : Fate[t] \in {"new", "waiting"}}
  OBVIOUS
<1> HIDE DEF L
<1>10. QED BY <1>2, <1>6, <1>8, <1>9 DEF Line!Crash

-------------------------------------------------------------------------------
(* Everything else the line does not show. *)
LEMMA LineJobStep ==
  ASSUME IInv, IInv', NEW t \in Tasks, JobStep(t)
  PROVE  Line!Offer(t) \/ Line!Refuse(t) \/ UNCHANGED Line!vars
<1>1. job \in [Tasks -> JobStates] /\ result \in [Tasks -> Results] /\ done \in [Tasks -> {"none", "ok", "err"}]
  BY DEF IInv, TypeOK
<1>2. CASE Push(t)
  BY <1>2, LinePush
<1>3. CASE Withdraw(t)
  BY <1>3, LineWithdraw
<1>4. CASE ~Push(t) /\ ~Withdraw(t)
  <2>1. /\ UNCHANGED <<pending, picked>>
        /\ job[t] # "lost" /\ \E s \in JobStates \ {"lost"} : job' = [job EXCEPT ![t] = s]
        /\ \/ UNCHANGED result
           \/ /\ job[t] = "working"
              /\ \E r \in Results \ {"refused"} : result' = [result EXCEPT ![t] = r]
    <3>1. UNCHANGED <<pending, picked>>
      BY <1>4 DEF JobStep, Add, Wake, OfferPicked, OfferGivesUp, RunDone, RunGivesUp, RemoveTask
    <3>2. job[t] # "lost" /\ \E s \in JobStates \ {"lost"} : job' = [job EXCEPT ![t] = s]
      BY <1>4 DEF JobStep, Add, Wake, OfferPicked, OfferGivesUp, RunDone, RunGivesUp, RemoveTask,
                  JobStates
    <3>3. done[t] \in Results \ {"refused"}
      BY <1>1 DEF Results
    <3>4. \/ UNCHANGED result
          \/ /\ job[t] = "working"
             /\ \E r \in Results \ {"refused"} : result' = [result EXCEPT ![t] = r]
      BY <1>4, <3>3 DEF JobStep, Add, Wake, OfferPicked, OfferGivesUp, RunDone, RunGivesUp,
                        RemoveTask, Results
    <3>5. QED BY <3>1, <3>2, <3>4
  <2>2. job[t] = "working" => result[t] # "refused"
    BY DEF IInv, Settled
  <2>3. \A u \in Tasks : (result'[u] = "refused") <=> (result[u] = "refused")
    BY <1>1, <2>1, <2>2
  <2>4. \A u \in Tasks : (job'[u] = "lost") <=> (job[u] = "lost")
    BY <1>1, <2>1
  <2>5. QED BY <2>1, <2>3, <2>4, LineQuiet
<1>5. QED BY <1>2, <1>3, <1>4

LEMMA LineWorkers ==
  ASSUME IInv, IInv', NEW w \in Workers, HandlerStep(w) \/ WorkerStep(w)
  PROVE  Line!Take \/ UNCHANGED Line!vars
<1>1. UNCHANGED <<job, result>>
  BY DEF HandlerStep, TakeAny, TakeNothing, Woken, PollEnds, TakeWaiting, Apply,
         WorkerStep, Poll, CheckIn, Report, ReportLost, StopTask, Heartbeat,
         HeartbeatAnswered, WorkerDies, apiVars
<1>2. \/ UNCHANGED <<pending, picked>>
      \/ \E p \in Priorities : First(p) /\ Pop(p)
  <2>1. CASE TakeAny(w)
    BY <2>1 DEF TakeAny
  <2>2. CASE TakeWaiting(w)
    BY <2>2 DEF TakeWaiting, Priorities, Training
  <2>3. CASE ~TakeAny(w) /\ ~TakeWaiting(w)
    BY <2>3 DEF HandlerStep, TakeNothing, Woken, PollEnds, Apply,
         WorkerStep, Poll, CheckIn, Report, ReportLost, StopTask, Heartbeat,
         HeartbeatAnswered, WorkerDies, apiVars
  <2>4. QED BY <2>1, <2>2, <2>3
<1>3. CASE UNCHANGED <<pending, picked>>
  BY <1>1, <1>3, LineQuiet
<1>4. CASE \E p \in Priorities : First(p) /\ Pop(p)
  BY <1>1, <1>4, LinePop
<1>5. QED BY <1>2, <1>3, <1>4

(* The dispatcher implements the line: whatever interleaves between a job  *)
(* that offers, gives up or is told, and the workers that poll or check    *)
(* in, each task joins in order of priority and arrival and leaves once,   *)
(* from the head by being taken or from its place by being refused.        *)
THEOREM DispatcherImplementsLine == Spec => ImplementsLine
<1>1. Init => Line!Init
  BY LineInit
<1>2. IInv /\ IInv' /\ [Next]_vars => [Line!Next]_(Line!vars)
  <2> SUFFICES ASSUME IInv, IInv', [Next]_vars
               PROVE  Line!Next \/ UNCHANGED Line!vars
    OBVIOUS
  <2>1. ASSUME NEW t \in Tasks, JobStep(t) PROVE Line!Next \/ UNCHANGED Line!vars
    BY <2>1, LineJobStep DEF Line!Next
  <2>2. ASSUME NEW w \in Workers, HandlerStep(w) \/ WorkerStep(w)
        PROVE  Line!Next \/ UNCHANGED Line!vars
    BY <2>2, LineWorkers DEF Line!Next
  <2>3. CASE ApiRestarts
    BY <2>3, LineRestart DEF Line!Next
  <2>4. CASE UNCHANGED vars
    BY <2>4, LineQuiet DEF vars, apiVars
  <2>5. QED BY <2>1, <2>2, <2>3, <2>4 DEF Next
<1>3. QED BY <1>1, <1>2, Inductive, PTL DEF Spec, ImplementsLine, Line!Spec
===============================================================================
