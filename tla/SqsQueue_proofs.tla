--------------------------- MODULE SqsQueue_proofs ---------------------------
(***************************************************************************)
(* Theorems about the SQS data plane, for every set of queues, groups and  *)
(* deduplication ids and every value of the bounds.                        *)
(*                                                                         *)
(* The redrive is the only operation that moves messages between queues.   *)
(* Home, Pos and WasMoved say where each message after it comes from: from *)
(* which queue and position, and whether it was moved.  That this is one   *)
(* to one, leaves nobody out and keeps the order is proved once, and each  *)
(* invariant is then carried over from the origins.                        *)
(***************************************************************************)
EXTENDS SqsQueue, FiniteSetTheorems, SequenceTheorems, TLAPS

-----------------------------------------------------------------------------
(* Positions.                                                              *)

Rank(T, i) == Cardinality({j \in T : j <= i})

\* How many positions of T there are up to i: between 1 and all of them, and more
\* the further on.
LEMMA RankGrows ==
  ASSUME NEW n \in Nat, NEW T \in SUBSET (1..n)
  PROVE  /\ IsFiniteSet(T) /\ Cardinality(T) \in Nat
         /\ \A i \in T : Rank(T, i) \in 1..Cardinality(T)
         /\ \A i, k \in T : i < k => Rank(T, i) < Rank(T, k)
<1>1. IsFiniteSet(T) /\ Cardinality(T) \in Nat
  <2>1. IsFiniteSet(1..n)
    BY FS_Interval
  <2>2. IsFiniteSet(T)
    BY <2>1, FS_Subset
  <2>. QED
    BY <2>2, FS_CardinalityType
<1>2. ASSUME NEW i \in T
      PROVE  /\ IsFiniteSet({j \in T : j <= i})
             /\ Rank(T, i) \in Nat /\ Rank(T, i) <= Cardinality(T) /\ Rank(T, i) # 0
  <2>. DEFINE upto == {j \in T : j <= i}
  <2>1. IsFiniteSet(upto) /\ Cardinality(upto) <= Cardinality(T)
    <3>1. upto \in SUBSET T
      OBVIOUS
    <3>. HIDE DEF upto
    <3>. QED
      BY <1>1, <3>1, FS_Subset
  <2>2. i \in upto
    OBVIOUS
  <2>3. Cardinality(upto) \in Nat /\ Cardinality(upto) # 0
    <3>. HIDE DEF upto
    <3>. QED
      BY <2>1, <2>2, FS_CardinalityType, FS_EmptySet
  <2>. QED
    BY <2>1, <2>3 DEF Rank
<1>3. ASSUME NEW i \in T, NEW k \in T, i < k
      PROVE  Rank(T, i) < Rank(T, k)
  <2>. DEFINE low == {j \in T : j <= i}
              high == {j \in T : j <= k}
  <2>1. IsFiniteSet(low) /\ IsFiniteSet(high) /\ Cardinality(low) \in Nat /\ Cardinality(high) \in Nat
    BY <1>2 DEF Rank
  <2>2. k \in high /\ low \in SUBSET (high \ {k})
    <3>1. \A j \in T : j \in Int
      OBVIOUS
    <3>2. \A j \in low : j \in high /\ j # k
      BY <1>3, <3>1
    <3>3. k \in high
      BY <3>1
    <3>. QED
      BY <3>2, <3>3
  <2>3. Cardinality(low) < Cardinality(high)
    <3>. HIDE DEF low, high
    <3>1. IsFiniteSet(high \ {k}) /\ Cardinality(high \ {k}) = Cardinality(high) - 1
      BY <2>1, <2>2, FS_RemoveElement
    <3>2. Cardinality(low) <= Cardinality(high \ {k})
      BY <3>1, <2>2, FS_Subset
    <3>. QED
      BY <2>1, <3>1, <3>2
  <2>. QED
    BY <2>3 DEF Rank
<1>4. \A i \in T : Rank(T, i) \in 1..Cardinality(T)
  <2>. SUFFICES ASSUME NEW i \in T PROVE Rank(T, i) \in 1..Cardinality(T)
    OBVIOUS
  <2>1. Rank(T, i) \in Nat /\ Rank(T, i) <= Cardinality(T) /\ Rank(T, i) # 0
    BY <1>2
  <2>. QED
    BY <1>1, <2>1
<1>. QED
  BY <1>1, <1>3, <1>4

\* Positions(T) lists T: each position once, in order.
LEMMA PositionsList ==
  ASSUME NEW n \in Nat, NEW T \in SUBSET (1..n)
  PROVE  /\ Cardinality(T) \in Nat
         /\ Positions(T) \in [1..Cardinality(T) -> T]
         /\ \A a, b \in 1..Cardinality(T) : a < b => Positions(T)[a] < Positions(T)[b]
         /\ \A i \in T : \E a \in 1..Cardinality(T) : Positions(T)[a] = i
<1>. DEFINE c == Cardinality(T)
            f == [i \in T |-> Rank(T, i)]
<1>1. /\ IsFiniteSet(T) /\ c \in Nat
      /\ \A i \in T : Rank(T, i) \in 1..c
      /\ \A i, k \in T : i < k => Rank(T, i) < Rank(T, k)
  BY RankGrows
<1>2. \A i, k \in T : Rank(T, i) = Rank(T, k) => i = k
  <2>1. \A i \in T : i \in Nat /\ Rank(T, i) \in Nat
    BY <1>1
  <2>. QED
    BY <1>1, <2>1
<1>3. f \in Surjection(T, 1..c)
  <2>1. f \in Injection(T, 1..c)
    BY <1>1, <1>2 DEF Injection, IsInjective
  <2>2. IsFiniteSet(1..c) /\ Cardinality(1..c) = c
    BY <1>1, FS_Interval
  <2>. HIDE DEF f
  <2>. QED
    BY <2>1, <2>2, FS_Injection
<1>4. \A a \in 1..c : \E i \in T : Rank(T, i) = a
  BY <1>3 DEF Surjection
<1>5. \A a \in 1..c : Positions(T)[a] \in T /\ Rank(T, Positions(T)[a]) = a
  BY <1>4 DEF Positions, Rank
<1>6. Positions(T) \in [1..c -> T]
  <2>1. Positions(T) = [a \in 1..c |-> Positions(T)[a]]
    BY DEF Positions
  <2>. QED
    BY <1>5, <2>1
<1>7. ASSUME NEW a \in 1..c, NEW b \in 1..c, a < b
      PROVE  Positions(T)[a] < Positions(T)[b]
  <2>. DEFINE i == Positions(T)[a]
              k == Positions(T)[b]
  <2>0. i \in T /\ k \in T /\ Rank(T, i) = a /\ Rank(T, k) = b
    BY <1>5
  <2>. HIDE DEF i, k
  <2>1. i \in Int /\ k \in Int
    BY <2>0
  <2>2. ~ k < i
    <3>1. k < i => b < a
      BY <1>1, <2>0
    <3>. QED
      BY <1>7, <3>1
  <2>3. i # k
    BY <2>0, <1>7
  <2>4. i < k
    BY <2>1, <2>2, <2>3
  <2>. QED
    BY <2>4 DEF i, k
<1>8. ASSUME NEW i \in T
      PROVE  \E a \in 1..c : Positions(T)[a] = i
  <2>1. Rank(T, i) \in 1..c
    BY <1>1
  <2>2. Positions(T)[Rank(T, i)] = i
    BY <1>2, <1>5, <2>1
  <2>. QED
    BY <2>1, <2>2
<1>. QED
  BY <1>1, <1>6, <1>7, <1>8

\* At(s, T) is a sequence of elements of s.
LEMMA AtIsSeq ==
  ASSUME NEW S, NEW s \in Seq(S), NEW T \in SUBSET (DOMAIN s)
  PROVE  /\ T \in SUBSET (1..Len(s)) /\ Len(s) \in Nat
         /\ At(s, T) \in Seq(S) /\ Len(At(s, T)) = Cardinality(T)
         /\ DOMAIN At(s, T) = 1..Cardinality(T)
         /\ \A a \in 1..Cardinality(T) : At(s, T)[a] = s[Positions(T)[a]]
<1>1. T \in SUBSET (1..Len(s)) /\ Len(s) \in Nat
  OBVIOUS
<1>2. /\ Cardinality(T) \in Nat
      /\ Positions(T) \in [1..Cardinality(T) -> T]
  BY <1>1, PositionsList
<1>3. At(s, T) = [a \in 1..Cardinality(T) |-> s[Positions(T)[a]]]
  BY <1>2 DEF At
<1>4. \A a \in 1..Cardinality(T) : s[Positions(T)[a]] \in S
  BY <1>1, <1>2
<1>5. At(s, T) \in [1..Cardinality(T) -> S]
  BY <1>3, <1>4
<1>6. At(s, T) \in Seq(S)
  BY <1>2, <1>5, SeqDef
<1>. QED
  BY <1>1, <1>2, <1>3, <1>6

-----------------------------------------------------------------------------
(* Messages.                                                               *)

\* What the operations do to a message leaves it a message with its id, and a lease
\* counts one more time.
LEMMA MessagesStay ==
  ASSUME NEW m \in Message, NEW v \in 0..MaxWait
  PROVE  /\ Redriven(m) \in Message /\ Redriven(m).id = m.id
         /\ [m EXCEPT !.wait = v] \in Message
         /\ m.leases < MaxLeases => Leased(m, v) \in Message
<1>. USE SqsBounds
<1>1. \A n \in Message : \A w \in 0..MaxWait : [n EXCEPT !.wait = w] \in Message
  BY DEF Message
<1>2. \A n \in Message : \A c \in Nat : [n EXCEPT !.receive_count = c] \in Message
  BY DEF Message
<1>3. \A n \in Message : \A h \in BOOLEAN : [n EXCEPT !.held = h] \in Message
  BY DEF Message
<1>4. \A n \in Message : [n EXCEPT !.moved = TRUE] \in Message
  BY DEF Message
<1>5. \A n \in Message : \A l \in 0..MaxLeases : [n EXCEPT !.leases = l] \in Message
  BY DEF Message
<1>6. Redriven(m) \in Message /\ Redriven(m).id = m.id
  <2>. DEFINE m1 == [m EXCEPT !.receive_count = 0]
              m2 == [m1 EXCEPT !.held = FALSE]
              m3 == [m2 EXCEPT !.wait = 0]
              m4 == [m3 EXCEPT !.moved = TRUE]
  <2>1. m1 \in Message
    BY <1>2
  <2>2. m2 \in Message
    <3>. HIDE DEF m1
    <3>. QED
      BY <2>1, <1>3
  <2>3. m3 \in Message
    <3>1. 0 \in 0..MaxWait
      OBVIOUS
    <3>. HIDE DEF m2
    <3>. QED
      BY <2>2, <3>1, <1>1
  <2>4. m4 \in Message
    <3>. HIDE DEF m3
    <3>. QED
      BY <2>3, <1>4
  <2>5. m4 = Redriven(m)
    BY Zenon DEF Redriven
  <2>6. Redriven(m).id = m.id
    BY DEF Redriven, Message
  <2>. QED
    BY <2>4, <2>5, <2>6
<1>7. ASSUME m.leases < MaxLeases
      PROVE  Leased(m, v) \in Message
  <2>. DEFINE m1 == [m EXCEPT !.wait = v]
              m2 == [m1 EXCEPT !.receive_count = @ + 1]
              m3 == [m2 EXCEPT !.leases = @ + 1]
              m4 == [m3 EXCEPT !.held = TRUE]
  <2>1. m1 \in Message
    BY <1>1
  <2>2. m2 \in Message
    <3>. HIDE DEF m1
    <3>1. m1.receive_count + 1 \in Nat
      BY <2>1 DEF Message
    <3>. QED
      BY <2>1, <3>1, <1>2
  <2>3. m3 \in Message
    <3>1. m2.leases = m.leases
      BY DEF Message
    <3>2. m.leases + 1 \in 0..MaxLeases
      BY <1>7 DEF Message
    <3>. HIDE DEF m2
    <3>. QED
      BY <2>2, <3>1, <3>2, <1>5
  <2>4. m4 \in Message
    <3>. HIDE DEF m3
    <3>. QED
      BY <2>3, <1>3
  <2>5. m4 = Leased(m, v)
    BY Zenon DEF Leased
  <2>. QED
    BY <2>4, <2>5
<1>. QED
  BY <1>1, <1>6, <1>7

\* What every field of a message is after each of them.
LEMMA FieldsAfter ==
  ASSUME NEW m \in Message, NEW v
  PROVE  /\ m.id \in Id /\ m.receive_count \in Nat /\ m.wait \in 0..MaxWait
         /\ LET n == Redriven(m) IN
            /\ n.id = m.id /\ n.group = m.group /\ n.dedup = m.dedup
            /\ n.receive_count = 0 /\ n.held = FALSE /\ n.wait = 0 /\ n.moved = TRUE
         /\ LET n == Leased(m, v) IN
            /\ n.id = m.id /\ n.group = m.group /\ n.dedup = m.dedup /\ n.moved = m.moved
            /\ n.receive_count = m.receive_count + 1
         /\ LET n == [m EXCEPT !.wait = v] IN
            /\ n.id = m.id /\ n.group = m.group /\ n.dedup = m.dedup /\ n.moved = m.moved
            /\ n.receive_count = m.receive_count /\ n.held = m.held /\ n.wait = v
<1>1. m.id \in Id /\ m.receive_count \in Nat /\ m.wait \in 0..MaxWait
  BY DEF Message
<1>2. LET n == Redriven(m) IN
            /\ n.id = m.id /\ n.group = m.group /\ n.dedup = m.dedup
            /\ n.receive_count = 0 /\ n.held = FALSE /\ n.wait = 0 /\ n.moved = TRUE
  BY DEF Redriven, Message
<1>3. LET n == Leased(m, v) IN
            /\ n.id = m.id /\ n.group = m.group /\ n.dedup = m.dedup /\ n.moved = m.moved
            /\ n.receive_count = m.receive_count + 1
  BY DEF Leased, Message
<1>4. LET n == [m EXCEPT !.wait = v] IN
            /\ n.id = m.id /\ n.group = m.group /\ n.dedup = m.dedup /\ n.moved = m.moved
            /\ n.receive_count = m.receive_count /\ n.held = m.held /\ n.wait = v
  BY DEF Message
<1>. QED
  BY <1>1, <1>2, <1>3, <1>4

-----------------------------------------------------------------------------
(* The redrive.                                                            *)

\* What the redrive of q leaves in r, before it appends what it moves.
Left(q, r) == IF r = q /\ CanRedrive(q) THEN At(messages[q], AliveAt(q)) ELSE messages[r]
IsDlq(q, r) == CanRedrive(q) /\ r = policy[q].dlq

\* Where message j of r, after the redrive of q, comes from.
WasMoved(q, r, j) == j > Len(Left(q, r))
Home(q, r, j) == IF WasMoved(q, r, j) THEN q ELSE r
Pos(q, r, j) ==
  IF WasMoved(q, r, j) THEN Positions(DeadAt(q))[j - Len(Left(q, r))]
  ELSE IF r = q /\ CanRedrive(q) THEN Positions(AliveAt(q))[j] ELSE j

\* The parts the redrive puts together are sequences of messages.
LEMMA PartsOfRedrive ==
  ASSUME TypeOK, NEW q \in Queue
  PROVE  /\ messages[q] \in Seq(Message)
         /\ DeadAt(q) \in SUBSET (DOMAIN messages[q])
         /\ AliveAt(q) \in SUBSET (DOMAIN messages[q])
         /\ \A r \in Queue : Left(q, r) \in Seq(Message)
         /\ Moved(q) \in Seq(Message) /\ Len(Moved(q)) = Cardinality(DeadAt(q))
         /\ Cardinality(DeadAt(q)) \in Nat
         /\ \A a \in 1..Cardinality(DeadAt(q)) :
              Moved(q)[a] = Redriven(messages[q][Positions(DeadAt(q))[a]])
<1>. DEFINE s == messages[q]
            d == At(s, DeadAt(q))
            c == Cardinality(DeadAt(q))
<1>1. \A r \in Queue : messages[r] \in Seq(Message)
  BY DEF TypeOK
<1>2. s \in Seq(Message)
  BY <1>1
<1>3. DeadAt(q) \in SUBSET (DOMAIN s) /\ AliveAt(q) \in SUBSET (DOMAIN s)
  BY DEF DeadAt, AliveAt
<1>4. /\ d \in Seq(Message) /\ DOMAIN d = 1..c /\ Len(d) = c
      /\ \A a \in 1..c : d[a] = s[Positions(DeadAt(q))[a]]
  <2>. HIDE DEF s
  <2>. QED
    BY <1>2, <1>3, AtIsSeq
<1>5. c \in Nat
  BY <1>4, LenProperties
<1>6. At(s, AliveAt(q)) \in Seq(Message)
  <2>. HIDE DEF s
  <2>. QED
    BY <1>2, <1>3, AtIsSeq
<1>7. \A r \in Queue : Left(q, r) \in Seq(Message)
  BY <1>1, <1>6 DEF Left
<1>8. Moved(q) = [a \in 1..c |-> Redriven(d[a])]
  BY <1>4 DEF Moved
<1>9. \A a \in 1..c : Redriven(d[a]) \in Message
  <2>. SUFFICES ASSUME NEW a \in 1..c PROVE Redriven(d[a]) \in Message
    OBVIOUS
  <2>1. d[a] \in Message
    BY <1>4, <1>5
  <2>2. 0 \in 0..MaxWait
    BY SqsBounds
  <2>. HIDE DEF d
  <2>. QED
    BY <2>1, <2>2, MessagesStay
<1>10. Moved(q) \in [1..c -> Message]
  BY <1>8, <1>9
<1>11. Moved(q) \in Seq(Message) /\ Len(Moved(q)) = c
  BY <1>5, <1>10, SeqDef
<1>12. \A a \in 1..c : Moved(q)[a] = Redriven(s[Positions(DeadAt(q))[a]])
  BY <1>4, <1>8
<1>. QED
  BY <1>2, <1>3, <1>5, <1>7, <1>11, <1>12

\* messages after the redrive, queue by queue.
LEMMA RedriveIs ==
  ASSUME TypeOK, NEW q \in Queue
  PROVE  /\ AfterRedrive(q) \in [Queue -> Seq(Message)]
         /\ \A r \in Queue : AfterRedrive(q)[r] =
              IF IsDlq(q, r) THEN Left(q, r) \o Moved(q) ELSE Left(q, r)
<1>1. messages \in [Queue -> Seq(Message)]
  BY DEF TypeOK
<1>2. CanRedrive(q) => policy[q].dlq \in Queue
  BY DEF CanRedrive, TypeOK
<1>3. AfterRedrive(q) = [r \in Queue |-> IF IsDlq(q, r) THEN Left(q, r) \o Moved(q) ELSE Left(q, r)]
  <2>1. CASE ~CanRedrive(q)
    BY <1>1, <2>1 DEF AfterRedrive, IsDlq, Left
  <2>2. CASE CanRedrive(q)
    BY <1>1, <1>2, <2>2 DEF AfterRedrive, IsDlq, Left
  <2>. QED
    BY <2>1, <2>2
<1>4. \A r \in Queue : Left(q, r) \in Seq(Message) /\ Moved(q) \in Seq(Message)
  BY PartsOfRedrive
<1>5. \A r \in Queue : Left(q, r) \o Moved(q) \in Seq(Message)
  BY <1>4, ConcatProperties
<1>. QED
  BY <1>3, <1>4, <1>5

\* The messages of r after the redrive: those left, then those moved.
LEMMA LayoutAfterRedrive ==
  ASSUME TypeOK, NEW q \in Queue, NEW r \in Queue
  PROVE  LET A == AfterRedrive(q)[r]
             l == Len(Left(q, r))
             c == Cardinality(DeadAt(q))
         IN  /\ l \in Nat /\ c \in Nat /\ DOMAIN Left(q, r) = 1..l
             /\ DOMAIN A = 1..(IF IsDlq(q, r) THEN l + c ELSE l)
             /\ \A j \in 1..l : A[j] = Left(q, r)[j]
             /\ IsDlq(q, r) => \A a \in 1..c : A[l + a] = Redriven(messages[q][Positions(DeadAt(q))[a]])
<1>. DEFINE A == AfterRedrive(q)[r]
            L == Left(q, r)
            M == Moved(q)
            l == Len(L)
            c == Cardinality(DeadAt(q))
<1>1. /\ L \in Seq(Message) /\ M \in Seq(Message) /\ Len(M) = c /\ c \in Nat
      /\ \A a \in 1..c : M[a] = Redriven(messages[q][Positions(DeadAt(q))[a]])
  BY PartsOfRedrive
<1>2. A = IF IsDlq(q, r) THEN L \o M ELSE L
  BY RedriveIs
<1>3. l \in Nat /\ DOMAIN L = 1..l
  <2>. HIDE DEF L
  <2>. QED
    BY <1>1, LenProperties
<1>4. CASE ~IsDlq(q, r)
  BY <1>1, <1>2, <1>3, <1>4
<1>5. CASE IsDlq(q, r)
  <2>. HIDE DEF L, M, c
  <2>1. /\ L \o M \in Seq(Message) /\ Len(L \o M) = l + c
        /\ \A i \in 1..(l + c) : (L \o M)[i] = IF i <= l THEN L[i] ELSE M[i - l]
    BY <1>1, ConcatProperties
  <2>2. DOMAIN (L \o M) = 1..(l + c)
    BY <2>1, LenProperties
  <2>3. \A i \in 1..l : (L \o M)[i] = L[i]
    BY <1>1, <1>3, <2>1
  <2>4. \A a \in 1..c : (L \o M)[l + a] = M[a]
    <3>. SUFFICES ASSUME NEW a \in 1..c PROVE (L \o M)[l + a] = M[a]
      OBVIOUS
    <3>1. l + a \in 1..(l + c) /\ ~(l + a <= l) /\ (l + a) - l = a
      BY <1>1, <1>3
    <3>. QED
      BY <2>1, <3>1
  <2>5. A = L \o M
    BY <1>2, <1>5
  <2>. QED
    BY <1>1, <1>3, <1>5, <2>2, <2>3, <2>4, <2>5 DEF L, M, c
<1>. QED
  BY <1>4, <1>5

\* Every message after the redrive comes from one before it: a survivor of its own
\* queue, unchanged, or a dead message of q, reset.
LEMMA Origins ==
  ASSUME TypeOK, NEW q \in Queue, NEW r \in Queue, NEW j \in DOMAIN AfterRedrive(q)[r]
  PROVE  /\ j \in Nat \ {0} /\ Home(q, r, j) \in Queue
         /\ Pos(q, r, j) \in DOMAIN messages[Home(q, r, j)]
         /\ WasMoved(q, r, j) =>
              /\ IsDlq(q, r) /\ Pos(q, r, j) \in DeadAt(q)
              /\ j - Len(Left(q, r)) \in 1..Cardinality(DeadAt(q))
              /\ AfterRedrive(q)[r][j] = Redriven(messages[q][Pos(q, r, j)])
         /\ ~WasMoved(q, r, j) =>
              /\ j \in 1..Len(Left(q, r))
              /\ r = q /\ CanRedrive(q) =>
                   Pos(q, r, j) \in AliveAt(q) /\ j \in 1..Cardinality(AliveAt(q))
              /\ AfterRedrive(q)[r][j] = messages[r][Pos(q, r, j)]
<1>. DEFINE A == AfterRedrive(q)[r]
            l == Len(Left(q, r))
            c == Cardinality(DeadAt(q))
            m == IF IsDlq(q, r) THEN l + c ELSE l
<1>1. /\ l \in Nat /\ c \in Nat /\ DOMAIN Left(q, r) = 1..l
      /\ DOMAIN A = 1..m
      /\ \A i \in 1..l : A[i] = Left(q, r)[i]
      /\ IsDlq(q, r) => \A a \in 1..c : A[l + a] = Redriven(messages[q][Positions(DeadAt(q))[a]])
  BY LayoutAfterRedrive
<1>2. /\ messages[q] \in Seq(Message)
      /\ DeadAt(q) \in SUBSET (DOMAIN messages[q])
      /\ AliveAt(q) \in SUBSET (DOMAIN messages[q])
  BY PartsOfRedrive
<1>3. DeadAt(q) \in SUBSET (1..Len(messages[q])) /\ Len(messages[q]) \in Nat
  BY <1>2, AtIsSeq
<1>. HIDE DEF l, c
<1>4. j \in Nat \ {0} /\ j \in 1..m
  BY <1>1
<1>5. ASSUME WasMoved(q, r, j)
      PROVE  /\ IsDlq(q, r) /\ j - l \in 1..c
             /\ Home(q, r, j) = q /\ Pos(q, r, j) = Positions(DeadAt(q))[j - l]
             /\ Pos(q, r, j) \in DeadAt(q)
             /\ A[j] = Redriven(messages[q][Pos(q, r, j)])
  <2>1. j > l
    BY <1>5 DEF WasMoved, l
  <2>2. IsDlq(q, r) /\ j - l \in 1..c
    BY <1>1, <1>4, <2>1
  <2>3. Positions(DeadAt(q)) \in [1..c -> DeadAt(q)]
    BY <1>3, PositionsList DEF c
  <2>4. Home(q, r, j) = q /\ Pos(q, r, j) = Positions(DeadAt(q))[j - l]
    BY <1>5 DEF Home, Pos, l
  <2>5. l + (j - l) = j
    BY <1>1, <1>4
  <2>6. A[l + (j - l)] = Redriven(messages[q][Positions(DeadAt(q))[j - l]])
    BY <1>1, <2>2
  <2>. QED
    BY <2>2, <2>3, <2>4, <2>5, <2>6
<1>6. ASSUME ~WasMoved(q, r, j)
      PROVE  /\ j \in 1..l /\ Home(q, r, j) = r
             /\ Pos(q, r, j) \in DOMAIN messages[r]
             /\ r = q /\ CanRedrive(q) =>
                  Pos(q, r, j) \in AliveAt(q) /\ j \in 1..Cardinality(AliveAt(q))
             /\ A[j] = messages[r][Pos(q, r, j)]
  <2>1. j \in 1..l
    BY <1>1, <1>4, <1>6 DEF WasMoved, l
  <2>2. Home(q, r, j) = r /\ A[j] = Left(q, r)[j] /\ j \in DOMAIN Left(q, r)
    BY <1>1, <1>6, <2>1 DEF Home
  <2>3. CASE r = q /\ CanRedrive(q)
    <3>1. Left(q, r) = At(messages[q], AliveAt(q)) /\ Pos(q, r, j) = Positions(AliveAt(q))[j]
      BY <1>6, <2>3 DEF Left, Pos
    <3>2. /\ AliveAt(q) \in SUBSET (1..Len(messages[q]))
          /\ DOMAIN At(messages[q], AliveAt(q)) = 1..Cardinality(AliveAt(q))
          /\ \A a \in 1..Cardinality(AliveAt(q)) :
               At(messages[q], AliveAt(q))[a] = messages[q][Positions(AliveAt(q))[a]]
      BY <1>2, AtIsSeq
    <3>3. j \in 1..Cardinality(AliveAt(q))
      BY <2>2, <3>1, <3>2
    <3>4. Positions(AliveAt(q)) \in [1..Cardinality(AliveAt(q)) -> AliveAt(q)]
      BY <1>3, <3>2, PositionsList
    <3>. QED
      BY <1>2, <2>1, <2>2, <2>3, <3>1, <3>2, <3>3, <3>4
  <2>4. CASE ~(r = q /\ CanRedrive(q))
    <3>1. Left(q, r) = messages[r] /\ Pos(q, r, j) = j
      BY <1>6, <2>4 DEF Left, Pos
    <3>. QED
      BY <2>1, <2>2, <2>4, <3>1
  <2>. QED
    BY <2>3, <2>4
<1>7. CASE WasMoved(q, r, j)
  BY <1>2, <1>4, <1>5, <1>7 DEF l, c
<1>8. CASE ~WasMoved(q, r, j)
  BY <1>4, <1>6, <1>8 DEF l
<1>. QED
  BY <1>7, <1>8

\* The positions of the dead and of the survivors are listed in order.
LEMMA DeadAndAlive ==
  ASSUME TypeOK, NEW q \in Queue
  PROVE  /\ \A i \in DOMAIN messages[q] : i \in Nat /\ (i \in AliveAt(q) <=> i \notin DeadAt(q))
         /\ \A a, b \in 1..Cardinality(DeadAt(q)) :
              a < b => Positions(DeadAt(q))[a] < Positions(DeadAt(q))[b]
         /\ \A a, b \in 1..Cardinality(AliveAt(q)) :
              a < b => Positions(AliveAt(q))[a] < Positions(AliveAt(q))[b]
         /\ \A i \in DeadAt(q) :
              \E a \in 1..Cardinality(DeadAt(q)) : Positions(DeadAt(q))[a] = i
         /\ \A i \in AliveAt(q) :
              \E a \in 1..Cardinality(AliveAt(q)) : Positions(AliveAt(q))[a] = i
         /\ DeadAt(q) \subseteq DOMAIN messages[q] /\ AliveAt(q) \subseteq DOMAIN messages[q]
         /\ Cardinality(AliveAt(q)) \in Nat
<1>1. /\ messages[q] \in Seq(Message)
      /\ DeadAt(q) \in SUBSET (DOMAIN messages[q])
      /\ AliveAt(q) \in SUBSET (DOMAIN messages[q])
  BY PartsOfRedrive
<1>2. /\ DeadAt(q) \in SUBSET (1..Len(messages[q])) /\ Len(messages[q]) \in Nat
      /\ AliveAt(q) \in SUBSET (1..Len(messages[q]))
  BY <1>1, AtIsSeq
<1>3. \A i \in DOMAIN messages[q] : i \in Nat /\ (i \in AliveAt(q) <=> i \notin DeadAt(q))
  BY <1>1 DEF AliveAt
<1>. QED
  BY <1>1, <1>2, <1>3, PositionsList

\* No message is in two places after the redrive.
LEMMA OriginsDiffer ==
  ASSUME TypeOK, NEW q \in Queue,
         NEW r \in Queue, NEW j \in DOMAIN AfterRedrive(q)[r],
         NEW p \in Queue, NEW k \in DOMAIN AfterRedrive(q)[p],
         Home(q, r, j) = Home(q, p, k), Pos(q, r, j) = Pos(q, p, k)
  PROVE  r = p /\ j = k
<1>1. CASE WasMoved(q, r, j) /\ WasMoved(q, p, k)
  <2>1. /\ IsDlq(q, r) /\ j - Len(Left(q, r)) \in 1..Cardinality(DeadAt(q))
        /\ IsDlq(q, p) /\ k - Len(Left(q, p)) \in 1..Cardinality(DeadAt(q))
        /\ j \in Nat /\ k \in Nat
    BY <1>1, Origins
  <2>2. r = p
    BY <2>1 DEF IsDlq
  <2>. DEFINE l == Len(Left(q, r))
  <2>3. Positions(DeadAt(q))[j - l] = Positions(DeadAt(q))[k - l]
    BY <1>1, <2>2 DEF Pos
  <2>4. Positions(DeadAt(q))[j - l] \in Nat
    BY <1>1, DeadAndAlive, Origins DEF Pos, Home
  <2>5. ~(j - l < k - l) /\ ~(k - l < j - l)
    BY <2>1, <2>2, <2>3, <2>4, DeadAndAlive
  <2>6. l \in Nat
    BY LayoutAfterRedrive
  <2>7. j = k
    BY <2>1, <2>5, <2>6
  <2>. QED
    BY <2>2, <2>7
<1>2. CASE ~WasMoved(q, r, j) /\ ~WasMoved(q, p, k)
  <2>1. r = p
    BY <1>2 DEF Home
  <2>2. CASE r = q /\ CanRedrive(q)
    <3>1. j \in 1..Cardinality(AliveAt(q)) /\ k \in 1..Cardinality(AliveAt(q))
      BY <1>2, <2>1, <2>2, Origins
    <3>2. Positions(AliveAt(q))[j] = Positions(AliveAt(q))[k]
      BY <1>2, <2>1, <2>2 DEF Pos
    <3>3. Positions(AliveAt(q))[j] \in Nat
      BY <1>2, <2>2, DeadAndAlive, Origins DEF Pos, Home
    <3>4. ~(j < k) /\ ~(k < j)
      BY <3>1, <3>2, <3>3, DeadAndAlive
    <3>5. j = k
      BY <3>1, <3>4
    <3>. QED
      BY <2>1, <3>5
  <2>3. CASE ~(r = q /\ CanRedrive(q))
    BY <1>2, <2>1, <2>3 DEF Pos
  <2>. QED
    BY <2>2, <2>3
<1>3. ASSUME NEW x \in Queue, NEW a \in DOMAIN AfterRedrive(q)[x],
             NEW y \in Queue, NEW b \in DOMAIN AfterRedrive(q)[y],
             Home(q, x, a) = Home(q, y, b), Pos(q, x, a) = Pos(q, y, b),
             WasMoved(q, x, a), ~WasMoved(q, y, b)
      PROVE  FALSE
  <2>1. Pos(q, x, a) \in DeadAt(q) /\ CanRedrive(q) /\ Home(q, x, a) = q
    BY <1>3, Origins DEF IsDlq, Home
  <2>2. y = q
    BY <1>3, <2>1 DEF Home
  <2>3. Pos(q, y, b) \in AliveAt(q)
    BY <1>3, <2>1, <2>2, Origins
  <2>. QED
    BY <1>3, <2>1, <2>3, DeadAndAlive
<1>. QED
  BY <1>1, <1>2, <1>3

\* Survivors keep their order and stay ahead of what is moved to them.
LEMMA OriginsInOrder ==
  ASSUME TypeOK, NEW q \in Queue, NEW r \in Queue,
         NEW j \in DOMAIN AfterRedrive(q)[r], NEW k \in DOMAIN AfterRedrive(q)[r],
         j < k, ~WasMoved(q, r, k)
  PROVE  ~WasMoved(q, r, j) /\ Pos(q, r, j) < Pos(q, r, k)
<1>1. j \in Nat /\ k \in Nat /\ Len(Left(q, r)) \in Nat
  BY Origins, LayoutAfterRedrive
<1>2. ~WasMoved(q, r, j)
  BY <1>1 DEF WasMoved
<1>3. CASE r = q /\ CanRedrive(q)
  <2>1. j \in 1..Cardinality(AliveAt(q)) /\ k \in 1..Cardinality(AliveAt(q))
    BY <1>2, <1>3, Origins
  <2>2. Positions(AliveAt(q))[j] < Positions(AliveAt(q))[k]
    BY <2>1, DeadAndAlive
  <2>. QED
    BY <1>2, <1>3, <2>2 DEF Pos
<1>4. CASE ~(r = q /\ CanRedrive(q))
  BY <1>2, <1>4 DEF Pos
<1>. QED
  BY <1>3, <1>4

\* No message is left out of the redrive.
LEMMA EveryoneKept ==
  ASSUME TypeOK, NEW q \in Queue, NEW p \in Queue, NEW i \in DOMAIN messages[p]
  PROVE  \E r \in Queue : \E j \in DOMAIN AfterRedrive(q)[r] :
           Home(q, r, j) = p /\ Pos(q, r, j) = i
<1>1. CASE ~(p = q /\ CanRedrive(q))
  <2>1. Left(q, p) = messages[p]
    BY <1>1 DEF Left
  <2>2. i \in 1..Len(Left(q, p)) /\ Len(Left(q, p)) \in Nat
    BY <2>1, LayoutAfterRedrive
  <2>3. Cardinality(DeadAt(q)) \in Nat
    BY LayoutAfterRedrive
  <2>4. i \in DOMAIN AfterRedrive(q)[p]
    BY <2>2, <2>3, LayoutAfterRedrive
  <2>5. ~WasMoved(q, p, i)
    BY <2>2 DEF WasMoved
  <2>6. Home(q, p, i) = p /\ Pos(q, p, i) = i
    BY <1>1, <2>5 DEF Home, Pos
  <2>. QED
    BY <2>4, <2>6
<1>2. CASE p = q /\ CanRedrive(q) /\ i \in AliveAt(q)
  <2>1. PICK a \in 1..Cardinality(AliveAt(q)) : Positions(AliveAt(q))[a] = i
    BY <1>2, DeadAndAlive
  <2>2. Len(Left(q, q)) = Cardinality(AliveAt(q))
    <3>1. messages[q] \in Seq(Message) /\ AliveAt(q) \in SUBSET (DOMAIN messages[q])
      BY PartsOfRedrive
    <3>. QED
      BY <1>2, <3>1, AtIsSeq DEF Left
  <2>3. Len(Left(q, q)) \in Nat /\ Cardinality(DeadAt(q)) \in Nat
    BY LayoutAfterRedrive
  <2>4. a \in DOMAIN AfterRedrive(q)[q]
    BY <2>2, <2>3, LayoutAfterRedrive
  <2>5. ~WasMoved(q, q, a)
    BY <2>2, <2>3 DEF WasMoved
  <2>6. Home(q, q, a) = q /\ Pos(q, q, a) = i
    BY <1>2, <2>1, <2>5 DEF Home, Pos
  <2>. QED
    BY <1>2, <2>4, <2>6
<1>3. CASE p = q /\ CanRedrive(q) /\ i \notin AliveAt(q)
  <2>1. i \in DeadAt(q)
    BY <1>3, DeadAndAlive
  <2>2. PICK a \in 1..Cardinality(DeadAt(q)) : Positions(DeadAt(q))[a] = i
    BY <2>1, DeadAndAlive
  <2>. DEFINE r == policy[q].dlq
              l == Len(Left(q, r))
  <2>3. r \in Queue /\ IsDlq(q, r)
    BY <1>3 DEF CanRedrive, IsDlq, TypeOK
  <2>. HIDE DEF r
  <2>4. l \in Nat /\ Cardinality(DeadAt(q)) \in Nat
    BY <2>3, LayoutAfterRedrive
  <2>5. DOMAIN AfterRedrive(q)[r] = 1..(l + Cardinality(DeadAt(q)))
    BY <2>3, LayoutAfterRedrive
  <2>6. l + a \in DOMAIN AfterRedrive(q)[r]
    BY <2>4, <2>5
  <2>7. WasMoved(q, r, l + a) /\ (l + a) - l = a
    BY <2>4 DEF WasMoved
  <2>8. Home(q, r, l + a) = q /\ Pos(q, r, l + a) = i
    BY <2>2, <2>7 DEF Home, Pos
  <2>. QED
    BY <1>3, <2>3, <2>6, <2>8
<1>. QED
  BY <1>1, <1>2, <1>3

-----------------------------------------------------------------------------
(* What the operations leave in the queues.                                *)

\* Without(s, i) is s with position i taken out.
LEMMA WithoutIs ==
  ASSUME NEW S, NEW s \in Seq(S), NEW i \in DOMAIN s
  PROVE  /\ Without(s, i) \in Seq(S)
         /\ DOMAIN Without(s, i) = 1..(Len(s) - 1) /\ Len(s) \in Nat
         /\ \A j \in 1..(Len(s) - 1) :
              Without(s, i)[j] = IF j < i THEN s[j] ELSE s[j + 1]
<1>. DEFINE l == Len(s)
            a == SubSeq(s, 1, i - 1)
            b == SubSeq(s, i + 1, l)
<1>1. l \in Nat /\ i \in 1..l /\ \A k \in 1..l : s[k] \in S
  OBVIOUS
<1>. HIDE DEF l
<1>2. /\ a \in Seq(S) /\ Len(a) = i - 1
      /\ \A k \in 1..(i - 1) : a[k] = s[k]
  <2>1. 1 \in Int /\ i - 1 \in Int /\ \A k \in 1..(i - 1) : s[k] \in S
    BY <1>1
  <2>2. /\ a \in Seq(S) /\ Len(a) = IF 1 <= i - 1 THEN (i - 1) - 1 + 1 ELSE 0
        /\ \A k \in 1..((i - 1) - 1 + 1) : a[k] = s[1 + k - 1]
    BY <2>1, SubSeqProperties
  <2>3. (i - 1) - 1 + 1 = i - 1 /\ \A k \in 1..(i - 1) : 1 + k - 1 = k
    BY <1>1
  <2>. HIDE DEF a
  <2>. QED
    BY <1>1, <2>2, <2>3
<1>3. /\ b \in Seq(S) /\ Len(b) = l - i
      /\ \A k \in 1..(l - i) : b[k] = s[i + k]
  <2>1. i + 1 \in Int /\ l \in Int /\ \A k \in (i + 1)..l : s[k] \in S
    BY <1>1
  <2>2. /\ b \in Seq(S) /\ Len(b) = IF i + 1 <= l THEN l - (i + 1) + 1 ELSE 0
        /\ \A k \in 1..(l - (i + 1) + 1) : b[k] = s[(i + 1) + k - 1]
    BY <2>1, SubSeqProperties
  <2>3. l - (i + 1) + 1 = l - i /\ \A k \in 1..(l - i) : (i + 1) + k - 1 = i + k
    BY <1>1
  <2>. HIDE DEF b
  <2>. QED
    BY <1>1, <2>2, <2>3
<1>4. Without(s, i) = a \o b
  BY DEF Without, l
<1>. HIDE DEF a, b
<1>5. /\ a \o b \in Seq(S) /\ Len(a \o b) = l - 1
      /\ \A j \in 1..(l - 1) : (a \o b)[j] = IF j <= i - 1 THEN a[j] ELSE b[j - (i - 1)]
  <2>1. /\ a \o b \in Seq(S) /\ Len(a \o b) = Len(a) + Len(b)
        /\ \A j \in 1..(Len(a) + Len(b)) : (a \o b)[j] = IF j <= Len(a) THEN a[j] ELSE b[j - Len(a)]
    BY <1>2, <1>3, ConcatProperties
  <2>2. Len(a) + Len(b) = l - 1
    BY <1>1, <1>2, <1>3
  <2>. QED
    BY <1>2, <2>1, <2>2
<1>6. DOMAIN (a \o b) = 1..(l - 1)
  BY <1>5, LenProperties
<1>7. ASSUME NEW j \in 1..(l - 1)
      PROVE  (a \o b)[j] = IF j < i THEN s[j] ELSE s[j + 1]
  <2>1. CASE j < i
    <3>1. j <= i - 1 /\ j \in 1..(i - 1)
      BY <1>1, <2>1
    <3>. QED
      BY <1>2, <1>5, <2>1, <3>1
  <2>2. CASE ~(j < i)
    <3>1. ~(j <= i - 1) /\ j - (i - 1) \in 1..(l - i) /\ i + (j - (i - 1)) = j + 1
      BY <1>1, <2>2
    <3>. QED
      BY <1>3, <1>5, <2>2, <3>1
  <2>. QED
    BY <2>1, <2>2
<1>. QED
  BY <1>1, <1>4, <1>5, <1>6, <1>7 DEF l

\* A receive redrives, and then leases some of the messages it may deliver.
LEMMA AfterReceive ==
  ASSUME TypeOK, NEW q \in Queue, ReceiveMessage(q)
  PROVE  /\ messages' \in [Queue -> Seq(Message)]
         /\ \A r \in Queue :
              /\ DOMAIN messages'[r] = DOMAIN AfterRedrive(q)[r]
              /\ \A j \in DOMAIN AfterRedrive(q)[r] :
                   \/ messages'[r][j] = AfterRedrive(q)[r][j]
                   \/ /\ r = q /\ j \in Deliverable(q, AfterRedrive(q)[q])
                      /\ \E v \in 0..MaxWait : messages'[r][j] = Leased(AfterRedrive(q)[q][j], v)
<1>. DEFINE s == AfterRedrive(q)[q]
<1>1. PICK n \in 1..MaxBatch, v \in 0..MaxWait :
        /\ \A i \in Delivered(q, s, n) : s[i].leases < MaxLeases
        /\ messages' = [AfterRedrive(q) EXCEPT ![q] =
             [i \in DOMAIN s |-> IF i \in Delivered(q, s, n) THEN Leased(s[i], v) ELSE s[i]]]
  BY DEF ReceiveMessage
<1>. DEFINE out == Delivered(q, s, n)
            t == [i \in DOMAIN s |-> IF i \in out THEN Leased(s[i], v) ELSE s[i]]
<1>2. AfterRedrive(q) \in [Queue -> Seq(Message)]
  BY RedriveIs
<1>3. out \subseteq Deliverable(q, s)
  BY DEF Delivered
<1>4. s \in Seq(Message) /\ DOMAIN s = 1..Len(s) /\ Len(s) \in Nat
  BY <1>2
<1>5. \A i \in DOMAIN s : t[i] \in Message
  <2>. SUFFICES ASSUME NEW i \in DOMAIN s PROVE t[i] \in Message
    OBVIOUS
  <2>1. s[i] \in Message
    BY <1>4
  <2>2. i \in out => Leased(s[i], v) \in Message
    <3>. HIDE DEF s
    <3>. QED
      BY <1>1, <2>1, MessagesStay
  <2>. QED
    BY <2>1, <2>2
<1>6. t \in Seq(Message)
  <2>1. t \in [1..Len(s) -> Message]
    BY <1>4, <1>5
  <2>. HIDE DEF t
  <2>. QED
    BY <1>4, <2>1, SeqDef
<1>7. messages' = [AfterRedrive(q) EXCEPT ![q] = t]
  BY <1>1
<1>8. messages' \in [Queue -> Seq(Message)]
  <2>. HIDE DEF t
  <2>. QED
    BY <1>2, <1>6, <1>7
<1>9. ASSUME NEW r \in Queue, r # q
      PROVE  messages'[r] = AfterRedrive(q)[r]
  <2>. HIDE DEF t
  <2>. QED
    BY <1>2, <1>7, <1>9
<1>10. messages'[q] = t
  <2>. HIDE DEF t
  <2>. QED
    BY <1>2, <1>7
<1>11. /\ DOMAIN messages'[q] = DOMAIN s
       /\ \A j \in DOMAIN s :
            \/ messages'[q][j] = s[j]
            \/ j \in Deliverable(q, s) /\ messages'[q][j] = Leased(s[j], v)
  BY <1>3, <1>10
<1>. HIDE DEF s, t
<1>. QED
  BY <1>8, <1>9, <1>11 DEF s

-----------------------------------------------------------------------------
(* Types.                                                                  *)

\* Appending a message that was sent.
LEMMA AfterEnqueue ==
  ASSUME TypeOK, NEW q \in Queue, NEW g \in Group \cup {None}, NEW d \in Dedup \cup {None},
         NEW w \in 0..MaxWait, enqueue(q, g, d, w)
  PROVE  LET m == [id |-> sent + 1, group |-> g, dedup |-> d, wait |-> w,
                   receive_count |-> 0, leases |-> 0, held |-> FALSE, moved |-> FALSE]
         IN  /\ sent' = sent + 1 /\ sent' \in 0..MaxSent /\ sent \in Nat
             /\ messages' \in [Queue -> Seq(Message)]
             /\ \A r \in Queue : r # q => messages'[r] = messages[r]
             /\ Len(messages[q]) \in Nat /\ DOMAIN messages[q] = 1..Len(messages[q])
             /\ DOMAIN messages'[q] = 1..(Len(messages[q]) + 1)
             /\ \A i \in 1..Len(messages[q]) : messages'[q][i] = messages[q][i]
             /\ messages'[q][Len(messages[q]) + 1] = m
<1>. DEFINE m == [id |-> sent + 1, group |-> g, dedup |-> d, wait |-> w,
                  receive_count |-> 0, leases |-> 0, held |-> FALSE, moved |-> FALSE]
<1>1. sent < MaxSent /\ sent' = sent + 1 /\ sent \in 0..MaxSent
  BY DEF enqueue, TypeOK
<1>2. sent' \in 0..MaxSent /\ sent \in Nat /\ sent + 1 \in 1..MaxSent
  BY <1>1, SqsBounds
<1>3. m \in Message
  <2>1. 0 \in 0..MaxLeases
    BY SqsBounds
  <2>. QED
    BY <1>2, <2>1 DEF Message, Id
<1>4. messages' = [messages EXCEPT ![q] = Append(@, m)] /\ messages \in [Queue -> Seq(Message)]
  BY DEF enqueue, TypeOK
<1>. HIDE DEF m
<1>5. messages[q] \in Seq(Message) /\ messages'[q] = Append(messages[q], m)
  BY <1>4
<1>6. Append(messages[q], m) \in Seq(Message)
  BY <1>3, <1>5
<1>7. messages' \in [Queue -> Seq(Message)] /\ \A r \in Queue : r # q => messages'[r] = messages[r]
  BY <1>4, <1>6
<1>8. /\ Len(messages[q]) \in Nat /\ DOMAIN messages[q] = 1..Len(messages[q])
      /\ DOMAIN messages'[q] = 1..(Len(messages[q]) + 1)
      /\ \A i \in 1..Len(messages[q]) : messages'[q][i] = messages[q][i]
      /\ messages'[q][Len(messages[q]) + 1] = m
  BY <1>3, <1>5
<1>. QED
  BY <1>1, <1>2, <1>7, <1>8 DEF m

\* A deletion takes one message out of its queue.
LEMMA AfterDelete ==
  ASSUME TypeOK, NEW q \in Queue, DeleteMessage(q)
  PROVE  \E i \in DOMAIN messages[q] :
           /\ Matches(q, i) /\ i \in Nat \ {0}
           /\ messages' \in [Queue -> Seq(Message)]
           /\ \A r \in Queue : r # q => messages'[r] = messages[r]
           /\ Len(messages[q]) \in Nat /\ DOMAIN messages[q] = 1..Len(messages[q])
           /\ DOMAIN messages'[q] = 1..(Len(messages[q]) - 1)
           /\ \A j \in 1..(Len(messages[q]) - 1) :
                messages'[q][j] = IF j < i THEN messages[q][j] ELSE messages[q][j + 1]
           /\ gone' = gone \cup {messages[q][i].id}
<1>1. PICK i \in DOMAIN messages[q] :
        /\ Matches(q, i)
        /\ messages' = [messages EXCEPT ![q] = Without(@, i)]
        /\ gone' = gone \cup {messages[q][i].id}
  BY DEF DeleteMessage
<1>2. messages \in [Queue -> Seq(Message)] /\ messages[q] \in Seq(Message)
  BY DEF TypeOK
<1>3. Len(messages[q]) \in Nat /\ DOMAIN messages[q] = 1..Len(messages[q])
  BY <1>2
<1>. DEFINE w == Without(messages[q], i)
<1>4. /\ w \in Seq(Message)
      /\ DOMAIN w = 1..(Len(messages[q]) - 1)
      /\ \A j \in 1..(Len(messages[q]) - 1) :
           w[j] = IF j < i THEN messages[q][j] ELSE messages[q][j + 1]
  BY <1>2, WithoutIs
<1>5. messages' = [messages EXCEPT ![q] = w]
  BY <1>1
<1>. HIDE DEF w
<1>6. /\ messages' \in [Queue -> Seq(Message)] /\ messages'[q] = w
      /\ \A r \in Queue : r # q => messages'[r] = messages[r]
  BY <1>2, <1>4, <1>5
<1>7. i \in Nat \ {0}
  BY <1>3
<1>. QED
  BY <1>1, <1>3, <1>4, <1>6, <1>7

\* Deleting or purging a queue empties it.
LEMMA AfterClear ==
  ASSUME TypeOK, NEW q \in Queue, messages' = [messages EXCEPT ![q] = <<>>]
  PROVE  /\ messages' \in [Queue -> Seq(Message)]
         /\ messages'[q] = <<>> /\ DOMAIN messages'[q] = {}
         /\ \A r \in Queue : r # q => messages'[r] = messages[r]
<1>1. messages \in [Queue -> Seq(Message)]
  BY DEF TypeOK
<1>2. <<>> \in Seq(Message)
  OBVIOUS
<1>3. messages' \in [Queue -> Seq(Message)] /\ messages'[q] = <<>>
  BY <1>1, <1>2
<1>4. \A r \in Queue : r # q => messages'[r] = messages[r]
  BY <1>1
<1>5. DOMAIN messages'[q] = {}
  BY <1>3
<1>. QED
  BY <1>3, <1>4, <1>5

\* Changing a visibility timeout, and the passing of time, change what is left of
\* the timeouts and nothing else.
LEMMA AfterTimes ==
  ASSUME TypeOK, Advance \/ \E q \in Queue : ChangeMessageVisibility(q)
  PROVE  /\ messages' \in [Queue -> Seq(Message)]
         /\ \A r \in Queue :
              /\ DOMAIN messages'[r] = DOMAIN messages[r]
              /\ \A j \in DOMAIN messages[r] :
                   \E w \in 0..MaxWait :
                     /\ messages'[r][j] = [messages[r][j] EXCEPT !.wait = w]
                     /\ \/ w = 0 \/ w < messages[r][j].wait \/ w = messages[r][j].wait
                        \/ Matches(r, j)
<1>0. messages \in [Queue -> Seq(Message)] /\ \A r \in Queue : messages[r] \in Seq(Message)
  BY DEF TypeOK
<1>1. \A r \in Queue : \A j \in DOMAIN messages[r] :
        /\ messages[r][j] \in Message /\ messages[r][j].wait \in 0..MaxWait
        /\ messages[r][j] = [messages[r][j] EXCEPT !.wait = messages[r][j].wait]
  <2>. SUFFICES ASSUME NEW r \in Queue, NEW j \in DOMAIN messages[r]
                PROVE  /\ messages[r][j] \in Message /\ messages[r][j].wait \in 0..MaxWait
                       /\ messages[r][j] = [messages[r][j] EXCEPT !.wait = messages[r][j].wait]
    OBVIOUS
  <2>1. messages[r][j] \in Message
    BY <1>0
  <2>. QED
    BY <2>1 DEF Message
<1>2. \A m \in Message : \A w \in 0..MaxWait : [m EXCEPT !.wait = w] \in Message
  BY MessagesStay
<1>3. ASSUME Advance
      PROVE  /\ messages' \in [Queue -> Seq(Message)]
             /\ \A r \in Queue :
                  /\ DOMAIN messages'[r] = DOMAIN messages[r]
                  /\ \A j \in DOMAIN messages[r] :
                       \E w \in 0..MaxWait :
                         /\ messages'[r][j] = [messages[r][j] EXCEPT !.wait = w]
                         /\ w = 0 \/ w < messages[r][j].wait
  <2>. DEFINE m(r, j) == messages[r][j]
              left(r, j) == IF m(r, j).wait = 0 THEN 0 ELSE m(r, j).wait - 1
              t(r) == [j \in DOMAIN messages[r] |-> [m(r, j) EXCEPT !.wait = left(r, j)]]
  <2>1. messages' = [r \in Queue |-> t(r)]
    BY <1>3 DEF Advance
  <2>2. ASSUME NEW r \in Queue, NEW j \in DOMAIN messages[r]
        PROVE  /\ left(r, j) \in 0..MaxWait /\ (left(r, j) = 0 \/ left(r, j) < m(r, j).wait)
               /\ [m(r, j) EXCEPT !.wait = left(r, j)] \in Message
    <3>1. m(r, j) \in Message /\ m(r, j).wait \in 0..MaxWait
      BY <1>1
    <3>2. left(r, j) \in 0..MaxWait /\ (left(r, j) = 0 \/ left(r, j) < m(r, j).wait)
      BY <3>1, SqsBounds
    <3>3. [m(r, j) EXCEPT !.wait = left(r, j)] \in Message
      <4>. HIDE DEF m, left
      <4>. QED
        BY <1>2, <3>1, <3>2
    <3>. QED
      BY <3>2, <3>3
  <2>3. ASSUME NEW r \in Queue
        PROVE  t(r) \in Seq(Message)
    <3>1. DOMAIN messages[r] = 1..Len(messages[r]) /\ Len(messages[r]) \in Nat
      BY <1>0
    <3>2. t(r) \in [1..Len(messages[r]) -> Message]
      <4>. HIDE DEF m, left
      <4>. QED
        BY <2>2, <3>1
    <3>. HIDE DEF t
    <3>. QED
      BY <3>1, <3>2, SeqDef
  <2>4. messages' \in [Queue -> Seq(Message)]
    <3>. HIDE DEF t
    <3>. QED
      BY <2>1, <2>3
  <2>5. \A r \in Queue : messages'[r] = t(r)
    BY <2>1
  <2>6. ASSUME NEW r \in Queue
        PROVE  /\ DOMAIN messages'[r] = DOMAIN messages[r]
               /\ \A j \in DOMAIN messages[r] :
                    messages'[r][j] = [messages[r][j] EXCEPT !.wait = left(r, j)]
    BY <2>5
  <2>7. \A r \in Queue : \A j \in DOMAIN messages[r] :
          left(r, j) \in 0..MaxWait /\ (left(r, j) = 0 \/ left(r, j) < messages[r][j].wait)
    BY <2>2
  <2>. HIDE DEF left, t, m
  <2>. QED
    BY <2>4, <2>6, <2>7
<1>4. ASSUME NEW q \in Queue, ChangeMessageVisibility(q)
      PROVE  /\ messages' \in [Queue -> Seq(Message)]
             /\ \A r \in Queue :
                  /\ DOMAIN messages'[r] = DOMAIN messages[r]
                  /\ \A j \in DOMAIN messages[r] :
                       \E w \in 0..MaxWait :
                         /\ messages'[r][j] = [messages[r][j] EXCEPT !.wait = w]
                         /\ w = messages[r][j].wait \/ Matches(r, j)
  <2>1. PICK i \in DOMAIN messages[q], v \in 0..MaxWait :
          Matches(q, i) /\ messages' = [messages EXCEPT ![q][i].wait = v]
    BY <1>4 DEF ChangeMessageVisibility
  <2>. DEFINE n == [messages[q][i] EXCEPT !.wait = v]
              s == [messages[q] EXCEPT ![i] = n]
  <2>2. messages' = [messages EXCEPT ![q] = s]
    BY <2>1, <1>0
  <2>3. n \in Message
    BY <1>1, <1>2, <2>1
  <2>4. s \in Seq(Message) /\ DOMAIN s = DOMAIN messages[q]
    <3>. HIDE DEF n
    <3>1. messages[q] \in Seq(Message)
      BY <1>0
    <3>. QED
      BY <2>3, <3>1
  <2>5. s[i] = n /\ \A j \in DOMAIN messages[q] : j # i => s[j] = messages[q][j]
    <3>1. messages[q] \in Seq(Message)
      BY <1>0
    <3>. HIDE DEF n
    <3>. QED
      BY <3>1
  <2>. HIDE DEF s
  <2>6. /\ messages' \in [Queue -> Seq(Message)] /\ messages'[q] = s
        /\ \A r \in Queue : r # q => messages'[r] = messages[r]
    BY <1>0, <2>2, <2>4
  <2>7. \A j \in DOMAIN messages[q] :
          \E w \in 0..MaxWait :
            /\ messages'[q][j] = [messages[q][j] EXCEPT !.wait = w]
            /\ w = messages[q][j].wait \/ Matches(q, j)
    BY <1>1, <2>1, <2>5, <2>6
  <2>8. \A r \in Queue : r # q => \A j \in DOMAIN messages[r] :
          \E w \in 0..MaxWait :
            /\ messages'[r][j] = [messages[r][j] EXCEPT !.wait = w]
            /\ w = messages[r][j].wait
    BY <1>1, <2>6
  <2>9. \A r \in Queue : DOMAIN messages'[r] = DOMAIN messages[r]
    BY <2>4, <2>6
  <2>10. \A r \in Queue : \A j \in DOMAIN messages[r] :
           \E w \in 0..MaxWait :
             /\ messages'[r][j] = [messages[r][j] EXCEPT !.wait = w]
             /\ w = messages[r][j].wait \/ Matches(r, j)
    <3>. SUFFICES ASSUME NEW r \in Queue, NEW j \in DOMAIN messages[r]
                  PROVE  \E w \in 0..MaxWait :
                           /\ messages'[r][j] = [messages[r][j] EXCEPT !.wait = w]
                           /\ w = messages[r][j].wait \/ Matches(r, j)
      OBVIOUS
    <3>1. CASE r = q
      BY <2>7, <3>1
    <3>2. CASE r # q
      BY <2>8, <3>2
    <3>. QED
      BY <3>1, <3>2
  <2>. QED
    BY <2>6, <2>9, <2>10
<1>. QED
  BY <1>3, <1>4

\* The ids in a queue are ids.
LEMMA IdsAreIds ==
  ASSUME TypeOK, NEW q \in Queue
  PROVE  /\ Ids(messages[q]) \subseteq Id
         /\ \A i \in DOMAIN messages[q] : messages[q][i] \in Message /\ messages[q][i].id \in Id
<1>1. messages[q] \in Seq(Message)
  BY DEF TypeOK
<1>2. \A i \in DOMAIN messages[q] : messages[q][i] \in Message
  BY <1>1
<1>3. \A i \in DOMAIN messages[q] : messages[q][i].id \in Id
  BY <1>2 DEF Message
<1>. QED
  BY <1>2, <1>3 DEF Ids

\* Every operation leaves the state typed.
LEMMA TypesStay == TypeOK /\ [Next]_vars => TypeOK'
<1>. SUFFICES ASSUME TypeOK, [Next]_vars PROVE TypeOK'
  OBVIOUS
<1>0. /\ exists \subseteq Queue /\ seen \in [Queue -> SUBSET Dedup]
      /\ DOMAIN policy = Queue /\ \A q \in Queue : policy[q] = None \/ policy[q] \in Policy
      /\ messages \in [Queue -> Seq(Message)] /\ sent \in 0..MaxSent /\ gone \subseteq Id
  BY DEF TypeOK
<1>1. ASSUME NEW q \in Queue, CreateQueue(q) PROVE TypeOK'
  BY <1>0, <1>1 DEF CreateQueue, TypeOK
<1>2. ASSUME NEW q \in Queue, DeleteQueue(q) PROVE TypeOK'
  <2>1. messages' \in [Queue -> Seq(Message)]
    BY <1>2, AfterClear DEF DeleteQueue
  <2>2. gone' \subseteq Id
    BY <1>0, <1>2, IdsAreIds DEF DeleteQueue
  <2>. QED
    BY <1>0, <1>2, <2>1, <2>2 DEF DeleteQueue, TypeOK
<1>3. ASSUME NEW q \in Queue, SetQueueAttributes(q) PROVE TypeOK'
  BY <1>0, <1>3 DEF SetQueueAttributes, TypeOK
<1>4. ASSUME NEW q \in Queue, PurgeQueue(q) PROVE TypeOK'
  <2>1. messages' \in [Queue -> Seq(Message)]
    BY <1>4, AfterClear DEF PurgeQueue
  <2>2. gone' \subseteq Id
    BY <1>0, <1>4, IdsAreIds DEF PurgeQueue
  <2>. QED
    BY <1>0, <1>4, <2>1, <2>2 DEF PurgeQueue, TypeOK
<1>5. ASSUME NEW q \in Queue, SendStandard(q) PROVE TypeOK'
  <2>1. PICK w \in 0..MaxWait : enqueue(q, None, None, w)
    BY <1>5 DEF SendStandard
  <2>2. messages' \in [Queue -> Seq(Message)] /\ sent' \in 0..MaxSent
    BY <2>1, AfterEnqueue
  <2>. QED
    BY <1>0, <1>5, <2>2 DEF SendStandard, TypeOK
<1>6. ASSUME NEW q \in Queue, SendFifo(q) PROVE TypeOK'
  <2>1. PICK g \in Group, d \in Dedup \ seen[q] :
          enqueue(q, g, d, 0) /\ seen' = [seen EXCEPT ![q] = @ \cup {d}]
    BY <1>6 DEF SendFifo
  <2>2. 0 \in 0..MaxWait
    BY SqsBounds
  <2>3. messages' \in [Queue -> Seq(Message)] /\ sent' \in 0..MaxSent
    BY <2>1, <2>2, AfterEnqueue
  <2>4. seen' \in [Queue -> SUBSET Dedup]
    BY <1>0, <2>1
  <2>. QED
    BY <1>0, <1>6, <2>3, <2>4 DEF SendFifo, TypeOK
<1>7. ASSUME NEW q \in Queue, ReceiveMessage(q) PROVE TypeOK'
  <2>1. messages' \in [Queue -> Seq(Message)]
    BY <1>7, AfterReceive
  <2>. QED
    BY <1>0, <1>7, <2>1 DEF ReceiveMessage, TypeOK
<1>8. ASSUME NEW q \in Queue, DeleteMessage(q) PROVE TypeOK'
  <2>1. PICK i \in DOMAIN messages[q] :
          messages' \in [Queue -> Seq(Message)] /\ gone' = gone \cup {messages[q][i].id}
    BY <1>8, AfterDelete
  <2>2. gone' \subseteq Id
    BY <1>0, <2>1, IdsAreIds
  <2>. QED
    BY <1>0, <1>8, <2>1, <2>2 DEF DeleteMessage, TypeOK
<1>9. ASSUME Advance \/ \E q \in Queue : ChangeMessageVisibility(q) PROVE TypeOK'
  <2>1. messages' \in [Queue -> Seq(Message)]
    BY <1>9, AfterTimes
  <2>2. UNCHANGED <<exists, seen, policy, sent, gone>>
    BY <1>9 DEF Advance, ChangeMessageVisibility
  <2>. QED
    BY <1>0, <2>1, <2>2 DEF TypeOK
<1>10. CASE UNCHANGED vars
  BY <1>0, <1>10 DEF vars, TypeOK
<1>. QED
  BY <1>1, <1>2, <1>3, <1>4, <1>5, <1>6, <1>7, <1>8, <1>9, <1>10
     DEF Next, Admin, Send, Consume

\* A store without queues is typed.
LEMMA TypesInitially == Init => TypeOK
<1>1. <<>> \in Seq(Message)
  OBVIOUS
<1>. QED
  BY <1>1, SqsBounds DEF Init, TypeOK

\* Queues hold messages, in number and lease within the bounds, and policies name
\* queues, whatever the operations and however they follow each other.
THEOREM TypeCorrect == Spec => []TypeOK
<1>. QED
  BY TypesInitially, TypesStay, PTL DEF Spec

-----------------------------------------------------------------------------
(* Conservation.                                                           *)

\* The part of the invariant that TypeOK and Conserved do not say: nothing is gone
\* that was not sent.
Accounted == gone \subseteq 1..sent

\* In this step message j of r comes from position P[r][j] of H[r][j]: each from one
\* with its id, no two from the same, and none is left out.
Traced(H, P) ==
  /\ \A r \in Queue : \A j \in DOMAIN messages'[r] :
       /\ H[r][j] \in Queue /\ P[r][j] \in DOMAIN messages[H[r][j]]
       /\ messages'[r][j].id = messages[H[r][j]][P[r][j]].id
  /\ \A r, p \in Queue : \A j \in DOMAIN messages'[r], k \in DOMAIN messages'[p] :
       H[r][j] = H[p][k] /\ P[r][j] = P[p][k] => r = p /\ j = k
  /\ \A p \in Queue : \A i \in DOMAIN messages[p] :
       \E r \in Queue : \E j \in DOMAIN messages'[r] : H[r][j] = p /\ P[r][j] = i

\* Operations that neither send nor drop anything keep the messages conserved.
LEMMA ConservedByOrigins ==
  ASSUME TypeOK, Conserved, Accounted, sent' = sent, gone' = gone,
         NEW H, NEW P, Traced(H, P)
  PROVE  Conserved' /\ Accounted'
<1>. USE DEF Traced
<1>1. ASSUME NEW r \in Queue, NEW j \in DOMAIN messages'[r],
             NEW p \in Queue, NEW k \in DOMAIN messages'[p],
             messages'[r][j].id = messages'[p][k].id
      PROVE  r = p /\ j = k
  <2>1. messages[H[r][j]][P[r][j]].id = messages[H[p][k]][P[p][k]].id
    BY <1>1
  <2>2. H[r][j] = H[p][k] /\ P[r][j] = P[p][k]
    BY <2>1 DEF Conserved
  <2>. QED
    BY <2>2
<1>2. ASSUME NEW x
      PROVE  (\E q \in Queue : \E i \in DOMAIN messages'[q] : messages'[q][i].id = x)
               <=> (\E q \in Queue : \E i \in DOMAIN messages[q] : messages[q][i].id = x)
  <2>1. ASSUME NEW q \in Queue, NEW i \in DOMAIN messages'[q], messages'[q][i].id = x
        PROVE  \E p \in Queue : \E k \in DOMAIN messages[p] : messages[p][k].id = x
    BY <2>1
  <2>2. ASSUME NEW p \in Queue, NEW i \in DOMAIN messages[p], messages[p][i].id = x
        PROVE  \E q \in Queue : \E k \in DOMAIN messages'[q] : messages'[q][k].id = x
    <3>1. PICK r \in Queue : \E j \in DOMAIN messages'[r] : H[r][j] = p /\ P[r][j] = i
      OBVIOUS
    <3>2. PICK j \in DOMAIN messages'[r] : H[r][j] = p /\ P[r][j] = i
      BY <3>1
    <3>. QED
      BY <2>2, <3>2
  <2>. QED
    BY <2>1, <2>2
<1>3. \A x : x \in UNION {Ids(messages'[q]) : q \in Queue} <=> x \in UNION {Ids(messages[q]) : q \in Queue}
  <2>. TAKE x
  <2>1. x \in UNION {Ids(messages[q]) : q \in Queue}
           <=> \E q \in Queue : \E i \in DOMAIN messages[q] : messages[q][i].id = x
    BY DEF Ids
  <2>2. x \in UNION {Ids(messages'[q]) : q \in Queue}
           <=> \E q \in Queue : \E i \in DOMAIN messages'[q] : messages'[q][i].id = x
    BY DEF Ids
  <2>. QED
    BY <1>2, <2>1, <2>2
<1>4. UNION {Ids(messages'[q]) : q \in Queue} = (1..sent') \ gone'
  BY <1>3 DEF Conserved
<1>5. Accounted'
  BY DEF Accounted
<1>. QED
  BY <1>1, <1>4, <1>5 DEF Conserved

\* A receive with its redrive only moves messages.
LEMMA ReceiveConserves ==
  ASSUME TypeOK, Conserved, Accounted, NEW q \in Queue, ReceiveMessage(q)
  PROVE  Conserved' /\ Accounted'
<1>. DEFINE A == AfterRedrive(q)
            H == [r \in Queue |-> [j \in DOMAIN messages'[r] |-> Home(q, r, j)]]
            P == [r \in Queue |-> [j \in DOMAIN messages'[r] |-> Pos(q, r, j)]]
<1>1. /\ messages' \in [Queue -> Seq(Message)]
      /\ \A r \in Queue :
           /\ DOMAIN messages'[r] = DOMAIN A[r]
           /\ \A j \in DOMAIN A[r] :
                \/ messages'[r][j] = A[r][j]
                \/ r = q /\ \E v \in 0..MaxWait : messages'[r][j] = Leased(A[q][j], v)
  BY AfterReceive
<1>2. ASSUME NEW r \in Queue, NEW j \in DOMAIN A[r]
      PROVE  /\ Home(q, r, j) \in Queue /\ Pos(q, r, j) \in DOMAIN messages[Home(q, r, j)]
             /\ messages'[r][j].id = messages[Home(q, r, j)][Pos(q, r, j)].id
  <2>1. Home(q, r, j) \in Queue /\ Pos(q, r, j) \in DOMAIN messages[Home(q, r, j)]
    BY Origins
  <2>2. A[r][j] \in Message
    BY RedriveIs
  <2>3. messages'[r][j].id = A[r][j].id
    <3>1. \A v : Leased(A[r][j], v).id = A[r][j].id
      BY <2>2 DEF Leased, Message
    <3>. HIDE DEF A
    <3>. QED
      BY <1>1, <3>1
  <2>4. CASE WasMoved(q, r, j)
    <3>1. A[r][j] = Redriven(messages[q][Pos(q, r, j)]) /\ Home(q, r, j) = q
      BY <2>4, Origins DEF Home
    <3>2. messages[q][Pos(q, r, j)] \in Message
      BY <2>1, <3>1, IdsAreIds
    <3>3. Redriven(messages[q][Pos(q, r, j)]).id = messages[q][Pos(q, r, j)].id
      BY <3>2, FieldsAfter
    <3>. QED
      BY <2>1, <2>3, <3>1, <3>3
  <2>5. CASE ~WasMoved(q, r, j)
    <3>1. A[r][j] = messages[r][Pos(q, r, j)] /\ Home(q, r, j) = r
      BY <2>5, Origins DEF Home
    <3>. QED
      BY <2>1, <2>3, <3>1
  <2>. QED
    BY <2>4, <2>5
<1>3. \A r \in Queue : \A j \in DOMAIN A[r] : H[r][j] = Home(q, r, j) /\ P[r][j] = Pos(q, r, j)
  BY <1>1
<1>. HIDE DEF H, P
<1>4. \A r \in Queue : \A j \in DOMAIN messages'[r] :
        /\ H[r][j] \in Queue /\ P[r][j] \in DOMAIN messages[H[r][j]]
        /\ messages'[r][j].id = messages[H[r][j]][P[r][j]].id
  BY <1>1, <1>2, <1>3
<1>5. \A r, p \in Queue : \A j \in DOMAIN messages'[r], k \in DOMAIN messages'[p] :
        H[r][j] = H[p][k] /\ P[r][j] = P[p][k] => r = p /\ j = k
  BY <1>1, <1>3, OriginsDiffer
<1>6. \A p \in Queue : \A i \in DOMAIN messages[p] :
        \E r \in Queue : \E j \in DOMAIN messages'[r] : H[r][j] = p /\ P[r][j] = i
  <2>. SUFFICES ASSUME NEW p \in Queue, NEW i \in DOMAIN messages[p]
                PROVE  \E r \in Queue : \E j \in DOMAIN messages'[r] : H[r][j] = p /\ P[r][j] = i
    OBVIOUS
  <2>1. PICK r \in Queue : \E j \in DOMAIN A[r] : Home(q, r, j) = p /\ Pos(q, r, j) = i
    BY EveryoneKept
  <2>2. PICK j \in DOMAIN A[r] : Home(q, r, j) = p /\ Pos(q, r, j) = i
    BY <2>1
  <2>. QED
    BY <1>1, <1>3, <2>2
<1>7. Traced(H, P)
  BY <1>4, <1>5, <1>6 DEF Traced
<1>8. sent' = sent /\ gone' = gone
  BY DEF ReceiveMessage
<1>. QED
  BY <1>7, <1>8, ConservedByOrigins

\* Timeouts change nobody's place.
LEMMA TimesConserve ==
  ASSUME TypeOK, Conserved, Accounted, Advance \/ \E q \in Queue : ChangeMessageVisibility(q)
  PROVE  Conserved' /\ Accounted'
<1>. DEFINE H == [r \in Queue |-> [j \in DOMAIN messages'[r] |-> r]]
            P == [r \in Queue |-> [j \in DOMAIN messages'[r] |-> j]]
<1>1. \A r \in Queue :
        /\ DOMAIN messages'[r] = DOMAIN messages[r]
        /\ \A j \in DOMAIN messages[r] :
             \E w \in 0..MaxWait : messages'[r][j] = [messages[r][j] EXCEPT !.wait = w]
  BY AfterTimes
<1>2. \A r \in Queue : \A j \in DOMAIN messages[r] : messages'[r][j].id = messages[r][j].id
  <2>. SUFFICES ASSUME NEW r \in Queue, NEW j \in DOMAIN messages[r]
                PROVE  messages'[r][j].id = messages[r][j].id
    OBVIOUS
  <2>1. PICK w \in 0..MaxWait : messages'[r][j] = [messages[r][j] EXCEPT !.wait = w]
    BY <1>1
  <2>2. messages[r][j] \in Message
    BY IdsAreIds
  <2>3. [messages[r][j] EXCEPT !.wait = w].id = messages[r][j].id
    BY <2>2 DEF Message
  <2>. QED
    BY <2>1, <2>3
<1>3. \A r \in Queue : \A j \in DOMAIN messages'[r] : H[r][j] = r /\ P[r][j] = j
  OBVIOUS
<1>. HIDE DEF H, P
<1>4. Traced(H, P)
  BY <1>1, <1>2, <1>3 DEF Traced
<1>5. sent' = sent /\ gone' = gone
  BY DEF Advance, ChangeMessageVisibility
<1>. QED
  BY <1>4, <1>5, ConservedByOrigins

\* A sent message is a new one.
LEMMA SendConserves ==
  ASSUME TypeOK, Conserved, Accounted, gone' = gone,
         NEW q \in Queue, NEW g \in Group \cup {None}, NEW d \in Dedup \cup {None},
         NEW w \in 0..MaxWait, enqueue(q, g, d, w)
  PROVE  Conserved' /\ Accounted'
<1>. DEFINE l == Len(messages[q])
<1>1. /\ sent' = sent + 1 /\ sent \in Nat
      /\ \A r \in Queue : r # q => messages'[r] = messages[r]
      /\ l \in Nat /\ DOMAIN messages[q] = 1..l
      /\ DOMAIN messages'[q] = 1..(l + 1)
      /\ \A i \in 1..l : messages'[q][i] = messages[q][i]
      /\ messages'[q][l + 1].id = sent + 1
  <2>. DEFINE m == [id |-> sent + 1, group |-> g, dedup |-> d, wait |-> w,
                    receive_count |-> 0, leases |-> 0, held |-> FALSE, moved |-> FALSE]
  <2>1. m.id = sent + 1
    OBVIOUS
  <2>2. /\ sent' = sent + 1 /\ sent \in Nat
        /\ \A r \in Queue : r # q => messages'[r] = messages[r]
        /\ l \in Nat /\ DOMAIN messages[q] = 1..l
        /\ DOMAIN messages'[q] = 1..(l + 1)
        /\ \A i \in 1..l : messages'[q][i] = messages[q][i]
        /\ messages'[q][l + 1] = m
    BY AfterEnqueue
  <2>. HIDE DEF m
  <2>. QED
    BY <2>1, <2>2
<1>. HIDE DEF l
<1>2. \A x : x \in UNION {Ids(messages[p]) : p \in Queue} <=> x \in 1..sent /\ x \notin gone
  BY DEF Conserved
<1>3. \A p \in Queue : \A i \in DOMAIN messages[p] : messages[p][i].id \in 1..sent
  BY <1>2 DEF Ids
<1>4. ASSUME NEW p \in Queue, NEW i \in DOMAIN messages'[p]
      PROVE  \/ i \in DOMAIN messages[p] /\ messages'[p][i] = messages[p][i]
             \/ p = q /\ i = l + 1 /\ messages'[p][i].id = sent + 1
  <2>1. CASE p # q
    BY <1>1, <2>1
  <2>2. CASE p = q /\ i = l + 1
    BY <1>1, <2>2
  <2>3. CASE p = q /\ i # l + 1
    <3>1. i \in 1..l
      BY <1>1, <2>3
    <3>. QED
      BY <1>1, <2>3, <3>1
  <2>. QED
    BY <2>1, <2>2, <2>3
<1>5. ASSUME NEW p \in Queue, NEW i \in DOMAIN messages'[p],
             NEW r \in Queue, NEW k \in DOMAIN messages'[r],
             messages'[p][i].id = messages'[r][k].id
      PROVE  p = r /\ i = k
  <2>1. \A y \in 1..sent : y # sent + 1
    BY <1>1
  <2>. QED
    BY <1>3, <1>4, <1>5, <2>1 DEF Conserved
<1>6. ASSUME NEW x
      PROVE  x \in UNION {Ids(messages'[p]) : p \in Queue}
               <=> x \in UNION {Ids(messages[p]) : p \in Queue} \/ x = sent + 1
  <2>1. ASSUME x \in UNION {Ids(messages'[p]) : p \in Queue}
        PROVE  x \in UNION {Ids(messages[p]) : p \in Queue} \/ x = sent + 1
    BY <1>4, <2>1 DEF Ids
  <2>2. ASSUME NEW p \in Queue, NEW i \in DOMAIN messages[p]
        PROVE  i \in DOMAIN messages'[p] /\ messages'[p][i] = messages[p][i]
    BY <1>1, <2>2
  <2>3. ASSUME x \in UNION {Ids(messages[p]) : p \in Queue}
        PROVE  x \in UNION {Ids(messages'[p]) : p \in Queue}
    BY <2>2, <2>3 DEF Ids
  <2>4. l + 1 \in DOMAIN messages'[q] /\ messages'[q][l + 1].id = sent + 1
    BY <1>1
  <2>5. sent + 1 \in UNION {Ids(messages'[p]) : p \in Queue}
    BY <2>4 DEF Ids
  <2>. QED
    BY <2>1, <2>3, <2>5
<1>7. \A x : x \in 1..sent' /\ x \notin gone' <=> (x \in 1..sent /\ x \notin gone) \/ x = sent + 1
  <2>1. sent + 1 \notin gone
    BY <1>1 DEF Accounted
  <2>. QED
    BY <1>1, <2>1
<1>8. UNION {Ids(messages'[p]) : p \in Queue} = (1..sent') \ gone'
  BY <1>2, <1>6, <1>7
<1>9. Accounted'
  BY <1>1 DEF Accounted
<1>. QED
  BY <1>5, <1>8, <1>9 DEF Conserved

\* What is dropped with a queue is gone.
LEMMA ClearConserves ==
  ASSUME TypeOK, Conserved, Accounted, NEW q \in Queue, sent' = sent,
         messages' = [messages EXCEPT ![q] = <<>>], gone' = gone \cup Ids(messages[q])
  PROVE  Conserved' /\ Accounted'
<1>1. /\ DOMAIN messages'[q] = {}
      /\ \A r \in Queue : r # q => messages'[r] = messages[r]
  BY AfterClear
<1>2. \A x : x \in UNION {Ids(messages[p]) : p \in Queue} <=> x \in 1..sent /\ x \notin gone
  BY DEF Conserved
<1>3. ASSUME NEW x
      PROVE  x \in UNION {Ids(messages'[p]) : p \in Queue}
               <=> x \in UNION {Ids(messages[p]) : p \in Queue} /\ x \notin Ids(messages[q])
  <2>1. ASSUME x \in UNION {Ids(messages'[p]) : p \in Queue}
        PROVE  x \in UNION {Ids(messages[p]) : p \in Queue} /\ x \notin Ids(messages[q])
    <3>1. PICK p \in Queue : x \in Ids(messages'[p])
      BY <2>1
    <3>2. p # q /\ messages'[p] = messages[p]
      BY <1>1, <3>1 DEF Ids
    <3>3. x \notin Ids(messages[q])
      BY <3>1, <3>2 DEF Ids, Conserved
    <3>. QED
      BY <3>1, <3>2, <3>3
  <2>2. ASSUME x \in UNION {Ids(messages[p]) : p \in Queue}, x \notin Ids(messages[q])
        PROVE  x \in UNION {Ids(messages'[p]) : p \in Queue}
    <3>1. PICK p \in Queue : x \in Ids(messages[p])
      BY <2>2
    <3>2. messages'[p] = messages[p]
      BY <1>1, <2>2, <3>1
    <3>. QED
      BY <3>1, <3>2
  <2>. QED
    BY <2>1, <2>2
<1>4. UNION {Ids(messages'[p]) : p \in Queue} = (1..sent') \ gone'
  BY <1>2, <1>3
<1>5. ASSUME NEW p \in Queue, NEW i \in DOMAIN messages'[p],
             NEW r \in Queue, NEW k \in DOMAIN messages'[r],
             messages'[p][i].id = messages'[r][k].id
      PROVE  p = r /\ i = k
  BY <1>1, <1>5 DEF Conserved
<1>6. Accounted'
  <2>1. Ids(messages[q]) \subseteq 1..sent
    BY <1>2
  <2>. QED
    BY <2>1 DEF Accounted
<1>. QED
  BY <1>4, <1>5, <1>6 DEF Conserved

\* A deleted message, and only that one, is gone.
LEMMA DeleteConserves ==
  ASSUME TypeOK, Conserved, Accounted, NEW q \in Queue, DeleteMessage(q)
  PROVE  Conserved' /\ Accounted'
<1>. DEFINE l == Len(messages[q])
<1>1. PICK i \in DOMAIN messages[q] :
        /\ \A r \in Queue : r # q => messages'[r] = messages[r]
        /\ l \in Nat /\ DOMAIN messages[q] = 1..l
        /\ DOMAIN messages'[q] = 1..(l - 1)
        /\ \A j \in 1..(l - 1) :
             messages'[q][j] = IF j < i THEN messages[q][j] ELSE messages[q][j + 1]
        /\ gone' = gone \cup {messages[q][i].id}
  BY AfterDelete
<1>2. sent' = sent
  BY DEF DeleteMessage
<1>. DEFINE old(r, j) == IF r = q /\ ~(j < i) THEN j + 1 ELSE j
<1>. HIDE DEF l
<1>3. ASSUME NEW r \in Queue, NEW j \in DOMAIN messages'[r]
      PROVE  /\ old(r, j) \in DOMAIN messages[r] /\ messages'[r][j] = messages[r][old(r, j)]
             /\ ~(r = q /\ old(r, j) = i)
  <2>1. CASE r # q
    BY <1>1, <2>1
  <2>2. CASE r = q
    BY <1>1, <2>2
  <2>. QED
    BY <2>1, <2>2
<1>4. ASSUME NEW r \in Queue, NEW j \in DOMAIN messages'[r], NEW k \in DOMAIN messages'[r],
             old(r, j) = old(r, k)
      PROVE  j = k
  <2>1. CASE r # q
    BY <1>4, <2>1
  <2>2. CASE r = q
    BY <1>1, <1>4, <2>2
  <2>. QED
    BY <2>1, <2>2
<1>5. ASSUME NEW r \in Queue, NEW k \in DOMAIN messages[r], ~(r = q /\ k = i)
      PROVE  \E j \in DOMAIN messages'[r] : old(r, j) = k
  <2>1. CASE r # q
    BY <1>1, <2>1
  <2>2. CASE r = q /\ k < i
    BY <1>1, <2>2
  <2>3. CASE r = q /\ k > i
    <3>1. k - 1 \in 1..(l - 1) /\ ~(k - 1 < i) /\ (k - 1) + 1 = k
      BY <1>1, <2>3
    <3>. QED
      BY <1>1, <2>3, <3>1
  <2>. QED
    BY <1>1, <1>5, <2>1, <2>2, <2>3
<1>. HIDE DEF old
<1>6. \A x : x \in UNION {Ids(messages[p]) : p \in Queue} <=> x \in 1..sent /\ x \notin gone
  BY DEF Conserved
<1>7. ASSUME NEW x
      PROVE  x \in UNION {Ids(messages'[p]) : p \in Queue}
               <=> x \in UNION {Ids(messages[p]) : p \in Queue} /\ x # messages[q][i].id
  <2>1. ASSUME NEW r \in Queue, NEW j \in DOMAIN messages'[r]
        PROVE  /\ messages'[r][j].id # messages[q][i].id
               /\ messages'[r][j].id \in UNION {Ids(messages[p]) : p \in Queue}
    BY <1>3 DEF Ids, Conserved
  <2>2. ASSUME NEW r \in Queue, NEW k \in DOMAIN messages[r],
               messages[r][k].id # messages[q][i].id
        PROVE  messages[r][k].id \in UNION {Ids(messages'[p]) : p \in Queue}
    <3>1. PICK j \in DOMAIN messages'[r] : old(r, j) = k
      BY <1>5, <2>2
    <3>2. messages'[r][j].id = messages[r][k].id
      BY <1>3, <3>1
    <3>. QED
      BY <3>1, <3>2 DEF Ids
  <2>. QED
    BY <2>1, <2>2 DEF Ids
<1>8. UNION {Ids(messages'[p]) : p \in Queue} = (1..sent') \ gone'
  BY <1>1, <1>2, <1>6, <1>7
<1>9. ASSUME NEW p \in Queue, NEW j \in DOMAIN messages'[p],
             NEW r \in Queue, NEW k \in DOMAIN messages'[r],
             messages'[p][j].id = messages'[r][k].id
      PROVE  p = r /\ j = k
  <2>1. messages[p][old(p, j)].id = messages[r][old(r, k)].id
    BY <1>3, <1>9
  <2>2. p = r /\ old(p, j) = old(r, k)
    BY <1>3, <2>1 DEF Conserved
  <2>. QED
    BY <1>4, <2>2
<1>10. Accounted'
  <2>1. messages[q][i].id \in 1..sent
    BY <1>6 DEF Ids
  <2>. QED
    BY <1>1, <1>2, <2>1 DEF Accounted
<1>. QED
  BY <1>8, <1>9, <1>10 DEF Conserved

\* Every operation conserves the messages.
LEMMA ConservedStays ==
  TypeOK /\ Conserved /\ Accounted /\ [Next]_vars => Conserved' /\ Accounted'
<1>. SUFFICES ASSUME TypeOK, Conserved, Accounted, [Next]_vars
              PROVE  Conserved' /\ Accounted'
  OBVIOUS
<1>1. ASSUME NEW q \in Queue, DeleteQueue(q) PROVE Conserved' /\ Accounted'
  BY <1>1, ClearConserves DEF DeleteQueue
<1>2. ASSUME NEW q \in Queue, PurgeQueue(q) PROVE Conserved' /\ Accounted'
  BY <1>2, ClearConserves DEF PurgeQueue
<1>3. ASSUME NEW q \in Queue, SendStandard(q) PROVE Conserved' /\ Accounted'
  BY <1>3, SendConserves DEF SendStandard
<1>4. ASSUME NEW q \in Queue, SendFifo(q) PROVE Conserved' /\ Accounted'
  <2>1. PICK g \in Group, d \in Dedup \ seen[q] : enqueue(q, g, d, 0)
    BY <1>4 DEF SendFifo
  <2>2. 0 \in 0..MaxWait /\ gone' = gone
    BY <1>4, SqsBounds DEF SendFifo
  <2>. QED
    BY <2>1, <2>2, SendConserves
<1>5. ASSUME NEW q \in Queue, ReceiveMessage(q) PROVE Conserved' /\ Accounted'
  BY <1>5, ReceiveConserves
<1>6. ASSUME NEW q \in Queue, DeleteMessage(q) PROVE Conserved' /\ Accounted'
  BY <1>6, DeleteConserves
<1>7. ASSUME Advance \/ \E q \in Queue : ChangeMessageVisibility(q) PROVE Conserved' /\ Accounted'
  BY <1>7, TimesConserve
<1>8. ASSUME UNCHANGED <<messages, sent, gone>> PROVE Conserved' /\ Accounted'
  BY <1>8 DEF Conserved, Accounted
<1>9. ASSUME NEW q \in Queue, CreateQueue(q) \/ SetQueueAttributes(q)
      PROVE  Conserved' /\ Accounted'
  BY <1>8, <1>9 DEF CreateQueue, SetQueueAttributes
<1>10. CASE UNCHANGED vars
  BY <1>8, <1>10 DEF vars
<1>. QED
  BY <1>1, <1>2, <1>3, <1>4, <1>5, <1>6, <1>7, <1>9, <1>10 DEF Next, Admin, Send, Consume

\* An empty store has lost nothing.
LEMMA ConservedInitially == Init => Conserved /\ Accounted
<1>. SUFFICES ASSUME Init PROVE Conserved /\ Accounted
  OBVIOUS
<1>1. \A q \in Queue : DOMAIN messages[q] = {}
  BY DEF Init
<1>2. \A q \in Queue : Ids(messages[q]) = {}
  BY <1>1 DEF Ids
<1>3. UNION {Ids(messages[q]) : q \in Queue} = {} /\ (1..sent) \ gone = {}
  BY <1>2 DEF Init
<1>. QED
  BY <1>1, <1>3 DEF Init, Conserved, Accounted

\* Every message that was accepted and not deleted is in exactly one place of one
\* queue: receiving, expiring and redriving lose nothing and duplicate nothing, to
\* whatever queue the policies name and in however many calls.
THEOREM MessagesAreConserved == Spec => []Conserved
<1>. DEFINE IInv == TypeOK /\ Conserved /\ Accounted
<1>1. Init => IInv
  BY TypesInitially, ConservedInitially
<1>2. IInv /\ [Next]_vars => IInv'
  BY TypesStay, ConservedStays
<1>3. IInv => Conserved
  OBVIOUS
<1>. QED
  BY <1>1, <1>2, <1>3, PTL DEF Spec

-----------------------------------------------------------------------------
(* Counts of deliveries.                                                   *)

\* A message of q after a receive is one of before: what it kept, and what a lease
\* of it required.
LEMMA ReceivedFrom ==
  ASSUME TypeOK, NEW q \in Queue, ReceiveMessage(q),
         NEW r \in Queue, NEW j \in DOMAIN messages'[r]
  PROVE  LET h == Home(q, r, j)
             n == messages'[r][j]
             a == AfterRedrive(q)[r][j]
             m == messages[h][Pos(q, r, j)]
         IN  /\ j \in DOMAIN AfterRedrive(q)[r]
             /\ h \in Queue /\ Pos(q, r, j) \in DOMAIN messages[h]
             /\ n.id = m.id /\ n.group = m.group /\ n.dedup = m.dedup
             /\ ~n.moved => ~m.moved /\ ~WasMoved(q, r, j)
             /\ a \in Message /\ n.group = a.group
             /\ WasMoved(q, r, j) => a.receive_count = 0 /\ a.held = FALSE /\ a.wait = 0
             /\ ~WasMoved(q, r, j) => h = r /\ a = m
             /\ \/ n = a
                \/ /\ r = q /\ j \in Deliverable(q, AfterRedrive(q)[q])
                   /\ n.receive_count = a.receive_count + 1
<1>. DEFINE h == Home(q, r, j)
            k == Pos(q, r, j)
            n == messages'[r][j]
            a == AfterRedrive(q)[r][j]
            m == messages[h][k]
<1>1. /\ j \in DOMAIN AfterRedrive(q)[r]
      /\ \/ n = a
         \/ /\ r = q /\ j \in Deliverable(q, AfterRedrive(q)[q])
            /\ \E v \in 0..MaxWait : n = Leased(a, v)
  BY AfterReceive
<1>2. a \in Message
  BY <1>1, RedriveIs
<1>3. h \in Queue /\ k \in DOMAIN messages[h]
  BY <1>1, Origins
<1>4. m \in Message
  BY <1>3, IdsAreIds
<1>5. ASSUME WasMoved(q, r, j)
      PROVE  /\ a.id = m.id /\ a.group = m.group /\ a.dedup = m.dedup
             /\ a.moved = TRUE /\ a.receive_count = 0 /\ a.held = FALSE /\ a.wait = 0
  <2>1. a = Redriven(m)
    BY <1>1, <1>5, Origins DEF Home
  <2>. HIDE DEF a, m
  <2>. QED
    BY <1>4, <2>1 DEF Redriven, Message
<1>6. ASSUME ~WasMoved(q, r, j)
      PROVE  h = r /\ a = m
  BY <1>1, <1>6, Origins DEF Home
<1>7. /\ n.id = a.id /\ n.group = a.group /\ n.dedup = a.dedup /\ n.moved = a.moved
      /\ \/ n = a
         \/ /\ r = q /\ j \in Deliverable(q, AfterRedrive(q)[q])
            /\ n.receive_count = a.receive_count + 1
  <2>1. \A v : LET l == Leased(a, v) IN
                /\ l.id = a.id /\ l.group = a.group /\ l.dedup = a.dedup /\ l.moved = a.moved
                /\ l.receive_count = a.receive_count + 1
    <3>. HIDE DEF a
    <3>. QED
      BY <1>2 DEF Leased, Message
  <2>. HIDE DEF a, n
  <2>. QED
    BY <1>1, <2>1
<1>. HIDE DEF a, n, m, h, k
<1>8. /\ n.id = m.id /\ n.group = m.group /\ n.dedup = m.dedup
      /\ ~n.moved => ~m.moved /\ ~WasMoved(q, r, j)
      /\ n.group = a.group
  BY <1>5, <1>6, <1>7
<1>. QED
  BY <1>1, <1>2, <1>3, <1>5, <1>6, <1>7, <1>8 DEF a, n, m, h, k

\* The property, as a step of one queue.
Counted(q) ==
  CanRedrive(q) =>
    \A j \in DOMAIN messages'[q] : \A i \in DOMAIN messages[q] :
      LET m == messages[q][i]  n == messages'[q][j] IN
      n.id = m.id /\ n.receive_count > m.receive_count => n.receive_count <= policy[q].max

\* A receive that leases a message has just found it below its maximum, or reset it.
LEMMA ReceiveCounts ==
  ASSUME TypeOK, Conserved, NEW p \in Queue, ReceiveMessage(p), NEW q \in Queue
  PROVE  Counted(q)
<1>. SUFFICES ASSUME CanRedrive(q),
                     NEW j \in DOMAIN messages'[q], NEW i \in DOMAIN messages[q],
                     messages'[q][j].id = messages[q][i].id,
                     messages'[q][j].receive_count > messages[q][i].receive_count
              PROVE  messages'[q][j].receive_count <= policy[q].max
  BY DEF Counted
<1>. DEFINE h == Home(p, q, j)
            k == Pos(p, q, j)
            n == messages'[q][j]
            a == AfterRedrive(p)[q][j]
            m == messages[q][i]
<1>1. /\ h \in Queue /\ k \in DOMAIN messages[h] /\ n.id = messages[h][k].id
      /\ j \in DOMAIN AfterRedrive(p)[q]
      /\ WasMoved(p, q, j) => a.receive_count = 0
      /\ ~WasMoved(p, q, j) => h = q /\ a = messages[h][k]
      /\ \/ n = a
         \/ /\ q = p /\ j \in Deliverable(p, AfterRedrive(p)[p])
            /\ n.receive_count = a.receive_count + 1
  BY ReceivedFrom
<1>2. h = q /\ k = i
  <2>1. messages[h][k].id = messages[q][i].id
    BY <1>1
  <2>2. h \in Queue /\ k \in DOMAIN messages[h]
    BY <1>1
  <2>. HIDE DEF h, k
  <2>. QED
    BY <2>1, <2>2 DEF Conserved
<1>3. m \in Message /\ m.receive_count \in Nat
  BY IdsAreIds, FieldsAfter
<1>4. policy[q].max \in Nat /\ policy[q].max >= 1
  <2>1. policy[q] \in Policy
    BY DEF CanRedrive, TypeOK
  <2>. QED
    BY <2>1, SqsBounds DEF Policy
<1>5. CASE WasMoved(p, q, j)
  <2>1. p = q /\ i \in DeadAt(p)
    BY <1>1, <1>2, <1>5, Origins DEF Home
  <2>2. m.receive_count >= policy[q].max
    BY <2>1 DEF DeadAt, Dead
  <2>3. a.receive_count = 0 /\ (n = a \/ n.receive_count = a.receive_count + 1)
    BY <1>1, <1>5
  <2>4. n.receive_count > m.receive_count
    OBVIOUS
  <2>. HIDE DEF n, a, m
  <2>. QED
    BY <1>3, <1>4, <2>2, <2>3, <2>4
<1>6. CASE ~WasMoved(p, q, j)
  <2>1. a = m /\ n # m
    BY <1>1, <1>2, <1>3, <1>6
  <2>2. q = p /\ j \in Deliverable(q, AfterRedrive(q)[q]) /\ n.receive_count = m.receive_count + 1
    BY <1>1, <2>1
  <2>3. Available(m)
    BY <2>1, <2>2 DEF Deliverable
  <2>4. i \in AliveAt(q)
    BY <1>1, <1>2, <1>6, <2>2, Origins
  <2>5. ~(m.receive_count >= policy[q].max)
    BY <2>3, <2>4 DEF AliveAt, DeadAt, Dead
  <2>6. n.receive_count <= policy[q].max
    <3>. HIDE DEF n, m
    <3>. QED
      BY <1>3, <1>4, <2>2, <2>5
  <2>. QED
    BY <2>6
<1>. QED
  BY <1>5, <1>6

\* No other operation raises a count.
LEMMA StepsCount ==
  ASSUME TypeOK, Conserved, [Next]_vars, NEW q \in Queue
  PROVE  Counted(q)
<1>0. \A i \in DOMAIN messages[q] : messages[q][i].receive_count \in Nat
  BY IdsAreIds, FieldsAfter
<1>1. ASSUME \A j \in DOMAIN messages'[q] :
               \E k \in DOMAIN messages[q] : messages'[q][j].id = messages[q][k].id
                 /\ messages'[q][j].receive_count = messages[q][k].receive_count
      PROVE  Counted(q)
  <2>. SUFFICES ASSUME NEW j \in DOMAIN messages'[q], NEW i \in DOMAIN messages[q],
                       messages'[q][j].id = messages[q][i].id,
                       messages'[q][j].receive_count > messages[q][i].receive_count
                PROVE  FALSE
    BY DEF Counted
  <2>1. PICK k \in DOMAIN messages[q] :
          /\ messages'[q][j].id = messages[q][k].id
          /\ messages'[q][j].receive_count = messages[q][k].receive_count
    BY <1>1
  <2>2. messages[q][k].id = messages[q][i].id
    BY <2>1
  <2>3. k = i
    BY <2>2 DEF Conserved
  <2>. QED
    BY <1>0, <2>1, <2>3
<1>2. ASSUME messages'[q] = messages[q] PROVE Counted(q)
  BY <1>1, <1>2
<1>3. ASSUME NEW p \in Queue, ReceiveMessage(p) PROVE Counted(q)
  BY <1>3, ReceiveCounts
<1>4. ASSUME NEW p \in Queue, messages' = [messages EXCEPT ![p] = <<>>] PROVE Counted(q)
  <2>1. CASE p = q
    <3>1. DOMAIN messages'[q] = {}
      BY <1>4, <2>1, AfterClear
    <3>. QED
      BY <3>1 DEF Counted
  <2>2. CASE p # q
    BY <1>2, <1>4, <2>2, AfterClear
  <2>. QED
    BY <2>1, <2>2
<1>5. ASSUME NEW p \in Queue, DeleteMessage(p) PROVE Counted(q)
  <2>1. CASE p # q
    BY <1>2, <1>5, <2>1, AfterDelete
  <2>2. CASE p = q
    <3>1. PICK i \in DOMAIN messages[q] :
            /\ Len(messages[q]) \in Nat /\ DOMAIN messages[q] = 1..Len(messages[q])
            /\ DOMAIN messages'[q] = 1..(Len(messages[q]) - 1)
            /\ \A j \in 1..(Len(messages[q]) - 1) :
                 messages'[q][j] = IF j < i THEN messages[q][j] ELSE messages[q][j + 1]
      BY <1>5, <2>2, AfterDelete
    <3>2. \A j \in DOMAIN messages'[q] :
            \E k \in DOMAIN messages[q] : messages'[q][j] = messages[q][k]
      <4>. SUFFICES ASSUME NEW j \in DOMAIN messages'[q]
                    PROVE  \E k \in DOMAIN messages[q] : messages'[q][j] = messages[q][k]
        OBVIOUS
      <4>1. j \in DOMAIN messages[q] /\ j + 1 \in DOMAIN messages[q]
        BY <3>1
      <4>. QED
        BY <3>1, <4>1
    <3>. QED
      BY <1>1, <3>2
  <2>. QED
    BY <2>1, <2>2
<1>6. ASSUME Advance \/ \E p \in Queue : ChangeMessageVisibility(p) PROVE Counted(q)
  <2>. SUFFICES ASSUME NEW j \in DOMAIN messages'[q]
                PROVE  \E k \in DOMAIN messages[q] : messages'[q][j].id = messages[q][k].id
                         /\ messages'[q][j].receive_count = messages[q][k].receive_count
    BY <1>1
  <2>1. j \in DOMAIN messages[q]
    BY <1>6, AfterTimes
  <2>2. PICK w \in 0..MaxWait : messages'[q][j] = [messages[q][j] EXCEPT !.wait = w]
    BY <1>6, <2>1, AfterTimes
  <2>3. messages[q][j] \in Message
    BY <2>1, IdsAreIds
  <2>. QED
    BY <2>1, <2>2, <2>3 DEF Message
<1>7. ASSUME NEW p \in Queue, NEW g \in Group \cup {None}, NEW d \in Dedup \cup {None},
             NEW w \in 0..MaxWait, enqueue(p, g, d, w)
      PROVE  Counted(q)
  <2>1. CASE p # q
    BY <1>2, <1>7, <2>1, AfterEnqueue
  <2>2. CASE p = q
    <3>. DEFINE l == Len(messages[q])
                m == [id |-> sent + 1, group |-> g, dedup |-> d, wait |-> w,
                      receive_count |-> 0, leases |-> 0, held |-> FALSE, moved |-> FALSE]
    <3>1. m.receive_count = 0
      OBVIOUS
    <3>2. /\ l \in Nat /\ DOMAIN messages[q] = 1..l /\ DOMAIN messages'[q] = 1..(l + 1)
          /\ \A i \in 1..l : messages'[q][i] = messages[q][i]
          /\ messages'[q][l + 1] = m
      BY <1>7, <2>2, AfterEnqueue
    <3>. HIDE DEF m, l
    <3>. SUFFICES ASSUME NEW j \in DOMAIN messages'[q], NEW i \in DOMAIN messages[q],
                         messages'[q][j].id = messages[q][i].id,
                         messages'[q][j].receive_count > messages[q][i].receive_count
                  PROVE  FALSE
      BY DEF Counted
    <3>3. CASE j \in 1..l
      <4>1. messages[q][j].id = messages[q][i].id /\ messages'[q][j] = messages[q][j]
        BY <3>2, <3>3
      <4>2. i = j
        BY <3>2, <3>3, <4>1 DEF Conserved
      <4>. QED
        BY <1>0, <4>1, <4>2
    <3>4. CASE j = l + 1
      BY <1>0, <3>1, <3>2, <3>4
    <3>. QED
      BY <3>2, <3>3, <3>4
  <2>. QED
    BY <2>1, <2>2
<1>8. ASSUME NEW p \in Queue, SendStandard(p) \/ SendFifo(p) PROVE Counted(q)
  <2>1. CASE SendStandard(p)
    BY <1>7, <2>1 DEF SendStandard
  <2>2. CASE SendFifo(p)
    <3>1. PICK g \in Group, d \in Dedup \ seen[p] : enqueue(p, g, d, 0)
      BY <2>2 DEF SendFifo
    <3>2. 0 \in 0..MaxWait
      BY SqsBounds
    <3>. QED
      BY <1>7, <3>1, <3>2
  <2>. QED
    BY <1>8, <2>1, <2>2
<1>9. ASSUME UNCHANGED messages PROVE Counted(q)
  BY <1>2, <1>9
<1>10. CASE UNCHANGED vars
  BY <1>9, <1>10 DEF vars
<1>. QED
  BY <1>3, <1>4, <1>5, <1>6, <1>8, <1>9, <1>10
     DEF Next, Admin, Send, Consume, CreateQueue, DeleteQueue, SetQueueAttributes, PurgeQueue

\* While a queue has a dead letter queue, no message of it is delivered more often
\* than its maxReceiveCount at that time, although the redrive happens only when
\* somebody receives and the policy may have changed since the message was sent.
THEOREM NobodyIsOverdelivered == Spec => NotOverdelivered
<1>. DEFINE IInv == TypeOK /\ Conserved /\ Accounted
            Step == \A q \in exists : CanRedrive(q) =>
                      \A j \in DOMAIN messages'[q] : \A i \in DOMAIN messages[q] :
                        LET m == messages[q][i]  n == messages'[q][j] IN
                        n.id = m.id /\ n.receive_count > m.receive_count
                          => n.receive_count <= policy[q].max
<1>1. Init => IInv
  BY TypesInitially, ConservedInitially
<1>2. IInv /\ [Next]_vars => IInv'
  BY TypesStay, ConservedStays
<1>3. IInv /\ [Next]_vars => Step
  <2>. SUFFICES ASSUME TypeOK, Conserved, [Next]_vars, NEW q \in exists
                PROVE  Counted(q)
    BY DEF Counted
  <2>1. q \in Queue
    BY DEF TypeOK
  <2>. QED
    BY <2>1, StepsCount
<1>4. Spec => [][Step]_vars
  BY <1>1, <1>2, <1>3, PTL DEF Spec
<1>. QED
  BY <1>4 DEF NotOverdelivered

-----------------------------------------------------------------------------
(* FIFO queues: retries.                                                   *)

\* What RetriesCollapse rests on: a message that was sent to a FIFO queue, and not
\* moved there, has left its deduplication id behind.
Remembered ==
  \A q \in Fifo : \A i \in DOMAIN messages[q] :
    ~messages[q][i].moved /\ messages[q][i].dedup # None => messages[q][i].dedup \in seen[q]

\* Steps after which the unmoved messages of FIFO queues come from different unmoved
\* messages of the same queue, and nothing is forgotten.
LEMMA CollapsedByOrigins ==
  ASSUME RetriesCollapse, Remembered, seen' = seen,
         \A q \in Fifo : \A j \in DOMAIN messages'[q] : ~messages'[q][j].moved =>
           \E i \in DOMAIN messages[q] :
             /\ ~messages[q][i].moved /\ messages'[q][j].dedup = messages[q][i].dedup,
         \A q \in Fifo : \A j, k \in DOMAIN messages'[q] :
           j # k /\ ~messages'[q][j].moved /\ ~messages'[q][k].moved =>
             \E i, l \in DOMAIN messages[q] :
               /\ i # l /\ ~messages[q][i].moved /\ ~messages[q][l].moved
               /\ messages'[q][j].dedup = messages[q][i].dedup
               /\ messages'[q][k].dedup = messages[q][l].dedup
  PROVE  RetriesCollapse' /\ Remembered'
<1>1. Remembered'
  BY DEF Remembered
<1>2. RetriesCollapse'
  BY DEF RetriesCollapse
<1>. QED
  BY <1>1, <1>2

\* A receive doubles no unmoved message.
LEMMA ReceiveCollapses ==
  ASSUME TypeOK, RetriesCollapse, Remembered, NEW p \in Queue, ReceiveMessage(p)
  PROVE  RetriesCollapse' /\ Remembered'
<1>1. ASSUME NEW q \in Fifo, NEW j \in DOMAIN messages'[q], ~messages'[q][j].moved
      PROVE  /\ j \in DOMAIN AfterRedrive(p)[q] /\ Home(p, q, j) = q
             /\ Pos(p, q, j) \in DOMAIN messages[q]
             /\ ~messages[q][Pos(p, q, j)].moved
             /\ messages'[q][j].dedup = messages[q][Pos(p, q, j)].dedup
  <2>1. q \in Queue
    BY FifoAssumption
  <2>2. /\ j \in DOMAIN AfterRedrive(p)[q]
        /\ Pos(p, q, j) \in DOMAIN messages[Home(p, q, j)]
        /\ messages'[q][j].dedup = messages[Home(p, q, j)][Pos(p, q, j)].dedup
        /\ ~messages[Home(p, q, j)][Pos(p, q, j)].moved /\ ~WasMoved(p, q, j)
    BY <1>1, <2>1, ReceivedFrom
  <2>3. Home(p, q, j) = q
    BY <2>2 DEF Home
  <2>. QED
    BY <2>2, <2>3
<1>2. ASSUME NEW q \in Fifo, NEW j \in DOMAIN messages'[q], NEW k \in DOMAIN messages'[q],
             j # k, ~messages'[q][j].moved, ~messages'[q][k].moved
      PROVE  \E i, l \in DOMAIN messages[q] :
               /\ i # l /\ ~messages[q][i].moved /\ ~messages[q][l].moved
               /\ messages'[q][j].dedup = messages[q][i].dedup
               /\ messages'[q][k].dedup = messages[q][l].dedup
  <2>1. q \in Queue
    BY FifoAssumption
  <2>2. Pos(p, q, j) # Pos(p, q, k)
    BY <1>1, <1>2, <2>1, OriginsDiffer
  <2>. QED
    BY <1>1, <1>2, <2>2
<1>3. seen' = seen
  BY DEF ReceiveMessage
<1>. QED
  BY <1>1, <1>2, <1>3, CollapsedByOrigins

\* Only SendFifo puts an unmoved message into a FIFO queue, with an id not yet seen.
LEMMA SendCollapses ==
  ASSUME TypeOK, RetriesCollapse, Remembered, NEW q \in Queue, SendFifo(q)
  PROVE  RetriesCollapse' /\ Remembered'
<1>1. PICK g \in Group, d \in Dedup \ seen[q] :
        enqueue(q, g, d, 0) /\ seen' = [seen EXCEPT ![q] = @ \cup {d}]
  BY DEF SendFifo
<1>. DEFINE l == Len(messages[q])
            m == [id |-> sent + 1, group |-> g, dedup |-> d, wait |-> 0,
                  receive_count |-> 0, leases |-> 0, held |-> FALSE, moved |-> FALSE]
<1>2. m.dedup = d
  OBVIOUS
<1>3. 0 \in 0..MaxWait
  BY SqsBounds
<1>4. /\ \A r \in Queue : r # q => messages'[r] = messages[r]
      /\ l \in Nat /\ DOMAIN messages[q] = 1..l /\ DOMAIN messages'[q] = 1..(l + 1)
      /\ \A i \in 1..l : messages'[q][i] = messages[q][i]
      /\ messages'[q][l + 1] = m
  BY <1>1, <1>3, AfterEnqueue
<1>5. /\ \A r \in Queue : r # q => seen'[r] = seen[r]
      /\ seen'[q] = seen[q] \cup {d}
  BY <1>1 DEF TypeOK
<1>. HIDE DEF l, m
<1>6. \A r \in Queue : \A j \in DOMAIN messages'[r] :
        \/ j \in DOMAIN messages[r] /\ messages'[r][j] = messages[r][j]
        \/ r = q /\ j = l + 1 /\ messages'[r][j].dedup = d
  <2>. SUFFICES ASSUME NEW r \in Queue, NEW j \in DOMAIN messages'[r]
                PROVE  \/ j \in DOMAIN messages[r] /\ messages'[r][j] = messages[r][j]
                       \/ r = q /\ j = l + 1 /\ messages'[r][j].dedup = d
    OBVIOUS
  <2>1. CASE r # q
    BY <1>4, <2>1
  <2>2. CASE r = q /\ j = l + 1
    BY <1>2, <1>4, <2>2
  <2>3. CASE r = q /\ j # l + 1
    BY <1>4, <2>3
  <2>. QED
    BY <2>1, <2>2, <2>3
<1>7. Remembered'
  <2>. SUFFICES ASSUME NEW r \in Fifo, NEW j \in DOMAIN messages'[r],
                       ~messages'[r][j].moved, messages'[r][j].dedup # None
                PROVE  messages'[r][j].dedup \in seen'[r]
    BY DEF Remembered
  <2>1. r \in Queue
    BY FifoAssumption
  <2>. QED
    BY <1>5, <1>6, <2>1 DEF Remembered
<1>8. RetriesCollapse'
  <2>. SUFFICES ASSUME NEW r \in Fifo, NEW i \in DOMAIN messages'[r], NEW j \in DOMAIN messages'[r],
                       i # j, messages'[r][i].dedup = messages'[r][j].dedup,
                       messages'[r][i].dedup # None,
                       ~messages'[r][i].moved, ~messages'[r][j].moved
                PROVE  FALSE
    BY DEF RetriesCollapse
  <2>1. r \in Queue
    BY FifoAssumption
  <2>2. ~(i \in DOMAIN messages[r] /\ messages'[r][i] = messages[r][i] /\
          j \in DOMAIN messages[r] /\ messages'[r][j] = messages[r][j])
    BY DEF RetriesCollapse
  <2>3. ASSUME NEW a \in DOMAIN messages'[r], NEW b \in DOMAIN messages'[r],
               a # b, messages'[r][a].dedup = messages'[r][b].dedup,
               messages'[r][a].dedup # None, ~messages'[r][b].moved,
               r = q, a = l + 1, messages'[r][a].dedup = d
        PROVE  FALSE
    <3>1. b \in DOMAIN messages[r] /\ messages'[r][b] = messages[r][b]
      BY <1>6, <2>1, <2>3
    <3>2. d \in seen[q]
      BY <2>3, <3>1 DEF Remembered
    <3>. QED
      BY <3>2
  <2>. QED
    BY <1>6, <2>1, <2>2, <2>3
<1>. QED
  BY <1>7, <1>8

\* Every operation leaves one message per deduplication id.
LEMMA CollapseStays ==
  TypeOK /\ RetriesCollapse /\ Remembered /\ [Next]_vars => RetriesCollapse' /\ Remembered'
<1>. SUFFICES ASSUME TypeOK, RetriesCollapse, Remembered, [Next]_vars
              PROVE  RetriesCollapse' /\ Remembered'
  OBVIOUS
<1>0. Fifo \subseteq Queue
  BY FifoAssumption
<1>1. ASSUME \A q \in Fifo : messages'[q] = messages[q], seen' = seen
      PROVE  RetriesCollapse' /\ Remembered'
  BY <1>1 DEF RetriesCollapse, Remembered
<1>2. ASSUME NEW q \in Queue, messages' = [messages EXCEPT ![q] = <<>>],
             \A r \in Queue : r # q => seen'[r] = seen[r]
      PROVE  RetriesCollapse' /\ Remembered'
  <2>1. DOMAIN messages'[q] = {} /\ \A r \in Queue : r # q => messages'[r] = messages[r]
    BY <1>2, AfterClear
  <2>2. Remembered'
    BY <1>0, <1>2, <2>1 DEF Remembered
  <2>3. RetriesCollapse'
    BY <1>0, <2>1 DEF RetriesCollapse
  <2>. QED
    BY <2>2, <2>3
<1>3. ASSUME NEW q \in Queue, DeleteQueue(q) PROVE RetriesCollapse' /\ Remembered'
  <2>1. messages' = [messages EXCEPT ![q] = <<>>] /\ \A r \in Queue : r # q => seen'[r] = seen[r]
    BY <1>3 DEF DeleteQueue, TypeOK
  <2>. QED
    BY <1>2, <2>1
<1>4. ASSUME NEW q \in Queue, PurgeQueue(q) PROVE RetriesCollapse' /\ Remembered'
  BY <1>2, <1>4 DEF PurgeQueue
<1>5. ASSUME NEW q \in Queue, SendStandard(q) PROVE RetriesCollapse' /\ Remembered'
  <2>1. PICK w \in 0..MaxWait : enqueue(q, None, None, w)
    BY <1>5 DEF SendStandard
  <2>2. \A r \in Queue : r # q => messages'[r] = messages[r]
    BY <2>1, AfterEnqueue
  <2>3. q \notin Fifo /\ seen' = seen
    BY <1>5 DEF SendStandard
  <2>. QED
    BY <1>0, <1>1, <2>2, <2>3
<1>6. ASSUME NEW q \in Queue, SendFifo(q) PROVE RetriesCollapse' /\ Remembered'
  BY <1>6, SendCollapses
<1>7. ASSUME NEW q \in Queue, ReceiveMessage(q) PROVE RetriesCollapse' /\ Remembered'
  BY <1>7, ReceiveCollapses
<1>8. ASSUME NEW p \in Queue, DeleteMessage(p) PROVE RetriesCollapse' /\ Remembered'
  <2>1. PICK i \in DOMAIN messages[p] :
          /\ \A r \in Queue : r # p => messages'[r] = messages[r]
          /\ Len(messages[p]) \in Nat /\ DOMAIN messages[p] = 1..Len(messages[p])
          /\ DOMAIN messages'[p] = 1..(Len(messages[p]) - 1)
          /\ \A j \in 1..(Len(messages[p]) - 1) :
               messages'[p][j] = IF j < i THEN messages[p][j] ELSE messages[p][j + 1]
    BY <1>8, AfterDelete
  <2>. DEFINE old(r, j) == IF r = p /\ ~(j < i) THEN j + 1 ELSE j
  <2>2. ASSUME NEW r \in Queue, NEW j \in DOMAIN messages'[r]
        PROVE  old(r, j) \in DOMAIN messages[r] /\ messages'[r][j] = messages[r][old(r, j)]
    <3>1. CASE r # p
      BY <2>1, <3>1
    <3>2. CASE r = p
      <4>. DEFINE l == Len(messages[p])
      <4>1. i \in 1..l /\ l \in Nat /\ j \in 1..(l - 1)
        BY <2>1, <3>2
      <4>. HIDE DEF l
      <4>2. j < i => j \in 1..l
        BY <4>1
      <4>3. ~(j < i) => j + 1 \in 1..l
        BY <4>1
      <4>4. old(r, j) \in DOMAIN messages[r]
        BY <2>1, <3>2, <4>2, <4>3 DEF l
      <4>5. messages'[r][j] = messages[r][old(r, j)]
        BY <2>1, <3>2, <4>1 DEF l
      <4>. QED
        BY <4>4, <4>5
    <3>. QED
      BY <3>1, <3>2
  <2>3. ASSUME NEW r \in Queue, NEW j \in DOMAIN messages'[r], NEW k \in DOMAIN messages'[r], j # k
        PROVE  old(r, j) # old(r, k)
    <3>1. CASE r # p
      BY <2>3, <3>1
    <3>2. CASE r = p
      <4>1. i \in Int /\ j \in Int /\ k \in Int
        BY <2>1, <3>2
      <4>. QED
        BY <2>3, <3>2, <4>1
    <3>. QED
      BY <3>1, <3>2
  <2>. HIDE DEF old
  <2>4. seen' = seen
    BY <1>8 DEF DeleteMessage
  <2>5. \A r \in Fifo : \A j \in DOMAIN messages'[r] : ~messages'[r][j].moved =>
          \E k \in DOMAIN messages[r] :
            /\ ~messages[r][k].moved /\ messages'[r][j].dedup = messages[r][k].dedup
    BY <1>0, <2>2
  <2>6. \A r \in Fifo : \A j, k \in DOMAIN messages'[r] :
          j # k /\ ~messages'[r][j].moved /\ ~messages'[r][k].moved =>
            \E a, b \in DOMAIN messages[r] :
              /\ a # b /\ ~messages[r][a].moved /\ ~messages[r][b].moved
              /\ messages'[r][j].dedup = messages[r][a].dedup
              /\ messages'[r][k].dedup = messages[r][b].dedup
    BY <1>0, <2>2, <2>3
  <2>. QED
    BY <2>4, <2>5, <2>6, CollapsedByOrigins
<1>9. ASSUME Advance \/ \E p \in Queue : ChangeMessageVisibility(p)
      PROVE  RetriesCollapse' /\ Remembered'
  <2>1. ASSUME NEW r \in Fifo, NEW j \in DOMAIN messages'[r]
        PROVE  /\ j \in DOMAIN messages[r] /\ messages'[r][j].dedup = messages[r][j].dedup
               /\ messages'[r][j].moved = messages[r][j].moved
    <3>1. r \in Queue /\ j \in DOMAIN messages[r]
      BY <1>0, <1>9, AfterTimes
    <3>2. PICK w \in 0..MaxWait : messages'[r][j] = [messages[r][j] EXCEPT !.wait = w]
      BY <1>9, <3>1, AfterTimes
    <3>3. messages[r][j] \in Message
      BY <3>1, IdsAreIds
    <3>. QED
      BY <3>1, <3>2, <3>3 DEF Message
  <2>2. seen' = seen
    BY <1>9 DEF Advance, ChangeMessageVisibility
  <2>3. Remembered'
    BY <2>1, <2>2 DEF Remembered
  <2>4. RetriesCollapse'
    BY <2>1 DEF RetriesCollapse
  <2>. QED
    BY <2>3, <2>4
<1>10. ASSUME NEW q \in Queue, CreateQueue(q) \/ SetQueueAttributes(q)
       PROVE  RetriesCollapse' /\ Remembered'
  BY <1>1, <1>10 DEF CreateQueue, SetQueueAttributes
<1>11. CASE UNCHANGED vars
  BY <1>1, <1>11 DEF vars
<1>. QED
  BY <1>3, <1>4, <1>5, <1>6, <1>7, <1>8, <1>9, <1>10, <1>11 DEF Next, Admin, Send, Consume

\* An empty store holds no retries.
LEMMA CollapseInitially == Init => RetriesCollapse /\ Remembered
BY FifoAssumption DEF Init, RetriesCollapse, Remembered

\* A send that is retried puts one message into its FIFO queue, however often it is
\* repeated and whatever was received, deleted, redriven or purged in between.
THEOREM RetriesAreOneMessage == Spec => []RetriesCollapse
<1>. DEFINE IInv == TypeOK /\ RetriesCollapse /\ Remembered
<1>1. Init => IInv
  BY TypesInitially, CollapseInitially
<1>2. IInv /\ [Next]_vars => IInv'
  BY TypesStay, CollapseStays
<1>3. IInv => RetriesCollapse
  OBVIOUS
<1>. QED
  BY <1>1, <1>2, <1>3, PTL DEF Spec

-----------------------------------------------------------------------------
(* FIFO queues: order.                                                     *)

\* A message that nobody has been given.
Untouched(m) == ~m.held /\ m.receive_count = 0 /\ Available(m)

\* HeadOnly, before and after a step, in terms of Untouched.
LEMMA HeadOnlyMeans ==
  /\ HeadOnly <=> \A q \in Fifo : \A j \in DOMAIN messages[q] : \A i \in 1..(j - 1) :
       messages[q][j].group # None /\ messages[q][i].group = messages[q][j].group
         => Untouched(messages[q][j])
  /\ HeadOnly' <=> \A q \in Fifo : \A j \in DOMAIN messages'[q] : \A i \in 1..(j - 1) :
       messages'[q][j].group # None /\ messages'[q][i].group = messages'[q][j].group
         => Untouched(messages'[q][j])
BY DEF HeadOnly, Untouched, Available

\* Neither the redrive of a queue nor its leases let a message overtake its group.
LEMMA ReceiveKeepsOrder ==
  ASSUME TypeOK, HeadOnly, NEW p \in Queue, ReceiveMessage(p)
  PROVE  HeadOnly'
<1>. SUFFICES ASSUME NEW q \in Fifo, NEW j \in DOMAIN messages'[q], NEW i \in 1..(j - 1),
                     messages'[q][j].group # None,
                     messages'[q][i].group = messages'[q][j].group
              PROVE  Untouched(messages'[q][j])
  BY HeadOnlyMeans
<1>. DEFINE A == AfterRedrive(p)
<1>1. q \in Queue
  BY FifoAssumption
<1>2. A[q] \in Seq(Message) /\ DOMAIN messages'[q] = DOMAIN A[q]
  BY <1>1, RedriveIs, AfterReceive
<1>3. DOMAIN A[q] = 1..Len(A[q]) /\ Len(A[q]) \in Nat
  <2>. HIDE DEF A
  <2>. QED
    BY <1>2, LenProperties
<1>4. j \in DOMAIN A[q] /\ i \in DOMAIN A[q] /\ i \in DOMAIN messages'[q] /\ i < j
  BY <1>2, <1>3
<1>5. messages'[q][i].group = A[q][i].group /\ messages'[q][j].group = A[q][j].group
  BY <1>1, <1>4, ReceivedFrom
<1>6. messages'[q][j] = A[q][j]
  <2>1. /\ A[q][j].group # None /\ A[q][i].group = A[q][j].group
    BY <1>5
  <2>0. i \in Int /\ j \in Int /\ ~(i >= j)
    <3>. HIDE DEF A
    <3>. QED
      BY <1>3, <1>4
  <2>2. j \notin Deliverable(q, A[q])
    <3>. HIDE DEF A
    <3>. QED
      BY <1>4, <2>0, <2>1 DEF Deliverable
  <2>3. messages'[q][j] = A[q][j] \/ (q = p /\ j \in Deliverable(p, AfterRedrive(p)[p]))
    BY <1>1, ReceivedFrom
  <2>. QED
    BY <2>2, <2>3
<1>7. CASE WasMoved(p, q, j)
  <2>1. A[q][j].receive_count = 0 /\ A[q][j].held = FALSE /\ A[q][j].wait = 0
    BY <1>1, <1>7, ReceivedFrom
  <2>. QED
    BY <1>6, <2>1 DEF Untouched, Available
<1>8. CASE ~WasMoved(p, q, j)
  <2>1. ~WasMoved(p, q, i) /\ Pos(p, q, i) < Pos(p, q, j)
    BY <1>1, <1>4, <1>8, OriginsInOrder
  <2>2. /\ Pos(p, q, i) \in DOMAIN messages[q] /\ A[q][i] = messages[q][Pos(p, q, i)]
        /\ Pos(p, q, j) \in DOMAIN messages[q] /\ A[q][j] = messages[q][Pos(p, q, j)]
    BY <1>1, <1>4, <1>8, <2>1, Origins DEF Home
  <2>3. DOMAIN messages[q] = 1..Len(messages[q]) /\ Len(messages[q]) \in Nat
    BY <1>1 DEF TypeOK
  <2>4. Pos(p, q, i) \in 1..(Pos(p, q, j) - 1)
    BY <2>1, <2>2, <2>3
  <2>5. Untouched(messages[q][Pos(p, q, j)])
    BY <1>5, <2>2, <2>4, HeadOnlyMeans
  <2>. QED
    BY <1>6, <2>2, <2>5
<1>. QED
  BY <1>7, <1>8

\* Every operation with a named lease keeps the order of the groups.
LEMMA OrderStays ==
  ASSUME MayOmit = FALSE, TypeOK, HeadOnly, [Next]_vars
  PROVE  HeadOnly'
<1>0. Fifo \subseteq Queue
  BY FifoAssumption
<1>1. ASSUME \A q \in Fifo : messages'[q] = messages[q] PROVE HeadOnly'
  BY <1>1, HeadOnlyMeans
<1>2. ASSUME NEW q \in Queue, messages' = [messages EXCEPT ![q] = <<>>] PROVE HeadOnly'
  <2>1. DOMAIN messages'[q] = {} /\ \A r \in Queue : r # q => messages'[r] = messages[r]
    BY <1>2, AfterClear
  <2>. QED
    BY <1>0, <2>1, HeadOnlyMeans
<1>3. ASSUME NEW q \in Queue, DeleteQueue(q) \/ PurgeQueue(q) PROVE HeadOnly'
  BY <1>2, <1>3 DEF DeleteQueue, PurgeQueue
<1>4. ASSUME NEW q \in Queue, SendStandard(q) PROVE HeadOnly'
  <2>1. PICK w \in 0..MaxWait : enqueue(q, None, None, w)
    BY <1>4 DEF SendStandard
  <2>2. \A r \in Queue : r # q => messages'[r] = messages[r]
    BY <2>1, AfterEnqueue
  <2>3. q \notin Fifo
    BY <1>4 DEF SendStandard
  <2>. QED
    BY <1>0, <1>1, <2>2, <2>3
<1>5. ASSUME NEW q \in Queue, SendFifo(q) PROVE HeadOnly'
  <2>1. PICK g \in Group, d \in Dedup \ seen[q] : enqueue(q, g, d, 0)
    BY <1>5 DEF SendFifo
  <2>. DEFINE l == Len(messages[q])
              m == [id |-> sent + 1, group |-> g, dedup |-> d, wait |-> 0,
                    receive_count |-> 0, leases |-> 0, held |-> FALSE, moved |-> FALSE]
  <2>2. Untouched(m)
    BY DEF Untouched, Available
  <2>3. 0 \in 0..MaxWait
    BY SqsBounds
  <2>4. /\ \A r \in Queue : r # q => messages'[r] = messages[r]
        /\ l \in Nat /\ DOMAIN messages[q] = 1..l /\ DOMAIN messages'[q] = 1..(l + 1)
        /\ \A i \in 1..l : messages'[q][i] = messages[q][i]
        /\ messages'[q][l + 1] = m
    BY <2>1, <2>3, AfterEnqueue
  <2>. HIDE DEF l, m
  <2>. SUFFICES ASSUME NEW r \in Fifo, NEW j \in DOMAIN messages'[r], NEW i \in 1..(j - 1),
                       messages'[r][j].group # None,
                       messages'[r][i].group = messages'[r][j].group
                PROVE  Untouched(messages'[r][j])
    BY HeadOnlyMeans
  <2>5. CASE r # q
    BY <1>0, <2>4, <2>5, HeadOnlyMeans
  <2>6. CASE r = q /\ j = l + 1
    BY <2>2, <2>4, <2>6
  <2>7. CASE r = q /\ j # l + 1
    <3>1. j \in 1..l /\ i \in 1..l
      BY <2>4, <2>7
    <3>. QED
      BY <2>4, <2>7, <3>1, HeadOnlyMeans
  <2>. QED
    BY <2>5, <2>6, <2>7
<1>6. ASSUME NEW q \in Queue, ReceiveMessage(q) PROVE HeadOnly'
  BY <1>6, ReceiveKeepsOrder
<1>7. ASSUME NEW q \in Queue, DeleteMessage(q) PROVE HeadOnly'
  <2>. DEFINE l == Len(messages[q])
  <2>1. PICK n \in DOMAIN messages[q] :
          /\ \A r \in Queue : r # q => messages'[r] = messages[r]
          /\ l \in Nat /\ DOMAIN messages[q] = 1..l
          /\ DOMAIN messages'[q] = 1..(l - 1)
          /\ \A j \in 1..(l - 1) :
               messages'[q][j] = IF j < n THEN messages[q][j] ELSE messages[q][j + 1]
    BY <1>7, AfterDelete
  <2>. HIDE DEF l
  <2>. SUFFICES ASSUME NEW r \in Fifo, NEW j \in DOMAIN messages'[r], NEW i \in 1..(j - 1),
                       messages'[r][j].group # None,
                       messages'[r][i].group = messages'[r][j].group
                PROVE  Untouched(messages'[r][j])
    BY HeadOnlyMeans
  <2>2. CASE r # q
    BY <1>0, <2>1, <2>2, HeadOnlyMeans
  <2>3. CASE r = q
    <3>. DEFINE old(k) == IF k < n THEN k ELSE k + 1
    <3>1. n \in 1..l /\ j \in 1..(l - 1) /\ i \in 1..(l - 1) /\ i < j /\ l \in Nat
      BY <2>1, <2>3
    <3>2. old(i) \in 1..(old(j) - 1) /\ old(j) \in 1..l
      BY <3>1
    <3>3. messages'[q][i] = messages[q][old(i)] /\ messages'[q][j] = messages[q][old(j)]
      BY <2>1, <3>1
    <3>. HIDE DEF old
    <3>4. Untouched(messages[q][old(j)])
      BY <2>1, <2>3, <3>2, <3>3, HeadOnlyMeans
    <3>. QED
      BY <2>3, <3>3, <3>4
  <2>. QED
    BY <2>2, <2>3
<1>8. ASSUME Advance \/ \E q \in Queue : ChangeMessageVisibility(q) PROVE HeadOnly'
  <2>. SUFFICES ASSUME NEW r \in Fifo, NEW j \in DOMAIN messages'[r], NEW i \in 1..(j - 1),
                       messages'[r][j].group # None,
                       messages'[r][i].group = messages'[r][j].group
                PROVE  Untouched(messages'[r][j])
    BY HeadOnlyMeans
  <2>1. r \in Queue /\ DOMAIN messages'[r] = DOMAIN messages[r]
    BY <1>0, <1>8, AfterTimes
  <2>2. DOMAIN messages[r] = 1..Len(messages[r]) /\ Len(messages[r]) \in Nat
    BY <2>1 DEF TypeOK
  <2>3. j \in DOMAIN messages[r] /\ i \in DOMAIN messages[r]
    BY <2>1, <2>2
  <2>4. PICK w \in 0..MaxWait :
          /\ messages'[r][j] = [messages[r][j] EXCEPT !.wait = w]
          /\ w = 0 \/ w < messages[r][j].wait \/ w = messages[r][j].wait \/ Matches(r, j)
    BY <1>8, <2>1, <2>3, AfterTimes
  <2>5. PICK v \in 0..MaxWait : messages'[r][i] = [messages[r][i] EXCEPT !.wait = v]
    BY <1>8, <2>1, <2>3, AfterTimes
  <2>6. messages[r][i] \in Message /\ messages[r][j] \in Message
    BY <2>1, <2>3, IdsAreIds
  <2>7. messages'[r][i].group = messages[r][i].group /\ messages'[r][j].group = messages[r][j].group
    BY <2>4, <2>5, <2>6 DEF Message
  <2>8. Untouched(messages[r][j])
    BY <2>3, <2>7, HeadOnlyMeans
  <2>9. ~Matches(r, j)
    BY <2>8 DEF Matches, Untouched
  <2>10. w = 0
    BY <2>4, <2>8, <2>9 DEF Untouched, Available
  <2>. QED
    BY <2>4, <2>6, <2>8, <2>10 DEF Untouched, Available, Message
<1>9. ASSUME NEW q \in Queue, CreateQueue(q) \/ SetQueueAttributes(q) PROVE HeadOnly'
  BY <1>1, <1>9 DEF CreateQueue, SetQueueAttributes
<1>10. CASE UNCHANGED vars
  BY <1>1, <1>10 DEF vars
<1>. QED
  BY <1>3, <1>4, <1>5, <1>6, <1>7, <1>8, <1>9, <1>10 DEF Next, Admin, Send, Consume

\* A FIFO queue keeps both of its promises if clients name the lease they act on:
\* nothing overtakes its group, and a retried send is one message.
THEOREM FifoIsKept ==
  ASSUME MayOmit = FALSE
  PROVE  Spec => []FifoKept
<1>. DEFINE IInv == TypeOK /\ HeadOnly /\ RetriesCollapse /\ Remembered
<1>1. Init => IInv
  <2>1. Init => HeadOnly
    BY FifoAssumption DEF Init, HeadOnly
  <2>. QED
    BY <2>1, TypesInitially, CollapseInitially
<1>2. IInv /\ [Next]_vars => IInv'
  BY TypesStay, CollapseStays, OrderStays
<1>3. IInv => FifoKept
  BY DEF FifoKept
<1>. QED
  BY <1>1, <1>2, <1>3, PTL DEF Spec
=============================================================================
