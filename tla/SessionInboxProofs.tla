-------------------------- MODULE SessionInboxProofs --------------------------
(***************************************************************************)
(* The proofs about SessionInbox, for any IDs, clients and item types.     *)
(*                                                                         *)
(* First what the reads of the tables return: Rows is a recursion over the *)
(* inbox, and Least, the least counterexample, stands in for induction.    *)
(* Then the inductive invariant Inv: the tables hold one record per ID and *)
(* one compaction, one caller owns the lock, and what a promotion read is  *)
(* still in the table, in its order.  Then one lemma per action, and the   *)
(* theorems.                                                               *)
(***************************************************************************)
EXTENDS SessionInbox, WellFoundedInduction, SequenceTheorems, TLAPS

-----------------------------------------------------------------------------
(* Sequences of rows *)

\* A set of numbers has a least one.
LEMMA Least == ASSUME NEW S \in SUBSET Nat, S # {} PROVE \E x \in S : \A y \in S : x <= y
<1> DEFINE R == {ss \in Nat \X Nat : ss[1] < ss[2]}
<1>1. R = OpToRel(<, Nat)
  BY DEF OpToRel
<1>2. IsWellFoundedOn(R, Nat)
  BY ONLY <1>1, NatLessThanWellFounded
<1>3. \A x, y \in Nat : y < x => <<y, x>> \in R
  OBVIOUS
<1> HIDE DEF R
<1>4. PICK x \in S : \A y \in S : ~(<<y, x>> \in R)
  BY <1>2, WFMin
<1>5. \A y \in S : ~(y < x)
  BY <1>3, <1>4
<1> QED BY <1>5

\* The recursion of Rows over the first n rows of s.
Selects(f, s, delivery, n) ==
  f = [i \in 0..n |-> IF i = 0 THEN <<>>
                      ELSE IF s[i].delivery = delivery THEN Append(f[i - 1], s[i]) ELSE f[i - 1]]

\* There is a function that satisfies it.
LEMMA SelectsExists ==
  ASSUME NEW s, NEW delivery, NEW n \in Nat
  PROVE  \E f : Selects(f, s, delivery, n)
<1> DEFINE Fails == {m \in Nat : ~\E f : Selects(f, s, delivery, m)}
<1>1. SUFFICES ASSUME Fails # {} PROVE FALSE
  OBVIOUS
<1>2. PICK m \in Fails : \A k \in Fails : m <= k
  BY <1>1, Least
<1>3. CASE m = 0
  <2>1. Selects([i \in 0..0 |-> <<>>], s, delivery, 0)
    BY DEF Selects
  <2> QED BY <1>2, <1>3, <2>1
<1>4. CASE m # 0
  <2>1. m \in Nat /\ m - 1 \in Nat /\ m - 1 \notin Fails
    BY <1>2, <1>4
  <2>2. PICK f : Selects(f, s, delivery, m - 1)
    BY <2>1
  <2> DEFINE e == IF s[m].delivery = delivery THEN Append(f[m - 1], s[m]) ELSE f[m - 1]
             g == [i \in 0..m |-> IF i = m THEN e ELSE f[i]]
  <2>3. \A i \in 0..m : i # m => i \in 0..(m - 1)
    BY <2>1
  <2>4. \A i \in 0..m : g[i] = IF i = 0 THEN <<>>
                      ELSE IF s[i].delivery = delivery THEN Append(g[i - 1], s[i]) ELSE g[i - 1]
    <3> HIDE DEF e
    <3>1. \A i \in 0..m : i # 0 => g[i - 1] = f[i - 1]
      BY <2>1
    <3>2. CASE TRUE
      <4> SUFFICES ASSUME NEW i \in 0..m
                   PROVE  g[i] = IF i = 0 THEN <<>>
                      ELSE IF s[i].delivery = delivery THEN Append(f[i - 1], s[i]) ELSE f[i - 1]
        BY <3>1
      <4>1. CASE i = m
        BY <1>4, <4>1 DEF e
      <4>2. CASE i # m
        BY <2>2, <2>3, <4>2 DEF Selects
      <4> QED BY <4>1, <4>2
    <3> QED BY <3>2
  <2>5. Selects(g, s, delivery, m)
    BY <2>4 DEF Selects
  <2> QED BY <1>2, <2>5
<1> QED BY <1>3, <1>4

\* t are the rows of s up to n with this delivery: g says where they come from.
Chosen(t, g, s, delivery, n) ==
  /\ t \in Seq(Row) /\ g \in [1..Len(t) -> 1..n]
  /\ \A i \in 1..Len(t) : t[i] = s[g[i]] /\ s[g[i]].delivery = delivery
  /\ \A i, j \in 1..Len(t) : i < j => g[i] < g[j]
  /\ \A k \in 1..n : s[k].delivery = delivery => \E i \in 1..Len(t) : g[i] = k

\* Another row of this delivery is chosen last, another one is passed over.
LEMMA ChosenNext ==
  ASSUME NEW s \in Seq(Row), NEW delivery, NEW n \in Nat, n + 1 <= Len(s),
         NEW t, NEW g, Chosen(t, g, s, delivery, n)
  PROVE  \E h : Chosen(IF s[n + 1].delivery = delivery THEN Append(t, s[n + 1]) ELSE t,
                       h, s, delivery, n + 1)
<1>0. t \in Seq(Row) /\ Len(t) \in Nat /\ s[n + 1] \in Row /\ g \in [1..Len(t) -> 1..n]
  BY DEF Chosen
<1>1. CASE s[n + 1].delivery = delivery
  <2> DEFINE u == Append(t, s[n + 1])
             h == [i \in 1..(Len(t) + 1) |-> IF i = Len(t) + 1 THEN n + 1 ELSE g[i]]
  <2>1. /\ u \in Seq(Row) /\ Len(u) = Len(t) + 1 /\ u[Len(t) + 1] = s[n + 1]
        /\ \A i \in 1..Len(t) : u[i] = t[i]
    BY <1>0, AppendProperties
  <2>2. \A i \in 1..(Len(t) + 1) : i = Len(t) + 1 \/ i \in 1..Len(t)
    BY <1>0
  <2>3. h \in [1..(Len(t) + 1) -> 1..(n + 1)]
    BY <1>0, <2>2
  <2>4. \A i \in 1..Len(t) : h[i] = g[i] /\ i # Len(t) + 1
    BY <1>0
  <2>5. h[Len(t) + 1] = n + 1
    BY <1>0
  <2> HIDE DEF u, h
  <2>6. ASSUME NEW i \in 1..(Len(t) + 1) PROVE u[i] = s[h[i]] /\ s[h[i]].delivery = delivery
    BY <1>1, <2>1, <2>2, <2>4, <2>5 DEF Chosen
  <2>7. ASSUME NEW i \in 1..(Len(t) + 1), NEW j \in 1..(Len(t) + 1), i < j PROVE h[i] < h[j]
    <3>1. i \in 1..Len(t) /\ h[i] = g[i] /\ g[i] \in 1..n
      BY <1>0, <2>2, <2>4, <2>7
    <3>2. CASE j = Len(t) + 1
      BY <2>5, <3>1, <3>2
    <3>3. CASE j # Len(t) + 1
      BY <2>2, <2>4, <2>7, <3>1, <3>3 DEF Chosen
    <3> QED BY <3>2, <3>3
  <2>8. ASSUME NEW k \in 1..(n + 1), s[k].delivery = delivery
        PROVE  \E i \in 1..(Len(t) + 1) : h[i] = k
    <3>1. CASE k = n + 1
      BY <1>0, <2>5, <3>1
    <3>2. CASE k # n + 1
      <4>1. PICK i \in 1..Len(t) : g[i] = k
        BY <2>8, <3>2 DEF Chosen
      <4> QED BY <1>0, <2>4, <4>1
    <3> QED BY <3>1, <3>2
  <2>9. Chosen(u, h, s, delivery, n + 1)
    BY <2>1, <2>3, <2>6, <2>7, <2>8 DEF Chosen
  <2> QED BY <1>1, <2>9 DEF u
<1>2. CASE s[n + 1].delivery # delivery
  <2>1. Chosen(t, g, s, delivery, n + 1)
    <3>1. g \in [1..Len(t) -> 1..(n + 1)]
      BY <1>0
    <3>2. \A k \in 1..(n + 1) : s[k].delivery = delivery => k \in 1..n
      BY <1>2
    <3> QED BY <3>1, <3>2 DEF Chosen
  <2> QED BY <1>2, <2>1
<1> QED BY <1>1, <1>2

\* What Rows reads: every row of the delivery, in the order of the table.
LEMMA RowsChosen ==
  ASSUME NEW delivery, inbox \in Seq(Row)
  PROVE  \E g : Chosen(Rows(delivery), g, inbox, delivery, Len(inbox))
<1> DEFINE F == CHOOSE f : Selects(f, inbox, delivery, Len(inbox))
           Fails == {n \in Nat : n <= Len(inbox) /\ ~\E g : Chosen(F[n], g, inbox, delivery, n)}
<1>0. Len(inbox) \in Nat
  OBVIOUS
<1>1. Selects(F, inbox, delivery, Len(inbox))
  BY <1>0, SelectsExists
<1>2. Rows(delivery) = F[Len(inbox)]
  BY DEF Rows, Selects
<1> HIDE DEF F
<1>3. SUFFICES ASSUME Fails # {} PROVE FALSE
  BY <1>0, <1>2
<1>4. PICK m \in Fails : \A k \in Fails : m <= k
  BY <1>3, Least
<1>5. CASE m = 0
  <2>1. F[0] = <<>>
    BY <1>0, <1>1 DEF Selects
  <2>2. Chosen(<<>>, [i \in 1..0 |-> 0], inbox, delivery, 0)
    BY DEF Chosen
  <2> QED BY <1>4, <1>5, <2>1, <2>2
<1>6. CASE m # 0
  <2>1. m \in Nat /\ m - 1 \in Nat /\ m <= Len(inbox) /\ m - 1 \notin Fails
    BY <1>4, <1>6
  <2>2. PICK g : Chosen(F[m - 1], g, inbox, delivery, m - 1)
    BY <2>1
  <2>3. F[m] = IF inbox[m].delivery = delivery THEN Append(F[m - 1], inbox[m]) ELSE F[m - 1]
    <3> DEFINE G == [i \in 0..Len(inbox) |-> IF i = 0 THEN <<>>
                      ELSE IF inbox[i].delivery = delivery THEN Append(F[i - 1], inbox[i]) ELSE F[i - 1]]
    <3>1. F = G
      BY <1>1 DEF Selects
    <3>2. G[m] = IF inbox[m].delivery = delivery THEN Append(F[m - 1], inbox[m]) ELSE F[m - 1]
      BY <1>6, <2>1
    <3> HIDE DEF G
    <3>3. F[m] = G[m]
      BY <3>1
    <3> QED BY <3>2, <3>3
  <2>4. (m - 1) + 1 = m
    BY <2>1
  <2>5. \E h : Chosen(F[m], h, inbox, delivery, m)
    BY <2>1, <2>2, <2>3, <2>4, ChosenNext
  <2> QED BY <1>4, <2>5
<1> QED BY <1>5, <1>6

\* SelectInSeq finds the first control, if there is one.
LEMMA FirstControl ==
  ASSUME NEW s \in Seq(Row)
  PROVE  LET c == SelectInSeq(s, IsControl)
         IN  /\ c \in 0..Len(s)
             /\ c # 0 => IsControl(s[c]) /\ \A j \in 1..(c - 1) : ~IsControl(s[j])
             /\ c = 0 => \A j \in 1..Len(s) : ~IsControl(s[j])
<1> DEFINE I == {i \in 1..Len(s) : IsControl(s[i])}
<1>1. SelectInSeq(s, IsControl) = IF I # {} THEN Min(I) ELSE 0
  BY DEF SelectInSeq
<1>2. I # {} => Min(I) \in I /\ \A y \in I : Min(I) <= y
  <2>1. I \in SUBSET Nat
    OBVIOUS
  <2>2. I # {} => \E x \in I : \A y \in I : x <= y
    BY <2>1, Least
  <2> HIDE DEF I
  <2> QED BY <2>2 DEF Min
<1>3. ASSUME I # {}, NEW j \in 1..(Min(I) - 1) PROVE ~IsControl(s[j])
  <2>1. j \in 1..Len(s) /\ ~(Min(I) <= j)
    BY <1>2, <1>3
  <2>2. j \notin I
    BY <1>2, <1>3, <2>1
  <2> QED BY <2>1, <2>2
<1> QED BY <1>1, <1>2, <1>3

\* t is s without its k-th row.
LacksAt(t, s, k) ==
  /\ t \in Seq(Row) /\ k \in 1..Len(s) /\ Len(t) = Len(s) - 1
  /\ \A j \in 1..Len(t) : t[j] = IF j < k THEN s[j] ELSE s[j + 1]

\* A table with one row removed lacks just this row.
LEMMA RemoveLacks ==
  ASSUME NEW s \in Seq(Row), NEW k \in 1..Len(s)
  PROVE  LacksAt(RemoveAt(s, k), s, k)
<1> DEFINE front == SubSeq(s, 1, k - 1)
           back == SubSeq(s, k + 1, Len(s))
<1>0. Len(s) \in Nat /\ k \in Nat /\ 1 <= k /\ k <= Len(s)
  OBVIOUS
<1>1. /\ front \in Seq(Row) /\ Len(front) = k - 1
      /\ \A i \in 1..(k - 1) : front[i] = s[i]
  <2>1. \A i \in 1..(k - 1) : s[i] \in Row
    BY <1>0
  <2>2. Len(front) = IF 1 <= k - 1 THEN k - 1 - 1 + 1 ELSE 0
    BY <1>0, <2>1, SubSeqProperties
  <2>3. \A i \in 1..((k - 1) - 1 + 1) : front[i] = s[1 + i - 1]
    BY <1>0, <2>1, SubSeqProperties
  <2>4. front \in Seq(Row)
    BY <1>0, <2>1, SubSeqProperties
  <2> HIDE DEF front
  <2> QED BY <1>0, <2>2, <2>3, <2>4
<1>2. /\ back \in Seq(Row) /\ Len(back) = Len(s) - k
      /\ \A i \in 1..(Len(s) - k) : back[i] = s[k + i]
  <2>1. \A i \in (k + 1)..Len(s) : s[i] \in Row
    BY <1>0
  <2>2. Len(back) = IF k + 1 <= Len(s) THEN Len(s) - (k + 1) + 1 ELSE 0
    BY <1>0, <2>1, SubSeqProperties
  <2>3. \A i \in 1..(Len(s) - (k + 1) + 1) : back[i] = s[(k + 1) + i - 1]
    BY <1>0, <2>1, SubSeqProperties
  <2>4. back \in Seq(Row)
    BY <1>0, <2>1, SubSeqProperties
  <2> HIDE DEF back
  <2>5. ASSUME NEW i \in 1..(Len(s) - k) PROVE back[i] = s[k + i]
    <3>1. i \in 1..(Len(s) - (k + 1) + 1) /\ (k + 1) + i - 1 = k + i
      BY <1>0
    <3> QED BY <2>3, <3>1
  <2> QED BY <1>0, <2>2, <2>4, <2>5
<1>3. RemoveAt(s, k) = front \o back
  BY DEF RemoveAt
<1> HIDE DEF front, back
<1>4. /\ front \o back \in Seq(Row) /\ Len(front \o back) = Len(s) - 1
      /\ \A i \in 1..(Len(s) - 1) :
           (front \o back)[i] = IF i <= k - 1 THEN front[i] ELSE back[i - (k - 1)]
  <2>1. Len(front) + Len(back) = Len(s) - 1
    BY <1>0, <1>1, <1>2
  <2>2. /\ front \o back \in Seq(Row) /\ Len(front \o back) = Len(front) + Len(back)
        /\ \A i \in 1..(Len(front) + Len(back)) :
             (front \o back)[i] = IF i <= Len(front) THEN front[i] ELSE back[i - Len(front)]
    BY <1>1, <1>2, ConcatProperties
  <2> QED BY <1>1, <2>1, <2>2
<1>5. ASSUME NEW j \in 1..(Len(s) - 1)
      PROVE  (front \o back)[j] = IF j < k THEN s[j] ELSE s[j + 1]
  <2>1. CASE j < k
    BY <1>0, <1>1, <1>4, <2>1
  <2>2. CASE ~(j < k)
    <3>1. j - (k - 1) \in 1..(Len(s) - k) /\ k + (j - (k - 1)) = j + 1
      BY <1>0, <2>2
    <3>2. back[j - (k - 1)] = s[j + 1]
      BY <1>2, <3>1
    <3> QED BY <1>0, <1>4, <2>2, <3>2
  <2> QED BY <2>1, <2>2
<1> QED BY <1>3, <1>4, <1>5 DEF LacksAt

\* Deleting a row takes it out of the table, if it is there.
LEMMA WithoutLacks ==
  ASSUME NEW id, inbox \in Seq(Row)
  PROVE  \/ Without(id) = inbox /\ \A k \in 1..Len(inbox) : inbox[k].id # id
         \/ \E k \in 1..Len(inbox) : inbox[k].id = id /\ LacksAt(Without(id), inbox, k)
<1> DEFINE I == {i \in 1..Len(inbox) : inbox[i].id = id}
<1>1. Without(id) = IF \E i \in 1..Len(inbox) : inbox[i].id = id
                    THEN RemoveAt(inbox, IF I # {} THEN Min(I) ELSE 0) ELSE inbox
  BY DEF Without, RemoveFirstMatch, SelectInSeq
<1>2. I # {} => Min(I) \in I
  <2>1. I \in SUBSET Nat
    OBVIOUS
  <2>2. I # {} => \E x \in I : \A y \in I : x <= y
    BY <2>1, Least
  <2> HIDE DEF I
  <2> QED BY <2>2 DEF Min
<1>3. CASE I = {}
  BY <1>1, <1>3
<1>4. CASE I # {}
  <2>1. Without(id) = RemoveAt(inbox, Min(I))
    BY <1>1, <1>4
  <2>2. Min(I) \in 1..Len(inbox) /\ inbox[Min(I)].id = id
    BY <1>2, <1>4
  <2> HIDE DEF I
  <2> QED BY <2>1, <2>2, RemoveLacks
<1> QED BY <1>3, <1>4

\* The rows of a delivery are rows of the table, and none is missing.
LEMMA RowsRead ==
  ASSUME NEW delivery, inbox \in Seq(Row)
  PROVE  /\ Rows(delivery) \in Seq(Row)
         /\ \A i \in 1..Len(Rows(delivery)) : Rows(delivery)[i] \in Pending
                                              /\ Rows(delivery)[i].delivery = delivery
         /\ Rows(delivery) = <<>> <=> \A r \in Pending : r.delivery # delivery
<1> DEFINE t == Rows(delivery)
<1>1. PICK g : Chosen(t, g, inbox, delivery, Len(inbox))
  BY RowsChosen
<1> HIDE DEF t
<1>2. t \in Seq(Row) /\ DOMAIN inbox = 1..Len(inbox) /\ g \in [1..Len(t) -> 1..Len(inbox)]
  BY <1>1 DEF Chosen
<1>3. \A i \in 1..Len(t) : t[i] \in Pending /\ t[i].delivery = delivery
  BY <1>1, <1>2 DEF Chosen, Pending, ToSet
<1>4. ASSUME t = <<>>, NEW r \in Pending PROVE r.delivery # delivery
  <2>1. PICK k \in 1..Len(inbox) : r = inbox[k]
    BY <1>2 DEF Pending, ToSet
  <2>2. Len(t) = 0
    BY <1>4
  <2> QED BY <1>1, <2>1, <2>2 DEF Chosen
<1>5. ASSUME t # <<>> PROVE 1 \in 1..Len(t)
  BY <1>2, <1>5, EmptySeq
<1> QED BY <1>2, <1>3, <1>4, <1>5 DEF t

\* The steers as they are read: in order, or with the first control, a
\* compaction, in front of the prompts before it.
Pulled(c) ==
  LET steers == Rows("steer")
  IN  /\ c \in 2..Len(steers) /\ steers[c].type = "compaction"
      /\ \A j \in 1..(c - 1) : ~IsControl(steers[j])
      /\ Head(PendingSteers) = steers[c]

\* What the promotion of steers reads: the pending steers, in order or with a control row
\* pulled to the front.
LEMMA SteersRead ==
  ASSUME inbox \in Seq(Row)
  PROVE  /\ PendingSteers \in Seq(Row)
         /\ \A i \in 1..Len(PendingSteers) : PendingSteers[i] \in Pending
                                            /\ PendingSteers[i].delivery = "steer"
         /\ PendingSteers = <<>> <=> \A r \in Pending : r.delivery # "steer"
         /\ PendingSteers = Rows("steer") \/ \E c \in Nat : Pulled(c)
<1> DEFINE steers == Rows("steer")
           control == SelectInSeq(steers, IsControl)
           front == <<steers[control]>>
           rest == RemoveAt(steers, control)
<1>1. /\ steers \in Seq(Row)
      /\ \A i \in 1..Len(steers) : steers[i] \in Pending /\ steers[i].delivery = "steer"
      /\ steers = <<>> <=> \A r \in Pending : r.delivery # "steer"
  BY RowsRead
<1>2. CASE ~(control > 1 /\ steers[control].type = "compaction")
  <2>1. PendingSteers = steers
    BY <1>2 DEF PendingSteers
  <2> HIDE DEF steers
  <2> QED BY <1>1, <2>1 DEF steers
<1>3. CASE control > 1 /\ steers[control].type = "compaction"
  <2>1. PendingSteers = front \o rest
    BY <1>3 DEF PendingSteers
  <2>2. /\ control \in 2..Len(steers)
        /\ \A j \in 1..(control - 1) : ~IsControl(steers[j])
    <3>1. /\ control \in 0..Len(steers)
          /\ control # 0 => \A j \in 1..(control - 1) : ~IsControl(steers[j])
      <4>1. steers \in Seq(Row)
        BY <1>1
      <4> HIDE DEF steers
      <4> QED BY <4>1, FirstControl
    <3>2. control > 1
      BY <1>3
    <3> HIDE DEF steers, control
    <3> QED BY <3>1, <3>2
  <2> HIDE DEF steers, control
  <2>3. LacksAt(rest, steers, control)
    BY <1>1, <2>2, RemoveLacks
  <2>4. front \in Seq(Row) /\ Len(front) = 1 /\ front[1] = steers[control] /\ rest \in Seq(Row)
        /\ Len(rest) \in Nat
    BY <1>1, <2>2, <2>3 DEF LacksAt
  <2>5. \A j \in 1..Len(rest) : \E i \in 1..Len(steers) : rest[j] = steers[i]
    <3> SUFFICES ASSUME NEW j \in 1..Len(rest) PROVE \E i \in 1..Len(steers) : rest[j] = steers[i]
      OBVIOUS
    <3>1. Len(rest) = Len(steers) - 1 /\ Len(steers) \in Nat
      BY <1>1, <2>3 DEF LacksAt
    <3>2. j \in 1..Len(steers) /\ j + 1 \in 1..Len(steers)
      BY <2>4, <3>1
    <3> HIDE DEF rest
    <3> QED BY <2>3, <3>2 DEF LacksAt
  <2> HIDE DEF front, rest
  <2>6. /\ front \o rest \in Seq(Row) /\ Len(front \o rest) = Len(front) + Len(rest)
        /\ \A i \in 1..(Len(front) + Len(rest)) :
             (front \o rest)[i] = IF i <= Len(front) THEN front[i] ELSE rest[i - Len(front)]
    BY <2>4, ConcatProperties
  <2>7. ASSUME NEW i \in 1..Len(PendingSteers)
        PROVE  \E k \in 1..Len(steers) : PendingSteers[i] = steers[k]
    <3>1. CASE i = 1
      BY <2>1, <2>2, <2>4, <2>6, <3>1
    <3>2. CASE i # 1
      <4>1. i - 1 \in 1..Len(rest) /\ PendingSteers[i] = rest[i - 1]
        BY <2>1, <2>4, <2>6, <3>2
      <4> QED BY <2>5, <4>1
    <3> QED BY <3>1, <3>2
  <2>8. PendingSteers # <<>> /\ Head(PendingSteers) = steers[control]
    <3>1. Len(PendingSteers) # 0 /\ PendingSteers[1] = steers[control]
      BY <2>1, <2>4, <2>6
    <3> QED BY <2>1, <2>6, <3>1
  <2>9. steers # <<>>
    BY <1>1, <2>2, EmptySeq
  <2>10. Pulled(control)
    BY <1>3, <2>2, <2>8 DEF Pulled, steers
  <2>11. \A i \in 1..Len(PendingSteers) : PendingSteers[i] \in Pending
                                           /\ PendingSteers[i].delivery = "steer"
    BY <1>1, <2>7 DEF steers
  <2>12. PendingSteers \in Seq(Row)
    BY <2>1, <2>6
  <2>13. \E c \in Nat : Pulled(c)
    BY <2>2, <2>10
  <2>14. ~\A r \in Pending : r.delivery # "steer"
    BY <1>1, <2>9 DEF steers
  <2> QED BY <2>8, <2>11, <2>12, <2>13, <2>14
<1> QED BY <1>2, <1>3

\* BeforeControl keeps a prefix without controls.
LEMMA BeforeControlPrefix ==
  ASSUME NEW s \in Seq(Row)
  PROVE  /\ BeforeControl(s) \in Seq(Row) /\ Len(BeforeControl(s)) <= Len(s)
         /\ \A i \in 1..Len(BeforeControl(s)) : BeforeControl(s)[i] = s[i] /\ ~IsControl(s[i])
<1> DEFINE c == SelectInSeq(s, IsControl)
<1>1. /\ c \in 0..Len(s)
      /\ c # 0 => \A j \in 1..(c - 1) : ~IsControl(s[j])
      /\ c = 0 => \A j \in 1..Len(s) : ~IsControl(s[j])
  BY FirstControl
<1>2. BeforeControl(s) = IF c = 0 THEN s ELSE SubSeq(s, 1, c - 1)
  BY DEF BeforeControl
<1> HIDE DEF c
<1>3. CASE c = 0
  BY <1>1, <1>2, <1>3
<1>4. CASE c # 0
  <2>1. \A i \in 1..(c - 1) : s[i] \in Row
    BY <1>1, <1>4
  <2>2. 1 \in Int /\ c - 1 \in Int /\ (c - 1) - 1 + 1 = c - 1
    BY <1>1
  <2> DEFINE t == SubSeq(s, 1, c - 1)
  <2>3. /\ t \in Seq(Row) /\ Len(t) = IF 1 <= c - 1 THEN c - 1 - 1 + 1 ELSE 0
        /\ \A i \in 1..((c - 1) - 1 + 1) : t[i] = s[1 + i - 1]
    BY <2>1, <2>2, SubSeqProperties
  <2>4. BeforeControl(s) = t
    BY <1>2, <1>4
  <2> HIDE DEF t
  <2>5. Len(t) = c - 1
    BY <1>1, <1>4, <2>3
  <2>6. ASSUME NEW i \in 1..Len(t) PROVE t[i] = s[i]
    <3>1. i \in 1..((c - 1) - 1 + 1) /\ 1 + i - 1 = i
      BY <2>2, <2>5
    <3> QED BY <2>3, <3>1
  <2>7. Len(t) <= Len(s)
    BY <1>1, <2>5
  <2>8. \A i \in 1..Len(t) : ~IsControl(s[i])
    BY <1>1, <1>4, <2>5
  <2> QED BY <2>3, <2>4, <2>6, <2>7, <2>8
<1> QED BY <1>3, <1>4

-----------------------------------------------------------------------------
(* The inductive invariant *)

\* The tables: pending rows s, delivered rows h.
Tables(s, h) ==
  /\ s \in Seq(Row) /\ h \in Seq(Row)
  /\ \A i, j \in 1..Len(s) : s[i].id = s[j].id => i = j
  /\ \A i, j \in 1..Len(h) : h[i].id = h[j].id => i = j
  /\ \A i \in 1..Len(s), j \in 1..Len(h) : s[i].id # h[j].id
  /\ \A i, j \in 1..Len(s) : s[i].type = "compaction" /\ s[j].type = "compaction" => i = j

\* Each of these rows is the g-th of table s; they are in its order, and they
\* leave out no earlier row of their delivery.
Reads(rows, g, s) ==
  /\ rows \in Seq(Row) /\ g \in [1..Len(rows) -> 1..Len(s)]
  /\ \A i \in 1..Len(rows) : rows[i] = s[g[i]] /\ ~IsControl(rows[i])
  /\ \A i, j \in 1..Len(rows) : i < j => g[i] < g[j]
  /\ \A i \in 1..Len(rows) : \A k \in 1..Len(s) :
       k < g[i] /\ s[k].delivery = rows[i].delivery => \E j \in 1..Len(rows) : g[j] = k

\* Who holds the lock: a promotion or one client's compaction, nobody else.
LockOwned ==
  /\ promotion.stage = "none" => promotion = NoPromotion
  /\ promotion # NoPromotion => locked
  /\ \A c \in Clients : request[c].state = "compacting" =>
       /\ locked /\ promotion = NoPromotion
       /\ \A d \in Clients : request[d].state = "compacting" => d = c
       /\ request[c].item.type = "compaction"
       /\ \A i \in 1..Len(inbox) : inbox[i].type # "compaction"
  /\ \A c \in Clients : request[c].state = "admitting" => request[c].item.type \in Prompts

\* What the promotion that holds the lock read is still so; it read steers,
\* or one queued row after which it reads the steers.
ReadsHold ==
  /\ \E g : Reads(promotion.rows, g, inbox)
  /\ \A i \in 1..Len(promotion.rows) : promotion.rows[i].delivery = "steer" \/ promotion.more

Inv == InboxTypeOK /\ Tables(inbox, history) /\ LockOwned /\ ReadsHold

-----------------------------------------------------------------------------
(* What a change of the tables preserves *)

\* Rows of a table are pending, and pending rows are in it.
LEMMA PendingRows ==
  ASSUME inbox \in Seq(Row)
  PROVE  /\ Len(inbox) \in Nat /\ \A i \in 1..Len(inbox) : inbox[i] \in Row /\ inbox[i] \in Pending
         /\ \A r \in Pending : \E i \in 1..Len(inbox) : r = inbox[i]
BY DEF Pending, ToSet

\* Delivered rows are those of the history.
LEMMA DeliveredRows ==
  ASSUME history \in Seq(Row)
  PROVE  \A i \in 1..Len(history) : history[i] \in Delivered
BY DEF Delivered, ToSet

\* An admission with a fresh ID, and not a second compaction.
LEMMA Enqueued ==
  ASSUME NEW s, NEW h, Tables(s, h), NEW row \in Row,
         \A i \in 1..Len(s) : s[i].id # row.id,
         \A i \in 1..Len(h) : h[i].id # row.id,
         row.type = "compaction" => \A i \in 1..Len(s) : s[i].type # "compaction"
  PROVE  Tables(Append(s, row), h)
<1> DEFINE t == Append(s, row)
<1>0. s \in Seq(Row) /\ h \in Seq(Row) /\ Len(s) \in Nat
  BY DEF Tables
<1>1. /\ t \in Seq(Row) /\ Len(t) = Len(s) + 1 /\ t[Len(s) + 1] = row
      /\ \A i \in 1..Len(s) : t[i] = s[i]
  BY <1>0, AppendProperties
<1>2. \A i \in 1..Len(t) : i = Len(s) + 1 \/ i \in 1..Len(s)
  BY <1>0, <1>1
<1> HIDE DEF t
<1>3. ASSUME NEW i \in 1..Len(t), NEW j \in 1..Len(t), t[i].id = t[j].id PROVE i = j
  <2>1. i \in 1..Len(s) /\ j \in 1..Len(s) => i = j
    BY <1>1, <1>3 DEF Tables
  <2>2. i \in 1..Len(s) => j # Len(s) + 1
    BY <1>1, <1>3
  <2>3. j \in 1..Len(s) => i # Len(s) + 1
    BY <1>1, <1>3
  <2> QED BY <1>2, <2>1, <2>2, <2>3
<1>4. ASSUME NEW i \in 1..Len(t), NEW j \in 1..Len(h) PROVE t[i].id # h[j].id
  <2>1. i \in 1..Len(s) => t[i].id # h[j].id
    BY <1>1 DEF Tables
  <2> QED BY <1>1, <1>2, <2>1
<1>5. ASSUME NEW i \in 1..Len(t), NEW j \in 1..Len(t), t[i].type = "compaction", t[j].type = "compaction"
      PROVE  i = j
  <2>1. i \in 1..Len(s) /\ j \in 1..Len(s) => i = j
    BY <1>1, <1>5 DEF Tables
  <2>2. i \in 1..Len(s) => j # Len(s) + 1
    BY <1>1, <1>5
  <2>3. j \in 1..Len(s) => i # Len(s) + 1
    BY <1>1, <1>5
  <2> QED BY <1>2, <2>1, <2>2, <2>3
<1>6. \A i, j \in 1..Len(h) : h[i].id = h[j].id => i = j
  BY DEF Tables
<1> QED BY <1>0, <1>1, <1>3, <1>4, <1>5, <1>6 DEF Tables, t

\* The place in s of the j-th row of s without its k-th row.
Back(j, k) == IF j < k THEN j ELSE j + 1

\* Back is an increasing map onto the other places.
LEMMA BackMaps ==
  ASSUME NEW n \in Nat, NEW k \in 1..n
  PROVE  /\ \A j \in 1..(n - 1) : Back(j, k) \in 1..n /\ Back(j, k) # k
         /\ \A i, j \in 1..(n - 1) : Back(i, k) = Back(j, k) => i = j
         /\ \A i, j \in 1..(n - 1) : i < j <=> Back(i, k) < Back(j, k)
BY DEF Back

\* The rows of a table after the deletion of the k-th.
LEMMA LacksRows ==
  ASSUME NEW s \in Seq(Row), NEW t, NEW k, LacksAt(t, s, k)
  PROVE  /\ t \in Seq(Row) /\ Len(s) \in Nat /\ k \in 1..Len(s) /\ Len(t) = Len(s) - 1
         /\ \A j \in 1..Len(t) : /\ t[j] = s[Back(j, k)]
                                 /\ Back(j, k) \in 1..Len(s) /\ Back(j, k) # k
<1>1. t \in Seq(Row) /\ Len(s) \in Nat /\ k \in 1..Len(s) /\ Len(t) = Len(s) - 1
  BY DEF LacksAt
<1>2. \A j \in 1..Len(t) : t[j] = s[Back(j, k)]
  BY DEF LacksAt, Back
<1> QED BY <1>1, <1>2, BackMaps

\* A cancellation.
LEMMA Deleted ==
  ASSUME NEW s, NEW h, NEW t, NEW k, Tables(s, h), LacksAt(t, s, k)
  PROVE  Tables(t, h)
<1>1. s \in Seq(Row) /\ h \in Seq(Row)
  BY DEF Tables
<1>2. /\ t \in Seq(Row) /\ Len(s) \in Nat /\ k \in 1..Len(s) /\ Len(t) = Len(s) - 1
      /\ \A j \in 1..Len(t) : t[j] = s[Back(j, k)] /\ Back(j, k) \in 1..Len(s) /\ Back(j, k) # k
  BY <1>1, LacksRows
<1>3. \A i, j \in 1..Len(t) : Back(i, k) = Back(j, k) => i = j
  BY <1>2, BackMaps
<1>4. ASSUME NEW i \in 1..Len(t), NEW j \in 1..Len(t), t[i].id = t[j].id PROVE i = j
  <2>1. Back(i, k) = Back(j, k)
    BY <1>2, <1>4 DEF Tables
  <2> QED BY <1>3, <2>1
<1>5. ASSUME NEW i \in 1..Len(t), NEW j \in 1..Len(t), t[i].type = "compaction", t[j].type = "compaction"
      PROVE  i = j
  <2>1. Back(i, k) = Back(j, k)
    BY <1>2, <1>5 DEF Tables
  <2> QED BY <1>3, <2>1
<1>6. \A i \in 1..Len(t), j \in 1..Len(h) : t[i].id # h[j].id
  BY <1>2 DEF Tables
<1>7. \A i, j \in 1..Len(h) : h[i].id = h[j].id => i = j
  BY DEF Tables
<1> QED BY <1>1, <1>2, <1>4, <1>5, <1>6, <1>7 DEF Tables

\* A delivery.
LEMMA Moved ==
  ASSUME NEW s, NEW h, NEW t, NEW k, Tables(s, h), LacksAt(t, s, k)
  PROVE  Tables(t, Append(h, s[k]))
<1> DEFINE u == Append(h, s[k])
<1>1. s \in Seq(Row) /\ h \in Seq(Row) /\ Len(h) \in Nat
  BY DEF Tables
<1>2. /\ t \in Seq(Row) /\ Len(s) \in Nat /\ k \in 1..Len(s) /\ Len(t) = Len(s) - 1
      /\ \A j \in 1..Len(t) : t[j] = s[Back(j, k)] /\ Back(j, k) \in 1..Len(s) /\ Back(j, k) # k
  BY <1>1, LacksRows
<1>3. Tables(t, h)
  BY Deleted
<1>4. s[k] \in Row
  BY <1>1, <1>2
<1>5. /\ u \in Seq(Row) /\ Len(u) = Len(h) + 1 /\ u[Len(h) + 1] = s[k]
      /\ \A i \in 1..Len(h) : u[i] = h[i]
  BY <1>1, <1>4, AppendProperties
<1>6. \A i \in 1..Len(u) : i = Len(h) + 1 \/ i \in 1..Len(h)
  BY <1>1, <1>5
<1> HIDE DEF u
<1>7. ASSUME NEW i \in 1..Len(u), NEW j \in 1..Len(u), u[i].id = u[j].id PROVE i = j
  <2>1. i \in 1..Len(h) /\ j \in 1..Len(h) => i = j
    BY <1>5, <1>7 DEF Tables
  <2>2. i \in 1..Len(h) => j # Len(h) + 1
    BY <1>2, <1>5, <1>7 DEF Tables
  <2>3. j \in 1..Len(h) => i # Len(h) + 1
    BY <1>2, <1>5, <1>7 DEF Tables
  <2> QED BY <1>6, <2>1, <2>2, <2>3
<1>8. ASSUME NEW i \in 1..Len(t), NEW j \in 1..Len(u) PROVE t[i].id # u[j].id
  <2>1. j \in 1..Len(h) => t[i].id # u[j].id
    BY <1>3, <1>5 DEF Tables
  <2>2. t[i].id # s[k].id
    BY <1>2 DEF Tables
  <2> QED BY <1>5, <1>6, <2>1, <2>2
<1>9. /\ \A i, j \in 1..Len(t) : t[i].id = t[j].id => i = j
      /\ \A i, j \in 1..Len(t) : t[i].type = "compaction" /\ t[j].type = "compaction" => i = j
  BY <1>3 DEF Tables
<1> QED BY <1>2, <1>5, <1>7, <1>8, <1>9 DEF Tables, u

\* A change of delivery.
LEMMA Changed ==
  ASSUME NEW s, NEW h, Tables(s, h), NEW id, NEW to \in Delivery,
         NEW t, t = [i \in DOMAIN s |-> IF s[i].id = id THEN Redelivered(s[i], to) ELSE s[i]]
  PROVE  Tables(t, h)
<1>1. s \in Seq(Row) /\ h \in Seq(Row) /\ Len(s) \in Nat /\ DOMAIN s = 1..Len(s)
  BY DEF Tables
<1>2. \A i \in 1..Len(s) : s[i] \in Row
  BY <1>1
<1>3. ASSUME NEW i \in 1..Len(s)
      PROVE  t[i] \in Row /\ t[i].id = s[i].id /\ t[i].type = s[i].type
  <2>1. t[i] = IF s[i].id = id THEN [s[i] EXCEPT !.delivery = to] ELSE s[i]
    BY <1>1 DEF Redelivered
  <2>2. s[i] \in [id : Ids, type : Types, delivery : Delivery]
    BY <1>2 DEF Row
  <2> QED BY <2>1, <2>2 DEF Row
<1>4. t \in Seq(Row) /\ Len(t) = Len(s)
  <2>1. t \in [1..Len(s) -> Row]
    BY <1>1, <1>3
  <2> QED BY <1>1, <2>1
<1>5. ASSUME NEW i \in 1..Len(t), NEW j \in 1..Len(t), t[i].id = t[j].id PROVE i = j
  <2>1. s[i].id = s[j].id
    BY <1>3, <1>4, <1>5
  <2> QED BY <1>4, <2>1 DEF Tables
<1>6. ASSUME NEW i \in 1..Len(t), NEW j \in 1..Len(t), t[i].type = "compaction", t[j].type = "compaction"
      PROVE  i = j
  <2>1. s[i].type = "compaction" /\ s[j].type = "compaction"
    BY <1>3, <1>4, <1>6
  <2> QED BY <1>4, <2>1 DEF Tables
<1>7. ASSUME NEW i \in 1..Len(t), NEW j \in 1..Len(h) PROVE t[i].id # h[j].id
  <2>1. t[i].id = s[i].id /\ i \in 1..Len(s)
    BY <1>3, <1>4
  <2> QED BY <2>1 DEF Tables
<1>8. \A i, j \in 1..Len(h) : h[i].id = h[j].id => i = j
  BY DEF Tables
<1> QED BY <1>1, <1>4, <1>5, <1>6, <1>7, <1>8 DEF Tables

-----------------------------------------------------------------------------
(* What a promotion read *)

\* No row is read.
LEMMA ReadsNothing ==
  ASSUME NEW s
  PROVE  \E g : Reads(<<>>, g, s)
<1>1. Reads(<<>>, [i \in 1..0 |-> 0], s)
  BY DEF Reads
<1> QED BY <1>1

\* A row admitted meanwhile stands behind.
LEMMA ReadsAppend ==
  ASSUME NEW s \in Seq(Row), NEW row \in Row, NEW rows, NEW g, Reads(rows, g, s)
  PROVE  Reads(rows, g, Append(s, row))
<1> DEFINE t == Append(s, row)
<1>1. /\ t \in Seq(Row) /\ Len(t) = Len(s) + 1 /\ \A i \in 1..Len(s) : t[i] = s[i]
  BY AppendProperties
<1>2. rows \in Seq(Row) /\ g \in [1..Len(rows) -> 1..Len(s)] /\ Len(s) \in Nat
  BY DEF Reads
<1> HIDE DEF t
<1>3. g \in [1..Len(rows) -> 1..Len(t)]
  BY <1>1, <1>2
<1>4. \A i \in 1..Len(rows) : rows[i] = t[g[i]] /\ ~IsControl(rows[i])
  BY <1>1, <1>2 DEF Reads
<1>5. ASSUME NEW i \in 1..Len(rows), NEW k \in 1..Len(t), k < g[i], t[k].delivery = rows[i].delivery
      PROVE  \E j \in 1..Len(rows) : g[j] = k
  <2>1. k \in 1..Len(s)
    BY <1>1, <1>2, <1>5
  <2> QED BY <1>1, <1>5, <2>1 DEF Reads
<1>6. \A i, j \in 1..Len(rows) : i < j => g[i] < g[j]
  BY DEF Reads
<1> QED BY <1>2, <1>3, <1>4, <1>5, <1>6 DEF Reads, t

\* The first row is delivered: the others are still there.
LEMMA ReadsDeliver ==
  ASSUME NEW s \in Seq(Row), NEW rows, NEW g, Reads(rows, g, s), rows # <<>>,
         NEW t, LacksAt(t, s, g[1])
  PROVE  \E h : Reads(Tail(rows), h, t)
<1> DEFINE rest == Tail(rows)
           h == [i \in 1..Len(rest) |-> g[i + 1] - 1]
<1>1. /\ rows \in Seq(Row) /\ g \in [1..Len(rows) -> 1..Len(s)]
      /\ \A i, j \in 1..Len(rows) : i < j => g[i] < g[j]
      /\ \A i \in 1..Len(rows) : rows[i] = s[g[i]] /\ ~IsControl(rows[i])
  BY DEF Reads
<1>2. /\ rest \in Seq(Row) /\ Len(rest) = Len(rows) - 1
      /\ \A i \in 1..Len(rest) : rest[i] = rows[i + 1]
  BY <1>1, HeadTailProperties
<1>3. /\ t \in Seq(Row) /\ Len(s) \in Nat /\ g[1] \in 1..Len(s) /\ Len(t) = Len(s) - 1
      /\ \A j \in 1..Len(t) : t[j] = s[Back(j, g[1])]
  BY LacksRows
<1>4. Len(rows) \in Nat /\ Len(rows) >= 1 /\ Len(rest) \in Nat
  BY <1>1, <1>2, EmptySeq
<1> HIDE DEF rest
<1>5. ASSUME NEW i \in 1..Len(rest)
      PROVE  /\ i + 1 \in 1..Len(rows) /\ h[i] = g[i + 1] - 1
             /\ g[1] \in Nat /\ g[i + 1] \in Nat /\ g[1] < g[i + 1] /\ h[i] \in 1..Len(t)
             /\ Back(h[i], g[1]) = g[i + 1]
  <2>1. i + 1 \in 1..Len(rows) /\ 1 \in 1..Len(rows) /\ 1 < i + 1 /\ h[i] = g[i + 1] - 1
    BY <1>2, <1>4
  <2>2. g[1] \in 1..Len(s) /\ g[i + 1] \in 1..Len(s) /\ g[1] < g[i + 1]
    BY <1>1, <2>1
  <2> HIDE DEF h
  <2>3. h[i] \in 1..Len(t) /\ ~(h[i] < g[1]) /\ h[i] + 1 = g[i + 1]
    BY <1>3, <2>1, <2>2
  <2>4. Back(h[i], g[1]) = g[i + 1]
    BY <2>3 DEF Back
  <2> QED BY <2>1, <2>2, <2>3, <2>4
<1>6. h \in [1..Len(rest) -> 1..Len(t)]
  BY <1>5
<1> HIDE DEF h
<1>7. ASSUME NEW i \in 1..Len(rest) PROVE rest[i] = t[h[i]] /\ ~IsControl(rest[i])
  <2>1. rest[i] = rows[i + 1] /\ rows[i + 1] = s[g[i + 1]] /\ ~IsControl(rows[i + 1])
    BY <1>1, <1>2, <1>5
  <2>2. t[h[i]] = s[g[i + 1]]
    BY <1>3, <1>5
  <2> QED BY <2>1, <2>2
<1>8. ASSUME NEW i \in 1..Len(rest), NEW j \in 1..Len(rest), i < j PROVE h[i] < h[j]
  <2>1. g[i + 1] < g[j + 1]
    BY <1>1, <1>4, <1>5, <1>8
  <2> QED BY <1>5, <2>1
<1>9. ASSUME NEW i \in 1..Len(rest), NEW k \in 1..Len(t), k < h[i], t[k].delivery = rest[i].delivery
      PROVE  \E j \in 1..Len(rest) : h[j] = k
  <2>1. Back(k, g[1]) \in 1..Len(s) /\ t[k] = s[Back(k, g[1])] /\ Back(k, g[1]) # g[1]
    BY <1>3, BackMaps
  <2>2. Back(k, g[1]) < g[i + 1]
    BY <1>3, <1>5, <1>9 DEF Back
  <2>3. PICK j \in 1..Len(rows) : g[j] = Back(k, g[1])
    BY <1>2, <1>5, <1>9, <2>1, <2>2, ZenonT(40) DEF Reads
  <2>4. j # 1
    BY <2>1, <2>3
  <2>5. j \in Nat /\ j - 1 \in 1..Len(rest) /\ (j - 1) + 1 = j
    BY <1>2, <1>4, <2>4
  <2>6. g[1] < g[j] /\ h[j - 1] = g[j] - 1
    BY <1>5, <2>5
  <2>7. g[j] = k \/ g[j] = k + 1
    BY <2>3 DEF Back
  <2>8. ~(k < g[1])
    BY <1>3, <1>5, <2>3, <2>6 DEF Back
  <2>9. g[j] = k + 1
    BY <2>3, <2>8 DEF Back
  <2> QED BY <2>5, <2>6, <2>9
<1>10. Reads(rest, h, t)
  BY <1>2, <1>6, <1>7, <1>8, <1>9 DEF Reads
<1> QED BY <1>10 DEF rest

\* The first rows of a delivery, up to a control.
LEMMA ReadsPrefix ==
  ASSUME NEW t, NEW g, NEW s \in Seq(Row), NEW delivery, Chosen(t, g, s, delivery, Len(s)),
         NEW p \in Seq(Row), Len(p) <= Len(t),
         \A i \in 1..Len(p) : p[i] = t[i] /\ ~IsControl(t[i])
  PROVE  \E h : Reads(p, h, s)
<1> DEFINE h == [i \in 1..Len(p) |-> g[i]]
<1>1. /\ t \in Seq(Row) /\ g \in [1..Len(t) -> 1..Len(s)] /\ Len(t) \in Nat /\ Len(p) \in Nat
      /\ Len(s) \in Nat
      /\ \A i \in 1..Len(t) : t[i] = s[g[i]] /\ s[g[i]].delivery = delivery
      /\ \A i, j \in 1..Len(t) : i < j => g[i] < g[j]
      /\ \A k \in 1..Len(s) : s[k].delivery = delivery => \E i \in 1..Len(t) : g[i] = k
  BY DEF Chosen
<1>2. \A i \in 1..Len(p) : i \in 1..Len(t) /\ h[i] = g[i]
  BY <1>1
<1>3. h \in [1..Len(p) -> 1..Len(s)]
  BY <1>1, <1>2
<1> HIDE DEF h
<1>4. \A i \in 1..Len(p) : p[i] = s[h[i]] /\ ~IsControl(p[i])
  BY <1>1, <1>2
<1>5. \A i, j \in 1..Len(p) : i < j => h[i] < h[j]
  BY <1>1, <1>2
<1>6. ASSUME NEW i \in 1..Len(p), NEW k \in 1..Len(s), k < h[i], s[k].delivery = p[i].delivery
      PROVE  \E j \in 1..Len(p) : h[j] = k
  <2>1. s[k].delivery = delivery
    BY <1>1, <1>2, <1>6
  <2>2. PICK j \in 1..Len(t) : g[j] = k
    BY <1>1, <2>1
  <2>3. g[i] \in 1..Len(s) /\ g[j] < g[i]
    BY <1>1, <1>2, <1>6, <2>2
  <2>4. ~(i < j) /\ i # j
    BY <1>1, <1>2, <2>2, <2>3
  <2>5. j \in 1..Len(p)
    BY <1>1, <2>4
  <2> QED BY <1>2, <2>2, <2>5
<1>7. Reads(p, h, s)
  BY <1>3, <1>4, <1>5, <1>6 DEF Reads
<1> QED BY <1>7

\* The steers promote reads, up to the first control.
LEMMA ReadsSteers ==
  ASSUME inbox \in Seq(Row)
  PROVE  /\ BeforeControl(PendingSteers) \in Seq(Row)
         /\ \E g : Reads(BeforeControl(PendingSteers), g, inbox)
         /\ \A i \in 1..Len(BeforeControl(PendingSteers)) :
              BeforeControl(PendingSteers)[i].delivery = "steer"
<1> DEFINE steers == PendingSteers
           p == BeforeControl(steers)
<1>1. steers \in Seq(Row) /\ \A i \in 1..Len(steers) : steers[i].delivery = "steer"
  BY SteersRead
<1>2. steers = Rows("steer") \/ \E c \in Nat : Pulled(c)
  BY SteersRead
<1> HIDE DEF steers
<1>3. /\ p \in Seq(Row) /\ Len(p) <= Len(steers)
      /\ \A i \in 1..Len(p) : p[i] = steers[i] /\ ~IsControl(steers[i])
  BY <1>1, BeforeControlPrefix
<1> HIDE DEF p
<1>4. \A i \in 1..Len(p) : p[i].delivery = "steer"
  BY <1>1, <1>3
<1>5. CASE steers = Rows("steer")
  <2>1. PICK g : Chosen(steers, g, inbox, "steer", Len(inbox))
    BY <1>5, RowsChosen
  <2>2. \E h : Reads(p, h, inbox)
    BY <1>3, <2>1, ReadsPrefix
  <2> QED BY <1>3, <1>4, <2>2 DEF p, steers
<1>6. CASE \E c \in Nat : Pulled(c)
  <2>1. PICK c \in Nat : Pulled(c)
    BY <1>6
  <2>2. IsControl(Head(steers))
    BY <2>1 DEF Pulled, steers, IsControl, Controls
  <2>3. p = <<>>
    <3>1. SUFFICES ASSUME p # <<>> PROVE FALSE
      OBVIOUS
    <3>2. 1 \in 1..Len(p) /\ Len(p) \in Nat
      BY <1>3, <3>1, EmptySeq
    <3>3. Head(steers) = steers[1]
      BY <1>1, <1>3, <3>2
    <3> QED BY <1>3, <2>2, <3>2, <3>3
  <2>4. \E g : Reads(p, g, inbox)
    BY <2>3, ReadsNothing
  <2> QED BY <1>3, <1>4, <2>4 DEF p, steers
<1> QED BY <1>2, <1>5, <1>6

\* The queued row promote reads when no steer waits.
LEMMA ReadsQueued ==
  ASSUME inbox \in Seq(Row), Rows("queue") # <<>>, ~IsControl(Head(Rows("queue")))
  PROVE  /\ <<Head(Rows("queue"))>> \in Seq(Row)
         /\ \E g : Reads(<<Head(Rows("queue"))>>, g, inbox)
<1> DEFINE t == Rows("queue")
           p == <<Head(t)>>
<1>1. PICK g : Chosen(t, g, inbox, "queue", Len(inbox))
  BY RowsChosen
<1>2. t \in Seq(Row) /\ t # <<>>
  BY <1>1 DEF Chosen
<1>3. ~IsControl(Head(t))
  OBVIOUS
<1> HIDE DEF t
<1>4. Head(t) = t[1] /\ Head(t) \in Row /\ Len(t) \in Nat /\ Len(t) >= 1
  BY <1>2, EmptySeq
<1>5. /\ p \in Seq(Row) /\ Len(p) = 1 /\ p[1] = t[1]
  BY <1>4
<1> HIDE DEF p
<1>6. \A i \in 1..Len(p) : p[i] = t[i] /\ ~IsControl(t[i])
  BY <1>3, <1>4, <1>5
<1>7. \E h : Reads(p, h, inbox)
  BY <1>1, <1>4, <1>5, <1>6, ReadsPrefix
<1> QED BY <1>5, <1>7 DEF p, t

-----------------------------------------------------------------------------
(* Every step preserves the invariant *)

\* What a request holds, and what a call makes of it.
LEMMA RequestSet ==
  ASSUME request \in [Clients -> Request], NEW c \in Clients, NEW state \in RequestStates,
         NEW item \in Row, SetRequest(c, state, item)
  PROVE  /\ request' \in [Clients -> Request]
         /\ request'[c] = [state |-> state, item |-> item]
         /\ \A d \in Clients : d # c => request'[d] = request[d]
BY DEF SetRequest, Request

\* A call is answered.
LEMMA RequestAnswered ==
  ASSUME request \in [Clients -> Request], NEW c \in Clients, NEW state \in {"admitted", "refused"},
         NEW item \in Row, SetRequest(c, state, item)
  PROVE  /\ request' \in [Clients -> Request]
         /\ request'[c].state \in {"admitted", "refused"}
         /\ \A d \in Clients : d # c => request'[d] = request[d]
         /\ \A d \in Clients : request'[d] = request[d]
                               \/ request'[d].state \in {"admitted", "refused"}
<1>1. state \in RequestStates
  BY DEF RequestStates
<1>2. /\ request' \in [Clients -> Request]
      /\ request'[c] = [state |-> state, item |-> item]
      /\ \A d \in Clients : d # c => request'[d] = request[d]
  BY <1>1, RequestSet
<1> QED BY <1>2

\* A request that is not free has an item.
LEMMA RequestItem ==
  ASSUME request \in [Clients -> Request], NEW c \in Clients, request[c].state \in RequestStates
  PROVE  request[c].item \in Row
BY DEF Request, Free, RequestStates

\* An ID that is not recorded is in neither table.
LEMMA NotRecorded ==
  ASSUME inbox \in Seq(Row), history \in Seq(Row), NEW id, Recorded(id) = {}
  PROVE  /\ \A i \in 1..Len(inbox) : inbox[i].id # id
         /\ \A i \in 1..Len(history) : history[i].id # id
BY PendingRows, DeliveredRows DEF Recorded

\* While nobody holds the lock, nothing is in progress under it.
LEMMA UnlockedIdle ==
  ASSUME LockOwned, Unlocked
  PROVE  /\ promotion = NoPromotion /\ ~locked
         /\ \A c \in Clients : request[c].state # "compacting"
BY DEF LockOwned, Unlocked

\* A promotion that publishes holds the lock alone.
LEMMA PromotionAlone ==
  ASSUME LockOwned, promotion.stage # "none"
  PROVE  /\ promotion # NoPromotion /\ locked
         /\ \A c \in Clients : request[c].state # "compacting"
BY DEF LockOwned, NoPromotion

\* The state between promotions.
LEMMA NoPromotionReads ==
  /\ \A s : \E g : Reads(NoPromotion.rows, g, s)
  /\ \A i \in 1..Len(NoPromotion.rows) : FALSE
  /\ NoPromotion \in [stage : {"none", "queued", "publish"}, scope : Promotable \cup {None},
                      rows : Seq(Row), more : BOOLEAN]
BY ReadsNothing DEF NoPromotion

\* The unpacked reading invariant.
Holding(p, s) ==
  /\ \E g : Reads(p.rows, g, s)
  /\ \A i \in 1..Len(p.rows) : p.rows[i].delivery = "steer" \/ p.more

\* An admission that appends its row leaves what was read.
LEMMA HoldingAppend ==
  ASSUME inbox \in Seq(Row), NEW row \in Row, Holding(promotion, inbox)
  PROVE  Holding(promotion, Append(inbox, row))
BY ReadsAppend DEF Holding

\* No promotion holds nothing.
LEMMA HoldingNothing == ASSUME NEW s PROVE Holding(NoPromotion, s)
BY NoPromotionReads DEF Holding

\* Reconcile and Return change one request.
LEMMA ReconcileStep ==
  ASSUME Inv, NEW c \in Clients, NEW item \in Row, Reconcile(c, item)
  PROVE  Inv'
<1>1. UNCHANGED <<inbox, history, locked, promotion>>
  BY DEF Reconcile
<1>2. PICK state \in {"admitting", "admitted", "refused"} : SetRequest(c, state, item)
  BY DEF Reconcile
<1>3. /\ request' \in [Clients -> Request]
      /\ request'[c] = [state |-> state, item |-> item]
      /\ \A d \in Clients : d # c => request'[d] = request[d]
  BY <1>2, RequestSet DEF Inv, InboxTypeOK, RequestStates
<1>4. item.type \in Prompts
  BY DEF Reconcile
<1>5. InboxTypeOK'
  BY <1>1, <1>3 DEF Inv, InboxTypeOK
<1>6. \A d \in Clients : request'[d].state = "compacting" => request[d].state = "compacting"
                           /\ request'[d] = request[d]
  BY <1>3
<1>7. \A d \in Clients : request'[d].state = "admitting" => request'[d].item.type \in Prompts
  BY <1>3, <1>4 DEF Inv, LockOwned
<1>8. LockOwned'
  BY <1>1, <1>6, <1>7 DEF Inv, LockOwned
<1>9. Tables(inbox, history)' /\ ReadsHold'
  BY <1>1 DEF Inv, Tables, ReadsHold, Reads
<1> QED BY <1>5, <1>8, <1>9 DEF Inv

\* Nobody is admitting a compaction: the promotion may have the lock.
LEMMA LockIdle ==
  ASSUME LockOwned,
         \A d \in Clients : request[d].state # "compacting",
         \A d \in Clients : request'[d] = request[d] \/ request'[d].state \in {"free", "admitted", "refused"},
         promotion'.stage = "none" => promotion' = NoPromotion,
         promotion' # NoPromotion => locked'
  PROVE  LockOwned'
<1>1. \A d \in Clients : request'[d].state # "compacting"
  OBVIOUS
<1>2. \A d \in Clients : request'[d].state = "admitting" => request'[d].item.type \in Prompts
  BY DEF LockOwned
<1> QED BY <1>1, <1>2 DEF LockOwned

\* An admission, cancellation or delivery that does not touch who has the lock.
LEMMA LockKept ==
  ASSUME LockOwned, UNCHANGED <<locked, promotion>>,
         \A d \in Clients : request'[d] = request[d] \/ request'[d].state \in {"free", "admitted", "refused"},
         \A i \in 1..Len(inbox') : inbox'[i].type = "compaction" =>
           \E j \in 1..Len(inbox) : inbox[j].type = "compaction"
  PROVE  LockOwned'
<1>1. \A d \in Clients : request'[d].state = "compacting" => request'[d] = request[d]
  OBVIOUS
<1>2. \A d \in Clients : request'[d].state = "admitting" => request'[d].item.type \in Prompts
  BY DEF LockOwned
<1>3. ASSUME NEW d \in Clients, request'[d].state = "compacting"
      PROVE  /\ locked' /\ promotion' = NoPromotion /\ request'[d].item.type = "compaction"
             /\ \A i \in 1..Len(inbox') : inbox'[i].type # "compaction"
             /\ \A e \in Clients : request'[e].state = "compacting" => e = d
  BY <1>1, <1>3 DEF LockOwned
<1>4. (promotion.stage = "none" => promotion = NoPromotion) /\ (promotion # NoPromotion => locked)
  BY DEF LockOwned
<1> QED BY <1>2, <1>3, <1>4 DEF LockOwned

\* The parts of the invariant after a step.
LEMMA InvParts ==
  ASSUME inbox' \in Seq(Row), history' \in Seq(Row), locked' \in BOOLEAN,
         request' \in [Clients -> Request],
         promotion' \in [stage : {"none", "queued", "publish"}, scope : Promotable \cup {None},
                         rows : Seq(Row), more : BOOLEAN],
         Tables(inbox', history'), LockOwned', Holding(promotion', inbox')
  PROVE  Inv'
<1>1. Tables(inbox, history)'
  BY DEF Tables
<1>2. ReadsHold'
  BY DEF Holding, ReadsHold, Reads
<1>3. InboxTypeOK'
  BY DEF InboxTypeOK
<1> QED BY <1>1, <1>2, <1>3 DEF Inv

\* The invariant's parts before it.
LEMMA InvHas ==
  ASSUME Inv
  PROVE  /\ inbox \in Seq(Row) /\ history \in Seq(Row) /\ locked \in BOOLEAN
         /\ request \in [Clients -> Request]
         /\ promotion \in [stage : {"none", "queued", "publish"}, scope : Promotable \cup {None},
                           rows : Seq(Row), more : BOOLEAN]
         /\ Tables(inbox, history) /\ LockOwned /\ Holding(promotion, inbox)
BY DEF Inv, InboxTypeOK, ReadsHold, Holding

\* A client's request returns.
LEMMA ReturnStep ==
  ASSUME Inv, NEW c \in Clients, Return(c)
  PROVE  Inv'
<1>1. UNCHANGED <<inbox, history, locked, promotion>>
  BY DEF Return
<1>2. /\ request' \in [Clients -> Request]
      /\ \A d \in Clients : request'[d] = request[d] \/ request'[d].state = "free"
  BY InvHas DEF Return, Request, Free
<1>3. LockOwned'
  BY <1>1, <1>2, InvHas, LockKept
<1> QED BY <1>1, <1>2, <1>3, InvHas, InvParts

\* A row with a fresh ID that is not a second compaction is appended.
LEMMA EnqueueStep ==
  ASSUME Inv, NEW row \in Row, Recorded(row.id) = {},
         row.type = "compaction" => \A i \in 1..Len(inbox) : inbox[i].type # "compaction",
         inbox' = Append(inbox, row), history' = history
  PROVE  /\ inbox' \in Seq(Row) /\ Tables(inbox', history') /\ Holding(promotion, inbox')
         /\ Len(inbox') = Len(inbox) + 1 /\ inbox'[Len(inbox) + 1] = row
         /\ \A i \in 1..Len(inbox) : inbox'[i] = inbox[i]
<1>1. inbox \in Seq(Row) /\ history \in Seq(Row) /\ Tables(inbox, history) /\ Holding(promotion, inbox)
  BY InvHas
<1>2. /\ \A i \in 1..Len(inbox) : inbox[i].id # row.id
      /\ \A i \in 1..Len(history) : history[i].id # row.id
  BY <1>1, NotRecorded
<1>3. Tables(inbox', history')
  BY <1>1, <1>2, Enqueued
<1>4. Holding(promotion, inbox')
  BY <1>1, HoldingAppend
<1> QED BY <1>1, <1>3, <1>4, AppendProperties

\* An admission appends its row, unless its ID is recorded by now.
LEMMA AdmitStep ==
  ASSUME Inv, NEW c \in Clients, Admit(c)
  PROVE  Inv'
<1> DEFINE item == request[c].item
<1>1. UNCHANGED <<history, locked, promotion>> /\ request[c].state = "admitting"
  BY DEF Admit
<1>2. item \in Row /\ item.type \in Prompts
  BY <1>1, InvHas, RequestItem DEF RequestStates, LockOwned
<1>3. PICK state \in {"admitted", "refused"} : SetRequest(c, state, item)
  BY DEF Admit
<1>4. /\ request' \in [Clients -> Request]
      /\ \A d \in Clients : request'[d] = request[d] \/ request'[d].state \in {"admitted", "refused"}
  BY <1>2, <1>3, InvHas, RequestAnswered
<1>5. CASE Recorded(item.id) = {}
  <2>1. inbox' = Append(inbox, item)
    BY <1>5 DEF Admit
  <2>2. item.type # "compaction"
    BY <1>2 DEF Prompts
  <2> HIDE DEF item
  <2>3. /\ inbox' \in Seq(Row) /\ Tables(inbox', history') /\ Holding(promotion, inbox')
        /\ Len(inbox') = Len(inbox) + 1 /\ inbox'[Len(inbox) + 1] = item
        /\ \A i \in 1..Len(inbox) : inbox'[i] = inbox[i]
    BY <1>1, <1>2, <1>5, <2>1, <2>2, EnqueueStep
  <2>4. Len(inbox) \in Nat
    BY InvHas
  <2>5. ASSUME NEW i \in 1..Len(inbox'), inbox'[i].type = "compaction"
        PROVE  \E j \in 1..Len(inbox) : inbox[j].type = "compaction"
    BY <2>2, <2>3, <2>4, <2>5
  <2>6. LockOwned'
    BY <1>1, <1>4, <2>5, InvHas, LockKept
  <2> QED BY <1>1, <1>4, <2>3, <2>6, InvHas, InvParts
<1>6. CASE Recorded(item.id) # {}
  <2>1. inbox' = inbox
    BY <1>6 DEF Admit
  <2>2. LockOwned'
    BY <1>1, <1>4, <2>1, InvHas, LockKept
  <2> QED BY <1>1, <1>4, <2>1, <2>2, InvHas, InvParts
<1> QED BY <1>5, <1>6

\* A compaction is asked for: it takes the lock if none is pending.
LEMMA AdmitCompactionStep ==
  ASSUME Inv, NEW c \in Clients, NEW item \in Row, AdmitCompaction(c, item)
  PROVE  Inv'
<1>1. UNCHANGED <<inbox, history, promotion>> /\ Unlocked /\ item.type = "compaction"
  BY DEF AdmitCompaction
<1>2. promotion = NoPromotion /\ \A d \in Clients : request[d].state # "compacting"
  BY <1>1, InvHas, UnlockedIdle
<1>3. CASE \E state \in {"admitted", "refused"} : SetRequest(c, state, item) /\ UNCHANGED locked
  <2>1. PICK state \in {"admitted", "refused"} : SetRequest(c, state, item) /\ UNCHANGED locked
    BY <1>3
  <2>2. /\ request' \in [Clients -> Request]
        /\ \A d \in Clients : request'[d] = request[d] \/ request'[d].state \in {"admitted", "refused"}
    BY <2>1, InvHas, RequestAnswered
  <2>3. LockOwned'
    BY <1>1, <2>1, <2>2, InvHas, LockKept
  <2> QED BY <1>1, <2>1, <2>2, <2>3, InvHas, InvParts
<1>4. CASE ~CompactionPending /\ SetRequest(c, "compacting", item) /\ locked' = TRUE
  <2>1. /\ request' \in [Clients -> Request]
        /\ request'[c] = [state |-> "compacting", item |-> item]
        /\ \A d \in Clients : d # c => request'[d] = request[d]
    BY <1>4, InvHas, RequestSet DEF RequestStates
  <2>2. \A i \in 1..Len(inbox) : inbox[i].type # "compaction"
    BY <1>4, InvHas, PendingRows DEF CompactionPending
  <2>3. \A d \in Clients : request'[d].state = "compacting" => d = c
    BY <1>2, <2>1
  <2>4. \A d \in Clients : request'[d].state = "admitting" => request'[d].item.type \in Prompts
    BY <2>1, InvHas DEF LockOwned
  <2>5. LockOwned'
    BY <1>1, <1>2, <1>4, <2>1, <2>2, <2>3, <2>4 DEF LockOwned
  <2> QED BY <1>1, <1>4, <2>1, <2>5, InvHas, InvParts
<1> QED BY <1>3, <1>4 DEF AdmitCompaction

\* A compaction is appended, unless its ID was taken meanwhile, and the lock given back.
LEMMA EnqueueCompactionStep ==
  ASSUME Inv, NEW c \in Clients, EnqueueCompaction(c)
  PROVE  Inv'
<1> DEFINE item == request[c].item
<1>1. /\ UNCHANGED <<history, promotion>> /\ request[c].state = "compacting"
      /\ locked' = FALSE
  BY DEF EnqueueCompaction
<1>2. /\ item \in Row /\ item.type = "compaction" /\ promotion = NoPromotion
      /\ \A d \in Clients : request[d].state = "compacting" => d = c
      /\ \A i \in 1..Len(inbox) : inbox[i].type # "compaction"
  BY <1>1, InvHas, RequestItem DEF RequestStates, LockOwned
<1>3. PICK state \in {"admitted", "refused"} : SetRequest(c, state, item)
  BY DEF EnqueueCompaction
<1>4. /\ request' \in [Clients -> Request]
      /\ request'[c].state \in {"admitted", "refused"}
      /\ \A d \in Clients : d # c => request'[d] = request[d]
  BY <1>2, <1>3, InvHas, RequestAnswered
<1>5. LockOwned'
  <2>1. \A d \in Clients : request'[d].state # "compacting"
    BY <1>2, <1>4
  <2>2. \A d \in Clients : request'[d].state = "admitting" => request'[d].item.type \in Prompts
    BY <1>4, InvHas DEF LockOwned
  <2> QED BY <1>1, <1>2, <2>1, <2>2 DEF LockOwned
<1>6. inbox' \in Seq(Row) /\ Tables(inbox', history') /\ Holding(promotion', inbox')
  <2>1. CASE Recorded(item.id) = {}
    <3>1. inbox' = Append(inbox, item)
      BY <2>1 DEF EnqueueCompaction
    <3> HIDE DEF item
    <3> QED BY <1>1, <1>2, <2>1, <3>1, EnqueueStep
  <2>2. CASE Recorded(item.id) # {}
    <3>1. inbox' = inbox
      BY <2>2 DEF EnqueueCompaction
    <3> QED BY <1>1, <3>1, InvHas
  <2> QED BY <2>1, <2>2
<1> QED BY <1>1, <1>4, <1>5, <1>6, InvHas, InvParts

\* A move is admitted under the lock.
LEMMA AdmitMoveStep ==
  ASSUME Inv, NEW c \in Clients, NEW item \in Row, AdmitMove(c, item)
  PROVE  Inv'
<1>1. /\ UNCHANGED <<history, locked, promotion>> /\ Unlocked /\ item.type = "move"
      /\ Recorded(item.id) = {} /\ inbox' = Append(inbox, item) /\ SetRequest(c, "admitted", item)
  BY DEF AdmitMove
<1>2. promotion = NoPromotion /\ \A d \in Clients : request[d].state # "compacting"
  BY <1>1, InvHas, UnlockedIdle
<1>3. /\ request' \in [Clients -> Request]
      /\ \A d \in Clients : request'[d] = request[d] \/ request'[d].state \in {"admitted", "refused"}
  BY <1>1, InvHas, RequestAnswered
<1>4. LockOwned'
  BY <1>1, <1>2, <1>3, InvHas, LockIdle DEF LockOwned
<1>5. inbox' \in Seq(Row) /\ Tables(inbox', history') /\ Holding(promotion, inbox')
  BY <1>1, EnqueueStep
<1> QED BY <1>1, <1>3, <1>4, <1>5, InvHas, InvParts

\* A pending row is cancelled while nothing is promoted.
LEMMA CancelStep ==
  ASSUME Inv, NEW id \in Ids, Cancel(id)
  PROVE  Inv'
<1>1. /\ UNCHANGED <<history, locked, request, promotion>> /\ Unlocked /\ inbox' = Without(id)
  BY DEF Cancel
<1>2. promotion = NoPromotion /\ \A d \in Clients : request[d].state # "compacting"
  BY <1>1, InvHas, UnlockedIdle
<1>3. inbox' \in Seq(Row) /\ Tables(inbox', history')
  <2>1. inbox \in Seq(Row) /\ Tables(inbox, history)
    BY InvHas
  <2>2. CASE inbox' = inbox
    BY <1>1, <2>1, <2>2
  <2>3. CASE \E k \in 1..Len(inbox) : LacksAt(inbox', inbox, k)
    BY <1>1, <2>1, <2>3, Deleted DEF LacksAt
  <2> QED BY <1>1, <2>1, <2>2, <2>3, WithoutLacks
<1>4. LockOwned'
  BY <1>1, <1>2, InvHas, LockIdle
<1> QED BY <1>1, <1>2, <1>3, <1>4, InvHas, InvParts, HoldingNothing

\* The change of one row's delivery, by steerInbox or queueInbox.
LEMMA RedeliverStep ==
  ASSUME Inv, NEW id, NEW to \in Delivery, ChangeDelivery(id, to),
         request' \in [Clients -> Request],
         \A d \in Clients : request'[d] = request[d] \/ request'[d].state \in {"free", "admitted", "refused"}
  PROVE  Inv'
<1>1. /\ UNCHANGED <<history, locked, promotion>> /\ Unlocked
      /\ inbox' = [i \in DOMAIN inbox |->
                     IF inbox[i].id = id THEN Redelivered(inbox[i], to) ELSE inbox[i]]
  BY DEF ChangeDelivery
<1>2. promotion = NoPromotion /\ \A d \in Clients : request[d].state # "compacting"
  BY <1>1, InvHas, UnlockedIdle
<1>3. Tables(inbox', history')
  <2>1. Tables(inbox, history)
    BY InvHas
  <2>2. Tables(inbox', history)
    BY <1>1, <2>1, Changed
  <2> QED BY <1>1, <2>2
<1>4. inbox' \in Seq(Row)
  BY <1>3 DEF Tables
<1>5. LockOwned'
  BY <1>1, <1>2, InvHas, LockIdle
<1> QED BY <1>1, <1>2, <1>3, <1>4, <1>5, InvHas, InvParts, HoldingNothing

\* A queued row becomes a steer.
LEMMA SteerStep ==
  ASSUME Inv, NEW c \in Clients, NEW id \in Ids, Steer(c, id)
  PROVE  Inv'
<1>1. ChangeDelivery(id, "steer")
  BY DEF Steer
<1>2. PICK r \in Pending : SetRequest(c, "admitted", Redelivered(r, "steer"))
  BY DEF Steer
<1>3. r \in [id : Ids, type : Types, delivery : Delivery]
  BY <1>2, InvHas, PendingRows DEF Row
<1>4. Redelivered(r, "steer") \in Row
  BY <1>3 DEF Row, Redelivered, Delivery
<1>5. /\ request' \in [Clients -> Request]
      /\ \A d \in Clients : request'[d] = request[d] \/ request'[d].state \in {"free", "admitted", "refused"}
  BY <1>2, <1>4, InvHas, RequestAnswered
<1> QED BY <1>1, <1>5, RedeliverStep DEF Delivery

\* A steer becomes a queued row.
LEMMA QueueStep ==
  ASSUME Inv, NEW id \in Ids, Queue(id)
  PROVE  Inv'
<1>1. ChangeDelivery(id, "queue") /\ request' = request
  BY DEF Queue
<1> QED BY <1>1, InvHas, RedeliverStep DEF Delivery

\* A delivery takes its row out of the table, to the end of the history.
LEMMA DeliverStep ==
  ASSUME Inv, NEW k \in 1..Len(inbox), Deliver(inbox[k])
  PROVE  /\ LacksAt(inbox', inbox, k) /\ history' = Append(history, inbox[k])
         /\ inbox' \in Seq(Row) /\ history' \in Seq(Row) /\ Tables(inbox', history')
<1>1. inbox' = Without(inbox[k].id) /\ history' = Append(history, inbox[k])
  BY DEF Deliver
<1>2. inbox \in Seq(Row) /\ Tables(inbox, history)
  BY InvHas
<1>3. PICK i \in 1..Len(inbox) : inbox[i].id = inbox[k].id /\ LacksAt(inbox', inbox, i)
  BY <1>1, <1>2, WithoutLacks
<1>4. i = k
  BY <1>2, <1>3 DEF Tables
<1>5. Tables(inbox', history')
  BY <1>1, <1>2, <1>3, <1>4, Moved
<1> QED BY <1>1, <1>3, <1>4, <1>5 DEF Tables

\* What a boundary finds first is pending.
LEMMA NextPending ==
  ASSUME inbox \in Seq(Row), NEW scope \in Promotable, NEW row \in NextPromotable(scope)
  PROVE  /\ \E k \in 1..Len(inbox) : row = inbox[k]
         /\ \/ PendingSteers # <<>> /\ row = Head(PendingSteers)
            \/ PendingSteers = <<>> /\ Rows("queue") # <<>> /\ row = Head(Rows("queue"))
<1> DEFINE steers == PendingSteers
           queue == IF scope = "input" THEN Rows("queue") ELSE <<>>
           next == steers \o queue
<1>1. /\ steers \in Seq(Row) /\ \A i \in 1..Len(steers) : steers[i] \in Pending
  BY SteersRead
<1>2. /\ queue \in Seq(Row) /\ \A i \in 1..Len(queue) : queue[i] \in Pending
      /\ queue # <<>> => queue = Rows("queue")
  <2>1. Rows("queue") \in Seq(Row) /\ \A i \in 1..Len(Rows("queue")) : Rows("queue")[i] \in Pending
    BY RowsRead
  <2>2. CASE scope = "input"
    BY <2>1, <2>2
  <2>3. CASE scope # "input"
    <3>1. queue = <<>>
      BY <2>3
    <3> HIDE DEF queue
    <3> QED BY <3>1
  <2> QED BY <2>2, <2>3
<1>3. next # <<>> /\ row = Head(next)
  BY DEF NextPromotable
<1> HIDE DEF steers, queue
<1>4. CASE steers # <<>>
  <2>1. 1 \in 1..Len(steers) /\ Head(steers) = steers[1] /\ Len(steers) \in Nat
    BY <1>1, <1>4, EmptySeq
  <2>2. Head(next) = steers[1]
    <3>1. /\ Len(next) = Len(steers) + Len(queue) /\ next \in Seq(Row) /\ Len(queue) \in Nat
          /\ \A i \in 1..(Len(steers) + Len(queue)) :
               next[i] = IF i <= Len(steers) THEN steers[i] ELSE queue[i - Len(steers)]
      BY <1>1, <1>2, ConcatProperties
    <3>2. next[1] = steers[1]
      BY <2>1, <3>1
    <3> HIDE DEF next
    <3> QED BY <1>3, <3>1, <3>2
  <2>3. row \in Pending
    BY <1>1, <1>3, <2>1, <2>2
  <2> QED BY <1>3, <1>4, <2>1, <2>2, <2>3, PendingRows DEF steers
<1>5. CASE steers = <<>>
  <2>1. next = queue
    BY <1>2, <1>5
  <2>2. queue # <<>> /\ row = Head(queue)
    BY <1>3, <2>1
  <2>3. 1 \in 1..Len(queue) /\ Head(queue) = queue[1]
    BY <1>2, <2>2, EmptySeq
  <2>4. row \in Pending
    BY <1>2, <2>2, <2>3
  <2> QED BY <1>2, <1>5, <2>2, <2>4, PendingRows DEF steers
<1> QED BY <1>4, <1>5

\* A boundary takes its control row.
LEMMA TakeControlStep ==
  ASSUME Inv, NEW scope \in Promotable, TakeControl(scope)
  PROVE  Inv'
<1>1. UNCHANGED <<locked, request, promotion>> /\ Unlocked
  BY DEF TakeControl
<1>2. promotion = NoPromotion /\ \A d \in Clients : request[d].state # "compacting"
  BY <1>1, InvHas, UnlockedIdle
<1>3. PICK k \in 1..Len(inbox) : Deliver(inbox[k])
  BY InvHas, NextPending DEF TakeControl
<1>4. inbox' \in Seq(Row) /\ history' \in Seq(Row) /\ Tables(inbox', history')
  BY <1>3, DeliverStep
<1>5. LockOwned'
  BY <1>1, <1>2, InvHas, LockIdle
<1> QED BY <1>1, <1>2, <1>4, <1>5, InvHas, InvParts, HoldingNothing

\* A step of the promotion that leaves the tables and holds on to its rows.
LEMMA PromotionStep ==
  ASSUME Inv, UNCHANGED <<inbox, history, request>>,
         \A d \in Clients : request[d].state # "compacting",
         promotion' \in [stage : {"queued", "publish"}, scope : Promotable \cup {None},
                         rows : Seq(Row), more : BOOLEAN],
         locked' = TRUE, Holding(promotion', inbox)
  PROVE  Inv'
<1>1. LockOwned'
  BY InvHas, LockIdle
<1> QED BY <1>1, InvHas, InvParts

\* A promotion reads its rows under the lock.
LEMMA PromoteStep ==
  ASSUME Inv, NEW scope \in Promotable, Promote(scope)
  PROVE  Inv'
<1>1. UNCHANGED <<inbox, history, request>> /\ Unlocked /\ locked' = TRUE
  BY DEF Promote
<1>2. \A d \in Clients : request[d].state # "compacting"
  BY <1>1, InvHas, UnlockedIdle
<1> DEFINE p == BeforeControl(PendingSteers)
<1>3. /\ p \in Seq(Row) /\ \E g : Reads(p, g, inbox)
      /\ \A i \in 1..Len(p) : p[i].delivery = "steer"
  BY InvHas, ReadsSteers
<1> HIDE DEF p
<1>4. CASE promotion' = [stage |-> "publish", scope |-> scope, rows |-> p, more |-> FALSE]
  <2>1. promotion' \in [stage : {"queued", "publish"}, scope : Promotable \cup {None},
                        rows : Seq(Row), more : BOOLEAN]
    BY <1>3, <1>4
  <2>2. Holding(promotion', inbox)
    BY <1>3, <1>4 DEF Holding
  <2> QED BY <1>1, <1>2, <2>1, <2>2, PromotionStep
<1>5. CASE promotion' = [stage |-> "queued", scope |-> scope, rows |-> <<>>, more |-> FALSE]
  <2>1. promotion' \in [stage : {"queued", "publish"}, scope : Promotable \cup {None},
                        rows : Seq(Row), more : BOOLEAN]
    BY <1>5
  <2>2. Holding(promotion', inbox)
    <3>1. promotion'.rows = <<>>
      BY <1>5
    <3> QED BY <3>1, ReadsNothing DEF Holding
  <2> QED BY <1>1, <1>2, <2>1, <2>2, PromotionStep
<1> QED BY <1>4, <1>5 DEF Promote, p

\* The lock is released.
LEMMA ReleaseStep ==
  ASSUME Inv, UNCHANGED <<inbox, history, request>>, promotion.stage # "none",
         promotion' = NoPromotion, locked' = FALSE
  PROVE  Inv'
<1>1. \A d \in Clients : request[d].state # "compacting"
  BY InvHas, PromotionAlone
<1>2. LockOwned'
  BY <1>1, InvHas, LockIdle
<1> QED BY <1>2, InvHas, InvParts, HoldingNothing, NoPromotionReads

\* A promotion goes on to the next queued row.
LEMMA PromoteQueuedStep ==
  ASSUME Inv, PromoteQueued
  PROVE  Inv'
<1>1. UNCHANGED <<inbox, history, request>> /\ promotion.stage # "none"
  BY DEF PromoteQueued
<1>2. locked /\ \A d \in Clients : request[d].state # "compacting"
  BY <1>1, InvHas, PromotionAlone
<1> DEFINE queued == Rows("queue")
           p == <<Head(queued)>>
<1>3. CASE queued # <<>> /\ ~IsControl(Head(queued))
  <2>1. p \in Seq(Row) /\ \E g : Reads(p, g, inbox)
    BY <1>3, InvHas, ReadsQueued
  <2>2. /\ promotion' = [promotion EXCEPT !.stage = "publish", !.rows = p, !.more = TRUE]
        /\ locked' = locked
    BY <1>3 DEF PromoteQueued
  <2> HIDE DEF p
  <2>3. promotion' \in [stage : {"queued", "publish"}, scope : Promotable \cup {None},
                        rows : Seq(Row), more : BOOLEAN]
        /\ promotion'.rows = p /\ promotion'.more = TRUE
    BY <2>1, <2>2, InvHas
  <2>4. Holding(promotion', inbox)
    BY <2>1, <2>3 DEF Holding
  <2> QED BY <1>1, <1>2, <2>2, <2>3, <2>4, InvHas, PromotionStep
<1>4. CASE ~(queued # <<>> /\ ~IsControl(Head(queued)))
  BY <1>1, <1>4, ReleaseStep DEF PromoteQueued
<1> QED BY <1>3, <1>4

\* The row that is published next.
LEMMA PublishHead ==
  ASSUME Inv, PublishRow, NEW g, Reads(promotion.rows, g, inbox)
  PROVE  /\ 1 \in 1..Len(promotion.rows) /\ g[1] \in 1..Len(inbox)
         /\ Head(promotion.rows) = inbox[g[1]] /\ Deliver(inbox[g[1]])
         /\ promotion.rows[1] = inbox[g[1]]
         /\ promotion.stage # "none" /\ locked
         /\ \A d \in Clients : request[d].state # "compacting"
<1>1. promotion.rows # <<>> /\ promotion.rows \in Seq(Row) /\ Deliver(Head(promotion.rows))
  BY InvHas DEF PublishRow
<1>2. 1 \in 1..Len(promotion.rows) /\ Head(promotion.rows) = promotion.rows[1]
  BY <1>1, EmptySeq
<1>3. g[1] \in 1..Len(inbox) /\ promotion.rows[1] = inbox[g[1]]
  BY <1>2 DEF Reads
<1>4. promotion.stage # "none"
  BY <1>1, InvHas DEF LockOwned, NoPromotion
<1>5. locked /\ \A d \in Clients : request[d].state # "compacting"
  BY <1>4, InvHas, PromotionAlone
<1> QED BY <1>1, <1>2, <1>3, <1>4, <1>5

\* A promotion publishes its next row.
LEMMA PublishRowStep ==
  ASSUME Inv, PublishRow
  PROVE  Inv'
<1>1. PICK g : Reads(promotion.rows, g, inbox)
  BY InvHas DEF Holding
<1>2. /\ 1 \in 1..Len(promotion.rows) /\ g[1] \in 1..Len(inbox) /\ Deliver(inbox[g[1]])
      /\ promotion.stage # "none" /\ locked
      /\ \A d \in Clients : request[d].state # "compacting"
  BY <1>1, PublishHead
<1>3. /\ LacksAt(inbox', inbox, g[1]) /\ inbox' \in Seq(Row) /\ history' \in Seq(Row)
      /\ Tables(inbox', history')
  BY <1>2, DeliverStep
<1>4. /\ promotion' = [promotion EXCEPT !.rows = Tail(promotion.rows)]
      /\ UNCHANGED <<locked, request>> /\ promotion.rows # <<>>
  BY DEF PublishRow
<1>5. /\ Tail(promotion.rows) \in Seq(Row)
      /\ Len(Tail(promotion.rows)) = Len(promotion.rows) - 1
      /\ \A i \in 1..Len(Tail(promotion.rows)) : Tail(promotion.rows)[i] = promotion.rows[i + 1]
  BY <1>4, InvHas, HeadTailProperties
<1>6. /\ promotion' \in [stage : {"none", "queued", "publish"}, scope : Promotable \cup {None},
                         rows : Seq(Row), more : BOOLEAN]
      /\ promotion'.rows = Tail(promotion.rows)
      /\ promotion'.more = promotion.more /\ promotion'.stage = promotion.stage
  BY <1>4, <1>5, InvHas
<1>7. \E h : Reads(Tail(promotion.rows), h, inbox')
  BY <1>1, <1>3, <1>4, InvHas, ReadsDeliver
<1>8. ASSUME NEW i \in 1..Len(Tail(promotion.rows))
      PROVE  Tail(promotion.rows)[i].delivery = "steer" \/ promotion.more
  <2>1. i + 1 \in 1..Len(promotion.rows)
    BY <1>5, InvHas
  <2> QED BY <1>5, <2>1, InvHas DEF Holding
<1>9. Holding(promotion', inbox')
  BY <1>6, <1>7, <1>8 DEF Holding
<1>10. LockOwned'
  BY <1>2, <1>4, <1>6, InvHas, LockIdle
<1> QED BY <1>3, <1>4, <1>6, <1>9, <1>10, InvHas, InvParts

\* A promotion reads what was admitted since.
LEMMA PublishMoreStep ==
  ASSUME Inv, PublishMore
  PROVE  Inv'
<1>1. UNCHANGED <<inbox, history, locked, request>> /\ promotion.stage = "publish"
  BY DEF PublishMore
<1>2. locked /\ \A d \in Clients : request[d].state # "compacting"
  BY <1>1, InvHas, PromotionAlone
<1> DEFINE p == BeforeControl(PendingSteers)
<1>3. /\ p \in Seq(Row) /\ \E g : Reads(p, g, inbox)
      /\ \A i \in 1..Len(p) : p[i].delivery = "steer"
  BY InvHas, ReadsSteers
<1>4. promotion' = [promotion EXCEPT !.rows = p, !.more = FALSE]
  BY DEF PublishMore
<1> HIDE DEF p
<1>5. promotion' \in [stage : {"queued", "publish"}, scope : Promotable \cup {None},
                      rows : Seq(Row), more : BOOLEAN]
      /\ promotion'.rows = p
  BY <1>1, <1>3, <1>4, InvHas
<1>6. Holding(promotion', inbox)
  BY <1>3, <1>5 DEF Holding
<1> QED BY <1>1, <1>2, <1>5, <1>6, InvHas, PromotionStep

\* A promotion ends, or is interrupted, and gives its lock back.
LEMMA EndStep ==
  ASSUME Inv, Promoted \/ PromotionInterrupted
  PROVE  Inv'
<1>1. UNCHANGED <<inbox, history, request>> /\ promotion' = NoPromotion /\ locked' = FALSE
  BY DEF Promoted, PromotionInterrupted, Release
<1>2. promotion.stage # "none"
  BY InvHas DEF Promoted, PromotionInterrupted, LockOwned
<1> QED BY <1>1, <1>2, ReleaseStep

\* The invariant holds at first.
LEMMA InvInit == ASSUME InboxInit PROVE Inv
<1>1. /\ inbox = <<>> /\ history = <<>> /\ locked = FALSE
      /\ request = [c \in Clients |-> Free] /\ promotion = NoPromotion
  BY DEF InboxInit
<1>2. Tables(inbox, history)
  BY <1>1 DEF Tables
<1>3. InboxTypeOK
  <2>1. request \in [Clients -> Request]
    BY <1>1 DEF Request
  <2>2. inbox \in Seq(Row) /\ history \in Seq(Row)
    BY <1>1
  <2>3. promotion \in [stage : {"none", "queued", "publish"}, scope : Promotable \cup {None},
                       rows : Seq(Row), more : BOOLEAN]
    BY <1>1, NoPromotionReads
  <2> QED BY <1>1, <2>1, <2>2, <2>3 DEF InboxTypeOK
<1>4. ReadsHold
  BY <1>1, NoPromotionReads DEF ReadsHold
<1>5. \A c \in Clients : request[c].state = "free"
  BY <1>1 DEF Free
<1>6. LockOwned
  BY <1>1, <1>5 DEF LockOwned
<1> QED BY <1>2, <1>3, <1>4, <1>6 DEF Inv

\* Every step keeps the invariant.
LEMMA InvNext == ASSUME Inv, [InboxNext]_inboxVars PROVE Inv'
<1>1. CASE \E c \in Clients : Calls(c) \/ Return(c)
  <2>1. PICK c \in Clients : Calls(c) \/ Return(c)
    BY <1>1
  <2>2. CASE \E item \in Row : Reconcile(c, item) \/ AdmitCompaction(c, item) \/ AdmitMove(c, item)
    BY <2>2, ReconcileStep, AdmitCompactionStep, AdmitMoveStep
  <2>3. CASE \E id \in Ids : Steer(c, id)
    BY <2>3, SteerStep
  <2> QED BY <2>1, <2>2, <2>3, AdmitStep, EnqueueCompactionStep, ReturnStep DEF Calls
<1>2. CASE \E id \in Ids : Cancel(id) \/ Queue(id)
  BY <1>2, CancelStep, QueueStep
<1>3. CASE \E scope \in Promotable : TakeControl(scope) \/ Promote(scope)
  BY <1>3, TakeControlStep, PromoteStep
<1>4. CASE PromoteQueued \/ PublishRow \/ PublishMore
  BY <1>4, PromoteQueuedStep, PublishRowStep, PublishMoreStep
<1>5. CASE Promoted \/ PromotionInterrupted
  BY <1>5, EndStep
<1>6. CASE UNCHANGED inboxVars
  <2>1. UNCHANGED <<inbox, history, locked, request, promotion>>
    BY <1>6 DEF inboxVars
  <2>2. LockOwned'
    BY <2>1, InvHas DEF LockOwned
  <2> QED BY <2>1, <2>2, InvHas, InvParts
<1> QED BY <1>1, <1>2, <1>3, <1>4, <1>5, <1>6 DEF InboxNext, Admission, Promotion

-----------------------------------------------------------------------------
(* Deliveries, in order *)

\* The row that a delivery takes is known from the history.
LEMMA DeliveredRow ==
  ASSUME Inv, NEW k \in 1..Len(inbox), Deliver(inbox[k]), \A j \in 1..(k - 1) : Overtakes(k, j)
  PROVE  \A i \in DOMAIN inbox :
           history' = Append(history, inbox[i]) => \A j \in 1..(i - 1) : Overtakes(i, j)
<1>1. inbox \in Seq(Row) /\ history \in Seq(Row) /\ Tables(inbox, history)
  BY InvHas
<1>2. history' = Append(history, inbox[k])
  BY DEF Deliver
<1>3. ASSUME NEW i \in 1..Len(inbox), history' = Append(history, inbox[i]) PROVE i = k
  <2>1. inbox[i] \in Row /\ inbox[k] \in Row
    BY <1>1
  <2>2. Append(history, inbox[i])[Len(history) + 1] = inbox[i]
    BY <1>1, <2>1, AppendProperties
  <2>3. Append(history, inbox[k])[Len(history) + 1] = inbox[k]
    BY <1>1, <2>1, AppendProperties
  <2>4. inbox[i].id = inbox[k].id
    BY <1>2, <1>3, <2>2, <2>3
  <2> QED BY <1>1, <2>4 DEF Tables
<1>4. DOMAIN inbox = 1..Len(inbox)
  BY <1>1
<1> QED BY <1>3, <1>4

\* A row's delivery is one of two.
LEMMA TwoDeliveries ==
  ASSUME inbox \in Seq(Row), NEW j \in 1..Len(inbox)
  PROVE  inbox[j].delivery = "steer" \/ inbox[j].delivery = "queue"
<1>1. inbox[j] \in Row
  OBVIOUS
<1> QED BY <1>1 DEF Row, Delivery

\* What a boundary finds first may be delivered first.
LEMMA NextOvertakes ==
  ASSUME inbox \in Seq(Row), NEW scope \in Promotable, NEW row \in NextPromotable(scope)
  PROVE  \E k \in 1..Len(inbox) : row = inbox[k] /\ \A j \in 1..(k - 1) : Overtakes(k, j)
<1> DEFINE steers == Rows("steer")
           queued == Rows("queue")
<1>1. PICK g : Chosen(steers, g, inbox, "steer", Len(inbox))
  BY RowsChosen
<1>2. PICK h : Chosen(queued, h, inbox, "queue", Len(inbox))
  BY RowsChosen
<1>3. /\ steers \in Seq(Row) /\ g \in [1..Len(steers) -> 1..Len(inbox)] /\ Len(inbox) \in Nat
      /\ \A i \in 1..Len(steers) : steers[i] = inbox[g[i]] /\ inbox[g[i]].delivery = "steer"
      /\ \A i, j \in 1..Len(steers) : i < j => g[i] < g[j]
      /\ \A k \in 1..Len(inbox) : inbox[k].delivery = "steer" => \E i \in 1..Len(steers) : g[i] = k
  BY <1>1 DEF Chosen
<1>4. /\ queued \in Seq(Row) /\ h \in [1..Len(queued) -> 1..Len(inbox)]
      /\ \A i \in 1..Len(queued) : queued[i] = inbox[h[i]] /\ inbox[h[i]].delivery = "queue"
      /\ \A i, j \in 1..Len(queued) : i < j => h[i] < h[j]
      /\ \A k \in 1..Len(inbox) : inbox[k].delivery = "queue" => \E i \in 1..Len(queued) : h[i] = k
  BY <1>2 DEF Chosen
<1>5. \/ PendingSteers # <<>> /\ row = Head(PendingSteers)
      \/ PendingSteers = <<>> /\ queued # <<>> /\ row = Head(queued)
  BY NextPending
<1>6. \A j \in 1..Len(inbox) : inbox[j].delivery = "steer" \/ inbox[j].delivery = "queue"
  BY TwoDeliveries
<1>7. PendingSteers = steers \/ \E c \in Nat : Pulled(c)
  BY SteersRead
<1> HIDE DEF steers, queued
<1>8. CASE PendingSteers = steers /\ PendingSteers # <<>>
  <2>1. 1 \in 1..Len(steers) /\ Len(steers) \in Nat /\ row = steers[1]
    BY <1>3, <1>5, <1>8, EmptySeq
  <2>2. g[1] \in 1..Len(inbox) /\ row = inbox[g[1]] /\ inbox[g[1]].delivery = "steer"
    BY <1>3, <2>1
  <2>3. ASSUME NEW j \in 1..(g[1] - 1) PROVE Overtakes(g[1], j)
    <3>1. j \in 1..Len(inbox) /\ j < g[1]
      BY <1>3, <2>2
    <3>2. ASSUME inbox[j].delivery = "steer" PROVE FALSE
      <4>1. PICK i \in 1..Len(steers) : g[i] = j
        BY <1>3, <3>1, <3>2
      <4>2. i = 1 \/ g[1] < g[i]
        BY <1>3, <2>1
      <4> QED BY <2>2, <3>1, <4>1, <4>2
    <3> QED BY <1>6, <2>2, <3>1, <3>2 DEF Overtakes
  <2> QED BY <2>2, <2>3
<1>9. CASE \E c \in Nat : Pulled(c)
  <2>1. PICK c \in Nat : Pulled(c)
    BY <1>9
  <2>2. /\ c \in 2..Len(steers) /\ steers[c].type = "compaction" /\ Head(PendingSteers) = steers[c]
        /\ \A j \in 1..(c - 1) : ~IsControl(steers[j])
    BY <2>1 DEF Pulled, steers
  <2>3. PendingSteers # <<>>
    <3>1. steers[c] \in Pending /\ steers[c].delivery = "steer"
      BY <2>2, RowsRead DEF steers
    <3> QED BY <3>1, SteersRead
  <2>4. c \in 1..Len(steers) /\ row = steers[c]
    BY <1>5, <2>2, <2>3
  <2>5. /\ g[c] \in 1..Len(inbox) /\ row = inbox[g[c]] /\ inbox[g[c]].delivery = "steer"
        /\ inbox[g[c]].type = "compaction"
    BY <1>3, <2>2, <2>4
  <2>6. ASSUME NEW j \in 1..(g[c] - 1) PROVE Overtakes(g[c], j)
    <3>1. j \in 1..Len(inbox) /\ j < g[c]
      BY <1>3, <2>5
    <3>2. CASE inbox[j].delivery = "steer"
      <4>1. PICK i \in 1..Len(steers) : g[i] = j
        BY <1>3, <3>1, <3>2
      <4>2. i = c \/ i < c \/ c < i
        BY <2>4
      <4>3. g[i] \in 1..Len(inbox) /\ ~(g[c] < g[i]) /\ g[i] # g[c]
        BY <2>5, <3>1, <4>1
      <4>4. i \in 1..(c - 1)
        BY <1>3, <2>4, <4>2, <4>3
      <4>5. ~IsControl(inbox[j])
        BY <1>3, <2>2, <4>1, <4>4
      <4> QED BY <2>5, <3>2, <4>5 DEF Overtakes
    <3> QED BY <1>6, <2>5, <3>1, <3>2 DEF Overtakes
  <2> QED BY <2>5, <2>6
<1>10. CASE PendingSteers = <<>>
  <2>1. queued # <<>> /\ row = Head(queued)
    BY <1>5, <1>10
  <2>2. 1 \in 1..Len(queued) /\ Len(queued) \in Nat /\ row = queued[1]
    BY <1>4, <2>1, EmptySeq
  <2>3. h[1] \in 1..Len(inbox) /\ row = inbox[h[1]]
    BY <1>4, <2>2
  <2>4. ASSUME NEW j \in 1..(h[1] - 1) PROVE FALSE
    <3>1. j \in 1..Len(inbox) /\ j < h[1]
      BY <1>3, <2>3
    <3>2. inbox[j].delivery # "steer"
      BY <1>10, <3>1, SteersRead, PendingRows
    <3>3. PICK i \in 1..Len(queued) : h[i] = j
      BY <1>4, <1>6, <3>1, <3>2
    <3>4. i = 1 \/ h[1] < h[i]
      BY <1>4, <2>2
    <3> QED BY <2>3, <3>1, <3>3, <3>4
  <2> QED BY <2>3, <2>4
<1> QED BY <1>7, <1>8, <1>9, <1>10

\* A control row overtakes only what it may.
LEMMA TakeControlInOrder ==
  ASSUME Inv, NEW scope \in Promotable, TakeControl(scope)
  PROVE  \A i \in DOMAIN inbox :
           history' = Append(history, inbox[i]) => \A j \in 1..(i - 1) : Overtakes(i, j)
<1>1. PICK row \in NextPromotable(scope) : Deliver(row)
  BY DEF TakeControl
<1>2. PICK k \in 1..Len(inbox) : row = inbox[k] /\ \A j \in 1..(k - 1) : Overtakes(k, j)
  BY InvHas, NextOvertakes
<1> QED BY <1>1, <1>2, DeliveredRow

\* A published row overtakes only what it may.
LEMMA PublishInOrder ==
  ASSUME Inv, PublishRow
  PROVE  \A i \in DOMAIN inbox :
           history' = Append(history, inbox[i]) => \A j \in 1..(i - 1) : Overtakes(i, j)
<1>1. PICK g : Reads(promotion.rows, g, inbox)
  BY InvHas DEF Holding
<1>2. /\ 1 \in 1..Len(promotion.rows) /\ g[1] \in 1..Len(inbox) /\ Deliver(inbox[g[1]])
      /\ promotion.rows[1] = inbox[g[1]]
  BY <1>1, PublishHead
<1>3. inbox[g[1]].delivery = "steer" \/ promotion.more
  BY <1>2, InvHas DEF Holding
<1>4. ASSUME NEW j \in 1..(g[1] - 1) PROVE Overtakes(g[1], j)
  <2>1. j \in 1..Len(inbox) /\ j < g[1]
    BY <1>2, InvHas
  <2>2. inbox[j].delivery # inbox[g[1]].delivery
    <3>1. SUFFICES ASSUME inbox[j].delivery = inbox[g[1]].delivery PROVE FALSE
      OBVIOUS
    <3>2. PICK i \in 1..Len(promotion.rows) : g[i] = j
      BY <1>1, <1>2, <2>1, <3>1 DEF Reads
    <3>3. i = 1 \/ g[1] < g[i]
      BY <1>1, <1>2 DEF Reads
    <3> QED BY <1>2, <2>1, <3>2, <3>3
  <2>3. /\ inbox[j].delivery = "steer" \/ inbox[j].delivery = "queue"
        /\ inbox[g[1]].delivery = "steer" \/ inbox[g[1]].delivery = "queue"
    BY <1>2, <2>1, InvHas, TwoDeliveries
  <2> QED BY <1>3, <2>2, <2>3 DEF Overtakes
<1> QED BY <1>2, <1>4, DeliveredRow

\* In every step that delivers, the row overtakes only what it may.
LEMMA NextInOrder ==
  ASSUME Inv, [InboxNext]_inboxVars
  PROVE  [\A i \in DOMAIN inbox :
            history' = Append(history, inbox[i]) => \A j \in 1..(i - 1) : Overtakes(i, j)]_history
<1>1. CASE \E scope \in Promotable : TakeControl(scope)
  BY <1>1, TakeControlInOrder
<1>2. CASE PublishRow
  BY <1>2, PublishInOrder
<1>3. CASE Admission
  BY <1>3 DEF Admission, Calls, Return, Reconcile, Admit, AdmitCompaction, EnqueueCompaction, AdmitMove,
     Steer, Cancel, Queue, ChangeDelivery
<1>4. CASE \/ \E scope \in Promotable : Promote(scope)
           \/ PromoteQueued \/ PublishMore \/ Promoted \/ PromotionInterrupted
  BY <1>4 DEF Promote, PromoteQueued, PublishMore, Promoted, PromotionInterrupted, Release
<1>5. CASE UNCHANGED inboxVars
  BY <1>5 DEF inboxVars
<1> QED BY <1>1, <1>2, <1>3, <1>4, <1>5 DEF InboxNext, Promotion

-----------------------------------------------------------------------------
(* Theorems *)

\* The invariant holds in every reachable state.
THEOREM Invariant == InboxSpec => []Inv
BY InvInit, InvNext, PTL DEF InboxSpec

\* Every state has its types, whatever IDs, clients and item types there are.
THEOREM InboxTypes == InboxSpec => []InboxTypeOK
<1>1. Inv => InboxTypeOK
  BY DEF Inv
<1> QED BY <1>1, Invariant, PTL

\* A message ID is pending at most once or visible at most once, never both:
\* admissions outside the lock, retries and promotions cannot duplicate it.
THEOREM RecordedOnce == InboxSpec => []OneRecordPerId
<1>1. ASSUME Inv PROVE OneRecordPerId
  <2> DEFINE all == inbox \o history
  <2>1. inbox \in Seq(Row) /\ history \in Seq(Row) /\ Tables(inbox, history)
        /\ Len(inbox) \in Nat /\ Len(history) \in Nat
    BY <1>1, InvHas
  <2>2. /\ all \in Seq(Row) /\ Len(all) = Len(inbox) + Len(history)
        /\ \A i \in 1..(Len(inbox) + Len(history)) :
             all[i] = IF i <= Len(inbox) THEN inbox[i] ELSE history[i - Len(inbox)]
    BY <2>1, ConcatProperties
  <2>3. DOMAIN all = 1..(Len(inbox) + Len(history))
    BY <2>2
  <2> HIDE DEF all
  <2>4. ASSUME NEW i \in DOMAIN all
        PROVE  \/ i \in 1..Len(inbox) /\ all[i] = inbox[i]
               \/ /\ i - Len(inbox) \in 1..Len(history)
                  /\ i \in Nat /\ all[i] = history[i - Len(inbox)]
    <3>1. i \in 1..(Len(inbox) + Len(history))
      BY <2>3
    <3>2. CASE i <= Len(inbox)
      BY <2>1, <2>2, <3>1, <3>2
    <3>3. CASE ~(i <= Len(inbox))
      BY <2>1, <2>2, <3>1, <3>3
    <3> QED BY <3>2, <3>3
  <2>5. ASSUME NEW i \in DOMAIN all, NEW j \in DOMAIN all, all[i].id = all[j].id PROVE i = j
    <3>1. CASE i \in 1..Len(inbox) /\ all[i] = inbox[i]
      BY <2>1, <2>4, <2>5, <3>1 DEF Tables
    <3>2. CASE /\ i - Len(inbox) \in 1..Len(history)
               /\ i \in Nat /\ all[i] = history[i - Len(inbox)]
      <4>1. CASE j \in 1..Len(inbox) /\ all[j] = inbox[j]
        BY <2>1, <2>5, <3>2, <4>1 DEF Tables
      <4>2. CASE /\ j - Len(inbox) \in 1..Len(history)
                 /\ j \in Nat /\ all[j] = history[j - Len(inbox)]
        <5>1. i - Len(inbox) = j - Len(inbox)
          BY <2>1, <2>5, <3>2, <4>2 DEF Tables
        <5> QED BY <2>1, <3>2, <4>2, <5>1
      <4> QED BY <2>4, <4>1, <4>2
    <3> QED BY <2>4, <3>1, <3>2
  <2> QED BY <2>5 DEF OneRecordPerId, all
<1> QED BY <1>1, Invariant, PTL

\* There is never a second pending compaction.
THEOREM CompactionIsSingle == InboxSpec => []OneCompaction
<1>1. ASSUME Inv PROVE OneCompaction
  BY <1>1, InvHas DEF Tables, OneCompaction
<1> QED BY <1>1, Invariant, PTL

\* What a promotion still has to publish is pending as it read it: the lock
\* keeps cancellations and delivery changes out, and admissions only append.
THEOREM PromotionsHold == InboxSpec => []PromotesWhatItRead
<1>1. ASSUME Inv PROVE PromotesWhatItRead
  <2>1. PICK g : Reads(promotion.rows, g, inbox)
    BY <1>1, InvHas DEF Holding
  <2>2. \A i \in 1..Len(promotion.rows) : promotion.rows[i] = inbox[g[i]] /\ g[i] \in 1..Len(inbox)
    BY <2>1 DEF Reads
  <2>3. inbox \in Seq(Row) /\ promotion.rows \in Seq(Row)
    BY <1>1, InvHas
  <2>4. DOMAIN inbox = 1..Len(inbox) /\ DOMAIN promotion.rows = 1..Len(promotion.rows)
    BY <2>3
  <2> QED BY <2>2, <2>4 DEF PromotesWhatItRead, Pending, ToSet
<1> QED BY <1>1, Invariant, PTL

\* Deliveries keep the admission order of each delivery mode; only a steer
\* passes queued rows, a steered compaction the prompts before it, and the
\* chosen queued row the steers admitted since.
THEOREM DeliveriesInOrder == InboxSpec => DeliversInOrder
BY Invariant, NextInOrder, PTL DEF InboxSpec, DeliversInOrder
=============================================================================
