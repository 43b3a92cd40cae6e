------------------------------ MODULE BusProofs -------------------------------
(***************************************************************************)
(* The proofs about Bus, for any fibers, readers, owners, sizes and bound. *)
(*                                                                         *)
(* First the sequences and sets the model is built from: positions that    *)
(* ascend, the least and the greatest of a finite set, the page of a       *)
(* reader.  Then the inductive invariant Inv, whose heart is Shown: what   *)
(* the live channel showed with what the holder of the lock has still to   *)
(* show.  Then one lemma per action, the invariants, and the refinement of *)
(* EventLog, step by step.                                                 *)
(***************************************************************************)
EXTENDS Bus, WellFoundedInduction, FiniteSetTheorems, SequenceTheorems, TLAPS

-----------------------------------------------------------------------------
(* Sets of positions *)

\* A set of numbers has a least one.
LEMMA Least == ASSUME NEW S \in SUBSET Nat, S # {} PROVE \E x \in S : \A y \in S : x <= y
<1> DEFINE R == {ss \in Nat \X Nat : ss[1] < ss[2]}
<1>1. R = OpToRel(<, Nat)
  BY DEF OpToRel
<1>2. IsWellFoundedOn(R, Nat)
  BY ONLY <1>1, NatLessThanWellFounded
<1>3. \A x, y \in Nat : y < x => <<y, x>> \in R
  OBVIOUS
<1> HIDE DEF R
<1>4. PICK x \in S : \A y \in S : ~(<<y, x>> \in R)
  BY <1>2, WFMin
<1>5. \A y \in S : ~(y < x)
  BY <1>3, <1>4
<1> QED BY <1>5

\* A finite set of numbers that has a member has a greatest one.
LEMMA Greatest ==
  ASSUME NEW S \in SUBSET Nat, NEW n \in Nat, \A x \in S : x <= n, S # {}
  PROVE  Max(S) \in S /\ \A x \in S : x <= Max(S)
<1> DEFINE B == {b \in Nat : \A x \in S : x <= b}
<1>1. B \in SUBSET Nat /\ B # {}
  OBVIOUS
<1>2. PICK b \in B : \A c \in B : b <= c
  BY <1>1, Least
<1>3. b \in Nat /\ \A x \in S : x <= b
  BY <1>2
<1>4. b \in S
  <2> SUFFICES ASSUME b \notin S PROVE FALSE
    OBVIOUS
  <2>1. PICK x \in S : TRUE
    OBVIOUS
  <2>2. \A y \in S : y \in Nat /\ y <= b - 1
    BY <1>3
  <2>3. b - 1 \in Nat
    BY <1>3, <2>1, <2>2
  <2>4. b - 1 \in B
    BY <2>2, <2>3
  <2> QED BY <1>2, <1>3, <2>4
<1>5. \E m \in S : \A x \in S : m >= x
  BY <1>3, <1>4
<1> QED BY <1>5 DEF Max

\* The first positions of a set of rows, as many as a page holds.
FirstOf(rows) == {i \in rows : Cardinality({j \in rows : j <= i}) <= PageSize}

\* Only no rows make an empty page, and a page is the rows up to its last one.
LEMMA PageOfRows ==
  ASSUME NEW rows \in SUBSET Nat, NEW n \in Nat, \A i \in rows : i <= n
  PROVE  /\ FirstOf(rows) = {} => rows = {}
         /\ \A i \in FirstOf(rows) : \A j \in rows : j <= i => j \in FirstOf(rows)
<1>1. ASSUME rows # {} PROVE FirstOf(rows) # {}
  <2>1. PICK i \in rows : \A j \in rows : i <= j
    BY <1>1, Least
  <2>2. {j \in rows : j <= i} = {i}
    <3>1. i \in Nat /\ \A j \in rows : j \in Nat /\ (j <= i => j = i)
      BY <2>1
    <3> QED BY <2>1, <3>1
  <2>3. Cardinality({j \in rows : j <= i}) = 1
    BY <2>2, FS_Singleton
  <2> QED BY <2>1, <2>3, SizesAssumption DEF FirstOf
<1>2. ASSUME NEW i \in FirstOf(rows), NEW j \in rows, j <= i PROVE j \in FirstOf(rows)
  <2>1. i \in rows /\ i \in Nat /\ j \in Nat /\ Cardinality({k \in rows : k <= i}) <= PageSize
    BY <1>2 DEF FirstOf
  <2>2. IsFiniteSet({k \in rows : k <= i})
    BY <2>1, FS_BoundedSetOfNaturals
  <2>3. {k \in rows : k <= j} \in SUBSET {k \in rows : k <= i}
    <3>1. \A k \in rows : k \in Nat /\ (k <= j => k <= i)
      BY <1>2, <2>1
    <3> QED BY <3>1
  <2>4. /\ Cardinality({k \in rows : k <= j}) <= Cardinality({k \in rows : k <= i})
        /\ IsFiniteSet({k \in rows : k <= j})
    BY <2>2, <2>3, FS_Subset
  <2>5. Cardinality({k \in rows : k <= j}) \in Nat /\ Cardinality({k \in rows : k <= i}) \in Nat
    BY <2>2, <2>4, FS_CardinalityType
  <2>6. Cardinality({k \in rows : k <= j}) <= PageSize
    BY <2>1, <2>4, <2>5, SizesAssumption
  <2> QED BY <1>2, <2>6 DEF FirstOf
<1> QED BY <1>1, <1>2

-----------------------------------------------------------------------------
(* The inductive invariant *)

Kinds == {"local", "gap", "unowned"} \cup Owners

\* The log and its owner.
LogOK ==
  /\ log \in Seq(Kinds) /\ Len(log) <= MaxEvents
  /\ owner \in Owners \cup {None}
  /\ claimed \in 0..Len(log)
  /\ quiet \in SUBSET (1..Len(log))

Fiber == [pc : {"idle", "committing", "waking", "notifying"}, op : Ops \cup {None}, pending : Seq(Nat)]

\* What a fiber is while it holds the lock, and while it does not.
FiberOK(f) ==
  /\ lock = f => fiber[f].pc # "idle" /\ (fiber[f].pc = "committing" => fiber[f].pending = <<>>)
  /\ lock # f => fiber[f] = Idle

FibersOK ==
  /\ lock \in Fibers \cup {None}
  /\ fiber \in [Fibers -> Fiber]
  /\ \A f \in Fibers : FiberOK(f)

Ascends(s) == \A i, j \in 1..Len(s) : i < j => s[i] < s[j]

\* s shows the positions of P, each once and in order.
Shows(s, P) ==
  /\ s \in Seq(Nat) /\ Ascends(s)
  /\ \A i \in 1..Len(s) : s[i] \in P
  /\ \A p \in P : \E i \in 1..Len(s) : s[i] = p

Pending == IF lock \in Fibers THEN fiber[lock].pending ELSE <<>>

\* What was shown, and what the holder of the lock has still to show, are the
\* positions that are not quiet.
LiveOK ==
  /\ live \in Seq(Nat)
  /\ Shows(live \o Pending, (1..Len(log)) \ quiet)

ReaderOK(x) ==
  /\ x = [state |-> x.state, follow |-> x.follow, sequence |-> x.sequence,
          target |-> x.target, mark |-> x.mark, seen |-> x.seen]
  /\ x.state \in {"closed", "open", "replaying", "replayed", "live", "woken", "tailing", "ended"}
  /\ x.follow \in BOOLEAN /\ x.sequence \in Nat /\ x.target \in 0..Len(log)
  /\ x.state \in {"replaying", "replayed"} => x.target = x.mark
  /\ x.state = "replayed" => \A i \in (x.sequence + 1)..x.target : log[i] = "gap"

Wake == [registered : BOOLEAN, pending : BOOLEAN]

ReadersOK ==
  /\ reader = [r \in Readers |-> reader[r]]
  /\ wake \in [Readers -> Wake]
  /\ \A r \in Readers : ReaderOK(reader[r]) /\ wake[r].registered = reader[r].follow

Inv == LogOK /\ FibersOK /\ LiveOK /\ ReadersOK /\ OneSource

-----------------------------------------------------------------------------
(* What the live channel shows *)

\* Showing the next pending position moves it, and changes no order.
LEMMA ShowsNext ==
  ASSUME NEW s \in Seq(Nat), NEW p \in Seq(Nat), p # <<>>
  PROVE  Append(s, Head(p)) \o Tail(p) = s \o p
<1>1. /\ Head(p) \in Nat /\ Tail(p) \in Seq(Nat) /\ Len(Tail(p)) = Len(p) - 1
      /\ \A i \in 1..Len(Tail(p)) : Tail(p)[i] = p[i + 1]
  BY HeadTailProperties
<1>2. Len(p) \in Nat /\ Len(p) > 0 /\ Len(s) \in Nat /\ Head(p) = p[1]
  OBVIOUS
<1>3. /\ Append(s, Head(p)) \in Seq(Nat) /\ Len(Append(s, Head(p))) = Len(s) + 1
      /\ \A i \in 1..Len(s) : Append(s, Head(p))[i] = s[i]
      /\ Append(s, Head(p))[Len(s) + 1] = Head(p)
  BY <1>1, AppendProperties
<1> DEFINE a == Append(s, Head(p))
           t == Tail(p)
<1> HIDE DEF a, t
<1>4. /\ a \in Seq(Nat) /\ Len(a) = Len(s) + 1
      /\ \A i \in 1..Len(s) : a[i] = s[i]
      /\ a[Len(s) + 1] = p[1]
  BY <1>2, <1>3 DEF a
<1>5. t \in Seq(Nat) /\ Len(t) = Len(p) - 1 /\ \A i \in 1..Len(t) : t[i] = p[i + 1]
  BY <1>1 DEF t
<1>6. /\ a \o t \in Seq(Nat) /\ Len(a \o t) = Len(a) + Len(t)
      /\ \A i \in 1..(Len(a) + Len(t)) : (a \o t)[i] = IF i <= Len(a) THEN a[i] ELSE t[i - Len(a)]
  BY <1>4, <1>5, ConcatProperties
<1>7. /\ s \o p \in Seq(Nat) /\ Len(s \o p) = Len(s) + Len(p)
      /\ \A i \in 1..(Len(s) + Len(p)) : (s \o p)[i] = IF i <= Len(s) THEN s[i] ELSE p[i - Len(s)]
  BY ConcatProperties
<1>8. Len(a \o t) = Len(s \o p)
  BY <1>2, <1>4, <1>5, <1>6, <1>7
<1>9. ASSUME NEW i \in 1..Len(s \o p) PROVE (a \o t)[i] = (s \o p)[i]
  <2>1. i \in 1..(Len(s) + Len(p)) /\ i \in 1..(Len(a) + Len(t))
    BY <1>6, <1>7, <1>8
  <2>2. CASE i <= Len(s)
    BY <1>2, <1>4, <1>6, <1>7, <2>1, <2>2
  <2>3. CASE i = Len(s) + 1
    BY <1>2, <1>4, <1>6, <1>7, <2>1, <2>3
  <2>4. CASE i > Len(s) + 1
    <3>1. i - Len(a) \in 1..Len(t) /\ (i - Len(a)) + 1 = i - Len(s)
      BY <1>2, <1>4, <1>5, <2>1, <2>4
    <3>2. (a \o t)[i] = t[i - Len(a)] /\ (s \o p)[i] = p[i - Len(s)]
      BY <1>2, <1>4, <1>6, <1>7, <2>1, <2>4, SMTT(30)
    <3> QED BY <1>5, <3>1, <3>2
  <2> QED BY <1>2, <2>1, <2>2, <2>3, <2>4, SMTT(30)
<1>10. a \o t = s \o p
  BY <1>6, <1>7, <1>8, <1>9, SeqEqual
<1> QED BY <1>10 DEF a, t

\* Positions beyond all that is shown can be shown last.
LEMMA ShowsMore ==
  ASSUME NEW s, NEW P, NEW n \in Nat, P \in SUBSET (1..n), Shows(s, P),
         NEW t \in Seq(Nat), \A i \in 1..Len(t) : t[i] = n + i
  PROVE  Shows(s \o t, P \cup ToSet(t))
<1>1. s \in Seq(Nat) /\ Len(s) \in Nat /\ Len(t) \in Nat
  BY DEF Shows
<1>2. /\ s \o t \in Seq(Nat) /\ Len(s \o t) = Len(s) + Len(t)
      /\ \A i \in 1..(Len(s) + Len(t)) : (s \o t)[i] = IF i <= Len(s) THEN s[i] ELSE t[i - Len(s)]
  BY <1>1, ConcatProperties
<1> DEFINE u == s \o t
<1> HIDE DEF u
<1>3. /\ u \in Seq(Nat) /\ Len(u) = Len(s) + Len(t)
      /\ \A i \in 1..Len(u) : u[i] = IF i <= Len(s) THEN s[i] ELSE t[i - Len(s)]
  BY <1>2 DEF u
<1>4. \A i \in 1..Len(s) : i \in 1..Len(u) /\ u[i] = s[i] /\ s[i] \in P /\ s[i] \in 1..n
  BY <1>1, <1>3 DEF Shows
<1>5. ASSUME NEW i \in 1..Len(u), i > Len(s)
      PROVE  i - Len(s) \in 1..Len(t) /\ u[i] = t[i - Len(s)] /\ u[i] = n + (i - Len(s))
  <2>1. i - Len(s) \in 1..Len(t) /\ ~(i <= Len(s))
    BY <1>1, <1>3, <1>5
  <2>2. u[i] = t[i - Len(s)]
    BY <1>3, <2>1
  <2> QED BY <2>1, <2>2
<1>6. ToSet(t) = {t[i] : i \in 1..Len(t)}
  BY ONLY t \in Seq(Nat) DEF ToSet
<1>7. Ascends(u)
  <2> SUFFICES ASSUME NEW i \in 1..Len(u), NEW j \in 1..Len(u), i < j PROVE u[i] < u[j]
    BY DEF Ascends
  <2>1. CASE j <= Len(s)
    <3>1. i \in 1..Len(s) /\ j \in 1..Len(s)
      BY <1>1, <1>3, <2>1
    <3>2. s[i] < s[j]
      BY <3>1 DEF Shows, Ascends
    <3> QED BY <1>4, <3>1, <3>2
  <2>2. CASE i <= Len(s) /\ j > Len(s)
    <3>1. u[i] \in 1..n
      BY <1>1, <1>4, <2>2
    <3>2. u[j] = n + (j - Len(s)) /\ j - Len(s) \in 1..Len(t)
      BY <1>5, <2>2
    <3> QED BY <1>1, <3>1, <3>2
  <2>3. CASE i > Len(s) /\ j > Len(s)
    <3>1. u[j] = n + (j - Len(s)) /\ u[i] = n + (i - Len(s))
      BY <1>5, <2>3
    <3> QED BY <1>1, <3>1
  <2> QED BY <1>1, <1>3, <2>1, <2>2, <2>3
<1>8. ASSUME NEW i \in 1..Len(u) PROVE u[i] \in P \cup ToSet(t)
  <2>1. CASE i <= Len(s)
    BY <1>1, <1>4, <2>1, SMTT(30)
  <2>2. CASE i > Len(s)
    BY <1>5, <1>6, <2>2
  <2> QED BY <1>1, <2>1, <2>2
<1>9. ASSUME NEW p \in P \cup ToSet(t) PROVE \E i \in 1..Len(u) : u[i] = p
  <2>1. CASE p \in P
    <3>1. PICK i \in 1..Len(s) : s[i] = p
      BY <2>1 DEF Shows
    <3> QED BY <1>4, <3>1
  <2>2. CASE p \in ToSet(t)
    <3>1. PICK i \in 1..Len(t) : t[i] = p
      BY <1>6, <2>2
    <3>2. Len(s) + i \in 1..Len(u) /\ Len(s) + i > Len(s) /\ (Len(s) + i) - Len(s) = i
      BY <1>1, <1>3
    <3>3. u[Len(s) + i] = t[i]
      BY <1>5, <3>2
    <3> QED BY <3>1, <3>2, <3>3
  <2> QED BY <2>1, <2>2
<1>10. Shows(u, P \cup ToSet(t))
  BY <1>3, <1>7, <1>8, <1>9 DEF Shows
<1> QED BY <1>10 DEF u

\* What is not shown any more is left out.
LEMMA ShowsLess ==
  ASSUME NEW s \in Seq(Nat), NEW t \in Seq(Nat), NEW P, Shows(s \o t, P)
  PROVE  Shows(s, P \ ToSet(t))
<1>1. Len(s) \in Nat /\ Len(t) \in Nat /\ \A i \in 1..Len(s) : s[i] \in Nat
  OBVIOUS
<1>2. /\ s \o t \in Seq(Nat) /\ Len(s \o t) = Len(s) + Len(t)
      /\ \A i \in 1..(Len(s) + Len(t)) : (s \o t)[i] = IF i <= Len(s) THEN s[i] ELSE t[i - Len(s)]
  BY ConcatProperties
<1> DEFINE u == s \o t
<1> HIDE DEF u
<1>3. /\ u \in Seq(Nat) /\ Len(u) = Len(s) + Len(t)
      /\ \A i \in 1..Len(u) : u[i] = IF i <= Len(s) THEN s[i] ELSE t[i - Len(s)]
  BY <1>2 DEF u
<1>4. Shows(u, P)
  BY DEF u
<1>5. \A i \in 1..Len(s) : i \in 1..Len(u) /\ u[i] = s[i]
  BY <1>1, <1>3
<1>6. ToSet(t) = {t[i] : i \in 1..Len(t)}
  BY DEF ToSet
<1>7. ASSUME NEW i \in 1..Len(t) PROVE Len(s) + i \in 1..Len(u) /\ u[Len(s) + i] = t[i]
  <2>1. Len(s) + i \in 1..Len(u) /\ ~(Len(s) + i <= Len(s)) /\ (Len(s) + i) - Len(s) = i
    BY <1>1, <1>3
  <2> QED BY <1>3, <2>1
<1>8. Ascends(s)
  BY <1>4, <1>5 DEF Shows, Ascends
<1>9. ASSUME NEW i \in 1..Len(s) PROVE s[i] \in P \ ToSet(t)
  <2>1. s[i] \in P
    BY <1>4, <1>5 DEF Shows
  <2>2. ASSUME NEW j \in 1..Len(t) PROVE s[i] # t[j]
    <3>1. i \in 1..Len(u) /\ Len(s) + j \in 1..Len(u) /\ i < Len(s) + j
      BY <1>1, <1>5, <1>7
    <3>2. u[i] < u[Len(s) + j]
      BY <1>4, <3>1 DEF Shows, Ascends
    <3>3. s[i] < t[j]
      BY <1>5, <1>7, <3>2
    <3> QED BY <1>1, <3>3
  <2> QED BY <1>6, <2>1, <2>2
<1>10. ASSUME NEW p \in P \ ToSet(t) PROVE \E i \in 1..Len(s) : s[i] = p
  <2>1. PICK i \in 1..Len(u) : u[i] = p
    BY <1>4 DEF Shows
  <2>2. CASE i <= Len(s)
    BY <1>1, <1>5, <2>1, <2>2
  <2>3. CASE i > Len(s)
    <3>1. i - Len(s) \in 1..Len(t) /\ u[i] = t[i - Len(s)]
      BY <1>1, <1>3, <2>3
    <3> QED BY <1>6, <2>1, <3>1
  <2> QED BY <1>1, <1>3, <2>2, <2>3
<1> QED BY <1>8, <1>9, <1>10 DEF Shows

-----------------------------------------------------------------------------
(* The lock *)

\* Who does something under the lock holds it, and what it has to show is what
\* is still to be shown.
LEMMA Holder ==
  ASSUME FibersOK, NEW f \in Fibers, fiber[f].pc # "idle"
  PROVE  /\ lock = f /\ fiber[f] \in Fiber /\ Pending = fiber[f].pending
         /\ fiber[f].pc = "committing" => Pending = <<>>
<1>1. FiberOK(f) /\ fiber[f] \in Fiber
  BY DEF FibersOK
<1>2. lock = f
  BY <1>1 DEF FiberOK, Idle
<1> QED BY <1>1, <1>2 DEF FiberOK, Pending

\* The holder of the lock, or who gets it, goes on.
LEMMA Holds ==
  ASSUME FibersOK, NEW f \in Fibers, lock \in {f, None}, NEW x \in Fiber,
         x.pc # "idle", x.pc = "committing" => x.pending = <<>>,
         lock' = f, fiber' = [fiber EXCEPT ![f] = x]
  PROVE  FibersOK' /\ Pending' = x.pending
<1>1. fiber \in [Fibers -> Fiber] /\ fiber' \in [Fibers -> Fiber] /\ fiber'[f] = x
  BY DEF FibersOK
<1>2. ASSUME NEW g \in Fibers PROVE FiberOK(g)'
  <2>1. CASE g = f
    BY <1>1, <2>1 DEF FiberOK
  <2>2. CASE g # f
    <3>1. lock # g
      BY <2>2, FibersAssumption DEF None
    <3>2. fiber[g] = Idle
      BY <3>1 DEF FibersOK, FiberOK
    <3>3. fiber'[g] = Idle
      BY <1>1, <2>2, <3>2
    <3> QED BY <2>2, <3>3 DEF FiberOK, Idle
  <2> QED BY <2>1, <2>2
<1>3. Pending' = x.pending
  BY <1>1 DEF Pending
<1> QED BY <1>1, <1>2, <1>3 DEF FibersOK

\* The lock is given back.
LEMMA Released ==
  ASSUME FibersOK, NEW f \in Fibers, lock = f, Unlocks(f)
  PROVE  FibersOK' /\ Pending' = <<>>
<1>1. fiber \in [Fibers -> Fiber] /\ lock' = None /\ fiber' = [fiber EXCEPT ![f] = Idle]
  BY DEF FibersOK, Unlocks
<1>2. Idle \in Fiber
  <2>1. <<>> \in Seq(Nat)
    OBVIOUS
  <2> QED BY <2>1 DEF Idle, Fiber
<1>3. fiber' \in [Fibers -> Fiber]
  BY <1>1, <1>2
<1>4. ASSUME NEW g \in Fibers PROVE FiberOK(g)'
  <2>1. fiber'[g] = Idle
    <3>1. CASE g = f
      BY <1>1, <3>1
    <3>2. CASE g # f
      <4>1. fiber[g] = Idle
        BY <3>2 DEF FibersOK, FiberOK
      <4> QED BY <1>1, <3>2, <4>1
    <3> QED BY <3>1, <3>2
  <2>2. lock' # g
    BY <1>1, FibersAssumption DEF None
  <2> QED BY <2>1, <2>2 DEF FiberOK
<1>5. Pending' = <<>>
  BY <1>1, FibersAssumption DEF Pending, None
<1> QED BY <1>1, <1>3, <1>4, <1>5 DEF FibersOK

\* While the log stands and nothing is shown, LiveOK looks at what is pending.
LEMMA NothingShown ==
  ASSUME LiveOK, UNCHANGED <<log, live, quiet>>, Pending' = Pending
  PROVE  LiveOK'
BY DEF LiveOK

\* Readers keep what they know while the log grows.
LEMMA ReadersKept ==
  ASSUME LogOK, ReadersOK, UNCHANGED <<wake, reader>>, Len(log') \in Nat, Len(log) <= Len(log'),
         \A i \in 1..Len(log) : log'[i] = log[i]
  PROVE  ReadersOK'
<1>1. Len(log) \in Nat
  BY DEF LogOK
<1>2. ASSUME NEW r \in Readers PROVE ReaderOK(reader[r])'
  <2> DEFINE x == reader[r]
  <2>1. ReaderOK(x)
    BY DEF ReadersOK
  <2>2. x.target \in 0..Len(log) /\ x.sequence \in Nat
    BY <2>1 DEF ReaderOK
  <2>3. x.target \in 0..Len(log')
    BY <1>1, <2>2
  <2>4. \A i \in (x.sequence + 1)..x.target : i \in 1..Len(log)
    BY <1>1, <2>2
  <2>5. x.state = "replayed" => \A i \in (x.sequence + 1)..x.target : log'[i] = "gap"
    BY <2>1, <2>4 DEF ReaderOK
  <2>6. x' = x
    OBVIOUS
  <2> HIDE DEF x
  <2>7. ReaderOK(x)'
    BY <2>1, <2>3, <2>5, <2>6 DEF ReaderOK
  <2> QED BY <2>7 DEF x
<1>3. (reader = [r \in Readers |-> reader[r]])'
  BY DEF ReadersOK
<1>4. (wake \in [Readers -> Wake])'
  BY DEF ReadersOK
<1>5. ASSUME NEW r \in Readers PROVE (wake[r].registered = reader[r].follow)'
  BY DEF ReadersOK
<1> QED BY <1>2, <1>3, <1>4, <1>5 DEF ReadersOK

\* A step of the holder of the lock that commits nothing.
LEMMA LogKept ==
  ASSUME Inv, UNCHANGED <<log, owner, claimed, wake, reader>>,
         quiet' \in SUBSET (1..Len(log)), FibersOK', LiveOK'
  PROVE  Inv'
<1>1. LogOK'
  BY DEF Inv, LogOK
<1>2. ReadersOK'
  <2>1. LogOK /\ ReadersOK /\ Len(log) \in Nat
    BY DEF Inv, LogOK
  <2> QED BY <2>1, ReadersKept
<1>3. OneSource'
  BY DEF Inv, OneSource
<1> QED BY <1>1, <1>2, <1>3 DEF Inv

-----------------------------------------------------------------------------
(* The steps of the publishers *)

\* Nothing is in the log, held, shown or read at first.
LEMMA InitInv == ASSUME BusInit PROVE Inv
<1>1. <<>> \in Seq(Nat) /\ <<>> \in Seq(Kinds) /\ Len(<<>>) = 0 /\ Len(log) = 0
  BY DEF BusInit
<1>2. LogOK
  BY <1>1, SizesAssumption DEF BusInit, LogOK
<1>3. FibersOK
  <2>1. Idle \in Fiber
    BY <1>1 DEF Idle, Fiber
  <2>2. \A f \in Fibers : lock # f /\ fiber[f] = Idle
    BY FibersAssumption DEF BusInit, None
  <2> QED BY <2>1, <2>2 DEF BusInit, FibersOK, FiberOK
<1>4. LiveOK
  <2>1. Pending = <<>>
    BY FibersAssumption DEF BusInit, Pending, None
  <2>2. live \o Pending = <<>>
    BY <1>1, <2>1, ConcatEmptySeq DEF BusInit
  <2>3. Shows(<<>>, {})
    BY <1>1 DEF Shows, Ascends
  <2>4. (1..Len(log)) \ quiet = {}
    BY <1>1
  <2> QED BY <1>1, <2>2, <2>3, <2>4 DEF BusInit, LiveOK
<1>5. ReadersOK
  <2>1. ReaderOK(Closed)
    BY <1>1 DEF ReaderOK, Closed
  <2>2. \A r \in Readers : reader[r] = Closed /\ wake[r] = Unsubscribed
    BY DEF BusInit
  <2>3. Unsubscribed \in Wake /\ Unsubscribed.registered = Closed.follow
    BY DEF Unsubscribed, Wake, Closed
  <2> QED BY <2>1, <2>2, <2>3 DEF BusInit, ReadersOK
<1>6. OneSource
  BY DEF BusInit, OneSource
<1> QED BY <1>2, <1>3, <1>4, <1>5, <1>6 DEF Inv

\* A fiber that gets the lock has nothing to show yet.
LEMMA LocksInv == ASSUME Inv, NEW f \in Fibers, Locks(f) PROVE Inv'
<1>1. FibersOK /\ LiveOK /\ lock = None /\ fiber[f].pc = "idle" /\ lock' = f
  BY DEF Inv, Locks
<1>2. PICK op \in Ops : fiber' = [fiber EXCEPT ![f].pc = "committing", ![f].op = op]
  BY DEF Locks
<1>3. lock # f /\ lock \notin Fibers
  BY <1>1, FibersAssumption DEF None
<1>4. fiber[f] = Idle /\ fiber \in [Fibers -> Fiber] /\ Pending = <<>>
  BY <1>1, <1>3 DEF FibersOK, FiberOK, Pending
<1> DEFINE x == [pc |-> "committing", op |-> op, pending |-> <<>>]
<1>5. x \in Fiber
  <2>1. <<>> \in Seq(Nat)
    OBVIOUS
  <2> QED BY <2>1 DEF Fiber
<1>6. fiber' = [fiber EXCEPT ![f] = x]
  <2>1. [fiber[f] EXCEPT !.pc = "committing", !.op = op] = x
    <3>1. [Idle EXCEPT !.pc = "committing"] = [pc |-> "committing", op |-> None, pending |-> <<>>]
      BY DEF Idle
    <3>2. [[pc |-> "committing", op |-> None, pending |-> <<>>] EXCEPT !.op = op] = x
      OBVIOUS
    <3> QED BY <1>4, <3>1, <3>2
  <2>2. fiber' = [fiber EXCEPT ![f] = [fiber[f] EXCEPT !.pc = "committing", !.op = op]]
    BY <1>2, <1>4
  <2> HIDE DEF x
  <2> QED BY <2>1, <2>2
<1>7. x.pc # "idle" /\ x.pending = <<>>
  OBVIOUS
<1> HIDE DEF x
<1>8. FibersOK' /\ Pending' = Pending
  BY <1>1, <1>4, <1>5, <1>6, <1>7, Holds
<1>9. LiveOK'
  BY <1>1, <1>8, NothingShown DEF Locks
<1> QED BY <1>8, <1>9, LogKept DEF Locks, Inv, LogOK

\* What a transaction appends.
LEMMA Grows ==
  ASSUME log \in Seq(Kinds), NEW events \in Seq(Kinds), NEW reserved \in Seq(Kinds),
         log' = log \o events \o reserved
  PROVE  /\ log' \in Seq(Kinds) /\ Len(log') = Len(log) + Len(events) + Len(reserved)
         /\ \A i \in 1..Len(log) : log'[i] = log[i]
         /\ \A i \in 1..Len(events) : log'[Len(log) + i] = events[i]
         /\ \A i \in (Len(log) + Len(events) + 1)..Len(log') :
              log'[i] = reserved[i - (Len(log) + Len(events))]
<1>1. Len(log) \in Nat /\ Len(events) \in Nat /\ Len(reserved) \in Nat
  OBVIOUS
<1> DEFINE u == log \o events
           v == u \o reserved
<1>2. /\ u \in Seq(Kinds) /\ Len(u) = Len(log) + Len(events)
      /\ \A i \in 1..(Len(log) + Len(events)) : u[i] = IF i <= Len(log) THEN log[i] ELSE events[i - Len(log)]
  BY ConcatProperties
<1> HIDE DEF u
<1>3. /\ v \in Seq(Kinds) /\ Len(v) = Len(u) + Len(reserved)
      /\ \A i \in 1..(Len(u) + Len(reserved)) : v[i] = IF i <= Len(u) THEN u[i] ELSE reserved[i - Len(u)]
  <2>1. u \in Seq(Kinds) /\ Len(u) = Len(log) + Len(events)
    BY <1>2
  <2> QED BY <2>1, ConcatProperties, ZenonT(40)
<1>4. log' = v
  BY DEF u
<1> HIDE DEF v
<1>5. ASSUME NEW i \in 1..Len(log) PROVE v[i] = log[i]
  BY <1>1, <1>2, <1>3
<1>6. ASSUME NEW i \in 1..Len(events) PROVE v[Len(log) + i] = events[i]
  <2>1. /\ Len(log) + i \in 1..(Len(log) + Len(events)) /\ Len(log) + i <= Len(u)
        /\ Len(log) + i \in 1..(Len(u) + Len(reserved))
        /\ ~(Len(log) + i <= Len(log)) /\ (Len(log) + i) - Len(log) = i
    BY <1>1, <1>2
  <2> QED BY <1>2, <1>3, <2>1
<1>7. ASSUME NEW i \in (Len(log) + Len(events) + 1)..Len(v)
      PROVE  v[i] = reserved[i - (Len(log) + Len(events))]
  <2>1. i \in 1..(Len(u) + Len(reserved)) /\ ~(i <= Len(u))
    BY <1>1, <1>2, <1>3
  <2> QED BY <1>2, <1>3, <2>1
<1> QED BY <1>1, <1>2, <1>3, <1>4, <1>5, <1>6, <1>7

\* The reserved position is a gap, and the log keeps its kinds.
LEMMA ReservedGap ==
  ASSUME NEW reserved \in {<<>>, <<"gap">>}
  PROVE  reserved \in Seq(Kinds) /\ \A i \in 1..Len(reserved) : reserved[i] = "gap"
<1>1. "gap" \in Kinds
  BY DEF Kinds
<1>2. <<"gap">> \in Seq(Kinds) /\ <<>> \in Seq(Kinds)
  BY <1>1
<1>3. Len(<<"gap">>) = 1 /\ <<"gap">>[1] = "gap" /\ Len(<<>>) = 0
  OBVIOUS
<1>4. CASE reserved = <<>>
  BY <1>2, <1>3, <1>4
<1>5. CASE reserved = <<"gap">>
  BY <1>2, <1>3, <1>5
<1> QED BY <1>4, <1>5

\* A fiber that committed.
LEMMA Committed ==
  ASSUME NEW x \in Fiber, NEW p
  PROVE  [x EXCEPT !.pc = "waking", !.pending = p] = [pc |-> "waking", op |-> x.op, pending |-> p]
<1>1. PICK a, b, c : x = [pc |-> a, op |-> b, pending |-> c]
  BY DEF Fiber
<1>2. [[pc |-> a, op |-> b, pending |-> c] EXCEPT !.pc = "waking"] = [pc |-> "waking", op |-> b, pending |-> c]
  OBVIOUS
<1>3. [[pc |-> "waking", op |-> b, pending |-> c] EXCEPT !.pending = p] = [pc |-> "waking", op |-> b, pending |-> p]
  OBVIOUS
<1>4. x.op = b
  BY <1>1
<1> QED BY <1>1, <1>2, <1>3, <1>4

\* A commit appends events that its owner, or a local publisher, stands for.
LEMMA AppendsInv ==
  ASSUME Inv, NEW f \in Fibers, fiber[f].pc = "committing",
         NEW events \in Seq(Kinds), NEW reserved \in {<<>>, <<"gap">>},
         NEW source \in Owners \cup {None}, NEW notify \in BOOLEAN,
         Appends(f, events, reserved, source, notify),
         \A i \in 1..Len(events) :
           \/ events[i] = "local"
           \/ ~Fenced(source) /\ events[i] = IF source = None THEN "unowned" ELSE source
  PROVE  Inv'
<1>1. LogOK /\ FibersOK /\ LiveOK /\ ReadersOK /\ OneSource
  BY DEF Inv
<1>2. /\ lock = f /\ fiber[f] \in Fiber /\ Pending = <<>> /\ fiber[f].pc # "idle"
      /\ fiber[f] = [pc |-> fiber[f].pc, op |-> fiber[f].op, pending |-> fiber[f].pending]
      /\ fiber[f].op \in Ops \cup {None}
  BY <1>1, Holder DEF Fiber
<1>3. reserved \in Seq(Kinds) /\ \A i \in 1..Len(reserved) : reserved[i] = "gap"
  BY ReservedGap
<1> DEFINE pending == IF notify THEN [i \in 1..Len(events) |-> Len(log) + i] ELSE <<>>
<1>4. /\ Len(log) + Len(events) + Len(reserved) <= MaxEvents
      /\ log' = log \o events \o reserved
      /\ Takes(source)
      /\ fiber' = [fiber EXCEPT ![f].pc = "waking", ![f].pending = pending]
      /\ quiet' = quiet \cup (((Len(log) + 1)..Len(log')) \ ToSet(pending))
      /\ UNCHANGED <<lock, wake, reader, live>>
  BY DEF Appends
<1>5. /\ pending \in Seq(Nat) /\ Len(pending) \in Nat /\ Len(pending) <= Len(events)
      /\ \A i \in 1..Len(pending) : pending[i] = Len(log) + i
  <2>1. Len(log) \in Nat /\ Len(events) \in Nat
    BY <1>1 DEF LogOK
  <2>2. CASE notify
    <3>1. \A i \in 1..Len(events) : Len(log) + i \in Nat
      BY <2>1
    <3>2. [i \in 1..Len(events) |-> Len(log) + i] \in Seq(Nat)
      BY <2>1, <3>1, IsASeq
    <3> QED BY <2>1, <2>2, <3>2
  <2>3. CASE ~notify
    <3>1. <<>> \in Seq(Nat) /\ Len(<<>>) = 0
      OBVIOUS
    <3> QED BY <2>1, <2>3, <3>1
  <2> QED BY <2>2, <2>3
<1> HIDE DEF pending
<1>6. /\ log' \in Seq(Kinds) /\ Len(log') = Len(log) + Len(events) + Len(reserved)
      /\ \A i \in 1..Len(log) : log'[i] = log[i]
      /\ \A i \in 1..Len(events) : log'[Len(log) + i] = events[i]
      /\ \A i \in (Len(log) + Len(events) + 1)..Len(log') :
           log'[i] = reserved[i - (Len(log) + Len(events))]
  BY <1>1, <1>3, <1>4, Grows DEF LogOK
<1>7. Len(log) \in Nat /\ Len(events) \in Nat /\ Len(reserved) \in Nat /\ Len(log') \in Nat
  BY <1>1, <1>3, <1>6 DEF LogOK
<1>8. LogOK'
  <2>1. owner' \in Owners \cup {None} /\ claimed' \in 0..Len(log')
    BY <1>1, <1>4, <1>6, <1>7 DEF LogOK, Takes
  <2>2. quiet' \in SUBSET (1..Len(log'))
    <3>1. \A i \in 1..Len(log) : i \in 1..Len(log')
      BY <1>6, <1>7
    <3>2. \A i \in (Len(log) + 1)..Len(log') : i \in 1..Len(log')
      BY <1>7
    <3> QED BY <1>1, <1>4, <3>1, <3>2 DEF LogOK
  <2> QED BY <1>4, <1>6, <2>1, <2>2 DEF LogOK
<1>9. FibersOK' /\ Pending' = pending
  <2> DEFINE x == [pc |-> "waking", op |-> fiber[f].op, pending |-> pending]
  <2>1. x \in Fiber
    BY <1>2, <1>5 DEF Fiber
  <2>2. fiber' = [fiber EXCEPT ![f] = x]
    <3>1. [fiber[f] EXCEPT !.pc = "waking", !.pending = pending] = x
      BY <1>2, Committed
    <3>2. fiber' = [fiber EXCEPT ![f] = [fiber[f] EXCEPT !.pc = "waking", !.pending = pending]]
      BY <1>1, <1>4 DEF FibersOK
    <3> HIDE DEF x
    <3> QED BY <3>1, <3>2
  <2>3. x.pc = "waking" /\ x.pending = pending
    OBVIOUS
  <2> HIDE DEF x
  <2>4. lock \in {f, None} /\ lock' = f
    BY <1>2, <1>4
  <2> QED BY <1>1, <2>1, <2>2, <2>3, <2>4, Holds
<1>10. LiveOK'
  <2>1. live \in Seq(Nat) /\ Shows(live, (1..Len(log)) \ quiet)
    BY <1>1, <1>2, ConcatEmptySeq DEF LiveOK
  <2>2. Shows(live \o pending, ((1..Len(log)) \ quiet) \cup ToSet(pending))
    <3>1. ((1..Len(log)) \ quiet) \in SUBSET (1..Len(log))
      OBVIOUS
    <3> QED BY <1>5, <1>7, <2>1, <3>1, ShowsMore
  <2>3. ToSet(pending) \in SUBSET ((Len(log) + 1)..Len(log'))
    <3>1. ToSet(pending) = {pending[i] : i \in 1..Len(pending)}
      BY <1>5 DEF ToSet
    <3> QED BY <1>5, <1>6, <1>7, <3>1
  <2>4. ASSUME NEW p
        PROVE  p \in (1..Len(log')) \ quiet' <=> p \in ((1..Len(log)) \ quiet) \cup ToSet(pending)
    <3>1. \A i : i \in 1..Len(log') <=> i \in 1..Len(log) \/ i \in (Len(log) + 1)..Len(log')
      BY <1>6, <1>7
    <3>2. \A i : ~(i \in 1..Len(log) /\ i \in (Len(log) + 1)..Len(log'))
      BY <1>7
    <3>3. \A i \in quiet : i \in 1..Len(log)
      BY <1>1 DEF LogOK
    <3> QED BY <1>4, <2>3, <3>1, <3>2, <3>3
  <2>5. (1..Len(log')) \ quiet' = ((1..Len(log)) \ quiet) \cup ToSet(pending)
    BY <2>4
  <2>6. live' \o Pending' = live \o pending
    BY <1>4, <1>9
  <2> QED BY <1>4, <2>1, <2>2, <2>5, <2>6 DEF LiveOK
<1>11. ReadersOK'
  <2>1. Len(log) <= Len(log')
    BY <1>6, <1>7
  <2> QED BY <1>1, <1>4, <1>6, <1>7, <2>1, ReadersKept
<1>12. OneSource'
  <2> SUFFICES ASSUME owner' # None, NEW i \in (claimed' + 1)..Len(log')
               PROVE  log'[i] \in {"local", "gap", owner'}
    BY DEF OneSource
  <2>1. claimed \in 0..Len(log)
    BY <1>1 DEF LogOK
  <2>2. CASE i \in (Len(log) + 1)..(Len(log) + Len(events))
    <3>1. i - Len(log) \in 1..Len(events) /\ Len(log) + (i - Len(log)) = i
      BY <1>7, <2>2
    <3>2. log'[i] = events[i - Len(log)]
      BY <1>6, <3>1
    <3>3. CASE events[i - Len(log)] = "local"
      BY <3>2, <3>3
    <3>4. CASE ~Fenced(source) /\ events[i - Len(log)] = IF source = None THEN "unowned" ELSE source
      <4>1. source = owner'
        BY <1>4, <3>4 DEF Fenced, Takes
      <4> QED BY <3>2, <3>4, <4>1
    <3> QED BY <3>1, <3>3, <3>4
  <2>3. CASE i \in (Len(log) + Len(events) + 1)..Len(log')
    <3>1. i - (Len(log) + Len(events)) \in 1..Len(reserved)
      BY <1>6, <1>7, <2>3
    <3> QED BY <1>3, <1>6, <2>3, <3>1
  <2>4. CASE i <= Len(log)
    <3>1. owner' = owner /\ claimed' = claimed
      BY <1>4, <1>7, <2>4 DEF Takes
    <3>2. i \in (claimed + 1)..Len(log) /\ i \in 1..Len(log)
      BY <1>7, <2>1, <2>4, <3>1
    <3> QED BY <1>1, <1>6, <3>1, <3>2 DEF OneSource
  <2>5. claimed' \in 0..Len(log')
    BY <1>8 DEF LogOK
  <2> QED BY <1>6, <1>7, <2>2, <2>3, <2>4, <2>5
<1> QED BY <1>8, <1>9, <1>10, <1>11, <1>12 DEF Inv

\* Whichever operation commits appends one event or more, for whom it may.
LEMMA CommitAppends ==
  ASSUME NEW f \in Fibers, Commits(f)
  PROVE  \E events \in Seq(Kinds), reserved \in {<<>>, <<"gap">>},
            source \in Owners \cup {None}, notify \in BOOLEAN :
           /\ Appends(f, events, reserved, source, notify)
           /\ Len(events) > 0
           /\ \A i \in 1..Len(events) :
                \/ events[i] = "local"
                \/ ~Fenced(source) /\ events[i] = IF source = None THEN "unowned" ELSE source
<1>1. \A reserved \in Reservations : reserved \in {<<>>, <<"gap">>}
  BY DEF Reservations
<1>2. ASSUME NEW k \in Kinds
      PROVE  <<k>> \in Seq(Kinds) /\ Len(<<k>>) > 0 /\ \A i \in 1..Len(<<k>>) : <<k>>[i] = k
  OBVIOUS
<1>3. "local" \in Kinds /\ "unowned" \in Kinds /\ \A o \in Owners : o \in Kinds
  BY DEF Kinds
<1>4. CASE \E reserved \in Reservations : Appends(f, <<"local">>, reserved, None, TRUE)
  <2>1. PICK reserved \in {<<>>, <<"gap">>} : Appends(f, <<"local">>, reserved, None, TRUE)
    BY <1>1, <1>4
  <2>2. /\ <<"local">> \in Seq(Kinds) /\ Len(<<"local">>) > 0
        /\ \A i \in 1..Len(<<"local">>) : <<"local">>[i] = "local"
    BY <1>2, <1>3
  <2>3. None \in Owners \cup {None} /\ TRUE \in BOOLEAN
    OBVIOUS
  <2> QED BY <2>1, <2>2, <2>3
<1>5. CASE Appends(f, [i \in 1..BatchSize |-> "local"], <<>>, None, TRUE)
  <2> DEFINE e == [i \in 1..BatchSize |-> "local"]
  <2>1. e \in Seq(Kinds) /\ Len(e) = BatchSize /\ \A i \in 1..Len(e) : e[i] = "local"
    BY <1>3, SizesAssumption, IsASeq
  <2>2. Appends(f, e, <<>>, None, TRUE)
    BY <1>5
  <2> HIDE DEF e
  <2>3. <<>> \in {<<>>, <<"gap">>} /\ None \in Owners \cup {None} /\ TRUE \in BOOLEAN /\ Len(e) > 0
    BY <2>1, SizesAssumption
  <2> QED BY <2>1, <2>2, <2>3
<1>6. CASE \E source \in Owners \cup {None}, notify \in BOOLEAN, reserved \in Reservations :
             ~Fenced(source)
               /\ Appends(f, <<IF source = None THEN "unowned" ELSE source>>, reserved, source, notify)
  <2>1. PICK source \in Owners \cup {None}, notify \in BOOLEAN, reserved \in {<<>>, <<"gap">>} :
             ~Fenced(source)
               /\ Appends(f, <<IF source = None THEN "unowned" ELSE source>>, reserved, source, notify)
    BY <1>1, <1>6
  <2> DEFINE k == IF source = None THEN "unowned" ELSE source
  <2>2. k \in Kinds
    BY <1>3
  <2>3. Appends(f, <<k>>, reserved, source, notify) /\ ~Fenced(source)
    BY <2>1
  <2>4. <<k>> \in Seq(Kinds) /\ Len(<<k>>) > 0 /\ \A i \in 1..Len(<<k>>) : <<k>>[i] = k
    BY <1>2, <2>2
  <2>5. \A i \in 1..Len(<<k>>) : ~Fenced(source) /\ <<k>>[i] = IF source = None THEN "unowned" ELSE source
    BY <2>3, <2>4
  <2> HIDE DEF k
  <2> QED BY <2>3, <2>4, <2>5
<1> QED BY <1>4, <1>5, <1>6 DEF Commits

\* A commit.
LEMMA CommitsInv == ASSUME Inv, NEW f \in Fibers, Commits(f) PROVE Inv'
<1>1. PICK events \in Seq(Kinds), reserved \in {<<>>, <<"gap">>},
           source \in Owners \cup {None}, notify \in BOOLEAN :
           /\ Appends(f, events, reserved, source, notify)
           /\ Len(events) > 0
           /\ \A i \in 1..Len(events) :
                \/ events[i] = "local"
                \/ ~Fenced(source) /\ events[i] = IF source = None THEN "unowned" ELSE source
  BY CommitAppends
<1>2. fiber[f].pc = "committing"
  BY DEF Commits
<1> QED BY <1>1, <1>2, AppendsInv

\* The lock is given back by who has nothing to show.
LEMMA GivesBack ==
  ASSUME Inv, NEW f \in Fibers, fiber[f].pc # "idle", fiber[f].pending = <<>>, Unlocks(f),
         UNCHANGED <<log, live, quiet>>
  PROVE  FibersOK' /\ LiveOK'
<1>1. FibersOK /\ LiveOK /\ lock = f /\ Pending = <<>>
  BY Holder DEF Inv
<1>2. FibersOK' /\ Pending' = Pending
  BY <1>1, Released
<1>3. LiveOK'
  BY <1>1, <1>2, NothingShown
<1> QED BY <1>2, <1>3

\* A duplicate changes at most the owner.
LEMMA DuplicatesInv == ASSUME Inv, NEW f \in Fibers, Duplicates(f) PROVE Inv'
<1>1. fiber[f].pc # "idle" /\ fiber[f].pending = <<>>
  <2>1. lock = f
    BY Holder DEF Inv, Duplicates
  <2> QED BY <2>1 DEF Inv, FibersOK, FiberOK, Duplicates
<1>2. FibersOK' /\ LiveOK'
  BY <1>1, GivesBack DEF Duplicates
<1>3. PICK source \in Owners \cup {None} : Takes(source)
  BY DEF Duplicates
<1>4. UNCHANGED <<log, wake, reader, live, quiet>>
  BY DEF Duplicates
<1>5. Len(log) \in Nat /\ LogOK /\ ReadersOK /\ OneSource
  BY DEF Inv, LogOK
<1>6. LogOK'
  BY <1>3, <1>4, <1>5 DEF LogOK, Takes
<1>7. ReadersOK'
  BY <1>4, <1>5, ReadersKept
<1>8. OneSource'
  <2> SUFFICES ASSUME owner' # None, NEW i \in (claimed' + 1)..Len(log') PROVE log'[i] \in {"local", "gap", owner'}
    BY DEF OneSource
  <2>1. CASE owner = None
    BY <1>3, <1>4, <1>5, <2>1 DEF Takes
  <2>2. CASE owner # None
    <3>1. owner' = owner /\ claimed' = claimed
      BY <1>3, <2>2 DEF Takes
    <3> QED BY <1>4, <1>5, <2>2, <3>1 DEF OneSource
  <2> QED BY <2>1, <2>2
<1> QED BY <1>2, <1>6, <1>7, <1>8 DEF Inv

\* Nothing is committed.
LEMMA RejectedInv == ASSUME Inv, NEW f \in Fibers, Rejected(f) PROVE Inv'
<1>1. fiber[f].pc # "idle" /\ fiber[f].pending = <<>>
  <2>1. lock = f
    BY Holder DEF Inv, Rejected
  <2> QED BY <2>1 DEF Inv, FibersOK, FiberOK, Rejected
<1>2. FibersOK' /\ LiveOK'
  BY <1>1, GivesBack DEF Rejected
<1> QED BY <1>2, LogKept DEF Rejected, Inv, LogOK

\* A signal that is set.
LEMMA Signalled ==
  ASSUME NEW w \in Wake, NEW b \in BOOLEAN
  PROVE  [w EXCEPT !.pending = b] \in Wake /\ [w EXCEPT !.pending = b].registered = w.registered
BY DEF Wake

\* A fiber that goes from waking to notifying, or shows what is pending.
LEMMA Advanced ==
  ASSUME NEW x \in Fiber, NEW p
  PROVE  /\ [x EXCEPT !.pc = p] = [pc |-> p, op |-> x.op, pending |-> x.pending]
         /\ [x EXCEPT !.pending = p] = [pc |-> x.pc, op |-> x.op, pending |-> p]
<1>1. PICK a, b, c : x = [pc |-> a, op |-> b, pending |-> c]
  BY DEF Fiber
<1>2. [[pc |-> a, op |-> b, pending |-> c] EXCEPT !.pc = p] = [pc |-> p, op |-> b, pending |-> c]
  OBVIOUS
<1>3. [[pc |-> a, op |-> b, pending |-> c] EXCEPT !.pending = p] = [pc |-> a, op |-> b, pending |-> p]
  OBVIOUS
<1>4. x.pc = a /\ x.op = b /\ x.pending = c
  BY <1>1
<1> QED BY <1>1, <1>2, <1>3, <1>4

\* The readers are woken.
LEMMA WakesInv == ASSUME Inv, NEW f \in Fibers, Wakes(f) PROVE Inv'
<1>1. /\ LogOK /\ FibersOK /\ LiveOK /\ ReadersOK /\ OneSource
      /\ fiber[f].pc = "waking"
      /\ wake' = [r \in Readers |-> [wake[r] EXCEPT !.pending = @ \/ Woken(r)]]
      /\ fiber' = [fiber EXCEPT ![f].pc = "notifying"]
      /\ UNCHANGED <<log, owner, claimed, lock, reader, live, quiet>>
  BY DEF Inv, Wakes
<1>2. lock = f /\ fiber[f] \in Fiber /\ Pending = fiber[f].pending /\ fiber \in [Fibers -> Fiber]
  BY <1>1, Holder DEF FibersOK
<1> DEFINE x == [pc |-> "notifying", op |-> fiber[f].op, pending |-> fiber[f].pending]
<1>3. x \in Fiber /\ x.pc = "notifying" /\ x.pending = fiber[f].pending
  BY <1>2 DEF Fiber
<1>4. fiber' = [fiber EXCEPT ![f] = x]
  <2>1. [fiber[f] EXCEPT !.pc = "notifying"] = x
    BY <1>2, Advanced
  <2>2. fiber' = [fiber EXCEPT ![f] = [fiber[f] EXCEPT !.pc = "notifying"]]
    BY <1>1, <1>2
  <2> HIDE DEF x
  <2> QED BY <2>1, <2>2
<1> HIDE DEF x
<1>5. FibersOK' /\ Pending' = Pending
  <2>1. lock \in {f, None} /\ lock' = f
    BY <1>1, <1>2
  <2> QED BY <1>1, <1>2, <1>3, <1>4, <2>1, Holds
<1>6. LiveOK'
  BY <1>1, <1>5, NothingShown
<1>7. ReadersOK'
  <2>1. ASSUME NEW r \in Readers PROVE wake'[r] \in Wake /\ wake'[r].registered = wake[r].registered
    <3> DEFINE b == wake[r].pending \/ wake[r].registered
    <3>1. wake[r] \in Wake
      BY <1>1 DEF ReadersOK
    <3>2. b \in BOOLEAN
      OBVIOUS
    <3>3. wake'[r] = [wake[r] EXCEPT !.pending = b]
      BY <1>1 DEF Woken
    <3> HIDE DEF b
    <3> QED BY <3>1, <3>2, <3>3, Signalled
  <2>2. wake' \in [Readers -> Wake]
    <3>1. wake' = [r \in Readers |-> wake'[r]]
      BY <1>1
    <3> QED BY <2>1, <3>1
  <2>3. ASSUME NEW r \in Readers PROVE ReaderOK(reader[r])'
    <3>1. ReaderOK(reader[r])
      BY <1>1 DEF ReadersOK
    <3> QED BY <1>1, <3>1 DEF ReaderOK
  <2> QED BY <1>1, <2>1, <2>2, <2>3 DEF ReadersOK
<1>8. LogOK' /\ OneSource'
  BY <1>1 DEF LogOK, OneSource
<1> QED BY <1>5, <1>6, <1>7, <1>8 DEF Inv

\* What is pending is in the log.
LEMMA PendingThere ==
  ASSUME LiveOK, NEW p \in Seq(Nat), Pending = p
  PROVE  ToSet(p) \in SUBSET (1..Len(log))
<1>1. live \in Seq(Nat) /\ Shows(live \o p, (1..Len(log)) \ quiet)
  BY DEF LiveOK
<1>2. Len(live) \in Nat /\ Len(p) \in Nat
  BY <1>1
<1>3. /\ Len(live \o p) = Len(live) + Len(p)
      /\ \A i \in 1..(Len(live) + Len(p)) : (live \o p)[i] = IF i <= Len(live) THEN live[i] ELSE p[i - Len(live)]
  BY <1>1, ConcatProperties
<1>4. ASSUME NEW i \in 1..Len(p) PROVE p[i] \in 1..Len(log)
  <2>1. /\ Len(live) + i \in 1..(Len(live) + Len(p))
        /\ ~(Len(live) + i <= Len(live)) /\ (Len(live) + i) - Len(live) = i
    BY <1>2
  <2>2. (live \o p)[Len(live) + i] = p[i]
    BY <1>3, <2>1
  <2>3. (live \o p)[Len(live) + i] \in (1..Len(log)) \ quiet
    BY <1>1, <1>3, <2>1 DEF Shows
  <2> QED BY <2>2, <2>3
<1>5. ToSet(p) = {p[i] : i \in 1..Len(p)}
  BY DEF ToSet
<1> QED BY <1>4, <1>5

\* The next pending event is shown, or the lock is given back.
LEMMA NotifiesInv == ASSUME Inv, NEW f \in Fibers, Notifies(f) PROVE Inv'
<1>1. /\ FibersOK /\ LiveOK /\ fiber[f].pc = "notifying"
      /\ UNCHANGED <<log, owner, claimed, wake, reader, quiet>>
  BY DEF Inv, Notifies
<1>2. lock = f /\ fiber[f] \in Fiber /\ Pending = fiber[f].pending /\ fiber \in [Fibers -> Fiber]
  BY <1>1, Holder DEF FibersOK
<1>3. quiet' \in SUBSET (1..Len(log))
  BY <1>1 DEF Inv, LogOK
<1>4. CASE fiber[f].pending = <<>>
  <2>1. Unlocks(f) /\ UNCHANGED live
    BY <1>4 DEF Notifies
  <2>2. FibersOK' /\ LiveOK'
    BY <1>1, <1>4, <2>1, GivesBack
  <2> QED BY <1>1, <1>3, <2>2, LogKept
<1>5. CASE fiber[f].pending # <<>>
  <2>1. /\ live' = Append(live, Head(fiber[f].pending))
        /\ fiber' = [fiber EXCEPT ![f].pending = Tail(@)]
        /\ UNCHANGED lock
    BY <1>5 DEF Notifies
  <2>2. PICK p : p = fiber[f].pending
    OBVIOUS
  <2>3. p \in Seq(Nat) /\ p # <<>> /\ live \in Seq(Nat)
    BY <1>1, <1>2, <1>5, <2>2 DEF Fiber, LiveOK
  <2>4. Head(p) \in Nat /\ Tail(p) \in Seq(Nat)
    BY <2>3, HeadTailProperties
  <2> DEFINE x == [pc |-> "notifying", op |-> fiber[f].op, pending |-> Tail(p)]
  <2>5. x \in Fiber /\ x.pc = "notifying" /\ x.pending = Tail(p)
    BY <1>2, <2>4 DEF Fiber
  <2>6. fiber' = [fiber EXCEPT ![f] = x]
    <3>1. [fiber[f] EXCEPT !.pending = Tail(p)] = x
      BY <1>1, <1>2, Advanced
    <3>2. fiber' = [fiber EXCEPT ![f] = [fiber[f] EXCEPT !.pending = Tail(p)]]
      BY <1>2, <2>1, <2>2
    <3> HIDE DEF x
    <3> QED BY <3>1, <3>2
  <2> HIDE DEF x
  <2>7. FibersOK' /\ Pending' = Tail(p)
    <3>1. lock \in {f, None} /\ lock' = f
      BY <1>2, <2>1
    <3> QED BY <1>1, <2>5, <2>6, <3>1, Holds
  <2>8. LiveOK'
    <3>1. live' \o Pending' = live \o Pending
      BY <1>2, <2>1, <2>2, <2>3, <2>7, ShowsNext
    <3>2. live' \in Seq(Nat)
      BY <2>1, <2>2, <2>3, <2>4, AppendProperties
    <3> QED BY <1>1, <3>1, <3>2 DEF LiveOK
  <2> QED BY <1>1, <1>3, <2>7, <2>8, LogKept
<1> QED BY <1>4, <1>5

\* What an interrupted publisher does not show is quiet.
LEMMA InterruptedInv == ASSUME Inv, NEW f \in Fibers, Interrupted(f) PROVE Inv'
<1>1. /\ FibersOK /\ LiveOK /\ fiber[f].pc = "notifying" /\ Unlocks(f)
      /\ quiet' = quiet \cup ToSet(fiber[f].pending)
      /\ UNCHANGED <<log, owner, claimed, wake, reader, live>>
  BY DEF Inv, Interrupted
<1>2. lock = f /\ fiber[f] \in Fiber /\ Pending = fiber[f].pending
  BY <1>1, Holder
<1>3. PICK p : p = fiber[f].pending
  OBVIOUS
<1>4. p \in Seq(Nat) /\ Pending = p /\ live \in Seq(Nat) /\ Shows(live \o p, (1..Len(log)) \ quiet)
  BY <1>1, <1>2, <1>3 DEF Fiber, LiveOK
<1>5. ToSet(p) \in SUBSET (1..Len(log)) /\ quiet' = quiet \cup ToSet(p)
  BY <1>1, <1>3, <1>4, PendingThere
<1>6. quiet' \in SUBSET (1..Len(log))
  BY <1>5 DEF Inv, LogOK
<1>7. FibersOK' /\ Pending' = <<>>
  BY <1>1, <1>2, Released
<1>8. LiveOK'
  <2>1. Shows(live, ((1..Len(log)) \ quiet) \ ToSet(p))
    BY <1>4, ShowsLess
  <2>2. ((1..Len(log)) \ quiet) \ ToSet(p) = (1..Len(log')) \ quiet'
    BY <1>1, <1>5
  <2>3. live' \o Pending' = live
    BY <1>1, <1>4, <1>7, ConcatEmptySeq
  <2> QED BY <1>1, <1>4, <2>1, <2>2, <2>3 DEF LiveOK
<1> QED BY <1>1, <1>6, <1>7, <1>8, LogKept

\* A claim takes the log as it is.
LEMMA ClaimInv == ASSUME Inv, NEW o \in Owners, Claim(o) PROVE Inv'
<1>1. LogOK /\ FibersOK /\ LiveOK /\ ReadersOK /\ Len(log) \in Nat
  BY DEF Inv, LogOK
<1>2. owner' = o /\ claimed' = Len(log) /\ UNCHANGED <<log, lock, fiber, wake, reader, live, quiet>>
  BY DEF Claim
<1>3. LogOK'
  BY <1>1, <1>2 DEF LogOK
<1>4. FibersOK' /\ LiveOK'
  BY <1>1, <1>2 DEF FibersOK, FiberOK, LiveOK, Pending
<1>5. ReadersOK'
  BY <1>1, <1>2, ReadersKept
<1>6. OneSource'
  BY <1>1, <1>2 DEF OneSource
<1> QED BY <1>3, <1>4, <1>5, <1>6 DEF Inv

-----------------------------------------------------------------------------
(* The steps of the readers *)

\* A stream with its fields.
Stream(state, follow, sequence, target, mark, seen) ==
  [state |-> state, follow |-> follow, sequence |-> sequence, target |-> target, mark |-> mark, seen |-> seen]

\* The fields of a stream, and what makes it a good one.
LEMMA StreamFields ==
  ASSUME NEW a, NEW b, NEW c, NEW d, NEW e, NEW g, NEW x, x = Stream(a, b, c, d, e, g)
  PROVE  /\ x.state = a /\ x.follow = b /\ x.sequence = c /\ x.target = d /\ x.mark = e /\ x.seen = g
         /\ ReaderOK(x) <=>
              /\ a \in {"closed", "open", "replaying", "replayed", "live", "woken", "tailing", "ended"}
              /\ b \in BOOLEAN /\ c \in Nat /\ d \in 0..Len(log)
              /\ a \in {"replaying", "replayed"} => d = e
              /\ a = "replayed" => \A i \in (c + 1)..d : log[i] = "gap"
<1>1. x.state = a /\ x.follow = b /\ x.sequence = c /\ x.target = d /\ x.mark = e /\ x.seen = g
  BY DEF Stream
<1>2. x = [state |-> x.state, follow |-> x.follow, sequence |-> x.sequence,
           target |-> x.target, mark |-> x.mark, seen |-> x.seen]
  BY <1>1 DEF Stream
<1> QED BY <1>1, <1>2 DEF ReaderOK

\* Every reader is a stream.
LEMMA IsStream ==
  ASSUME ReadersOK, NEW r \in Readers
  PROVE  /\ \E a, b, c, d, e, g : reader[r] = Stream(a, b, c, d, e, g)
         /\ ReaderOK(reader[r]) /\ wake[r] \in Wake /\ wake[r].registered = reader[r].follow
         /\ \A x : [reader EXCEPT ![r] = x] = [q \in Readers |-> IF q = r THEN x ELSE reader[q]]
<1>1. ReaderOK(reader[r]) /\ wake[r] \in Wake /\ wake[r].registered = reader[r].follow
  BY DEF ReadersOK
<1>2. reader[r] = Stream(reader[r].state, reader[r].follow, reader[r].sequence,
                         reader[r].target, reader[r].mark, reader[r].seen)
  BY <1>1 DEF ReaderOK, Stream
<1>3. DOMAIN reader = Readers
  BY DEF ReadersOK
<1> QED BY <1>1, <1>2, <1>3

\* A step of one reader leaves the rest of the bus alone.
LEMMA ReaderStep ==
  ASSUME Inv, NEW r \in Readers, UNCHANGED <<log, owner, claimed, lock, fiber, live, quiet>>,
         NEW x, ReaderOK(x), reader' = [reader EXCEPT ![r] = x],
         NEW w \in Wake, w.registered = x.follow, wake' = [wake EXCEPT ![r] = w]
  PROVE  Inv'
<1>1. LogOK' /\ FibersOK' /\ LiveOK' /\ OneSource'
  BY DEF Inv, LogOK, FibersOK, FiberOK, LiveOK, Pending, OneSource
<1>2. ReadersOK /\ reader' = [q \in Readers |-> IF q = r THEN x ELSE reader[q]]
  BY IsStream DEF Inv
<1>3. wake \in [Readers -> Wake]
  BY <1>2 DEF ReadersOK
<1>4. ASSUME NEW q \in Readers
      PROVE  ReaderOK(reader[q])' /\ wake'[q].registered = reader'[q].follow
  <2>1. ReaderOK(reader[q]) /\ wake[q].registered = reader[q].follow
    BY <1>2 DEF ReadersOK
  <2>2. CASE q = r
    <3>1. reader'[q] = x /\ wake'[q] = w
      BY <1>2, <1>3, <2>2
    <3>2. ReaderOK(reader[q])'
      BY <3>1 DEF ReaderOK
    <3> QED BY <3>1, <3>2
  <2>3. CASE q # r
    <3>1. reader'[q] = reader[q] /\ wake'[q] = wake[q]
      BY <1>2, <1>3, <2>3
    <3>2. ReaderOK(reader[q])'
      BY <2>1, <3>1 DEF ReaderOK
    <3> QED BY <2>1, <3>1, <3>2
  <2> QED BY <2>2, <2>3
<1>5. wake' \in [Readers -> Wake]
  BY <1>3
<1>6. reader' = [q \in Readers |-> reader'[q]]
  BY <1>2
<1>7. ReadersOK'
  BY <1>4, <1>5, <1>6 DEF ReadersOK
<1> QED BY <1>1, <1>7 DEF Inv

\* A step of one reader that keeps its signal.
LEMMA ReaderGoes ==
  ASSUME Inv, NEW r \in Readers, UNCHANGED <<log, owner, claimed, lock, fiber, wake, live, quiet>>,
         NEW x, ReaderOK(x), reader' = [reader EXCEPT ![r] = x], x.follow = reader[r].follow
  PROVE  Inv'
<1>1. wake[r] \in Wake /\ wake[r].registered = x.follow
  BY IsStream DEF Inv
<1>2. wake' = [wake EXCEPT ![r] = wake[r]]
  BY DEF Inv, ReadersOK
<1>3. PICK w : w = wake[r]
  OBVIOUS
<1> QED BY <1>1, <1>2, <1>3, ReaderStep

\* The stream that log opens.
LEMMA Opens ==
  ASSUME NEW after, NEW follow
  PROVE  [Closed EXCEPT !.state = "open", !.follow = follow, !.sequence = after]
           = Stream("open", follow, after, 0, 0, <<>>)
<1>1. Closed = Stream("closed", FALSE, 0, 0, 0, <<>>)
  BY DEF Closed, Stream
<1>2. [Stream("closed", FALSE, 0, 0, 0, <<>>) EXCEPT !.state = "open"] = Stream("open", FALSE, 0, 0, 0, <<>>)
  <2>1. \A b, n, s : [Stream("closed", b, n, n, n, s) EXCEPT !.state = "open"] = Stream("open", b, n, n, n, s)
    BY DEF Stream
  <2> QED BY <2>1
<1>3. [Stream("open", FALSE, 0, 0, 0, <<>>) EXCEPT !.follow = follow] = Stream("open", follow, 0, 0, 0, <<>>)
  BY DEF Stream
<1>4. [Stream("open", follow, 0, 0, 0, <<>>) EXCEPT !.sequence = after] = Stream("open", follow, after, 0, 0, <<>>)
  BY DEF Stream
<1> QED BY <1>1, <1>2, <1>3, <1>4

\* A reader that opens its stream is registered if it follows, and has seen nothing.
LEMMA OpenInv == ASSUME Inv, NEW r \in Readers, Open(r) PROVE Inv'
<1>1. PICK after \in 0..Len(log), follow \in BOOLEAN :
        /\ reader' = [reader EXCEPT ![r] = [Closed EXCEPT !.state = "open", !.follow = follow, !.sequence = after]]
        /\ wake' = [wake EXCEPT ![r].registered = follow]
  BY DEF Open
<1> DEFINE x == Stream("open", follow, after, 0, 0, <<>>)
<1>2. reader' = [reader EXCEPT ![r] = x]
  BY <1>1, Opens
<1>3. ReaderOK(x) /\ x.follow = follow
  BY StreamFields DEF Inv, LogOK
<1>4. wake \in [Readers -> Wake] /\ wake[r] \in Wake
  BY DEF Inv, ReadersOK
<1> HIDE DEF x
<1>5. PICK w : w = [wake[r] EXCEPT !.registered = follow]
  OBVIOUS
<1>6. w \in Wake /\ w.registered = follow
  BY <1>4, <1>5 DEF Wake
<1>7. wake' = [wake EXCEPT ![r] = w]
  BY <1>1, <1>4, <1>5
<1> QED BY <1>2, <1>3, <1>6, <1>7, ReaderStep DEF Open

\* The first look at the log sets the watermark.
LEMMA Looks ==
  ASSUME NEW r \in Readers, ReadersOK, Look(r),
         NEW a, NEW b, NEW c, NEW d, NEW e, NEW g, reader[r] = Stream(a, b, c, d, e, g)
  PROVE  a = "open" /\ reader' = [reader EXCEPT ![r] = Stream("replaying", b, c, Len(log), Len(log), g)]
<1>1. a = "open"
  BY StreamFields DEF Look
<1>2. PICK n : n = Len(log)
  OBVIOUS
<1>3. [Stream(a, b, c, d, e, g) EXCEPT !.state = "replaying"] = Stream("replaying", b, c, d, e, g)
  BY DEF Stream
<1>4. [Stream("replaying", b, c, d, e, g) EXCEPT !.target = n] = Stream("replaying", b, c, n, e, g)
  BY DEF Stream
<1>5. [Stream("replaying", b, c, n, e, g) EXCEPT !.mark = n] = Stream("replaying", b, c, n, n, g)
  BY DEF Stream
<1>6. reader' = [reader EXCEPT ![r] = [reader[r] EXCEPT !.state = "replaying", !.target = n, !.mark = n]]
  BY <1>2, IsStream DEF Look
<1>7. [reader[r] EXCEPT !.state = "replaying", !.target = n, !.mark = n] = Stream("replaying", b, c, n, n, g)
  BY <1>3, <1>4, <1>5
<1> QED BY <1>1, <1>2, <1>6, <1>7

\* The watermark of a reader is the length of the log.
LEMMA LookInv == ASSUME Inv, NEW r \in Readers, Look(r) PROVE Inv'
<1>1. ReadersOK /\ Len(log) \in Nat
  BY DEF Inv, LogOK
<1>2. PICK a, b, c, d, e, g : reader[r] = Stream(a, b, c, d, e, g)
  BY <1>1, IsStream
<1>3. ReaderOK(reader[r])
  BY <1>1, IsStream
<1>4. b \in BOOLEAN /\ c \in Nat /\ reader[r].follow = b
  BY <1>2, <1>3, StreamFields
<1> DEFINE x == Stream("replaying", b, c, Len(log), Len(log), g)
<1>5. reader' = [reader EXCEPT ![r] = x]
  BY <1>1, <1>2, Looks
<1>6. ReaderOK(x) /\ x.follow = b
  <2>1. PICK n : n = Len(log)
    OBVIOUS
  <2>2. ReaderOK(Stream("replaying", b, c, n, n, g)) /\ Stream("replaying", b, c, n, n, g).follow = b
    BY <1>1, <1>4, <2>1, StreamFields
  <2> QED BY <2>1, <2>2
<1> HIDE DEF x
<1>7. UNCHANGED <<log, owner, claimed, lock, fiber, wake, live, quiet>>
  BY DEF Look
<1> QED BY <1>4, <1>5, <1>6, <1>7, ReaderGoes

\* After the marker a follower is live, and another stream ends.
LEMMA Marks ==
  ASSUME NEW r \in Readers, ReadersOK, Marker(r),
         NEW a, NEW b, NEW c, NEW d, NEW e, NEW g, reader[r] = Stream(a, b, c, d, e, g)
  PROVE  a = "replayed" /\ reader' = [reader EXCEPT ![r] = Stream(IF b THEN "live" ELSE "ended", b, c, d, e, g)]
<1>1. a = "replayed" /\ reader[r].follow = b
  BY StreamFields DEF Marker
<1>2. PICK s : s = IF b THEN "live" ELSE "ended"
  OBVIOUS
<1>3. [Stream(a, b, c, d, e, g) EXCEPT !.state = s] = Stream(s, b, c, d, e, g)
  BY DEF Stream
<1>4. reader' = [reader EXCEPT ![r] = [reader[r] EXCEPT !.state = s]]
  BY <1>1, <1>2, IsStream DEF Marker
<1> QED BY <1>1, <1>2, <1>3, <1>4

\* The marker comes when the pages have reached the watermark.
LEMMA MarkerInv == ASSUME Inv, NEW r \in Readers, Marker(r) PROVE Inv'
<1>1. ReadersOK
  BY DEF Inv
<1>2. PICK a, b, c, d, e, g : reader[r] = Stream(a, b, c, d, e, g)
  BY <1>1, IsStream
<1>3. ReaderOK(reader[r])
  BY <1>1, IsStream
<1>4. b \in BOOLEAN /\ c \in Nat /\ d \in 0..Len(log) /\ reader[r].follow = b
  BY <1>2, <1>3, StreamFields
<1>5. PICK s : s = IF b THEN "live" ELSE "ended"
  OBVIOUS
<1> DEFINE x == Stream(s, b, c, d, e, g)
<1>6. reader' = [reader EXCEPT ![r] = x]
  BY <1>1, <1>2, <1>5, Marks
<1>7. ReaderOK(x) /\ x.follow = b
  <2>1. s \in {"live", "ended"}
    BY <1>5
  <2> QED BY <1>4, <2>1, StreamFields
<1> HIDE DEF x
<1>8. UNCHANGED <<log, owner, claimed, lock, fiber, wake, live, quiet>>
  BY DEF Marker
<1> QED BY <1>4, <1>6, <1>7, <1>8, ReaderGoes

\* A follower takes its signal.
LEMMA Wakens ==
  ASSUME NEW r \in Readers, ReadersOK, TakesWake(r),
         NEW a, NEW b, NEW c, NEW d, NEW e, NEW g, reader[r] = Stream(a, b, c, d, e, g)
  PROVE  a = "live" /\ reader' = [reader EXCEPT ![r] = Stream("woken", b, c, d, e, g)]
<1>1. a = "live"
  BY StreamFields DEF TakesWake
<1>2. [Stream(a, b, c, d, e, g) EXCEPT !.state = "woken"] = Stream("woken", b, c, d, e, g)
  BY DEF Stream
<1>3. reader' = [reader EXCEPT ![r] = [reader[r] EXCEPT !.state = "woken"]]
  BY IsStream DEF TakesWake
<1> QED BY <1>1, <1>2, <1>3

\* A reader that takes its signal still looks at the log after it.
LEMMA TakesWakeInv == ASSUME Inv, NEW r \in Readers, TakesWake(r) PROVE Inv'
<1>1. ReadersOK
  BY DEF Inv
<1>2. PICK a, b, c, d, e, g : reader[r] = Stream(a, b, c, d, e, g)
  BY <1>1, IsStream
<1>3. ReaderOK(reader[r]) /\ wake[r] \in Wake /\ wake[r].registered = reader[r].follow /\ wake \in [Readers -> Wake]
  BY <1>1, IsStream DEF ReadersOK
<1>4. b \in BOOLEAN /\ c \in Nat /\ d \in 0..Len(log) /\ reader[r].follow = b
  BY <1>2, <1>3, StreamFields
<1> DEFINE x == Stream("woken", b, c, d, e, g)
<1>5. reader' = [reader EXCEPT ![r] = x]
  BY <1>1, <1>2, Wakens
<1>6. ReaderOK(x) /\ x.follow = b
  BY <1>4, StreamFields
<1> HIDE DEF x
<1>7. PICK w : w = [wake[r] EXCEPT !.pending = FALSE]
  OBVIOUS
<1>8. w \in Wake /\ w.registered = b
  BY <1>3, <1>4, <1>7, Signalled
<1>9. wake' = [wake EXCEPT ![r] = w]
  BY <1>3, <1>7 DEF TakesWake
<1>10. UNCHANGED <<log, owner, claimed, lock, fiber, live, quiet>>
  BY DEF TakesWake
<1> QED BY <1>5, <1>6, <1>8, <1>9, <1>10, ReaderStep

\* A woken follower reads up to the end of the log, if there is more.
LEMMA Follows ==
  ASSUME NEW r \in Readers, ReadersOK, Tails(r),
         NEW a, NEW b, NEW c, NEW d, NEW e, NEW g, reader[r] = Stream(a, b, c, d, e, g)
  PROVE  a = "woken" /\ \E s \in {"tailing", "live"} :
                          reader' = [reader EXCEPT ![r] = Stream(s, b, c, Len(log), e, g)]
<1>1. a = "woken"
  BY StreamFields DEF Tails
<1>2. PICK s \in {"tailing", "live"} : s = IF Len(log) > reader[r].sequence THEN "tailing" ELSE "live"
  OBVIOUS
<1>3. PICK n : n = Len(log)
  OBVIOUS
<1>4. [Stream(a, b, c, d, e, g) EXCEPT !.target = n] = Stream(a, b, c, n, e, g)
  BY DEF Stream
<1>5. [Stream(a, b, c, n, e, g) EXCEPT !.state = s] = Stream(s, b, c, n, e, g)
  BY DEF Stream
<1>6. reader' = [reader EXCEPT ![r] = [reader[r] EXCEPT !.target = n, !.state = s]]
  BY <1>2, <1>3, IsStream DEF Tails
<1>7. [reader[r] EXCEPT !.target = n, !.state = s] = Stream(s, b, c, n, e, g)
  BY <1>4, <1>5
<1> QED BY <1>1, <1>3, <1>6, <1>7

\* A woken reader aims at the end of the log, or stays where it is.
LEMMA TailsInv == ASSUME Inv, NEW r \in Readers, Tails(r) PROVE Inv'
<1>1. ReadersOK /\ Len(log) \in Nat
  BY DEF Inv, LogOK
<1>2. PICK a, b, c, d, e, g : reader[r] = Stream(a, b, c, d, e, g)
  BY <1>1, IsStream
<1>3. ReaderOK(reader[r])
  BY <1>1, IsStream
<1>4. b \in BOOLEAN /\ c \in Nat /\ reader[r].follow = b
  BY <1>2, <1>3, StreamFields
<1>5. PICK s \in {"tailing", "live"} : reader' = [reader EXCEPT ![r] = Stream(s, b, c, Len(log), e, g)]
  BY <1>1, <1>2, Follows
<1> DEFINE x == Stream(s, b, c, Len(log), e, g)
<1>6. ReaderOK(x) /\ x.follow = b
  <2>1. PICK n : n = Len(log)
    OBVIOUS
  <2>2. ReaderOK(Stream(s, b, c, n, e, g)) /\ Stream(s, b, c, n, e, g).follow = b
    BY <1>1, <1>4, <2>1, StreamFields
  <2> QED BY <2>1, <2>2
<1>7. reader' = [reader EXCEPT ![r] = x]
  BY <1>5
<1> HIDE DEF x
<1>8. UNCHANGED <<log, owner, claimed, lock, fiber, wake, live, quiet>>
  BY DEF Tails
<1> QED BY <1>4, <1>6, <1>7, <1>8, ReaderGoes

\* A closed stream is as it was before it was opened.
LEMMA CloseInv == ASSUME Inv, NEW r \in Readers, Close(r) PROVE Inv'
<1>1. Closed = Stream("closed", FALSE, 0, 0, 0, <<>>) /\ Len(log) \in Nat
  BY DEF Closed, Stream, Inv, LogOK
<1>2. ReaderOK(Closed) /\ Closed.follow = FALSE
  <2>1. 0 \in 0..Len(log)
    BY <1>1
  <2> QED BY <2>1 DEF Closed, ReaderOK
<1>3. Unsubscribed \in Wake /\ Unsubscribed.registered = FALSE
  BY DEF Unsubscribed, Wake
<1> QED BY <1>2, <1>3, ReaderStep DEF Close

\* The rows after a position, up to another.
RowsBetween(from, to) == {i \in (from + 1)..to : log[i] # "gap"}

\* A page is empty only when there are no rows, and is the rows up to its last.
LEMMA PageIsEvents ==
  ASSUME NEW c \in Nat, NEW d \in Nat
  PROVE  LET page == FirstOf(RowsBetween(c, d))
         IN  /\ page = {} => RowsBetween(c, d) = {}
             /\ page # {} => /\ Max(page) \in (c + 1)..d
                             /\ RowsBetween(c, Max(page)) = page
<1> DEFINE rows == RowsBetween(c, d)
           page == FirstOf(rows)
<1>1. rows \in SUBSET Nat /\ \A i \in rows : i <= d
  BY DEF RowsBetween
<1>2. \A i : i \in rows <=> i \in (c + 1)..d /\ log[i] # "gap"
  BY DEF RowsBetween
<1> HIDE DEF rows
<1>3. /\ page = {} => rows = {}
      /\ \A i \in page : \A j \in rows : j <= i => j \in page
  BY <1>1, PageOfRows
<1>4. page \in SUBSET rows
  BY DEF FirstOf
<1> HIDE DEF page
<1>5. ASSUME page # {}
      PROVE  Max(page) \in (c + 1)..d /\ RowsBetween(c, Max(page)) = page
  <2>1. page \in SUBSET Nat /\ \A i \in page : i <= d
    BY <1>1, <1>4
  <2>2. Max(page) \in page /\ \A i \in page : i <= Max(page)
    BY <1>5, <2>1, Greatest
  <2>3. PICK m : m = Max(page)
    OBVIOUS
  <2>4. m \in page /\ m \in rows /\ m \in (c + 1)..d /\ \A i \in page : i <= m
    BY <1>2, <1>4, <2>2, <2>3
  <2>5. ASSUME NEW i PROVE i \in RowsBetween(c, m) <=> i \in page
    <3>1. i \in RowsBetween(c, m) <=> i \in (c + 1)..m /\ log[i] # "gap"
      BY DEF RowsBetween
    <3>2. ASSUME i \in (c + 1)..m, log[i] # "gap" PROVE i \in page
      <4>1. i \in (c + 1)..d /\ i <= m
        BY <2>4, <3>2
      <4>2. i \in rows
        BY <1>2, <3>2, <4>1
      <4> QED BY <1>3, <2>4, <4>1, <4>2
    <3>3. ASSUME i \in page PROVE i \in (c + 1)..m /\ log[i] # "gap"
      <4>1. i \in (c + 1)..d /\ log[i] # "gap" /\ i <= m
        BY <1>2, <1>4, <2>4, <3>3
      <4> QED BY <2>4, <4>1
    <3> QED BY <3>1, <3>2, <3>3
  <2>6. RowsBetween(c, m) = page
    BY <2>5
  <2> QED BY <2>3, <2>4, <2>6
<1> QED BY <1>3, <1>5 DEF page, rows

\* What a page does to a stream: nothing is left, or the next events are seen.
PageDoes(r, a, b, c, d, e, g) ==
  /\ a \in {"replaying", "tailing"}
  /\ \E s, to, seen :
       /\ s \in {a, IF a = "replaying" THEN "replayed" ELSE "live"} /\ to \in Nat
       /\ reader' = [reader EXCEPT ![r] = Stream(s, b, to, d, e, seen)]
       /\ s = "replayed" => RowsBetween(to, d) = {}
       /\ \/ to = c /\ seen = g
          \/ /\ to \in (c + 1)..d /\ RowsBetween(c, to) # {}
             /\ seen = g \o InOrder(RowsBetween(c, to))

\* Positions are numbers.
LEMMA ArePositions ==
  /\ \A n \in Nat : \A x \in 0..n : x \in Nat
  /\ \A m, n \in Nat : \A x \in (m + 1)..n : x \in Nat
OBVIOUS

\* What a page does to its reader: it moves past the next events and no other.
LEMMA PageReads ==
  ASSUME Inv, NEW r \in Readers, ReadPage(r),
         NEW a, NEW b, NEW c, NEW d, NEW e, NEW g, reader[r] = Stream(a, b, c, d, e, g)
  PROVE  PageDoes(r, a, b, c, d, e, g)
<1>1. ReadersOK /\ ReaderOK(reader[r])
  BY IsStream DEF Inv
<1>2. /\ a = reader[r].state /\ b = reader[r].follow /\ c = reader[r].sequence
      /\ d = reader[r].target /\ g = reader[r].seen
      /\ c \in Nat /\ d \in 0..Len(log) /\ Len(log) \in Nat
  BY <1>1, StreamFields DEF Inv, LogOK
<1>3. d \in Nat
  BY <1>2, ArePositions, ZenonT(40)
<1>4. PICK page : page = Page(r)
  OBVIOUS
<1>5. page = FirstOf(RowsBetween(c, d))
  BY <1>2, <1>4 DEF Page, FirstOf, RowsBetween
<1>6. PICK last : last = IF page = {} THEN c ELSE Max(page)
  OBVIOUS
<1>7. PICK seen : seen = IF page = {} THEN g ELSE g \o InOrder(page)
  OBVIOUS
<1>8. PICK s : s = IF page # {} /\ last < d THEN a ELSE IF a = "replaying" THEN "replayed" ELSE "live"
  OBVIOUS
<1>9. a \in {"replaying", "tailing"}
  BY <1>2 DEF ReadPage
<1>10. reader' = [reader EXCEPT ![r] = Stream(s, b, last, d, e, seen)]
  <2>1. reader' = [reader EXCEPT ![r] = [reader[r] EXCEPT !.sequence = last, !.seen = seen, !.state = s]]
    BY <1>1, <1>2, <1>4, <1>6, <1>7, <1>8, IsStream DEF ReadPage
  <2>2. [Stream(a, b, c, d, e, g) EXCEPT !.sequence = last] = Stream(a, b, last, d, e, g)
    BY DEF Stream
  <2>3. [Stream(a, b, last, d, e, g) EXCEPT !.seen = seen] = Stream(a, b, last, d, e, seen)
    BY DEF Stream
  <2>4. [Stream(a, b, last, d, e, seen) EXCEPT !.state = s] = Stream(s, b, last, d, e, seen)
    BY DEF Stream
  <2>5. [reader[r] EXCEPT !.sequence = last, !.seen = seen, !.state = s] = Stream(s, b, last, d, e, seen)
    BY <2>2, <2>3, <2>4
  <2> QED BY <2>1, <2>5
<1>11. s \in {a, IF a = "replaying" THEN "replayed" ELSE "live"}
  BY <1>8
<1>12. CASE page = {}
  <2>1. RowsBetween(c, d) = {}
    BY <1>2, <1>3, <1>5, <1>12, PageIsEvents
  <2>2. last = c /\ seen = g
    BY <1>6, <1>7, <1>12
  <2> QED BY <1>2, <1>9, <1>10, <1>11, <2>1, <2>2 DEF PageDoes
<1>13. CASE page # {}
  <2>1. Max(page) \in (c + 1)..d /\ RowsBetween(c, Max(page)) = page
    BY <1>2, <1>3, <1>5, <1>13, PageIsEvents
  <2>2. last = Max(page) /\ seen = g \o InOrder(page)
    BY <1>6, <1>7, <1>13
  <2>3. last \in (c + 1)..d /\ RowsBetween(c, last) = page /\ last \in Nat
    <3>1. last \in (c + 1)..d /\ RowsBetween(c, last) = page
      BY <2>1, <2>2
    <3> QED BY <1>2, <1>3, <3>1, ArePositions, ZenonT(40)
  <2>4. s = "replayed" => RowsBetween(last, d) = {}
    <3>1. ASSUME s = "replayed" PROVE RowsBetween(last, d) = {}
      <4>1. ~(last < d)
        BY <1>8, <1>9, <1>13, <3>1
      <4>2. (last + 1)..d = {}
        BY <1>3, <2>3, <4>1
      <4> QED BY <4>2 DEF RowsBetween
    <3> QED BY <3>1
  <2> QED BY <1>9, <1>10, <1>11, <1>13, <2>2, <2>3, <2>4 DEF PageDoes
<1> QED BY <1>12, <1>13

\* A page keeps the invariant, whether it is the last one or not.
LEMMA ReadPageInv == ASSUME Inv, NEW r \in Readers, ReadPage(r) PROVE Inv'
<1>1. ReadersOK
  BY DEF Inv
<1>2. PICK a, b, c, d, e, g : reader[r] = Stream(a, b, c, d, e, g)
  BY <1>1, IsStream
<1>3. ReaderOK(reader[r])
  BY <1>1, IsStream
<1>4. b \in BOOLEAN /\ d \in 0..Len(log) /\ reader[r].follow = b /\ (a = "replaying" => d = e)
  BY <1>2, <1>3, StreamFields
<1>5. PageDoes(r, a, b, c, d, e, g)
  BY <1>2, PageReads
<1>6. PICK s, to, seen :
        /\ s \in {a, IF a = "replaying" THEN "replayed" ELSE "live"} /\ to \in Nat
        /\ reader' = [reader EXCEPT ![r] = Stream(s, b, to, d, e, seen)]
        /\ s = "replayed" => RowsBetween(to, d) = {}
  BY <1>5 DEF PageDoes
<1> DEFINE x == Stream(s, b, to, d, e, seen)
<1>7. ReaderOK(x) /\ x.follow = b
  <2>1. s \in {"replaying", "tailing", "replayed", "live"} /\ (s \in {"replaying", "replayed"} => d = e)
    BY <1>4, <1>5, <1>6 DEF PageDoes
  <2>2. s = "replayed" => \A i \in (to + 1)..d : log[i] = "gap"
    BY <1>6 DEF RowsBetween
  <2> QED BY <1>4, <1>6, <2>1, <2>2, StreamFields
<1>8. reader' = [reader EXCEPT ![r] = x]
  BY <1>6
<1> HIDE DEF x
<1>9. UNCHANGED <<log, owner, claimed, lock, fiber, wake, live, quiet>>
  BY DEF ReadPage
<1> QED BY <1>4, <1>7, <1>8, <1>9, ReaderGoes

-----------------------------------------------------------------------------
(* The invariants *)

\* Every step keeps the invariant.
LEMMA NextInv == ASSUME Inv, [BusNext]_busVars PROVE Inv'
<1>1. CASE UNCHANGED busVars
  <2>1. UNCHANGED <<log, owner, claimed, lock, fiber, wake, reader, live, quiet>>
    BY <1>1 DEF busVars
  <2>2. FibersOK' /\ LiveOK' /\ quiet' \in SUBSET (1..Len(log))
    BY <2>1 DEF Inv, FibersOK, FiberOK, LiveOK, Pending, LogOK
  <2> QED BY <2>1, <2>2, LogKept
<1>2. ASSUME NEW f \in Fibers, Locks(f) \/ Works(f) \/ Interrupted(f) PROVE Inv'
  BY <1>2, LocksInv, CommitsInv, DuplicatesInv, RejectedInv, WakesInv, NotifiesInv, InterruptedInv DEF Works
<1>3. ASSUME NEW o \in Owners, Claim(o) PROVE Inv'
  BY <1>3, ClaimInv
<1>4. ASSUME NEW r \in Readers, Open(r) \/ Reads(r) \/ Close(r) PROVE Inv'
  BY <1>4, OpenInv, LookInv, ReadPageInv, MarkerInv, TakesWakeInv, TailsInv, CloseInv DEF Reads
<1> QED BY <1>1, <1>2, <1>3, <1>4 DEF BusNext

\* The inductive invariant holds in every behaviour of the bus.
THEOREM BusInvariant == BusSpec => []Inv
<1>1. BusInit => Inv
  BY InitInv
<1>2. Inv /\ [BusNext]_busVars => Inv'
  BY NextInv
<1> QED BY <1>1, <1>2, PTL DEF BusSpec

\* The invariant implies the types.
LEMMA InvTypes == ASSUME Inv PROVE BusTypeOK
<1>1. LogOK /\ FibersOK /\ ReadersOK
  BY DEF Inv
<1>2. ASSUME NEW f \in Fibers PROVE fiber[f].pc \in {"committing", "waking", "notifying"} <=> lock = f
  <2>1. FiberOK(f) /\ fiber[f] \in Fiber
    BY <1>1 DEF FibersOK
  <2>2. CASE lock = f
    BY <2>1, <2>2 DEF FiberOK, Fiber
  <2>3. CASE lock # f
    BY <2>1, <2>3 DEF FiberOK, Idle
  <2> QED BY <2>2, <2>3
<1>3. \A r \in Readers : wake[r].registered <=> reader[r].follow
  BY <1>1 DEF ReadersOK
<1> QED BY <1>1, <1>2, <1>3 DEF BusTypeOK, LogOK, FibersOK, Kinds

\* The log, its owner, the lock and the signals have their types; who works holds
\* the lock, and exactly the followers are registered.
THEOREM BusTypes == BusSpec => []BusTypeOK
<1>1. Inv => BusTypeOK
  BY InvTypes
<1> QED BY <1>1, BusInvariant, PTL

\* The invariant implies the order of the live channel.
LEMMA InvLive == ASSUME Inv PROVE LiveInOrder
<1>1. LogOK /\ FibersOK /\ LiveOK
  BY DEF Inv
<1>2. Pending \in Seq(Nat)
  <2>1. CASE lock \in Fibers
    <3>1. fiber[lock] \in Fiber
      BY <1>1, <2>1 DEF FibersOK
    <3> QED BY <2>1, <3>1 DEF Pending, Fiber
  <2>2. CASE lock \notin Fibers
    <3>1. <<>> \in Seq(Nat)
      OBVIOUS
    <3> QED BY <2>2, <3>1 DEF Pending
  <2> QED BY <2>1, <2>2
<1>3. PICK p \in Seq(Nat) : p = Pending
  BY <1>2
<1>4. live \in Seq(Nat) /\ Shows(live \o p, (1..Len(log)) \ quiet)
  BY <1>1, <1>3 DEF LiveOK
<1>5. Shows(live, ((1..Len(log)) \ quiet) \ ToSet(p))
  BY <1>4, ShowsLess
<1>6. \A i \in 1..(Len(live) - 1) : live[i] < live[i + 1]
  <2> SUFFICES ASSUME NEW i \in 1..(Len(live) - 1) PROVE live[i] < live[i + 1]
    OBVIOUS
  <2>1. Len(live) \in Nat
    BY <1>4
  <2>2. i \in 1..Len(live) /\ i + 1 \in 1..Len(live) /\ i < i + 1
    BY <2>1
  <2> QED BY <1>5, <2>2 DEF Shows, Ascends
<1>7. ASSUME lock = None PROVE ToSet(live) = (1..Len(log)) \ quiet
  <2>1. p = <<>>
    BY <1>3, <1>7, FibersAssumption DEF Pending, None
  <2>2. ToSet(p) = {}
    <3>1. DOMAIN p = {}
      BY <2>1
    <3> QED BY <3>1 DEF ToSet
  <2>3. Shows(live, (1..Len(log)) \ quiet)
    BY <1>5, <2>2
  <2>4. ToSet(live) = {live[i] : i \in 1..Len(live)}
    BY <1>4 DEF ToSet
  <2>5. ASSUME NEW x PROVE x \in ToSet(live) <=> x \in (1..Len(log)) \ quiet
    BY <2>3, <2>4 DEF Shows
  <2> QED BY <2>5
<1> QED BY <1>6, <1>7 DEF LiveInOrder

\* For any fibers, batches and bound: the live channel shows events in the order
\* of their commits, and, while the lock is free, all but the quiet ones.
THEOREM LiveIsOrdered == BusSpec => []LiveInOrder
<1>1. Inv => LiveInOrder
  BY InvLive
<1> QED BY <1>1, BusInvariant, PTL

\* What is replayed since the owner was set comes from the owner.
THEOREM OwnersAreAlone == BusSpec => []OneSource
<1>1. Inv => OneSource
  BY DEF Inv
<1> QED BY <1>1, BusInvariant, PTL

-----------------------------------------------------------------------------
(* The bus implements the abstract log *)

\* The readers as the abstract log sees them.
LogReaders == [r \in Readers |-> LogReader(r)]

\* A stream as the abstract log sees it.
Logged(state, follow, sequence, mark, seen) ==
  [state |-> CASE state = "replayed" -> "replaying"
               [] state \in {"tailing", "woken"} -> "live"
               [] OTHER -> state,
   follow |-> follow, position |-> sequence, mark |-> mark, seen |-> seen]

\* The view of one stream is made of its fields.
LEMMA ViewOfStream ==
  ASSUME NEW r \in Readers, NEW a, NEW b, NEW c, NEW d, NEW e, NEW g, reader[r] = Stream(a, b, c, d, e, g)
  PROVE  LogReaders[r] = Logged(a, b, c, e, g)
<1>1. LogReaders[r] = LogReader(r)
  BY DEF LogReaders
<1>2. /\ reader[r].state = a /\ reader[r].follow = b /\ reader[r].sequence = c
      /\ reader[r].mark = e /\ reader[r].seen = g
  BY DEF Stream
<1> QED BY <1>1, <1>2 DEF LogReader, Logged

\* A step of one reader is a step of one abstract reader.
LEMMA ViewSteps ==
  ASSUME ReadersOK, NEW r \in Readers, NEW a, NEW b, NEW c, NEW d, NEW e, NEW g,
         reader' = [reader EXCEPT ![r] = Stream(a, b, c, d, e, g)]
  PROVE  LogReaders' = [LogReaders EXCEPT ![r] = Logged(a, b, c, e, g)]
<1>1. reader' = [q \in Readers |-> IF q = r THEN Stream(a, b, c, d, e, g) ELSE reader[q]]
  BY IsStream
<1>2. ASSUME NEW q \in Readers, q # r PROVE LogReader(q)' = LogReader(q)
  <2>1. reader'[q] = reader[q]
    BY <1>1, <1>2
  <2> QED BY <2>1 DEF LogReader
<1>3. LogReader(r)' = Logged(a, b, c, e, g)
  <2>1. reader'[r] = Stream(a, b, c, d, e, g)
    BY <1>1
  <2>2. /\ reader'[r].state = a /\ reader'[r].follow = b /\ reader'[r].sequence = c
        /\ reader'[r].mark = e /\ reader'[r].seen = g
    BY <2>1 DEF Stream
  <2> QED BY <2>2 DEF LogReader, Logged
<1>4. LogReaders' = [q \in Readers |-> IF q = r THEN Logged(a, b, c, e, g) ELSE LogReader(q)]
  BY <1>2, <1>3 DEF LogReaders
<1> QED BY <1>4 DEF LogReaders

\* Nothing happens in the abstract log while neither the log nor a reader changes.
LEMMA Stutters ==
  ASSUME UNCHANGED <<log, reader>> PROVE UNCHANGED Promised!vars
BY DEF Promised!vars, LogReader

\* A commit is an abstract commit.
LEMMA CommitsRefine == ASSUME Inv, NEW f \in Fibers, Commits(f) PROVE Promised!Commit
<1>1. PICK events \in Seq(Kinds), reserved \in {<<>>, <<"gap">>},
           source \in Owners \cup {None}, notify \in BOOLEAN :
           Appends(f, events, reserved, source, notify) /\ Len(events) > 0
  BY CommitAppends
<1>2. log' = log \o events \o reserved /\ UNCHANGED reader
  BY <1>1 DEF Appends
<1>3. log \in Seq(Kinds) /\ reserved \in Seq(Kinds)
  BY ReservedGap DEF Inv, LogOK
<1>4. /\ log' \in Seq(Kinds) /\ Len(log') = Len(log) + Len(events) + Len(reserved)
      /\ \A i \in 1..Len(log) : log'[i] = log[i]
  BY <1>2, <1>3, Grows
<1>5. Len(log) \in Nat /\ Len(log') \in Nat /\ Len(log') > Len(log)
  BY <1>1, <1>3, <1>4
<1>6. SubSeq(log, 1, Len(log)) = SubSeq(log', 1, Len(log))
  <2>1. \A i \in 1..Len(log) : i \in 1..Len(log')
    BY <1>5
  <2> QED BY <1>4, <1>5, <2>1
<1>7. IsPrefix(log, log')
  BY <1>5, <1>6 DEF IsPrefix
<1>8. UNCHANGED [r \in Readers |-> LogReader(r)]
  BY <1>2 DEF LogReader
<1> QED BY <1>5, <1>7, <1>8 DEF Promised!Commit, IsPrefix, Promised!IsPrefix

\* An open stream is an abstract one.
LEMMA OpenRefines == ASSUME Inv, NEW r \in Readers, Open(r) PROVE Promised!Open(r)
<1>1. PICK after \in 0..Len(log), follow \in BOOLEAN :
        reader' = [reader EXCEPT ![r] = [Closed EXCEPT !.state = "open", !.follow = follow, !.sequence = after]]
  BY DEF Open
<1>2. PICK z, s : z = 0 /\ s = <<>>
  OBVIOUS
<1>3. reader' = [reader EXCEPT ![r] = Stream("open", follow, after, z, z, s)]
  <2>1. [Closed EXCEPT !.state = "open", !.follow = follow, !.sequence = after] = Stream("open", follow, after, z, z, s)
    BY <1>2, Opens
  <2> QED BY <1>1, <2>1
<1>4. LogReaders' = [LogReaders EXCEPT ![r] = Logged("open", follow, after, z, s)]
  <2>1. ASSUME NEW x, NEW y, reader' = [reader EXCEPT ![r] = Stream("open", x, y, z, z, s)]
        PROVE  LogReaders' = [LogReaders EXCEPT ![r] = Logged("open", x, y, z, s)]
    BY <2>1, ViewSteps, ZenonT(40) DEF Inv
  <2> QED BY <1>3, <2>1
<1>5. PICK a, b, c, d, e, g : reader[r] = Stream(a, b, c, d, e, g)
  BY IsStream DEF Inv
<1>6. a = "closed"
  BY <1>5, StreamFields DEF Open
<1>7. LogReaders[r].state = "closed"
  <2>1. LogReaders[r] = Logged(a, b, c, e, g)
    BY <1>5, ViewOfStream
  <2> QED BY <1>6, <2>1 DEF Logged
<1>8. [Promised!Closed EXCEPT !.state = "open", !.follow = follow, !.position = after]
        = Logged("open", follow, after, z, s)
  <2>1. PICK n : n = FALSE
    OBVIOUS
  <2>2. Promised!Closed = [state |-> "closed", follow |-> n, position |-> z, mark |-> z, seen |-> s]
    BY <1>2, <2>1 DEF Promised!Closed
  <2>3. [[state |-> "closed", follow |-> n, position |-> z, mark |-> z, seen |-> s] EXCEPT !.state = "open"]
          = [state |-> "open", follow |-> n, position |-> z, mark |-> z, seen |-> s]
    OBVIOUS
  <2>4. [[state |-> "open", follow |-> n, position |-> z, mark |-> z, seen |-> s] EXCEPT !.follow = follow]
          = [state |-> "open", follow |-> follow, position |-> z, mark |-> z, seen |-> s]
    OBVIOUS
  <2>5. [[state |-> "open", follow |-> follow, position |-> z, mark |-> z, seen |-> s] EXCEPT !.position = after]
          = [state |-> "open", follow |-> follow, position |-> after, mark |-> z, seen |-> s]
    OBVIOUS
  <2>6. Logged("open", follow, after, z, s)
          = [state |-> "open", follow |-> follow, position |-> after, mark |-> z, seen |-> s]
    BY DEF Logged
  <2> QED BY <2>2, <2>3, <2>4, <2>5, <2>6
<1>9. LogReaders' = [LogReaders EXCEPT ![r] = [Promised!Closed EXCEPT !.state = "open", !.follow = follow, !.position = after]]
  BY <1>4, <1>8
<1>10. UNCHANGED log
  BY DEF Open
<1> QED BY <1>7, <1>9, <1>10 DEF Promised!Open, LogReaders

\* A look is an abstract look.
LEMMA LookRefines == ASSUME Inv, NEW r \in Readers, Look(r) PROVE Promised!Look(r)
<1>1. PICK a, b, c, d, e, g : reader[r] = Stream(a, b, c, d, e, g)
  BY IsStream DEF Inv
<1>2. a = "open" /\ reader' = [reader EXCEPT ![r] = Stream("replaying", b, c, Len(log), Len(log), g)]
  BY <1>1, Looks DEF Inv
<1>3. PICK n : n = Len(log)
  OBVIOUS
<1>4. LogReaders' = [LogReaders EXCEPT ![r] = Logged("replaying", b, c, n, g)]
  BY <1>2, <1>3, ViewSteps, ZenonT(40) DEF Inv
<1>5. LogReaders[r] = [state |-> "open", follow |-> b, position |-> c, mark |-> e, seen |-> g]
  BY <1>1, <1>2, ViewOfStream DEF Logged
<1>6. [LogReaders[r] EXCEPT !.state = "replaying", !.mark = n] = Logged("replaying", b, c, n, g)
  <2>1. [[state |-> "open", follow |-> b, position |-> c, mark |-> e, seen |-> g] EXCEPT !.state = "replaying"]
          = [state |-> "replaying", follow |-> b, position |-> c, mark |-> e, seen |-> g]
    OBVIOUS
  <2>2. [[state |-> "replaying", follow |-> b, position |-> c, mark |-> e, seen |-> g] EXCEPT !.mark = n]
          = [state |-> "replaying", follow |-> b, position |-> c, mark |-> n, seen |-> g]
    OBVIOUS
  <2>3. Logged("replaying", b, c, n, g) = [state |-> "replaying", follow |-> b, position |-> c, mark |-> n, seen |-> g]
    BY DEF Logged
  <2> QED BY <1>5, <2>1, <2>2, <2>3
<1>7. LogReaders' = [LogReaders EXCEPT ![r].state = "replaying", ![r].mark = n]
  <2>1. [LogReaders EXCEPT ![r].state = "replaying", ![r].mark = n]
          = [LogReaders EXCEPT ![r] = [LogReaders[r] EXCEPT !.state = "replaying", !.mark = n]]
    BY DEF LogReaders
  <2> QED BY <1>4, <1>6, <2>1
<1>8. LogReaders[r].state = "open"
  BY <1>5
<1>9. UNCHANGED log
  BY DEF Look
<1> QED BY <1>3, <1>7, <1>8, <1>9 DEF Promised!Look, LogReaders

\* The bus and the abstract log order positions alike.
LEMMA SameOrder == ASSUME NEW S PROVE InOrder(S) = Promised!InOrder(S)
BY Zenon DEF InOrder, Promised!InOrder, Cardinality, Promised!Cardinality, SetToSortSeq,
     Promised!SetToSortSeq, SetToSeq, Promised!SetToSeq, IsInjective, Promised!IsInjective

\* A page is what the abstract reader sees next; an empty one is nothing.
LEMMA ReadPageRefines ==
  ASSUME Inv, NEW r \in Readers, ReadPage(r)
  PROVE  Promised!See(r) \/ UNCHANGED Promised!vars
<1>1. ReadersOK
  BY DEF Inv
<1>2. PICK a, b, c, d, e, g : reader[r] = Stream(a, b, c, d, e, g)
  BY <1>1, IsStream
<1>3. ReaderOK(reader[r])
  BY <1>1, IsStream
<1>4. c \in Nat /\ d \in 0..Len(log) /\ Len(log) \in Nat /\ (a = "replaying" => d = e)
  BY <1>2, <1>3, StreamFields DEF Inv, LogOK
<1>5. PageDoes(r, a, b, c, d, e, g)
  BY <1>2, PageReads
<1>6. PICK s, to, seen :
        /\ s \in {a, IF a = "replaying" THEN "replayed" ELSE "live"} /\ to \in Nat
        /\ reader' = [reader EXCEPT ![r] = Stream(s, b, to, d, e, seen)]
        /\ \/ to = c /\ seen = g
           \/ /\ to \in (c + 1)..d /\ RowsBetween(c, to) # {}
              /\ seen = g \o InOrder(RowsBetween(c, to))
  BY <1>5 DEF PageDoes
<1>7. a \in {"replaying", "tailing"}
  BY <1>5 DEF PageDoes
<1>8. PICK t : t = IF a = "replaying" THEN "replaying" ELSE "live"
  OBVIOUS
<1>9. ASSUME NEW x, NEW y
      PROVE  /\ Logged(a, b, x, e, y) = [state |-> t, follow |-> b, position |-> x, mark |-> e, seen |-> y]
             /\ Logged(s, b, x, e, y) = [state |-> t, follow |-> b, position |-> x, mark |-> e, seen |-> y]
  BY <1>6, <1>7, <1>8 DEF Logged
<1>10. LogReaders' = [LogReaders EXCEPT ![r] = Logged(s, b, to, e, seen)]
  <2>1. ASSUME NEW x, NEW y, NEW z, reader' = [reader EXCEPT ![r] = Stream(x, b, y, d, e, z)]
        PROVE  LogReaders' = [LogReaders EXCEPT ![r] = Logged(x, b, y, e, z)]
    BY <1>1, <2>1, ViewSteps, ZenonT(40)
  <2> QED BY <1>6, <2>1
<1>11. LogReaders[r] = Logged(a, b, c, e, g)
  BY <1>2, ViewOfStream
<1>12. UNCHANGED log
  BY DEF ReadPage
<1>13. CASE to = c /\ seen = g
  <2>1. LogReaders' = [LogReaders EXCEPT ![r] = LogReaders[r]]
    <3>1. Logged(s, b, c, e, g) = Logged(a, b, c, e, g)
      BY <1>9
    <3>2. LogReaders' = [LogReaders EXCEPT ![r] = Logged(s, b, c, e, g)]
      BY <1>10, <1>13
    <3> QED BY <1>11, <3>1, <3>2
  <2>2. LogReaders' = LogReaders
    BY <2>1 DEF LogReaders
  <2> QED BY <1>12, <2>2 DEF Promised!vars, LogReaders
<1>14. CASE to \in (c + 1)..d /\ RowsBetween(c, to) # {} /\ seen = g \o InOrder(RowsBetween(c, to))
  <2>1. LogReaders[r] = [state |-> t, follow |-> b, position |-> c, mark |-> e, seen |-> g]
    BY <1>9, <1>11
  <2>2. /\ LogReaders[r].state = t /\ LogReaders[r].position = c
        /\ LogReaders[r].mark = e /\ LogReaders[r].seen = g
    BY <2>1
  <2>3. t \in {"replaying", "live"}
    BY <1>8
  <2>4. to \in (c + 1)..(IF t = "replaying" THEN e ELSE Len(log))
    <3>1. CASE a = "replaying"
      BY <1>4, <1>8, <1>14, <3>1
    <3>2. CASE a # "replaying"
      BY <1>4, <1>8, <1>14, <3>2
    <3> QED BY <3>1, <3>2
  <2>5. Promised!Events(c, to) = RowsBetween(c, to)
    BY DEF Promised!Events, RowsBetween
  <2>6. seen = g \o Promised!InOrder(Promised!Events(c, to)) /\ Promised!Events(c, to) # {}
    BY <1>14, <2>5, SameOrder
  <2>7. LogReaders' = [LogReaders EXCEPT ![r] = [state |-> t, follow |-> b, position |-> to, mark |-> e, seen |-> seen]]
    BY <1>9, <1>10
  <2>8. [LogReaders[r] EXCEPT !.position = to, !.seen = seen]
          = [state |-> t, follow |-> b, position |-> to, mark |-> e, seen |-> seen]
    <3>1. [[state |-> t, follow |-> b, position |-> c, mark |-> e, seen |-> g] EXCEPT !.position = to]
            = [state |-> t, follow |-> b, position |-> to, mark |-> e, seen |-> g]
      OBVIOUS
    <3>2. [[state |-> t, follow |-> b, position |-> to, mark |-> e, seen |-> g] EXCEPT !.seen = seen]
            = [state |-> t, follow |-> b, position |-> to, mark |-> e, seen |-> seen]
      OBVIOUS
    <3> QED BY <2>1, <3>1, <3>2
  <2>9. LogReaders' = [LogReaders EXCEPT ![r].position = to, ![r].seen = seen]
    <3>1. [LogReaders EXCEPT ![r].position = to, ![r].seen = seen]
            = [LogReaders EXCEPT ![r] = [LogReaders[r] EXCEPT !.position = to, !.seen = seen]]
      BY DEF LogReaders
    <3> QED BY <2>7, <2>8, <3>1
  <2>10. LogReaders' = [LogReaders EXCEPT ![r].position = to,
                           ![r].seen = @ \o Promised!InOrder(Promised!Events(LogReaders[r].position, to))]
    <3>1. [LogReaders EXCEPT ![r].position = to, ![r].seen = @ \o Promised!InOrder(Promised!Events(c, to))]
            = [LogReaders EXCEPT ![r].position = to, ![r].seen = g \o Promised!InOrder(Promised!Events(c, to))]
      <4>1. PICK q : q = Promised!InOrder(Promised!Events(c, to))
        OBVIOUS
      <4>2. [LogReaders EXCEPT ![r].position = to, ![r].seen = @ \o q]
              = [LogReaders EXCEPT ![r] = [LogReaders[r] EXCEPT !.position = to, !.seen = LogReaders[r].seen \o q]]
        BY DEF LogReaders
      <4>3. [LogReaders EXCEPT ![r].position = to, ![r].seen = g \o q]
              = [LogReaders EXCEPT ![r] = [LogReaders[r] EXCEPT !.position = to, !.seen = g \o q]]
        BY DEF LogReaders
      <4> QED BY <2>2, <4>1, <4>2, <4>3
    <3> QED BY <2>2, <2>6, <2>9, <3>1
  <2>11. Promised!Events(LogReaders[r].position, to) # {}
    BY <2>2, <2>6
  <2>12. to \in (LogReaders[r].position + 1)..(IF LogReaders[r].state = "replaying" THEN LogReaders[r].mark ELSE Len(log))
    BY <2>2, <2>4
  <2>13. LogReaders[r].state \in {"replaying", "live"}
    BY <2>2, <2>3
  <2> QED BY <1>12, <2>10, <2>11, <2>12, <2>13 DEF Promised!See, LogReaders
<1> QED BY <1>6, <1>13, <1>14

\* The marker comes once nothing is left below the watermark.
LEMMA MarkerRefines == ASSUME Inv, NEW r \in Readers, Marker(r) PROVE Promised!Sync(r)
<1>1. ReadersOK
  BY DEF Inv
<1>2. PICK a, b, c, d, e, g : reader[r] = Stream(a, b, c, d, e, g)
  BY <1>1, IsStream
<1>3. ReaderOK(reader[r])
  BY <1>1, IsStream
<1>4. a = "replayed" /\ reader' = [reader EXCEPT ![r] = Stream(IF b THEN "live" ELSE "ended", b, c, d, e, g)]
  BY <1>1, <1>2, Marks
<1>5. d = e /\ \A i \in (c + 1)..d : log[i] = "gap"
  BY <1>2, <1>3, <1>4, StreamFields
<1>6. PICK s : s = IF b THEN "live" ELSE "ended"
  OBVIOUS
<1>7. reader' = [reader EXCEPT ![r] = Stream(s, b, c, d, e, g)]
  BY <1>4, <1>6
<1>8. LogReaders' = [LogReaders EXCEPT ![r] = Logged(s, b, c, e, g)]
  BY <1>1, <1>7, ViewSteps, ZenonT(40)
<1>9. LogReaders[r] = [state |-> "replaying", follow |-> b, position |-> c, mark |-> e, seen |-> g]
  <2>1. LogReaders[r] = Logged(a, b, c, e, g)
    BY <1>2, ViewOfStream
  <2> QED BY <1>4, <2>1 DEF Logged
<1>10. /\ LogReaders[r].state = "replaying" /\ LogReaders[r].follow = b
       /\ LogReaders[r].position = c /\ LogReaders[r].mark = e
  BY <1>9
<1>11. Promised!Events(c, e) = {}
  BY <1>5 DEF Promised!Events
<1>12. Promised!Events(LogReaders[r].position, LogReaders[r].mark) = {}
  BY <1>10, <1>11
<1>13. LogReaders' = [LogReaders EXCEPT ![r].state = s]
  <2>1. Logged(s, b, c, e, g) = [state |-> s, follow |-> b, position |-> c, mark |-> e, seen |-> g]
    BY <1>6 DEF Logged
  <2>2. [[state |-> "replaying", follow |-> b, position |-> c, mark |-> e, seen |-> g] EXCEPT !.state = s]
          = [state |-> s, follow |-> b, position |-> c, mark |-> e, seen |-> g]
    OBVIOUS
  <2>3. [LogReaders[r] EXCEPT !.state = s] = Logged(s, b, c, e, g)
    BY <1>9, <2>1, <2>2
  <2>4. [LogReaders EXCEPT ![r].state = s] = [LogReaders EXCEPT ![r] = [LogReaders[r] EXCEPT !.state = s]]
    BY DEF LogReaders
  <2> QED BY <1>8, <2>3, <2>4
<1>14. s = IF LogReaders[r].follow THEN "live" ELSE "ended"
  BY <1>6, <1>10
<1>15. LogReaders' = [LogReaders EXCEPT ![r].state = IF LogReaders[r].follow THEN "live" ELSE "ended"]
  BY <1>13, <1>14
<1>16. UNCHANGED log
  BY DEF Marker
<1> QED BY <1>10, <1>12, <1>15, <1>16 DEF Promised!Sync, LogReaders

\* A follower that stays live stays as it is seen.
LEMMA StaysLive ==
  ASSUME ReadersOK, NEW r \in Readers,
         NEW a, NEW b, NEW c, NEW d, NEW e, NEW g, reader[r] = Stream(a, b, c, d, e, g),
         NEW s, NEW n, reader' = [reader EXCEPT ![r] = Stream(s, b, c, n, e, g)],
         a \in {"live", "woken", "tailing"}, s \in {"live", "woken", "tailing"}, UNCHANGED log
  PROVE  UNCHANGED Promised!vars
<1>0. ReadersOK /\ r \in Readers /\ reader' = [reader EXCEPT ![r] = Stream(s, b, c, n, e, g)]
  OBVIOUS
<1>1. LogReaders' = [LogReaders EXCEPT ![r] = Logged(s, b, c, e, g)]
  BY ONLY ZenonT(40), <1>0, ViewSteps
<1>2. LogReaders[r] = Logged(a, b, c, e, g)
  BY ViewOfStream
<1>3. Logged(s, b, c, e, g) = Logged(a, b, c, e, g)
  BY DEF Logged
<1>4. LogReaders' = [LogReaders EXCEPT ![r] = LogReaders[r]]
  BY <1>1, <1>2, <1>3
<1>5. LogReaders' = LogReaders
  BY <1>4 DEF LogReaders
<1> QED BY <1>5 DEF Promised!vars, LogReaders

\* Signals, and a target that is set, are not seen.
LEMMA LiveStutters ==
  ASSUME Inv, NEW r \in Readers, TakesWake(r) \/ Tails(r)
  PROVE  UNCHANGED Promised!vars
<1>1. ReadersOK
  BY DEF Inv
<1>2. PICK a, b, c, d, e, g : reader[r] = Stream(a, b, c, d, e, g)
  BY <1>1, IsStream
<1>3. UNCHANGED log
  BY DEF TakesWake, Tails
<1>4. CASE TakesWake(r)
  <2>1. a = "live" /\ reader' = [reader EXCEPT ![r] = Stream("woken", b, c, d, e, g)]
    BY <1>1, <1>2, <1>4, Wakens
  <2>2. PICK s : s = "woken"
    OBVIOUS
  <2>3. reader' = [reader EXCEPT ![r] = Stream(s, b, c, d, e, g)]
    BY <2>1, <2>2
  <2>4. s \in {"live", "woken", "tailing"} /\ a \in {"live", "woken", "tailing"}
    BY <2>1, <2>2
  <2> QED BY <1>1, <1>2, <1>3, <2>3, <2>4, StaysLive
<1>5. CASE Tails(r)
  <2>1. a = "woken" /\ \E s \in {"tailing", "live"} :
                          reader' = [reader EXCEPT ![r] = Stream(s, b, c, Len(log), e, g)]
    BY <1>1, <1>2, <1>5, Follows
  <2>2. PICK s \in {"tailing", "live"} : reader' = [reader EXCEPT ![r] = Stream(s, b, c, Len(log), e, g)]
    BY <2>1
  <2>3. PICK n : n = Len(log)
    OBVIOUS
  <2>4. reader' = [reader EXCEPT ![r] = Stream(s, b, c, n, e, g)]
    BY <2>2, <2>3
  <2>5. s \in {"live", "woken", "tailing"} /\ a \in {"live", "woken", "tailing"}
    BY <2>1
  <2> QED BY <1>1, <1>2, <1>3, <2>4, <2>5, StaysLive
<1> QED BY <1>4, <1>5

\* A closed stream is a closed abstract one.
LEMMA CloseRefines == ASSUME Inv, NEW r \in Readers, Close(r) PROVE Promised!Close(r)
<1>1. ReadersOK
  BY DEF Inv
<1>2. PICK z, s, n : z = 0 /\ s = <<>> /\ n = FALSE
  OBVIOUS
<1>3. PICK a, b, c, d, e, g : reader[r] = Stream(a, b, c, d, e, g)
  BY <1>1, IsStream
<1>4. a # "closed"
  BY <1>3, StreamFields DEF Close
<1>5. LogReaders[r].state # "closed"
  <2>1. LogReaders[r] = Logged(a, b, c, e, g)
    BY <1>3, ViewOfStream
  <2> QED BY <1>4, <2>1 DEF Logged
<1>6. reader' = [reader EXCEPT ![r] = Stream("closed", n, z, z, z, s)]
  <2>1. Closed = Stream("closed", n, z, z, z, s)
    BY <1>2 DEF Closed, Stream
  <2> QED BY <2>1 DEF Close
<1>7. LogReaders' = [LogReaders EXCEPT ![r] = Logged("closed", n, z, z, s)]
  BY <1>1, <1>6, ViewSteps, ZenonT(40)
<1>8. Promised!Closed = Logged("closed", n, z, z, s)
  BY <1>2 DEF Promised!Closed, Logged
<1>9. LogReaders' = [LogReaders EXCEPT ![r] = Promised!Closed]
  BY <1>7, <1>8
<1>10. UNCHANGED log
  BY DEF Close
<1> QED BY <1>5, <1>9, <1>10 DEF Promised!Close, LogReaders

\* At first every stream is closed and the log is empty.
LEMMA InitRefines == ASSUME BusInit PROVE Promised!Init
<1>1. \A r \in Readers : LogReader(r) = Promised!Closed
  BY DEF BusInit, LogReader, Closed, Promised!Closed
<1> QED BY <1>1 DEF BusInit, Promised!Init

\* Every step of the bus is a step of the abstract log, or nothing to it.
LEMMA NextRefines == ASSUME Inv, [BusNext]_busVars PROVE [Promised!Next]_(Promised!vars)
<1>1. CASE UNCHANGED busVars
  <2>1. UNCHANGED <<log, reader>>
    BY <1>1 DEF busVars
  <2> QED BY <2>1, Stutters
<1>2. ASSUME NEW f \in Fibers, Locks(f) \/ Works(f) \/ Interrupted(f)
      PROVE  Promised!Next \/ UNCHANGED Promised!vars
  <2>1. CASE Commits(f)
    BY <2>1, CommitsRefine DEF Promised!Next
  <2>2. CASE Locks(f) \/ Duplicates(f) \/ Rejected(f) \/ Wakes(f) \/ Notifies(f) \/ Interrupted(f)
    <3>1. UNCHANGED <<log, reader>>
      BY <2>2 DEF Locks, Duplicates, Rejected, Wakes, Notifies, Interrupted
    <3> QED BY <3>1, Stutters
  <2> QED BY <1>2, <2>1, <2>2 DEF Works
<1>3. ASSUME NEW o \in Owners, Claim(o) PROVE UNCHANGED Promised!vars
  <2>1. UNCHANGED <<log, reader>>
    BY <1>3 DEF Claim
  <2> QED BY <2>1, Stutters
<1>4. ASSUME NEW r \in Readers, Open(r) \/ Reads(r) \/ Close(r)
      PROVE  Promised!Next \/ UNCHANGED Promised!vars
  <2>1. CASE Open(r)
    BY <2>1, OpenRefines DEF Promised!Next
  <2>2. CASE Look(r)
    BY <2>2, LookRefines DEF Promised!Next, Promised!Reads
  <2>3. CASE ReadPage(r)
    BY <2>3, ReadPageRefines DEF Promised!Next, Promised!Reads
  <2>4. CASE Marker(r)
    BY <2>4, MarkerRefines DEF Promised!Next, Promised!Reads
  <2>5. CASE TakesWake(r) \/ Tails(r)
    BY <2>5, LiveStutters
  <2>6. CASE Close(r)
    BY <2>6, CloseRefines DEF Promised!Next
  <2> QED BY <1>4, <2>1, <2>2, <2>3, <2>4, <2>5, <2>6 DEF Reads
<1> QED BY <1>1, <1>2, <1>3, <1>4 DEF BusNext

\* The bus implements the log it promises, for any page size, readers and
\* publishers: a reader sees every event after its cursor once and in order, and
\* the marker after those that were there when it looked.  (That it gets there is
\* checked, not proved.)
THEOREM BusRefinesLog == BusSpec => Promised!Safety
<1>1. BusInit => Promised!Init
  BY InitRefines
<1>2. Inv /\ [BusNext]_busVars => [Promised!Next]_(Promised!vars)
  BY NextRefines
<1> QED BY <1>1, <1>2, BusInvariant, PTL DEF BusSpec, Promised!Safety
===============================================================================
