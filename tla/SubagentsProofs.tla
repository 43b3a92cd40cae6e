---------------------------- MODULE SubagentsProofs ----------------------------
(***************************************************************************)
(* The proofs about Job and Subagents, for any children, callers, starts   *)
(* and crashes: their types, whose outcome a job has, that only real calls *)
(* count as blocking, and that a job in the background is owned by a row   *)
(* until its notice is in the parent's inbox.                              *)
(***************************************************************************)
EXTENDS Subagents, FiniteSetTheorems, TLAPS

-----------------------------------------------------------------------------
(* The inductive invariant *)

Statuses == Terminal \cup {"running", "none"}
Blocks == {"blocked", "unblocking", "releasing", "abandoning"}
Pcs == Blocks \cup {"free", "entering", "handing", "backgrounded", "cancelling", "closing",
                    "removing", "deleting"}

\* What a call is: where it is in the registry it knows its job, and a call that
\* is told of a job in the background was told its notification.
CallType == [pc: Pcs, id: Ids \cup {"none"}, gen: 0..MaxStarts, removes: BOOLEAN, left: SUBSET Ids]
CallOK(call, tells, removes) ==
  /\ call.pc \in Blocks \cup {"entering", "handing", "backgrounded", "cancelling", "closing"}
       => call.id \in Ids
  /\ call.pc \in Blocks \cup {"handing", "backgrounded", "closing"} => call.gen \in Generations
  /\ call.pc \in {"releasing", "backgrounded"} => tells[call.id][call.gen] # 0
  /\ call.removes => removes # "no"
  /\ call.pc \in {"removing", "deleting"} => removes # "no"
CallersOK ==
  /\ caller \in [Callers -> CallType]
  /\ \A c \in Callers : CallOK(caller[c], told, removal)

\* The entries of the registry, and the generations that were started: the
\* first few.
EntryOK(id) ==
  /\ jobs[id].status = "absent" => jobs[id] = Absent
  /\ Present(id) => jobs[id].gen \in Generations
  /\ ~Blocking(id) => jobs[id].blockers = 0
  /\ jobs[id].backgrounded => /\ jobs[id].notification # 0
                              /\ told[id][jobs[id].gen] = jobs[id].notification
StartedUpTo(id, k) == \A g \in Generations : fiber[id][g].exit # "none" <=> g <= k
RegistryInv ==
  /\ JobTypeOK /\ OutcomeIsItsOwn
  /\ \A id \in Ids : EntryOK(id) /\ \E k \in 0..MaxStarts : StartedUpTo(id, k)

\* A notification that may not be lost: a row stands for it, or its message is in
\* the parent's inbox.
Safe(id, n) == table[id][n] # "none" \/ n \in notices[id]

\* Unless the Session is being removed: what was told, promised or acknowledged
\* is safe, and so is a job in the background.
DurableInv ==
  removal = "no" =>
    /\ \A id \in Ids, g \in Generations : told[id][g] # 0 => Safe(id, told[id][g])
    /\ \A id \in Ids : \A n \in promised[id] : Safe(id, n)
    /\ \A o \in ObserverKeys :
         observer[o].pc = "acknowledging" => observer[o].notification \in notices[o[2]]
    /\ sweep.pc = "acknowledging" => sweep.notification \in notices[sweep.id]
    /\ OwnershipIsDurable

\* The observers and the sweep know the generation and the row they act for.
ReportsOK ==
  /\ observer \in [ObserverKeys -> [pc: {"none", "waiting", "delivering", "acknowledging"},
                                    gen: 0..MaxStarts, notification: 0..MaxStarts]]
  /\ \A o \in ObserverKeys :
       /\ observer[o].pc = "waiting" => observer[o].gen \in Generations
       /\ observer[o].pc = "acknowledging" => observer[o].notification \in Generations
  /\ notices \in [Ids -> SUBSET (0..MaxStarts)]
  /\ promised \in [Ids -> SUBSET Generations]

SweepOK ==
  /\ sweep \in [pc: {"rest", "listing", "rows", "telling", "acknowledging", "resuming", "marking",
                     "watching"},
                left: SUBSET (Ids \X Generations \X Statuses), id: Ids \cup {"none"},
                notification: 0..MaxStarts]
  /\ sweep.pc \in {"telling", "acknowledging", "resuming", "marking", "watching"}
       => sweep.id \in Ids /\ sweep.notification \in Generations

SubagentInv ==
  /\ RegistryInv /\ CallersOK /\ ReportsOK /\ SweepOK /\ DurableInv /\ BlockersAreReal
  /\ removal \in {"no", "going", "gone"} /\ crashes \in 0..MaxCrashes

-----------------------------------------------------------------------------
(* The updates of the registry *)

\* A function of two arguments that changes at one place.
LEMMA ChangesAt ==
  ASSUME NEW S, NEW T, NEW V, NEW f \in [S -> [T -> V]], NEW x \in S, NEW y \in T, NEW v \in V
  PROVE  /\ [f EXCEPT ![x][y] = v] \in [S -> [T -> V]]
         /\ \A i \in S, j \in T :
              [f EXCEPT ![x][y] = v][i][j] = IF i = x /\ j = y THEN v ELSE f[i][j]
OBVIOUS

\* ... and one of one argument.
LEMMA ChangesOne ==
  ASSUME NEW T, NEW V, NEW f \in [T -> V], NEW y \in T, NEW v \in V
  PROVE  /\ [f EXCEPT ![y] = v] \in [T -> V]
         /\ \A j \in T : [f EXCEPT ![y] = v][j] = IF j = y THEN v ELSE f[j]
OBVIOUS

\* The number of starts is the last generation's.
LEMMA StartsCounted ==
  ASSUME NEW id, NEW k \in 0..MaxStarts, StartedUpTo(id, k)
  PROVE  Starts(id) = k
<1>1. k \in Nat /\ MaxStarts \in Nat
  BY StartsAssumption
<1>2. {g \in Generations : fiber[id][g].exit # "none"} = 1..k
  BY <1>1 DEF StartedUpTo, Generations
<1>3. Cardinality(1..k) = k
  BY <1>1, FS_Interval
<1> QED BY <1>2, <1>3 DEF Starts

\* What the invariant says of one entry.
LEMMA RegistryHas ==
  ASSUME RegistryInv, NEW id \in Ids
  PROVE  /\ JobTypeOK /\ EntryOK(id) /\ \E k \in 0..MaxStarts : StartedUpTo(id, k)
         /\ jobs[id] \in [gen: 0..MaxStarts, status: Terminal \cup {"running", "absent"},
                          blockers: Nat, backgrounded: BOOLEAN, notification: 0..MaxStarts]
         /\ Present(id) => jobs[id].gen \in Generations
         /\ Finished(id) => done[id][jobs[id].gen].status = jobs[id].status
         /\ \A g \in Generations : done[id][g].status = "completed" => fiber[id][g].exit = "completed"
BY DEF RegistryInv, OutcomeIsItsOwn, EntryOK, JobTypeOK

\* The invariant after a step, from its parts.
LEMMA RegistryFrom ==
  ASSUME JobTypeOK',
         \A id \in Ids : EntryOK(id)' /\ \E k \in 0..MaxStarts : StartedUpTo(id, k)',
         \A id \in Ids, g \in Generations :
           (done[id][g].status = "completed" => fiber[id][g].exit = "completed")',
         \A id \in Ids : (Finished(id) => done[id][jobs[id].gen].status = jobs[id].status)'
  PROVE  RegistryInv'
BY DEF RegistryInv, OutcomeIsItsOwn

\* The fibers' exits are what they were.
SameExits == \A id \in Ids, g \in Generations : fiber'[id][g].exit = fiber[id][g].exit

\* What was started stays started while no exit changes.
LEMMA ExitsSame ==
  ASSUME RegistryInv, SameExits, NEW id \in Ids
  PROVE  \E k \in 0..MaxStarts : StartedUpTo(id, k)'
<1>1. PICK k \in 0..MaxStarts : StartedUpTo(id, k)
  BY RegistryHas
<1>2. StartedUpTo(id, k)'
  BY <1>1 DEF StartedUpTo, SameExits
<1> QED BY <1>2

\* A run ends.
LEMMA RunEndsKeeps ==
  ASSUME RegistryInv, NEW id \in Ids, NEW g \in Generations, RunEnds(id, g)
  PROVE  RegistryInv'
<1>1. PICK exit \in Exits : fiber' = [fiber EXCEPT ![id][g].exit = exit]
  BY DEF RunEnds
<1>2. UNCHANGED <<jobs, table, done, told>> /\ fiber[id][g].exit = "running" /\ JobTypeOK
  BY DEF RunEnds, RegistryInv
<1> DEFINE Fibers0 == [exit: Exits \cup {"none", "running", "dead"}, settled: BOOLEAN]
           ended == [fiber[id][g] EXCEPT !.exit = exit]
<1>a. fiber \in [Ids -> [Generations -> Fibers0]]
  BY <1>2 DEF JobTypeOK
<1>b. ended \in Fibers0 /\ ended.exit = exit
  BY <1>a
<1>c. fiber' = [fiber EXCEPT ![id][g] = ended]
  BY <1>1
<1> HIDE DEF Fibers0, ended
<1>3. /\ fiber' \in [Ids -> [Generations -> Fibers0]]
      /\ \A i \in Ids, h \in Generations :
           fiber'[i][h] = IF i = id /\ h = g THEN ended ELSE fiber[i][h]
  BY <1>a, <1>b, <1>c, ChangesAt
<1>4. \A i \in Ids, h \in Generations :
        fiber'[i][h].exit = IF i = id /\ h = g THEN exit ELSE fiber[i][h].exit
  BY <1>3, <1>b
<1>5. JobTypeOK'
  BY <1>2, <1>3 DEF JobTypeOK, Fibers0
<1>6. ASSUME NEW i \in Ids
      PROVE  EntryOK(i)' /\ \E k \in 0..MaxStarts : StartedUpTo(i, k)'
  <2>1. EntryOK(i)'
    BY <1>2, RegistryHas DEF EntryOK, Present, Blocking, Running
  <2>2. PICK k \in 0..MaxStarts : StartedUpTo(i, k)
    BY RegistryHas
  <2>3. StartedUpTo(i, k)'
    BY <1>2, <1>4, <2>2 DEF StartedUpTo, Exits
  <2> QED BY <2>1, <2>3
<1>7. ASSUME NEW i \in Ids
      PROVE  /\ (Finished(i) => done[i][jobs[i].gen].status = jobs[i].status)'
             /\ \A h \in Generations :
                  done'[i][h].status = "completed" => fiber'[i][h].exit = "completed"
  BY <1>2, <1>4, RegistryHas DEF Finished
<1> QED BY <1>5, <1>6, <1>7, RegistryFrom

\* The count of those who block on a job changes.
LEMMA CountKeeps ==
  ASSUME RegistryInv, NEW id \in Ids, NEW n \in Nat, Blocking(id),
         jobs' = [jobs EXCEPT ![id].blockers = n], UNCHANGED <<table, fiber, done, told>>
  PROVE  RegistryInv'
<1>1. JobTypeOK
  BY DEF RegistryInv
<1>2. JobTypeOK'
  BY <1>1 DEF JobTypeOK
<1>3. \A i \in Ids : jobs'[i] = IF i = id THEN [jobs[i] EXCEPT !.blockers = n] ELSE jobs[i]
  BY <1>1 DEF JobTypeOK
<1>4. ASSUME NEW i \in Ids
      PROVE  /\ EntryOK(i)' /\ (Finished(i) => done[i][jobs[i].gen].status = jobs[i].status)'
             /\ \E k \in 0..MaxStarts : StartedUpTo(i, k)'
             /\ \A h \in Generations :
                  done'[i][h].status = "completed" => fiber'[i][h].exit = "completed"
  <2>1. /\ EntryOK(i)
        /\ jobs[i] \in [gen: 0..MaxStarts, status: Terminal \cup {"running", "absent"},
                        blockers: Nat, backgrounded: BOOLEAN, notification: 0..MaxStarts]
        /\ Finished(i) => done[i][jobs[i].gen].status = jobs[i].status
        /\ \A g \in Generations : done[i][g].status = "completed" => fiber[i][g].exit = "completed"
    BY RegistryHas
  <2>2. EntryOK(i)' /\ (Finished(i) => done[i][jobs[i].gen].status = jobs[i].status)'
    BY <1>3, <2>1 DEF EntryOK, Present, Blocking, Running, Finished
  <2>3. \E k \in 0..MaxStarts : StartedUpTo(i, k)'
    BY ExitsSame DEF SameExits
  <2> QED BY <2>1, <2>2, <2>3
<1> QED BY <1>2, <1>4, RegistryFrom

\* A running entry ends, as its fiber did or because it was cancelled.
LEMMA EndsKeeps ==
  ASSUME RegistryInv, NEW id \in Ids, NEW status \in Terminal, Running(id), Ends(id, status),
         status = "completed" => fiber[id][jobs[id].gen].exit = "completed",
         UNCHANGED told, SameExits,
         fiber' \in [Ids -> [Generations -> [exit: Exits \cup {"none", "running", "dead"},
                                             settled: BOOLEAN]]],
         table' \in [Ids -> [Generations -> Terminal \cup {"running", "none"}]]
  PROVE  RegistryInv'
<1>1. JobTypeOK
  BY DEF RegistryInv
<1> DEFINE g == jobs[id].gen
           outcome == [status |-> status, notification |-> jobs[id].notification]
<1>2. g \in Generations /\ jobs[id].notification \in 0..MaxStarts
  BY RegistryHas DEF Present, Running
<1>3. /\ jobs' = [jobs EXCEPT ![id].status = status, ![id].blockers = 0]
      /\ done' = [done EXCEPT ![id][g] = outcome]
  BY DEF Ends
<1>4. outcome \in [status: Terminal \cup {"none"}, notification: 0..MaxStarts]
  BY <1>2
<1>5. /\ done' \in [Ids -> [Generations -> [status: Terminal \cup {"none"}, notification: 0..MaxStarts]]]
      /\ \A i \in Ids, h \in Generations :
           done'[i][h] = IF i = id /\ h = g THEN outcome ELSE done[i][h]
  <2> DEFINE Outcomes == [status: Terminal \cup {"none"}, notification: 0..MaxStarts]
  <2>1. done \in [Ids -> [Generations -> Outcomes]]
    BY <1>1 DEF JobTypeOK
  <2>2. done' = [done EXCEPT ![id][g] = outcome] /\ outcome \in Outcomes /\ g \in Generations
    BY <1>2, <1>3, <1>4
  <2> HIDE DEF outcome, g, Outcomes
  <2>3. /\ done' \in [Ids -> [Generations -> Outcomes]]
        /\ \A i \in Ids, h \in Generations :
             done'[i][h] = IF i = id /\ h = g THEN outcome ELSE done[i][h]
    BY <2>1, <2>2, ChangesAt
  <2> QED BY <2>3 DEF Outcomes
<1> DEFINE ended == [jobs[id] EXCEPT !.status = status, !.blockers = 0]
<1>a. /\ ended \in [gen: 0..MaxStarts, status: Terminal \cup {"running", "absent"},
                     blockers: Nat, backgrounded: BOOLEAN, notification: 0..MaxStarts]
      /\ ended.gen = g /\ ended.status = status /\ ended.blockers = 0
      /\ ended.backgrounded = jobs[id].backgrounded /\ ended.notification = jobs[id].notification
  BY RegistryHas
<1>b. jobs' = [jobs EXCEPT ![id] = ended]
  BY <1>3
<1> HIDE DEF ended
<1>6. /\ jobs' \in [Ids -> [gen: 0..MaxStarts, status: Terminal \cup {"running", "absent"},
                           blockers: Nat, backgrounded: BOOLEAN, notification: 0..MaxStarts]]
      /\ \A i \in Ids : jobs'[i] = IF i = id THEN ended ELSE jobs[i]
  BY <1>1, <1>a, <1>b DEF JobTypeOK
<1>7. JobTypeOK'
  BY <1>1, <1>5, <1>6 DEF JobTypeOK
<1>8. outcome.status = status
  OBVIOUS
<1> HIDE DEF outcome
<1>9. ASSUME NEW i \in Ids
      PROVE  /\ EntryOK(i)' /\ (Finished(i) => done[i][jobs[i].gen].status = jobs[i].status)'
             /\ \E k \in 0..MaxStarts : StartedUpTo(i, k)'
             /\ \A h \in Generations :
                  done'[i][h].status = "completed" => fiber'[i][h].exit = "completed"
  <2>1. /\ EntryOK(i)
        /\ jobs[i] \in [gen: 0..MaxStarts, status: Terminal \cup {"running", "absent"},
                        blockers: Nat, backgrounded: BOOLEAN, notification: 0..MaxStarts]
        /\ Finished(i) => done[i][jobs[i].gen].status = jobs[i].status
        /\ Present(i) => jobs[i].gen \in Generations
        /\ \A h \in Generations : done[i][h].status = "completed" => fiber[i][h].exit = "completed"
    BY RegistryHas
  <2>2. status # "running" /\ status # "absent"
    BY DEF Terminal
  <2>3. EntryOK(i)'
    <3>1. CASE i = id
      BY <1>6, <1>a, <2>1, <2>2, <3>1 DEF EntryOK, Present, Blocking, Running
    <3>2. CASE i # id
      BY <1>6, <2>1, <3>2 DEF EntryOK, Present, Blocking, Running
    <3> QED BY <3>1, <3>2
  <2>4. (Finished(i) => done[i][jobs[i].gen].status = jobs[i].status)'
    <3>1. CASE i = id
      BY <1>2, <1>5, <1>6, <1>8, <1>a, <3>1
    <3>2. CASE i # id
      <4>1. jobs'[i] = jobs[i] /\ \A h \in Generations : done'[i][h] = done[i][h]
        BY <1>5, <1>6, <3>2
      <4>2. Finished(i) => Present(i)
        BY DEF Finished, Present, Terminal
      <4> QED BY <2>1, <4>1, <4>2 DEF Finished
    <3> QED BY <3>1, <3>2
  <2>5. \A h \in Generations : done'[i][h].status = "completed" => fiber'[i][h].exit = "completed"
    <3>1. ASSUME NEW h \in Generations, done'[i][h].status = "completed"
          PROVE  fiber'[i][h].exit = "completed"
      <4>1. CASE i = id /\ h = g
        BY <1>5, <1>8, <3>1, <4>1 DEF SameExits
      <4>2. CASE ~(i = id /\ h = g)
        BY <1>5, <2>1, <3>1, <4>2 DEF SameExits
      <4> QED BY <4>1, <4>2
    <3> QED BY <3>1
  <2>6. \E k \in 0..MaxStarts : StartedUpTo(i, k)'
    BY ExitsSame
  <2> QED BY <2>3, <2>4, <2>5, <2>6
<1> QED BY <1>7, <1>9, RegistryFrom

\* What a set of entries becomes that is moved to the background.
LEMMA MarkDoes ==
  ASSUME RegistryInv, NEW ids \in SUBSET Ids, \A id \in ids : Present(id), MarkBackground(ids)
  PROVE  /\ UNCHANGED <<fiber, done>> => JobTypeOK'
         /\ \A id \in ids :
              LET n == IF jobs[id].notification = 0 THEN jobs[id].gen ELSE jobs[id].notification
              IN  /\ n \in Generations
                  /\ jobs'[id].gen = jobs[id].gen /\ jobs'[id].status = jobs[id].status
                  /\ jobs'[id].blockers = 0 /\ jobs'[id].backgrounded
                  /\ jobs'[id].notification = n
                  /\ \A m \in Generations :
                       table'[id][m] = IF m = n THEN jobs[id].status ELSE table[id][m]
                  /\ \A g \in Generations :
                       told'[id][g] = IF g = jobs[id].gen THEN n ELSE told[id][g]
         /\ \A id \in Ids \ ids :
              jobs'[id] = jobs[id] /\ table'[id] = table[id] /\ told'[id] = told[id]
<1> DEFINE n(id) == IF jobs[id].notification = 0 THEN jobs[id].gen ELSE jobs[id].notification
           Entries == [gen: 0..MaxStarts, status: Terminal \cup {"running", "absent"},
                       blockers: Nat, backgrounded: BOOLEAN, notification: 0..MaxStarts]
           Rows == [Generations -> Terminal \cup {"running", "none"}]
           Tells == [Generations -> 0..MaxStarts]
<1>1. /\ jobs \in [Ids -> Entries] /\ table \in [Ids -> Rows] /\ told \in [Ids -> Tells]
  BY DEF RegistryInv, JobTypeOK
<1>2. /\ \A id \in Ids : jobs'[id] = IF id \in ids THEN [jobs[id] EXCEPT !.backgrounded = TRUE,
                                 !.blockers = 0, !.notification = IF @ = 0 THEN jobs[id].gen ELSE @]
                               ELSE jobs[id]
      /\ DOMAIN jobs' = Ids /\ jobs' = [id \in Ids |-> jobs'[id]]
  BY DEF MarkBackground
<1>3. ASSUME NEW id \in ids
      PROVE  /\ jobs'[id] \in Entries /\ n(id) \in Generations
             /\ jobs'[id].gen = jobs[id].gen /\ jobs'[id].status = jobs[id].status
             /\ jobs'[id].blockers = 0 /\ jobs'[id].backgrounded
             /\ jobs'[id].notification = n(id)
             /\ jobs[id].status \in Terminal \cup {"running"} /\ jobs[id].gen \in Generations
  <2>1. jobs[id] \in Entries /\ jobs[id].gen \in Generations /\ jobs[id].status # "absent"
    BY <1>1, RegistryHas DEF Present
  <2>2. 0 \notin Generations /\ Generations \subseteq 0..MaxStarts
    BY StartsAssumption DEF Generations
  <2>3. n(id) \in Generations
    <3>1. jobs[id].notification \in 0..MaxStarts
      BY <2>1
    <3> QED BY <2>1, <3>1, StartsAssumption DEF Generations
  <2>4. /\ jobs'[id] = [jobs[id] EXCEPT !.backgrounded = TRUE, !.blockers = 0,
                                        !.notification = n(id)]
    BY <1>2
  <2>5. n(id) \in 0..MaxStarts
    BY <2>2, <2>3
  <2> HIDE DEF n
  <2>6. jobs'[id] \in Entries
    <3>1. jobs'[id] = [gen |-> jobs[id].gen, status |-> jobs[id].status, blockers |-> 0,
                       backgrounded |-> TRUE, notification |-> n(id)]
      BY <2>1, <2>4
    <3> QED BY <2>1, <2>5, <3>1
  <2> QED BY <2>1, <2>3, <2>4, <2>6
<1>4. ASSUME NEW id \in ids
      PROVE  /\ table'[id] = [table[id] EXCEPT ![n(id)] = jobs[id].status]
             /\ told'[id] = [told[id] EXCEPT ![jobs[id].gen] = n(id)]
  <2>1. /\ table'[id] = [table[id] EXCEPT ![[jobs[id] EXCEPT !.backgrounded = TRUE, !.blockers = 0,
             !.notification = IF @ = 0 THEN jobs[id].gen ELSE @].notification] = jobs[id].status]
        /\ told'[id] = [told[id] EXCEPT ![jobs[id].gen] = [jobs[id] EXCEPT !.backgrounded = TRUE,
             !.blockers = 0, !.notification = IF @ = 0 THEN jobs[id].gen ELSE @].notification]
    BY DEF MarkBackground
  <2>2. jobs'[id] = [jobs[id] EXCEPT !.backgrounded = TRUE, !.blockers = 0,
             !.notification = IF @ = 0 THEN jobs[id].gen ELSE @]
    BY <1>2
  <2> QED BY <1>3, <2>1, <2>2
<1>5. \A id \in Ids \ ids :
        jobs'[id] = jobs[id] /\ table'[id] = table[id] /\ told'[id] = told[id]
  BY DEF MarkBackground
<1> HIDE DEF n
<1>6. ASSUME NEW id \in ids
      PROVE  /\ table'[id] \in Rows /\ told'[id] \in Tells
             /\ \A m \in Generations :
                  table'[id][m] = IF m = n(id) THEN jobs[id].status ELSE table[id][m]
             /\ \A g \in Generations :
                  told'[id][g] = IF g = jobs[id].gen THEN n(id) ELSE told[id][g]
  <2>1. table[id] \in Rows /\ told[id] \in Tells /\ Generations \subseteq 0..MaxStarts
    BY <1>1, StartsAssumption DEF Generations
  <2>2. /\ table'[id] \in Rows
        /\ \A m \in Generations :
             table'[id][m] = IF m = n(id) THEN jobs[id].status ELSE table[id][m]
    <3>1. table[id] \in [Generations -> Terminal \cup {"running", "none"}]
      BY <2>1
    <3>2. jobs[id].status \in Terminal \cup {"running", "none"} /\ n(id) \in Generations
      BY <1>3
    <3> DEFINE V == Terminal \cup {"running", "none"}
               t == table[id]
               s == jobs[id].status
    <3>3. t \in [Generations -> V] /\ s \in V /\ n(id) \in Generations /\ table'[id] = [t EXCEPT ![n(id)] = s]
      BY <1>4, <3>1, <3>2
    <3> HIDE DEF V, t, s
    <3>4. /\ table'[id] \in [Generations -> V]
          /\ \A m \in Generations : table'[id][m] = IF m = n(id) THEN s ELSE t[m]
      BY <3>3, ChangesOne
    <3> QED BY <3>4 DEF V, t, s
  <2>3. /\ told'[id] \in Tells
        /\ \A g \in Generations :
             told'[id][g] = IF g = jobs[id].gen THEN n(id) ELSE told[id][g]
    <3>1. n(id) \in 0..MaxStarts /\ jobs[id].gen \in Generations
      BY <1>3, <2>1
    <3> DEFINE V == 0..MaxStarts
               t == told[id]
               x == jobs[id].gen
    <3>2. t \in [Generations -> V] /\ n(id) \in V /\ x \in Generations /\ told'[id] = [t EXCEPT ![x] = n(id)]
      BY <1>4, <2>1, <3>1
    <3> HIDE DEF V, t, x
    <3>3. /\ told'[id] \in [Generations -> V]
          /\ \A g \in Generations : told'[id][g] = IF g = x THEN n(id) ELSE t[g]
      BY <3>2, ChangesOne
    <3> QED BY <3>3 DEF V, t, x
  <2> QED BY <2>2, <2>3
<1>7. /\ jobs' \in [Ids -> Entries] /\ table' \in [Ids -> Rows] /\ told' \in [Ids -> Tells]
  <2>1. jobs' = [id \in Ids |-> jobs'[id]]
    BY DEF MarkBackground
  <2>2. table' = [id \in Ids |-> table'[id]]
    BY DEF MarkBackground
  <2>3. told' = [id \in Ids |-> told'[id]]
    <3>1. told' = [id \in Ids |->
             IF id \in ids
             THEN [told[id] EXCEPT ![jobs[id].gen] = [jobs[id] EXCEPT !.backgrounded = TRUE,
                     !.blockers = 0, !.notification = IF @ = 0 THEN jobs[id].gen ELSE @].notification]
             ELSE told[id]]
      BY Zenon DEF MarkBackground
    <3> QED BY <3>1
  <2>4. \A id \in Ids : jobs'[id] \in Entries /\ table'[id] \in Rows /\ told'[id] \in Tells
    BY <1>1, <1>3, <1>5, <1>6
  <2> QED BY <2>1, <2>2, <2>3, <2>4
<1>8. UNCHANGED <<fiber, done>> => JobTypeOK'
  BY <1>7 DEF RegistryInv, JobTypeOK
<1> QED BY <1>3, <1>5, <1>6, <1>8 DEF n

\* Jobs that are marked as background keep the registry in order.
LEMMA MarkKeeps ==
  ASSUME RegistryInv, NEW ids \in SUBSET Ids, \A id \in ids : Present(id), MarkBackground(ids),
         UNCHANGED <<fiber, done>>
  PROVE  RegistryInv'
<1>1. JobTypeOK'
  BY MarkDoes
<1>2. ASSUME NEW i \in Ids
      PROVE  /\ EntryOK(i)' /\ (Finished(i) => done[i][jobs[i].gen].status = jobs[i].status)'
             /\ \E k \in 0..MaxStarts : StartedUpTo(i, k)'
             /\ \A h \in Generations :
                  done'[i][h].status = "completed" => fiber'[i][h].exit = "completed"
  <2>1. /\ EntryOK(i)
        /\ Finished(i) => done[i][jobs[i].gen].status = jobs[i].status
        /\ Present(i) => jobs[i].gen \in Generations
        /\ \A h \in Generations : done[i][h].status = "completed" => fiber[i][h].exit = "completed"
    BY RegistryHas
  <2>2. \E k \in 0..MaxStarts : StartedUpTo(i, k)'
    BY ExitsSame DEF SameExits
  <2>3. CASE i \in ids
    <3>1. /\ jobs'[i].gen = jobs[i].gen /\ jobs'[i].status = jobs[i].status
          /\ jobs'[i].blockers = 0 /\ jobs'[i].notification \in Generations
          /\ told'[i][jobs[i].gen] = jobs'[i].notification
          /\ Present(i)
      BY <2>1, <2>3, MarkDoes
    <3>2. 0 \notin Generations
      BY StartsAssumption DEF Generations
    <3>3. EntryOK(i)'
      BY <2>1, <3>1, <3>2 DEF EntryOK, Present
    <3> QED BY <2>1, <2>2, <3>1, <3>3 DEF Finished
  <2>4. CASE i \notin ids
    <3>1. jobs'[i] = jobs[i] /\ told'[i] = told[i]
      BY <2>4, MarkDoes
    <3>2. EntryOK(i)'
      BY <2>1, <3>1 DEF EntryOK, Present, Blocking, Running
    <3> QED BY <2>1, <2>2, <3>1, <3>2 DEF Finished
  <2> QED BY <2>3, <2>4
<1> QED BY <1>1, <1>2, RegistryFrom

\* Entries that have ended are forgotten, and rows are deleted.
LEMMA ForgetKeeps ==
  ASSUME RegistryInv, NEW ids \in SUBSET Ids, jobs' = [id \in Ids |-> IF id \in ids THEN Absent ELSE jobs[id]],
         UNCHANGED <<fiber, done, told>>,
         table' \in [Ids -> [Generations -> Terminal \cup {"running", "none"}]]
  PROVE  RegistryInv'
<1> DEFINE Entries == [gen: 0..MaxStarts, status: Terminal \cup {"running", "absent"},
                       blockers: Nat, backgrounded: BOOLEAN, notification: 0..MaxStarts]
<1>1. jobs \in [Ids -> Entries] /\ Absent \in Entries
  BY StartsAssumption DEF RegistryInv, JobTypeOK, Absent
<1>2. jobs' \in [Ids -> Entries]
  BY <1>1
<1>3. JobTypeOK'
  BY <1>2 DEF RegistryInv, JobTypeOK
<1>4. ASSUME NEW i \in Ids
      PROVE  /\ EntryOK(i)' /\ (Finished(i) => done[i][jobs[i].gen].status = jobs[i].status)'
             /\ \E k \in 0..MaxStarts : StartedUpTo(i, k)'
             /\ \A h \in Generations :
                  done'[i][h].status = "completed" => fiber'[i][h].exit = "completed"
  <2>1. /\ EntryOK(i)
        /\ Finished(i) => done[i][jobs[i].gen].status = jobs[i].status
        /\ \A h \in Generations : done[i][h].status = "completed" => fiber[i][h].exit = "completed"
    BY RegistryHas
  <2>2. \E k \in 0..MaxStarts : StartedUpTo(i, k)'
    BY ExitsSame DEF SameExits
  <2>3. CASE i \in ids
    <3>1. jobs'[i] = Absent
      BY <2>3
    <3>2. EntryOK(i)' /\ ~Finished(i)'
      BY <3>1 DEF EntryOK, Present, Finished, Absent, Terminal
    <3> QED BY <2>1, <2>2, <3>2
  <2>4. CASE i \notin ids
    <3>1. jobs'[i] = jobs[i]
      BY <2>4
    <3>2. EntryOK(i)'
      BY <2>1, <3>1 DEF EntryOK, Present, Blocking, Running
    <3> QED BY <2>1, <2>2, <3>1, <3>2 DEF Finished
  <2> QED BY <2>3, <2>4
<1> QED BY <1>3, <1>4, RegistryFrom

\* Only rows change.
LEMMA TableKeeps ==
  ASSUME RegistryInv, UNCHANGED <<jobs, fiber, done, told>>,
         table' \in [Ids -> [Generations -> Terminal \cup {"running", "none"}]]
  PROVE  RegistryInv'
<1>1. JobTypeOK'
  BY DEF RegistryInv, JobTypeOK
<1> QED BY <1>1 DEF RegistryInv, OutcomeIsItsOwn, EntryOK, StartedUpTo, Present, Blocking, Running, Finished

\* A job starts: with a generation that never ran.
LEMMA StartKeeps ==
  ASSUME RegistryInv, NEW id \in Ids, NEW n \in 0..MaxStarts, Start(id, n),
         UNCHANGED <<table, done, told>>
  PROVE  /\ RegistryInv' /\ \A i \in Ids \ {id} : jobs'[i] = jobs[i]
         /\ ~Running(id) => ~jobs'[id].backgrounded /\ jobs'[id].blockers = 0
         /\ Running(id) => UNCHANGED jobs
         /\ Running(id)'
<1>1. CASE Running(id)
  <2>1. UNCHANGED <<jobs, fiber>>
    BY <1>1 DEF Start
  <2>2. table' \in [Ids -> [Generations -> Terminal \cup {"running", "none"}]]
    BY DEF RegistryInv, JobTypeOK
  <2>3. Running(id)'
    BY <1>1, <2>1 DEF Running
  <2> QED BY <1>1, <2>1, <2>2, <2>3, TableKeeps
<1>2. CASE ~Running(id)
  <2> DEFINE Entries == [gen: 0..MaxStarts, status: Terminal \cup {"running", "absent"},
                         blockers: Nat, backgrounded: BOOLEAN, notification: 0..MaxStarts]
             Fibers0 == [exit: Exits \cup {"none", "running", "dead"}, settled: BOOLEAN]
  <2>1. PICK k \in 0..MaxStarts : StartedUpTo(id, k)
    BY RegistryHas
  <2> DEFINE g == k + 1
             entry == [Absent EXCEPT !.gen = g, !.status = "running", !.notification = n]
             run == [fiber[id][g] EXCEPT !.exit = "running"]
  <2>2. /\ g <= MaxStarts /\ jobs' = [jobs EXCEPT ![id] = entry]
        /\ fiber' = [fiber EXCEPT ![id][g] = run]
    <3>1. Starts(id) = k
      BY <2>1, StartsCounted
    <3> QED BY <1>2, <3>1 DEF Start
  <2>3. g \in Generations /\ g \in 0..MaxStarts /\ MaxStarts \in Nat /\ k \in Nat
    BY <2>2, StartsAssumption DEF Generations
  <2>4. /\ jobs \in [Ids -> Entries] /\ fiber \in [Ids -> [Generations -> Fibers0]]
    BY DEF RegistryInv, JobTypeOK
  <2>5. /\ entry \in Entries /\ entry.gen = g /\ entry.status = "running" /\ entry.blockers = 0
        /\ ~entry.backgrounded
    BY <2>3 DEF Absent
  <2>6. run \in Fibers0 /\ run.exit = "running"
    BY <2>3, <2>4
  <2>7. fiber[id][g].exit = "none"
    BY <2>1, <2>3 DEF StartedUpTo
  <2> HIDE DEF entry, run, Entries, Fibers0, g
  <2>8. /\ jobs' \in [Ids -> Entries]
        /\ \A i \in Ids : jobs'[i] = IF i = id THEN entry ELSE jobs[i]
    BY <2>2, <2>4, <2>5
  <2>9. /\ fiber' \in [Ids -> [Generations -> Fibers0]]
        /\ \A i \in Ids, h \in Generations :
             fiber'[i][h] = IF i = id /\ h = g THEN run ELSE fiber[i][h]
    BY <2>2, <2>3, <2>4, <2>6, ChangesAt
  <2>10. JobTypeOK'
    BY <2>8, <2>9 DEF RegistryInv, JobTypeOK, Entries, Fibers0
  <2>11. ASSUME NEW i \in Ids
         PROVE  /\ EntryOK(i)' /\ (Finished(i) => done[i][jobs[i].gen].status = jobs[i].status)'
                /\ \E m \in 0..MaxStarts : StartedUpTo(i, m)'
                /\ \A h \in Generations :
                     done'[i][h].status = "completed" => fiber'[i][h].exit = "completed"
    <3>1. /\ EntryOK(i)
          /\ Finished(i) => done[i][jobs[i].gen].status = jobs[i].status
          /\ \A h \in Generations : done[i][h].status = "completed" => fiber[i][h].exit = "completed"
      BY RegistryHas
    <3>2. \A h \in Generations : done'[i][h].status = "completed" => fiber'[i][h].exit = "completed"
      BY <2>7, <2>9, <3>1
    <3>3. CASE i = id
      <4>1. jobs'[i] = entry
        BY <2>8, <3>3
      <4>2. EntryOK(i)' /\ ~Finished(i)'
        BY <2>3, <2>5, <4>1 DEF EntryOK, Present, Finished, Blocking, Running, Terminal
      <4>3. StartedUpTo(i, g)'
        <5>1. ASSUME NEW h \in Generations PROVE fiber'[i][h].exit # "none" <=> h <= g
          <6>1. h \in Nat /\ g = k + 1
            BY DEF Generations, g
          <6>2. fiber[i][h].exit # "none" <=> h <= k
            BY <2>1, <3>3 DEF StartedUpTo
          <6>3. fiber'[i][h].exit # "none" <=> (h = g \/ h <= k)
            BY <2>6, <2>9, <3>3, <6>2
          <6> QED BY <2>3, <6>1, <6>3
        <5> QED BY <5>1 DEF StartedUpTo
      <4> QED BY <2>3, <3>2, <4>2, <4>3
    <3>4. CASE i # id
      <4>1. jobs'[i] = jobs[i] /\ \A h \in Generations : fiber'[i][h] = fiber[i][h]
        BY <2>8, <2>9, <3>4
      <4>2. EntryOK(i)'
        BY <3>1, <4>1 DEF EntryOK, Present, Blocking, Running
      <4>3. PICK m \in 0..MaxStarts : StartedUpTo(i, m)
        BY RegistryHas
      <4>4. StartedUpTo(i, m)'
        BY <4>1, <4>3 DEF StartedUpTo
      <4> QED BY <3>1, <3>2, <4>1, <4>2, <4>4 DEF Finished
    <3> QED BY <3>3, <3>4
  <2>12. RegistryInv'
    BY <2>10, <2>11, RegistryFrom
  <2>13. Running(id)'
    BY <2>5, <2>8 DEF Running
  <2> QED BY <1>2, <2>5, <2>8, <2>12, <2>13
<1> QED BY <1>1, <1>2

\* The process dies: what ran is dead, and nothing else is left.
LEMMA CrashKeeps ==
  ASSUME RegistryInv, Crash
  PROVE  RegistryInv'
<1> DEFINE Fibers0 == [exit: Exits \cup {"none", "running", "dead"}, settled: BOOLEAN]
<1>1. /\ jobs' = [id \in Ids |-> Absent]
      /\ fiber' = [id \in Ids |-> [g \in Generations |-> Dead(fiber[id][g])]]
      /\ done' = [id \in Ids |-> [g \in Generations |-> Unresolved]]
      /\ told' = [id \in Ids |-> [g \in Generations |-> 0]]
      /\ table' = table
  BY DEF Crash
<1>2. fiber \in [Ids -> [Generations -> Fibers0]]
  BY DEF RegistryInv, JobTypeOK
<1>3. ASSUME NEW f \in Fibers0
      PROVE  Dead(f) \in Fibers0 /\ (Dead(f).exit # "none" <=> f.exit # "none")
  BY <1>3 DEF Dead
<1> HIDE DEF Fibers0
<1>4. fiber' \in [Ids -> [Generations -> Fibers0]]
  BY <1>1, <1>2, <1>3
<1>5. Absent \in [gen: 0..MaxStarts, status: Terminal \cup {"running", "absent"},
                  blockers: Nat, backgrounded: BOOLEAN, notification: 0..MaxStarts]
  BY StartsAssumption DEF Absent
<1>6. Unresolved \in [status: Terminal \cup {"none"}, notification: 0..MaxStarts]
  BY StartsAssumption DEF Unresolved
<1>7. 0 \in 0..MaxStarts
  BY StartsAssumption
<1>8. table' \in [Ids -> [Generations -> Terminal \cup {"running", "none"}]]
  BY <1>1 DEF RegistryInv, JobTypeOK
<1>9. jobs' \in [Ids -> [gen: 0..MaxStarts, status: Terminal \cup {"running", "absent"},
                         blockers: Nat, backgrounded: BOOLEAN, notification: 0..MaxStarts]]
  BY <1>1, <1>5
<1>10. done' \in [Ids -> [Generations -> [status: Terminal \cup {"none"}, notification: 0..MaxStarts]]]
  BY <1>1, <1>6
<1>11. told' \in [Ids -> [Generations -> 0..MaxStarts]]
  BY <1>1, <1>7
<1>12. JobTypeOK'
  BY <1>4, <1>8, <1>9, <1>10, <1>11 DEF JobTypeOK, Fibers0
<1>13. ASSUME NEW i \in Ids
      PROVE  /\ EntryOK(i)' /\ (Finished(i) => done[i][jobs[i].gen].status = jobs[i].status)'
             /\ \E k \in 0..MaxStarts : StartedUpTo(i, k)'
             /\ \A h \in Generations :
                  done'[i][h].status = "completed" => fiber'[i][h].exit = "completed"
  <2>1. jobs'[i] = Absent /\ \A h \in Generations : done'[i][h] = Unresolved
    BY <1>1
  <2>2. EntryOK(i)' /\ ~Finished(i)'
    BY <2>1 DEF EntryOK, Present, Finished, Absent, Terminal
  <2>3. PICK k \in 0..MaxStarts : StartedUpTo(i, k)
    BY RegistryHas
  <2>4. \A h \in Generations : fiber'[i][h].exit # "none" <=> fiber[i][h].exit # "none"
    BY <1>1, <1>2, <1>3
  <2>5. StartedUpTo(i, k)'
    BY <2>3, <2>4 DEF StartedUpTo
  <2> QED BY <2>1, <2>2, <2>5 DEF Unresolved
<1> QED BY <1>12, <1>13, RegistryFrom

-----------------------------------------------------------------------------
(* What those updates do to what must not be lost *)

\* A job in the background has a notification that is in the parent's inbox, or
\* a row that says how it ended.
Owned(id) ==
  jobs[id].backgrounded =>
    LET n == jobs[id].notification
    IN  /\ n # 0
        /\ n \in notices[id] \/ (table[id][n] # "none" /\ (jobs[id].status = "completed" => table[id][n] = "completed"))

\* An update loses nothing: what was safe is, what is told now is, and so is
\* every job in the background.
NothingLost ==
  \A id \in Ids :
    /\ \A n \in Generations : Safe(id, n) => Safe(id, n)'
    /\ \A g \in Generations : told'[id][g] = told[id][g] \/ Safe(id, told[id][g])'
    /\ Owned(id) => Owned(id)'

\* Ownership of the background is ownership of each ID.
LEMMA OwnedAll == OwnershipIsDurable <=> (removal = "no" => \A id \in Ids : Owned(id))
<1>1. \A id \in Ids : Owned(id) <=>
        LET row == table[id][jobs[id].notification]
        IN  jobs[id].backgrounded =>
            /\ jobs[id].notification # 0
            /\ \/ jobs[id].notification \in notices[id]
               \/ row # "none" /\ (jobs[id].status = "completed" => row = jobs[id].status)
  BY DEF Owned
<1> QED BY <1>1 DEF OwnershipIsDurable

\* The entries, rows and answers are as they were; there may be more notices.
LEMMA LosesNothing ==
  ASSUME UNCHANGED <<jobs, table, told>>, \A id \in Ids : notices[id] \subseteq notices'[id]
  PROVE  NothingLost
<1>1. ASSUME NEW id \in Ids PROVE Owned(id) => Owned(id)'
  BY DEF Owned
<1>2. ASSUME NEW id \in Ids, NEW n \in Generations PROVE Safe(id, n) => Safe(id, n)'
  BY DEF Safe
<1> QED BY <1>1, <1>2 DEF NothingLost

\* A count of blockers tells nobody anything.
LEMMA CountLosesNothing ==
  ASSUME RegistryInv, NEW id \in Ids, NEW n, jobs' = [jobs EXCEPT ![id].blockers = n],
         UNCHANGED <<table, told, notices>>
  PROVE  NothingLost
<1>1. ASSUME NEW i \in Ids
      PROVE  /\ jobs'[i].backgrounded = jobs[i].backgrounded
             /\ jobs'[i].notification = jobs[i].notification /\ jobs'[i].status = jobs[i].status
  <2>1. jobs'[i] = IF i = id THEN [jobs[i] EXCEPT !.blockers = n] ELSE jobs[i]
    BY DEF RegistryInv, JobTypeOK
  <2> QED BY <2>1, RegistryHas
<1>2. \A i \in Ids : Owned(i) <=> Owned(i)'
  BY <1>1 DEF Owned
<1> QED BY <1>2 DEF NothingLost, Safe

\* An entry ends, and its row - if it has one - says so, unless it was cancelled.
LEMMA EndsLosesNothing ==
  ASSUME RegistryInv, NEW id \in Ids, NEW status \in Terminal, Running(id), Ends(id, status),
         UNCHANGED <<told, notices>>,
         \/ Persist(id, [jobs[id] EXCEPT !.status = status])
         \/ status = "cancelled" /\ UNCHANGED table
  PROVE  NothingLost /\ table' \in [Ids -> [Generations -> Terminal \cup {"running", "none"}]]
<1> DEFINE m == jobs[id].notification
           V == Terminal \cup {"running", "none"}
<1>1. /\ table \in [Ids -> [Generations -> V]] /\ status \in V /\ m \in 0..MaxStarts
      /\ MaxStarts \in Nat /\ status # "none"
  BY RegistryHas, StartsAssumption DEF JobTypeOK, Terminal
<1>2. \/ UNCHANGED table /\ (m = 0 \/ status = "cancelled")
      \/ m \in Generations /\ table' = [table EXCEPT ![id][m] = status]
  <2>1. [jobs[id] EXCEPT !.status = status].notification = m /\ [jobs[id] EXCEPT !.status = status].status = status
    BY RegistryHas
  <2> QED BY <1>1, <2>1 DEF Persist, Generations
<1>3. ASSUME NEW i \in Ids
      PROVE  /\ jobs'[i].backgrounded = jobs[i].backgrounded
             /\ jobs'[i].notification = jobs[i].notification
             /\ jobs'[i].status = IF i = id THEN status ELSE jobs[i].status
  <2>1. jobs'[i] = IF i = id THEN [jobs[i] EXCEPT !.status = status, !.blockers = 0] ELSE jobs[i]
    BY DEF RegistryInv, JobTypeOK, Ends
  <2> QED BY <2>1, RegistryHas
<1> HIDE DEF V
<1>4. CASE UNCHANGED table /\ (m = 0 \/ status = "cancelled")
  <2>1. \A i \in Ids : Owned(i) => Owned(i)'
    BY <1>3, <1>4 DEF Owned
  <2> QED BY <1>1, <1>4, <2>1 DEF NothingLost, Safe, V
<1>5. CASE m \in Generations /\ table' = [table EXCEPT ![id][m] = status]
  <2> HIDE DEF m
  <2>1. /\ table' \in [Ids -> [Generations -> V]]
        /\ \A i \in Ids, n \in Generations :
             table'[i][n] = IF i = id /\ n = m THEN status ELSE table[i][n]
    BY <1>1, <1>5, ChangesAt
  <2>2. ASSUME NEW i \in Ids, NEW n \in Generations PROVE Safe(i, n) => Safe(i, n)'
    BY <1>1, <2>1 DEF Safe
  <2>3. ASSUME NEW i \in Ids, Owned(i) PROVE Owned(i)'
    <3>1. CASE i = id
      <4>1. table'[i][m] = status
        BY <1>5, <2>1, <3>1
      <4> QED BY <1>1, <1>3, <2>3, <3>1, <4>1 DEF Owned, m
    <3>2. CASE i # id
      <4>1. jobs[i].notification # 0 => jobs[i].notification \in Generations
        BY <1>1, RegistryHas DEF Generations
      <4> QED BY <1>3, <2>1, <2>3, <3>2, <4>1 DEF Owned, m
    <3> QED BY <3>1, <3>2
  <2> QED BY <2>1, <2>2, <2>3 DEF NothingLost, V
<1> QED BY <1>2, <1>4, <1>5

\* Moving to the background writes the row before anybody is told.
LEMMA MarkLosesNothing ==
  ASSUME RegistryInv, NEW ids \in SUBSET Ids, \A id \in ids : Present(id), MarkBackground(ids),
         UNCHANGED notices
  PROVE  NothingLost
<1>1. ASSUME NEW i \in ids
      PROVE  /\ \A n \in Generations : Safe(i, n) => Safe(i, n)'
             /\ \A g \in Generations : told'[i][g] = told[i][g] \/ Safe(i, told[i][g])'
             /\ Owned(i)'
  <2>1. PICK n \in Generations :
        /\ jobs'[i].status = jobs[i].status
        /\ jobs'[i].notification = n
        /\ \A m \in Generations : table'[i][m] = IF m = n THEN jobs[i].status ELSE table[i][m]
        /\ \A g \in Generations : told'[i][g] = IF g = jobs[i].gen THEN n ELSE told[i][g]
    BY MarkDoes
  <2>2. jobs[i].status # "none" /\ 0 \notin Generations
    BY RegistryHas, StartsAssumption DEF Terminal, Generations
  <2>3. table'[i][n] = jobs[i].status
    BY <2>1
  <2>4. Safe(i, n)'
    BY <2>2, <2>3 DEF Safe
  <2>a. Owned(i)'
    <3>1. jobs'[i].notification = n /\ n # 0 /\ jobs'[i].status = jobs[i].status
      BY <2>1, <2>2
    <3> QED BY <2>2, <2>3, <3>1 DEF Owned
  <2>5. \A m \in Generations : Safe(i, m) => Safe(i, m)'
    BY <2>1, <2>2 DEF Safe
  <2>6. \A g \in Generations : told'[i][g] = told[i][g] \/ Safe(i, told[i][g])'
    BY <2>1, <2>4 DEF Safe
  <2> QED BY <2>a, <2>5, <2>6
<1>2. ASSUME NEW i \in Ids \ ids
      PROVE  /\ \A n \in Generations : Safe(i, n) => Safe(i, n)'
             /\ \A g \in Generations : told'[i][g] = told[i][g]
             /\ Owned(i) => Owned(i)'
  <2>1. jobs'[i] = jobs[i] /\ table'[i] = table[i] /\ told'[i] = told[i]
    BY MarkDoes
  <2> QED BY <2>1 DEF Safe, Owned
<1> QED BY <1>1, <1>2 DEF NothingLost

\* The row of a notice that is in the parent's inbox is not needed any more.
LEMMA CompleteLosesNothing ==
  ASSUME RegistryInv, NEW id \in Ids, NEW n \in Generations, CompleteBackground(id, n),
         n \in notices[id] \/ removal # "no", UNCHANGED notices
  PROVE  /\ table' \in [Ids -> [Generations -> Terminal \cup {"running", "none"}]]
         /\ RegistryInv'
         /\ removal = "no" => NothingLost
         /\ \A i \in Ids : /\ jobs'[i].blockers <= jobs[i].blockers
                           /\ jobs'[i].gen = jobs[i].gen \/ jobs'[i].blockers = 0
<1> DEFINE V == Terminal \cup {"running", "none"}
<1>1. /\ table \in [Ids -> [Generations -> V]] /\ "none" \in V
      /\ table' = [table EXCEPT ![id][n] = "none"]
  BY DEF CompleteBackground, RegistryInv, JobTypeOK
<1> HIDE DEF V
<1>2. /\ table' \in [Ids -> [Generations -> V]]
      /\ \A i \in Ids, m \in Generations : table'[i][m] = IF i = id /\ m = n THEN "none" ELSE table[i][m]
  BY <1>1, ChangesAt
<1> DEFINE ids == IF jobs[id].notification = n /\ ~Running(id) THEN {id} ELSE {}
<1>3. jobs' = [i \in Ids |-> IF i \in ids THEN Absent ELSE jobs[i]]
  BY DEF CompleteBackground, RegistryInv, JobTypeOK
<1>4. RegistryInv'
  <2>1. ids \in SUBSET Ids /\ UNCHANGED <<fiber, done, told>>
    BY DEF CompleteBackground
  <2> HIDE DEF ids
  <2> QED BY <1>2, <1>3, <2>1, ForgetKeeps DEF V
<1>5. ASSUME removal = "no", NEW i \in Ids
      PROVE  /\ \A m \in Generations : Safe(i, m) => Safe(i, m)'
             /\ \A g \in Generations : told'[i][g] = told[i][g]
             /\ Owned(i) => Owned(i)'
  <2>1. \A m \in Generations : Safe(i, m) => Safe(i, m)'
    BY <1>2, <1>5 DEF Safe
  <2>2. \A g \in Generations : told'[i][g] = told[i][g]
    BY DEF CompleteBackground
  <2>3. CASE i \in ids
    BY <1>3, <2>1, <2>2, <2>3 DEF Owned, Absent
  <2>4. CASE i \notin ids
    <3>1. jobs'[i] = jobs[i]
      BY <1>3, <2>4
    <3>2. jobs[i].notification # 0 => jobs[i].notification \in Generations
      BY RegistryHas, StartsAssumption DEF Generations
    <3>3. Owned(i) => Owned(i)'
      BY <1>2, <1>5, <3>1, <3>2 DEF Owned
    <3> QED BY <2>1, <2>2, <3>3
  <2> QED BY <2>3, <2>4
<1>6. ASSUME NEW i \in Ids
      PROVE  /\ jobs'[i].blockers <= jobs[i].blockers
             /\ jobs'[i].gen = jobs[i].gen \/ jobs'[i].blockers = 0
  <2>1. jobs'[i] = Absent \/ jobs'[i] = jobs[i]
    BY <1>3
  <2> QED BY <2>1, RegistryHas DEF Absent
<1> QED BY <1>2, <1>4, <1>5, <1>6 DEF NothingLost, V

-----------------------------------------------------------------------------
(* Callers *)

\* Nobody who was told is untold, and a removal is not taken back.
TellsStay ==
  /\ \A id \in Ids, g \in Generations : told[id][g] # 0 => told'[id][g] # 0
  /\ removal' = "no" => removal = "no"

\* A call is in order for as long as what was told stays told.
LEMMA CallStays ==
  ASSUME NEW call, CallOK(call, told, removal), TellsStay
  PROVE  CallOK(call, told', removal')
BY DEF CallOK, TellsStay, Blocks

\* So is every call.
LEMMA CallersStay ==
  ASSUME CallersOK, TellsStay, UNCHANGED caller
  PROVE  CallersOK'
BY CallStays DEF CallersOK

\* One call goes on.
LEMMA CallerGoes ==
  ASSUME CallersOK, TellsStay, NEW c \in Callers, NEW call \in CallType,
         CallOK(call, told', removal'), caller' = [caller EXCEPT ![c] = call]
  PROVE  CallersOK'
<1>1. /\ caller' \in [Callers -> CallType]
      /\ \A d \in Callers : caller'[d] = IF d = c THEN call ELSE caller[d]
  BY DEF CallersOK
<1>2. \A d \in Callers : CallOK(caller'[d], told', removal')
  BY <1>1, CallStays DEF CallersOK
<1> QED BY <1>1, <1>2 DEF CallersOK

\* A caller without a call is in order.
LEMMA IdleCall == Idle \in CallType /\ \A tells, removes : CallOK(Idle, tells, removes)
<1>1. 0 \in 0..MaxStarts
  BY StartsAssumption
<1> QED BY <1>1 DEF Idle, CallType, CallOK, Pcs, Blocks

\* A call that is freed is in order.
LEMMA FreedCall ==
  ASSUME CallersOK, TellsStay, NEW c \in Callers, Frees(c)
  PROVE  CallersOK'
BY CallerGoes, IdleCall DEF Frees

\* A call that goes to a job.
LEMMA GoneCall ==
  ASSUME CallersOK, TellsStay, NEW c \in Callers, NEW pc \in Pcs \ {"removing", "deleting"},
         NEW id \in Ids, NEW gen \in 0..MaxStarts, Goes(c, pc, id, gen),
         pc \in Blocks \cup {"handing", "backgrounded", "closing"} => gen \in Generations,
         pc \in {"releasing", "backgrounded"} => told'[id][gen] # 0
  PROVE  CallersOK'
<1> DEFINE call == [Idle EXCEPT !.pc = pc, !.id = id, !.gen = gen]
<1>1. Idle \in CallType /\ ~Idle.removes
  BY IdleCall DEF Idle
<1>2. /\ call \in CallType /\ call.pc = pc /\ call.id = id /\ call.gen = gen
      /\ call.removes = Idle.removes
  BY <1>1 DEF CallType
<1>a. CallOK(call, told', removal')
  BY <1>1, <1>2 DEF CallOK
<1>3. caller' = [caller EXCEPT ![c] = call]
  BY DEF Goes
<1> HIDE DEF call
<1> QED BY <1>2, <1>a, <1>3, CallerGoes

\* A call that goes on with its job.
LEMMA SteppedCall ==
  ASSUME CallersOK, TellsStay, NEW c \in Callers, NEW pc \in Pcs, Steps(c, pc),
         pc \in Blocks \cup {"backgrounded", "closing", "cancelling"} =>
           caller[c].id \in Ids /\ caller[c].gen \in Generations,
         pc \notin {"entering", "handing"},
         pc \in {"releasing", "backgrounded"} => told[caller[c].id][caller[c].gen] # 0,
         pc \in {"removing", "deleting"} => removal # "no"
  PROVE  CallersOK'
<1> DEFINE call == [caller[c] EXCEPT !.pc = pc]
<1>1. caller[c] \in CallType /\ CallOK(caller[c], told, removal)
  BY DEF CallersOK
<1>2. call \in CallType /\ call.pc = pc /\ call.id = caller[c].id /\ call.gen = caller[c].gen
      /\ call.removes = caller[c].removes
  BY <1>1 DEF CallType
<1>3. caller' = [caller EXCEPT ![c] = call]
  BY DEF Steps
<1> HIDE DEF call
<1>4. CallOK(call, told, removal)
  BY <1>1, <1>2 DEF CallOK
<1> QED BY <1>2, <1>3, <1>4, CallStays, CallerGoes

-----------------------------------------------------------------------------
(* Who blocks *)

BlockedOn(id) ==
  {c \in Callers : caller[c].id = id /\ caller[c].gen = jobs[id].gen /\ caller[c].pc \in Blocks}

\* The counts of blockers compare finite numbers.
LEMMA BlockedCounted ==
  /\ BlockersAreReal <=> \A id \in Ids : jobs[id].blockers <= Cardinality(BlockedOn(id))
  /\ \A id : IsFiniteSet(BlockedOn(id)) /\ Cardinality(BlockedOn(id)) \in Nat
<1>1. \A id : BlockedOn(id) = {c \in Callers : /\ caller[c].id = id /\ caller[c].gen = jobs[id].gen
                                  /\ caller[c].pc \in {"blocked", "unblocking", "releasing", "abandoning"}}
  BY DEF BlockedOn, Blocks
<1>2. \A id : IsFiniteSet(BlockedOn(id)) /\ Cardinality(BlockedOn(id)) \in Nat
  BY CallersAssumption, FS_Subset, FS_CardinalityType DEF BlockedOn
<1>3. BlockersAreReal <=> \A id \in Ids : jobs[id].blockers <= Cardinality(BlockedOn(id))
  BY <1>1 DEF BlockersAreReal
<1> QED BY <1>2, <1>3

\* The same, after a step.
LEMMA BlockedCountedNext ==
  /\ BlockersAreReal' <=> \A id \in Ids : jobs'[id].blockers <= Cardinality(BlockedOn(id)')
  /\ \A id : IsFiniteSet(BlockedOn(id)') /\ Cardinality(BlockedOn(id)') \in Nat
<1>1. \A id : BlockedOn(id)' = {c \in Callers : /\ caller'[c].id = id /\ caller'[c].gen = jobs'[id].gen
                                  /\ caller'[c].pc \in {"blocked", "unblocking", "releasing", "abandoning"}}
  BY DEF BlockedOn, Blocks
<1>2. ASSUME NEW id PROVE IsFiniteSet(BlockedOn(id)') /\ Cardinality(BlockedOn(id)') \in Nat
  <2>1. BlockedOn(id)' \subseteq Callers
    BY <1>1
  <2> QED BY <2>1, CallersAssumption, FS_Subset, FS_CardinalityType
<1>3. BlockersAreReal' <=> \A id \in Ids : jobs'[id].blockers <= Cardinality(BlockedOn(id)')
  BY <1>1 DEF BlockersAreReal
<1> QED BY <1>2, <1>3

\* A job that as many or fewer count as blocked on, while they stay.
LEMMA StaysBlocked ==
  ASSUME RegistryInv, RegistryInv', BlockersAreReal, NEW id \in Ids,
         jobs'[id].blockers <= jobs[id].blockers,
         jobs'[id].gen = jobs[id].gen \/ jobs'[id].blockers = 0,
         BlockedOn(id) \subseteq BlockedOn(id)' \/ jobs'[id].gen # jobs[id].gen
  PROVE  jobs'[id].blockers <= Cardinality(BlockedOn(id)')
<1>1. /\ jobs[id].blockers \in Nat /\ jobs'[id].blockers \in Nat
  BY DEF RegistryInv, JobTypeOK
<1>2. Cardinality(BlockedOn(id)') \in Nat /\ IsFiniteSet(BlockedOn(id)')
  BY BlockedCountedNext
<1>3. CASE jobs'[id].blockers = 0
  BY <1>1, <1>2, <1>3
<1>4. CASE jobs'[id].gen = jobs[id].gen
  <2>1. BlockedOn(id) \subseteq BlockedOn(id)'
    BY <1>4
  <2>2. Cardinality(BlockedOn(id)) <= Cardinality(BlockedOn(id)')
    BY <1>2, <2>1, FS_Subset
  <2>3. jobs[id].blockers <= Cardinality(BlockedOn(id)) /\ Cardinality(BlockedOn(id)) \in Nat
    BY BlockedCounted
  <2> QED BY <1>1, <1>2, <2>2, <2>3
<1> QED BY <1>3, <1>4

\* Whoever blocks blocks on.
BlocksOn ==
  \A c \in Callers :
    caller[c].pc \in Blocks =>
      caller'[c].pc \in Blocks /\ caller'[c].id = caller[c].id /\ caller'[c].gen = caller[c].gen

CountsDown ==
  \A id \in Ids : /\ jobs'[id].blockers <= jobs[id].blockers
                  /\ jobs'[id].gen = jobs[id].gen \/ jobs'[id].blockers = 0

\* A step that lowers counts, or counts whom it blocks, keeps them below the blocked
\* calls.
LEMMA BlockersKept ==
  ASSUME RegistryInv, RegistryInv', BlockersAreReal, CountsDown, BlocksOn
  PROVE  BlockersAreReal'
<1>1. ASSUME NEW id \in Ids PROVE jobs'[id].blockers <= Cardinality(BlockedOn(id)')
  <2>1. CASE jobs'[id].gen = jobs[id].gen
    <3>1. BlockedOn(id) \subseteq BlockedOn(id)'
      BY <2>1 DEF BlockedOn, BlocksOn
    <3> QED BY <3>1, StaysBlocked DEF CountsDown
  <2>2. CASE jobs'[id].gen # jobs[id].gen
    BY <2>2, StaysBlocked DEF CountsDown
  <2> QED BY <2>1, <2>2
<1> QED BY <1>1, BlockedCountedNext

\* A caller that did not block changes its mind: the others block on.
LEMMA OthersBlock ==
  ASSUME CallersOK, NEW c \in Callers, NEW call, caller' = [caller EXCEPT ![c] = call],
         caller[c].pc \notin Blocks
           \/ (call.pc \in Blocks /\ call.id = caller[c].id /\ call.gen = caller[c].gen)
  PROVE  BlocksOn
<1>1. \A d \in Callers : caller'[d] = IF d = c THEN call ELSE caller[d]
  BY DEF CallersOK
<1> QED BY <1>1 DEF BlocksOn

\* The entries' counts and generations as they were.
LEMMA SameCounts ==
  ASSUME RegistryInv, UNCHANGED jobs
  PROVE  CountsDown
BY DEF CountsDown, RegistryInv, JobTypeOK

-----------------------------------------------------------------------------
(* The invariant after a step, from its parts *)

\* What must not be lost is not, if the step loses nothing, promises only what is
\* safe and acknowledges only what is in the parent's inbox.
LEMMA DurableFrom ==
  ASSUME SubagentInv, removal' = "no" => removal = "no" /\ NothingLost,
         \A id \in Ids : \A n \in promised'[id] : n \in promised[id] \/ Safe(id, n)',
         \A o \in ObserverKeys : removal' = "no" /\ observer'[o].pc = "acknowledging"
                                   => observer'[o].notification \in notices'[o[2]],
         removal' = "no" /\ sweep'.pc = "acknowledging"
           => sweep'.notification \in notices'[sweep'.id]
  PROVE  DurableInv'
<1> SUFFICES ASSUME removal' = "no" PROVE DurableInv'
  BY DEF DurableInv
<1>1. removal = "no" /\ NothingLost /\ DurableInv /\ JobTypeOK /\ ReportsOK
  BY DEF SubagentInv, RegistryInv
<1>2. ASSUME NEW id \in Ids, NEW g \in Generations, told'[id][g] # 0
      PROVE  Safe(id, told[id][g])'
  <2>1. CASE told'[id][g] = told[id][g]
    <3>1. told[id][g] \in 0..MaxStarts /\ told[id][g] # 0
      BY <1>1, <1>2, <2>1 DEF JobTypeOK
    <3>2. PICK n \in Generations : n = told[id][g]
      BY <3>1, StartsAssumption DEF Generations
    <3>3. Safe(id, n)
      BY <1>1, <3>1, <3>2 DEF DurableInv
    <3>4. Safe(id, n)'
      BY <1>1, <3>3 DEF NothingLost
    <3> QED BY <2>1, <3>2, <3>4 DEF Safe
  <2>2. CASE told'[id][g] # told[id][g]
    BY <1>1, <2>2 DEF NothingLost
  <2> QED BY <2>1, <2>2
<1>3. ASSUME NEW id \in Ids, NEW n \in promised'[id]
      PROVE  Safe(id, n)'
  <2>1. CASE n \in promised[id]
    <3>1. n \in Generations /\ Safe(id, n)
      BY <1>1, <2>1 DEF ReportsOK, DurableInv
    <3> QED BY <1>1, <3>1 DEF NothingLost
  <2> QED BY <2>1
<1>4. \A id \in Ids : Owned(id)'
  BY <1>1, OwnedAll DEF DurableInv, NothingLost
<1>5. OwnershipIsDurable'
  <2>1. ASSUME NEW id \in Ids
        PROVE  (LET row == table[id][jobs[id].notification]
                IN  jobs[id].backgrounded =>
                      /\ jobs[id].notification # 0
                      /\ \/ jobs[id].notification \in notices[id]
                         \/ row # "none" /\ (jobs[id].status = "completed" => row = jobs[id].status))'
    BY <1>4 DEF Owned
  <2> QED BY <2>1 DEF OwnershipIsDurable
<1> QED BY <1>2, <1>3, <1>5 DEF DurableInv

\* A step of the registry or of a call, that the reports do not see.
LEMMA QuietReports ==
  ASSUME SubagentInv, UNCHANGED <<reportVars, sweep, crashes>>,
         RegistryInv', CallersOK', BlockersAreReal', removal' \in {"no", "going", "gone"},
         removal' = "no" => removal = "no" /\ NothingLost
  PROVE  SubagentInv'
<1>1. ReportsOK' /\ SweepOK'
  BY DEF SubagentInv, ReportsOK, SweepOK, reportVars
<1>2. DurableInv'
  <2>1. UNCHANGED <<observer, notices, promised, sweep>>
    BY DEF reportVars
  <2>2. /\ \A o \in ObserverKeys : removal' = "no" /\ observer'[o].pc = "acknowledging"
                                   => observer'[o].notification \in notices'[o[2]]
        /\ removal' = "no" /\ sweep'.pc = "acknowledging"
             => sweep'.notification \in notices'[sweep'.id]
    BY <2>1 DEF SubagentInv, DurableInv
  <2>3. \A id \in Ids : \A n \in promised'[id] : n \in promised[id] \/ Safe(id, n)'
    BY <2>1
  <2> QED BY <2>2, <2>3, DurableFrom
<1>3. crashes' \in 0..MaxCrashes
  BY DEF SubagentInv
<1> QED BY <1>1, <1>2, <1>3 DEF SubagentInv

\* Whoever ends is blocked on by nobody.
LEMMA EndsCounts ==
  ASSUME RegistryInv, NEW id \in Ids, NEW status, Ends(id, status)
  PROVE  CountsDown
<1>1. ASSUME NEW i \in Ids
      PROVE  jobs'[i].blockers <= jobs[i].blockers /\ jobs'[i].gen = jobs[i].gen
  <2>1. jobs'[i] = IF i = id THEN [jobs[i] EXCEPT !.status = status, !.blockers = 0] ELSE jobs[i]
    BY DEF RegistryInv, JobTypeOK, Ends
  <2> QED BY <2>1, RegistryHas
<1> QED BY <1>1 DEF CountsDown

\* Whoever moves to the background tells, and is blocked on by nobody.
LEMMA MarkTells ==
  ASSUME RegistryInv, NEW ids \in SUBSET Ids, \A id \in ids : Present(id), MarkBackground(ids),
         UNCHANGED removal
  PROVE  TellsStay /\ CountsDown
<1>1. ASSUME NEW i \in Ids
      PROVE  /\ \A g \in Generations : told[i][g] # 0 => told'[i][g] # 0
             /\ jobs'[i].blockers <= jobs[i].blockers /\ jobs'[i].gen = jobs[i].gen
  <2>1. CASE i \in ids
    <3>1. PICK n \in Generations :
            /\ jobs'[i].blockers = 0 /\ jobs'[i].gen = jobs[i].gen
            /\ \A g \in Generations : told'[i][g] = IF g = jobs[i].gen THEN n ELSE told[i][g]
      BY <2>1, MarkDoes
    <3>2. n # 0 /\ jobs[i].blockers \in Nat
      BY RegistryHas, StartsAssumption DEF Generations
    <3> QED BY <3>1, <3>2
  <2>2. CASE i \notin ids
    BY <2>2, MarkDoes, RegistryHas
  <2> QED BY <2>1, <2>2
<1> QED BY <1>1 DEF TellsStay, CountsDown

-----------------------------------------------------------------------------
(* The steps of the fibers *)

\* A fiber that settles keeps its exit.
LEMMA SettledRun ==
  ASSUME NEW f \in [exit: Exits \cup {"none", "running", "dead"}, settled: BOOLEAN]
  PROVE  /\ [f EXCEPT !.settled = TRUE] \in [exit: Exits \cup {"none", "running", "dead"}, settled: BOOLEAN]
         /\ [f EXCEPT !.settled = TRUE].exit = f.exit
OBVIOUS

\* A run ends, or settles its own entry.
LEMMA FiberKeeps ==
  ASSUME SubagentInv, FiberStep
  PROVE  SubagentInv'
<1>1. PICK id \in Ids, g \in Generations : RunEnds(id, g) \/ Settle(id, g)
  BY DEF FiberStep, Fibers
<1>2. UNCHANGED <<reportVars, sweep, removal, crashes, told, caller>>
  BY <1>1 DEF FiberStep, RunEnds, Settle
<1>3. RegistryInv /\ CallersOK /\ BlockersAreReal /\ removal \in {"no", "going", "gone"}
      /\ UNCHANGED notices
  BY <1>2 DEF SubagentInv, reportVars
<1>4. CallersOK' /\ BlocksOn
  BY <1>2, <1>3, CallersStay DEF TellsStay, BlocksOn
<1>5. SUFFICES RegistryInv' /\ CountsDown /\ NothingLost
  BY <1>2, <1>3, <1>4, BlockersKept, QuietReports
<1>6. CASE RunEnds(id, g)
  <2>1. UNCHANGED <<jobs, table, told>>
    BY <1>6 DEF RunEnds
  <2> QED BY <1>3, <1>6, <2>1, RunEndsKeeps, SameCounts, LosesNothing
<1>7. CASE Settle(id, g)
  <2> DEFINE Fibers0 == [exit: Exits \cup {"none", "running", "dead"}, settled: BOOLEAN]
             run == [fiber[id][g] EXCEPT !.settled = TRUE]
             status == IF fiber[id][g].exit = "interrupted" THEN "cancelled" ELSE fiber[id][g].exit
  <2>1. fiber' = [fiber EXCEPT ![id][g] = run] /\ fiber[id][g].exit \in Exits
    BY <1>7 DEF Settle
  <2>2. fiber \in [Ids -> [Generations -> Fibers0]]
    BY <1>3 DEF RegistryInv, JobTypeOK
  <2>3. run \in Fibers0 /\ run.exit = fiber[id][g].exit
    <3>1. fiber[id][g] \in Fibers0
      BY <2>2
    <3> QED BY <3>1, SettledRun
  <2>4. status \in Terminal /\ (status = "completed" => fiber[id][g].exit = "completed")
    BY <2>1 DEF Exits, Terminal
  <2>a. IF SettlesOwn(id, g)
        THEN /\ Ends(id, status)
             /\ IF status = "cancelled" THEN UNCHANGED table
                ELSE Persist(id, [jobs[id] EXCEPT !.status = status])
        ELSE UNCHANGED <<jobs, done, table>>
    BY <1>7 DEF Settle
  <2> HIDE DEF run, Fibers0, status
  <2>5. /\ fiber' \in [Ids -> [Generations -> Fibers0]]
        /\ \A i \in Ids, h \in Generations :
             fiber'[i][h] = IF i = id /\ h = g THEN run ELSE fiber[i][h]
    BY <2>1, <2>2, <2>3, ChangesAt
  <2>6. SameExits
    BY <2>3, <2>5 DEF SameExits
  <2>7. CASE SettlesOwn(id, g)
    <3>1. Running(id) /\ jobs[id].gen = g /\ Ends(id, status)
      BY <2>7, <2>a DEF SettlesOwn
    <3>2. \/ Persist(id, [jobs[id] EXCEPT !.status = status])
          \/ status = "cancelled" /\ UNCHANGED table
      BY <2>7, <2>a
    <3>3. NothingLost /\ table' \in [Ids -> [Generations -> Terminal \cup {"running", "none"}]]
      BY <1>2, <1>3, <2>4, <3>1, <3>2, EndsLosesNothing
    <3>4. RegistryInv'
      BY <1>2, <1>3, <2>4, <2>5, <2>6, <3>1, <3>3, EndsKeeps DEF Fibers0
    <3>5. CountsDown
      BY <1>3, <3>1, EndsCounts
    <3> QED BY <3>3, <3>4, <3>5
  <2>8. CASE ~SettlesOwn(id, g)
    <3>1. UNCHANGED <<jobs, done, table, told>>
      BY <1>2, <2>8, <2>a
    <3>2. JobTypeOK'
      BY <1>3, <2>5, <3>1 DEF RegistryInv, JobTypeOK, Fibers0
    <3>3. ASSUME NEW i \in Ids
          PROVE  /\ EntryOK(i)' /\ (Finished(i) => done[i][jobs[i].gen].status = jobs[i].status)'
                 /\ \E k \in 0..MaxStarts : StartedUpTo(i, k)'
                 /\ \A h \in Generations :
                      done'[i][h].status = "completed" => fiber'[i][h].exit = "completed"
      <4>1. /\ EntryOK(i)
            /\ Finished(i) => done[i][jobs[i].gen].status = jobs[i].status
            /\ \A h \in Generations : done[i][h].status = "completed" => fiber[i][h].exit = "completed"
        BY <1>3, RegistryHas
      <4>2. \E k \in 0..MaxStarts : StartedUpTo(i, k)'
        BY <1>3, <2>6, ExitsSame
      <4>3. EntryOK(i)'
        BY <3>1, <4>1 DEF EntryOK, Present, Blocking, Running
      <4> QED BY <2>6, <3>1, <4>1, <4>2, <4>3 DEF Finished, SameExits
    <3>4. RegistryInv'
      BY <3>2, <3>3, RegistryFrom
    <3> QED BY <1>3, <3>1, <3>4, SameCounts, LosesNothing
  <2> QED BY <2>7, <2>8
<1> QED BY <1>1, <1>6, <1>7

\* A client moves what is blocked on to the background.
LEMMA MovingKeeps ==
  ASSUME SubagentInv, MovesToBackground
  PROVE  SubagentInv'
<1>1. /\ MarkBackground(BlockingAll) /\ UNCHANGED <<fiber, done, caller, reportVars, sweep, removal, crashes>>
      /\ BlockingAll \in SUBSET Ids /\ \A id \in BlockingAll : Present(id)
  BY DEF MovesToBackground, BackgroundAll, BlockingAll, Present, Running
<1>2. RegistryInv /\ CallersOK /\ BlockersAreReal /\ removal \in {"no", "going", "gone"}
      /\ UNCHANGED notices
  BY <1>1 DEF SubagentInv, reportVars
<1>3. RegistryInv' /\ NothingLost /\ TellsStay /\ CountsDown
  BY <1>1, <1>2, MarkKeeps, MarkLosesNothing, MarkTells
<1>4. CallersOK' /\ BlocksOn
  BY <1>1, <1>2, <1>3, CallersStay DEF BlocksOn
<1> QED BY <1>1, <1>2, <1>3, <1>4, BlockersKept, QuietReports

-----------------------------------------------------------------------------
(* The steps of a call *)

\* The fields of a call that goes to a job.
LEMMA GoingCall ==
  ASSUME NEW c \in Callers, NEW pc, NEW id, NEW gen, Goes(c, pc, id, gen), CallersOK
  PROVE  /\ caller'[c].pc = pc /\ caller'[c].id = id /\ caller'[c].gen = gen
         /\ \A d \in Callers \ {c} : caller'[d] = caller[d]
BY DEF Goes, CallersOK, Idle

\* A call blocks on its job, finds it in the background, or has nothing to wait for.
LEMMA EntersKeeps ==
  ASSUME SubagentInv, NEW c \in Callers, Enters(c)
  PROVE  SubagentInv'
<1>1. /\ RegistryInv /\ CallersOK /\ BlockersAreReal /\ removal \in {"no", "going", "gone"}
      /\ UNCHANGED <<table, fiber, done, told, reportVars, sweep, removal, crashes>>
      /\ UNCHANGED notices /\ TellsStay
  BY DEF SubagentInv, Enters, Block, reportVars, TellsStay
<1>p. caller[c].pc = "entering" /\ caller[c].id \in Ids
  BY <1>1 DEF Enters, CallersOK, CallOK
<1>q. PICK id \in Ids : id = caller[c].id
  BY <1>p
<1>2. caller[c].pc \notin Blocks
  BY <1>p DEF Blocks
<1>a. \/ ~Running(id) /\ Frees(c) /\ UNCHANGED jobs
      \/ Running(id) /\ jobs[id].backgrounded /\ Goes(c, "backgrounded", id, jobs[id].gen) /\ UNCHANGED jobs
      \/ /\ Running(id) /\ ~jobs[id].backgrounded
         /\ jobs' = [jobs EXCEPT ![id].blockers = @ + 1]
         /\ Goes(c, "blocked", id, jobs[id].gen)
  BY <1>q DEF Enters, Block
<1>b. /\ jobs[id].blockers \in Nat /\ (Running(id) => jobs[id].gen \in Generations)
      /\ jobs[id].gen \in 0..MaxStarts /\ EntryOK(id)
  BY <1>1, <1>2, RegistryHas DEF Running, Present
<1>3. CASE ~Running(id) /\ Frees(c) /\ UNCHANGED jobs
  <2>1. CallersOK' /\ BlocksOn
    BY <1>1, <1>2, <1>3, FreedCall, OthersBlock DEF Frees
  <2>2. RegistryInv'
    BY <1>1, <1>3, TableKeeps DEF RegistryInv, JobTypeOK
  <2> QED BY <1>1, <1>3, <2>1, <2>2, SameCounts, LosesNothing, BlockersKept, QuietReports
<1>4. CASE Running(id) /\ jobs[id].backgrounded /\ Goes(c, "backgrounded", id, jobs[id].gen) /\ UNCHANGED jobs
  <2>1. told'[id][jobs[id].gen] # 0
    BY <1>1, <1>4, <1>b DEF EntryOK
  <2>2. "backgrounded" \in Pcs \ {"removing", "deleting"}
    BY DEF Pcs
  <2>3. CallersOK'
    BY <1>1, <1>2, <1>4, <1>b, <2>1, <2>2, GoneCall
  <2>4. BlocksOn
    BY <1>1, <1>2, <1>4, OthersBlock DEF Goes
  <2>5. RegistryInv'
    BY <1>1, <1>4, TableKeeps DEF RegistryInv, JobTypeOK
  <2> QED BY <1>1, <1>4, <2>3, <2>4, <2>5, SameCounts, LosesNothing, BlockersKept, QuietReports
<1>5. CASE /\ Running(id) /\ ~jobs[id].backgrounded
           /\ jobs' = [jobs EXCEPT ![id].blockers = @ + 1]
           /\ Goes(c, "blocked", id, jobs[id].gen)
  <2> DEFINE n == jobs[id].blockers + 1
  <2>1. n \in Nat /\ jobs' = [jobs EXCEPT ![id].blockers = n]
    BY <1>5, <1>b
  <2>a. n = jobs[id].blockers + 1
    OBVIOUS
  <2> HIDE DEF n
  <2>2. RegistryInv' /\ NothingLost
    BY <1>1, <1>2, <1>5, <2>1, CountKeeps, CountLosesNothing DEF Blocking
  <2>3. "blocked" \in Pcs \ {"removing", "deleting"}
    BY DEF Pcs, Blocks
  <2>4. CallersOK'
    BY <1>1, <1>2, <1>5, <1>b, <2>3, GoneCall
  <2>5. /\ caller'[c].pc = "blocked" /\ caller'[c].id = id /\ caller'[c].gen = jobs[id].gen
        /\ \A d \in Callers \ {c} : caller'[d] = caller[d]
    BY <1>1, <1>5, GoingCall
  <2>6. \A i \in Ids : /\ jobs'[i].gen = jobs[i].gen
                       /\ jobs'[i].blockers = IF i = id THEN n ELSE jobs[i].blockers
    <3>1. ASSUME NEW i \in Ids
          PROVE  /\ jobs'[i].gen = jobs[i].gen
                 /\ jobs'[i].blockers = IF i = id THEN n ELSE jobs[i].blockers
      <4>1. jobs'[i] = IF i = id THEN [jobs[i] EXCEPT !.blockers = n] ELSE jobs[i]
        BY <1>1, <2>1 DEF RegistryInv, JobTypeOK
      <4> QED BY <1>1, <4>1, RegistryHas
    <3> QED BY <3>1
  <2>7. ASSUME NEW i \in Ids PROVE jobs'[i].blockers <= Cardinality(BlockedOn(i)')
    <3>1. CASE i = id
      <4>1. BlockedOn(id)' = BlockedOn(id) \cup {c} /\ c \notin BlockedOn(id)
        <5>1. BlockedOn(id)' = {d \in Callers : /\ caller'[d].id = id /\ caller'[d].gen = jobs[id].gen
                                                /\ caller'[d].pc \in Blocks}
          BY <1>2, <2>6 DEF BlockedOn
        <5>2. c \in BlockedOn(id)' /\ c \notin BlockedOn(id)
          BY <1>2, <2>5, <5>1 DEF BlockedOn, Blocks
        <5>3. \A d \in Callers \ {c} : d \in BlockedOn(id)' <=> d \in BlockedOn(id)
          BY <2>5, <5>1 DEF BlockedOn
        <5>4. BlockedOn(id)' \subseteq Callers /\ BlockedOn(id) \subseteq Callers
          BY <5>1 DEF BlockedOn
        <5> QED BY <5>2, <5>3, <5>4
      <4>2. Cardinality(BlockedOn(id)') = Cardinality(BlockedOn(id)) + 1
        BY <4>1, BlockedCounted, FS_AddElement
      <4>3. jobs[id].blockers <= Cardinality(BlockedOn(id)) /\ Cardinality(BlockedOn(id)) \in Nat
        BY <1>1, <1>2, BlockedCounted
      <4>4. jobs'[i].blockers = jobs[id].blockers + 1
        BY <2>6, <2>a, <3>1
      <4>5. Cardinality(BlockedOn(i)') = Cardinality(BlockedOn(id)')
        BY <3>1
      <4> QED BY <1>b, <4>2, <4>3, <4>4, <4>5
    <3>2. CASE i # id
      <4>1. BlockedOn(i) \subseteq BlockedOn(i)'
        BY <1>2, <2>5, <2>6 DEF BlockedOn
      <4>2. jobs'[i].blockers <= jobs[i].blockers
        BY <1>1, <2>6, <3>2, RegistryHas
      <4> QED BY <1>1, <2>2, <2>6, <4>1, <4>2, StaysBlocked
    <3> QED BY <3>1, <3>2
  <2>8. BlockersAreReal'
    BY <2>7, BlockedCountedNext
  <2> QED BY <1>1, <2>2, <2>4, <2>8, QuietReports
<1> QED BY <1>a, <1>3, <1>4, <1>5

\* A blocked call that goes on blocking.
LEMMA StepBlocks ==
  ASSUME CallersOK, NEW c \in Callers, NEW pc \in Blocks, Steps(c, pc)
  PROVE  BlocksOn
<1>1. /\ caller' = [caller EXCEPT ![c] = [caller[c] EXCEPT !.pc = pc]]
      /\ caller[c] \in CallType
  BY DEF Steps, CallersOK
<1>2. \A call \in CallType : /\ [call EXCEPT !.pc = pc].pc = pc /\ [call EXCEPT !.pc = pc].id = call.id
                             /\ [call EXCEPT !.pc = pc].gen = call.gen
  BY DEF CallType
<1> QED BY <1>1, <1>2, OthersBlock

Observers == [pc: {"none", "waiting", "delivering", "acknowledging"},
              gen: 0..MaxStarts, notification: 0..MaxStarts]

\* What an observer sees that looks at its job.
LEMMA LooksAt ==
  ASSUME RegistryInv, NEW o \in ObserverKeys, NEW id \in Ids
  PROVE  /\ Looking(o, id) \in Observers
         /\ Looking(o, id).pc # "acknowledging"
         /\ Looking(o, id).pc = "waiting" => Looking(o, id).gen \in Generations
<1>1. 0 \in 0..MaxStarts /\ Generations \subseteq 0..MaxStarts
  BY StartsAssumption DEF Generations
<1>2. /\ jobs[id].gen \in 0..MaxStarts /\ jobs[id].notification \in 0..MaxStarts
      /\ (Present(id) => jobs[id].gen \in Generations)
  BY RegistryHas
<1>3. o[3] \in 0..MaxStarts
  BY <1>1 DEF ObserverKeys
<1>4. CASE ~Present(id)
  BY <1>1, <1>4 DEF Looking, NoObserver, Observers
<1>5. CASE Present(id) /\ Running(id)
  BY <1>1, <1>2, <1>5 DEF Looking, Observers
<1>6. CASE Present(id) /\ ~Running(id)
  BY <1>1, <1>2, <1>3, <1>6 DEF Looking, Observers
<1> QED BY <1>4, <1>5, <1>6

\* One observer changes.
LEMMA ObserverSet ==
  ASSUME ReportsOK, UNCHANGED notices, promised' \in [Ids -> SUBSET Generations],
         NEW o \in ObserverKeys, NEW seen \in Observers,
         seen.pc = "waiting" => seen.gen \in Generations, seen.pc # "acknowledging",
         UNCHANGED observer \/ observer' = [observer EXCEPT ![o] = seen]
  PROVE  /\ ReportsOK'
         /\ \A k \in ObserverKeys : observer'[k].pc = "acknowledging" => observer'[k] = observer[k]
<1>1. observer \in [ObserverKeys -> Observers]
  BY DEF ReportsOK, Observers
<1>2. /\ observer' \in [ObserverKeys -> Observers]
      /\ \A k \in ObserverKeys : observer'[k] = observer[k] \/ observer'[k] = seen
  BY <1>1
<1>3. \A k \in ObserverKeys :
        /\ observer'[k].pc = "waiting" => observer'[k].gen \in Generations
        /\ observer'[k].pc = "acknowledging" => observer'[k].notification \in Generations
  BY <1>2 DEF ReportsOK
<1> QED BY <1>2, <1>3 DEF ReportsOK, Observers

\* A job that is handed over is in the background, and its waiters are told.
LEMMA BackgroundKeeps ==
  ASSUME RegistryInv, NEW id \in Ids, Background(id), UNCHANGED <<notices, removal>>
  PROVE  /\ RegistryInv' /\ NothingLost /\ TellsStay /\ CountsDown
         /\ Present(id) => told'[id][jobs[id].gen] # 0
<1>1. CASE Present(id) /\ ~jobs[id].backgrounded
  <2>1. MarkBackground({id}) /\ UNCHANGED <<fiber, done>> /\ {id} \in SUBSET Ids
        /\ \A i \in {id} : Present(i)
    BY <1>1 DEF Background
  <2>2. RegistryInv' /\ NothingLost /\ TellsStay /\ CountsDown
    BY <2>1, MarkKeeps, MarkLosesNothing, MarkTells
  <2>3. PICK n \in Generations :
          \A g \in Generations : told'[id][g] = IF g = jobs[id].gen THEN n ELSE told[id][g]
    BY <2>1, MarkDoes
  <2>4. jobs[id].gen \in Generations /\ n # 0
    BY <1>1, RegistryHas, StartsAssumption DEF Generations
  <2> QED BY <2>2, <2>3, <2>4
<1>2. CASE ~(Present(id) /\ ~jobs[id].backgrounded)
  <2>1. UNCHANGED <<jobs, table, told, fiber, done>>
    BY <1>2 DEF Background
  <2>2. RegistryInv'
    BY <2>1, TableKeeps DEF RegistryInv, JobTypeOK
  <2>3. TellsStay
    BY <2>1 DEF TellsStay
  <2>4. Present(id) => told'[id][jobs[id].gen] # 0
    BY <1>2, <2>1, RegistryHas DEF EntryOK
  <2> QED BY <2>1, <2>2, <2>3, <2>4, SameCounts, LosesNothing
<1> QED BY <1>1, <1>2

\* A call hands its job over.
LEMMA HandsOverKeeps ==
  ASSUME SubagentInv, NEW c \in Callers, HandsOver(c)
  PROVE  SubagentInv'
<1>1. /\ RegistryInv /\ CallersOK /\ BlockersAreReal /\ removal \in {"no", "going", "gone"}
      /\ ReportsOK /\ SweepOK /\ DurableInv /\ crashes \in 0..MaxCrashes
      /\ UNCHANGED <<observer, notices, sweep, removal, crashes>> /\ UNCHANGED <<notices, removal>>
  BY DEF SubagentInv, HandsOver
<1>2. caller[c].pc = "handing" /\ caller[c].id \in Ids /\ caller[c].gen \in Generations
  BY <1>1 DEF HandsOver, CallersOK, CallOK
<1>3. PICK id \in Ids, g \in Generations : id = caller[c].id /\ g = caller[c].gen
  BY <1>2
<1>4. /\ Background(id)
      /\ \/ /\ Present(id)
            /\ Goes(c, "backgrounded", id, jobs[id].gen) /\ UNCHANGED promised
         \/ /\ ~Present(id) /\ Frees(c)
            /\ promised' = [promised EXCEPT ![id] = @ \cup ({told[id][g]} \ {0})]
  BY <1>3 DEF HandsOver
<1>5. /\ RegistryInv' /\ NothingLost /\ TellsStay /\ CountsDown
      /\ Present(id) => told'[id][jobs[id].gen] # 0
  BY <1>1, <1>4, BackgroundKeeps
<1>6. Present(id) => jobs[id].gen \in Generations /\ jobs[id].gen \in 0..MaxStarts
  BY <1>1, RegistryHas
<1>7. caller[c].pc \notin Blocks /\ "backgrounded" \in Pcs \ {"removing", "deleting"}
  BY <1>2 DEF Blocks, Pcs
<1>8. CallersOK' /\ BlocksOn
  <2>1. CASE Present(id)
    <3>1. Goes(c, "backgrounded", id, jobs[id].gen)
      BY <1>4, <2>1
    <3>2. CallersOK'
      BY <1>1, <1>5, <1>6, <1>7, <2>1, <3>1, GoneCall
    <3> QED BY <1>1, <1>7, <3>1, <3>2, OthersBlock DEF Goes
  <2>2. CASE ~Present(id)
    BY <1>1, <1>4, <1>5, <1>7, <2>2, FreedCall, OthersBlock DEF Frees
  <2> QED BY <2>1, <2>2
\* What is promised of a job that is gone was told, and what was told is safe.
<1>9. /\ ReportsOK'
      /\ \A i \in Ids : \A m \in promised'[i] :
           m \in promised[i] \/ (i = id /\ m = told[id][g] /\ m # 0)
  <2>1. CASE UNCHANGED promised
    BY <1>1, <2>1 DEF ReportsOK
  <2>2. CASE promised' = [promised EXCEPT ![id] = @ \cup ({told[id][g]} \ {0})]
    <3>1. told[id][g] \in 0..MaxStarts
      BY <1>1 DEF RegistryInv, JobTypeOK
    <3>2. {told[id][g]} \ {0} \in SUBSET Generations
      BY <3>1, StartsAssumption DEF Generations
    <3>3. /\ promised' \in [Ids -> SUBSET Generations]
          /\ \A i \in Ids : promised'[i] = IF i = id THEN promised[i] \cup ({told[id][g]} \ {0}) ELSE promised[i]
      BY <1>1, <2>2, <3>2 DEF ReportsOK
    <3>4. ReportsOK'
      BY <1>1, <3>3 DEF ReportsOK
    <3> QED BY <3>3, <3>4
  <2> QED BY <1>4, <2>1, <2>2
<1>10. DurableInv'
  <2>1. CASE removal' = "no"
    <3>1. \A i \in Ids : \A m \in promised'[i] : m \in promised[i] \/ Safe(i, m)'
      <4>1. ASSUME NEW n \in Generations, n = told[id][g], n # 0 PROVE Safe(id, n)'
        <5>1. Safe(id, n)
          BY <1>1, <2>1, <4>1 DEF DurableInv
        <5> QED BY <1>5, <5>1 DEF NothingLost
      <4>2. promised' \in [Ids -> SUBSET Generations]
        BY <1>9 DEF ReportsOK
      <4> QED BY <1>9, <4>1, <4>2
    <3>2. /\ \A k \in ObserverKeys : observer'[k].pc = "acknowledging"
                                       => observer'[k].notification \in notices'[k[2]]
          /\ sweep'.pc = "acknowledging" => sweep'.notification \in notices'[sweep'.id]
      BY <1>1, <2>1 DEF DurableInv
    <3> QED BY <1>1, <1>5, <2>1, <3>1, <3>2, DurableFrom
  <2>2. CASE removal' # "no"
    BY <2>2 DEF DurableInv
  <2> QED BY <2>1, <2>2
<1>11. SweepOK'
  BY <1>1 DEF SweepOK
<1>12. BlockersAreReal'
  BY <1>1, <1>5, <1>8, BlockersKept
<1> QED BY <1>1, <1>5, <1>8, <1>9, <1>10, <1>11, <1>12 DEF SubagentInv

\* The parent's turn is interrupted.
LEMMA InterruptKeeps ==
  ASSUME SubagentInv, NEW c \in Callers, CallInterrupted(c)
  PROVE  SubagentInv'
<1>1. /\ RegistryInv /\ CallersOK /\ BlockersAreReal /\ removal \in {"no", "going", "gone"}
      /\ UNCHANGED <<reportVars, sweep, removal, crashes>> /\ UNCHANGED <<notices, removal>>
      /\ UNCHANGED <<jobs, table, fiber, done, told>>
  BY DEF SubagentInv, CallInterrupted, BlockInterrupted, reportVars
<1>2. RegistryInv' /\ CountsDown /\ NothingLost /\ TellsStay
  BY <1>1, TableKeeps, SameCounts, LosesNothing DEF RegistryInv, JobTypeOK, TellsStay
<1>3. CallersOK' /\ BlocksOn
  <2>1. CASE BlockInterrupted(c)
    <3>1. caller[c].pc \in Blocks /\ Steps(c, "abandoning") /\ "abandoning" \in Pcs /\ "abandoning" \in Blocks
      BY <2>1 DEF BlockInterrupted, Blocks, Pcs
    <3>2. caller[c].id \in Ids /\ caller[c].gen \in Generations /\ caller[c] \in CallType
      BY <1>1, <3>1 DEF CallersOK, CallOK
    <3>3. CallersOK'
      BY <1>1, <1>2, <3>1, <3>2, SteppedCall
    <3> QED BY <1>1, <3>1, <3>2, <3>3, StepBlocks
  <2>2. CASE caller[c].pc \in {"entering", "handing", "backgrounded"} /\ Frees(c)
    <3>1. caller[c].pc \notin Blocks
      BY <2>2 DEF Blocks
    <3> QED BY <1>1, <1>2, <2>2, <3>1, FreedCall, OthersBlock DEF Frees
  <2> QED BY <2>1, <2>2 DEF CallInterrupted
<1> QED BY <1>1, <1>2, <1>3, BlockersKept, QuietReports

\* A call says that its job will be reported.
LEMMA NotifiesKeeps ==
  ASSUME SubagentInv, NEW c \in Callers, Notifies(c)
  PROVE  SubagentInv'
<1>1. /\ RegistryInv /\ CallersOK /\ BlockersAreReal /\ removal \in {"no", "going", "gone"}
      /\ ReportsOK /\ SweepOK /\ DurableInv /\ crashes \in 0..MaxCrashes
      /\ UNCHANGED <<jobs, table, fiber, done, told, notices, sweep, removal, crashes>> /\ Frees(c)
  BY DEF SubagentInv, Notifies
<1>2. RegistryInv' /\ CountsDown /\ NothingLost /\ TellsStay
  BY <1>1, TableKeeps, SameCounts, LosesNothing DEF RegistryInv, JobTypeOK, TellsStay
<1>3. caller[c].pc = "backgrounded" /\ caller[c].pc \notin Blocks
  BY DEF Notifies, Blocks
<1>4. /\ caller[c].id \in Ids /\ caller[c].gen \in Generations
      /\ told[caller[c].id][caller[c].gen] # 0
  BY <1>1, <1>3 DEF CallersOK, CallOK
<1>5. PICK id \in Ids, g \in Generations : id = caller[c].id /\ g = caller[c].gen
  BY <1>4
<1>6. CallersOK' /\ BlockersAreReal'
  BY <1>1, <1>2, <1>3, FreedCall, OthersBlock, BlockersKept DEF Frees
<1> DEFINE o == <<"call", id, g>>
<1>7. o \in ObserverKeys
  BY DEF ObserverKeys
<1>8. PICK n \in Generations : n = told[id][g]
  <2>1. told[id][g] \in 0..MaxStarts /\ told[id][g] # 0
    BY <1>1, <1>4, <1>5 DEF RegistryInv, JobTypeOK
  <2> QED BY <2>1, StartsAssumption DEF Generations
<1>9. promised' = [promised EXCEPT ![id] = @ \cup {n}]
  BY <1>5, <1>8 DEF Notifies
<1>10. promised' \in [Ids -> SUBSET Generations]
       /\ \A i \in Ids : \A m \in promised'[i] : m \in promised[i] \/ (i = id /\ m = n)
  BY <1>1, <1>9 DEF ReportsOK
<1>11. \/ UNCHANGED observer
       \/ observer' = [observer EXCEPT ![o] = Looking(o, id)]
  BY <1>5 DEF Notifies
<1>12. /\ Looking(o, id) \in Observers
       /\ Looking(o, id).pc # "acknowledging"
       /\ Looking(o, id).pc = "waiting" => Looking(o, id).gen \in Generations
  BY <1>1, <1>7, LooksAt
<1>13. ReportsOK' /\ \A k \in ObserverKeys : observer'[k].pc = "acknowledging" => observer'[k] = observer[k]
  BY <1>1, <1>7, <1>10, <1>11, <1>12, ObserverSet
<1>14. DurableInv'
  <2>1. ASSUME removal' = "no" PROVE Safe(id, n)'
    BY <1>1, <1>4, <1>5, <1>8, <2>1 DEF DurableInv, Safe
  <2>2. \A i \in Ids : \A m \in promised'[i] : m \in promised[i] \/ (removal' = "no" => Safe(i, m)')
    BY <1>10, <2>1
  <2>3. \A k \in ObserverKeys : removal' = "no" /\ observer'[k].pc = "acknowledging"
                                   => observer'[k].notification \in notices'[k[2]]
    BY <1>1, <1>13 DEF DurableInv
  <2>4. removal' = "no" /\ sweep'.pc = "acknowledging" => sweep'.notification \in notices'[sweep'.id]
    BY <1>1 DEF DurableInv
  <2>5. CASE removal' = "no"
    BY <1>1, <1>2, <2>2, <2>3, <2>4, <2>5, DurableFrom
  <2>6. CASE removal' # "no"
    BY <2>6 DEF DurableInv
  <2> QED BY <2>5, <2>6
<1>15. SweepOK'
  BY <1>1 DEF SweepOK
<1> QED BY <1>1, <1>2, <1>6, <1>13, <1>14, <1>15 DEF SubagentInv

\* A start replaces only an entry that has ended: its row stays.
LEMMA StartLosesNothing ==
  ASSUME RegistryInv, NEW id \in Ids, NEW n \in 0..MaxStarts, Start(id, n),
         UNCHANGED <<table, done, told, notices, removal>>
  PROVE  RegistryInv' /\ NothingLost /\ TellsStay /\ CountsDown
<1>1. /\ RegistryInv' /\ \A i \in Ids \ {id} : jobs'[i] = jobs[i]
      /\ ~Running(id) => ~jobs'[id].backgrounded /\ jobs'[id].blockers = 0
      /\ Running(id) => UNCHANGED jobs
  BY StartKeeps
<1>2. ASSUME NEW i \in Ids
      PROVE  /\ Owned(i) => Owned(i)'
             /\ jobs'[i].blockers <= jobs[i].blockers
             /\ jobs'[i].gen = jobs[i].gen \/ jobs'[i].blockers = 0
  <2>1. CASE jobs'[i] = jobs[i]
    BY <2>1, RegistryHas DEF Owned
  <2>2. CASE jobs'[i] # jobs[i]
    <3>1. i = id /\ ~Running(id)
      BY <1>1, <2>2
    <3>2. jobs[i].blockers \in Nat
      BY RegistryHas
    <3> QED BY <1>1, <3>1, <3>2 DEF Owned
  <2> QED BY <2>1, <2>2
<1>3. NothingLost
  BY <1>2 DEF NothingLost, Safe
<1> QED BY <1>1, <1>2, <1>3 DEF CountsDown, TellsStay

\* A call starts or joins its child's job.
LEMMA CallStartsKeeps ==
  ASSUME SubagentInv, NEW c \in Callers, NEW id \in Ids, CallStarts(c, id)
  PROVE  SubagentInv'
<1>1. /\ RegistryInv /\ CallersOK /\ BlockersAreReal /\ removal \in {"no", "going", "gone"}
      /\ UNCHANGED <<reportVars, sweep, removal, crashes>>
      /\ UNCHANGED <<table, done, told, notices, removal>> /\ Start(id, 0)
      /\ caller[c].pc = "free" /\ 0 \in 0..MaxStarts
  BY StartsAssumption DEF SubagentInv, CallStarts, reportVars
<1>2. RegistryInv' /\ NothingLost /\ TellsStay /\ CountsDown
  BY <1>1, StartLosesNothing
<1>3. PICK pc \in {"entering", "handing"} : Goes(c, pc, id, jobs'[id].gen)
  BY DEF CallStarts
<1>a. jobs'[id].gen \in Generations /\ jobs'[id].gen \in 0..MaxStarts
  <2>1. Running(id)'
    BY <1>1, StartKeeps
  <2>2. Present(id)'
    BY <2>1 DEF Present, Running
  <2>3. jobs'[id].gen \in Generations
    BY <1>2, <2>2 DEF RegistryInv, EntryOK
  <2> QED BY <2>3, StartsAssumption DEF Generations
<1>4. /\ pc \in Pcs \ {"removing", "deleting"} /\ pc \notin Blocks \cup {"backgrounded", "closing"}
      /\ caller[c].pc \notin Blocks /\ pc \notin {"releasing", "backgrounded"}
  BY <1>1 DEF Pcs, Blocks
<1>5. CallersOK'
  BY <1>1, <1>2, <1>3, <1>a, <1>4, GoneCall
<1>6. BlocksOn
  BY <1>1, <1>3, <1>4, OthersBlock DEF Goes
<1> QED BY <1>1, <1>2, <1>5, <1>6, BlockersKept, QuietReports

\* A running job is cancelled, in passing or because its call was interrupted.
LEMMA CancelKeeps ==
  ASSUME RegistryInv, CallersOK, BlockersAreReal, NEW c \in Callers, NEW id \in Ids,
         NEW persist \in BOOLEAN, CancelInternal(c, id, persist),
         caller[c].pc \notin Blocks, UNCHANGED <<notices, removal>>
  PROVE  RegistryInv' /\ CallersOK' /\ BlockersAreReal' /\ NothingLost
<1> DEFINE next(pc) == [caller[c] EXCEPT !.pc = pc, !.id = id, !.gen = jobs[id].gen, !.left = @ \ {id}]
<1>1. caller[c] \in CallType /\ CallOK(caller[c], told, removal) /\ UNCHANGED <<fiber, told>>
      /\ caller \in [Callers -> CallType]
  BY DEF CallersOK, CancelInternal
<1>2. TellsStay
  BY <1>1 DEF TellsStay
<1>3. ASSUME NEW pc \in Pcs
      PROVE  /\ next(pc) \in CallType /\ next(pc).pc = pc /\ next(pc).id = id
             /\ next(pc).gen = jobs[id].gen /\ next(pc).removes = caller[c].removes
             /\ [caller EXCEPT ![c].pc = pc, ![c].id = id, ![c].gen = jobs[id].gen,
                               ![c].left = @ \ {id}] = [caller EXCEPT ![c] = next(pc)]
  <2>1. jobs[id].gen \in 0..MaxStarts
    BY RegistryHas
  <2>2. \A call \in CallType :
          LET to == [call EXCEPT !.pc = pc, !.id = id, !.gen = jobs[id].gen, !.left = @ \ {id}]
          IN  /\ to \in CallType /\ to.pc = pc /\ to.id = id /\ to.gen = jobs[id].gen
              /\ to.removes = call.removes
    BY <2>1 DEF CallType
  <2>3. [caller EXCEPT ![c].pc = pc, ![c].id = id, ![c].gen = jobs[id].gen,
                       ![c].left = @ \ {id}] = [caller EXCEPT ![c] = next(pc)]
    BY <1>1
  <2> QED BY <1>1, <2>2, <2>3
<1>4. \/ /\ Running(id) /\ Ends(id, "cancelled")
         /\ (Persist(id, [jobs[id] EXCEPT !.status = "cancelled"]) \/ UNCHANGED table)
         /\ caller' = [caller EXCEPT ![c] = next("closing")]
      \/ /\ caller[c].removes /\ caller' = [caller EXCEPT ![c] = next("removing")]
         /\ UNCHANGED <<jobs, done, table>>
      \/ Frees(c) /\ UNCHANGED <<jobs, done, table>>
  <2>1. "closing" \in Pcs /\ "removing" \in Pcs
    BY DEF Pcs
  <2>2. [caller EXCEPT ![c].pc = "closing", ![c].id = id, ![c].gen = jobs[id].gen,
                       ![c].left = @ \ {id}] = [caller EXCEPT ![c] = next("closing")]
    BY <1>3, <2>1
  <2>3. [caller EXCEPT ![c].pc = "removing", ![c].id = id, ![c].gen = jobs[id].gen,
                       ![c].left = @ \ {id}] = [caller EXCEPT ![c] = next("removing")]
    BY <1>3, <2>1
  <2> HIDE DEF next
  <2> QED BY <2>2, <2>3 DEF CancelInternal
<1> HIDE DEF next
<1>5. CASE /\ Running(id) /\ Ends(id, "cancelled")
           /\ (Persist(id, [jobs[id] EXCEPT !.status = "cancelled"]) \/ UNCHANGED table)
           /\ caller' = [caller EXCEPT ![c] = next("closing")]
  <2>1. "cancelled" \in Terminal /\ "closing" \in Pcs
    BY DEF Terminal, Pcs
  <2>2. NothingLost /\ table' \in [Ids -> [Generations -> Terminal \cup {"running", "none"}]]
    BY <1>1, <1>5, <2>1, EndsLosesNothing
  <2>3. /\ SameExits
        /\ fiber' \in [Ids -> [Generations -> [exit: Exits \cup {"none", "running", "dead"},
                                             settled: BOOLEAN]]]
    BY <1>1 DEF SameExits, RegistryInv, JobTypeOK
  <2>4. RegistryInv'
    BY <1>1, <1>5, <2>1, <2>2, <2>3, EndsKeeps
  <2>5. CountsDown
    BY <1>5, EndsCounts
  <2>6. jobs[id].gen \in Generations
    BY <1>5, RegistryHas DEF Running, Present
  <2>7. /\ next("closing") \in CallType /\ next("closing").pc = "closing" /\ next("closing").id = id
        /\ next("closing").gen = jobs[id].gen /\ next("closing").removes = caller[c].removes
    BY <1>3, <2>1
  <2>8. CallOK(next("closing"), told', removal')
    BY <1>1, <2>6, <2>7 DEF CallOK, Blocks
  <2>9. CallersOK' /\ BlocksOn
    BY <1>2, <1>5, <2>7, <2>8, CallerGoes, OthersBlock
  <2> QED BY <2>2, <2>4, <2>5, <2>9, BlockersKept
<1>6. CASE /\ UNCHANGED <<jobs, done, table>>
           /\ \/ Frees(c)
              \/ caller[c].removes /\ caller' = [caller EXCEPT ![c] = next("removing")]
  <2>1. RegistryInv' /\ CountsDown /\ NothingLost
    BY <1>1, <1>6, TableKeeps, SameCounts, LosesNothing DEF RegistryInv, JobTypeOK
  <2>2. CASE Frees(c)
    BY <1>2, <2>1, <2>2, FreedCall, OthersBlock, BlockersKept DEF Frees
  <2>3. CASE caller[c].removes /\ caller' = [caller EXCEPT ![c] = next("removing")]
    <3>1. /\ next("removing") \in CallType /\ next("removing").pc = "removing"
          /\ next("removing").removes
      BY <1>3, <2>3 DEF Pcs
    <3>2. CallOK(next("removing"), told', removal')
      BY <1>1, <2>3, <3>1 DEF CallOK, Blocks
    <3> QED BY <1>2, <2>1, <2>3, <3>1, <3>2, CallerGoes, OthersBlock, BlockersKept
  <2> QED BY <1>6, <2>2, <2>3
<1> QED BY <1>4, <1>5, <1>6

\* A stopped child settles its job.
LEMMA StopsKeeps ==
  ASSUME SubagentInv, NEW c \in Callers, NEW id \in Ids, StopsChild(c, id)
  PROVE  SubagentInv'
<1>1. /\ RegistryInv /\ CallersOK /\ BlockersAreReal /\ removal \in {"no", "going", "gone"}
      /\ UNCHANGED <<reportVars, sweep, removal, crashes>> /\ UNCHANGED <<notices, removal>>
      /\ caller[c].pc = "free" /\ CancelInternal(c, id, TRUE)
  BY DEF SubagentInv, StopsChild, Cancel, reportVars
<1>2. caller[c].pc \notin Blocks
  BY <1>1 DEF Blocks
<1> QED BY <1>1, <1>2, CancelKeeps, QuietReports

\* A Session's removal begins.
LEMMA RemovesKeeps ==
  ASSUME SubagentInv, NEW c \in Callers, Removes(c)
  PROVE  SubagentInv'
<1> DEFINE call == [Idle EXCEPT !.pc = "removing", !.removes = TRUE, !.left = {id \in Ids : Running(id)}]
<1>1. /\ RegistryInv /\ CallersOK /\ BlockersAreReal /\ UNCHANGED <<reportVars, sweep, crashes>>
      /\ removal' = "going" /\ caller[c].pc = "free"
      /\ caller' = [caller EXCEPT ![c] = call] /\ UNCHANGED <<jobs, table, done, fiber, told>>
  BY DEF SubagentInv, Removes, CancelSession
<1>2. TellsStay /\ RegistryInv' /\ CountsDown
  BY <1>1, TableKeeps, SameCounts DEF TellsStay, RegistryInv, JobTypeOK
<1>3. call \in CallType /\ call.pc = "removing"
  <2>1. \A f \in CallType, ids \in SUBSET Ids :
          LET to == [f EXCEPT !.pc = "removing", !.removes = TRUE, !.left = ids]
          IN  to \in CallType /\ to.pc = "removing"
    BY DEF CallType, Pcs
  <2>2. {id \in Ids : Running(id)} \in SUBSET Ids
    OBVIOUS
  <2> QED BY <2>1, <2>2, IdleCall
<1> HIDE DEF call
<1>4. CallOK(call, told', removal') /\ caller[c].pc \notin Blocks
  BY <1>1, <1>3 DEF CallOK, Blocks
<1>5. CallersOK' /\ BlocksOn
  BY <1>1, <1>2, <1>3, <1>4, CallerGoes, OthersBlock
<1> QED BY <1>1, <1>2, <1>5, BlockersKept, QuietReports

\* A wait is over: its caller is not counted any more.
LEMMA RemoveBlockKeeps ==
  ASSUME RegistryInv, CallersOK, BlockersAreReal, NEW c \in Callers, RemoveBlock(c),
         UNCHANGED <<notices, removal>>
  PROVE  RegistryInv' /\ CallersOK' /\ BlockersAreReal' /\ NothingLost
<1>1. /\ UNCHANGED <<table, fiber, done, told>> /\ caller[c].pc \in {"unblocking", "releasing", "abandoning"}
      /\ caller \in [Callers -> CallType]
  BY DEF RemoveBlock, CallersOK
<1>2. /\ caller[c].pc \in Blocks /\ caller[c].id \in Ids /\ caller[c].gen \in Generations
      /\ caller[c].pc = "releasing" => told[caller[c].id][caller[c].gen] # 0
  BY <1>1 DEF CallersOK, CallOK, Blocks
<1>3. PICK id \in Ids : id = caller[c].id
  BY <1>2
<1>4. TellsStay
  BY <1>1 DEF TellsStay
<1>5. CallersOK' /\ \A d \in Callers \ {c} : caller'[d] = caller[d]
  <2>1. CASE caller[c].pc = "unblocking" /\ Frees(c)
    BY <1>1, <1>4, <2>1, FreedCall DEF Frees
  <2>2. CASE caller[c].pc = "releasing" /\ Steps(c, "backgrounded")
    <3>1. "backgrounded" \in Pcs
      BY DEF Pcs
    <3> QED BY <1>1, <1>2, <1>4, <2>2, <3>1, SteppedCall DEF Steps
  <2>3. CASE caller[c].pc = "abandoning" /\ Steps(c, "cancelling")
    <3>1. "cancelling" \in Pcs
      BY DEF Pcs
    <3> QED BY <1>1, <1>2, <1>4, <2>3, <3>1, SteppedCall DEF Steps
  <2> QED BY <2>1, <2>2, <2>3 DEF RemoveBlock
<1>6. RegistryInv' /\ NothingLost
      /\ \A i \in Ids : /\ jobs'[i].gen = jobs[i].gen
                        /\ jobs'[i].blockers <= jobs[i].blockers
                        /\ i = id => \/ jobs'[i].blockers = 0
                                     \/ jobs'[i].blockers = jobs[i].blockers - 1
  <2>0. EntryOK(id) /\ jobs[id].blockers \in Nat
    BY <1>1, RegistryHas
  <2>1. CASE Unblocks(c)
    <3>1. PICK n \in Nat : n = jobs[id].blockers - 1
      BY <1>3, <2>0, <2>1 DEF Unblocks
    <3>2. jobs' = [jobs EXCEPT ![id].blockers = n] /\ Blocking(id)
      BY <1>3, <2>1, <3>1 DEF RemoveBlock, Unblocks
    <3>3. RegistryInv' /\ NothingLost
      BY <1>1, <3>2, CountKeeps, CountLosesNothing
    <3>4. ASSUME NEW i \in Ids
          PROVE  /\ jobs'[i].gen = jobs[i].gen
                 /\ jobs'[i].blockers = IF i = id THEN n ELSE jobs[i].blockers
                 /\ jobs[i].blockers \in Nat
      <4>1. jobs'[i] = IF i = id THEN [jobs[i] EXCEPT !.blockers = n] ELSE jobs[i]
        BY <3>2 DEF RegistryInv, JobTypeOK
      <4> QED BY <4>1, RegistryHas
    <3> QED BY <3>1, <3>3, <3>4
  <2>2. CASE ~Unblocks(c)
    <3>1. UNCHANGED jobs
      BY <2>2 DEF RemoveBlock
    <3>2. jobs[id].blockers = 0
      BY <1>3, <2>0, <2>2 DEF Unblocks, EntryOK
    <3>3. \A i \in Ids : jobs[i].blockers \in Nat
      BY RegistryHas
    <3> QED BY <1>1, <3>1, <3>2, <3>3, TableKeeps, LosesNothing DEF RegistryInv, JobTypeOK
  <2> QED BY <2>1, <2>2
<1>7. ASSUME NEW i \in Ids PROVE jobs'[i].blockers <= Cardinality(BlockedOn(i)')
  <2>1. /\ jobs[i].blockers \in Nat /\ jobs'[i].blockers \in Nat
        /\ jobs[i].blockers <= Cardinality(BlockedOn(i)) /\ Cardinality(BlockedOn(i)) \in Nat
        /\ IsFiniteSet(BlockedOn(i)) /\ IsFiniteSet(BlockedOn(i)') /\ Cardinality(BlockedOn(i)') \in Nat
    BY <1>6, BlockedCounted, BlockedCountedNext, RegistryHas DEF RegistryInv, JobTypeOK
  <2>2. BlockedOn(i) \ {c} \subseteq BlockedOn(i)'
    BY <1>5, <1>6 DEF BlockedOn
  <2>3. IsFiniteSet(BlockedOn(i) \ {c})
    BY <2>1, FS_RemoveElement
  <2>4. Cardinality(BlockedOn(i) \ {c}) <= Cardinality(BlockedOn(i)')
    BY <2>1, <2>2, FS_Subset
  <2>5. CASE i = id
    <3>1. Cardinality(BlockedOn(i) \ {c}) \in {Cardinality(BlockedOn(i)), Cardinality(BlockedOn(i)) - 1}
      BY <2>1, FS_RemoveElement
    <3>2. jobs'[i].blockers = 0 \/ jobs'[i].blockers = jobs[i].blockers - 1
      BY <1>6, <2>5
    <3> QED BY <2>1, <2>4, <3>1, <3>2
  <2>6. CASE i # id
    <3>1. BlockedOn(i) \ {c} = BlockedOn(i)
      BY <1>3, <2>6 DEF BlockedOn
    <3>2. jobs'[i].blockers <= jobs[i].blockers
      BY <1>6
    <3> QED BY <2>1, <2>4, <3>1, <3>2
  <2> QED BY <2>5, <2>6
<1> QED BY <1>5, <1>6, <1>7, BlockedCountedNext

\* The removal of a Session goes on: it deletes the rows, then the entries.
LEMMA CancelSessionKeeps ==
  ASSUME RegistryInv, CallersOK, BlockersAreReal, NEW c \in Callers, CancelSession(c),
         caller[c].pc \in {"removing", "deleting"}, removal' # "no"
  PROVE  RegistryInv' /\ CallersOK' /\ BlockersAreReal' /\ removal # "no"
<1>1. /\ caller[c] \in CallType /\ CallOK(caller[c], told, removal) /\ UNCHANGED <<fiber, told>>
      /\ caller[c].pc \notin Blocks /\ removal # "no"
  BY DEF CallersOK, CancelSession, CallOK, Blocks
<1>2. TellsStay
  BY <1>1 DEF TellsStay
<1>3. CASE /\ caller[c].pc = "removing"
           /\ table' = [id \in Ids |-> [n \in Generations |-> "none"]]
           /\ caller' = [caller EXCEPT ![c].pc = "deleting"] /\ UNCHANGED <<jobs, done>>
  <2>1. table' \in [Ids -> [Generations -> Terminal \cup {"running", "none"}]]
    BY <1>3
  <2>2. Steps(c, "deleting") /\ "deleting" \in Pcs
    BY <1>3 DEF Steps, Pcs
  <2>3. CallersOK'
    BY <1>1, <1>2, <2>2, SteppedCall DEF Blocks
  <2>4. BlocksOn
    BY <1>1, <2>2, OthersBlock DEF Steps
  <2> QED BY <1>1, <1>3, <2>1, <2>3, <2>4, TableKeeps, SameCounts, BlockersKept
<1>4. CASE /\ jobs' = [id \in Ids |-> Absent] /\ Frees(c) /\ UNCHANGED <<table, done>>
  <2>1. jobs' = [id \in Ids |-> IF id \in Ids THEN Absent ELSE jobs[id]]
    BY <1>4
  <2>2. RegistryInv'
    BY <1>1, <1>4, <2>1, ForgetKeeps DEF RegistryInv, JobTypeOK
  <2>3. CountsDown
    <3>1. \A id \in Ids : jobs[id].blockers \in Nat
      BY RegistryHas
    <3> QED BY <1>4, <3>1 DEF CountsDown, Absent
  <2> QED BY <1>1, <1>2, <1>4, <2>2, <2>3, FreedCall, OthersBlock, BlockersKept DEF Frees
<1> QED BY <1>3, <1>4 DEF CancelSession

\* A call in the registry goes on.
LEMMA ContinuesKeeps ==
  ASSUME SubagentInv, NEW c \in Callers, CallContinues(c)
  PROVE  SubagentInv'
<1>1. /\ RegistryInv /\ CallersOK /\ BlockersAreReal /\ removal \in {"no", "going", "gone"}
      /\ UNCHANGED <<reportVars, sweep, crashes>> /\ UNCHANGED notices
      /\ removal' = IF caller[c].pc = "deleting" THEN "gone" ELSE removal
      /\ removal' \in {"no", "going", "gone"}
  BY DEF SubagentInv, CallContinues, reportVars
<1>2. /\ caller[c] \in CallType /\ CallOK(caller[c], told, removal)
  BY <1>1 DEF CallersOK
<1>3. CASE Released(c)
  <2>1. /\ caller[c].pc = "blocked" /\ UNCHANGED <<jobs, table, fiber, done, told>> /\ UNCHANGED removal
        /\ caller[c].id \in Ids /\ caller[c].gen \in Generations
    BY <1>1, <1>2, <1>3 DEF Released, CallOK, Blocks
  <2>2. RegistryInv' /\ CountsDown /\ NothingLost /\ TellsStay
    BY <1>1, <2>1, TableKeeps, SameCounts, LosesNothing DEF RegistryInv, JobTypeOK, TellsStay
  <2>3. PICK pc \in {"unblocking", "releasing"} :
          Steps(c, pc) /\ (pc = "releasing" => told[caller[c].id][caller[c].gen] # 0)
    BY <1>3 DEF Released
  <2>4. pc \in Pcs /\ pc \in Blocks /\ pc \notin {"entering", "handing", "backgrounded", "removing", "deleting"}
    BY DEF Pcs, Blocks
  <2>5. CallersOK' /\ BlocksOn
    BY <1>1, <2>1, <2>2, <2>3, <2>4, SteppedCall, StepBlocks
  <2> QED BY <1>1, <2>1, <2>2, <2>5, BlockersKept, QuietReports
<1>4. CASE RemoveBlock(c)
  <2>1. caller[c].pc # "deleting"
    BY <1>4 DEF RemoveBlock
  <2> QED BY <1>1, <1>4, <2>1, RemoveBlockKeeps, QuietReports
<1>5. CASE ScopeCloses(c)
  <2>1. /\ caller[c].pc = "closing" /\ UNCHANGED <<jobs, table, fiber, done, told>> /\ UNCHANGED removal
        /\ caller[c].pc \notin Blocks
    BY <1>1, <1>5 DEF ScopeCloses, Blocks
  <2>2. RegistryInv' /\ CountsDown /\ NothingLost /\ TellsStay
    BY <1>1, <2>1, TableKeeps, SameCounts, LosesNothing DEF RegistryInv, JobTypeOK, TellsStay
  <2>3. CASE caller[c].removes /\ Steps(c, "removing")
    <3>1. removal # "no" /\ "removing" \in Pcs
      BY <1>2, <2>3 DEF CallOK, Pcs
    <3>2. CallersOK'
      BY <1>1, <2>2, <2>3, <3>1, SteppedCall DEF Blocks
    <3>3. BlocksOn
      BY <1>1, <2>1, <2>3, OthersBlock DEF Steps
    <3> QED BY <1>1, <2>1, <2>2, <3>2, <3>3, BlockersKept, QuietReports
  <2>4. CASE Frees(c)
    <3>1. CallersOK' /\ BlocksOn
      BY <1>1, <2>1, <2>2, <2>4, FreedCall, OthersBlock DEF Frees
    <3> QED BY <1>1, <2>1, <2>2, <3>1, BlockersKept, QuietReports
  <2> QED BY <1>5, <2>3, <2>4 DEF ScopeCloses
<1>6. CASE CancelsNext(c)
  <2>1. PICK id \in caller[c].left : CancelInternal(c, id, FALSE)
    BY <1>6 DEF CancelsNext
  <2>2. id \in Ids /\ caller[c].pc = "removing" /\ caller[c].pc \notin Blocks
    BY <1>2, <1>6, <2>1 DEF CallType, CancelsNext, Blocks
  <2>3. UNCHANGED <<notices, removal>>
    BY <1>1, <2>2
  <2> QED BY <1>1, <2>1, <2>2, <2>3, CancelKeeps, QuietReports
<1>7. CASE caller[c].pc = "cancelling" /\ Cancel(c, caller[c].id)
  <2>1. /\ caller[c].pc \notin Blocks /\ caller[c].id \in Ids /\ UNCHANGED <<notices, removal>>
        /\ CancelInternal(c, caller[c].id, TRUE)
    BY <1>1, <1>2, <1>7 DEF Blocks, CallOK, Cancel
  <2> QED BY <1>1, <2>1, CancelKeeps, QuietReports
<1>8. CASE caller[c].pc \in {"removing", "deleting"} /\ CancelSession(c)
  <2>1. removal' # "no"
    BY <1>1, <1>2, <1>8 DEF CallOK
  <2> QED BY <1>1, <1>8, <2>1, CancelSessionKeeps, QuietReports
<1> QED BY <1>3, <1>4, <1>5, <1>6, <1>7, <1>8 DEF CallContinues, Continues

-----------------------------------------------------------------------------
(* The steps of the observers and of the sweep *)

\* A step that no call takes.
LEMMA ReportStep ==
  ASSUME SubagentInv, UNCHANGED <<caller, promised, removal, crashes>>,
         RegistryInv', TellsStay, CountsDown, ReportsOK', SweepOK', removal = "no" => NothingLost,
         \A o \in ObserverKeys : removal = "no" /\ observer'[o].pc = "acknowledging"
                                   => observer'[o].notification \in notices'[o[2]],
         removal = "no" /\ sweep'.pc = "acknowledging"
           => sweep'.notification \in notices'[sweep'.id]
  PROVE  SubagentInv'
<1>1. CallersOK' /\ BlocksOn
  BY CallersStay DEF SubagentInv, BlocksOn
<1>2. BlockersAreReal'
  BY <1>1, BlockersKept DEF SubagentInv
<1>3. DurableInv'
  BY DurableFrom
<1>4. removal' \in {"no", "going", "gone"} /\ crashes' \in 0..MaxCrashes
  BY DEF SubagentInv
<1> QED BY <1>1, <1>2, <1>3, <1>4 DEF SubagentInv

\* Where the registry is as it was.
LEMMA RegistryRests ==
  ASSUME RegistryInv, UNCHANGED <<jobs, table, fiber, done, told, removal>>,
         \A id \in Ids : notices[id] \subseteq notices'[id]
  PROVE  RegistryInv' /\ TellsStay /\ CountsDown /\ NothingLost
BY TableKeeps, SameCounts, LosesNothing DEF RegistryInv, JobTypeOK, TellsStay

\* Observers and notices after a step in which one observer changes.
LEMMA ReportsFrom ==
  ASSUME ReportsOK, UNCHANGED promised, NEW o \in ObserverKeys, NEW seen \in Observers,
         observer' = [observer EXCEPT ![o] = seen],
         seen.pc = "waiting" => seen.gen \in Generations,
         seen.pc = "acknowledging" => seen.notification \in Generations,
         notices' \in [Ids -> SUBSET (0..MaxStarts)]
  PROVE  ReportsOK' /\ \A k \in ObserverKeys : observer'[k] = IF k = o THEN seen ELSE observer[k]
<1>1. observer \in [ObserverKeys -> Observers]
  BY DEF ReportsOK, Observers
<1>2. /\ observer' \in [ObserverKeys -> Observers]
      /\ \A k \in ObserverKeys : observer'[k] = IF k = o THEN seen ELSE observer[k]
  BY <1>1
<1>3. \A k \in ObserverKeys :
        /\ observer'[k].pc = "waiting" => observer'[k].gen \in Generations
        /\ observer'[k].pc = "acknowledging" => observer'[k].notification \in Generations
  BY <1>2 DEF ReportsOK
<1> QED BY <1>2, <1>3 DEF ReportsOK, Observers

\* A message is admitted, once.
LEMMA AdmitsOne ==
  ASSUME ReportsOK, NEW id \in Ids, NEW n \in 0..MaxStarts, Admits(id, n)
  PROVE  /\ notices' \in [Ids -> SUBSET (0..MaxStarts)]
         /\ \A i \in Ids : notices[i] \subseteq notices'[i]
         /\ removal # "gone" => n \in notices'[id]
<1>1. notices \in [Ids -> SUBSET (0..MaxStarts)]
  BY DEF ReportsOK
<1>2. CASE removal = "gone"
  BY <1>1, <1>2 DEF Admits
<1>3. CASE removal # "gone"
  <2>1. notices' = [notices EXCEPT ![id] = notices[id] \cup {n}]
    BY <1>3 DEF Admits
  <2> QED BY <1>1, <2>1
<1> QED BY <1>2, <1>3

\* An observer sees its job end, delivers its notice, and acknowledges it.
LEMMA ObserverKeeps ==
  ASSUME SubagentInv, NEW o \in ObserverKeys, ObserverStep(o)
  PROVE  SubagentInv'
<1>1. /\ RegistryInv /\ ReportsOK /\ SweepOK /\ DurableInv
      /\ UNCHANGED <<caller, promised, sweep, removal, crashes>>
      /\ o[2] \in Ids /\ o[3] \in Generations /\ Generations \subseteq 0..MaxStarts /\ 0 \in 0..MaxStarts
  BY StartsAssumption DEF SubagentInv, ObserverStep, Observes, Delivers, Acknowledges, jobVars,
       ObserverKeys, Generations
<1>2. SweepOK' /\ notices \in [Ids -> SUBSET (0..MaxStarts)]
  BY <1>1 DEF SweepOK, ReportsOK
<1>3. /\ observer[o] \in Observers
      /\ observer[o].pc = "waiting" => observer[o].gen \in Generations
      /\ observer[o].pc = "acknowledging" => observer[o].notification \in Generations
      /\ observer \in [ObserverKeys -> Observers]
  BY <1>1 DEF ReportsOK, Observers
<1>4. NoObserver \in Observers /\ NoObserver.pc = "none"
  BY <1>1 DEF NoObserver, Observers
<1>5. CASE Observes(o)
  <2>1. /\ UNCHANGED <<jobs, table, fiber, done, told, notices>> /\ observer[o].pc = "waiting"
    BY <1>5 DEF Observes, jobVars
  <2>2. PICK g \in Generations : g = observer[o].gen
    BY <1>3, <2>1
  <2> DEFINE n == IF o[1] = "sweep" THEN o[3] ELSE done[o[2]][g].notification
             seen == [observer[o] EXCEPT !.pc = "delivering", !.notification = n]
  <2>3. n \in 0..MaxStarts
    <3>1. done[o[2]][g] \in [status: Terminal \cup {"none"}, notification: 0..MaxStarts]
      BY <1>1, <2>2 DEF RegistryInv, JobTypeOK
    <3> QED BY <1>1, <3>1
  <2>4. observer' = [observer EXCEPT ![o] = seen]
    BY <1>5, <2>2 DEF Observes
  <2> HIDE DEF n
  <2>5. seen \in Observers /\ seen.pc = "delivering"
    BY <1>3, <2>3 DEF Observers
  <2> HIDE DEF seen
  <2>6. ReportsOK' /\ \A k \in ObserverKeys : observer'[k] = IF k = o THEN seen ELSE observer[k]
    BY <1>1, <1>2, <2>1, <2>4, <2>5, ReportsFrom
  <2>7. RegistryInv' /\ TellsStay /\ CountsDown /\ NothingLost
    BY <1>1, <2>1, RegistryRests
  <2>8. \A k \in ObserverKeys : removal = "no" /\ observer'[k].pc = "acknowledging"
                                   => observer'[k].notification \in notices'[k[2]]
    BY <1>1, <2>1, <2>5, <2>6 DEF DurableInv
  <2>9. removal = "no" /\ sweep'.pc = "acknowledging" => sweep'.notification \in notices'[sweep'.id]
    BY <1>1, <2>1 DEF DurableInv
  <2> QED BY <1>1, <1>2, <2>6, <2>7, <2>8, <2>9, ReportStep
<1>6. CASE Delivers(o)
  <2>1. UNCHANGED <<jobs, table, fiber, done, told>> /\ Admits(o[2], observer[o].notification)
    BY <1>6 DEF Delivers, jobVars
  <2>2. observer[o].notification \in 0..MaxStarts
    BY <1>3 DEF Observers
  <2>3. /\ notices' \in [Ids -> SUBSET (0..MaxStarts)]
        /\ \A i \in Ids : notices[i] \subseteq notices'[i]
        /\ removal # "gone" => observer[o].notification \in notices'[o[2]]
    BY <1>1, <2>1, <2>2, AdmitsOne
  <2>4. RegistryInv' /\ TellsStay /\ CountsDown /\ NothingLost
    BY <1>1, <2>1, <2>3, RegistryRests
  <2>5. PICK seen \in Observers :
          /\ observer' = [observer EXCEPT ![o] = seen] /\ seen.pc # "waiting"
          /\ seen.pc = "acknowledging" => /\ seen.notification = observer[o].notification
                                          /\ observer[o].notification # 0 /\ removal # "gone"
    <3>1. CASE observer[o].notification = 0 \/ removal = "gone"
      BY <1>4, <1>6, <3>1 DEF Delivers
    <3>2. CASE ~(observer[o].notification = 0 \/ removal = "gone")
      <4>1. observer' = [observer EXCEPT ![o] = [observer[o] EXCEPT !.pc = "acknowledging"]]
        BY <1>6, <3>2 DEF Delivers
      <4>2. /\ [observer[o] EXCEPT !.pc = "acknowledging"] \in Observers
            /\ [observer[o] EXCEPT !.pc = "acknowledging"].pc = "acknowledging"
            /\ [observer[o] EXCEPT !.pc = "acknowledging"].notification = observer[o].notification
        BY <1>3 DEF Observers
      <4> QED BY <3>2, <4>1, <4>2
    <3> QED BY <3>1, <3>2
  <2>6. seen.pc = "acknowledging" => seen.notification \in Generations
    BY <2>2, <2>5, StartsAssumption DEF Generations
  <2>7. ReportsOK' /\ \A k \in ObserverKeys : observer'[k] = IF k = o THEN seen ELSE observer[k]
    BY <1>1, <2>3, <2>5, <2>6, ReportsFrom
  <2>8. \A k \in ObserverKeys : removal = "no" /\ observer'[k].pc = "acknowledging"
                                   => observer'[k].notification \in notices'[k[2]]
    <3>1. \A k \in ObserverKeys : k[2] \in Ids
      BY DEF ObserverKeys
    <3> QED BY <1>1, <2>3, <2>5, <2>7, <3>1 DEF DurableInv
  <2>9. removal = "no" /\ sweep'.pc = "acknowledging" => sweep'.notification \in notices'[sweep'.id]
    <3>1. sweep.pc = "acknowledging" => sweep.id \in Ids
      BY <1>1 DEF SweepOK
    <3> QED BY <1>1, <2>3, <3>1 DEF DurableInv
  <2> QED BY <1>1, <1>2, <2>4, <2>7, <2>8, <2>9, ReportStep
<1>7. CASE Acknowledges(o)
  <2>1. /\ observer[o].pc = "acknowledging" /\ CompleteBackground(o[2], observer[o].notification)
        /\ observer' = [observer EXCEPT ![o] = NoObserver] /\ UNCHANGED notices
    BY <1>7 DEF Acknowledges
  <2>2. PICK n \in Generations : n = observer[o].notification
    BY <1>3, <2>1
  <2>3. n \in notices[o[2]] \/ removal # "no"
    BY <1>1, <2>1, <2>2 DEF DurableInv
  <2>4. /\ RegistryInv' /\ (removal = "no" => NothingLost)
        /\ \A i \in Ids : /\ jobs'[i].blockers <= jobs[i].blockers
                          /\ jobs'[i].gen = jobs[i].gen \/ jobs'[i].blockers = 0
    BY <1>1, <2>1, <2>2, <2>3, CompleteLosesNothing
  <2>5. TellsStay /\ CountsDown
    BY <1>1, <2>1, <2>4 DEF TellsStay, CountsDown, CompleteBackground
  <2>6. ReportsOK' /\ \A k \in ObserverKeys : observer'[k] = IF k = o THEN NoObserver ELSE observer[k]
    BY <1>1, <1>2, <1>4, <2>1, ReportsFrom
  <2>7. \A k \in ObserverKeys : removal = "no" /\ observer'[k].pc = "acknowledging"
                                   => observer'[k].notification \in notices'[k[2]]
    BY <1>1, <1>4, <2>1, <2>6 DEF DurableInv
  <2>8. removal = "no" /\ sweep'.pc = "acknowledging" => sweep'.notification \in notices'[sweep'.id]
    BY <1>1, <2>1 DEF DurableInv
  <2> QED BY <1>1, <1>2, <2>4, <2>5, <2>6, <2>7, <2>8, ReportStep
<1> QED BY <1>5, <1>6, <1>7 DEF ObserverStep

\* The sweep alone: it reads the registry and changes only itself.
Sweeps == [pc: {"rest", "listing", "rows", "telling", "acknowledging", "resuming", "marking", "watching"},
           left: SUBSET (Ids \X Generations \X Statuses), id: Ids \cup {"none"},
           notification: 0..MaxStarts]
SweepAt(swept) ==
  swept.pc \in {"telling", "acknowledging", "resuming", "marking", "watching"}
    => swept.id \in Ids /\ swept.notification \in Generations

\* What the sweep takes, leaves and goes on with.
LEMMA SweepMoves ==
  ASSUME SweepOK
  PROVE  /\ \A pc \in {"marking", "watching", "acknowledging"} :
              Swept(pc) /\ sweep.pc \in {"telling", "resuming", "marking"} =>
                /\ SweepOK' /\ sweep'.pc = pc /\ sweep'.id = sweep.id
                /\ sweep'.notification = sweep.notification
         /\ NextRow => SweepOK' /\ sweep'.pc = "rows"
<1>1. sweep \in Sweeps /\ SweepAt(sweep) /\ 0 \in 0..MaxStarts
  BY StartsAssumption DEF SweepOK, Sweeps, SweepAt
<1>2. ASSUME NEW pc \in {"marking", "watching", "acknowledging"}, Swept(pc),
             sweep.pc \in {"telling", "resuming", "marking"}
      PROVE  /\ SweepOK' /\ sweep'.pc = pc /\ sweep'.id = sweep.id
             /\ sweep'.notification = sweep.notification
  <2>1. sweep' = [sweep EXCEPT !.pc = pc]
    BY <1>2 DEF Swept
  <2>2. /\ sweep' \in Sweeps /\ sweep'.pc = pc /\ sweep'.id = sweep.id
        /\ sweep'.notification = sweep.notification
    BY <1>1, <2>1 DEF Sweeps
  <2> QED BY <1>1, <1>2, <2>2 DEF SweepOK, Sweeps, SweepAt
<1>3. ASSUME NextRow PROVE SweepOK' /\ sweep'.pc = "rows"
  <2>1. sweep' = [pc |-> "rows", left |-> sweep.left, id |-> "none", notification |-> 0]
    BY <1>3 DEF NextRow, Resting
  <2>2. sweep.left \in SUBSET (Ids \X Generations \X Statuses)
    BY <1>1 DEF Sweeps
  <2> QED BY <1>1, <2>1, <2>2 DEF SweepOK
<1> QED BY <1>2, <1>3

\* The sweep lists the rows, takes one and ends.
LEMMA SweepReads ==
  ASSUME RegistryInv, SweepOK, SweepLists \/ SweepRow \/ SweepEnds
  PROVE  SweepOK' /\ sweep'.pc # "acknowledging"
<1>1. sweep \in Sweeps /\ SweepAt(sweep) /\ 0 \in 0..MaxStarts /\ Generations \subseteq 0..MaxStarts
  BY StartsAssumption DEF SweepOK, Sweeps, SweepAt, Generations
<1>2. CASE SweepLists
  <2> DEFINE rows == {<<id, n, table[id][n]>> : id \in Ids, n \in Generations} \ (Ids \X Generations \X {"none"})
  <2>1. sweep' = [sweep EXCEPT !.pc = "rows", !.left = rows]
    BY <1>2 DEF SweepLists
  <2>2. rows \subseteq Ids \X Generations \X Statuses
    <3>1. \A id \in Ids, n \in Generations : table[id][n] \in Statuses
      BY DEF RegistryInv, JobTypeOK, Statuses
    <3> QED BY <3>1
  <2> HIDE DEF rows
  <2>3. sweep' \in Sweeps /\ sweep'.pc = "rows"
    BY <1>1, <2>1, <2>2 DEF Sweeps
  <2> QED BY <2>3 DEF SweepOK, Sweeps
<1>3. CASE SweepRow
  <2>1. PICK row \in sweep.left :
          \/ sweep' = [sweep EXCEPT !.left = @ \ {row}]
          \/ \E pc \in {"telling", "resuming"} :
               sweep' = [pc |-> pc, left |-> sweep.left \ {row}, id |-> row[1], notification |-> row[2]]
    BY <1>3 DEF SweepRow
  <2>2. /\ row[1] \in Ids /\ row[2] \in Generations
        /\ sweep.left \ {row} \in SUBSET (Ids \X Generations \X Statuses)
    BY <1>1 DEF Sweeps
  <2>3. sweep.pc = "rows"
    BY <1>3 DEF SweepRow
  <2>4. CASE sweep' = [sweep EXCEPT !.left = @ \ {row}]
    <3>1. sweep' \in Sweeps /\ sweep'.pc = "rows"
      BY <1>1, <2>2, <2>3, <2>4 DEF Sweeps
    <3> QED BY <3>1 DEF SweepOK, Sweeps
  <2>5. ASSUME NEW pc \in {"telling", "resuming"},
               sweep' = [pc |-> pc, left |-> sweep.left \ {row}, id |-> row[1], notification |-> row[2]]
        PROVE  SweepOK' /\ sweep'.pc # "acknowledging"
    BY <1>1, <2>2, <2>5 DEF SweepOK
  <2> QED BY <2>1, <2>4, <2>5
<1>4. CASE SweepEnds
  BY <1>1, <1>4 DEF SweepEnds, Resting, SweepOK
<1> QED BY <1>2, <1>3, <1>4

\* A step of the sweep.
LEMMA SweepKeeps ==
  ASSUME SubagentInv, SweepStep
  PROVE  SubagentInv'
<1>1. /\ RegistryInv /\ ReportsOK /\ SweepOK /\ DurableInv
      /\ Generations \subseteq 0..MaxStarts /\ \A k \in ObserverKeys : k[2] \in Ids
  BY StartsAssumption DEF SubagentInv, Generations, ObserverKeys
<1>2. sweep.pc \in {"telling", "acknowledging", "resuming", "marking", "watching"}
        => sweep.id \in Ids /\ sweep.notification \in Generations
  BY <1>1 DEF SweepOK
<1>3. ASSUME UNCHANGED reportVars
      PROVE  /\ ReportsOK' /\ UNCHANGED <<promised, notices>>
             /\ \A k \in ObserverKeys : removal = "no" /\ observer'[k].pc = "acknowledging"
                                   => observer'[k].notification \in notices'[k[2]]
  BY <1>1, <1>3 DEF ReportsOK, DurableInv, reportVars
<1>4. CASE SweepLists \/ SweepRow \/ SweepEnds
  <2>1. UNCHANGED <<jobVars, reportVars, removal, crashes>>
    BY <1>4 DEF SweepLists, SweepRow, SweepEnds
  <2>2. UNCHANGED <<jobs, table, fiber, done, told, caller, removal, crashes>> /\ UNCHANGED reportVars
    BY <2>1 DEF jobVars
  <2>3. SweepOK' /\ sweep'.pc # "acknowledging"
    BY <1>1, <1>4, SweepReads
  <2>4. RegistryInv' /\ TellsStay /\ CountsDown /\ NothingLost
    BY <1>1, <1>3, <2>2, RegistryRests
  <2> QED BY <1>3, <2>2, <2>3, <2>4, ReportStep
<1>5. CASE SweepTells
  <2>1. /\ sweep.pc = "telling" /\ Admits(sweep.id, sweep.notification) /\ Swept("acknowledging")
        /\ UNCHANGED <<jobs, table, fiber, done, told, caller, observer, promised, removal, crashes>>
    BY <1>5 DEF SweepTells, jobVars
  <2>2. PICK id \in Ids, n \in Generations : id = sweep.id /\ n = sweep.notification
    BY <1>2, <2>1
  <2>3. /\ notices' \in [Ids -> SUBSET (0..MaxStarts)]
        /\ \A i \in Ids : notices[i] \subseteq notices'[i]
        /\ removal # "gone" => n \in notices'[id]
    BY <1>1, <2>1, <2>2, AdmitsOne
  <2>4. /\ SweepOK' /\ sweep'.pc = "acknowledging" /\ sweep'.id = sweep.id
        /\ sweep'.notification = sweep.notification
    BY <1>1, <2>1, SweepMoves
  <2>5. ReportsOK'
    BY <1>1, <2>1, <2>3 DEF ReportsOK
  <2>6. \A k \in ObserverKeys : removal = "no" /\ observer'[k].pc = "acknowledging"
                                   => observer'[k].notification \in notices'[k[2]]
    BY <1>1, <2>1, <2>3 DEF DurableInv
  <2>7. removal = "no" /\ sweep'.pc = "acknowledging" => sweep'.notification \in notices'[sweep'.id]
    BY <2>2, <2>3, <2>4
  <2>8. RegistryInv' /\ TellsStay /\ CountsDown /\ NothingLost
    BY <1>1, <2>1, <2>3, RegistryRests
  <2> QED BY <2>1, <2>4, <2>5, <2>6, <2>7, <2>8, ReportStep
<1>6. CASE SweepAcknowledges
  <2>1. /\ sweep.pc = "acknowledging" /\ CompleteBackground(sweep.id, sweep.notification) /\ NextRow
        /\ UNCHANGED reportVars /\ UNCHANGED <<caller, removal, crashes>>
    BY <1>6 DEF SweepAcknowledges
  <2>2. PICK id \in Ids, n \in Generations : id = sweep.id /\ n = sweep.notification
    BY <1>2, <2>1
  <2>3. n \in notices[id] \/ removal # "no"
    BY <1>1, <2>1, <2>2 DEF DurableInv
  <2>4. /\ RegistryInv' /\ (removal = "no" => NothingLost)
        /\ \A i \in Ids : /\ jobs'[i].blockers <= jobs[i].blockers
                          /\ jobs'[i].gen = jobs[i].gen \/ jobs'[i].blockers = 0
    BY <1>1, <1>3, <2>1, <2>2, <2>3, CompleteLosesNothing
  <2>5. TellsStay /\ CountsDown
    BY <2>1, <2>4 DEF TellsStay, CountsDown, CompleteBackground
  <2>6. SweepOK' /\ sweep'.pc = "rows"
    BY <1>1, <2>1, SweepMoves
  <2> QED BY <1>3, <2>1, <2>4, <2>5, <2>6, ReportStep
<1>7. CASE SweepStarts
  <2>1. /\ sweep.pc = "resuming" /\ Start(sweep.id, sweep.notification) /\ Swept("marking")
        /\ UNCHANGED reportVars /\ UNCHANGED <<table, done, told, caller, removal, crashes>>
    BY <1>7 DEF SweepStarts
  <2>2. PICK id \in Ids, n \in 0..MaxStarts : id = sweep.id /\ n = sweep.notification
    BY <1>1, <1>2, <2>1
  <2>3. RegistryInv' /\ NothingLost /\ TellsStay /\ CountsDown
    BY <1>1, <1>3, <2>1, <2>2, StartLosesNothing
  <2>4. SweepOK' /\ sweep'.pc = "marking"
    BY <1>1, <2>1, SweepMoves
  <2> QED BY <1>3, <2>1, <2>3, <2>4, ReportStep
<1>8. CASE SweepMarks
  <2>1. /\ sweep.pc = "marking" /\ Background(sweep.id) /\ Swept("watching")
        /\ UNCHANGED reportVars /\ UNCHANGED <<caller, removal, crashes>>
    BY <1>8 DEF SweepMarks
  <2>2. PICK id \in Ids : id = sweep.id
    BY <1>2, <2>1
  <2>3. RegistryInv' /\ NothingLost /\ TellsStay /\ CountsDown
    BY <1>1, <1>3, <2>1, <2>2, BackgroundKeeps
  <2>4. SweepOK' /\ sweep'.pc = "watching"
    BY <1>1, <2>1, SweepMoves
  <2> QED BY <1>3, <2>1, <2>3, <2>4, ReportStep
<1>9. CASE SweepWatches
  <2>1. /\ sweep.pc = "watching" /\ NextRow
        /\ UNCHANGED <<jobs, table, fiber, done, told, caller, notices, promised, removal, crashes>>
    BY <1>9 DEF SweepWatches, jobVars
  <2>2. PICK id \in Ids, n \in Generations : id = sweep.id /\ n = sweep.notification
    BY <1>2, <2>1
  <2> DEFINE o == <<"sweep", id, n>>
  <2>3. o \in ObserverKeys /\ observer' = [observer EXCEPT ![o] = Looking(o, id)]
    BY <1>9, <2>2 DEF SweepWatches, ObserverKeys
  <2>4. /\ Looking(o, id) \in Observers
        /\ Looking(o, id).pc # "acknowledging"
        /\ Looking(o, id).pc = "waiting" => Looking(o, id).gen \in Generations
    BY <1>1, <2>3, LooksAt
  <2>5. promised' \in [Ids -> SUBSET Generations]
    BY <1>1, <2>1 DEF ReportsOK
  <2>6. ReportsOK' /\ \A k \in ObserverKeys : observer'[k].pc = "acknowledging" => observer'[k] = observer[k]
    BY <1>1, <2>1, <2>3, <2>4, <2>5, ObserverSet
  <2>7. SweepOK' /\ sweep'.pc = "rows"
    BY <1>1, <2>1, SweepMoves
  <2>8. RegistryInv' /\ TellsStay /\ CountsDown /\ NothingLost
    BY <1>1, <2>1, RegistryRests
  <2>9. \A k \in ObserverKeys : removal = "no" /\ observer'[k].pc = "acknowledging"
                                   => observer'[k].notification \in notices'[k[2]]
    BY <1>1, <2>1, <2>6 DEF DurableInv
  <2> QED BY <2>1, <2>6, <2>7, <2>8, <2>9, ReportStep
<1> QED BY <1>4, <1>5, <1>6, <1>7, <1>8, <1>9 DEF SweepStep

-----------------------------------------------------------------------------
(* The death of the process, and the start *)

\* The rows and the inbox outlive the process, and nothing else does.
LEMMA CrashStepKeeps ==
  ASSUME SubagentInv, Crash
  PROVE  SubagentInv'
<1>1. /\ RegistryInv /\ ReportsOK /\ SweepOK /\ DurableInv /\ crashes \in 0..MaxCrashes
      /\ crashes < MaxCrashes /\ removal = "no" /\ crashes' = crashes + 1
      /\ jobs' = [id \in Ids |-> Absent] /\ told' = [id \in Ids |-> [g \in Generations |-> 0]]
      /\ caller' = [c \in Callers |-> Idle] /\ observer' = [o \in ObserverKeys |-> NoObserver]
      /\ sweep' = [Resting EXCEPT !.pc = "listing"]
      /\ UNCHANGED <<table, notices, promised, removal>> /\ 0 \in 0..MaxStarts
  BY StartsAssumption DEF SubagentInv, Crash
<1>2. RegistryInv'
  BY <1>1, CrashKeeps
<1>3. CallersOK'
  BY <1>1, IdleCall DEF CallersOK
<1>4. ReportsOK'
  <2>1. NoObserver \in Observers /\ NoObserver.pc = "none"
    BY <1>1 DEF NoObserver, Observers
  <2> QED BY <1>1, <2>1 DEF ReportsOK, Observers
<1>5. sweep' = [pc |-> "listing", left |-> {}, id |-> "none", notification |-> 0]
  BY <1>1 DEF Resting
<1>6. SweepOK'
  <2>1. 0 \in 0..MaxStarts /\ {} \in SUBSET (Ids \X Generations \X Statuses)
    BY <1>1
  <2>2. sweep' \in Sweeps /\ sweep'.pc = "listing"
    BY <1>5, <2>1 DEF Sweeps
  <2> QED BY <2>2 DEF SweepOK, Sweeps
<1>8. DurableInv'
  <2>1. \A i \in Ids : \A n \in promised'[i] : n \in promised[i]
    BY <1>1
  <2>2. \A o \in ObserverKeys : observer'[o].pc # "acknowledging"
    BY <1>1 DEF NoObserver
  <2>3. ASSUME NEW id \in Ids, NEW g \in Generations PROVE told'[id][g] = 0
    BY <1>1
  <2>4. \A id \in Ids : \A n \in promised'[id] : Safe(id, n)'
    BY <1>1 DEF DurableInv, Safe
  <2>5. OwnershipIsDurable'
    BY <1>1 DEF OwnershipIsDurable, Absent
  <2> QED BY <1>5, <2>2, <2>3, <2>4, <2>5 DEF DurableInv
<1>9. BlockersAreReal'
  <2>1. ASSUME NEW id \in Ids PROVE jobs'[id].blockers <= Cardinality(BlockedOn(id)')
    <3>1. jobs'[id].blockers = 0
      BY <1>1 DEF Absent
    <3>2. Cardinality(BlockedOn(id)') \in Nat
      BY BlockedCountedNext
    <3> QED BY <3>1, <3>2
  <2> QED BY <2>1, BlockedCountedNext
<1>10. crashes' \in 0..MaxCrashes
  BY <1>1, CrashesAssumption
<1> QED BY <1>1, <1>2, <1>3, <1>4, <1>6, <1>8, <1>9, <1>10 DEF SubagentInv

\* The process starts with nothing.
LEMMA InitKeeps ==
  ASSUME SubagentInit
  PROVE  SubagentInv
<1>1. /\ jobs = [id \in Ids |-> Absent]
      /\ table = [id \in Ids |-> [n \in Generations |-> "none"]]
      /\ fiber = [id \in Ids |-> [g \in Generations |-> NoFiber]]
      /\ done = [id \in Ids |-> [g \in Generations |-> Unresolved]]
      /\ told = [id \in Ids |-> [g \in Generations |-> 0]]
      /\ caller = [c \in Callers |-> Idle]
      /\ observer = [o \in ObserverKeys |-> NoObserver]
      /\ notices = [id \in Ids |-> {}] /\ promised = [id \in Ids |-> {}]
      /\ sweep = Resting /\ removal = "no" /\ crashes = 0 /\ 0 \in 0..MaxStarts
  BY StartsAssumption DEF SubagentInit, JobInit
<1>2. JobTypeOK
  <2>1. Absent \in [gen: 0..MaxStarts, status: Terminal \cup {"running", "absent"},
                    blockers: Nat, backgrounded: BOOLEAN, notification: 0..MaxStarts]
    BY <1>1 DEF Absent
  <2>2. Unresolved \in [status: Terminal \cup {"none"}, notification: 0..MaxStarts]
    BY <1>1 DEF Unresolved
  <2>3. NoFiber \in [exit: Exits \cup {"none", "running", "dead"}, settled: BOOLEAN]
    BY DEF NoFiber
  <2>4. jobs \in [Ids -> [gen: 0..MaxStarts, status: Terminal \cup {"running", "absent"},
                          blockers: Nat, backgrounded: BOOLEAN, notification: 0..MaxStarts]]
    BY <1>1, <2>1
  <2>5. done \in [Ids -> [Generations -> [status: Terminal \cup {"none"}, notification: 0..MaxStarts]]]
    BY <1>1, <2>2
  <2>6. fiber \in [Ids -> [Generations -> [exit: Exits \cup {"none", "running", "dead"}, settled: BOOLEAN]]]
    BY <1>1, <2>3
  <2>7. table \in [Ids -> [Generations -> Terminal \cup {"running", "none"}]]
    BY <1>1
  <2>8. told \in [Ids -> [Generations -> 0..MaxStarts]]
    BY <1>1
  <2> QED BY <2>4, <2>5, <2>6, <2>7, <2>8 DEF JobTypeOK
<1>3. RegistryInv
  <2>1. ASSUME NEW id \in Ids
        PROVE  EntryOK(id) /\ StartedUpTo(id, 0) /\ ~Finished(id)
    <3>1. EntryOK(id) /\ ~Finished(id)
      BY <1>1 DEF EntryOK, Absent, Present, Finished, Terminal
    <3>2. \A g \in Generations : ~(g <= 0)
      BY StartsAssumption DEF Generations
    <3>3. StartedUpTo(id, 0)
      BY <1>1, <3>2 DEF StartedUpTo, NoFiber
    <3> QED BY <3>1, <3>3
  <2>2. \A id \in Ids, g \in Generations : done[id][g].status # "completed"
    BY <1>1 DEF Unresolved
  <2>3. OutcomeIsItsOwn
    BY <2>1, <2>2 DEF OutcomeIsItsOwn
  <2> QED BY <1>1, <1>2, <2>1, <2>3 DEF RegistryInv
<1>4. CallersOK
  BY <1>1, IdleCall DEF CallersOK
<1>5. ReportsOK
  <2>1. NoObserver \in Observers /\ NoObserver.pc = "none"
    BY <1>1 DEF NoObserver, Observers
  <2> QED BY <1>1, <2>1 DEF ReportsOK, Observers
<1>6. SweepOK
  BY <1>1 DEF SweepOK, Resting
<1>7. DurableInv
  <2>1. \A id \in Ids, g \in Generations : told[id][g] = 0
    BY <1>1
  <2>2. \A o \in ObserverKeys : observer[o].pc # "acknowledging"
    BY <1>1 DEF NoObserver
  <2>3. sweep.pc # "acknowledging" /\ \A id \in Ids : promised[id] = {}
    BY <1>1 DEF Resting
  <2>4. OwnershipIsDurable
    BY <1>1 DEF OwnershipIsDurable, Absent
  <2> QED BY <2>1, <2>2, <2>3, <2>4 DEF DurableInv
<1>8. BlockersAreReal
  <2>1. ASSUME NEW id \in Ids PROVE jobs[id].blockers <= Cardinality(BlockedOn(id))
    <3>1. jobs[id].blockers = 0
      BY <1>1 DEF Absent
    <3>2. Cardinality(BlockedOn(id)) \in Nat
      BY BlockedCounted
    <3> QED BY <3>1, <3>2
  <2> QED BY <2>1, BlockedCounted
<1> QED BY <1>1, <1>3, <1>4, <1>5, <1>6, <1>7, <1>8, CrashesAssumption DEF SubagentInv

-----------------------------------------------------------------------------
(* The theorems *)

\* The inductive invariant holds in every state of every behaviour: no step of a
\* child, of a call, of an observer, of the sweep or of the process's end breaks it.
THEOREM SubagentInvariant == SubagentSpec => []SubagentInv
<1>1. SubagentInit => SubagentInv
  BY InitKeeps
<1>2. SubagentInv /\ [SubagentNext]_subagentVars => SubagentInv'
  <2> SUFFICES ASSUME SubagentInv, [SubagentNext]_subagentVars PROVE SubagentInv'
    OBVIOUS
  <2>1. CASE UNCHANGED subagentVars
    <3>1. UNCHANGED <<jobs, table, fiber, done, told, caller, observer, notices, promised, sweep,
                      removal, crashes>>
      BY <2>1 DEF subagentVars, jobVars, reportVars
    <3>2. UNCHANGED reportVars
      BY <3>1 DEF reportVars
    <3>3. /\ RegistryInv /\ CallersOK /\ BlockersAreReal /\ removal \in {"no", "going", "gone"}
      BY DEF SubagentInv
    <3>4. RegistryInv' /\ TellsStay /\ CountsDown /\ NothingLost
      BY <3>1, <3>3, RegistryRests
    <3>5. CallersOK' /\ BlocksOn
      BY <3>1, <3>3, <3>4, CallersStay DEF BlocksOn
    <3> QED BY <3>1, <3>2, <3>3, <3>4, <3>5, BlockersKept, QuietReports
  <2>2. CASE FiberStep
    BY <2>2, FiberKeeps
  <2>3. CASE SweepStep
    BY <2>3, SweepKeeps
  <2>4. ASSUME NEW o \in ObserverKeys, ObserverStep(o) PROVE SubagentInv'
    BY <2>4, ObserverKeeps
  <2>5. ASSUME NEW c \in Callers, CallStep(c) PROVE SubagentInv'
    BY <2>5, EntersKeeps, HandsOverKeeps, NotifiesKeeps, ContinuesKeeps DEF CallStep
  <2>6. ASSUME NEW c \in Callers, CallInterrupted(c) \/ Removes(c) PROVE SubagentInv'
    BY <2>6, InterruptKeeps, RemovesKeeps
  <2>7. ASSUME NEW c \in Callers, NEW id \in Ids, CallStarts(c, id) \/ StopsChild(c, id)
        PROVE  SubagentInv'
    BY <2>7, CallStartsKeeps, StopsKeeps
  <2>8. CASE MovesToBackground
    BY <2>8, MovingKeeps
  <2>9. CASE Crash
    BY <2>9, CrashStepKeeps
  <2> QED BY <2>1, <2>2, <2>3, <2>4, <2>5, <2>6, <2>7, <2>8, <2>9 DEF SubagentNext, BackgroundStep
<1> QED BY <1>1, <1>2, PTL DEF SubagentSpec

\* Every entry, row, fiber, answer, observer, notice and row of the sweep has its
\* type, for any children, callers, starts and crashes.
THEOREM SubagentTypes == SubagentSpec => []SubagentTypeOK
<1>1. SubagentInv => SubagentTypeOK
  BY DEF SubagentInv, RegistryInv, ReportsOK, SweepOK, SubagentTypeOK
<1> QED BY <1>1, SubagentInvariant, PTL

\* Settling by generation: no fiber but a job's own settles it, and whoever waited
\* for it heard what its entry says.
THEOREM OutcomesAreOwn == SubagentSpec => []OutcomeIsItsOwn
<1>1. SubagentInv => OutcomeIsItsOwn
  BY DEF SubagentInv, RegistryInv
<1> QED BY <1>1, SubagentInvariant, PTL

\* The blocking count of a job is never more than the calls that really block on
\* it, whichever calls were answered, interrupted or replaced their job.
THEOREM OnlyBlockersCount == SubagentSpec => []BlockersAreReal
<1>1. SubagentInv => BlockersAreReal
  BY DEF SubagentInv
<1> QED BY <1>1, SubagentInvariant, PTL

\* Write-ahead of the background: a row owns a job in the background, and says how
\* it ended, until its notice is in the parent's inbox, through any crashes.
THEOREM BackgroundIsOwned == SubagentSpec => []OwnershipIsDurable
<1>1. SubagentInv => OwnershipIsDurable
  BY DEF SubagentInv, DurableInv, OwnershipIsDurable
<1> QED BY <1>1, SubagentInvariant, PTL

\* "You will be notified automatically when it finishes" is true: a notification
\* that was promised is never lost, through replacements, crashes and the sweep.
THEOREM PromisesAreKept == SubagentSpec => []PromiseKept
<1>1. SubagentInv => PromiseKept
  BY DEF SubagentInv, DurableInv, PromiseKept, Safe
<1> QED BY <1>1, SubagentInvariant, PTL
===============================================================================
