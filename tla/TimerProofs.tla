---------------------------- MODULE TimerProofs ----------------------------
(***************************************************************************)
(* Proofs about the timer wheel: for every size of the wheel, every number *)
(* of ids and every set of timeouts, a task in the map is waited for by    *)
(* exactly one node, and the wheel implements DeadlineTimer.               *)
(*                                                                         *)
(* What makes it inductive is DueIn: for each task there is one slot and   *)
(* one place in it whose node has the current version, and the rounds left *)
(* there and the distance of the slot add up to the deadline.  A push of   *)
(* another node, or a turn of the wheel, moves that place and never the    *)
(* sum.  The hypothesis Guarded says that SetInactiveRelease is called as  *)
(* the source calls it (once for a connection, as it is accepted), or only *)
(* while its id has a task: an id that ended and is added again starts     *)
(* from version 1 and may meet a node it left in the wheel.                *)
(***************************************************************************)
EXTENDS Inactivity, FiniteSetTheorems, SequenceTheorems, TLAPS

-----------------------------------------------------------------------------
(* Numbers. *)

LEMMA Divided ==
  ASSUME NEW n \in Nat, NEW w \in Nat \ {0}
  PROVE  n = w * (n \div w) + (n % w) /\ n % w \in 0..(w - 1) /\ n \div w \in Nat
<1>1. n = w * (n \div w) + (n % w)
  OBVIOUS
<1>2. n % w \in 0..(w - 1)
  OBVIOUS
<1>3. n \div w \in Int /\ n \div w >= 0
  OBVIOUS
<1> QED BY <1>1, <1>2, <1>3

LEMMA Remainder ==
  ASSUME NEW q \in Nat, NEW w \in Nat \ {0}, NEW r \in 0..(w - 1), NEW n \in Nat, n = w * q + r
  PROVE  n % w = r
OBVIOUS

LEMMA Product == ASSUME NEW q \in Nat, NEW w \in Nat PROVE w * q \in Nat /\ q * w = w * q /\ w * (q + 1) = w * q + w
OBVIOUS

(* The slot and the rounds of a task due in n ticks come up after n ticks.  *)
LEMMA SlotAndRounds ==
  ASSUME NEW w \in Nat \ {0}, NEW t \in 0..(w - 1), NEW n \in Nat \ {0}, NEW s, s = (t + n) % w
  PROVE  /\ s \in 0..(w - 1) /\ (n - 1) \div w \in Nat
         /\ (IF s > t THEN s - t ELSE s + w - t) + ((n - 1) \div w) * w = n
<1> DEFINE q == (n - 1) \div w
           m == (n - 1) % w
<1>1. n - 1 \in Nat /\ t + n \in Nat /\ w \in Nat /\ t \in Nat
  OBVIOUS
<1>2. n - 1 = w * q + m /\ m \in 0..(w - 1) /\ q \in Nat
  BY <1>1, Divided
<1>3. PICK p \in Nat : p = w * q /\ q * w = p /\ w * (q + 1) = p + w
  BY <1>1, <1>2, Product
<1> HIDE DEF q, m
<1>4. CASE t + 1 + m < w
  <2>1. s = t + 1 + m
    <3>1. t + n = w * q + (t + 1 + m) /\ t + 1 + m \in 0..(w - 1)
      BY <1>1, <1>2, <1>3, <1>4
    <3> QED BY <1>1, <1>2, <3>1, Remainder
  <2>2. s > t /\ s - t + p = n /\ s \in 0..(w - 1)
    BY <1>1, <1>2, <1>3, <1>4, <2>1
  <2> QED BY <1>2, <1>3, <2>2 DEF q
<1>5. CASE ~(t + 1 + m < w)
  <2>1. s = t + 1 + m - w
    <3>1. t + n = w * (q + 1) + (t + 1 + m - w) /\ t + 1 + m - w \in 0..(w - 1) /\ q + 1 \in Nat
      BY <1>1, <1>2, <1>3, <1>5
    <3> QED BY <1>1, <3>1, Remainder
  <2>2. ~(s > t) /\ s + w - t + p = n /\ s \in 0..(w - 1)
    BY <1>1, <1>2, <1>3, <1>5, <2>1
  <2> QED BY <1>2, <1>3, <2>2 DEF q
<1> QED BY <1>4, <1>5

(* The pointer moves on by one: every slot comes nearer by one, but the one *)
(* it reaches, which is a whole turn away again.                            *)
LEMMA PointerMoves ==
  ASSUME NEW w \in Nat \ {0}, NEW t \in 0..(w - 1), NEW s \in 0..(w - 1), NEW u, u = (t + 1) % w
  PROVE  /\ u \in 0..(w - 1)
         /\ s # u => (IF s > u THEN s - u ELSE s + w - u) = (IF s > t THEN s - t ELSE s + w - t) - 1
         /\ s # u => (IF s > t THEN s - t ELSE s + w - t) > 1
         /\ s = u => (IF s > u THEN s - u ELSE s + w - u) = w
         /\ s = u => (IF s > t THEN s - t ELSE s + w - t) = 1
<1>1. u = IF t + 1 = w THEN 0 ELSE t + 1
  <2>1. CASE t + 1 = w
    <3>1. t + 1 \in Nat /\ t + 1 = w * 1 + 0 /\ 0 \in 0..(w - 1)
      BY <2>1
    <3> QED BY <2>1, <3>1, Remainder
  <2>2. CASE t + 1 # w
    <3>1. t + 1 \in Nat /\ t + 1 = w * 0 + (t + 1) /\ t + 1 \in 0..(w - 1)
      BY <2>2
    <3> QED BY <2>2, <3>1, Remainder
  <2> QED BY <2>1, <2>2
<1> QED BY <1>1

-----------------------------------------------------------------------------
(* The node a task waits for.  Node j of slot s of a wheel w counts for i   *)
(* when it has the version v gives i; with the pointer at t it comes up in  *)
(* d ticks.                                                                 *)
TicksFrom(t, s) == IF s > t THEN s - t ELSE s + WheelSize - t
Counts(w, v, i, s, j) == w[s][j].id = i /\ w[s][j].version = v[i]
DueIn(t, w, v, i, d) ==
  \E s \in Slots : \E j \in DOMAIN w[s] :
    /\ Counts(w, v, i, s, j)
    /\ \A r \in Slots : \A l \in DOMAIN w[r] : Counts(w, v, i, r, l) => r = s /\ l = j
    /\ d = TicksFrom(t, s) + w[s][j].rounds * WheelSize

LEMMA DueNode ==
  ASSUME NEW t, NEW w, NEW v, NEW i, NEW d, DueIn(t, w, v, i, d)
  PROVE  \E s \in Slots : \E j \in DOMAIN w[s] :
           /\ {p \in UNION {{r} \X DOMAIN w[r] : r \in Slots} :
                 w[p[1]][p[2]].id = i /\ w[p[1]][p[2]].version = v[i]} = {<<s, j>>}
           /\ d = TicksFrom(t, s) + w[s][j].rounds * WheelSize
<1> DEFINE C == {p \in UNION {{r} \X DOMAIN w[r] : r \in Slots} :
                   w[p[1]][p[2]].id = i /\ w[p[1]][p[2]].version = v[i]}
<1>s. PICK s \in Slots : \E j \in DOMAIN w[s] :
        /\ Counts(w, v, i, s, j)
        /\ \A r \in Slots : \A l \in DOMAIN w[r] : Counts(w, v, i, r, l) => r = s /\ l = j
        /\ d = TicksFrom(t, s) + w[s][j].rounds * WheelSize
  BY DEF DueIn
<1>1. PICK j \in DOMAIN w[s] :
        /\ Counts(w, v, i, s, j)
        /\ \A r \in Slots : \A l \in DOMAIN w[r] : Counts(w, v, i, r, l) => r = s /\ l = j
        /\ d = TicksFrom(t, s) + w[s][j].rounds * WheelSize
  BY <1>s
<1>2. <<s, j>> \in C
  <2>1. <<s, j>> \in {s} \X DOMAIN w[s]
    OBVIOUS
  <2>2. {s} \X DOMAIN w[s] \in {{r} \X DOMAIN w[r] : r \in Slots}
    OBVIOUS
  <2>3. <<s, j>> \in UNION {{r} \X DOMAIN w[r] : r \in Slots}
    BY <2>1, <2>2
  <2> QED BY <1>1, <2>3 DEF Counts
<1>3. ASSUME NEW p \in C PROVE p = <<s, j>>
  <2>1. PICK r \in Slots : p \in {r} \X DOMAIN w[r]
    OBVIOUS
  <2>2. p[1] = r /\ p[2] \in DOMAIN w[r] /\ p = <<p[1], p[2]>>
    BY <2>1
  <2>3. Counts(w, v, i, r, p[2])
    BY <2>2 DEF Counts
  <2> QED BY <1>1, <2>2, <2>3
<1> QED BY <1>1, <1>2, <1>3

LEMMA DueDeadline ==
  ASSUME NEW i, NEW d
  PROVE  /\ DueIn(tick, wheel, versions, i, d) => Cardinality(Counting(i)) = 1 /\ Deadline(i) = d
         /\ DueIn(tick', wheel', versions', i, d) => Deadline(i)' = d
<1>1. ASSUME DueIn(tick, wheel, versions, i, d)
      PROVE  Cardinality(Counting(i)) = 1 /\ Deadline(i) = d
  <2>s. PICK s \in Slots : \E j \in DOMAIN wheel[s] :
          Counting(i) = {<<s, j>>} /\ d = TicksFrom(tick, s) + wheel[s][j].rounds * WheelSize
    BY <1>1, DueNode DEF Counting
  <2>1. PICK j \in DOMAIN wheel[s] :
          Counting(i) = {<<s, j>>} /\ d = TicksFrom(tick, s) + wheel[s][j].rounds * WheelSize
    BY <2>s
  <2>2. (CHOOSE p \in Counting(i) : TRUE) = <<s, j>>
    BY <2>1
  <2>3. Deadline(i) = d
    BY <2>1, <2>2 DEF Deadline, TicksTo, TicksFrom
  <2> QED BY <2>1, <2>3, FS_Singleton
<1>2. ASSUME DueIn(tick', wheel', versions', i, d) PROVE Deadline(i)' = d
  <2>s. PICK s \in Slots : \E j \in DOMAIN wheel'[s] :
          Counting(i)' = {<<s, j>>} /\ d = TicksFrom(tick', s) + wheel'[s][j].rounds * WheelSize
    BY <1>2, DueNode DEF Counting
  <2>1. PICK j \in DOMAIN wheel'[s] :
          Counting(i)' = {<<s, j>>} /\ d = TicksFrom(tick', s) + wheel'[s][j].rounds * WheelSize
    BY <2>s
  <2>2. (CHOOSE p \in Counting(i)' : TRUE) = <<s, j>>
    BY <2>1
  <2> QED BY <2>1, <2>2 DEF Deadline, TicksTo, TicksFrom
<1> QED BY <1>1, <1>2

(* Versions grow while a task is known, and its nodes are no newer; ended   *)
(* tasks leave nodes of versions that never count again, as an id is not    *)
(* added a second time.                                                     *)
NodesOld ==
  \A s \in Slots : \A j \in DOMAIN wheel[s] :
    /\ wheel[s][j].version > 0 /\ conn[wheel[s][j].id] # "new"
    /\ wheel[s][j].id \in known => wheel[s][j].version <= versions[wheel[s][j].id]
KnownDue == \A i \in known : conn[i] # "new" /\ \E d \in Nat \ {0} : DueIn(tick, wheel, versions, i, d)
UnknownFresh == \A i \in Ids \ known : versions[i] = 0
WheelInv == NodesOld /\ KnownDue /\ UnknownFresh

(* A node for i is pushed: its task is known or has no node.                *)
LEMMA PushKeepsWheel ==
  ASSUME TypeOK, WheelInv, NEW i \in Ids, NEW n \in Nat \ {0}, Push(i, n), tick' = tick,
         i \in known \/ conn[i] = "new"
  PROVE  /\ wheel' \in [Slots -> Seq(Nodes)] /\ versions' \in [Ids -> Nat]
         /\ versions'[i] = versions[i] + 1 /\ \A k \in Ids \ {i} : versions'[k] = versions[k]
         /\ \A s \in Slots : \A j \in DOMAIN wheel'[s] :
              \/ wheel'[s][j].id = i /\ wheel'[s][j].version = versions'[i]
              \/ j \in DOMAIN wheel[s] /\ wheel'[s][j] = wheel[s][j]
         /\ DueIn(tick', wheel', versions', i, n)
         /\ \A k \in Ids \ {i} : \A d : DueIn(tick, wheel, versions, k, d) => DueIn(tick', wheel', versions', k, d)
<1> DEFINE slot == (tick + n) % WheelSize
           node == [id |-> i, version |-> versions[i] + 1, rounds |-> (n - 1) \div WheelSize]
<1>1. /\ slot \in Slots /\ (n - 1) \div WheelSize \in Nat
      /\ TicksFrom(tick, slot) + ((n - 1) \div WheelSize) * WheelSize = n
  <2>1. WheelSize \in Nat \ {0} /\ tick \in 0..(WheelSize - 1)
    BY WheelAssumption DEF TypeOK, Slots
  <2> QED BY <2>1, SlotAndRounds DEF Slots, TicksFrom
<1>2. node \in Nodes /\ node.id = i /\ node.version = versions[i] + 1 /\ node.rounds = (n - 1) \div WheelSize
  BY <1>1 DEF Nodes, TypeOK
<1> HIDE DEF node, slot
<1>3. /\ versions' = [versions EXCEPT ![i] = @ + 1]
      /\ wheel' = [wheel EXCEPT ![slot] = Append(@, node)]
  BY DEF Push, node, slot
<1>4. /\ versions' \in [Ids -> Nat] /\ versions'[i] = versions[i] + 1
      /\ \A k \in Ids \ {i} : versions'[k] = versions[k]
  BY <1>3 DEF TypeOK
<1>5. /\ wheel[slot] \in Seq(Nodes) /\ wheel'[slot] = Append(wheel[slot], node)
      /\ \A s \in Slots \ {slot} : wheel'[s] = wheel[s]
  BY <1>1, <1>3 DEF TypeOK
<1>6. /\ Append(wheel[slot], node) \in Seq(Nodes)
      /\ \A j \in DOMAIN wheel[slot] : Append(wheel[slot], node)[j] = wheel[slot][j]
      /\ Append(wheel[slot], node)[Len(wheel[slot]) + 1] = node
      /\ Len(wheel[slot]) \in Nat
      /\ DOMAIN wheel[slot] = 1..Len(wheel[slot])
      /\ DOMAIN Append(wheel[slot], node) = 1..(Len(wheel[slot]) + 1)
  BY <1>2, <1>5, AppendProperties, LenProperties
<1> DEFINE last == Len(wheel[slot]) + 1
<1>7. /\ last \in DOMAIN wheel'[slot] /\ wheel'[slot][last] = node /\ last \notin DOMAIN wheel[slot]
      /\ \A j \in DOMAIN wheel'[slot] : j = last \/ j \in DOMAIN wheel[slot]
      /\ \A j \in DOMAIN wheel[slot] : j \in DOMAIN wheel'[slot] /\ wheel'[slot][j] = wheel[slot][j]
  BY <1>5, <1>6
<1> HIDE DEF last
<1>8. wheel' \in [Slots -> Seq(Nodes)]
  BY <1>3, <1>5, <1>6 DEF TypeOK
<1>9. \A s \in Slots : \A j \in DOMAIN wheel'[s] :
        (s = slot /\ j = last) \/ (j \in DOMAIN wheel[s] /\ wheel'[s][j] = wheel[s][j])
  BY <1>5, <1>7
<1>10. \A s \in Slots : \A j \in DOMAIN wheel[s] : j \in DOMAIN wheel'[s] /\ wheel'[s][j] = wheel[s][j]
  BY <1>5, <1>7
<1>11. \A s \in Slots : \A j \in DOMAIN wheel[s] : wheel[s][j].id = i => wheel[s][j].version # versions[i] + 1
  <2> SUFFICES ASSUME NEW s \in Slots, NEW j \in DOMAIN wheel[s], wheel[s][j].id = i
               PROVE  wheel[s][j].version # versions[i] + 1
    OBVIOUS
  <2>1. wheel[s][j].version <= versions[i] /\ versions[i] \in Nat
    BY DEF WheelInv, NodesOld, TypeOK
  <2>2. wheel[s][j] \in Nodes
    <3>1. wheel[s] \in Seq(Nodes)
      BY DEF TypeOK
    <3>2. j \in 1..Len(wheel[s])
      BY <3>1, LenProperties
    <3> QED BY <3>1, <3>2, ElementOfSeq
  <2> QED BY <2>1, <2>2 DEF Nodes
<1>12. DueIn(tick', wheel', versions', i, n)
  <2>1. Counts(wheel', versions', i, slot, last)
    BY <1>2, <1>4, <1>7 DEF Counts
  <2>2. ASSUME NEW r \in Slots, NEW l \in DOMAIN wheel'[r], Counts(wheel', versions', i, r, l)
        PROVE  r = slot /\ l = last
    BY <1>4, <1>9, <1>11, <2>2 DEF Counts
  <2>3. n = TicksFrom(tick', slot) + wheel'[slot][last].rounds * WheelSize
    BY <1>1, <1>2, <1>7
  <2> QED BY <1>1, <1>7, <2>1, <2>2, <2>3 DEF DueIn
<1>13. ASSUME NEW k \in Ids \ {i}, NEW d, DueIn(tick, wheel, versions, k, d)
       PROVE  DueIn(tick', wheel', versions', k, d)
  <2>s. PICK s \in Slots : \E j \in DOMAIN wheel[s] :
          /\ Counts(wheel, versions, k, s, j)
          /\ \A r \in Slots : \A l \in DOMAIN wheel[r] : Counts(wheel, versions, k, r, l) => r = s /\ l = j
          /\ d = TicksFrom(tick, s) + wheel[s][j].rounds * WheelSize
    BY <1>13 DEF DueIn
  <2>1. PICK j \in DOMAIN wheel[s] :
          /\ Counts(wheel, versions, k, s, j)
          /\ \A r \in Slots : \A l \in DOMAIN wheel[r] : Counts(wheel, versions, k, r, l) => r = s /\ l = j
          /\ d = TicksFrom(tick, s) + wheel[s][j].rounds * WheelSize
    BY <2>s
  <2>2. j \in DOMAIN wheel'[s] /\ wheel'[s][j] = wheel[s][j] /\ Counts(wheel', versions', k, s, j)
    BY <1>4, <1>10, <2>1 DEF Counts
  <2>3. ASSUME NEW r \in Slots, NEW l \in DOMAIN wheel'[r], Counts(wheel', versions', k, r, l)
        PROVE  r = s /\ l = j
    <3>1. ~(r = slot /\ l = last)
      BY <1>2, <1>7, <2>3 DEF Counts
    <3>2. l \in DOMAIN wheel[r] /\ wheel'[r][l] = wheel[r][l]
      BY <1>9, <3>1
    <3> QED BY <1>4, <2>1, <2>3, <3>2 DEF Counts
  <2>4. d = TicksFrom(tick', s) + wheel'[s][j].rounds * WheelSize
    BY <2>1, <2>2
  <2> QED BY <2>2, <2>3, <2>4 DEF DueIn
<1>14. \A s \in Slots : \A j \in DOMAIN wheel'[s] :
              \/ wheel'[s][j].id = i /\ wheel'[s][j].version = versions'[i]
              \/ j \in DOMAIN wheel[s] /\ wheel'[s][j] = wheel[s][j]
  BY <1>2, <1>4, <1>7, <1>9
<1> QED BY <1>4, <1>8, <1>12, <1>13, <1>14

-----------------------------------------------------------------------------
(* The pointer reaches a slot. *)
Now == (tick + 1) % WheelSize
Ending(j) == wheel[Now][j].rounds = 0 /\ wheel[Now][j].version = versions[wheel[Now][j].id]
Staying(j) == /\ wheel[Now][j].rounds > 0 /\ wheel[Now][j].version = versions[wheel[Now][j].id]
              /\ \A k \in 1..(j - 1) : ~(wheel[Now][k].id = wheel[Now][j].id /\ Ending(k))
Ended == {wheel[Now][j].id : j \in {k \in DOMAIN wheel[Now] : Ending(k)}}
Lighter(node) == [node EXCEPT !.rounds = @ - 1]

LEMMA TickParts ==
  Tick <=> /\ tick' = Now
           /\ \E kept \in Listings({j \in DOMAIN wheel[Now] : Staying(j)}) :
                wheel' = [wheel EXCEPT ![Now] = [j \in DOMAIN kept |-> Lighter(wheel[Now][kept[j]])]]
           /\ versions' = [i \in Ids |-> IF i \in Ended THEN 0 ELSE versions[i]]
           /\ known' = known \ Ended /\ alive' = alive \ Ended /\ fired' = Ended \intersect alive
           /\ expire' = expire
BY DEF Tick, Now, Ending, Staying, Ended, Lighter

LEMMA NodeTypes ==
  ASSUME TypeOK, NEW s \in Slots
  PROVE  /\ wheel[s] \in Seq(Nodes) /\ Len(wheel[s]) \in Nat /\ DOMAIN wheel[s] = 1..Len(wheel[s])
         /\ \A j \in DOMAIN wheel[s] : wheel[s][j] \in Nodes
<1>1. wheel[s] \in Seq(Nodes)
  BY DEF TypeOK
<1>2. Len(wheel[s]) \in Nat /\ DOMAIN wheel[s] = 1..Len(wheel[s])
  BY <1>1, LenProperties
<1> QED BY <1>1, <1>2, ElementOfSeq

LEMMA TickWheel ==
  ASSUME TypeOK, Tick
  PROVE  /\ Now \in Slots /\ wheel' \in [Slots -> Seq(Nodes)]
         /\ \A s \in Slots \ {Now} : wheel'[s] = wheel[s]
         /\ \E kept : /\ DOMAIN kept = DOMAIN wheel'[Now]
                      /\ \A j \in DOMAIN kept : /\ kept[j] \in DOMAIN wheel[Now] /\ Staying(kept[j])
                                                /\ wheel'[Now][j] = Lighter(wheel[Now][kept[j]])
                      /\ \A k \in DOMAIN wheel[Now] : Staying(k) => \E j \in DOMAIN kept : kept[j] = k
                      /\ \A j, l \in DOMAIN kept : kept[j] = kept[l] => j = l
<1>1. Now \in Slots /\ WheelSize \in Nat \ {0}
  BY WheelAssumption, PointerMoves DEF TypeOK, Slots, Now
<1> DEFINE S == {j \in DOMAIN wheel[Now] : Staying(j)}
<1>2. PICK kept \in Listings(S) :
        wheel' = [wheel EXCEPT ![Now] = [j \in DOMAIN kept |-> Lighter(wheel[Now][kept[j]])]]
  BY TickParts
<1>3. /\ wheel[Now] \in Seq(Nodes) /\ Len(wheel[Now]) \in Nat /\ DOMAIN wheel[Now] = 1..Len(wheel[Now])
      /\ \A j \in DOMAIN wheel[Now] : wheel[Now][j] \in Nodes
  <2>1. PICK s \in Slots : s = Now
    BY <1>1
  <2>2. /\ wheel[s] \in Seq(Nodes) /\ Len(wheel[s]) \in Nat /\ DOMAIN wheel[s] = 1..Len(wheel[s])
        /\ \A j \in DOMAIN wheel[s] : wheel[s][j] \in Nodes
    BY NodeTypes
  <2> QED BY <2>1, <2>2
<1>4. IsFiniteSet(S) /\ Cardinality(S) \in Nat
  <2>1. IsFiniteSet(1..Len(wheel[Now]))
    <3>1. \A n \in Nat : IsFiniteSet(1..n)
      BY FS_Interval
    <3> QED BY <1>3, <3>1
  <2>2. S \subseteq 1..Len(wheel[Now])
    BY <1>3
  <2> QED BY <2>1, <2>2, FS_Subset, FS_CardinalityType
<1>5. /\ kept \in [1..Cardinality(S) -> S] /\ \A x \in S : \E i \in DOMAIN kept : kept[i] = x
      /\ \A i, j \in DOMAIN kept : i < j => kept[i] < kept[j]
  BY DEF Listings
<1>6. \A j \in DOMAIN kept : kept[j] \in DOMAIN wheel[Now] /\ Staying(kept[j]) /\ kept[j] \in Nat
  BY <1>3, <1>5
<1>7. \A j, l \in DOMAIN kept : kept[j] = kept[l] => j = l
  <2> SUFFICES ASSUME NEW j \in DOMAIN kept, NEW l \in DOMAIN kept, kept[j] = kept[l], j # l PROVE FALSE
    OBVIOUS
  <2>1. j \in Nat /\ l \in Nat /\ (j < l \/ l < j)
    BY <1>4, <1>5
  <2>2. kept[j] < kept[l] \/ kept[l] < kept[j]
    BY <1>5, <2>1
  <2> QED BY <1>6, <2>2
<1> DEFINE left == [j \in DOMAIN kept |-> Lighter(wheel[Now][kept[j]])]
<1>8. /\ wheel'[Now] = left /\ \A s \in Slots \ {Now} : wheel'[s] = wheel[s]
      /\ wheel' = [wheel EXCEPT ![Now] = left]
  BY <1>1, <1>2 DEF TypeOK
<1>9. left \in Seq(Nodes)
  <2>1. \A j \in DOMAIN kept : Lighter(wheel[Now][kept[j]]) \in Nodes
    <3> TAKE j \in DOMAIN kept
    <3>1. wheel[Now][kept[j]] \in Nodes /\ wheel[Now][kept[j]].rounds > 0
      BY <1>3, <1>6 DEF Staying
    <3> QED BY <3>1 DEF Nodes, Lighter
  <2>2. left \in [1..Cardinality(S) -> Nodes]
    BY <1>5, <2>1
  <2>3. PICK n \in Nat : n = Cardinality(S)
    BY <1>4
  <2>4. left \in [1..n -> Nodes]
    BY <2>2, <2>3
  <2> HIDE DEF left
  <2> QED BY <2>4, IsASeq
<1>10. wheel' \in [Slots -> Seq(Nodes)]
  BY <1>8, <1>9 DEF TypeOK
<1>11. DOMAIN kept = DOMAIN wheel'[Now] /\ \A j \in DOMAIN kept : wheel'[Now][j] = Lighter(wheel[Now][kept[j]])
  BY <1>8
<1> HIDE DEF S, left
<1>12. \A k \in DOMAIN wheel[Now] : Staying(k) => \E j \in DOMAIN kept : kept[j] = k
  BY <1>5 DEF S
<1> QED BY <1>1, <1>6, <1>7, <1>8, <1>10, <1>11, <1>12

LEMMA LighterNode ==
  ASSUME NEW node \in Nodes, node.rounds > 0
  PROVE  /\ Lighter(node).id = node.id /\ Lighter(node).version = node.version
         /\ Lighter(node).rounds = node.rounds - 1 /\ node.rounds - 1 \in Nat
BY DEF Nodes, Lighter

(* Every known task comes one tick nearer to its end, and ends at its tick. *)
LEMMA TickKeepsWheel ==
  ASSUME TypeOK, WheelInv, Tick
  PROVE  /\ Ended \subseteq known
         /\ \A i \in known : \A d \in Nat \ {0} : DueIn(tick, wheel, versions, i, d) =>
              /\ i \in Ended <=> d = 1
              /\ i \notin Ended => d - 1 \in Nat \ {0} /\ DueIn(tick', wheel', versions', i, d - 1)
         /\ \A s \in Slots : \A j \in DOMAIN wheel'[s] : \E k \in DOMAIN wheel[s] :
              wheel'[s][j].id = wheel[s][k].id /\ wheel'[s][j].version = wheel[s][k].version
<1>1. Now \in Slots /\ \A s \in Slots \ {Now} : wheel'[s] = wheel[s]
  BY TickWheel
<1>2. PICK kept :
        /\ DOMAIN kept = DOMAIN wheel'[Now]
        /\ \A j \in DOMAIN kept : /\ kept[j] \in DOMAIN wheel[Now] /\ Staying(kept[j])
                                  /\ wheel'[Now][j] = Lighter(wheel[Now][kept[j]])
        /\ \A k \in DOMAIN wheel[Now] : Staying(k) => \E j \in DOMAIN kept : kept[j] = k
        /\ \A j, l \in DOMAIN kept : kept[j] = kept[l] => j = l
  BY TickWheel
<1>3. \A j \in DOMAIN wheel[Now] : wheel[Now][j] \in Nodes
  BY <1>1, NodeTypes
<1>4. \A j \in DOMAIN kept : /\ wheel'[Now][j].id = wheel[Now][kept[j]].id
                             /\ wheel'[Now][j].version = wheel[Now][kept[j]].version
                             /\ wheel'[Now][j].rounds = wheel[Now][kept[j]].rounds - 1
                             /\ wheel[Now][kept[j]].rounds - 1 \in Nat
  <2> TAKE j \in DOMAIN kept
  <2>1. wheel[Now][kept[j]] \in Nodes /\ wheel[Now][kept[j]].rounds > 0
    BY <1>2, <1>3 DEF Staying
  <2> QED BY <1>2, <2>1, LighterNode
<1>5. Ended \subseteq known
  <2> SUFFICES ASSUME NEW j \in DOMAIN wheel[Now], Ending(j) PROVE wheel[Now][j].id \in known
    BY DEF Ended
  <2>1. wheel[Now][j].id \in Ids /\ wheel[Now][j].version # 0
    BY <1>1, <1>3 DEF WheelInv, NodesOld, Nodes
  <2> QED BY <2>1 DEF Ending, WheelInv, UnknownFresh
<1>6. \A s \in Slots : \A j \in DOMAIN wheel'[s] : \E k \in DOMAIN wheel[s] :
        wheel'[s][j].id = wheel[s][k].id /\ wheel'[s][j].version = wheel[s][k].version
  BY <1>1, <1>2, <1>4
<1>7. ASSUME NEW i \in known, NEW d \in Nat \ {0}, DueIn(tick, wheel, versions, i, d)
      PROVE  /\ i \in Ended <=> d = 1
             /\ i \notin Ended => d - 1 \in Nat \ {0} /\ DueIn(tick', wheel', versions', i, d - 1)
  <2>s. PICK s \in Slots : \E j \in DOMAIN wheel[s] :
          /\ Counts(wheel, versions, i, s, j)
          /\ \A r \in Slots : \A l \in DOMAIN wheel[r] : Counts(wheel, versions, i, r, l) => r = s /\ l = j
          /\ d = TicksFrom(tick, s) + wheel[s][j].rounds * WheelSize
    BY <1>7 DEF DueIn
  <2>1. PICK j \in DOMAIN wheel[s] :
          /\ Counts(wheel, versions, i, s, j)
          /\ \A r \in Slots : \A l \in DOMAIN wheel[r] : Counts(wheel, versions, i, r, l) => r = s /\ l = j
          /\ d = TicksFrom(tick, s) + wheel[s][j].rounds * WheelSize
    BY <2>s
  <2>2. wheel[s][j] \in Nodes /\ wheel[s][j].rounds \in Nat
    BY NodeTypes DEF Nodes
  <2>3. /\ s # Now => TicksFrom(Now, s) = TicksFrom(tick, s) - 1 /\ TicksFrom(tick, s) > 1
        /\ s = Now => TicksFrom(Now, s) = WheelSize /\ TicksFrom(tick, s) = 1
        /\ WheelSize \in Nat \ {0} /\ TicksFrom(tick, s) \in Nat
    <3>1. WheelSize \in Nat \ {0} /\ tick \in 0..(WheelSize - 1) /\ s \in 0..(WheelSize - 1)
      BY WheelAssumption DEF TypeOK, Slots
    <3> QED BY <3>1, PointerMoves DEF Now, TicksFrom
  <2>4. PICK p \in Nat : /\ wheel[s][j].rounds * WheelSize = p
                         /\ wheel[s][j].rounds = 0 => p = 0
                         /\ wheel[s][j].rounds > 0 => p >= WheelSize /\ (wheel[s][j].rounds - 1) * WheelSize = p - WheelSize
    <3>1. \A n \in Nat, w \in Nat \ {0} : /\ n * w \in Nat /\ (n = 0 => n * w = 0)
                                         /\ n > 0 => n * w >= w /\ (n - 1) * w = n * w - w
      <4> TAKE n \in Nat, w \in Nat \ {0}
      <4>1. n * w \in Nat /\ (n = 0 => n * w = 0)
        OBVIOUS
      <4>2. ASSUME n > 0 PROVE n * w >= w /\ (n - 1) * w = n * w - w
        <5>1. PICK m \in Nat : n = m + 1
          BY <4>2
        <5>2. (m + 1) * w = m * w + w /\ m * w \in Nat
          OBVIOUS
        <5>3. n - 1 = m
          BY <5>1
        <5> QED BY <5>1, <5>2, <5>3
      <4> QED BY <4>1, <4>2
    <3> QED BY <2>2, <2>3, <3>1
  <2>5. i \in Ended <=> s = Now /\ wheel[s][j].rounds = 0
    <3>1. ASSUME i \in Ended PROVE s = Now /\ wheel[s][j].rounds = 0
      <4>1. PICK k \in DOMAIN wheel[Now] : Ending(k) /\ wheel[Now][k].id = i
        BY <3>1 DEF Ended
      <4>2. Counts(wheel, versions, i, Now, k)
        BY <4>1 DEF Ending, Counts
      <4> QED BY <1>1, <2>1, <4>1, <4>2 DEF Ending
    <3>2. ASSUME s = Now, wheel[s][j].rounds = 0 PROVE i \in Ended
      BY <2>1, <3>2 DEF Ended, Ending, Counts
    <3> QED BY <3>1, <3>2
  <2>6. i \in Ended <=> d = 1
    BY <2>1, <2>2, <2>3, <2>4, <2>5
  <2>7. ASSUME i \notin Ended PROVE DueIn(tick', wheel', versions', i, d - 1)
    <3>1. i \in Ids /\ versions'[i] = versions[i] /\ tick' = Now
      BY <2>7, TickParts DEF TypeOK
    <3>2. ASSUME NEW l \in DOMAIN kept, Counts(wheel', versions', i, Now, l)
          PROVE  s = Now /\ kept[l] = j
      <4>1. Counts(wheel, versions, i, Now, kept[l])
        BY <1>4, <3>1, <3>2 DEF Counts
      <4> QED BY <1>1, <1>2, <2>1, <4>1
    <3>3. ASSUME NEW r \in Slots, NEW l \in DOMAIN wheel'[r], r # Now, Counts(wheel', versions', i, r, l)
          PROVE  r = s /\ l = j
      <4>1. wheel'[r] = wheel[r]
        BY <1>1, <3>3
      <4>2. Counts(wheel, versions, i, r, l)
        BY <3>1, <3>3, <4>1 DEF Counts
      <4> QED BY <2>1, <3>3, <4>1, <4>2
    <3>4. CASE s # Now
      <4>1. j \in DOMAIN wheel'[s] /\ wheel'[s][j] = wheel[s][j] /\ Counts(wheel', versions', i, s, j)
        BY <1>1, <2>1, <3>1, <3>4 DEF Counts
      <4>2. \A r \in Slots : \A l \in DOMAIN wheel'[r] : Counts(wheel', versions', i, r, l) => r = s /\ l = j
        BY <1>2, <3>2, <3>3, <3>4
      <4>3. d - 1 = TicksFrom(tick', s) + wheel'[s][j].rounds * WheelSize
        BY <2>1, <2>3, <2>4, <3>1, <3>4, <4>1
      <4> QED BY <4>1, <4>2, <4>3 DEF DueIn
    <3>5. CASE s = Now
      <4>1. wheel[Now][j].rounds > 0 /\ wheel[Now][j].id = i /\ wheel[Now][j].version = versions[i]
        BY <2>1, <2>2, <2>5, <2>7, <3>5 DEF Counts
      <4>2. Staying(j)
        <5>1. ASSUME NEW k \in 1..(j - 1), wheel[Now][k].id = i, Ending(k) PROVE FALSE
          <6>1. DOMAIN wheel[Now] = 1..Len(wheel[Now]) /\ Len(wheel[Now]) \in Nat
            BY <1>1, NodeTypes
          <6>2. k \in DOMAIN wheel[Now] /\ k # j
            BY <3>5, <6>1
          <6>3. Counts(wheel, versions, i, Now, k)
            BY <5>1 DEF Ending, Counts
          <6> QED BY <1>1, <2>1, <6>2, <6>3
        <5> QED BY <4>1, <5>1 DEF Staying
      <4>3. PICK m \in DOMAIN kept : kept[m] = j
        BY <1>2, <3>5, <4>2
      <4>4. m \in DOMAIN wheel'[s] /\ Counts(wheel', versions', i, s, m) /\ wheel'[s][m].rounds = wheel[s][j].rounds - 1
        BY <1>2, <1>4, <3>1, <3>5, <4>1, <4>3 DEF Counts
      <4>5. \A r \in Slots : \A l \in DOMAIN wheel'[r] : Counts(wheel', versions', i, r, l) => r = s /\ l = m
        BY <1>2, <3>2, <3>3, <3>5, <4>3
      <4>6. d - 1 = TicksFrom(tick', s) + wheel'[s][m].rounds * WheelSize
        BY <2>1, <2>2, <2>3, <2>4, <3>1, <3>5, <4>1, <4>4
      <4> QED BY <4>4, <4>5, <4>6 DEF DueIn
    <3> QED BY <3>4, <3>5
  <2> QED BY <2>6, <2>7
<1> QED BY <1>5, <1>6, <1>7

-----------------------------------------------------------------------------
(* The operations on a connection, where no id is added a second time.      *)
Guarded == Users # "any"

(* The timer's promise, of the deadlines the wheel holds. *)
Left == [i \in Ids |-> IF i \in known THEN Deadline(i) ELSE NoDeadline]
Mapped == [Deadlines!Next]_<<Left, known \ alive, fired>>

(* What each operation does to the wheel: it pushes a node, it turns it, or *)
(* it leaves it alone.                                                      *)
Pushed(c, t) ==
  /\ c \in Ids /\ t \in Timeouts /\ Push(c, t) /\ tick' = tick
  /\ c \in known \/ conn[c] = "new"
  /\ known' = known \union {c} /\ fired' = {}
  /\ alive' = IF c \in known THEN alive ELSE alive \union {c}
  /\ conn'[c] # "new" /\ \A i \in Ids : conn[i] # "new" => conn'[i] # "new"
Untouched ==
  /\ UNCHANGED <<tick, wheel, versions, known>>
  /\ alive' = alive \/ \E c \in known : alive' = alive \ {c}
  /\ fired' = {}
  /\ \A i \in Ids : conn[i] # "new" => conn'[i] # "new"
Turned == Tick /\ \A i \in Ids : conn[i] # "new" => conn'[i] # "new"

LEMMA Operations ==
  ASSUME Guarded, TypeOK, WheelInv, Next
  PROVE  /\ (\E c \in Ids, t \in Timeouts : Pushed(c, t)) \/ Untouched \/ Turned
         /\ expire' \in [Ids -> Nat] /\ conn' \in [Ids -> {"new", "up", "released"}] /\ on' \subseteq Ids
         /\ limit' \in [Ids -> Nat] /\ idle' \in [Ids -> Nat]
<1> USE DEF TypeOK
<1>1. ASSUME NEW c \in Ids, NEW t \in Timeouts, Enable(c, t), c \in known \/ conn[c] = "new"
      PROVE  /\ Push(c, t) /\ tick' = tick /\ known' = known \union {c} /\ fired' = {}
             /\ alive' = IF c \in known THEN alive ELSE alive \union {c}
             /\ expire' \in [Ids -> Nat] /\ on' \subseteq Ids /\ limit' \in [Ids -> Nat] /\ idle' \in [Ids -> Nat]
  <2>1. t \in Nat \ {0}
    BY InactivityAssumption
  <2>2. on' \subseteq Ids /\ limit' \in [Ids -> Nat] /\ idle' \in [Ids -> Nat]
    BY <1>1, <2>1 DEF Enable
  <2>3. CASE c \in known
    <3>1. Refresh(c, t) /\ t # 0
      BY <1>1, <2>1, <2>3 DEF Enable, Find
    <3>2. Push(c, t) /\ UNCHANGED <<tick, known, alive, expire>> /\ fired' = {}
      BY <2>3, <3>1 DEF Refresh
    <3>3. expire' \in [Ids -> Nat] /\ known \union {c} = known
      BY <2>1, <2>3, <3>2
    <3> QED BY <2>2, <2>3, <3>2, <3>3
  <2>4. CASE c \notin known
    <3>1. Add(c, t) /\ t # 0
      BY <1>1, <2>1, <2>4 DEF Enable, Find
    <3>2. /\ Push(c, t) /\ tick' = tick /\ expire' = [expire EXCEPT ![c] = t]
          /\ known' = known \union {c} /\ alive' = alive \union {c} /\ fired' = {c} \intersect alive
      BY <3>1 DEF Add
    <3>3. expire' \in [Ids -> Nat] /\ fired' = {}
      BY <2>1, <2>4, <3>2
    <3> QED BY <2>2, <2>4, <3>2, <3>3
  <2> QED BY <2>3, <2>4
<1>2. ASSUME NEW c \in Ids, NEW t \in Timeouts, Accept(c, t)
      PROVE  Pushed(c, t) /\ expire' \in [Ids -> Nat] /\ conn' \in [Ids -> {"new", "up", "released"}]
             /\ on' \subseteq Ids /\ limit' \in [Ids -> Nat] /\ idle' \in [Ids -> Nat]
  <2>1. conn[c] = "new" /\ Enable(c, t) /\ conn' = [conn EXCEPT ![c] = "up"]
    BY <1>2 DEF Accept
  <2> QED BY <1>1, <2>1 DEF Pushed
<1>3. ASSUME NEW c \in Ids, NEW t \in Timeouts, SetAgain(c, t)
      PROVE  Pushed(c, t) /\ expire' \in [Ids -> Nat] /\ conn' \in [Ids -> {"new", "up", "released"}]
             /\ on' \subseteq Ids /\ limit' \in [Ids -> Nat] /\ idle' \in [Ids -> Nat]
  <2>1. conn[c] = "up" /\ c \in known /\ Enable(c, t) /\ conn' = conn
    BY <1>3 DEF SetAgain, Guarded, Find
  <2> QED BY <1>1, <2>1 DEF Pushed
<1>4. ASSUME NEW c \in Ids, Cancel(c)
      PROVE  /\ UNCHANGED <<tick, wheel, versions, known, expire>> /\ fired' = {}
             /\ alive' = alive \/ \E k \in known : alive' = alive \ {k}
  BY <1>4 DEF Cancel
<1>5. ASSUME NEW c \in Ids, Disable(c)
      PROVE  Untouched /\ expire' \in [Ids -> Nat] /\ conn' \in [Ids -> {"new", "up", "released"}]
             /\ on' \subseteq Ids /\ limit' \in [Ids -> Nat] /\ idle' \in [Ids -> Nat]
  BY <1>4, <1>5 DEF Disable, Untouched
<1>6. ASSUME NEW c \in Ids, Event(c)
      PROVE  Untouched /\ expire' \in [Ids -> Nat] /\ conn' \in [Ids -> {"new", "up", "released"}]
             /\ on' \subseteq Ids /\ limit' \in [Ids -> Nat] /\ idle' \in [Ids -> Nat]
  <2>1. /\ fired' = {} /\ UNCHANGED <<tick, wheel, versions, known, alive, expire>>
    BY <1>6 DEF Event, ReachesEventAction, Reported
  <2>2. UNCHANGED <<conn, on, limit>> /\ idle' = [idle EXCEPT ![c] = 0]
    BY <1>6 DEF Event
  <2> QED BY <2>1, <2>2 DEF Untouched
<1>7. ASSUME NEW c \in Ids, Close(c)
      PROVE  Untouched /\ expire' \in [Ids -> Nat] /\ conn' \in [Ids -> {"new", "up", "released"}]
             /\ on' \subseteq Ids /\ limit' \in [Ids -> Nat] /\ idle' \in [Ids -> Nat]
  <2>1. /\ UNCHANGED <<tick, wheel, versions, known, expire>> /\ fired' = {}
        /\ alive' = alive \/ \E k \in known : alive' = alive \ {k}
    BY <1>4, <1>7 DEF Close
  <2>2. /\ conn' = [conn EXCEPT ![c] = "released"] /\ UNCHANGED <<on, limit>>
        /\ idle' = [idle EXCEPT ![c] = 0]
    BY <1>7 DEF Close
  <2> QED BY <2>1, <2>2 DEF Untouched
<1>8. CASE Second
  <2>1. /\ Tick /\ UNCHANGED <<on, limit>>
        /\ conn' = [c \in Ids |-> IF c \in fired' THEN "released" ELSE conn[c]]
        /\ idle' = [c \in Ids |-> IF conn[c] = "up" /\ idle[c] < Longest THEN idle[c] + 1 ELSE idle[c]]
    BY <1>8 DEF Second
  <2>2. expire' = expire
    BY <2>1, TickParts
  <2> QED BY <2>1, <2>2 DEF Turned
<1> QED BY <1>2, <1>3, <1>5, <1>6, <1>7, <1>8 DEF Next

LEMMA WheelAloneStep ==
  ASSUME UNCHANGED <<tick, wheel, versions>>, NEW i
  PROVE  /\ Deadline(i)' = Deadline(i)
         /\ \A d : DueIn(tick, wheel, versions, i, d) => DueIn(tick', wheel', versions', i, d)
BY DEF Deadline, Counting, TicksTo

LEMMA DeadlinesKnown ==
  ASSUME WheelInv, NEW i \in known
  PROVE  Deadline(i) \in Nat \ {0} /\ Deadline(i) # NoDeadline /\ DueIn(tick, wheel, versions, i, Deadline(i))
<1>1. PICK d \in Nat \ {0} : DueIn(tick, wheel, versions, i, d)
  BY DEF WheelInv, KnownDue
<1>2. Deadline(i) = d
  BY <1>1, DueDeadline
<1> QED BY <1>1, <1>2, InactivityAssumption

(* A push keeps the invariant and sets one deadline. *)
LEMMA PushedStep ==
  ASSUME TypeOK, WheelInv, NEW c, NEW t, Pushed(c, t)
  PROVE  /\ tick' \in Slots /\ wheel' \in [Slots -> Seq(Nodes)] /\ versions' \in [Ids -> Nat]
         /\ known' \subseteq Ids /\ alive' \subseteq known' /\ fired' \subseteq Ids
         /\ WheelInv' /\ Mapped
<1>1. c \in Ids /\ t \in Nat \ {0} /\ Push(c, t) /\ tick' = tick /\ (c \in known \/ conn[c] = "new")
  BY InactivityAssumption DEF Pushed
<1>2. /\ wheel' \in [Slots -> Seq(Nodes)] /\ versions' \in [Ids -> Nat]
      /\ versions'[c] = versions[c] + 1 /\ \A k \in Ids \ {c} : versions'[k] = versions[k]
      /\ \A s \in Slots : \A j \in DOMAIN wheel'[s] :
           \/ wheel'[s][j].id = c /\ wheel'[s][j].version = versions'[c]
           \/ j \in DOMAIN wheel[s] /\ wheel'[s][j] = wheel[s][j]
      /\ DueIn(tick', wheel', versions', c, t)
      /\ \A k \in Ids \ {c} : \A d : DueIn(tick, wheel, versions, k, d) => DueIn(tick', wheel', versions', k, d)
  BY <1>1, PushKeepsWheel
<1>3. /\ tick' \in Slots /\ known' \subseteq Ids /\ alive' \subseteq known' /\ fired' \subseteq Ids
  BY <1>1 DEF Pushed, TypeOK
<1>4. NodesOld'
  <2> SUFFICES ASSUME NEW s \in Slots, NEW j \in DOMAIN wheel'[s]
               PROVE  /\ wheel'[s][j].version > 0 /\ conn'[wheel'[s][j].id] # "new"
                      /\ wheel'[s][j].id \in known' => wheel'[s][j].version <= versions'[wheel'[s][j].id]
    BY DEF NodesOld
  <2>1. CASE wheel'[s][j].id = c /\ wheel'[s][j].version = versions'[c]
    BY <1>1, <1>2, <2>1 DEF Pushed, TypeOK
  <2>2. CASE j \in DOMAIN wheel[s] /\ wheel'[s][j] = wheel[s][j]
    <3>1. /\ wheel[s][j].version > 0 /\ conn[wheel[s][j].id] # "new"
          /\ wheel[s][j].id \in known => wheel[s][j].version <= versions[wheel[s][j].id]
          /\ wheel[s][j].id \in Ids /\ wheel[s][j].version \in Nat
      BY <2>2, NodeTypes DEF WheelInv, NodesOld, Nodes
    <3>2. wheel[s][j].id = c => c \in known
      BY <1>1, <3>1
    <3>3. wheel[s][j].id \in known' => wheel[s][j].id \in known
      <4>1. known' = known \union {c}
        BY DEF Pushed
      <4> QED BY <3>2, <4>1
    <3>4. versions[wheel[s][j].id] \in Nat /\ versions[wheel[s][j].id] <= versions'[wheel[s][j].id]
      <4>1. versions[c] \in Nat /\ versions[wheel[s][j].id] \in Nat
        BY <1>1, <3>1 DEF TypeOK
      <4>2. CASE wheel[s][j].id = c
        BY <1>2, <4>1, <4>2
      <4>3. CASE wheel[s][j].id # c
        BY <1>2, <3>1, <4>1, <4>3
      <4> QED BY <4>2, <4>3
    <3>5. versions'[wheel[s][j].id] \in Nat
      BY <1>2, <3>1
    <3> QED BY <2>2, <3>1, <3>3, <3>4, <3>5 DEF Pushed
  <2> QED BY <1>2, <2>1, <2>2
<1>5. KnownDue'
  <2> SUFFICES ASSUME NEW i \in known' PROVE conn'[i] # "new" /\ \E d \in Nat \ {0} : DueIn(tick', wheel', versions', i, d)
    BY DEF KnownDue
  <2>1. CASE i = c
    BY <1>1, <1>2, <2>1 DEF Pushed
  <2>2. CASE i # c
    <3>1. i \in known /\ i \in Ids
      BY <2>2 DEF Pushed, TypeOK
    <3> QED BY <1>2, <2>2, <3>1 DEF WheelInv, KnownDue, Pushed
  <2> QED BY <2>1, <2>2
<1>6. UnknownFresh'
  BY <1>2 DEF WheelInv, UnknownFresh, Pushed
<1>7. Left' = [Left EXCEPT ![c] = t] /\ Left[c] = IF c \in known THEN Deadline(c) ELSE NoDeadline
  <2>1. Deadline(c)' = t
    BY <1>2, DueDeadline
  <2>2. \A i \in Ids \ {c} : i \in known => Deadline(i)' = Deadline(i)
    BY <1>2, DeadlinesKnown, DueDeadline
  <2>3. c \in known' /\ \A i \in Ids \ {c} : i \in known' <=> i \in known
    BY DEF Pushed
  <2> QED BY <1>1, <2>1, <2>2, <2>3 DEF Left
<1>8. CASE c \in known
  <2>1. Left[c] # NoDeadline /\ (known \ alive)' = known \ alive /\ fired' = {}
    BY <1>7, <1>8, DeadlinesKnown DEF Pushed
  <2>2. Deadlines!Refresh(c, t)
    BY <1>7, <2>1 DEF Deadlines!Refresh, Deadlines!Known, Left
  <2> QED BY <1>2, <1>3, <1>4, <1>5, <1>6, <2>2 DEF Mapped, Deadlines!Next, Pushed, WheelInv
<1>9. CASE c \notin known
  <2>1. Left[c] = NoDeadline /\ (known \ alive)' = known \ alive /\ fired' = {}
    BY <1>7, <1>9 DEF Pushed, TypeOK
  <2>2. Deadlines!Add(c, t)
    BY <1>7, <2>1 DEF Deadlines!Add, Deadlines!Known, Left
  <2> QED BY <1>2, <1>3, <1>4, <1>5, <1>6, <2>2 DEF Mapped, Deadlines!Next, Pushed, WheelInv
<1> QED BY <1>8, <1>9

LEMMA UntouchedStep ==
  ASSUME TypeOK, WheelInv, Untouched
  PROVE  /\ tick' \in Slots /\ wheel' \in [Slots -> Seq(Nodes)] /\ versions' \in [Ids -> Nat]
         /\ known' \subseteq Ids /\ alive' \subseteq known' /\ fired' \subseteq Ids
         /\ WheelInv' /\ Mapped
<1>1. /\ tick' \in Slots /\ wheel' \in [Slots -> Seq(Nodes)] /\ versions' \in [Ids -> Nat]
      /\ known' \subseteq Ids /\ alive' \subseteq known' /\ fired' \subseteq Ids
  BY DEF Untouched, TypeOK
<1>2. NodesOld'
  <2> SUFFICES ASSUME NEW s \in Slots, NEW j \in DOMAIN wheel[s] PROVE conn'[wheel[s][j].id] # "new"
    BY DEF NodesOld, WheelInv, Untouched
  <2> QED BY NodeTypes DEF Nodes, NodesOld, WheelInv, Untouched
<1>3. KnownDue'
  BY WheelAloneStep DEF KnownDue, WheelInv, Untouched, TypeOK
<1>4. UnknownFresh'
  BY DEF UnknownFresh, WheelInv, Untouched
<1>5. Left' = Left
  BY WheelAloneStep DEF Left, Untouched
<1>6. CASE alive' = alive
  <2>1. Deadlines!Other
    BY <1>5, <1>6 DEF Deadlines!Other, Left, Untouched
  <2> QED BY <1>1, <1>2, <1>3, <1>4, <2>1 DEF Mapped, Deadlines!Next, WheelInv
<1>7. ASSUME NEW c \in known, alive' = alive \ {c}
      PROVE  Deadlines!Cancel(c)
  <2>1. (known \ alive)' = (known \ alive) \union {c} /\ fired' = {}
    BY <1>7 DEF Untouched
  <2>2. Left[c] # NoDeadline
    BY DeadlinesKnown DEF Left, TypeOK
  <2> QED BY <1>5, <2>1, <2>2 DEF Deadlines!Cancel, Deadlines!Known, Left
<1>8. CASE \E c \in known : alive' = alive \ {c}
  <2>1. \E c \in Ids : Deadlines!Cancel(c)
    BY <1>7, <1>8 DEF TypeOK
  <2> QED BY <1>1, <1>2, <1>3, <1>4, <2>1 DEF Mapped, Deadlines!Next, WheelInv
<1> QED BY <1>6, <1>8 DEF Untouched

LEMMA TurnedStep ==
  ASSUME TypeOK, WheelInv, Turned
  PROVE  /\ tick' \in Slots /\ wheel' \in [Slots -> Seq(Nodes)] /\ versions' \in [Ids -> Nat]
         /\ known' \subseteq Ids /\ alive' \subseteq known' /\ fired' \subseteq Ids
         /\ WheelInv' /\ Mapped
<1>0. Tick
  BY DEF Turned
<1>1. /\ tick' = Now /\ known' = known \ Ended /\ alive' = alive \ Ended /\ fired' = Ended \intersect alive
      /\ versions' = [i \in Ids |-> IF i \in Ended THEN 0 ELSE versions[i]]
  BY <1>0, TickParts
<1>2. /\ Ended \subseteq known
      /\ \A i \in known : \A d \in Nat \ {0} : DueIn(tick, wheel, versions, i, d) =>
           /\ i \in Ended <=> d = 1
           /\ i \notin Ended => d - 1 \in Nat \ {0} /\ DueIn(tick', wheel', versions', i, d - 1)
      /\ \A s \in Slots : \A j \in DOMAIN wheel'[s] : \E k \in DOMAIN wheel[s] :
           wheel'[s][j].id = wheel[s][k].id /\ wheel'[s][j].version = wheel[s][k].version
  <2>1. \A i \in known : \A d \in Nat \ {0} : DueIn(tick, wheel, versions, i, d) /\ i \notin Ended => d - 1 \in Nat \ {0}
    BY <1>0, TickKeepsWheel
  <2> QED BY <1>0, <2>1, TickKeepsWheel
<1>3. /\ tick' \in Slots /\ wheel' \in [Slots -> Seq(Nodes)] /\ versions' \in [Ids -> Nat]
      /\ known' \subseteq Ids /\ alive' \subseteq known' /\ fired' \subseteq Ids
  <2>1. Now \in Slots /\ wheel' \in [Slots -> Seq(Nodes)]
    BY <1>0, TickWheel
  <2> QED BY <1>1, <2>1 DEF TypeOK
<1>4. NodesOld'
  <2> SUFFICES ASSUME NEW s \in Slots, NEW j \in DOMAIN wheel'[s]
               PROVE  /\ wheel'[s][j].version > 0 /\ conn'[wheel'[s][j].id] # "new"
                      /\ wheel'[s][j].id \in known' => wheel'[s][j].version <= versions'[wheel'[s][j].id]
    BY DEF NodesOld
  <2>1. PICK k \in DOMAIN wheel[s] : wheel'[s][j].id = wheel[s][k].id /\ wheel'[s][j].version = wheel[s][k].version
    BY <1>2
  <2>2. wheel[s][k].id \in Ids
    BY NodeTypes DEF Nodes
  <2> QED BY <1>1, <2>1, <2>2 DEF NodesOld, WheelInv, Turned
<1>5. KnownDue'
  <2> SUFFICES ASSUME NEW i \in known' PROVE conn'[i] # "new" /\ \E d \in Nat \ {0} : DueIn(tick', wheel', versions', i, d)
    BY DEF KnownDue
  <2>1. i \in known /\ i \notin Ended /\ i \in Ids
    BY <1>1 DEF TypeOK
  <2> QED BY <1>2, <2>1 DEF KnownDue, WheelInv, Turned
<1>6. UnknownFresh'
  BY <1>1 DEF UnknownFresh, WheelInv
<1>7. \A i \in Ids : i \in known <=> Left[i] # NoDeadline
  BY DeadlinesKnown DEF Left
<1>8. \A i \in Ids : i \in Ended <=> Left[i] = 1
  <2>1. \A i \in Ids : i \in known => (i \in Ended <=> Left[i] = 1)
    BY <1>2, DeadlinesKnown DEF Left
  <2>2. NoDeadline # 1
    BY InactivityAssumption
  <2> QED BY <1>2, <1>7, <2>1, <2>2
<1>9. Left' = [i \in Ids |-> IF ~(Left[i] # NoDeadline) \/ i \in Ended THEN NoDeadline ELSE Left[i] - 1]
  <2>1. ASSUME NEW i \in Ids, i \in known, i \notin Ended PROVE Deadline(i)' = Left[i] - 1
    BY <1>2, <2>1, DeadlinesKnown, DueDeadline DEF Left
  <2> QED BY <1>1, <1>7, <2>1 DEF Left
<1>10. Deadlines!Tick
  <2>1. {i \in Ids : Left[i] = 1} = Ended
    BY <1>2, <1>8 DEF TypeOK
  <2>2. fired' = Ended \ (known \ alive) /\ (known \ alive)' = (known \ alive) \ Ended
    BY <1>1, <1>2
  <2> QED BY <1>9, <2>1, <2>2 DEF Deadlines!Tick, Deadlines!Known, Left
<1> QED BY <1>3, <1>4, <1>5, <1>6, <1>10 DEF Mapped, Deadlines!Next, WheelInv

-----------------------------------------------------------------------------
LEMMA TimerInit == Init => TypeOK /\ WheelInv /\ Deadlines!Init
<1> SUFFICES ASSUME Init PROVE TypeOK /\ WheelInv /\ Deadlines!Init
  OBVIOUS
<1>1. TypeOK
  BY WheelAssumption DEF Init, WheelInit, TypeOK, Slots
<1>2. WheelInv
  BY DEF Init, WheelInit, WheelInv, NodesOld, KnownDue, UnknownFresh
<1>3. Deadlines!Init
  BY DEF Init, WheelInit, Deadlines!Init
<1> QED BY <1>1, <1>2, <1>3

LEMMA TimerStep ==
  ASSUME Guarded
  PROVE  TypeOK /\ WheelInv /\ [Next]_vars => TypeOK' /\ WheelInv' /\ Mapped
<1> SUFFICES ASSUME TypeOK, WheelInv, [Next]_vars PROVE TypeOK' /\ WheelInv' /\ Mapped
  OBVIOUS
<1>1. CASE Next
  <2>1. /\ tick' \in Slots /\ wheel' \in [Slots -> Seq(Nodes)] /\ versions' \in [Ids -> Nat]
        /\ known' \subseteq Ids /\ alive' \subseteq known' /\ fired' \subseteq Ids
        /\ WheelInv' /\ Mapped
    BY <1>1, Operations, PushedStep, UntouchedStep, TurnedStep
  <2> QED BY <1>1, <2>1, Operations DEF TypeOK
<1>2. CASE UNCHANGED vars
  <2>1. UNCHANGED <<tick, wheel, versions, known, alive, expire, fired, conn, on, limit, idle>>
    BY <1>2 DEF vars, wheelVars
  <2>2. TypeOK'
    BY <2>1 DEF TypeOK
  <2>3. WheelInv'
    <3>1. NodesOld' /\ UnknownFresh'
      BY <2>1 DEF WheelInv, NodesOld, UnknownFresh
    <3>2. KnownDue'
      BY <2>1 DEF WheelInv, KnownDue
    <3> QED BY <3>1, <3>2 DEF WheelInv
  <2>4. Left' = Left
    BY <2>1, WheelAloneStep DEF Left
  <2> QED BY <2>1, <2>2, <2>3, <2>4 DEF Mapped
<1> QED BY <1>1, <1>2

(* Every value the wheel, the maps and the connections take has its type.   *)
THEOREM InactivityTypes ==
  ASSUME Guarded
  PROVE  Spec => []TypeOK
BY TimerInit, TimerStep, PTL DEF Spec

(* A task in the map is waited for by exactly one node of the wheel, over   *)
(* refreshes, cancellations and turns (timer.cpp:23-110).                   *)
THEOREM OneNodeWaits ==
  ASSUME Guarded
  PROVE  Spec => []OneNodeCounts
<1>1. TypeOK /\ WheelInv => OneNodeCounts
  <2> SUFFICES ASSUME TypeOK, WheelInv, NEW i \in Ids
               PROVE  Cardinality(Counting(i)) = IF i \in known THEN 1 ELSE 0
    BY DEF OneNodeCounts
  <2>1. CASE i \in known
    BY <2>1, DeadlinesKnown, DueDeadline
  <2>2. CASE i \notin known
    <3>1. versions[i] = 0
      BY <2>2 DEF WheelInv, UnknownFresh
    <3>2. Counting(i) = {}
      <4> SUFFICES ASSUME NEW p \in Counting(i) PROVE FALSE
        OBVIOUS
      <4>1. PICK s \in Slots : p \in {s} \X DOMAIN wheel[s]
        BY DEF Counting
      <4>2. p[1] = s /\ p[2] \in DOMAIN wheel[s] /\ wheel[p[1]][p[2]].version = 0
        BY <3>1, <4>1 DEF Counting
      <4> QED BY <4>2 DEF WheelInv, NodesOld
    <3> QED BY <2>2, <3>2, FS_EmptySet
  <2> QED BY <2>1, <2>2
<1> QED BY <1>1, TimerInit, TimerStep, PTL DEF Spec

(* The wheel keeps its timer's promise: a task runs exactly as many ticks   *)
(* after it was added or last refreshed as it was given, unless it was      *)
(* cancelled (timer.cpp:23-110, timer.h:15-50).                             *)
THEOREM TimerKeepsDeadlines ==
  ASSUME Guarded
  PROVE  Spec => KeepsDeadlines
<1>1. Init => TypeOK /\ WheelInv /\ Deadlines!Init
  BY TimerInit
<1>2. TypeOK /\ WheelInv /\ [Next]_vars => TypeOK' /\ WheelInv' /\ [Deadlines!Next]_<<Left, known \ alive, fired>>
  BY TimerStep DEF Mapped
<1> QED BY <1>1, <1>2, PTL DEF Spec, KeepsDeadlines, Deadlines!Spec, Left
=============================================================================
