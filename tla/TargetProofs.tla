---------------------------- MODULE TargetProofs ----------------------------
(***************************************************************************)
(* What TLAPS proves of RequestTarget, for every text, file system and     *)
(* list of forwarded parameters.                                           *)
(*                                                                         *)
(* The operators are folds, and a recursive function.  What they compute   *)
(* is proved by induction over sets: LeastOf takes the least number of a   *)
(* set from the well-founded order of finite sets, and SetInduction,       *)
(* SeqInduction follow.  A fold is the value of a table; FoldTableExists,  *)
(* OneFolds and FoldedAppend say what one element more does, and each      *)
(* operator has its lemma ...Append from them.                             *)
(***************************************************************************)
EXTENDS RequestTarget, FiniteSetTheorems, SequenceTheorems, WellFoundedInduction, TLAPS

-----------------------------------------------------------------------------
(* Induction over numbers, from the well-founded order of finite sets. *)

(* Every set of numbers has a least. *)
LEMMA LeastOf ==
  ASSUME NEW S \in SUBSET Nat, S # {}
  PROVE  \E n \in S : \A m \in S : n <= m
<1> DEFINE T == {0..n : n \in S}
<1>1. \A n \in S : 0..n \in SUBSET Nat /\ IsFiniteSet(0..n)
  BY FS_Interval
<1>2. T \subseteq FiniteSubsetsOf(Nat) /\ T # {}
  BY <1>1 DEF FiniteSubsetsOf
<1>3. PICK X \in T : \A Y \in T : ~(<<Y, X>> \in StrictSubsetOrdering(Nat))
  BY <1>2, FS_StrictSubsetOrderingWellFounded, WFMin, Zenon
<1>4. PICK n \in S : X = 0..n
  OBVIOUS
<1>5. ASSUME NEW m \in S, m < n PROVE FALSE
  <2>1. 0..m \in T /\ 0..m \subseteq 0..n /\ 0..m # 0..n
    <3>1. n \in 0..n /\ n \notin 0..m
      BY <1>5
    <3> QED BY <1>5, <3>1
  <2> QED BY <2>1, <1>1, <1>3, <1>4 DEF StrictSubsetOrdering
<1> QED BY <1>5

(* A set that holds 0 and with a number the next holds them all. *)
LEMMA SetInduction ==
  ASSUME NEW S \in SUBSET Nat, 0 \in S, \A n \in S : n + 1 \in S
  PROVE  S = Nat
<1> SUFFICES ASSUME S # Nat PROVE FALSE
  OBVIOUS
<1>1. PICK n \in Nat \ S : \A m \in Nat \ S : n <= m
  BY LeastOf
<1>2. n # 0 /\ n - 1 \in Nat
  BY <1>1
<1>3. n - 1 \in S
  BY <1>1, <1>2
<1> QED BY <1>1, <1>2, <1>3

-----------------------------------------------------------------------------
(* Folds.  FoldLeft is defined by a table of what it comes to for every set  *)
(* of positions; the facts below say that there is one such table and what   *)
(* one element more does.  They are about functions; a fold of an operator   *)
(* is that of a function with the same values.                               *)

LEMMA MaxIs ==
  ASSUME NEW n \in Nat, NEW t \in SUBSET (1..n), t # {}
  PROVE  Max(t) \in t /\ \A x \in t : x <= Max(t)
<1> DEFINE S == {n - x : x \in t}
<1>0. \A x \in t : x \in Nat /\ x <= n /\ n - x \in Nat
  OBVIOUS
<1>1. S \in SUBSET Nat /\ S # {}
  BY <1>0
<1>2. PICK m \in S : \A k \in S : m <= k
  BY <1>1, LeastOf
<1>3. PICK x \in t : m = n - x
  BY <1>2
<1>4. \A y \in t : x >= y
  <2> SUFFICES ASSUME NEW y \in t PROVE x >= y
    OBVIOUS
  <2>1. n - y \in S
    OBVIOUS
  <2> HIDE DEF S
  <2> QED BY <2>1, <1>0, <1>2, <1>3
<1> QED BY <1>4 DEF Max

LEMMA BelowLargest ==
  ASSUME NEW n \in Nat, NEW t \in SUBSET (1..(n + 1)), NEW m \in t, \A x \in t : x <= m
  PROVE  t \ {m} \in SUBSET (1..n) /\ (n + 1 \in t => m = n + 1)
<1>1. ASSUME NEW x \in t, x # m PROVE x \in 1..n
  <2>1. x \in 1..(n + 1) /\ m \in 1..(n + 1) /\ x <= m
    OBVIOUS
  <2> QED BY <2>1, <1>1
<1>2. n + 1 \in t => n + 1 <= m /\ m \in 1..(n + 1)
  OBVIOUS
<1> QED BY <1>1, <1>2

IsTable(it, n, base, f) ==
  /\ it[{}] = base
  /\ \A t \in SUBSET (1..n) : t # {} => it[t] = f[Max(t)][it[t \ {Max(t)}]]

LEMMA WiderTable ==
  ASSUME NEW T, NEW base \in T, NEW n \in Nat, NEW N \in Nat, n < N,
         NEW f \in [1..N -> [T -> T]],
         NEW it \in [SUBSET (1..n) -> T], IsTable(it, n, base, f)
  PROVE  \E g \in [SUBSET (1..(n + 1)) -> T] : IsTable(g, n + 1, base, f)
<1> DEFINE g == [t \in SUBSET (1..(n + 1)) |->
                  IF n + 1 \in t THEN f[n + 1][it[t \ {n + 1}]] ELSE it[t]]
<1>1. \A t \in SUBSET (1..(n + 1)) :
        /\ n + 1 \notin t => t \in SUBSET (1..n)
        /\ t \ {n + 1} \in SUBSET (1..n)
  OBVIOUS
<1>2. n + 1 \in 1..N
  OBVIOUS
<1>3. g \in [SUBSET (1..(n + 1)) -> T]
  BY <1>1, <1>2
<1>4. ASSUME NEW t \in SUBSET (1..(n + 1)), t # {}
      PROVE  g[t] = f[Max(t)][g[t \ {Max(t)}]]
  <2>0. n + 1 \in Nat
    OBVIOUS
  <2> HIDE DEF g
  <2>1. Max(t) \in t /\ \A x \in t : x <= Max(t)
    BY <2>0, <1>4, MaxIs
  <2> USE DEF g
  <2>2. CASE n + 1 \in t
    <3>1. Max(t) = n + 1
      <4> HIDE DEF g
      <4> QED BY <2>1, <2>2, BelowLargest
    <3>2. t \ {n + 1} \in SUBSET (1..(n + 1)) /\ n + 1 \notin t \ {n + 1}
      OBVIOUS
    <3>3. g[t \ {n + 1}] = it[t \ {n + 1}]
      BY <3>2
    <3> QED BY <2>2, <3>1, <3>3
  <2>3. CASE n + 1 \notin t
    <3>1. t \in SUBSET (1..n) /\ t \ {Max(t)} \in SUBSET (1..(n + 1)) /\ n + 1 \notin t \ {Max(t)}
      BY <2>3, <1>1
    <3>2. g[t] = it[t] /\ g[t \ {Max(t)}] = it[t \ {Max(t)}]
      BY <2>3, <3>1
    <3>3. it[t] = f[Max(t)][it[t \ {Max(t)}]]
      BY <3>1, <1>4 DEF IsTable
    <3> QED BY <3>2, <3>3
  <2> QED BY <2>2, <2>3
<1>5. g[{}] = base
  BY DEF IsTable
<1> HIDE DEF g
<1>6. IsTable(g, n + 1, base, f)
  BY <1>4, <1>5 DEF IsTable
<1> QED BY <1>3, <1>6

LEMMA TableExists ==
  ASSUME NEW T, NEW base \in T, NEW N \in Nat, NEW f \in [1..N -> [T -> T]]
  PROVE  \E it \in [SUBSET (1..N) -> T] : IsTable(it, N, base, f)
<1> DEFINE S == {n \in Nat : n <= N => \E it \in [SUBSET (1..n) -> T] : IsTable(it, n, base, f)}
<1>1. 0 \in S
  <2> DEFINE it == [t \in SUBSET (1..0) |-> base]
  <2>1. 1..0 = {}
    OBVIOUS
  <2>2. it \in [SUBSET (1..0) -> T] /\ IsTable(it, 0, base, f)
    BY <2>1 DEF IsTable
  <2> QED BY <2>2
<1>2. ASSUME NEW n \in S PROVE n + 1 \in S
  <2>1. n \in Nat /\ (n <= N => \E it \in [SUBSET (1..n) -> T] : IsTable(it, n, base, f))
    BY Zenon
  <2>2. n + 1 \in Nat
    BY <2>1
  <2>3. ASSUME n + 1 <= N PROVE \E it \in [SUBSET (1..(n + 1)) -> T] : IsTable(it, n + 1, base, f)
    <3>1. n < N /\ n <= N
      BY <2>1, <2>3
    <3>2. PICK it \in [SUBSET (1..n) -> T] : IsTable(it, n, base, f)
      BY <2>1, <3>1, Zenon
    <3> HIDE DEF S
    <3> QED BY <2>1, <3>1, <3>2, WiderTable
  <2> QED BY <2>2, <2>3, Zenon
<1>3. S \in SUBSET Nat
  OBVIOUS
<1> HIDE DEF S
<1>4. S = Nat
  BY <1>1, <1>2, <1>3, SetInduction
<1>5. N \in S /\ N <= N
  BY <1>4
<1> QED BY <1>5, Zenon DEF S

(* Tables that continue alike are the same. *)
ContinueAlike(N, g, h) ==
  /\ g[{}] = h[{}]
  /\ \A t \in SUBSET (1..N) : t # {} /\ g[t \ {Max(t)}] = h[t \ {Max(t)}] => g[t] = h[t]

LEMMA SameTables ==
  ASSUME NEW N \in Nat, NEW g, NEW h, ContinueAlike(N, g, h)
  PROVE  g[1..N] = h[1..N]
<1> USE DEF ContinueAlike
<1> DEFINE S == {n \in Nat : n <= N => \A t \in SUBSET (1..n) : g[t] = h[t]}
<1>1. 0 \in S
  <2>1. \A t \in SUBSET (1..0) : t = {}
    OBVIOUS
  <2> QED BY <2>1
<1>2. ASSUME NEW n \in S PROVE n + 1 \in S
  <2>0. n \in Nat /\ n + 1 \in Nat /\ (n <= N => \A t \in SUBSET (1..n) : g[t] = h[t])
    OBVIOUS
  <2> SUFFICES ASSUME n + 1 <= N, NEW t \in SUBSET (1..(n + 1)) PROVE g[t] = h[t]
    BY <2>0
  <2> HIDE DEF S
  <2>1. CASE t = {}
    BY <2>1
  <2>2. CASE t # {}
    <3>1. t \in SUBSET (1..N)
      BY <2>0
    <3>2. Max(t) \in t /\ \A x \in t : x <= Max(t)
      BY <2>2, <3>1, MaxIs
    <3>3. t \ {Max(t)} \in SUBSET (1..n)
      BY <2>0, <3>2, BelowLargest
    <3>4. n <= N
      BY <2>0
    <3>5. g[t \ {Max(t)}] = h[t \ {Max(t)}]
      BY <2>0, <3>3, <3>4
    <3> QED BY <2>2, <3>1, <3>5
  <2> QED BY <2>1, <2>2
<1>3. S \in SUBSET Nat
  OBVIOUS
<1> HIDE DEF S
<1>4. N \in S /\ N <= N
  BY <1>1, <1>2, <1>3, SetInduction
<1> QED BY <1>4, Zenon DEF S

(* f[e] says what one element more does to what was folded so far. *)
Folded(f, base, s) == FoldLeft(LAMBDA a, e : f[e][a], base, s)

LEMMA MaxOf ==
  ASSUME NEW E, NEW s \in Seq(E), NEW t \in SUBSET DOMAIN s, t # {}
  PROVE  Max(t) \in DOMAIN s /\ s[Max(t)] \in E /\ t \ {Max(t)} \in SUBSET DOMAIN s
<1>1. Len(s) \in Nat /\ DOMAIN s = 1..Len(s) /\ \A k \in 1..Len(s) : s[k] \in E
  OBVIOUS
<1>2. Max(t) \in t
  BY <1>1, MaxIs
<1> QED BY <1>1, <1>2

(* h does so, at least where it does not leave T. *)
FoldsIn(T, h, f, base, s) ==
  /\ h[{}] = base
  /\ \A t \in SUBSET DOMAIN s :
       t # {} /\ h[t \ {Max(t)}] \in T => h[t] = f[s[Max(t)]][h[t \ {Max(t)}]]

FoldTable(T, it, f, base, s) ==
  it \in [SUBSET DOMAIN s -> T] /\ FoldsIn(T, it, f, base, s)

LEMMA FoldTableExists ==
  ASSUME NEW E, NEW T, NEW base \in T, NEW f \in [E -> [T -> T]], NEW s \in Seq(E)
  PROVE  \E it : FoldTable(T, it, f, base, s)
<1>1. Len(s) \in Nat /\ DOMAIN s = 1..Len(s) /\ \A k \in 1..Len(s) : s[k] \in E
  OBVIOUS
<1> DEFINE g == [k \in 1..Len(s) |-> f[s[k]]]
<1>2. g \in [1..Len(s) -> [T -> T]]
  BY <1>1
<1>3. PICK it \in [SUBSET (1..Len(s)) -> T] : IsTable(it, Len(s), base, g)
  <2> HIDE DEF g
  <2> QED BY <1>1, <1>2, TableExists
<1>4. ASSUME NEW t \in SUBSET DOMAIN s, t # {}
      PROVE  it[t] = f[s[Max(t)]][it[t \ {Max(t)}]]
  <2>1. Max(t) \in 1..Len(s)
    BY <1>1, <1>4, MaxOf
  <2>2. it[t] = g[Max(t)][it[t \ {Max(t)}]]
    BY <1>1, <1>3, <1>4 DEF IsTable
  <2> QED BY <2>1, <2>2
<1>5. it[{}] = base
  BY <1>3 DEF IsTable
<1> QED BY <1>1, <1>4, <1>5 DEF FoldTable, FoldsIn

(* One that stays in T is the only one. *)
LEMMA OneFolds ==
  ASSUME NEW E, NEW T, NEW base, NEW f, NEW s \in Seq(E),
         NEW it, FoldTable(T, it, f, base, s),
         NEW h, FoldsIn(T, h, f, base, s)
  PROVE  h[DOMAIN s] = it[DOMAIN s]
<1>1. Len(s) \in Nat /\ DOMAIN s = 1..Len(s) /\ DOMAIN s \in SUBSET DOMAIN s
  OBVIOUS
<1>2. ASSUME NEW t \in SUBSET DOMAIN s, t # {}, h[t \ {Max(t)}] = it[t \ {Max(t)}]
      PROVE  h[t] = it[t]
  <2>1. it[t \ {Max(t)}] \in T
    BY <1>2, MaxOf DEF FoldTable
  <2>2. h[t] = f[s[Max(t)]][h[t \ {Max(t)}]]
    BY <1>2, <2>1 DEF FoldTable, FoldsIn
  <2>3. it[t] = f[s[Max(t)]][it[t \ {Max(t)}]]
    BY <1>2, <2>1 DEF FoldTable, FoldsIn
  <2> QED BY <1>2, <2>2, <2>3
<1>3. h[{}] = it[{}]
  BY DEF FoldTable, FoldsIn
<1>4. ContinueAlike(Len(s), h, it)
  BY <1>1, <1>2, <1>3 DEF ContinueAlike
<1> QED BY <1>1, <1>4, SameTables

LEMMA FoldedIs ==
  ASSUME NEW E, NEW T, NEW base \in T, NEW f \in [E -> [T -> T]], NEW s \in Seq(E),
         NEW it, FoldTable(T, it, f, base, s)
  PROVE  Folded(f, base, s) = it[DOMAIN s]
<1> DEFINE Table(h) == h = [t \in SUBSET DOMAIN s |->
                              IF t = {} THEN base ELSE f[s[Max(t)]][h[t \ {Max(t)}]]]
           c == CHOOSE h : Table(h)
<1>1. Table(it)
  <2>1. ASSUME NEW t \in SUBSET DOMAIN s
        PROVE  it[t] = IF t = {} THEN base ELSE f[s[Max(t)]][it[t \ {Max(t)}]]
    <3>1. CASE t = {}
      BY <3>1 DEF FoldTable, FoldsIn
    <3>2. CASE t # {}
      <4>1. t \ {Max(t)} \in SUBSET DOMAIN s
        BY <3>2, MaxOf
      <4> QED BY <3>2, <4>1 DEF FoldTable, FoldsIn
    <3> QED BY <3>1, <3>2
  <2> QED BY <2>1 DEF FoldTable
<1>2. Table(c)
  BY <1>1
<1>3. Folded(f, base, s) = c[DOMAIN s]
  BY DEF Folded, FoldLeft, MapThenFoldSet
<1>4. FoldsIn(T, c, f, base, s)
  <2>1. {} \in SUBSET DOMAIN s
    OBVIOUS
  <2>2. c[{}] = base
    BY <1>2, <2>1
  <2>3. \A t \in SUBSET DOMAIN s : t # {} => c[t] = f[s[Max(t)]][c[t \ {Max(t)}]]
    BY <1>2
  <2> HIDE DEF c
  <2> QED BY <2>2, <2>3 DEF FoldTable, FoldsIn
<1> HIDE DEF c
<1> QED BY <1>3, <1>4, OneFolds

(* What an operator folds to is what the function with its values does. *)
LEMMA FoldBridge ==
  ASSUME NEW E, NEW T, NEW base \in T, NEW f \in [E -> [T -> T]], NEW s \in Seq(E),
         NEW h, FoldsIn(T, h, f, base, s)
  PROVE  h[DOMAIN s] = Folded(f, base, s)
<1>1. PICK it : FoldTable(T, it, f, base, s)
  BY FoldTableExists
<1>2. h[DOMAIN s] = it[DOMAIN s]
  BY <1>1, OneFolds
<1> QED BY <1>1, <1>2, FoldedIs

LEMMA FoldedEmpty ==
  ASSUME NEW E, NEW T, NEW base \in T, NEW f \in [E -> [T -> T]]
  PROVE  Folded(f, base, <<>>) = base
<1> SUFFICES ASSUME NEW s, s = <<>> PROVE Folded(f, base, s) = base
  OBVIOUS
<1>1. s \in Seq(E) /\ DOMAIN s = {}
  OBVIOUS
<1>2. PICK it : FoldTable(T, it, f, base, s)
  BY <1>1, FoldTableExists
<1>3. Folded(f, base, s) = it[DOMAIN s]
  <2>1. \A q \in Seq(E) : FoldTable(T, it, f, base, q) => Folded(f, base, q) = it[DOMAIN q]
    BY FoldedIs
  <2> QED BY <1>1, <1>2, <2>1
<1> QED BY <1>1, <1>2, <1>3 DEF FoldTable, FoldsIn

LEMMA FoldedAppend ==
  ASSUME NEW E, NEW T, NEW base \in T, NEW f \in [E -> [T -> T]], NEW s \in Seq(E), NEW e \in E
  PROVE  Folded(f, base, s) \in T /\ Folded(f, base, Append(s, e)) = f[e][Folded(f, base, s)]
<1>1. PICK it : FoldTable(T, it, f, base, s)
  BY FoldTableExists
<1>2. Folded(f, base, s) = it[DOMAIN s]
  BY <1>1, FoldedIs
<1> DEFINE r == Append(s, e)
<1>3. r \in Seq(E) /\ DOMAIN r = 1..(Len(s) + 1) /\ DOMAIN s = 1..Len(s) /\ Len(s) \in Nat
  BY AppendProperties
<1>4. r[Len(s) + 1] = e /\ \A k \in DOMAIN s : r[k] = s[k]
  BY AppendProperties
<1> HIDE DEF r
<1>5. PICK jt : FoldTable(T, jt, f, base, r)
  BY <1>3, FoldTableExists
<1>6. Folded(f, base, r) = jt[DOMAIN r]
  BY <1>3, <1>5, FoldedIs
<1>7. jt[DOMAIN s] = it[DOMAIN s]
  <2>1. ASSUME NEW t \in SUBSET DOMAIN s, t # {}, jt[t \ {Max(t)}] \in T
        PROVE  jt[t] = f[s[Max(t)]][jt[t \ {Max(t)}]]
    <3>1. t \in SUBSET DOMAIN r
      BY <1>3
    <3>2. r[Max(t)] = s[Max(t)]
      BY <1>4, <2>1, MaxOf
    <3> QED BY <1>5, <2>1, <3>1, <3>2 DEF FoldTable, FoldsIn
  <2>2. FoldsIn(T, jt, f, base, s)
    BY <1>5, <2>1 DEF FoldTable, FoldsIn
  <2> QED BY <1>1, <2>2, OneFolds
<1>8. jt[DOMAIN r] = f[e][jt[DOMAIN s]]
  <2>1. DOMAIN r # {} /\ Len(s) + 1 \in DOMAIN r /\ DOMAIN r \in SUBSET DOMAIN r
    BY <1>3
  <2>2. Max(DOMAIN r) \in DOMAIN r /\ \A x \in DOMAIN r : x <= Max(DOMAIN r)
    <3>1. Len(s) + 1 \in Nat
      BY <1>3
    <3> QED BY <1>3, <2>1, <3>1, MaxIs
  <2>3. Max(DOMAIN r) = Len(s) + 1
    BY <1>3, <2>1, <2>2, BelowLargest
  <2>4. DOMAIN r \ {Len(s) + 1} = DOMAIN s
    BY <1>3
  <2>5. DOMAIN s \in SUBSET DOMAIN r
    BY <1>3
  <2>6. jt[DOMAIN s] \in T
    BY <1>5, <2>5 DEF FoldTable
  <2> QED BY <1>4, <1>5, <2>1, <2>3, <2>4, <2>6 DEF FoldTable, FoldsIn
<1>9. it[DOMAIN s] \in T
  <2>1. DOMAIN s \in SUBSET DOMAIN s
    OBVIOUS
  <2> QED BY <1>1, <2>1 DEF FoldTable
<1> QED BY <1>2, <1>6, <1>7, <1>8, <1>9 DEF r

-----------------------------------------------------------------------------
(* Sequences, built by appending. *)

LEMMA Unappend ==
  ASSUME NEW E, NEW s \in Seq(E), s # <<>>
  PROVE  \E p \in Seq(E), e \in E : s = Append(p, e) /\ Len(s) = Len(p) + 1
<1> DEFINE n == Len(s) - 1
           p == SubSeq(s, 1, n)
<1>1. n \in Nat /\ Len(s) = n + 1 /\ \A i \in 1..Len(s) : s[i] \in E
  BY EmptySeq
<1> HIDE DEF n
<1>2. p \in Seq(E) /\ Len(p) = n /\ \A i \in 1..n : p[i] = s[i]
  BY <1>1
<1> HIDE DEF p
<1>3. s[n + 1] \in E
  BY <1>1
<1> DEFINE r == Append(p, s[n + 1])
<1>4. r \in Seq(E) /\ Len(r) = n + 1 /\ \A i \in 1..(n + 1) : r[i] = s[i]
  BY <1>1, <1>2, <1>3
<1> HIDE DEF r
<1>5. s = r
  BY <1>1, <1>4, SeqEqual
<1> QED BY <1>1, <1>2, <1>3, <1>5 DEF r

LEMMA SeqInduction ==
  ASSUME NEW E, NEW S \in SUBSET Seq(E), <<>> \in S, \A s \in S : \A e \in E : Append(s, e) \in S
  PROVE  \A s \in Seq(E) : s \in S
<1> DEFINE N == {n \in Nat : \A s \in Seq(E) : Len(s) = n => s \in S}
<1>1. 0 \in N
  <2>1. ASSUME NEW s \in Seq(E), Len(s) = 0 PROVE s \in S
    BY <2>1, EmptySeq
  <2> QED BY <2>1
<1>2. ASSUME NEW n \in N PROVE n + 1 \in N
  <2>0. n \in Nat /\ n + 1 \in Nat /\ \A s \in Seq(E) : Len(s) = n => s \in S
    OBVIOUS
  <2>1. ASSUME NEW s \in Seq(E), Len(s) = n + 1 PROVE s \in S
    <3>1. s # <<>>
      BY <2>0, <2>1
    <3>2. PICK p \in Seq(E), e \in E : s = Append(p, e) /\ Len(s) = Len(p) + 1
      BY <3>1, Unappend
    <3>3. Len(p) = n
      BY <2>0, <2>1, <3>2
    <3> QED BY <2>0, <3>2, <3>3
  <2> HIDE DEF N
  <2> QED BY <2>0, <2>1 DEF N
<1>3. N \in SUBSET Nat
  OBVIOUS
<1> HIDE DEF N
<1>4. N = Nat
  BY <1>1, <1>2, <1>3, SetInduction
<1>5. ASSUME NEW s \in Seq(E) PROVE s \in S
  <2>1. Len(s) \in N
    BY <1>4
  <2> QED BY <2>1 DEF N
<1> QED BY <1>5

-----------------------------------------------------------------------------
(* Split. *)

Parts == Seq(Text) \ {<<>>}

SplitStep(parts, ch, delimiter) ==
  IF ch = delimiter THEN Append(parts, <<>>)
  ELSE [parts EXCEPT ![Len(parts)] = Append(@, ch)]

LEMMA SplitStepType ==
  ASSUME NEW parts \in Parts, NEW ch \in Codes, NEW delimiter
  PROVE  SplitStep(parts, ch, delimiter) \in Parts
<1>1. parts \in Seq(Text) /\ Len(parts) \in 1..Len(parts) /\ <<>> \in Text
  BY EmptySeq DEF Parts, Text
<1>2. CASE ch = delimiter
  <2>1. Append(parts, <<>>) \in Seq(Text) /\ Append(parts, <<>>) # <<>>
    BY <1>1, AppendProperties
  <2> QED BY <1>2, <2>1 DEF SplitStep, Parts
<1>3. CASE ch # delimiter
  <2>1. parts[Len(parts)] \in Text
    BY <1>1
  <2>2. Append(parts[Len(parts)], ch) \in Text
    BY <2>1 DEF Text
  <2> DEFINE e == Append(parts[Len(parts)], ch)
             r == [parts EXCEPT ![Len(parts)] = e]
  <2>3. r \in Seq(Text) /\ Len(r) = Len(parts)
    BY <1>1, <2>2, ExceptSeq
  <2>4. r # <<>>
    BY <1>1, <2>3
  <2> QED BY <1>3, <2>3, <2>4 DEF SplitStep, Parts
<1> QED BY <1>2, <1>3

SplitFcn(delimiter) == [ch \in Codes |-> [parts \in Parts |-> SplitStep(parts, ch, delimiter)]]

LEMMA SplitFcnType == ASSUME NEW d PROVE SplitFcn(d) \in [Codes -> [Parts -> Parts]]
BY SplitStepType DEF SplitFcn

LEMMA BlankType == << <<>> >> \in Parts
<1>1. <<>> \in Text
  BY EmptySeq DEF Text
<1> QED BY <1>1 DEF Parts

LEMMA SplitIs ==
  ASSUME NEW s \in Text, NEW d
  PROVE  Split(s, d) = Folded(SplitFcn(d), << <<>> >>, s)
<1> DEFINE Table(h) == h = [t \in SUBSET DOMAIN s |->
                              IF t = {} THEN << <<>> >>
                              ELSE SplitStep(h[t \ {Max(t)}], s[Max(t)], d)]
           c == CHOOSE h : Table(h)
<1>1. PICK it : FoldTable(Parts, it, SplitFcn(d), << <<>> >>, s)
  BY SplitFcnType, BlankType, FoldTableExists DEF Text
<1>2. Table(it)
  <2>1. ASSUME NEW t \in SUBSET DOMAIN s, t # {}
        PROVE  it[t] = SplitStep(it[t \ {Max(t)}], s[Max(t)], d)
    <3>1. s[Max(t)] \in Codes /\ t \ {Max(t)} \in SUBSET DOMAIN s
      BY <2>1, MaxOf DEF Text
    <3>2. it[t \ {Max(t)}] \in Parts
      BY <1>1, <3>1 DEF FoldTable
    <3>3. it[t] = SplitFcn(d)[s[Max(t)]][it[t \ {Max(t)}]]
      BY <1>1, <2>1, <3>2 DEF FoldTable, FoldsIn
    <3> QED BY <3>1, <3>2, <3>3 DEF SplitFcn
  <2> QED BY <1>1, <2>1 DEF FoldTable, FoldsIn
<1>3. Table(c)
  BY <1>2
<1>4. Split(s, d) = c[DOMAIN s]
  BY DEF Split, FoldLeft, MapThenFoldSet, SplitStep
<1>5. FoldsIn(Parts, c, SplitFcn(d), << <<>> >>, s)
  <2>1. {} \in SUBSET DOMAIN s
    OBVIOUS
  <2>2. c[{}] = << <<>> >>
    BY <1>3, <2>1
  <2>3. ASSUME NEW t \in SUBSET DOMAIN s, t # {}, c[t \ {Max(t)}] \in Parts
        PROVE  c[t] = SplitFcn(d)[s[Max(t)]][c[t \ {Max(t)}]]
    <3>1. c[t] = SplitStep(c[t \ {Max(t)}], s[Max(t)], d)
      BY <1>3, <2>3
    <3>2. s[Max(t)] \in Codes
      BY <2>3, MaxOf DEF Text
    <3> HIDE DEF c
    <3> QED BY <2>3, <3>1, <3>2 DEF SplitFcn
  <2> HIDE DEF c
  <2> QED BY <2>2, <2>3 DEF FoldsIn
<1> HIDE DEF c
<1> QED BY <1>4, <1>5, SplitFcnType, BlankType, FoldBridge DEF Text

(* What Split does with one character more. *)
LEMMA SplitAppend ==
  ASSUME NEW s \in Text, NEW ch \in Codes, NEW d
  PROVE  /\ Split(s, d) \in Parts
         /\ Split(Append(s, ch), d) = SplitStep(Split(s, d), ch, d)
<1>1. Append(s, ch) \in Text
  BY DEF Text
<1>2. /\ Folded(SplitFcn(d), << <<>> >>, s) \in Parts
      /\ Folded(SplitFcn(d), << <<>> >>, Append(s, ch))
           = SplitFcn(d)[ch][Folded(SplitFcn(d), << <<>> >>, s)]
  BY SplitFcnType, BlankType, FoldedAppend DEF Text
<1> QED BY <1>1, <1>2, SplitIs DEF SplitFcn

LEMMA SplitEmpty == ASSUME NEW d PROVE Split(<<>>, d) = << <<>> >>
<1>1. <<>> \in Text
  BY EmptySeq DEF Text
<1>2. Folded(SplitFcn(d), << <<>> >>, <<>>) = << <<>> >>
  BY SplitFcnType, BlankType, FoldedEmpty
<1> QED BY <1>1, <1>2, SplitIs

-----------------------------------------------------------------------------
(* UrlDecode.  f[i] is what s comes to from its i-th character on. *)

DecodedAt(s, p, f, i) ==
  IF i > Len(s) THEN <<>>
  ELSE IF IsEscape(s, i)
         THEN <<16 * HexValue(s[i + 1]) + HexValue(s[i + 2])>> \o f[i + 3]
         ELSE <<IF s[i] = Plus /\ p THEN Space ELSE s[i]>> \o f[i + 1]

DecodedFrom(m, f, s, p) ==
  /\ f \in [m..(Len(s) + 1) -> Text]
  /\ \A i \in m..(Len(s) + 1) : f[i] = DecodedAt(s, p, f, i)

LEMMA HexValues == \A ch \in Codes : HexValue(ch) \in -1..15
<1> SUFFICES ASSUME NEW ch \in Codes PROVE HexValue(ch) \in -1..15
  OBVIOUS
<1>1. CASE ch \in 48..57
  BY <1>1 DEF HexValue
<1>2. CASE ch \in 65..70
  BY <1>2 DEF HexValue
<1>3. CASE ch \in 97..102
  BY <1>3 DEF HexValue
<1>4. CASE ch \notin 48..57 /\ ch \notin 65..70 /\ ch \notin 97..102
  BY <1>4 DEF HexValue
<1> QED BY <1>1, <1>2, <1>3, <1>4

LEMMA EscapeCode ==
  ASSUME NEW s \in Text, NEW i \in 1..Len(s), IsEscape(s, i)
  PROVE  i + 2 <= Len(s) /\ 16 * HexValue(s[i + 1]) + HexValue(s[i + 2]) \in Codes
<1>1. i + 1 \in 1..Len(s) /\ i + 2 \in 1..Len(s) /\ Len(s) \in Nat
  BY DEF IsEscape, Text
<1>2. s[i + 1] \in Codes /\ s[i + 2] \in Codes
  BY <1>1 DEF Text
<1>3. HexValue(s[i + 1]) \in 0..15 /\ HexValue(s[i + 2]) \in 0..15
  <2>1. HexValue(s[i + 1]) \in -1..15 /\ HexValue(s[i + 2]) \in -1..15
    BY <1>2, HexValues
  <2>2. HexValue(s[i + 1]) >= 0 /\ HexValue(s[i + 2]) >= 0
    BY DEF IsEscape
  <2> QED BY <2>1, <2>2
<1>4. \A x, y \in 0..15 : 16 * x + y \in 0..255
  OBVIOUS
<1>5. i + 2 <= Len(s)
  BY DEF IsEscape
<1> QED BY <1>3, <1>4, <1>5 DEF Codes

LEMMA DecodedAtType ==
  ASSUME NEW s \in Text, NEW p, NEW f, NEW i \in 1..(Len(s) + 1),
         \A j \in (i + 1)..(Len(s) + 1) : f[j] \in Text
  PROVE  DecodedAt(s, p, f, i) \in Text
<1>1. Len(s) \in Nat /\ \A k \in 1..Len(s) : s[k] \in Codes
  BY DEF Text
<1>2. CASE i > Len(s)
  BY <1>1, <1>2, EmptySeq DEF DecodedAt, Text
<1>3. CASE i <= Len(s) /\ IsEscape(s, i)
  <2>1. i + 2 <= Len(s) /\ 16 * HexValue(s[i + 1]) + HexValue(s[i + 2]) \in Codes
    BY <1>1, <1>3, EscapeCode
  <2> DEFINE v == 16 * HexValue(s[i + 1]) + HexValue(s[i + 2])
  <2>2. v \in Codes
    BY <2>1
  <2> HIDE DEF v
  <2>3. f[i + 3] \in Text
    BY <1>1, <2>1
  <2>4. <<v>> \o f[i + 3] \in Text
    <3>1. <<v>> \in Text
      BY <2>2 DEF Text
    <3> QED BY <2>3, <3>1, ConcatProperties DEF Text
  <2>5. DecodedAt(s, p, f, i) = <<v>> \o f[i + 3]
    BY <1>1, <1>3 DEF DecodedAt, v
  <2> QED BY <2>4, <2>5
<1>4. CASE i <= Len(s) /\ ~IsEscape(s, i)
  <2> DEFINE v == IF s[i] = Plus /\ p THEN Space ELSE s[i]
  <2>1. v \in Codes
    BY <1>1, <1>4 DEF Space, Codes
  <2>2. DecodedAt(s, p, f, i) = <<v>> \o f[i + 1]
    BY <1>1, <1>4 DEF DecodedAt
  <2> HIDE DEF v
  <2>3. f[i + 1] \in Text
    BY <1>1, <1>4
  <2>4. <<v>> \o f[i + 1] \in Text
    BY <2>1, <2>3 DEF Text
  <2> QED BY <2>2, <2>4
<1> QED BY <1>1, <1>2, <1>3, <1>4

(* What follows decides. *)
LEMMA DecodedAtSame ==
  ASSUME NEW s \in Text, NEW p, NEW f, NEW g, NEW i \in 1..(Len(s) + 1),
         \A j \in (i + 1)..(Len(s) + 1) : f[j] = g[j]
  PROVE  DecodedAt(s, p, f, i) = DecodedAt(s, p, g, i)
<1>1. Len(s) \in Nat
  BY DEF Text
<1>2. CASE i > Len(s)
  BY <1>2 DEF DecodedAt
<1>3. CASE i <= Len(s) /\ IsEscape(s, i)
  <2>1. i + 3 \in (i + 1)..(Len(s) + 1)
    BY <1>1, <1>3 DEF IsEscape
  <2> QED BY <1>3, <2>1 DEF DecodedAt
<1>4. CASE i <= Len(s) /\ ~IsEscape(s, i)
  <2>1. i + 1 \in (i + 1)..(Len(s) + 1)
    BY <1>1, <1>4
  <2> QED BY <1>4, <2>1 DEF DecodedAt
<1> QED BY <1>1, <1>2, <1>3, <1>4

LEMMA DecodingExists ==
  ASSUME NEW s \in Text, NEW p
  PROVE  \E f : DecodedFrom(1, f, s, p)
<1> DEFINE n == Len(s)
           S == {k \in Nat : k <= n => \E f : DecodedFrom(n + 1 - k, f, s, p)}
<1>1. n \in Nat
  BY DEF Text
<1> HIDE DEF n
<1>2. 0 \in S
  <2> DEFINE f == [i \in (n + 1)..(n + 1) |-> <<>>]
  <2>1. f \in [(n + 1)..(n + 1) -> Text]
    BY EmptySeq DEF Text
  <2>2. \A i \in (n + 1)..(n + 1) : f[i] = DecodedAt(s, p, f, i)
    BY <1>1 DEF DecodedAt, n
  <2>3. DecodedFrom(n + 1 - 0, f, s, p)
    BY <1>1, <2>1, <2>2 DEF DecodedFrom, n
  <2> QED BY <2>3
<1>3. ASSUME NEW k \in S PROVE k + 1 \in S
  <2>0. k \in Nat /\ k + 1 \in Nat /\ (k <= n => \E f : DecodedFrom(n + 1 - k, f, s, p))
    OBVIOUS
  <2>1. ASSUME k + 1 <= n PROVE \E g : DecodedFrom(n + 1 - (k + 1), g, s, p)
    <3> DEFINE m == n - k
    <3>1. m \in 1..n /\ n + 1 - k = m + 1 /\ n + 1 - (k + 1) = m /\ k <= n
      BY <1>1, <2>0, <2>1
    <3>2. PICK f : DecodedFrom(m + 1, f, s, p)
      BY <2>0, <3>1
    <3> HIDE DEF m, S
    <3> DEFINE g == [i \in m..(n + 1) |-> IF i = m THEN DecodedAt(s, p, f, m) ELSE f[i]]
    <3>3. \A j \in (m + 1)..(n + 1) : f[j] \in Text /\ j # m /\ j \in m..(n + 1)
      BY <1>1, <3>1, <3>2 DEF DecodedFrom, n
    <3>4. DecodedAt(s, p, f, m) \in Text
      BY <1>1, <3>1, <3>3, DecodedAtType DEF n
    <3>5. \A j \in (m + 1)..(n + 1) : f[j] = g[j]
      BY <3>3
    <3>6. g \in [m..(n + 1) -> Text]
      <4>1. ASSUME NEW i \in m..(n + 1) PROVE i = m \/ i \in (m + 1)..(n + 1)
        BY <1>1, <3>1
      <4> QED BY <3>3, <3>4, <4>1
    <3>7. m \in m..(n + 1) /\ g[m] = DecodedAt(s, p, f, m)
      BY <1>1, <3>1
    <3> HIDE DEF g
    <3>8. ASSUME NEW i \in m..(n + 1) PROVE g[i] = DecodedAt(s, p, g, i)
      <4>1. i \in 1..(Len(s) + 1) /\ \A j \in (i + 1)..(Len(s) + 1) : j \in (m + 1)..(n + 1)
        BY <1>1, <3>1 DEF n
      <4>2. DecodedAt(s, p, f, i) = DecodedAt(s, p, g, i)
        BY <3>5, <4>1, DecodedAtSame
      <4>3. CASE i = m
        BY <3>7, <4>2, <4>3
      <4>4. CASE i # m
        <5>1. i \in (m + 1)..(n + 1)
          BY <1>1, <3>1, <4>4
        <5>2. f[i] = DecodedAt(s, p, f, i)
          BY <3>2, <5>1 DEF DecodedFrom, n
        <5> QED BY <3>5, <4>2, <5>1, <5>2
      <4> QED BY <4>3, <4>4
    <3>9. DecodedFrom(m, g, s, p)
      BY <3>6, <3>8 DEF DecodedFrom, n
    <3> QED BY <3>1, <3>9
  <2> QED BY <2>0, <2>1
<1>4. S \in SUBSET Nat
  OBVIOUS
<1> HIDE DEF S
<1>5. n \in S
  BY <1>1, <1>2, <1>3, <1>4, SetInduction
<1>6. n + 1 - n = 1 /\ n <= n
  BY <1>1
<1> QED BY <1>5, <1>6 DEF S

(* There is only one, of whatever type. *)
Decodes(f, s, p) == \A i \in 1..(Len(s) + 1) : f[i] = DecodedAt(s, p, f, i)

LEMMA DecodingUnique ==
  ASSUME NEW s \in Text, NEW p, NEW f, NEW g, Decodes(f, s, p), Decodes(g, s, p)
  PROVE  \A i \in 1..(Len(s) + 1) : f[i] = g[i]
<1> DEFINE n == Len(s)
           S == {k \in Nat : \A i \in 1..(n + 1) : i >= n + 1 - k => f[i] = g[i]}
<1>1. n \in Nat
  BY DEF Text
<1>2. ASSUME NEW i \in 1..(n + 1), \A j \in (i + 1)..(n + 1) : f[j] = g[j] PROVE f[i] = g[i]
  <2>1. DecodedAt(s, p, f, i) = DecodedAt(s, p, g, i)
    BY <1>2, DecodedAtSame
  <2> QED BY <2>1 DEF Decodes
<1> HIDE DEF n
<1>3. 0 \in S
  <2>1. ASSUME NEW i \in 1..(n + 1), i >= n + 1 - 0 PROVE f[i] = g[i]
    <3>1. \A j \in (i + 1)..(n + 1) : FALSE
      BY <1>1, <2>1
    <3> QED BY <1>2, <3>1
  <2> QED BY <2>1
<1>4. ASSUME NEW k \in S PROVE k + 1 \in S
  <2>0. k \in Nat /\ k + 1 \in Nat /\ \A i \in 1..(n + 1) : i >= n + 1 - k => f[i] = g[i]
    OBVIOUS
  <2>1. ASSUME NEW i \in 1..(n + 1), i >= n + 1 - (k + 1) PROVE f[i] = g[i]
    <3>1. \A j \in (i + 1)..(n + 1) : j \in 1..(n + 1) /\ j >= n + 1 - k
      BY <1>1, <2>0, <2>1
    <3> QED BY <1>2, <2>0, <3>1
  <2> QED BY <2>0, <2>1
<1>5. S \in SUBSET Nat
  OBVIOUS
<1> HIDE DEF S
<1>6. n \in S
  BY <1>1, <1>3, <1>4, <1>5, SetInduction
<1>7. \A i \in 1..(n + 1) : i >= n + 1 - n
  BY <1>1
<1> QED BY <1>6, <1>7 DEF S, n

LEMMA DecodeIs ==
  ASSUME NEW s \in Text, NEW p, NEW f, Decodes(f, s, p)
  PROVE  UrlDecode(s, p) = f[1]
<1> DEFINE Table(h) == h = [i \in 1..(Len(s) + 1) |-> DecodedAt(s, p, h, i)]
           c == CHOOSE h : Table(h)
<1>1. PICK g : DecodedFrom(1, g, s, p)
  BY DecodingExists
<1>2. Table(c)
  <2>1. Table(g)
    BY <1>1 DEF DecodedFrom
  <2> QED BY <2>1
<1>3. UrlDecode(s, p) = c[1]
  BY DEF UrlDecode, DecodedAt
<1>4. 1 \in 1..(Len(s) + 1)
  BY DEF Text
<1>5. Decodes(c, s, p)
  BY <1>2 DEF Decodes
<1> HIDE DEF c
<1> QED BY <1>3, <1>4, <1>5, DecodingUnique

LEMMA Decoding ==
  ASSUME NEW s \in Text, NEW p
  PROVE  UrlDecode(s, p) \in Text /\ \E f : Decodes(f, s, p) /\ UrlDecode(s, p) = f[1]
<1>1. PICK f : DecodedFrom(1, f, s, p)
  BY DecodingExists
<1>2. Decodes(f, s, p)
  BY <1>1 DEF DecodedFrom, Decodes
<1>3. f[1] \in Text
  <2>1. 1 \in 1..(Len(s) + 1)
    BY DEF Text
  <2> QED BY <1>1, <2>1 DEF DecodedFrom
<1> QED BY <1>2, <1>3, DecodeIs

LEMMA DecodeEmpty == ASSUME NEW p PROVE UrlDecode(<<>>, p) = <<>>
<1> SUFFICES ASSUME NEW s, s = <<>> PROVE UrlDecode(s, p) = <<>>
  OBVIOUS
<1>1. s \in Text /\ Len(s) = 0 /\ 1 \in 1..(Len(s) + 1)
  BY EmptySeq DEF Text
<1>2. PICK f : Decodes(f, s, p) /\ UrlDecode(s, p) = f[1]
  BY <1>1, Decoding
<1>3. f[1] = DecodedAt(s, p, f, 1)
  BY <1>1, <1>2 DEF Decodes
<1>4. 1 > Len(s)
  BY <1>1
<1> QED BY <1>2, <1>3, <1>4 DEF DecodedAt

(* What comes after k characters is decoded as if it stood alone. *)
LEMMA DecodeShift ==
  ASSUME NEW e \in Text, NEW t \in Text, NEW p, NEW f, Decodes(f, e \o t, p)
  PROVE  f[Len(e) + 1] = UrlDecode(t, p)
<1> DEFINE k == Len(e)
           s == e \o t
           g == [i \in 1..(Len(t) + 1) |-> f[k + i]]
<1>1. s \in Text /\ k \in Nat /\ Len(t) \in Nat /\ Len(s) = k + Len(t)
      /\ \A i \in 1..Len(t) : s[k + i] = t[i]
  BY DEF Text
<1> HIDE DEF k, s
<1>2. ASSUME NEW i \in 1..(Len(t) + 1) PROVE g[i] = DecodedAt(t, p, g, i)
  <2>1. k + i \in 1..(Len(s) + 1)
    BY <1>1
  <2>2. g[i] = DecodedAt(s, p, f, k + i)
    BY <2>1 DEF Decodes, s
  <2>3. CASE i > Len(t)
    <3>1. k + i > Len(s)
      BY <1>1, <2>3
    <3> QED BY <2>2, <2>3, <3>1 DEF DecodedAt
  <2>4. CASE i <= Len(t)
    <3>1. ~(k + i > Len(s)) /\ ~(i > Len(t)) /\ s[k + i] = t[i]
      BY <1>1, <2>4
    <3>2. (i + 2 <= Len(t)) <=> (k + i) + 2 <= Len(s)
      BY <1>1
    <3>3. i + 2 <= Len(t) => /\ s[(k + i) + 1] = t[i + 1] /\ s[(k + i) + 2] = t[i + 2]
                             /\ g[i + 3] = f[(k + i) + 3]
      <4> SUFFICES ASSUME i + 2 <= Len(t)
                   PROVE  s[(k + i) + 1] = t[i + 1] /\ s[(k + i) + 2] = t[i + 2] /\ g[i + 3] = f[(k + i) + 3]
        OBVIOUS
      <4>1. i + 1 \in 1..Len(t) /\ i + 2 \in 1..Len(t) /\ i + 3 \in 1..(Len(t) + 1)
            /\ (k + i) + 1 = k + (i + 1) /\ (k + i) + 2 = k + (i + 2) /\ (k + i) + 3 = k + (i + 3)
        BY <1>1
      <4> QED BY <1>1, <4>1
    <3>4. g[i + 1] = f[(k + i) + 1]
      <4>1. i + 1 \in 1..(Len(t) + 1) /\ (k + i) + 1 = k + (i + 1)
        BY <1>1, <2>4
      <4> QED BY <4>1
    <3> HIDE DEF g
    <3>5. IsEscape(s, k + i) <=> IsEscape(t, i)
      BY <3>1, <3>2, <3>3 DEF IsEscape
    <3>6. CASE IsEscape(t, i)
      <4>1. i + 2 <= Len(t)
        BY <3>6 DEF IsEscape
      <4> QED BY <2>2, <3>1, <3>3, <3>5, <3>6, <4>1 DEF DecodedAt
    <3>7. CASE ~IsEscape(t, i)
      BY <2>2, <3>1, <3>4, <3>5, <3>7 DEF DecodedAt
    <3> QED BY <3>6, <3>7
  <2> QED BY <1>1, <2>3, <2>4
<1>3. 1 \in 1..(Len(t) + 1) /\ g[1] = f[k + 1]
  BY <1>1
<1> HIDE DEF g
<1>4. Decodes(g, t, p)
  BY <1>2 DEF Decodes
<1> QED BY <1>3, <1>4, DecodeIs DEF k

-----------------------------------------------------------------------------
(* Reading.  A text is decoded to what it says: the digits are those that  *)
(* HexValue knows, escapes do not overlap, and after k characters what was  *)
(* read, with what is left to decode, is what the whole text comes to.      *)

LEMMA Digits ==
  ASSUME NEW ch \in Codes, NEW n \in 0..15
  PROVE  DigitIs(ch, n) <=> HexValue(ch) = n
<1>0. ch \in 0..255
  BY DEF Codes
<1>1. CASE ch \in 48..57
  BY <1>0, <1>1 DEF DigitIs, HexDigit, HexValue
<1>2. CASE ch \in 65..70
  BY <1>0, <1>2 DEF DigitIs, HexDigit, HexValue
<1>3. CASE ch \in 97..102
  BY <1>0, <1>3 DEF DigitIs, HexDigit, HexValue
<1>4. CASE ch \notin 48..57 /\ ch \notin 65..70 /\ ch \notin 97..102
  <2>1. HexValue(ch) = -1
    BY <1>4 DEF HexValue
  <2> QED BY <1>0, <1>4, <2>1 DEF DigitIs, HexDigit
<1> QED BY <1>1, <1>2, <1>3, <1>4

LEMMA DigitsOf ==
  ASSUME NEW ch \in Codes
  PROVE  /\ (\E n \in 0..15 : DigitIs(ch, n)) <=> HexValue(ch) >= 0
         /\ HexValue(ch) >= 0 => DigitOf(ch) = HexValue(ch)
<1>1. HexValue(ch) \in -1..15
  BY HexValues
<1>2. HexValue(ch) >= 0 => HexValue(ch) \in 0..15 /\ DigitIs(ch, HexValue(ch))
  BY <1>1, Digits
<1>3. \A n \in 0..15 : DigitIs(ch, n) => n = HexValue(ch)
  BY Digits
<1>4. ASSUME HexValue(ch) >= 0 PROVE DigitOf(ch) = HexValue(ch)
  <2> DEFINE n == CHOOSE n \in 0..15 : DigitIs(ch, n)
  <2>1. n \in 0..15 /\ DigitIs(ch, n)
    BY <1>2, <1>4
  <2> HIDE DEF n
  <2>2. n = HexValue(ch)
    BY <1>3, <2>1
  <2> QED BY <2>2 DEF DigitOf, n
<1>5. ASSUME NEW n \in 0..15, DigitIs(ch, n) PROVE HexValue(ch) >= 0
  BY <1>3, <1>5
<1> QED BY <1>2, <1>4, <1>5

LEMMA EscapeIs ==
  ASSUME NEW s \in Text, NEW i \in 1..Len(s)
  PROVE  /\ i \in Escapes(s) <=> IsEscape(s, i)
         /\ i \in Escapes(s) => /\ DigitOf(s[i + 1]) = HexValue(s[i + 1])
                                /\ DigitOf(s[i + 2]) = HexValue(s[i + 2])
<1>1. Len(s) \in Nat /\ \A k \in 1..Len(s) : s[k] \in Codes
  BY DEF Text
<1>2. CASE ~(i + 2 <= Len(s))
  BY <1>1, <1>2 DEF Escapes, IsEscape
<1>3. CASE i + 2 <= Len(s)
  <2>1. s[i + 1] \in Codes /\ s[i + 2] \in Codes /\ i \in 1..(Len(s) - 2)
    BY <1>1, <1>3
  <2>2. i \in Escapes(s) <=> /\ s[i] = Percent
                             /\ \E n \in 0..15 : DigitIs(s[i + 1], n)
                             /\ \E n \in 0..15 : DigitIs(s[i + 2], n)
    BY <2>1 DEF Escapes
  <2> QED BY <1>3, <2>1, <2>2, DigitsOf DEF IsEscape
<1> QED BY <1>2, <1>3

(* No escape begins within another. *)
LEMMA EscapesApart ==
  ASSUME NEW s \in Text, NEW i \in Escapes(s)
  PROVE  i \in 1..(Len(s) - 2) /\ i + 1 \notin Escapes(s) /\ i + 2 \notin Escapes(s)
<1>1. Len(s) \in Nat /\ i \in 1..(Len(s) - 2)
  BY DEF Text, Escapes
<1>2. HexValue(Percent) = -1 /\ Percent \in Codes
  BY DEF HexValue, Percent, Codes
<1>3. ASSUME NEW j \in {i + 1, i + 2}, s[j] = Percent PROVE FALSE
  <2>1. \E n \in 0..15 : DigitIs(s[j], n)
    BY <1>3 DEF Escapes
  <2> QED BY <1>2, <1>3, <2>1, DigitsOf
<1> QED BY <1>1, <1>3 DEF Escapes

Joined(c) == FoldLeft(LAMBDA read, said : read \o said, <<>>, c)

JoinFcn == [said \in Text |-> [read \in Text |-> read \o said]]

LEMMA JoinFcnType == JoinFcn \in [Text -> [Text -> Text]]
<1>1. \A said \in Text : \A read \in Text : read \o said \in Text
  BY ConcatProperties DEF Text
<1> QED BY <1>1 DEF JoinFcn

LEMMA JoinedIs ==
  ASSUME NEW s \in Paths
  PROVE  Joined(s) = Folded(JoinFcn, <<>>, s)
<1> DEFINE Table(h) == h = [t \in SUBSET DOMAIN s |->
                              IF t = {} THEN <<>> ELSE h[t \ {Max(t)}] \o s[Max(t)]]
           c == CHOOSE h : Table(h)
<1>0. <<>> \in Text
  BY EmptySeq DEF Text
<1>1. PICK it : FoldTable(Text, it, JoinFcn, <<>>, s)
  <2>1. \A base \in Text : \E it : FoldTable(Text, it, JoinFcn, base, s)
    BY JoinFcnType, FoldTableExists DEF Paths
  <2> QED BY <1>0, <2>1
<1>2. Table(it)
  <2>1. ASSUME NEW t \in SUBSET DOMAIN s, t # {}
        PROVE  it[t] = it[t \ {Max(t)}] \o s[Max(t)]
    <3>1. s[Max(t)] \in Text /\ t \ {Max(t)} \in SUBSET DOMAIN s
      BY <2>1, MaxOf DEF Paths
    <3>2. it[t \ {Max(t)}] \in Text
      BY <1>1, <3>1 DEF FoldTable
    <3>3. it[t] = JoinFcn[s[Max(t)]][it[t \ {Max(t)}]]
      BY <1>1, <2>1, <3>2 DEF FoldTable, FoldsIn
    <3> QED BY <3>1, <3>2, <3>3 DEF JoinFcn
  <2> QED BY <1>1, <2>1 DEF FoldTable, FoldsIn
<1>3. Table(c)
  BY <1>2
<1>4. Joined(s) = c[DOMAIN s]
  BY DEF Joined, FoldLeft, MapThenFoldSet
<1>5. FoldsIn(Text, c, JoinFcn, <<>>, s)
  <2>1. {} \in SUBSET DOMAIN s
    OBVIOUS
  <2>2. c[{}] = <<>>
    BY <1>3, <2>1
  <2>3. ASSUME NEW t \in SUBSET DOMAIN s, t # {}, c[t \ {Max(t)}] \in Text
        PROVE  c[t] = JoinFcn[s[Max(t)]][c[t \ {Max(t)}]]
    <3>1. c[t] = c[t \ {Max(t)}] \o s[Max(t)]
      BY <1>3, <2>3
    <3>2. s[Max(t)] \in Text
      BY <2>3, MaxOf DEF Paths
    <3> HIDE DEF c
    <3> QED BY <2>3, <3>1, <3>2 DEF JoinFcn
  <2> HIDE DEF c
  <2> QED BY <2>2, <2>3 DEF FoldsIn
<1> HIDE DEF c
<1>6. \A base \in Text : FoldsIn(Text, c, JoinFcn, base, s)
                      => c[DOMAIN s] = Folded(JoinFcn, base, s)
  BY JoinFcnType, FoldBridge DEF Paths
<1> QED BY <1>0, <1>4, <1>5, <1>6

LEMMA JoinedAppend ==
  ASSUME NEW s \in Paths, NEW said \in Text
  PROVE  Joined(s) \in Text /\ Joined(Append(s, said)) = Joined(s) \o said
<1>1. Append(s, said) \in Paths
  BY DEF Paths
<1>2. \A base \in Text :
        /\ Folded(JoinFcn, base, s) \in Text
        /\ Folded(JoinFcn, base, Append(s, said)) = JoinFcn[said][Folded(JoinFcn, base, s)]
  <2>1. s \in Seq(Text)
    BY DEF Paths
  <2>2. \A T : \A base \in T : \A f \in [Text -> [T -> T]] :
          /\ Folded(f, base, s) \in T
          /\ Folded(f, base, Append(s, said)) = f[said][Folded(f, base, s)]
    BY <2>1, FoldedAppend
  <2> QED BY <2>2, JoinFcnType
<1>3. <<>> \in Text
  BY EmptySeq DEF Text
<1> QED BY <1>1, <1>2, <1>3, JoinedIs DEF JoinFcn

LEMMA JoinedNone == Joined(<<>>) = <<>>
<1>1. <<>> \in Paths /\ <<>> \in Text
  BY EmptySeq DEF Paths, Text
<1>2. \A base \in Text : Folded(JoinFcn, base, <<>>) = base
  BY JoinFcnType, FoldedEmpty
<1> QED BY <1>1, <1>2, JoinedIs


Pieces(s, p, k) == [i \in 1..k |-> Says(s, p, i)]

LEMMA SaysType ==
  ASSUME NEW s \in Text, NEW p, NEW i \in 1..Len(s)
  PROVE  Says(s, p, i) \in Text
<1>0. s[i] \in Codes
  BY DEF Text
<1>1. <<>> \in Text /\ s[i] \in Codes /\ Space \in Codes
  BY <1>0, EmptySeq DEF Text, Space, Codes
<1>2. \A v \in Codes : <<v>> \in Text
  BY DEF Text
<1>3. ASSUME i \in Escapes(s) PROVE 16 * DigitOf(s[i + 1]) + DigitOf(s[i + 2]) \in Codes
  BY <1>3, EscapeIs, EscapeCode
<1> QED BY <1>1, <1>2, <1>3 DEF Says

LEMMA PiecesAppend ==
  ASSUME NEW s \in Text, NEW p, NEW k \in Nat, k < Len(s)
  PROVE  /\ Pieces(s, p, k) \in Paths
         /\ Pieces(s, p, k + 1) = Append(Pieces(s, p, k), Says(s, p, k + 1))
<1>1. Len(s) \in Nat /\ k + 1 \in 1..Len(s) /\ 1..k \subseteq 1..Len(s)
  BY DEF Text
<1> DEFINE a == Pieces(s, p, k)
           b == Pieces(s, p, k + 1)
           e == Says(s, p, k + 1)
<1>2. a \in Paths /\ Len(a) = k /\ \A i \in 1..k : a[i] = Says(s, p, i)
  <2>1. \A i \in 1..k : Says(s, p, i) \in Text
    BY <1>1, SaysType
  <2> QED BY <2>1 DEF Pieces, Paths
<1>3. b \in Paths /\ Len(b) = k + 1 /\ \A i \in 1..(k + 1) : b[i] = Says(s, p, i)
  <2>1. \A i \in 1..(k + 1) : i \in 1..Len(s)
    BY <1>1
  <2>2. \A i \in 1..(k + 1) : Says(s, p, i) \in Text
    BY <2>1, SaysType
  <2> QED BY <2>2 DEF Pieces, Paths
<1>4. e \in Text
  BY <1>1, SaysType
<1> HIDE DEF a, b, e
<1>5. Append(a, e) \in Paths /\ Len(Append(a, e)) = k + 1
      /\ \A i \in 1..k : Append(a, e)[i] = a[i]
      /\ Append(a, e)[k + 1] = e
  BY <1>2, <1>4 DEF Paths
<1>6. ASSUME NEW i \in 1..(k + 1) PROVE b[i] = Append(a, e)[i]
  <2>1. i \in 1..k \/ i = k + 1
    OBVIOUS
  <2>2. b[i] = Says(s, p, i)
    BY <1>3
  <2>3. CASE i \in 1..k
    BY <1>2, <1>5, <2>2, <2>3
  <2>4. CASE i = k + 1
    BY <1>5, <2>2, <2>4 DEF e
  <2> QED BY <2>1, <2>3, <2>4
<1> DEFINE r == Append(a, e)
<1>7. b = r
  <2>1. r \in Seq(Text) /\ b \in Seq(Text) /\ Len(b) = Len(r) /\ \A i \in 1..Len(b) : b[i] = r[i]
    BY <1>3, <1>5, <1>6 DEF Paths
  <2> HIDE DEF r
  <2> QED BY <2>1, SeqEqual
<1> QED BY <1>2, <1>7 DEF a, b, e

(* What is left from position i on, where the digits of an escape that     *)
(* began before i are done with.                                           *)
Rest(f, s, i) == IF i - 1 \in Escapes(s) THEN f[i + 2]
                 ELSE IF i - 2 \in Escapes(s) THEN f[i + 1] ELSE f[i]

LEMMA RestType ==
  ASSUME NEW s \in Text, NEW f, \A j \in 1..(Len(s) + 1) : f[j] \in Text, NEW i \in 1..(Len(s) + 1)
  PROVE  Rest(f, s, i) \in Text
<1>1. Len(s) \in Nat
  BY DEF Text
<1>2. i - 1 \in Escapes(s) => i + 2 \in 1..(Len(s) + 1)
  BY <1>1 DEF Escapes
<1>3. i - 2 \in Escapes(s) => i + 1 \in 1..(Len(s) + 1)
  BY <1>1 DEF Escapes
<1> QED BY <1>2, <1>3 DEF Rest

LEMMA RestSays ==
  ASSUME NEW s \in Text, NEW p, NEW f, Decodes(f, s, p),
         \A j \in 1..(Len(s) + 1) : f[j] \in Text, NEW i \in 1..Len(s)
  PROVE  Rest(f, s, i) = Says(s, p, i) \o Rest(f, s, i + 1)
<1>1. Len(s) \in Nat /\ i \in 1..(Len(s) + 1) /\ ~(i > Len(s)) /\ i + 1 \in 1..(Len(s) + 1)
      /\ (i + 1) - 1 = i /\ (i + 1) - 2 = i - 1 /\ (i + 1) + 2 = i + 3 /\ (i + 1) + 1 = i + 2
      /\ (i - 1) + 1 = i /\ (i - 2) + 1 = i - 1 /\ (i - 2) + 2 = i
  BY DEF Text
<1>2. f[i] = DecodedAt(s, p, f, i)
  BY <1>1 DEF Decodes
<1>3. Rest(f, s, i + 1) = IF i \in Escapes(s) THEN f[i + 3]
                          ELSE IF i - 1 \in Escapes(s) THEN f[i + 2] ELSE f[i + 1]
  BY <1>1 DEF Rest
<1>4. Rest(f, s, i + 1) \in Text
  BY <1>1, RestType
<1>5. \A x \in Text : <<>> \o x = x
  BY DEF Text
<1>6. CASE i - 1 \in Escapes(s)
  <2>1. i \notin Escapes(s)
    BY <1>1, <1>6, EscapesApart
  <2>2. Says(s, p, i) = <<>>
    BY <1>6 DEF Says
  <2>3. Rest(f, s, i) = Rest(f, s, i + 1)
    BY <1>3, <1>6, <2>1 DEF Rest
  <2> QED BY <1>4, <1>5, <2>2, <2>3
<1>7. CASE i - 1 \notin Escapes(s) /\ i - 2 \in Escapes(s)
  <2>1. i \notin Escapes(s)
    BY <1>1, <1>7, EscapesApart
  <2>2. Says(s, p, i) = <<>>
    BY <1>7 DEF Says
  <2>3. Rest(f, s, i) = Rest(f, s, i + 1)
    BY <1>3, <1>7, <2>1 DEF Rest
  <2> QED BY <1>4, <1>5, <2>2, <2>3
<1>8. CASE i - 1 \notin Escapes(s) /\ i - 2 \notin Escapes(s)
  <2>1. Rest(f, s, i) = f[i]
    BY <1>8 DEF Rest
  <2>2. CASE i \in Escapes(s)
    <3>1. Says(s, p, i) = <<16 * HexValue(s[i + 1]) + HexValue(s[i + 2])>>
      BY <1>8, <2>2, EscapeIs DEF Says
    <3>2. f[i] = <<16 * HexValue(s[i + 1]) + HexValue(s[i + 2])>> \o f[i + 3]
      BY <1>1, <1>2, <2>2, EscapeIs DEF DecodedAt
    <3> QED BY <1>3, <2>1, <2>2, <3>1, <3>2
  <2>3. CASE i \notin Escapes(s)
    <3>1. Says(s, p, i) = <<IF s[i] = Plus /\ p THEN Space ELSE s[i]>>
      BY <1>8, <2>3 DEF Says
    <3>2. f[i] = <<IF s[i] = Plus /\ p THEN Space ELSE s[i]>> \o f[i + 1]
      BY <1>1, <1>2, <2>3, EscapeIs DEF DecodedAt
    <3> QED BY <1>3, <1>8, <2>1, <2>3, <3>1, <3>2
  <2> QED BY <2>2, <2>3
<1> QED BY <1>6, <1>7, <1>8

(* Decoding a text is reading it. *)
LEMMA DecodeReads ==
  ASSUME NEW s \in Text, NEW p
  PROVE  UrlDecode(s, p) = Reading(s, p)
<1>1. PICK f : DecodedFrom(1, f, s, p)
  BY DecodingExists
<1>2. Decodes(f, s, p) /\ \A j \in 1..(Len(s) + 1) : f[j] \in Text
  BY <1>1 DEF DecodedFrom, Decodes
<1>3. UrlDecode(s, p) = f[1]
  BY <1>2, DecodeIs
<1> DEFINE n == Len(s)
           S == {k \in Nat : k <= n => Joined(Pieces(s, p, k)) \o Rest(f, s, k + 1) = f[1]}
<1>4. n \in Nat
  BY DEF Text
<1>5. 0 \in S
  <2>1. Pieces(s, p, 0) = <<>>
    BY DEF Pieces
  <2>2. 0 \notin Escapes(s) /\ -1 \notin Escapes(s)
    BY <1>4 DEF Escapes
  <2>3. Rest(f, s, 0 + 1) = f[1]
    BY <2>2 DEF Rest
  <2>4. f[1] \in Text
    BY <1>2, <1>4
  <2>5. <<>> \o f[1] = f[1]
    BY <2>4 DEF Text
  <2> QED BY <2>1, <2>3, <2>5, JoinedNone
<1>6. ASSUME NEW k \in S PROVE k + 1 \in S
  <2>0. k \in Nat /\ k + 1 \in Nat /\ (k <= n => Joined(Pieces(s, p, k)) \o Rest(f, s, k + 1) = f[1])
    OBVIOUS
  <2>1. ASSUME k + 1 <= n PROVE Joined(Pieces(s, p, k + 1)) \o Rest(f, s, (k + 1) + 1) = f[1]
    <3> DEFINE a == Joined(Pieces(s, p, k))
               b == Says(s, p, k + 1)
               c == Rest(f, s, (k + 1) + 1)
    <3>1. k + 1 \in 1..Len(s) /\ (k + 1) + 1 \in 1..(Len(s) + 1) /\ k < Len(s) /\ k <= n
      BY <1>4, <2>0, <2>1
    <3>2. a \in Text /\ b \in Text /\ Joined(Pieces(s, p, k + 1)) = a \o b
      BY <2>0, <3>1, PiecesAppend, SaysType, JoinedAppend
    <3>3. c \in Text
      BY <1>2, <3>1, RestType
    <3>4. Rest(f, s, k + 1) = b \o c
      BY <1>2, <3>1, RestSays
    <3>5. a \o (b \o c) = f[1]
      BY <2>0, <3>1, <3>4
    <3> HIDE DEF a, b, c
    <3>6. (a \o b) \o c = a \o (b \o c)
      <4>1. a \in Seq(Codes) /\ b \in Seq(Codes) /\ c \in Seq(Codes)
        BY <3>2, <3>3 DEF Text
      <4> QED BY <4>1, ConcatAssociative
    <3> QED BY <3>2, <3>5, <3>6 DEF c
  <2> HIDE DEF n
  <2> QED BY <2>0, <2>1
<1>7. S \in SUBSET Nat
  OBVIOUS
<1> HIDE DEF S
<1>8. n \in S
  BY <1>4, <1>5, <1>6, <1>7, SetInduction
<1>9. Joined(Pieces(s, p, n)) \o Rest(f, s, n + 1) = f[1]
  BY <1>4, <1>8 DEF S
<1>10. Rest(f, s, n + 1) = <<>>
  <2>1. (n + 1) - 1 \notin Escapes(s) /\ (n + 1) - 2 \notin Escapes(s)
    BY <1>4 DEF Escapes
  <2>2. n + 1 \in 1..(Len(s) + 1) /\ n + 1 > Len(s)
    BY <1>4
  <2>3. f[n + 1] = <<>>
    BY <1>2, <2>2 DEF Decodes, DecodedAt
  <2> QED BY <2>1, <2>3 DEF Rest
<1>11. Joined(Pieces(s, p, n)) \in Text
  <2>1. \A i \in 1..n : Says(s, p, i) \in Text
    BY SaysType
  <2>2. Pieces(s, p, n) \in Paths
    BY <1>4, <2>1 DEF Pieces, Paths
  <2>3. <<>> \in Text
    BY EmptySeq DEF Text
  <2> QED BY <2>2, <2>3, JoinedAppend
<1>12. Reading(s, p) = Joined(Pieces(s, p, n))
  BY DEF Reading, Joined, Pieces
<1>13. \A x \in Text : x \o <<>> = x
  BY DEF Text
<1> QED BY <1>3, <1>9, <1>10, <1>11, <1>12, <1>13

-----------------------------------------------------------------------------
(* UrlEncode.  Nothing that it writes separates the parts of a query. *)

Safe == Codes \ {Question, Ampersand, Equals}

LEMMA SafeIsText == Seq(Safe) \subseteq Text
BY DEF Safe, Text

LEMMA HexDigits == \A n \in 0..15 : HexDigit(n) \in Safe /\ HexValue(HexDigit(n)) = n
<1> SUFFICES ASSUME NEW n \in 0..15
             PROVE  HexDigit(n) \in Safe /\ HexValue(HexDigit(n)) = n
  OBVIOUS
<1>1. CASE n < 10
  <2>1. HexDigit(n) = 48 + n /\ 48 + n \in 48..57
    BY <1>1 DEF HexDigit
  <2>2. HexValue(48 + n) = (48 + n) - 48
    BY <2>1 DEF HexValue
  <2> QED BY <2>1, <2>2 DEF Safe, Codes, Question, Ampersand, Equals
<1>2. CASE ~(n < 10)
  <2>1. HexDigit(n) = 55 + n /\ 55 + n \in 65..70 /\ 55 + n \notin 48..57
    BY <1>2 DEF HexDigit
  <2>2. HexValue(55 + n) = (55 + n) - 55
    BY <2>1 DEF HexValue
  <2> QED BY <2>1, <2>2 DEF Safe, Codes, Question, Ampersand, Equals
<1> QED BY <1>1, <1>2

LEMMA Nibbles ==
  ASSUME NEW ch \in Codes
  PROVE  ch \div 16 \in 0..15 /\ ch % 16 \in 0..15 /\ 16 * (ch \div 16) + (ch % 16) = ch
BY DEF Codes

LEMMA UnreservedIs ==
  ASSUME NEW ch \in Codes, Unreserved(ch)
  PROVE  ch \in Safe /\ ch # Percent /\ ch # Plus
BY DEF Codes, Unreserved, IsAlnum, Safe, Question, Ampersand, Equals, Percent, Plus, Dot

LEMMA EncodedType == ASSUME NEW ch \in Codes, NEW p PROVE Encoded(ch, p) \in Seq(Safe)
<1>1. CASE Unreserved(ch)
  <2>1. ch \in Safe
    BY <1>1, UnreservedIs
  <2>2. <<ch>> \in Seq(Safe)
    BY <2>1
  <2> QED BY <1>1, <2>2 DEF Encoded
<1>2. CASE ~Unreserved(ch) /\ ch = Space /\ p
  <2>1. Plus \in Safe
    BY DEF Plus, Safe, Codes, Question, Ampersand, Equals
  <2>2. <<Plus>> \in Seq(Safe)
    BY <2>1
  <2> QED BY <1>2, <2>2 DEF Encoded
<1>3. CASE ~Unreserved(ch) /\ ~(ch = Space /\ p)
  <2> DEFINE a == HexDigit(ch \div 16)
             b == HexDigit(ch % 16)
  <2>1. Percent \in Safe /\ a \in Safe /\ b \in Safe
    BY Nibbles, HexDigits DEF Percent, Safe, Codes, Question, Ampersand, Equals
  <2>2. Encoded(ch, p) = <<Percent, a, b>>
    BY <1>3 DEF Encoded
  <2> HIDE DEF a, b
  <2> QED BY <2>1, <2>2
<1> QED BY <1>1, <1>2, <1>3

EncodeStep(result, ch, p) == result \o Encoded(ch, p)

EncodeFcn(p) == [ch \in Codes |-> [result \in Seq(Safe) |-> EncodeStep(result, ch, p)]]

LEMMA EncodeFcnType == ASSUME NEW p PROVE EncodeFcn(p) \in [Codes -> [Seq(Safe) -> Seq(Safe)]]
<1>1. \A ch \in Codes : \A result \in Seq(Safe) : EncodeStep(result, ch, p) \in Seq(Safe)
  BY EncodedType, ConcatProperties DEF EncodeStep
<1> QED BY <1>1 DEF EncodeFcn

LEMMA EncodeIs ==
  ASSUME NEW s \in Text, NEW p
  PROVE  UrlEncode(s, p) = Folded(EncodeFcn(p), <<>>, s)
<1> DEFINE Table(h) == h = [t \in SUBSET DOMAIN s |->
                              IF t = {} THEN <<>> ELSE EncodeStep(h[t \ {Max(t)}], s[Max(t)], p)]
           c == CHOOSE h : Table(h)
           T == Seq(Safe)
<1>0. <<>> \in T
  BY EmptySeq
<1>1. PICK it : FoldTable(T, it, EncodeFcn(p), <<>>, s)
  <2> HIDE DEF T
  <2>1. EncodeFcn(p) \in [Codes -> [T -> T]]
    BY EncodeFcnType DEF T
  <2>2. \A base \in T : \E it : FoldTable(T, it, EncodeFcn(p), base, s)
    BY <2>1, FoldTableExists DEF Text
  <2> QED BY <1>0, <2>2
<1>2. Table(it)
  <2>1. ASSUME NEW t \in SUBSET DOMAIN s, t # {}
        PROVE  it[t] = EncodeStep(it[t \ {Max(t)}], s[Max(t)], p)
    <3>1. s[Max(t)] \in Codes /\ t \ {Max(t)} \in SUBSET DOMAIN s
      BY <2>1, MaxOf DEF Text
    <3>2. it[t \ {Max(t)}] \in T
      BY <1>1, <3>1 DEF FoldTable
    <3>3. it[t] = EncodeFcn(p)[s[Max(t)]][it[t \ {Max(t)}]]
      BY <1>1, <2>1, <3>2 DEF FoldTable, FoldsIn
    <3> QED BY <3>1, <3>2, <3>3 DEF EncodeFcn
  <2> QED BY <1>1, <2>1 DEF FoldTable, FoldsIn
<1>3. Table(c)
  BY <1>2
<1>4. UrlEncode(s, p) = c[DOMAIN s]
  BY DEF UrlEncode, FoldLeft, MapThenFoldSet, EncodeStep
<1>5. FoldsIn(T, c, EncodeFcn(p), <<>>, s)
  <2>1. {} \in SUBSET DOMAIN s
    OBVIOUS
  <2>2. c[{}] = <<>>
    BY <1>3, <2>1
  <2>3. ASSUME NEW t \in SUBSET DOMAIN s, t # {}, c[t \ {Max(t)}] \in T
        PROVE  c[t] = EncodeFcn(p)[s[Max(t)]][c[t \ {Max(t)}]]
    <3>1. c[t] = EncodeStep(c[t \ {Max(t)}], s[Max(t)], p)
      BY <1>3, <2>3
    <3>2. s[Max(t)] \in Codes
      BY <2>3, MaxOf DEF Text
    <3> HIDE DEF c
    <3> QED BY <2>3, <3>1, <3>2 DEF EncodeFcn
  <2> HIDE DEF c
  <2> QED BY <2>2, <2>3 DEF FoldsIn
<1> HIDE DEF c
<1>6. \A base \in Seq(Safe) : FoldsIn(Seq(Safe), c, EncodeFcn(p), base, s)
                           => c[DOMAIN s] = Folded(EncodeFcn(p), base, s)
  BY EncodeFcnType, FoldBridge DEF Text
<1> QED BY <1>0, <1>4, <1>5, <1>6

LEMMA EncodeAppend ==
  ASSUME NEW s \in Text, NEW ch \in Codes, NEW p
  PROVE  /\ UrlEncode(s, p) \in Seq(Safe)
         /\ UrlEncode(Append(s, ch), p) = UrlEncode(s, p) \o Encoded(ch, p)
<1>1. Append(s, ch) \in Text
  BY DEF Text
<1>2. \A base \in Seq(Safe) :
        /\ Folded(EncodeFcn(p), base, s) \in Seq(Safe)
        /\ Folded(EncodeFcn(p), base, Append(s, ch)) = EncodeFcn(p)[ch][Folded(EncodeFcn(p), base, s)]
  BY EncodeFcnType, FoldedAppend DEF Text
<1>3. <<>> \in Seq(Safe)
  BY EmptySeq
<1> QED BY <1>1, <1>2, <1>3, EncodeIs DEF EncodeFcn, EncodeStep

LEMMA EncodeEmpty == ASSUME NEW p PROVE UrlEncode(<<>>, p) = <<>>
<1>1. <<>> \in Text /\ <<>> \in Seq(Safe)
  BY EmptySeq DEF Text
<1>2. \A base \in Seq(Safe) : Folded(EncodeFcn(p), base, <<>>) = base
  BY EncodeFcnType, FoldedEmpty
<1> QED BY <1>1, <1>2, EncodeIs

(* What was encoded is decoded again, whatever comes after it. *)
LEMMA DecodeEncoded ==
  ASSUME NEW ch \in Codes, NEW t \in Text, NEW p \in BOOLEAN, NEW q \in BOOLEAN, p => q
  PROVE  UrlDecode(Encoded(ch, p) \o t, q) = <<ch>> \o UrlDecode(t, q)
<1> DEFINE e == Encoded(ch, p)
           s == e \o t
<1>1. e \in Text /\ s \in Text
  BY EncodedType, SafeIsText, ConcatProperties DEF Text
<1>2. PICK f : Decodes(f, s, q) /\ UrlDecode(s, q) = f[1]
  BY <1>1, Decoding
<1>3. f[Len(e) + 1] = UrlDecode(t, q)
  BY <1>1, <1>2, DecodeShift
<1>4. f[1] = DecodedAt(s, q, f, 1)
  <2>1. 1 \in 1..(Len(s) + 1)
    BY <1>1 DEF Text
  <2> QED BY <1>2, <2>1 DEF Decodes
<1>5. CASE Unreserved(ch) \/ (ch = Space /\ p)
  <2>1. PICK d \in Codes : e = <<d>> /\ d # Percent /\ ch = IF d = Plus /\ q THEN Space ELSE d
    <3>1. CASE Unreserved(ch)
      BY <3>1, UnreservedIs DEF Encoded
    <3>2. CASE ~Unreserved(ch) /\ ch = Space /\ p
      BY <3>2 DEF Encoded, Plus, Percent, Codes
    <3> QED BY <1>5, <3>1, <3>2
  <2>2. Len(e) = 1 /\ s[1] = d /\ ~(1 > Len(s)) /\ Len(e) + 1 = 1 + 1
    BY <2>1 DEF Text
  <2>3. ~IsEscape(s, 1)
    BY <2>1, <2>2 DEF IsEscape
  <2>4. f[1] = <<ch>> \o f[1 + 1]
    <3> HIDE DEF s, e
    <3> QED BY <1>4, <2>1, <2>2, <2>3 DEF DecodedAt
  <2> QED BY <1>2, <1>3, <2>2, <2>4
<1>6. CASE ~Unreserved(ch) /\ ~(ch = Space /\ p)
  <2> DEFINE a == HexDigit(ch \div 16)
             b == HexDigit(ch % 16)
  <2>1. a \in Codes /\ b \in Codes /\ HexValue(a) = ch \div 16 /\ HexValue(b) = ch % 16
    BY Nibbles, HexDigits DEF Safe
  <2>2. e = <<Percent, a, b>>
    BY <1>6 DEF Encoded
  <2> HIDE DEF a, b
  <2>6. HexValue(a) >= 0 /\ HexValue(b) >= 0 /\ 16 * HexValue(a) + HexValue(b) = ch
    BY <2>1, Nibbles
  <2>3. Len(e) = 3 /\ s[1] = Percent /\ s[1 + 1] = a /\ s[1 + 2] = b /\ ~(1 > Len(s))
        /\ 1 + 2 <= Len(s) /\ Len(e) + 1 = 1 + 3
    BY <2>2 DEF Text
  <2> HIDE DEF s, e
  <2>4. IsEscape(s, 1)
    BY <2>6, <2>3 DEF IsEscape
  <2>5. f[1] = <<ch>> \o f[1 + 3]
    BY <1>4, <2>6, <2>3, <2>4 DEF DecodedAt
  <2> QED BY <1>2, <1>3, <2>3, <2>5 DEF s, e
<1> QED BY <1>5, <1>6

LEMMA ConsAppend ==
  ASSUME NEW x \in Text, NEW ch \in Codes, NEW y \in Text
  PROVE  x \o (<<ch>> \o y) = Append(x, ch) \o y
<1> DEFINE h == <<ch>>
<1>1. Append(x, ch) = x \o h /\ h \in Text
  BY AppendIsConcat DEF Text
<1> HIDE DEF h
<1>2. (x \o h) \o y = x \o (h \o y)
  BY <1>1, ConcatAssociative DEF Text
<1> QED BY <1>1, <1>2, Zenon DEF h

LEMMA DecodeEncode ==
  ASSUME NEW p \in BOOLEAN, NEW q \in BOOLEAN, p => q
  PROVE  \A s \in Text : UrlEncode(s, p) \in Seq(Safe) /\ UrlDecode(UrlEncode(s, p), q) = s
<1> DEFINE S == {s \in Text : \A t \in Text :
                   UrlDecode(UrlEncode(s, p) \o t, q) = s \o UrlDecode(t, q)}
<1>1. <<>> \in S
  <2>1. <<>> \in Text
    BY EmptySeq DEF Text
  <2>2. ASSUME NEW t \in Text
        PROVE  UrlDecode(UrlEncode(<<>>, p) \o t, q) = <<>> \o UrlDecode(t, q)
    <3>1. UrlDecode(t, q) \in Text
      BY Decoding
    <3>2. UrlEncode(<<>>, p) \o t = t /\ <<>> \o UrlDecode(t, q) = UrlDecode(t, q)
      BY <3>1, EncodeEmpty, ConcatEmptySeq DEF Text
    <3> QED BY <3>2
  <2> QED BY <2>1, <2>2
<1>2. ASSUME NEW s \in S, NEW e \in Codes PROVE Append(s, e) \in S
  <2>0. s \in Text /\ \A t \in Text : UrlDecode(UrlEncode(s, p) \o t, q) = s \o UrlDecode(t, q)
    OBVIOUS
  <2> HIDE DEF S
  <2>1. Append(s, e) \in Text
    BY <2>0 DEF Text
  <2>2. ASSUME NEW t \in Text
        PROVE  UrlDecode(UrlEncode(Append(s, e), p) \o t, q) = Append(s, e) \o UrlDecode(t, q)
    <3> DEFINE u == UrlEncode(s, p)
               v == Encoded(e, p)
               w == UrlDecode(t, q)
    <3>1. u \in Text /\ v \in Text /\ w \in Text /\ UrlEncode(Append(s, e), p) = u \o v
      BY <2>0, EncodeAppend, EncodedType, SafeIsText, Decoding
    <3>2. UrlDecode(v \o t, q) = <<e>> \o w
      BY DecodeEncoded
    <3> HIDE DEF u, v, w
    <3>3. (u \o v) \o t = u \o (v \o t) /\ v \o t \in Text
      BY <3>1, ConcatAssociative, ConcatProperties DEF Text
    <3>4. s \o (<<e>> \o w) = Append(s, e) \o w
      BY <2>0, <3>1, ConsAppend
    <3>5. UrlDecode(u \o (v \o t), q) = s \o UrlDecode(v \o t, q)
      BY <2>0, <3>3 DEF u
    <3> QED BY <3>1, <3>2, <3>3, <3>4, <3>5 DEF w
  <2> QED BY <2>1, <2>2 DEF S
<1>3. S \in SUBSET Seq(Codes)
  BY DEF Text
<1> HIDE DEF S
<1>4. \A s \in Text : s \in S
  BY <1>1, <1>2, <1>3, SeqInduction DEF Text
<1>5. ASSUME NEW s \in Text
      PROVE  UrlEncode(s, p) \in Seq(Safe) /\ UrlDecode(UrlEncode(s, p), q) = s
  <2>1. UrlEncode(s, p) \in Seq(Safe)
    <3>1. 0 \in Codes
      BY DEF Codes
    <3> QED BY <3>1, EncodeAppend
  <2>2. UrlEncode(s, p) \o <<>> = UrlEncode(s, p) /\ s \o <<>> = s /\ <<>> \in Text
    BY <2>1, SafeIsText, ConcatEmptySeq, EmptySeq DEF Text
  <2>3. UrlDecode(UrlEncode(s, p) \o <<>>, q) = s \o UrlDecode(<<>>, q)
    BY <1>4, <2>2 DEF S
  <2> QED BY <2>1, <2>2, <2>3, DecodeEmpty
<1> QED BY <1>5

-----------------------------------------------------------------------------
(* Cut. *)

Without(s, ch) == \A i \in 1..Len(s) : s[i] # ch

LEMMA CutNone ==
  ASSUME NEW s \in Text, NEW ch, Without(s, ch)
  PROVE  Cut(s, ch) = <<s, <<>>>>
<1>1. {i \in 1..Len(s) : s[i] = ch} = {}
  BY DEF Without
<1>2. SelectInSeq(s, LAMBDA c : c = ch) = 0
  BY <1>1 DEF SelectInSeq
<1> QED BY <1>2 DEF Cut

LEMMA CutAt ==
  ASSUME NEW s \in Text, NEW ch, NEW j \in 1..Len(s), s[j] = ch,
         \A i \in 1..(j - 1) : s[i] # ch
  PROVE  Cut(s, ch) = <<SubSeq(s, 1, j - 1), SubSeq(s, j + 1, Len(s))>>
<1> DEFINE I == {i \in 1..Len(s) : s[i] = ch}
<1>0. Len(s) \in Nat
  BY DEF Text
<1>1. j \in I /\ \A i \in I : j <= i
  BY <1>0
<1>2. I # {} /\ Min(I) = j
  <2>1. \A k \in I : (\A i \in I : k <= i) => k = j
    BY <1>0, <1>1
  <2> HIDE DEF I
  <2> QED BY <1>1, <2>1 DEF Min
<1>3. SelectInSeq(s, LAMBDA c : c = ch) = j
  BY <1>2 DEF SelectInSeq
<1>4. j # 0
  BY <1>0
<1> HIDE DEF I
<1> QED BY <1>3, <1>4 DEF Cut

LEMMA CutConcat ==
  ASSUME NEW x \in Text, NEW y \in Text, NEW ch \in Codes, Without(x, ch)
  PROVE  Cut(x \o <<ch>> \o y, ch) = <<x, y>>
<1> DEFINE s == x \o <<ch>> \o y
           j == Len(x) + 1
<1>1. s \in Text /\ j \in 1..Len(s) /\ s[j] = ch /\ Len(s) = j + Len(y)
      /\ Len(x) \in Nat /\ Len(y) \in Nat /\ j - 1 = Len(x)
  BY DEF Text
<1>2. \A i \in 1..(j - 1) : s[i] = x[i]
  BY DEF Text
<1>3. \A i \in 1..Len(y) : s[j + i] = y[i]
  BY DEF Text
<1> HIDE DEF s
<1>4. SubSeq(s, 1, j - 1) = x
  <2> DEFINE a == SubSeq(s, 1, j - 1)
  <2>1. a \in Text /\ Len(a) = Len(x) /\ \A i \in 1..Len(x) : a[i] = s[i]
    BY <1>1 DEF Text
  <2>2. \A i \in 1..Len(a) : a[i] = x[i]
    BY <1>1, <1>2, <2>1
  <2> HIDE DEF a
  <2>3. a = x
    BY <2>1, <2>2, SeqEqual DEF Text
  <2> QED BY <2>3 DEF a
<1>5. SubSeq(s, j + 1, Len(s)) = y
  <2> DEFINE a == SubSeq(s, j + 1, Len(s))
  <2>1. a \in Text /\ Len(a) = Len(y) /\ \A i \in 1..Len(y) : a[i] = s[j + i]
    BY <1>1 DEF Text
  <2>2. \A i \in 1..Len(a) : a[i] = y[i]
    BY <1>3, <2>1
  <2> HIDE DEF a
  <2>3. a = y
    BY <2>1, <2>2, SeqEqual DEF Text
  <2> QED BY <2>3 DEF a
<1>6. \A i \in 1..(j - 1) : s[i] # ch
  BY <1>1, <1>2 DEF Without
<1> HIDE DEF j
<1>7. Cut(s, ch) = <<SubSeq(s, 1, j - 1), SubSeq(s, j + 1, Len(s))>>
  BY <1>1, <1>6, CutAt
<1> QED BY <1>4, <1>5, <1>7 DEF s

(* A text either lacks the character or is cut at the first one. *)
LEMMA CutCases ==
  ASSUME NEW s \in Text, NEW ch \in Codes
  PROVE  \/ Without(s, ch) /\ Cut(s, ch) = <<s, <<>>>>
         \/ \E x, y \in Text : s = x \o <<ch>> \o y /\ Without(x, ch) /\ Cut(s, ch) = <<x, y>>
<1>0. Len(s) \in Nat /\ \A i \in 1..Len(s) : s[i] \in Codes
  BY DEF Text
<1>1. CASE Without(s, ch)
  BY <1>1, CutNone
<1>2. CASE ~Without(s, ch)
  <2> DEFINE I == {i \in 1..Len(s) : s[i] = ch}
  <2>1. I # {} /\ I \in SUBSET Nat
    BY <1>2 DEF Without
  <2>2. PICK j \in I : \A i \in I : j <= i
    <3> HIDE DEF I
    <3> QED BY <2>1, LeastOf
  <2>3. j \in 1..Len(s) /\ s[j] = ch
    OBVIOUS
  <2>4. \A i \in 1..(j - 1) : s[i] # ch
    <3> SUFFICES ASSUME NEW i \in 1..(j - 1), s[i] = ch PROVE FALSE
      OBVIOUS
    <3>1. i \in I /\ ~(j <= i)
      BY <1>0, <2>3
    <3> QED BY <3>1, <2>2
  <2> HIDE DEF I
  <2> DEFINE x == SubSeq(s, 1, j - 1)
             y == SubSeq(s, j + 1, Len(s))
  <2>5. x \in Text /\ Len(x) = j - 1 /\ \A i \in 1..(j - 1) : x[i] = s[i]
    BY <1>0, <2>3 DEF Text
  <2>6. y \in Text /\ Len(y) = Len(s) - j /\ \A i \in 1..(Len(s) - j) : y[i] = s[j + i]
    BY <1>0, <2>3 DEF Text
  <2>7. Cut(s, ch) = <<x, y>>
    BY <2>3, <2>4, CutAt
  <2> HIDE DEF x, y
  <2>8. Without(x, ch)
    BY <2>4, <2>5 DEF Without
  <2>9. s = x \o <<ch>> \o y
    <3> DEFINE r == x \o <<ch>> \o y
    <3>1. r \in Text /\ Len(r) = Len(s)
      BY <1>0, <2>3, <2>5, <2>6 DEF Text
    <3>2. ASSUME NEW i \in 1..Len(s) PROVE s[i] = r[i]
      <4>1. CASE i \in 1..(j - 1)
        BY <2>3, <2>5, <2>6, <4>1 DEF Text
      <4>2. CASE i = j
        BY <2>3, <2>5, <2>6, <4>2 DEF Text
      <4>3. CASE i - j \in 1..(Len(s) - j)
        <5>1. s[i] = y[i - j]
          BY <1>0, <2>3, <2>6, <4>3
        <5>2. r[i] = y[i - j]
          BY <1>0, <2>3, <2>5, <2>6, <4>3 DEF Text
        <5> QED BY <5>1, <5>2
      <4>4. i \in 1..(j - 1) \/ i = j \/ i - j \in 1..(Len(s) - j)
        BY <1>0, <2>3
      <4> HIDE DEF r
      <4> QED BY <4>1, <4>2, <4>3, <4>4
    <3> HIDE DEF r
    <3>3. s = r
      BY <3>1, <3>2, SeqEqual DEF Text
    <3> QED BY <3>3 DEF r
  <2> QED BY <2>5, <2>6, <2>7, <2>8, <2>9
<1> QED BY <1>1, <1>2

LEMMA CutType ==
  ASSUME NEW s \in Text, NEW ch \in Codes
  PROVE  Cut(s, ch)[1] \in Text /\ Cut(s, ch)[2] \in Text
<1>1. <<>> \in Text
  BY EmptySeq DEF Text
<1>2. \A x, y \in Text : <<x, y>>[1] \in Text /\ <<x, y>>[2] \in Text
  OBVIOUS
<1>3. \E x, y \in Text : Cut(s, ch) = <<x, y>>
  BY <1>1, CutCases, Zenon
<1> QED BY <1>2, <1>3, Zenon

LEMMA UriType == ASSUME NEW s \in Text PROVE Uri(s) \in Text
<1>1. Question \in Codes
  BY DEF Question, Codes
<1> QED BY <1>1, CutType, Decoding DEF Uri

LEMMA SafeWithout ==
  ASSUME NEW s \in Seq(Safe)
  PROVE  Without(s, Question) /\ Without(s, Ampersand) /\ Without(s, Equals)
<1>1. \A i \in 1..Len(s) : s[i] \in Safe
  OBVIOUS
<1> QED BY <1>1 DEF Without, Safe

-----------------------------------------------------------------------------
(* Split, by the parts that are complete and the last one. *)

SplitsTo(s, d, parts, last) ==
  parts \in Paths /\ last \in Text /\ Split(s, d) = Append(parts, last)

LEMMA SplitNext ==
  ASSUME NEW s \in Text, NEW d, NEW parts, NEW last, SplitsTo(s, d, parts, last), NEW ch \in Codes
  PROVE  IF ch = d THEN SplitsTo(Append(s, ch), d, Append(parts, last), <<>>)
                   ELSE SplitsTo(Append(s, ch), d, parts, Append(last, ch))
<1>0. parts \in Seq(Text) /\ last \in Text /\ <<>> \in Text
  BY EmptySeq DEF SplitsTo, Paths, Text
<1>1. Split(Append(s, ch), d) = SplitStep(Append(parts, last), ch, d)
  BY SplitAppend DEF SplitsTo
<1>2. CASE ch = d
  BY <1>0, <1>1, <1>2 DEF SplitStep, SplitsTo, Paths
<1>3. CASE ch # d
  <2> DEFINE r == Append(parts, last)
             e == Append(last, ch)
  <2>1. r \in Seq(Text) /\ Len(r) = Len(parts) + 1 /\ r[Len(r)] = last /\ Len(parts) \in Nat
        /\ \A i \in 1..Len(parts) : r[i] = parts[i]
    BY <1>0
  <2>2. e \in Text /\ Append(parts, e) \in Seq(Text) /\ Len(Append(parts, e)) = Len(parts) + 1
        /\ Append(parts, e)[Len(parts) + 1] = e
        /\ \A i \in 1..Len(parts) : Append(parts, e)[i] = parts[i]
    <3>1. e \in Text
      BY <1>0 DEF Text
    <3> HIDE DEF e
    <3> QED BY <1>0, <3>1, AppendProperties
  <2>3. SplitStep(r, ch, d) = [r EXCEPT ![Len(r)] = e]
    BY <1>3, <2>1 DEF SplitStep
  <2> HIDE DEF r, e
  <2> DEFINE x == [r EXCEPT ![Len(r)] = e]
  <2>4. x \in Seq(Text) /\ Len(x) = Len(r) /\ \A i \in 1..Len(r) : x[i] = IF i = Len(r) THEN e ELSE r[i]
    <3>1. Len(r) \in 1..Len(r)
      BY <2>1
    <3> QED BY <2>1, <2>2, <3>1, ExceptSeq
  <2> HIDE DEF x
  <2>5. x = Append(parts, e)
    <3>1. \A i \in 1..Len(x) : x[i] = Append(parts, e)[i]
      BY <2>1, <2>2, <2>4
    <3> QED BY <2>1, <2>2, <2>4, <3>1, SeqEqual
  <2>6. Split(Append(s, ch), d) = Append(parts, e)
    BY <1>1, <2>3, <2>5 DEF r, x
  <2> QED BY <1>0, <1>3, <2>2, <2>6 DEF SplitsTo, Paths, e
<1> QED BY <1>2, <1>3

LEMMA SplitsExist ==
  ASSUME NEW s \in Text, NEW d
  PROVE  \E parts, last : SplitsTo(s, d, parts, last)
<1>1. Split(s, d) \in Parts
  <2>1. 0 \in Codes
    BY DEF Codes
  <2> QED BY <2>1, SplitAppend
<1>2. PICK p \in Seq(Text), e \in Text : Split(s, d) = Append(p, e)
  BY <1>1, SequenceEmptyOrAppend DEF Parts
<1> QED BY <1>2 DEF SplitsTo, Paths

LEMMA SplitStart == ASSUME NEW d PROVE SplitsTo(<<>>, d, <<>>, <<>>)
<1>1. <<>> \in Text /\ <<>> \in Paths
  BY EmptySeq DEF Text, Paths
<1>2. Append(<<>>, <<>>) = << <<>> >>
  OBVIOUS
<1> QED BY <1>1, <1>2, SplitEmpty DEF SplitsTo

LEMMA ConcatAppend ==
  ASSUME NEW x \in Text, NEW y \in Text, NEW ch \in Codes
  PROVE  x \o Append(y, ch) = Append(x \o y, ch)
<1> DEFINE h == <<ch>>
<1>1. h \in Text /\ Append(y, ch) = y \o h
  BY AppendIsConcat DEF Text
<1>2. x \o y \in Text /\ Append(x \o y, ch) = (x \o y) \o h
  <2>1. x \o y \in Text
    BY ConcatProperties DEF Text
  <2> QED BY <2>1, AppendIsConcat DEF Text
<1> HIDE DEF h
<1>3. (x \o y) \o h = x \o (y \o h)
  BY <1>1, ConcatAssociative DEF Text
<1> QED BY <1>1, <1>2, <1>3, Zenon

(* The beginning of a text. *)
LEMMA WithoutAppend ==
  ASSUME NEW t \in Text, NEW ch \in Codes, NEW d, Without(Append(t, ch), d)
  PROVE  Without(t, d) /\ ch # d
<1>1. /\ Len(Append(t, ch)) = Len(t) + 1 /\ Append(t, ch)[Len(t) + 1] = ch /\ Len(t) \in Nat
      /\ \A i \in 1..Len(t) : Append(t, ch)[i] = t[i]
  BY DEF Text
<1> QED BY <1>1 DEF Without

LEMMA SplitTail ==
  ASSUME NEW s \in Text, NEW d, NEW parts, NEW last, SplitsTo(s, d, parts, last)
  PROVE  \A t \in Text : Without(t, d) => SplitsTo(s \o t, d, parts, last \o t)
<1> DEFINE S == {t \in Text : Without(t, d) => SplitsTo(s \o t, d, parts, last \o t)}
<1>0. last \in Text
  BY DEF SplitsTo
<1>1. <<>> \in S
  <2>1. <<>> \in Text /\ s \o <<>> = s /\ last \o <<>> = last
    BY <1>0, EmptySeq, ConcatEmptySeq DEF Text
  <2> QED BY <2>1
<1>2. ASSUME NEW t \in S, NEW e \in Codes PROVE Append(t, e) \in S
  <2>0. t \in Text /\ (Without(t, d) => SplitsTo(s \o t, d, parts, last \o t))
    OBVIOUS
  <2>1. Append(t, e) \in Text
    BY <2>0 DEF Text
  <2> HIDE DEF S
  <2>2. ASSUME Without(Append(t, e), d)
        PROVE  SplitsTo(s \o Append(t, e), d, parts, last \o Append(t, e))
    <3>1. Without(t, d) /\ e # d
      BY <2>0, <2>2, WithoutAppend
    <3>2. s \o t \in Text /\ SplitsTo(s \o t, d, parts, last \o t)
      BY <2>0, <3>1, ConcatProperties DEF Text
    <3>3. SplitsTo(Append(s \o t, e), d, parts, Append(last \o t, e))
      BY <3>1, <3>2, SplitNext
    <3>4. s \o Append(t, e) = Append(s \o t, e) /\ last \o Append(t, e) = Append(last \o t, e)
      BY <1>0, <2>0, ConcatAppend
    <3> QED BY <3>3, <3>4
  <2> QED BY <2>1, <2>2 DEF S
<1>3. S \in SUBSET Seq(Codes)
  BY DEF Text
<1> HIDE DEF S
<1>4. \A t \in Text : t \in S
  BY <1>1, <1>2, <1>3, SeqInduction DEF Text
<1> QED BY <1>4 DEF S

LEMMA SplitOne ==
  ASSUME NEW t \in Text, NEW d, Without(t, d)
  PROVE  Split(t, d) = <<t>>
<1>1. <<>> \in Text /\ <<>> \o t = t
  BY EmptySeq, ConcatEmptySeq DEF Text
<1>2. SplitsTo(<<>> \o t, d, <<>>, <<>> \o t)
  BY <1>1, SplitStart, SplitTail
<1>3. Append(<<>>, t) = <<t>>
  OBVIOUS
<1> QED BY <1>1, <1>2, <1>3 DEF SplitsTo

LEMMA SplitMore ==
  ASSUME NEW s \in Text, NEW d \in Codes, NEW t \in Text, Without(t, d)
  PROVE  Split(s, d) \in Paths /\ Split(s \o <<d>> \o t, d) = Append(Split(s, d), t)
<1>1. PICK parts, last : SplitsTo(s, d, parts, last)
  BY SplitsExist
<1>2. Append(s, d) \in Text /\ Append(s, d) = s \o <<d>>
  BY AppendIsConcat DEF Text
<1>3. SplitsTo(Append(s, d), d, Append(parts, last), <<>>)
  BY <1>1, SplitNext
<1>4. SplitsTo(Append(s, d) \o t, d, Append(parts, last), <<>> \o t)
  BY <1>2, <1>3, SplitTail
<1>5. <<>> \o t = t
  BY ConcatEmptySeq DEF Text
<1>6. Append(parts, last) = Split(s, d) /\ Append(parts, last) \in Paths
  BY <1>1, <1>3 DEF SplitsTo
<1> QED BY <1>2, <1>4, <1>5, <1>6, Zenon DEF SplitsTo

-----------------------------------------------------------------------------
(* The parameters of a query. *)

Params == UNION {[D -> Text] : D \in SUBSET Text}

LEMMA ParamsIn ==
  ASSUME NEW params
  PROVE  params \in Params <=> DOMAIN params \subseteq Text /\ params \in [DOMAIN params -> Text]
BY DEF Params

LEMMA PutIs ==
  ASSUME NEW params \in Params, NEW key \in Text, NEW value \in Text
  PROVE  /\ Put(params, key, value) \in Params
         /\ DOMAIN Put(params, key, value) = DOMAIN params \union {key}
         /\ \A k \in DOMAIN params \union {key} :
              Put(params, key, value)[k] = IF k = key THEN value ELSE params[k]
<1> DEFINE D == DOMAIN params \union {key}
           r == [k \in D |-> IF k = key THEN value ELSE params[k]]
<1>1. Put(params, key, value) = r
  BY DEF Put
<1>2. D \subseteq Text /\ \A k \in D : k # key => params[k] \in Text
  BY ParamsIn
<1> HIDE DEF D
<1>3. DOMAIN r = D /\ (\A k \in D : r[k] = IF k = key THEN value ELSE params[k]) /\ r \in [D -> Text]
  BY <1>2
<1> HIDE DEF r
<1>4. r \in Params
  BY <1>2, <1>3, ParamsIn
<1> QED BY <1>1, <1>3, <1>4 DEF D

LEMMA EmptyParams == <<>> \in Params /\ DOMAIN <<>> = {}
<1>1. DOMAIN <<>> = {} /\ <<>> \in [{} -> Text]
  OBVIOUS
<1>2. {} \in SUBSET Text
  OBVIOUS
<1> QED BY <1>1, <1>2, Zenon DEF Params

LEMMA Separators ==
  Question \in Codes /\ Ampersand \in Codes /\ Equals \in Codes /\ Slash \in Codes /\ Nul \in Codes
BY DEF Question, Ampersand, Equals, Slash, Nul, Codes

LEMMA AddParamType ==
  ASSUME NEW params \in Params, NEW param \in Text
  PROVE  AddParam(params, param) \in Params
<1> DEFINE a == UrlDecode(Cut(param, Equals)[1], TRUE)
           b == UrlDecode(Cut(param, Equals)[2], TRUE)
<1>1. a \in Text /\ b \in Text
  BY Separators, CutType, Decoding
<1>2. AddParam(params, param) = IF param = <<>> THEN params ELSE Put(params, a, b)
  BY DEF AddParam
<1> HIDE DEF a, b
<1>3. Put(params, a, b) \in Params
  BY <1>1, PutIs
<1> QED BY <1>2, <1>3

ParamFcn == [param \in Text |-> [params \in Params |-> AddParam(params, param)]]

LEMMA ParamFcnType == ParamFcn \in [Text -> [Params -> Params]]
BY AddParamType DEF ParamFcn

ParamsOf(parts) == FoldLeft(AddParam, <<>>, parts)

LEMMA ParamsOfIs ==
  ASSUME NEW s \in Paths
  PROVE  ParamsOf(s) = Folded(ParamFcn, <<>>, s)
<1> DEFINE Table(h) == h = [t \in SUBSET DOMAIN s |->
                              IF t = {} THEN <<>> ELSE AddParam(h[t \ {Max(t)}], s[Max(t)])]
           c == CHOOSE h : Table(h)
<1>0. <<>> \in Params
  BY EmptyParams
<1>1. PICK it : FoldTable(Params, it, ParamFcn, <<>>, s)
  <2>1. \A base \in Params : \E it : FoldTable(Params, it, ParamFcn, base, s)
    BY ParamFcnType, FoldTableExists DEF Paths
  <2> QED BY <1>0, <2>1
<1>2. Table(it)
  <2>1. ASSUME NEW t \in SUBSET DOMAIN s, t # {}
        PROVE  it[t] = AddParam(it[t \ {Max(t)}], s[Max(t)])
    <3>1. s[Max(t)] \in Text /\ t \ {Max(t)} \in SUBSET DOMAIN s
      BY <2>1, MaxOf DEF Paths
    <3>2. it[t \ {Max(t)}] \in Params
      BY <1>1, <3>1 DEF FoldTable
    <3>3. it[t] = ParamFcn[s[Max(t)]][it[t \ {Max(t)}]]
      BY <1>1, <2>1, <3>2 DEF FoldTable, FoldsIn
    <3> QED BY <3>1, <3>2, <3>3 DEF ParamFcn
  <2> QED BY <1>1, <2>1 DEF FoldTable, FoldsIn
<1>3. Table(c)
  BY <1>2
<1>4. ParamsOf(s) = c[DOMAIN s]
  BY DEF ParamsOf, FoldLeft, MapThenFoldSet
<1>5. FoldsIn(Params, c, ParamFcn, <<>>, s)
  <2>1. {} \in SUBSET DOMAIN s
    OBVIOUS
  <2>2. c[{}] = <<>>
    BY <1>3, <2>1
  <2>3. ASSUME NEW t \in SUBSET DOMAIN s, t # {}, c[t \ {Max(t)}] \in Params
        PROVE  c[t] = ParamFcn[s[Max(t)]][c[t \ {Max(t)}]]
    <3>1. c[t] = AddParam(c[t \ {Max(t)}], s[Max(t)])
      BY <1>3, <2>3
    <3>2. s[Max(t)] \in Text
      BY <2>3, MaxOf DEF Paths
    <3> HIDE DEF c
    <3> QED BY <2>3, <3>1, <3>2 DEF ParamFcn
  <2> HIDE DEF c
  <2> QED BY <2>2, <2>3 DEF FoldsIn
<1> HIDE DEF c
<1>6. \A base \in Params : FoldsIn(Params, c, ParamFcn, base, s)
                        => c[DOMAIN s] = Folded(ParamFcn, base, s)
  BY ParamFcnType, FoldBridge DEF Paths
<1> QED BY <1>0, <1>4, <1>5, <1>6

LEMMA ParamsOfAppend ==
  ASSUME NEW s \in Paths, NEW param \in Text
  PROVE  /\ ParamsOf(s) \in Params
         /\ ParamsOf(Append(s, param)) = AddParam(ParamsOf(s), param)
<1>1. Append(s, param) \in Paths
  BY DEF Paths
<1>2. \A base \in Params :
        /\ Folded(ParamFcn, base, s) \in Params
        /\ Folded(ParamFcn, base, Append(s, param)) = ParamFcn[param][Folded(ParamFcn, base, s)]
  BY ParamFcnType, FoldedAppend DEF Paths
<1> QED BY <1>1, <1>2, EmptyParams, ParamsOfIs DEF ParamFcn

LEMMA ParamsOfNone == ParamsOf(<<>>) = <<>>
<1>1. <<>> \in Paths
  BY EmptySeq DEF Paths
<1>2. \A base \in Params : Folded(ParamFcn, base, <<>>) = base
  BY ParamFcnType, FoldedEmpty
<1> QED BY <1>1, <1>2, EmptyParams, ParamsOfIs

LEMMA QueryParamsType == ASSUME NEW s \in Text PROVE QueryParams(s) \in Params
<1> DEFINE q == Cut(s, Question)[2]
<1>1. q \in Text
  BY Separators, CutType
<1> HIDE DEF q
<1>2. Split(q, Ampersand) \in Paths
  <2>1. <<>> \in Text /\ Without(<<>>, Ampersand)
    BY EmptySeq DEF Text, Without
  <2> QED BY <1>1, <2>1, Separators, SplitMore
<1>3. ParamsOf(Split(q, Ampersand)) \in Params
  <2>1. <<>> \in Text
    BY EmptySeq DEF Text
  <2> QED BY <1>2, <2>1, ParamsOfAppend
<1> QED BY <1>3 DEF QueryParams, ParamsOf, q

-----------------------------------------------------------------------------
(* What the parts of a query are read as. *)

NameIn(part) == UrlDecode(Cut(part, Equals)[1], TRUE)
ValueIn(part) == UrlDecode(Cut(part, Equals)[2], TRUE)

SentIn(parts) == {k \in DOMAIN parts : parts[k] # <<>>}

(* params are what the parts say. *)
ReadFrom(parts, params) ==
  /\ DOMAIN params = {NameIn(parts[k]) : k \in SentIn(parts)}
  /\ \A k \in SentIn(parts) :
       (\A m \in SentIn(parts) : m > k => NameIn(parts[m]) # NameIn(parts[k]))
         => params[NameIn(parts[k])] = ValueIn(parts[k])

LEMMA ReadNext ==
  ASSUME NEW parts \in Paths, NEW part \in Text, ReadFrom(parts, ParamsOf(parts))
  PROVE  ReadFrom(Append(parts, part), ParamsOf(Append(parts, part)))
<1> DEFINE r == Append(parts, part)
           n == Len(parts) + 1
           params == ParamsOf(parts)
           key == NameIn(part)
           value == ValueIn(part)
<1>1. n \in Nat /\ DOMAIN parts = 1..(n - 1) /\ DOMAIN r = 1..n /\ r[n] = part
      /\ \A k \in DOMAIN parts : r[k] = parts[k] /\ k \in Nat /\ k < n
  BY DEF Paths
<1>2. ParamsOf(r) = AddParam(params, part)
  BY ParamsOfAppend
<1>4. SentIn(r) = IF part = <<>> THEN SentIn(parts) ELSE SentIn(parts) \union {n}
  <2>1. DOMAIN r = DOMAIN parts \union {n}
    BY <1>1
  <2> HIDE DEF r, n
  <2> QED BY <1>1, <2>1 DEF SentIn
<1>5. \A k \in SentIn(parts) : r[k] = parts[k] /\ k \in Nat /\ k < n
  BY <1>1 DEF SentIn
<1> HIDE DEF r, n
<1>6. CASE part = <<>>
  <2>1. ParamsOf(r) = params /\ SentIn(r) = SentIn(parts)
    BY <1>2, <1>4, <1>6 DEF AddParam
  <2>2. {NameIn(r[k]) : k \in SentIn(r)} = {NameIn(parts[k]) : k \in SentIn(parts)}
    BY <1>5, <2>1
  <2> HIDE DEF params
  <2>3. ReadFrom(parts, params)
    BY DEF params
  <2> QED BY <1>5, <2>1, <2>2, <2>3 DEF ReadFrom, r
<1>7. CASE part # <<>>
  <2>1. ParamsOf(r) = Put(params, key, value)
    BY <1>2, <1>7 DEF AddParam, NameIn, ValueIn
  <2>2. SentIn(r) = SentIn(parts) \union {n} /\ n \in SentIn(r) /\ SentIn(parts) \subseteq SentIn(r)
    BY <1>4, <1>7
  <2> DEFINE after == ParamsOf(r)
  <2> HIDE DEF params
  <2>3. ReadFrom(parts, params)
    BY DEF params
  <2>4. /\ DOMAIN after = DOMAIN params \union {key}
        /\ \A k \in DOMAIN params \union {key} : after[k] = IF k = key THEN value ELSE params[k]
    <3> HIDE DEF key, value
    <3> QED BY <2>1 DEF Put
  <2> HIDE DEF after
  <2>5. NameIn(r[n]) = key /\ ValueIn(r[n]) = value
    BY <1>1
  <2> HIDE DEF key, value
  <2>6. DOMAIN after = {NameIn(r[k]) : k \in SentIn(r)}
    <3>1. DOMAIN params = {NameIn(r[k]) : k \in SentIn(parts)}
      BY <1>5, <2>3 DEF ReadFrom
    <3> QED BY <2>2, <2>4, <2>5, <3>1
  <2>7. ASSUME NEW k \in SentIn(r), \A m \in SentIn(r) : m > k => NameIn(r[m]) # NameIn(r[k])
        PROVE  after[NameIn(r[k])] = ValueIn(r[k])
    <3>1. CASE k = n
      BY <2>4, <2>5, <3>1
    <3>2. CASE k # n
      <4>1. k \in SentIn(parts) /\ r[k] = parts[k] /\ n > k
        BY <1>1, <1>5, <2>2, <3>2
      <4>2. NameIn(parts[k]) # key /\ NameIn(parts[k]) \in DOMAIN params
        BY <2>2, <2>3, <2>5, <2>7, <4>1 DEF ReadFrom
      <4>3. \A m \in SentIn(parts) : m > k => NameIn(parts[m]) # NameIn(parts[k])
        BY <1>5, <2>2, <2>7, <4>1
      <4>4. params[NameIn(parts[k])] = ValueIn(parts[k])
        BY <2>3, <4>1, <4>3 DEF ReadFrom
      <4> QED BY <2>4, <4>1, <4>2, <4>4
    <3> QED BY <3>1, <3>2
  <2>8. ReadFrom(r, after)
    BY <2>6, <2>7 DEF ReadFrom
  <2> QED BY <2>8 DEF after, r
<1> QED BY <1>6, <1>7

LEMMA ParamsRead ==
  ASSUME NEW parts \in Paths
  PROVE  ReadFrom(parts, ParamsOf(parts))
<1> DEFINE S == {q \in Seq(Text) : ReadFrom(q, ParamsOf(q))}
<1>1. <<>> \in S
  <2>1. SentIn(<<>>) = {} /\ DOMAIN ParamsOf(<<>>) = {}
    BY ParamsOfNone, EmptyParams DEF SentIn
  <2>2. ReadFrom(<<>>, ParamsOf(<<>>))
    BY <2>1 DEF ReadFrom
  <2>3. <<>> \in Seq(Text)
    BY EmptySeq
  <2> QED BY <2>2, <2>3
<1>2. ASSUME NEW q \in S, NEW part \in Text PROVE Append(q, part) \in S
  <2>1. q \in Seq(Text) /\ ReadFrom(q, ParamsOf(q))
    OBVIOUS
  <2> HIDE DEF S
  <2>2. ReadFrom(Append(q, part), ParamsOf(Append(q, part)))
    BY <2>1, ReadNext DEF Paths
  <2>3. Append(q, part) \in Seq(Text)
    BY <2>1
  <2> QED BY <2>2, <2>3 DEF S
<1>3. S \in SUBSET Seq(Text)
  OBVIOUS
<1> HIDE DEF S
<1>4. parts \in S
  BY <1>1, <1>2, <1>3, SeqInduction DEF Paths
<1> QED BY <1>4 DEF S

LEMMA DecodesOnce ==
  ASSUME text \in Text
  PROVE  DecodedOnce
<1> DEFINE cut == Cut(text, Question)
           parts == Split(cut[2], Ampersand)
           sent == {k \in DOMAIN parts : parts[k] # <<>>}
           params == QueryParams(text)
           reading(s) == Reading(s, TRUE)
<1>1. cut[1] \in Text /\ cut[2] \in Text
  BY Separators, CutType
<1>2. Uri(text) = Reading(cut[1], FALSE)
  BY <1>1, DecodeReads DEF Uri
<1>3. parts \in Paths
  <2> HIDE DEF cut
  <2>1. <<>> \in Text /\ Without(<<>>, Ampersand)
    BY EmptySeq DEF Text, Without
  <2> QED BY <1>1, <2>1, Separators, SplitMore
<1>4. ReadFrom(parts, params)
  <2>1. params = ParamsOf(parts)
    BY DEF QueryParams, ParamsOf
  <2> HIDE DEF parts, params
  <2> QED BY <1>3, <2>1, ParamsRead
<1>5. sent = SentIn(parts)
  BY DEF SentIn
<1>6. ASSUME NEW k \in sent
      PROVE  /\ NameIn(parts[k]) = Reading(Cut(parts[k], Equals)[1], TRUE)
             /\ ValueIn(parts[k]) = Reading(Cut(parts[k], Equals)[2], TRUE)
  <2>1. parts[k] \in Text
    <3> HIDE DEF parts
    <3> QED BY <1>3 DEF Paths
  <2> HIDE DEF parts
  <2> QED BY <2>1, Separators, CutType, DecodeReads DEF NameIn, ValueIn
<1> DEFINE name == [k \in sent |-> Reading(Cut(parts[k], Equals)[1], TRUE)]
           value == [k \in sent |-> Reading(Cut(parts[k], Equals)[2], TRUE)]
<1>7. \A k \in sent : name[k] = NameIn(parts[k]) /\ value[k] = ValueIn(parts[k])
  BY <1>6
<1> HIDE DEF parts, params, name, value
<1>8. /\ DOMAIN params = {name[k] : k \in sent}
      /\ \A k \in sent : (\A m \in sent : m > k => name[m] # name[k]) => params[name[k]] = value[k]
  <2> HIDE DEF sent
  <2> QED BY <1>4, <1>5, <1>7 DEF ReadFrom
<1> QED BY <1>2, <1>8 DEF DecodedOnce, parts, params, name, value

-----------------------------------------------------------------------------
(* The query that is sent on. *)

Pair(key, value) == UrlEncode(key, FALSE) \o <<Equals>> \o UrlEncode(value, FALSE)

LEMMA EncodedText ==
  ASSUME NEW s \in Text
  PROVE  LET e == UrlEncode(s, FALSE)
         IN  /\ e \in Text /\ UrlDecode(e, TRUE) = s
             /\ Without(e, Question) /\ Without(e, Ampersand) /\ Without(e, Equals)
<1>1. UrlEncode(s, FALSE) \in Seq(Safe) /\ UrlDecode(UrlEncode(s, FALSE), TRUE) = s
  BY DecodeEncode
<1> QED BY <1>1, SafeIsText, SafeWithout

LEMMA PairIs ==
  ASSUME NEW key \in Text, NEW value \in Text
  PROVE  /\ Pair(key, value) \in Text /\ Without(Pair(key, value), Ampersand)
         /\ \A params : AddParam(params, Pair(key, value)) = Put(params, key, value)
<1> DEFINE x == UrlEncode(key, FALSE)
           y == UrlEncode(value, FALSE)
           e == x \o <<Equals>> \o y
<1>1. /\ x \in Text /\ UrlDecode(x, TRUE) = key /\ Without(x, Ampersand) /\ Without(x, Equals)
      /\ y \in Text /\ UrlDecode(y, TRUE) = value /\ Without(y, Ampersand)
  BY EncodedText
<1> HIDE DEF x, y
<1>2. e \in Text /\ e # <<>>
  <2>1. e \in Text /\ Len(e) = Len(x) + 1 + Len(y) /\ Len(x) \in Nat /\ Len(y) \in Nat
    BY <1>1, Separators DEF Text
  <2> QED BY <2>1
<1>3. Cut(e, Equals) = <<x, y>>
  BY <1>1, Separators, CutConcat
<1>4. Without(e, Ampersand)
  <2> SUFFICES ASSUME NEW i \in 1..Len(e) PROVE e[i] # Ampersand
    BY DEF Without
  <2>1. Len(e) = Len(x) + 1 + Len(y) /\ Len(x) \in Nat /\ Len(y) \in Nat
    BY <1>1, Separators DEF Text
  <2>2. CASE i \in 1..Len(x)
    <3>1. e[i] = x[i]
      BY <1>1, <2>2, Separators DEF Text
    <3> QED BY <1>1, <2>2, <3>1 DEF Without
  <2>3. CASE i = Len(x) + 1
    <3>1. e[i] = Equals
      BY <1>1, <2>3, Separators DEF Text
    <3> QED BY <3>1 DEF Equals, Ampersand
  <2>4. CASE i - (Len(x) + 1) \in 1..Len(y)
    <3>1. e[i] = y[i - (Len(x) + 1)]
      BY <1>1, <2>1, <2>4, Separators DEF Text
    <3> QED BY <1>1, <2>4, <3>1 DEF Without
  <2>5. i \in 1..Len(x) \/ i = Len(x) + 1 \/ i - (Len(x) + 1) \in 1..Len(y)
    BY <2>1
  <2> QED BY <2>2, <2>3, <2>4, <2>5
<1>5. Pair(key, value) = e
  BY DEF Pair, x, y
<1> HIDE DEF e
<1>6. ASSUME NEW params PROVE AddParam(params, e) = Put(params, key, value)
  <2>1. Cut(e, Equals)[1] = x /\ Cut(e, Equals)[2] = y
    BY <1>3
  <2> QED BY <1>1, <1>2, <2>1 DEF AddParam
<1> QED BY <1>2, <1>4, <1>5, <1>6

(* Concatenation of texts. *)
Cat(a, b) == a \o b

LEMMA CatIs ==
  ASSUME NEW a \in Text, NEW b \in Text
  PROVE  Cat(a, b) \in Text /\ \A c \in Text : Cat(Cat(a, b), c) = Cat(a, Cat(b, c))
<1>1. a \o b \in Text
  BY ConcatProperties DEF Text
<1>2. \A c \in Text : (a \o b) \o c = a \o (b \o c)
  BY ConcatAssociative DEF Text
<1> QED BY <1>1, <1>2 DEF Cat

LEMMA AppendQueryParamIs ==
  ASSUME NEW url \in Text, NEW key \in Text, NEW value \in Text
  PROVE  AppendQueryParam(url, key, value)
           = url \o <<IF Contains(url, Question) THEN Ampersand ELSE Question>> \o Pair(key, value)
<1> DEFINE x == UrlEncode(key, FALSE)
           y == UrlEncode(value, FALSE)
           u == url \o <<IF Contains(url, Question) THEN Ampersand ELSE Question>>
           e == <<Equals>>
<1>1. x \in Text /\ y \in Text /\ e \in Text /\ u \in Text
  <2>1. x \in Text /\ y \in Text
    BY EncodedText
  <2>2. \A ch \in Codes : <<ch>> \in Text /\ url \o <<ch>> \in Text
    BY DEF Text
  <2> QED BY <2>1, <2>2, Separators
<1>2. AppendQueryParam(url, key, value) = ((u \o x) \o e) \o y
  BY DEF AppendQueryParam
<1>3. Pair(key, value) = (x \o e) \o y
  BY DEF Pair
<1> HIDE DEF x, y, e
<1> HIDE DEF u
<1>4. Cat(Cat(Cat(u, x), e), y) = Cat(u, Cat(Cat(x, e), y))
  BY <1>1, CatIs
<1>5. ((u \o x) \o e) \o y = u \o ((x \o e) \o y)
  BY <1>4, Zenon DEF Cat
<1> QED BY <1>2, <1>3, <1>5, Zenon DEF u

(* url carries the parameters whose names are in K. *)
Restricted(r, params, K) ==
  DOMAIN r = DOMAIN params \intersect K /\ \A k \in DOMAIN r : r[k] = params[k]

Carries(q, params, K) == Restricted(ParamsOf(Split(q, Ampersand)), params, K)

ForwardedAs(url, params, K) ==
  \/ url = <<Slash>> /\ DOMAIN params \intersect K = {}
  \/ \E q \in Text : url = <<Slash>> \o <<Question>> \o q /\ Carries(q, params, K)

UrlStep(url, key, params) ==
  IF key \in DOMAIN params THEN AppendQueryParam(url, key, params[key]) ELSE url

LEMMA PutRestricted ==
  ASSUME NEW params \in Params, NEW K, NEW key \in DOMAIN params,
         NEW r \in Params, Restricted(r, params, K)
  PROVE  Restricted(Put(r, key, params[key]), params, K \union {key})
<1> DEFINE v == params[key]
           n == Put(r, key, v)
<1>1. key \in Text /\ v \in Text
  BY ParamsIn
<1> HIDE DEF v
<1>2. DOMAIN n = DOMAIN r \union {key} /\ \A k \in DOMAIN n : n[k] = IF k = key THEN v ELSE r[k]
  <2>1. DOMAIN n = DOMAIN r \union {key}
    BY <1>1, PutIs
  <2>2. \A k \in DOMAIN r \union {key} : n[k] = IF k = key THEN v ELSE r[k]
    BY DEF Put
  <2> QED BY <2>1, <2>2
<1> HIDE DEF n
<1>3. Restricted(n, params, K \union {key})
  BY <1>2 DEF Restricted, v
<1> QED BY <1>3 DEF n, v

LEMMA FirstForwarded ==
  ASSUME NEW params \in Params, NEW K, DOMAIN params \intersect K = {}, NEW key \in DOMAIN params
  PROVE  LET url == AppendQueryParam(<<Slash>>, key, params[key])
         IN  url \in Text /\ ForwardedAs(url, params, K \union {key})
<1>1. key \in Text /\ params[key] \in Text
  BY ParamsIn
<1> DEFINE e == Pair(key, params[key])
           root == <<Slash>>
<1>2. root \in Text /\ ~Contains(root, Question)
  BY Separators DEF Text, Contains, Slash, Question
<1>3. e \in Text /\ Without(e, Ampersand) /\ AddParam(<<>>, e) = Put(<<>>, key, params[key])
  BY <1>1, PairIs
<1>4. AppendQueryParam(root, key, params[key]) = root \o <<Question>> \o e
  <2> HIDE DEF root
  <2> QED BY <1>1, <1>2, AppendQueryParamIs
<1>5. root \o <<Question>> \o e \in Text
  BY <1>2, <1>3, Separators DEF Text
<1>6. ParamsOf(Split(e, Ampersand)) = Put(<<>>, key, params[key])
  <2> HIDE DEF e
  <2>1. Split(e, Ampersand) = <<e>> /\ <<e>> = Append(<<>>, e)
    BY <1>3, SplitOne
  <2>2. <<>> \in Paths
    BY EmptySeq DEF Paths
  <2>3. ParamsOf(Append(<<>>, e)) = AddParam(ParamsOf(<<>>), e)
    BY <1>3, <2>2, ParamsOfAppend
  <2> QED BY <1>3, <2>1, <2>3, ParamsOfNone
<1>7. Carries(e, params, K \union {key})
  <2>1. \A r : r \in Params /\ DOMAIN r = {} => Restricted(Put(r, key, params[key]), params, K \union {key})
    <3> SUFFICES ASSUME NEW r \in Params, DOMAIN r = {}
                 PROVE  Restricted(Put(r, key, params[key]), params, K \union {key})
      OBVIOUS
    <3>1. Restricted(r, params, K)
      BY DEF Restricted
    <3> QED BY <3>1, PutRestricted
  <2> HIDE DEF e
  <2> QED BY <1>6, <2>1, EmptyParams DEF Carries
<1> HIDE DEF e
<1> QED BY <1>3, <1>4, <1>5, <1>7 DEF ForwardedAs

LEMMA NextForwarded ==
  ASSUME NEW params \in Params, NEW K, NEW q \in Text, Carries(q, params, K),
         NEW key \in DOMAIN params
  PROVE  LET url == AppendQueryParam(<<Slash>> \o <<Question>> \o q, key, params[key])
         IN  url \in Text /\ ForwardedAs(url, params, K \union {key})
<1>1. key \in Text /\ params[key] \in Text
  BY ParamsIn
<1> DEFINE e == Pair(key, params[key])
           root == <<Slash>> \o <<Question>>
           url == root \o q
           a == <<Ampersand>>
<1>2. root \in Text /\ url \in Text /\ a \in Text /\ Contains(url, Question)
  <2>1. root \in Text /\ Len(root) = 2 /\ root[2] = Question /\ a \in Text
    BY Separators DEF Text
  <2> HIDE DEF root, a
  <2>2. url \in Text /\ Len(url) = 2 + Len(q) /\ url[2] = Question /\ Len(q) \in Nat
    <3>1. root \in Seq(Codes) /\ q \in Seq(Codes) /\ Len(q) \in Nat
      BY <2>1 DEF Text
    <3>2. 2 \in 1..(Len(root) + Len(q)) /\ 2 <= Len(root)
      BY <2>1, <3>1
    <3>3. /\ url \in Seq(Codes) /\ Len(url) = Len(root) + Len(q)
          /\ \A i \in 1..(Len(root) + Len(q)) :
               url[i] = IF i <= Len(root) THEN root[i] ELSE q[i - Len(root)]
      BY <3>1, ConcatProperties
    <3> HIDE DEF url
    <3> QED BY <2>1, <3>1, <3>2, <3>3 DEF Text
  <2> HIDE DEF url
  <2>3. 2 \in 1..Len(url)
    BY <2>2
  <2> QED BY <2>1, <2>2, <2>3 DEF Contains
<1>3. e \in Text /\ Without(e, Ampersand)
      /\ \A r : AddParam(r, e) = Put(r, key, params[key])
  BY <1>1, PairIs
<1> DEFINE n == q \o <<Ampersand>> \o e
<1>4. AppendQueryParam(url, key, params[key]) = root \o n /\ root \o n \in Text /\ n \in Text
  <2>1. AppendQueryParam(url, key, params[key]) = (url \o a) \o e
    <3> HIDE DEF url
    <3> QED BY <1>1, <1>2, AppendQueryParamIs
  <2>2. n = (q \o a) \o e
    OBVIOUS
  <2> HIDE DEF root, a, e, n
  <2>3. /\ Cat(Cat(Cat(root, q), a), e) = Cat(root, Cat(Cat(q, a), e))
        /\ Cat(Cat(q, a), e) \in Text /\ Cat(root, Cat(Cat(q, a), e)) \in Text
    <3>1. /\ Cat(q, a) \in Text /\ Cat(root, q) \in Text
          /\ Cat(Cat(root, q), a) = Cat(root, Cat(q, a))
      BY <1>2, CatIs
    <3>2. /\ Cat(Cat(q, a), e) \in Text
          /\ Cat(Cat(root, Cat(q, a)), e) = Cat(root, Cat(Cat(q, a), e))
      BY <1>2, <1>3, <3>1, CatIs
    <3> QED BY <1>2, <3>1, <3>2, CatIs
  <2>4. /\ ((root \o q) \o a) \o e = root \o ((q \o a) \o e)
        /\ (q \o a) \o e \in Text /\ root \o ((q \o a) \o e) \in Text
    BY <2>3, Zenon DEF Cat
  <2> QED BY <2>1, <2>2, <2>4, Zenon DEF url
<1> DEFINE r == ParamsOf(Split(q, Ampersand))
<1>5. r \in Params /\ ParamsOf(Split(n, Ampersand)) = Put(r, key, params[key])
  <2> HIDE DEF e
  <2>1. Split(q, Ampersand) \in Paths /\ Split(n, Ampersand) = Append(Split(q, Ampersand), e)
    BY <1>3, Separators, SplitMore
  <2> HIDE DEF n
  <2>2. r \in Params /\ ParamsOf(Append(Split(q, Ampersand), e)) = AddParam(r, e)
    BY <1>3, <2>1, ParamsOfAppend
  <2> QED BY <1>3, <2>1, <2>2
<1> HIDE DEF e, n, root
<1>6. Carries(n, params, K \union {key})
  <2>1. Restricted(r, params, K)
    BY DEF Carries
  <2> HIDE DEF r
  <2>2. Restricted(Put(r, key, params[key]), params, K \union {key})
    BY <1>5, <2>1, PutRestricted
  <2> QED BY <1>5, <2>2 DEF Carries
<1> QED BY <1>4, <1>6 DEF ForwardedAs, root

LEMMA UrlStepType ==
  ASSUME NEW params \in Params, NEW url \in Text, NEW key \in Text
  PROVE  UrlStep(url, key, params) \in Text
<1>1. CASE key \in DOMAIN params
  <2> DEFINE v == params[key]
             sep == IF Contains(url, Question) THEN Ampersand ELSE Question
  <2>1. v \in Text /\ sep \in Codes
    BY <1>1, ParamsIn, Separators
  <2> HIDE DEF v
  <2>2. AppendQueryParam(url, key, v) = url \o <<sep>> \o Pair(key, v) /\ Pair(key, v) \in Text
    BY <2>1, AppendQueryParamIs, PairIs
  <2> HIDE DEF sep
  <2>3. <<sep>> \in Text
    BY <2>1 DEF Text
  <2>4. \A a, b \in Text : url \o a \in Text /\ url \o a \o b \in Text
    BY ConcatProperties DEF Text
  <2> QED BY <1>1, <2>2, <2>3, <2>4 DEF UrlStep, v
<1>2. CASE key \notin DOMAIN params
  BY <1>2 DEF UrlStep
<1> QED BY <1>1, <1>2

UrlFcn(params) == [key \in Text |-> [url \in Text |-> UrlStep(url, key, params)]]

LEMMA UrlFcnType ==
  ASSUME NEW params \in Params
  PROVE  UrlFcn(params) \in [Text -> [Text -> Text]]
BY UrlStepType DEF UrlFcn

UrlOf(params, keys) ==
  FoldLeft(LAMBDA url, key : IF key \in DOMAIN params
                               THEN AppendQueryParam(url, key, params[key]) ELSE url,
           <<Slash>>, keys)

LEMMA RootText == <<Slash>> \in Text
BY Separators DEF Text

LEMMA UrlOfIs ==
  ASSUME NEW params \in Params, NEW s \in Paths
  PROVE  UrlOf(params, s) = Folded(UrlFcn(params), <<Slash>>, s)
<1> DEFINE Table(h) == h = [t \in SUBSET DOMAIN s |->
                              IF t = {} THEN <<Slash>>
                              ELSE UrlStep(h[t \ {Max(t)}], s[Max(t)], params)]
           c == CHOOSE h : Table(h)
<1>1. PICK it : FoldTable(Text, it, UrlFcn(params), <<Slash>>, s)
  BY RootText, UrlFcnType, FoldTableExists DEF Paths
<1>2. Table(it)
  <2>1. ASSUME NEW t \in SUBSET DOMAIN s, t # {}
        PROVE  it[t] = UrlStep(it[t \ {Max(t)}], s[Max(t)], params)
    <3>1. s[Max(t)] \in Text /\ t \ {Max(t)} \in SUBSET DOMAIN s
      BY <2>1, MaxOf DEF Paths
    <3>2. it[t \ {Max(t)}] \in Text
      BY <1>1, <3>1 DEF FoldTable
    <3>3. it[t] = UrlFcn(params)[s[Max(t)]][it[t \ {Max(t)}]]
      BY <1>1, <2>1, <3>2 DEF FoldTable, FoldsIn
    <3> QED BY <3>1, <3>2, <3>3 DEF UrlFcn
  <2> QED BY <1>1, <2>1 DEF FoldTable, FoldsIn
<1>3. Table(c)
  BY <1>2
<1>4. UrlOf(params, s) = c[DOMAIN s]
  BY DEF UrlOf, FoldLeft, MapThenFoldSet, UrlStep
<1>5. FoldsIn(Text, c, UrlFcn(params), <<Slash>>, s)
  <2>1. {} \in SUBSET DOMAIN s
    OBVIOUS
  <2>2. c[{}] = <<Slash>>
    BY <1>3, <2>1
  <2>3. ASSUME NEW t \in SUBSET DOMAIN s, t # {}, c[t \ {Max(t)}] \in Text
        PROVE  c[t] = UrlFcn(params)[s[Max(t)]][c[t \ {Max(t)}]]
    <3>1. c[t] = UrlStep(c[t \ {Max(t)}], s[Max(t)], params)
      BY <1>3, <2>3
    <3>2. s[Max(t)] \in Text
      BY <2>3, MaxOf DEF Paths
    <3> HIDE DEF c
    <3> QED BY <2>3, <3>1, <3>2 DEF UrlFcn
  <2> HIDE DEF c
  <2> QED BY <2>2, <2>3 DEF FoldsIn
<1> HIDE DEF c
<1> QED BY <1>4, <1>5, RootText, UrlFcnType, FoldBridge DEF Paths

LEMMA UrlOfAppend ==
  ASSUME NEW params \in Params, NEW s \in Paths, NEW key \in Text
  PROVE  /\ UrlOf(params, s) \in Text
         /\ UrlOf(params, Append(s, key)) = UrlStep(UrlOf(params, s), key, params)
<1>1. Append(s, key) \in Paths
  BY DEF Paths
<1>2. \A base \in Text :
        /\ Folded(UrlFcn(params), base, s) \in Text
        /\ Folded(UrlFcn(params), base, Append(s, key)) = UrlFcn(params)[key][Folded(UrlFcn(params), base, s)]
  BY UrlFcnType, FoldedAppend DEF Paths
<1> QED BY <1>1, <1>2, RootText, UrlOfIs DEF UrlFcn

LEMMA UrlOfNone == ASSUME NEW params \in Params PROVE UrlOf(params, <<>>) = <<Slash>>
<1>1. <<>> \in Paths
  BY EmptySeq DEF Paths
<1> QED BY <1>1, RootText, UrlOfIs, UrlFcnType, FoldedEmpty

(* A parameter that was not sent changes nothing. *)
LEMMA NotSent ==
  ASSUME NEW params, NEW url, NEW K, NEW key, key \notin DOMAIN params, ForwardedAs(url, params, K)
  PROVE  ForwardedAs(url, params, K \union {key})
<1>1. DOMAIN params \intersect (K \union {key}) = DOMAIN params \intersect K
  OBVIOUS
<1> QED BY <1>1 DEF ForwardedAs, Carries, Restricted

LEMMA StepForwards ==
  ASSUME NEW params \in Params, NEW url, NEW K, NEW key \in Text, ForwardedAs(url, params, K)
  PROVE  ForwardedAs(UrlStep(url, key, params), params, K \union {key})
<1>1. CASE key \notin DOMAIN params
  BY <1>1, NotSent DEF UrlStep
<1>2. CASE key \in DOMAIN params
  <2>1. CASE url = <<Slash>> /\ DOMAIN params \intersect K = {}
    BY <1>2, <2>1, FirstForwarded DEF UrlStep
  <2>2. CASE \E q \in Text : url = <<Slash>> \o <<Question>> \o q /\ Carries(q, params, K)
    <3>1. PICK q \in Text : url = <<Slash>> \o <<Question>> \o q /\ Carries(q, params, K)
      BY <2>2
    <3>2. UrlStep(url, key, params) = AppendQueryParam(<<Slash>> \o <<Question>> \o q, key, params[key])
      BY <1>2, <3>1 DEF UrlStep
    <3>3. ForwardedAs(AppendQueryParam(<<Slash>> \o <<Question>> \o q, key, params[key]),
                      params, K \union {key})
      BY <1>2, <3>1, NextForwarded, Zenon
    <3> QED BY <3>2, <3>3, Zenon
  <2> QED BY <2>1, <2>2 DEF ForwardedAs
<1> QED BY <1>1, <1>2

LEMMA OneMore ==
  ASSUME NEW E, NEW s \in Seq(E), NEW e \in E
  PROVE  ToSet(Append(s, e)) = ToSet(s) \union {e}
<1> DEFINE r == Append(s, e)
<1>1. /\ DOMAIN r = 1..(Len(s) + 1) /\ DOMAIN s = 1..Len(s) /\ Len(s) \in Nat
      /\ \A i \in 1..Len(s) : r[i] = s[i]
      /\ r[Len(s) + 1] = e
  BY AppendProperties
<1> HIDE DEF r
<1>2. ToSet(r) = ToSet(s) \union {e}
  BY <1>1 DEF ToSet
<1> QED BY <1>2 DEF r

LEMMA AllForwarded ==
  ASSUME NEW params \in Params
  PROVE  \A keys \in Paths : ForwardedAs(UrlOf(params, keys), params, ToSet(keys))
<1> DEFINE S == {keys \in Paths : ForwardedAs(UrlOf(params, keys), params, ToSet(keys))}
<1>1. <<>> \in S
  <2>1. <<>> \in Paths /\ ToSet(<<>>) = {}
    BY EmptySeq DEF Paths, ToSet
  <2>2. DOMAIN params \intersect {} = {}
    OBVIOUS
  <2>3. ForwardedAs(<<Slash>>, params, {})
    BY <2>2 DEF ForwardedAs
  <2> QED BY <2>1, <2>3, UrlOfNone
<1>2. ASSUME NEW keys \in S, NEW key \in Text PROVE Append(keys, key) \in S
  <2>1. keys \in Paths /\ ForwardedAs(UrlOf(params, keys), params, ToSet(keys))
    OBVIOUS
  <2> HIDE DEF S
  <2>2. Append(keys, key) \in Paths /\ ToSet(Append(keys, key)) = ToSet(keys) \union {key}
    BY <2>1, OneMore, AppendProperties DEF Paths
  <2>3. UrlOf(params, Append(keys, key)) = UrlStep(UrlOf(params, keys), key, params)
    BY <2>1, UrlOfAppend
  <2>4. ForwardedAs(UrlStep(UrlOf(params, keys), key, params), params, ToSet(keys) \union {key})
    BY <2>1, StepForwards
  <2> QED BY <2>2, <2>3, <2>4 DEF S
<1>3. S \in SUBSET Seq(Text)
  BY DEF Paths
<1> HIDE DEF S
<1>4. \A keys \in Seq(Text) : keys \in S
  BY <1>1, <1>2, <1>3, SeqInduction
<1> QED BY <1>4 DEF S, Paths

LEMMA Received ==
  ASSUME NEW params \in Params, NEW K, NEW url, ForwardedAs(url, params, K)
  PROVE  Restricted(QueryParams(url), params, K)
<1>1. QueryParams(url) = ParamsOf(Split(Cut(url, Question)[2], Ampersand))
  BY DEF QueryParams, ParamsOf
<1>0. Without(<<Slash>>, Question)
  BY DEF Without, Slash, Question
<1>2. CASE url = <<Slash>> /\ DOMAIN params \intersect K = {}
  <2>1. Cut(<<Slash>>, Question) = << <<Slash>>, <<>> >>
    BY <1>0, RootText, CutNone
  <2>2. Cut(url, Question)[2] = <<>>
    BY <1>2, <2>1
  <2>3. Split(<<>>, Ampersand) = Append(<<>>, <<>>)
    BY SplitEmpty
  <2>4. ParamsOf(Append(<<>>, <<>>)) = AddParam(ParamsOf(<<>>), <<>>)
    <3>1. <<>> \in Paths /\ <<>> \in Text
      BY EmptySeq DEF Paths, Text
    <3>2. \A s \in Paths : \A e \in Text : ParamsOf(Append(s, e)) = AddParam(ParamsOf(s), e)
      BY ParamsOfAppend
    <3> QED BY <3>1, <3>2
  <2>5. QueryParams(url) = <<>>
    <3>1. \A r : AddParam(r, <<>>) = r
      BY DEF AddParam
    <3> QED BY <1>1, <2>2, <2>3, <2>4, <3>1, ParamsOfNone
  <2> QED BY <1>2, <2>5, EmptyParams DEF Restricted
<1>3. CASE \E q \in Text : url = <<Slash>> \o <<Question>> \o q /\ Carries(q, params, K)
  <2>1. PICK q \in Text : url = <<Slash>> \o <<Question>> \o q /\ Carries(q, params, K)
    BY <1>3
  <2>2. Cut(<<Slash>> \o <<Question>> \o q, Question) = << <<Slash>>, q >>
    BY <1>0, RootText, Separators, CutConcat
  <2>3. Cut(url, Question)[2] = q
    <3>1. Cut(url, Question) = << <<Slash>>, q >>
      BY <2>1, <2>2, Zenon
    <3> QED BY <3>1
  <2> QED BY <1>1, <2>1, <2>3 DEF Carries
<1> QED BY <1>2, <1>3 DEF ForwardedAs

LEMMA Forwards ==
  ASSUME NEW s \in Text
  PROVE  LET sent == QueryParams(s) received == QueryParams(ForwardedUrl(s))
         IN  /\ DOMAIN received = DOMAIN sent \intersect ToSet(ForwardedParams)
             /\ \A key \in DOMAIN received : received[key] = sent[key]
<1> DEFINE sent == QueryParams(s)
<1>1. sent \in Params
  BY QueryParamsType
<1>2. ForwardedUrl(s) = UrlOf(sent, ForwardedParams)
  BY DEF ForwardedUrl, UrlOf
<1> HIDE DEF sent
<1>3. ForwardedAs(UrlOf(sent, ForwardedParams), sent, ToSet(ForwardedParams))
  BY <1>1, AllForwarded, TargetAssumption DEF Paths
<1>4. Restricted(QueryParams(ForwardedUrl(s)), sent, ToSet(ForwardedParams))
  BY <1>1, <1>2, <1>3, Received
<1> QED BY <1>4 DEF Restricted, sent

-----------------------------------------------------------------------------
(* The level of a path. *)

Levels == Nat \union {-1}

LEMMA LevelType ==
  ASSUME NEW level \in Levels, NEW part
  PROVE  Level(level, part) \in Levels
BY DEF Levels, Level

LEMMA ZeroLevel == 0 \in Levels
BY DEF Levels

LevelOf(parts) == FoldLeft(Level, 0, parts)
LevelFcn == [e \in Text |-> [a \in Levels |-> Level(a, e)]]

LEMMA LevelFcnType == LevelFcn \in [Text -> [Levels -> Levels]]
BY LevelType DEF LevelFcn

LEMMA LevelOfIs ==
  ASSUME NEW s \in Paths
  PROVE  LevelOf(s) = Folded(LevelFcn, 0, s)
<1> DEFINE Table(h) == h = [t \in SUBSET DOMAIN s |->
                              IF t = {} THEN 0 ELSE Level(h[t \ {Max(t)}], s[Max(t)])]
           c == CHOOSE h : Table(h)
<1>1. PICK it : FoldTable(Levels, it, LevelFcn, 0, s)
  BY ZeroLevel, LevelFcnType, FoldTableExists DEF Paths
<1>2. Table(it)
  <2>1. ASSUME NEW t \in SUBSET DOMAIN s, t # {}
        PROVE  it[t] = Level(it[t \ {Max(t)}], s[Max(t)])
    <3>1. s[Max(t)] \in Text /\ t \ {Max(t)} \in SUBSET DOMAIN s
      BY <2>1, MaxOf DEF Paths
    <3>2. it[t \ {Max(t)}] \in Levels
      BY <1>1, <3>1 DEF FoldTable
    <3>3. it[t] = LevelFcn[s[Max(t)]][it[t \ {Max(t)}]]
      BY <1>1, <2>1, <3>2 DEF FoldTable, FoldsIn
    <3> QED BY <3>1, <3>2, <3>3 DEF LevelFcn
  <2> QED BY <1>1, <2>1 DEF FoldTable, FoldsIn
<1>3. Table(c)
  BY <1>2
<1>4. LevelOf(s) = c[DOMAIN s]
  BY DEF LevelOf, FoldLeft, MapThenFoldSet
<1>5. FoldsIn(Levels, c, LevelFcn, 0, s)
  <2>1. {} \in SUBSET DOMAIN s
    OBVIOUS
  <2>2. c[{}] = 0
    BY <1>3, <2>1
  <2>3. ASSUME NEW t \in SUBSET DOMAIN s, t # {}, c[t \ {Max(t)}] \in Levels
        PROVE  c[t] = LevelFcn[s[Max(t)]][c[t \ {Max(t)}]]
    <3>1. c[t] = Level(c[t \ {Max(t)}], s[Max(t)])
      BY <1>3, <2>3
    <3>2. s[Max(t)] \in Text
      BY <2>3, MaxOf DEF Paths
    <3> HIDE DEF c
    <3> QED BY <2>3, <3>1, <3>2 DEF LevelFcn
  <2> HIDE DEF c
  <2> QED BY <2>2, <2>3 DEF FoldsIn
<1> HIDE DEF c
<1> QED BY <1>4, <1>5, ZeroLevel, LevelFcnType, FoldBridge DEF Paths

LEMMA LevelOfAppend ==
  ASSUME NEW s \in Paths, NEW e \in Text
  PROVE  LevelOf(s) \in Levels /\ LevelOf(Append(s, e)) = Level(LevelOf(s), e)
<1>1. Append(s, e) \in Paths
  BY DEF Paths
<1>2. /\ Folded(LevelFcn, 0, s) \in Levels
      /\ Folded(LevelFcn, 0, Append(s, e)) = LevelFcn[e][Folded(LevelFcn, 0, s)]
  BY ZeroLevel, LevelFcnType, FoldedAppend DEF Paths
<1> QED BY <1>1, <1>2, LevelOfIs DEF LevelFcn

LEMMA LevelOfNone == LevelOf(<<>>) = 0
<1>1. <<>> \in Paths
  BY EmptySeq DEF Paths
<1> QED BY <1>1, LevelOfIs, ZeroLevel, LevelFcnType, FoldedEmpty

-----------------------------------------------------------------------------
(* Where a walk leads. *)

Places == Paths \union {Nowhere}

LEMMA FrontOfPath ==
  ASSUME NEW s \in Paths, s # <<>>
  PROVE  /\ Front(s) \in Paths /\ Len(s) \in Nat /\ Len(s) >= 1 /\ Len(Front(s)) = Len(s) - 1
         /\ \A i \in 1..Len(Front(s)) : Front(s)[i] = s[i]
<1>1. Len(s) \in Nat /\ Len(s) >= 1 /\ \A i \in 1..Len(s) : s[i] \in Text
  BY EmptySeq DEF Paths
<1>2. \A i \in 1..(Len(s) - 1) : s[i] \in Text
  BY <1>1
<1> DEFINE r == SubSeq(s, 1, Len(s) - 1)
<1>3. /\ r \in Seq(Text) /\ Len(r) = IF 1 <= Len(s) - 1 THEN (Len(s) - 1) - 1 + 1 ELSE 0
      /\ \A i \in 1..((Len(s) - 1) - 1 + 1) : r[i] = s[1 + i - 1]
  BY <1>1, <1>2, SubSeqProperties
<1> HIDE DEF r
<1>4. Len(r) = Len(s) - 1 /\ \A i \in 1..Len(r) : r[i] = s[i]
  <2>1. Len(r) = Len(s) - 1
    <3>1. Len(r) = IF 1 <= Len(s) - 1 THEN (Len(s) - 1) - 1 + 1 ELSE 0
      BY <1>3
    <3>2. CASE Len(s) = 1
      BY <3>1, <3>2
    <3>3. CASE Len(s) > 1
      BY <1>1, <3>1, <3>3
    <3>4. \A n \in Nat : n >= 1 => n = 1 \/ n > 1
      OBVIOUS
    <3> QED BY <1>1, <3>2, <3>3, <3>4
  <2>2. ASSUME NEW i \in 1..Len(r) PROVE r[i] = s[i]
    <3>1. i \in 1..((Len(s) - 1) - 1 + 1) /\ 1 + i - 1 = i
      BY <1>1, <2>1
    <3> QED BY <1>3, <3>1
  <2> QED BY <2>1, <2>2
<1> QED BY <1>1, <1>3, <1>4 DEF Front, r, Paths

LEMMA RootPlace == Root \in Places /\ Root \in Paths /\ Root # <<>> /\ Root \in Dirs
BY TargetAssumption DEF Places

LEMMA StepType == ASSUME NEW at \in Places, NEW name \in Text PROVE Step(at, name) \in Places
<1>1. CASE at \notin Dirs
  BY <1>1 DEF Step, Places
<1>2. CASE at \in Dirs
  <2>1. at \in Paths /\ Append(at, name) \in Paths
    BY <1>2, TargetAssumption DEF Paths
  <2>2. at # <<>> => Front(at) \in Paths
    BY <2>1, FrontOfPath
  <2> QED BY <1>2, <2>1, <2>2 DEF Step, Places
<1> QED BY <1>1, <1>2

StepFcn == [e \in Text |-> [a \in Places |-> Step(a, e)]]

LEMMA StepFcnType == StepFcn \in [Text -> [Places -> Places]]
BY StepType DEF StepFcn

LEMMA WalkIs ==
  ASSUME NEW s \in Paths
  PROVE  Walk(s) = Folded(StepFcn, Root, s)
<1> DEFINE Table(h) == h = [t \in SUBSET DOMAIN s |->
                              IF t = {} THEN Root ELSE Step(h[t \ {Max(t)}], s[Max(t)])]
           c == CHOOSE h : Table(h)
<1>1. PICK it : FoldTable(Places, it, StepFcn, Root, s)
  BY RootPlace, StepFcnType, FoldTableExists DEF Paths
<1>2. Table(it)
  <2>1. ASSUME NEW t \in SUBSET DOMAIN s, t # {}
        PROVE  it[t] = Step(it[t \ {Max(t)}], s[Max(t)])
    <3>1. s[Max(t)] \in Text /\ t \ {Max(t)} \in SUBSET DOMAIN s
      BY <2>1, MaxOf DEF Paths
    <3>2. it[t \ {Max(t)}] \in Places
      BY <1>1, <3>1 DEF FoldTable
    <3>3. it[t] = StepFcn[s[Max(t)]][it[t \ {Max(t)}]]
      BY <1>1, <2>1, <3>2 DEF FoldTable, FoldsIn
    <3> QED BY <3>1, <3>2, <3>3 DEF StepFcn
  <2> QED BY <1>1, <2>1 DEF FoldTable, FoldsIn
<1>3. Table(c)
  BY <1>2
<1>4. Walk(s) = c[DOMAIN s]
  BY DEF Walk, FoldLeft, MapThenFoldSet
<1>5. FoldsIn(Places, c, StepFcn, Root, s)
  <2>1. {} \in SUBSET DOMAIN s
    OBVIOUS
  <2>2. c[{}] = Root
    BY <1>3, <2>1
  <2>3. ASSUME NEW t \in SUBSET DOMAIN s, t # {}, c[t \ {Max(t)}] \in Places
        PROVE  c[t] = StepFcn[s[Max(t)]][c[t \ {Max(t)}]]
    <3>1. c[t] = Step(c[t \ {Max(t)}], s[Max(t)])
      BY <1>3, <2>3
    <3>2. s[Max(t)] \in Text
      BY <2>3, MaxOf DEF Paths
    <3> HIDE DEF c
    <3> QED BY <2>3, <3>1, <3>2 DEF StepFcn
  <2> HIDE DEF c
  <2> QED BY <2>2, <2>3 DEF FoldsIn
<1> HIDE DEF c
<1> QED BY <1>4, <1>5, RootPlace, StepFcnType, FoldBridge DEF Paths

LEMMA WalkAppend ==
  ASSUME NEW s \in Paths, NEW e \in Text
  PROVE  Walk(s) \in Places /\ Walk(Append(s, e)) = Step(Walk(s), e)
<1>1. Append(s, e) \in Paths
  BY DEF Paths
<1>2. /\ Folded(StepFcn, Root, s) \in Places
      /\ Folded(StepFcn, Root, Append(s, e)) = StepFcn[e][Folded(StepFcn, Root, s)]
  BY RootPlace, StepFcnType, FoldedAppend DEF Paths
<1> QED BY <1>1, <1>2, WalkIs DEF StepFcn

LEMMA WalkNone == Walk(<<>>) = Root
<1>1. <<>> \in Paths
  BY EmptySeq DEF Paths
<1> QED BY <1>1, WalkIs, RootPlace, StepFcnType, FoldedEmpty

-----------------------------------------------------------------------------
(* Counting levels against walking. *)

LEMMA PrefixIs ==
  ASSUME NEW a \in Paths, NEW b \in Paths
  PROVE  IsPrefix(a, b) <=> Len(a) <= Len(b) /\ \A i \in 1..Len(a) : a[i] = b[i]
<1>1. Len(a) \in Nat /\ Len(b) \in Nat /\ SubSeq(a, 1, Len(a)) = a
  BY SubSeqFull DEF Paths
<1>2. CASE Len(a) <= Len(b)
  <2> DEFINE r == SubSeq(b, 1, Len(a))
  <2>1. r \in Paths /\ Len(r) = Len(a) /\ \A i \in 1..Len(a) : r[i] = b[i]
    <3>1. \A i \in 1..Len(a) : b[i] \in Text
      BY <1>1, <1>2 DEF Paths
    <3>2. /\ r \in Seq(Text) /\ Len(r) = IF 1 <= Len(a) THEN Len(a) - 1 + 1 ELSE 0
          /\ \A i \in 1..(Len(a) - 1 + 1) : r[i] = b[1 + i - 1]
      BY <1>1, <3>1, SubSeqProperties
    <3> HIDE DEF r
    <3>3. Len(r) = Len(a)
      BY <1>1, <3>2
    <3>4. ASSUME NEW i \in 1..Len(a) PROVE r[i] = b[i]
      <4>1. i \in 1..(Len(a) - 1 + 1) /\ 1 + i - 1 = i
        BY <1>1
      <4> QED BY <3>2, <4>1
    <3> QED BY <3>2, <3>3, <3>4 DEF Paths
  <2>2. IsPrefix(a, b) <=> a = r
    BY <1>1, <1>2 DEF IsPrefix
  <2> HIDE DEF r
  <2>3. (\A i \in 1..Len(a) : a[i] = b[i]) => a = r
    <3> SUFFICES ASSUME \A i \in 1..Len(a) : a[i] = b[i] PROVE a = r
      OBVIOUS
    <3>1. \A i \in 1..Len(a) : a[i] = r[i]
      BY <2>1
    <3> QED BY <2>1, <3>1, SeqEqual DEF Paths
  <2>4. a = r => \A i \in 1..Len(a) : a[i] = b[i]
    BY <2>1
  <2> QED BY <1>2, <2>2, <2>3, <2>4
<1>3. CASE ~(Len(a) <= Len(b))
  BY <1>3 DEF IsPrefix
<1> QED BY <1>2, <1>3

LEMMA NowhereIs == Nowhere \notin Paths /\ Nowhere \notin Dirs /\ ~IsPrefix(Root, Nowhere)
<1>1. <<-1>> \notin Text
  <2>1. -1 \notin Codes
    BY DEF Codes
  <2>2. ASSUME <<-1>> \in Text PROVE FALSE
    <3>1. \A s \in Text : Len(s) = 1 => s[1] \in Codes
      BY DEF Text
    <3>2. Len(<<-1>>) = 1 /\ <<-1>>[1] = -1
      OBVIOUS
    <3> QED BY <2>1, <2>2, <3>1, <3>2
  <2> QED BY <2>2
<1> DEFINE x == <<-1>>
<1>2. Nowhere = <<x>>
  BY DEF Nowhere
<1>3. x \notin Text
  BY <1>1
<1> HIDE DEF x
<1>4. Nowhere \notin Paths
  <2>1. \A s \in Paths : Len(s) = 1 => s[1] \in Text
    BY DEF Paths
  <2>2. Len(<<x>>) = 1 /\ <<x>>[1] = x
    OBVIOUS
  <2> QED BY <1>2, <1>3, <2>1, <2>2
<1>5. ASSUME IsPrefix(Root, Nowhere) PROVE FALSE
  <2>1. Len(Root) \in Nat /\ Len(Root) >= 1 /\ Root \in Seq(Text) /\ Root[1] \in Text
    BY RootPlace, EmptySeq DEF Paths
  <2>2. Len(Nowhere) = 1
    BY <1>2
  <2>3. Len(Root) = 1 /\ SubSeq(Root, 1, 1) = SubSeq(Nowhere, 1, 1)
    <3>1. Len(Root) <= Len(Nowhere) /\ SubSeq(Root, 1, Len(Root)) = SubSeq(Nowhere, 1, Len(Root))
      BY <1>5 DEF IsPrefix
    <3>2. \A n \in Nat : n >= 1 /\ n <= 1 => n = 1
      OBVIOUS
    <3>3. Len(Root) = 1
      BY <2>1, <2>2, <3>1, <3>2
    <3> QED BY <3>1, <3>3
  <2>4. SubSeq(Root, 1, 1)[1] = Root[1]
    BY <2>1, <2>3
  <2>5. SubSeq(<<x>>, 1, 1)[1] = x
    OBVIOUS
  <2> QED BY <1>2, <1>3, <2>1, <2>3, <2>4, <2>5
<1>6. Nowhere \notin Dirs
  BY <1>4, TargetAssumption
<1> QED BY <1>4, <1>5, <1>6

(* Where a walk of this level is, inside the root all the way or not. *)
Fine(level, at, inside) ==
  IF level = -1 THEN ~inside
  ELSE \/ at = Nowhere /\ ~inside
       \/ inside /\ at \in Paths /\ IsPrefix(Root, at) /\ Len(at) = Len(Root) + level

LEMMA FineStep ==
  ASSUME NEW level \in Levels, NEW at \in Places, NEW inside \in BOOLEAN, Fine(level, at, inside),
         NEW name \in Text
  PROVE  Fine(Level(level, name), Step(at, name), inside /\ IsPrefix(Root, Step(at, name)))
<1>0. Len(Root) \in Nat /\ Len(Root) >= 1 /\ Root \in Paths /\ Level(level, name) \in Levels
  BY RootPlace, EmptySeq, LevelType DEF Paths
<1>1. CASE level = -1
  BY <1>1 DEF Fine, Level
<1>2. CASE level # -1 /\ at = Nowhere
  <2>1. ~inside
    BY <1>2, NowhereIs DEF Fine
  <2>2. Step(at, name) = Nowhere
    BY <1>2, NowhereIs DEF Step
  <2> QED BY <2>1, <2>2 DEF Fine
<1>3. CASE level # -1 /\ at # Nowhere
  <2>0. /\ level \in Nat /\ inside /\ at \in Paths /\ IsPrefix(Root, at) /\ Len(at) = Len(Root) + level
        /\ Len(at) \in Nat
    BY <1>3 DEF Fine, Levels, Paths
  <2>1. CASE at \notin Dirs
    <3>1. Step(at, name) = Nowhere
      BY <2>1 DEF Step
    <3> QED BY <3>1, NowhereIs DEF Fine
  <2>2. CASE at \in Dirs /\ name \in {<<>>, <<Dot>>}
    BY <2>0, <2>2, <1>3 DEF Step, Level, Fine
  <2>3. CASE at \in Dirs /\ name \notin {<<>>, <<Dot>>} /\ name = <<Dot, Dot>>
    <3>1. at # <<>> /\ Step(at, name) = Front(at) /\ Level(level, name) = level - 1
      <4>1. at # <<>>
        BY <1>0, <2>0, EmptySeq
      <4> QED BY <1>3, <2>3, <4>1 DEF Step, Level
    <3>2. Front(at) \in Paths /\ Len(Front(at)) = Len(at) - 1 /\ \A i \in 1..Len(Front(at)) : Front(at)[i] = at[i]
      BY <2>0, <3>1, FrontOfPath
    <3>3. CASE level = 0
      <4>1. ~IsPrefix(Root, Front(at))
        BY <1>0, <2>0, <3>2, <3>3, PrefixIs
      <4> QED BY <3>1, <3>3, <4>1 DEF Fine
    <3>4. CASE level # 0
      <4>1. IsPrefix(Root, Front(at))
        <5>1. \A i \in 1..Len(Root) : i \in 1..Len(Front(at)) /\ Root[i] = at[i]
          BY <1>0, <2>0, <3>2, <3>4, PrefixIs
        <5>2. Len(Root) <= Len(Front(at)) /\ \A i \in 1..Len(Root) : Root[i] = Front(at)[i]
          BY <1>0, <2>0, <3>2, <3>4, <5>1
        <5> QED BY <1>0, <3>2, <5>2, PrefixIs
      <4>2. Len(Front(at)) = Len(Root) + (level - 1) /\ level - 1 # -1
        BY <1>0, <2>0, <3>2, <3>4
      <4> QED BY <2>0, <3>1, <3>2, <4>1, <4>2 DEF Fine
    <3> QED BY <3>3, <3>4
  <2>4. CASE at \in Dirs /\ name \notin {<<>>, <<Dot>>} /\ name # <<Dot, Dot>>
    <3> DEFINE r == Append(at, name)
    <3>1. Step(at, name) = r /\ Level(level, name) = level + 1
      BY <1>3, <2>4 DEF Step, Level
    <3>2. r \in Paths /\ Len(r) = Len(at) + 1 /\ \A i \in 1..Len(at) : r[i] = at[i]
      BY <2>0, AppendProperties DEF Paths
    <3> HIDE DEF r
    <3>3. IsPrefix(Root, r)
      <4>1. \A i \in 1..Len(Root) : i \in 1..Len(at) /\ Root[i] = at[i]
        BY <1>0, <2>0, PrefixIs
      <4>2. Len(Root) <= Len(r) /\ \A i \in 1..Len(Root) : Root[i] = r[i]
        BY <1>0, <2>0, <3>2, <4>1
      <4> QED BY <1>0, <3>2, <4>2, PrefixIs
    <3>4. Len(r) = Len(Root) + (level + 1) /\ level + 1 # -1
      BY <1>0, <2>0, <3>2
    <3> QED BY <2>0, <3>1, <3>2, <3>3, <3>4 DEF Fine
  <2> QED BY <2>1, <2>2, <2>3, <2>4
<1> QED BY <1>1, <1>2, <1>3

LEMMA InsideAppend ==
  ASSUME NEW names \in Paths, NEW e \in Text
  PROVE  Inside(Append(names, e)) <=> Inside(names) /\ IsPrefix(Root, Walk(Append(names, e)))
<1> DEFINE r == Append(names, e)
<1>1. r \in Paths /\ Len(r) = Len(names) + 1 /\ Len(names) \in Nat
      /\ \A i \in 1..Len(names) : r[i] = names[i]
  BY AppendProperties DEF Paths
<1> HIDE DEF r
<1>2. SubSeq(r, 1, Len(r)) = r
  BY <1>1, SubSeqFull DEF Paths
<1>3. ASSUME NEW n \in 0..Len(names) PROVE SubSeq(r, 1, n) = SubSeq(names, 1, n)
  <2> DEFINE a == SubSeq(r, 1, n)
             b == SubSeq(names, 1, n)
  <2>0. \A i \in 1..n : r[i] \in Text /\ names[i] \in Text /\ r[i] = names[i]
    BY <1>1 DEF Paths
  <2>1. /\ a \in Seq(Text) /\ Len(a) = IF 1 <= n THEN n - 1 + 1 ELSE 0
        /\ \A i \in 1..(n - 1 + 1) : a[i] = r[1 + i - 1]
    BY <2>0, SubSeqProperties
  <2>2. /\ b \in Seq(Text) /\ Len(b) = IF 1 <= n THEN n - 1 + 1 ELSE 0
        /\ \A i \in 1..(n - 1 + 1) : b[i] = names[1 + i - 1]
    BY <2>0, SubSeqProperties
  <2> HIDE DEF a, b
  <2>3. Len(a) = n /\ Len(b) = n
    BY <2>1, <2>2
  <2>4. ASSUME NEW i \in 1..n PROVE a[i] = b[i]
    <3>1. i \in 1..(n - 1 + 1) /\ 1 + i - 1 = i
      OBVIOUS
    <3> QED BY <2>0, <2>1, <2>2, <3>1
  <2>5. a = b
    BY <2>1, <2>2, <2>3, <2>4, SeqEqual
  <2> QED BY <2>5 DEF a, b
<1>4. 0..Len(r) = (0..Len(names)) \union {Len(r)}
  BY <1>1
<1>5. Inside(r) <=> Inside(names) /\ IsPrefix(Root, Walk(r))
  BY <1>2, <1>3, <1>4 DEF Inside
<1> QED BY <1>5 DEF r

LEMMA LevelWalk ==
  \A names \in Paths : Fine(LevelOf(names), Walk(names), Inside(names))
<1> DEFINE S == {names \in Paths : Fine(LevelOf(names), Walk(names), Inside(names))}
<1>1. <<>> \in S
  <2> SUFFICES ASSUME NEW s, s = <<>> PROVE s \in S
    OBVIOUS
  <2>1. s \in Paths /\ LevelOf(s) = 0 /\ Walk(s) = Root /\ Len(s) = 0
    BY EmptySeq, LevelOfNone, WalkNone DEF Paths
  <2>2. IsPrefix(Root, Root)
    BY RootPlace, EmptySeq, PrefixIs DEF Paths
  <2>3. Inside(s)
    <3>1. \A n \in 0..Len(s) : SubSeq(s, 1, n) = s
      <4>1. SubSeq(<<>>, 1, 0) = <<>>
        BY SubSeqEmpty
      <4>2. \A n \in 0..Len(s) : n = 0
        BY <2>1
      <4> QED BY <4>1, <4>2
    <3> QED BY <2>1, <2>2, <3>1 DEF Inside
  <2>4. Len(Root) = Len(Root) + 0
    BY RootPlace DEF Paths
  <2>5. Fine(LevelOf(s), Walk(s), Inside(s))
    BY <2>1, <2>2, <2>3, <2>4, RootPlace DEF Fine
  <2> QED BY <2>1, <2>5
<1>2. ASSUME NEW s \in S, NEW e \in Text PROVE Append(s, e) \in S
  <2>1. s \in Paths /\ Fine(LevelOf(s), Walk(s), Inside(s))
    OBVIOUS
  <2> HIDE DEF S
  <2>2. Append(s, e) \in Paths
    BY <2>1, AppendProperties DEF Paths
  <2>3. LevelOf(s) \in Levels /\ Walk(s) \in Places /\ Inside(s) \in BOOLEAN
    BY <2>1, LevelOfAppend, WalkAppend DEF Inside
  <2>4. Fine(Level(LevelOf(s), e), Step(Walk(s), e), Inside(s) /\ IsPrefix(Root, Step(Walk(s), e)))
    BY <2>1, <2>3, FineStep
  <2>5. LevelOf(Append(s, e)) = Level(LevelOf(s), e) /\ Walk(Append(s, e)) = Step(Walk(s), e)
    BY <2>1, LevelOfAppend, WalkAppend
  <2>6. Inside(Append(s, e)) <=> Inside(s) /\ IsPrefix(Root, Step(Walk(s), e))
    BY <2>1, <2>5, InsideAppend
  <2>7. Fine(LevelOf(Append(s, e)), Walk(Append(s, e)), Inside(Append(s, e)))
    BY <2>4, <2>5, <2>6 DEF Fine
  <2> QED BY <2>2, <2>7 DEF S
<1>3. S \in SUBSET Seq(Text)
  BY DEF Paths
<1> HIDE DEF S
<1>4. \A s \in Seq(Text) : s \in S
  BY <1>1, <1>2, <1>3, SeqInduction
<1> QED BY <1>4 DEF S, Paths

-----------------------------------------------------------------------------
(* The file of a path. *)

LEMMA IndexIs ==
  Index \in Text /\ Without(Index, Slash) /\ Without(Index, Nul)
  /\ Index \notin {<<>>, <<Dot>>, <<Dot, Dot>>}
<1>1. Len(Index) = 5 /\ Index[1] = 105 /\ Index[2] = 110 /\ Index[3] = 100
      /\ Index[4] = 101 /\ Index[5] = 120
  BY DEF Index
<1>2. Index \in Text
  BY DEF Index, Text, Codes
<1>3. \A i \in 1..5 : i \in {1, 2, 3, 4, 5}
  OBVIOUS
<1>4. Len(<<>>) = 0 /\ Len(<<Dot>>) = 1 /\ Len(<<Dot, Dot>>) = 2
  OBVIOUS
<1>5. \A i \in 1..5 : Index[i] # Slash /\ Index[i] # Nul
  BY <1>1, <1>3 DEF Slash, Nul
<1>6. Index \notin {<<>>, <<Dot>>, <<Dot, Dot>>}
  <2> SUFFICES ASSUME NEW x \in {<<>>, <<Dot>>, <<Dot, Dot>>}, Index = x PROVE FALSE
    OBVIOUS
  <2>1. Len(x) \in {0, 1, 2}
    BY <1>4
  <2> QED BY <1>1, <2>1
<1> HIDE DEF Index
<1> QED BY <1>1, <1>2, <1>5, <1>6 DEF Without

LEMMA FilePathType ==
  ASSUME NEW uri \in Text
  PROVE  FilePath(uri) \in Text /\ Names(uri) \in Paths
<1> DEFINE f == FilePath(uri)
           x == Cut(f, Nul)[1]
<1>1. f \in Text
  BY IndexIs, ConcatProperties DEF FilePath, Text
<1> HIDE DEF f
<1>2. x \in Text
  BY <1>1, Separators, CutType
<1>3. Names(uri) = Split(x, Slash)
  BY DEF Names, CString, f
<1> HIDE DEF x
<1>4. Split(x, Slash) \in Paths
  <2>1. PICK parts, last : SplitsTo(x, Slash, parts, last)
    BY <1>2, SplitsExist
  <2> QED BY <2>1, AppendProperties DEF SplitsTo, Paths
<1> QED BY <1>1, <1>3, <1>4 DEF f

LEMMA SplitLevel ==
  ASSUME NEW s, NEW parts, NEW last, SplitsTo(s, Slash, parts, last)
  PROVE  LevelOf(Split(s, Slash)) = Level(LevelOf(parts), last) /\ LevelOf(parts) \in Levels
BY LevelOfAppend DEF SplitsTo

(* Whatever is asked for in a directory counts as the directory does. *)
LEMMA FileLevel ==
  ASSUME NEW uri \in Text, uri # <<>>
  PROVE  LevelOf(Split(FilePath(uri), Slash)) = -1 <=> LevelOf(Split(uri, Slash)) = -1
<1>1. CASE Last(uri) # Slash
  BY <1>1 DEF FilePath
<1>2. CASE Last(uri) = Slash
  <2>1. PICK v \in Text, e \in Codes : uri = Append(v, e) /\ Len(uri) = Len(v) + 1
    BY Unappend DEF Text
  <2>2. e = Slash
    <3>1. Append(v, e)[Len(v) + 1] = e
      BY <2>1, AppendProperties DEF Text
    <3> QED BY <1>2, <2>1, <3>1 DEF Last
  <2>3. PICK parts, last : SplitsTo(v, Slash, parts, last)
    BY <2>1, SplitsExist
  <2> DEFINE A == Append(parts, last)
  <2>4. SplitsTo(uri, Slash, A, <<>>)
    BY <2>1, <2>2, <2>3, Separators, SplitNext
  <2> HIDE DEF A
  <2>5. SplitsTo(uri \o Index, Slash, A, <<>> \o Index)
    BY <2>4, IndexIs, SplitTail
  <2>6. <<>> \o Index = Index
    BY IndexIs, ConcatEmptySeq DEF Text
  <2>7. LevelOf(A) \in Levels /\ LevelOf(Split(uri, Slash)) = Level(LevelOf(A), <<>>)
        /\ LevelOf(Split(uri \o Index, Slash)) = Level(LevelOf(A), Index)
    BY <2>4, <2>5, <2>6, SplitLevel
  <2>8. \A level \in Levels : Level(level, <<>>) = level /\ (Level(level, Index) = -1 <=> level = -1)
    BY IndexIs DEF Level, Levels
  <2>9. FilePath(uri) = uri \o Index
    BY <1>2 DEF FilePath
  <2> QED BY <2>7, <2>8, <2>9
<1> QED BY <1>1, <1>2

(* What leads above the root does so however it goes on. *)
LEMMA LevelGrows ==
  ASSUME NEW s \in Text, NEW parts, NEW last, SplitsTo(s, Slash, parts, last),
         LevelOf(parts) = -1
  PROVE  \A t \in Text : \E p, l : SplitsTo(s \o t, Slash, p, l) /\ LevelOf(p) = -1
<1> DEFINE S == {t \in Text : \E p, l : SplitsTo(s \o t, Slash, p, l) /\ LevelOf(p) = -1}
<1>1. <<>> \in S
  <2>1. <<>> \in Text /\ s \o <<>> = s
    BY EmptySeq, ConcatEmptySeq DEF Text
  <2> QED BY <2>1
<1>2. ASSUME NEW t \in S, NEW e \in Codes PROVE Append(t, e) \in S
  <2>0. t \in Text /\ \E p, l : SplitsTo(s \o t, Slash, p, l) /\ LevelOf(p) = -1
    OBVIOUS
  <2>1. PICK p, l : SplitsTo(s \o t, Slash, p, l) /\ LevelOf(p) = -1
    BY <2>0
  <2> HIDE DEF S
  <2>2. Append(t, e) \in Text /\ s \o t \in Text /\ s \o Append(t, e) = Append(s \o t, e)
    BY <2>0, ConcatAppend, AppendProperties, ConcatProperties DEF Text
  <2>3. \E q, m : SplitsTo(Append(s \o t, e), Slash, q, m) /\ LevelOf(q) = -1
    <3>1. CASE e = Slash
      <4>1. SplitsTo(Append(s \o t, e), Slash, Append(p, l), <<>>)
        BY <2>1, <2>2, <3>1, SplitNext
      <4>2. LevelOf(Append(p, l)) = Level(LevelOf(p), l)
        BY <2>1, LevelOfAppend DEF SplitsTo
      <4>3. LevelOf(Append(p, l)) = -1
        BY <2>1, <4>2 DEF Level
      <4> QED BY <4>1, <4>3
    <3>2. CASE e # Slash
      <4>1. SplitsTo(Append(s \o t, e), Slash, p, Append(l, e))
        BY <2>1, <2>2, <3>2, SplitNext
      <4> QED BY <2>1, <4>1
    <3> QED BY <3>1, <3>2
  <2> QED BY <2>2, <2>3 DEF S
<1>3. S \in SUBSET Seq(Codes)
  BY DEF Text
<1> HIDE DEF S
<1>4. \A t \in Text : t \in S
  BY <1>1, <1>2, <1>3, SeqInduction DEF Text
<1> QED BY <1>4 DEF S

(* A step up ends in a directory or nowhere. *)
LEMMA UpIsNoFile ==
  ASSUME NEW at \in Places
  PROVE  Step(at, <<Dot, Dot>>) \notin Files
<1>1. Nowhere \notin Files
  BY NowhereIs, TargetAssumption
<1>2. CASE at \notin Dirs
  BY <1>1, <1>2 DEF Step
<1>3. CASE at \in Dirs
  <2>1. <<Dot, Dot>> \notin {<<>>, <<Dot>>}
    <3>1. Len(<<>>) = 0 /\ Len(<<Dot>>) = 1 /\ Len(<<Dot, Dot>>) = 2
      OBVIOUS
    <3> QED BY <3>1
  <2>2. Step(at, <<Dot, Dot>>) = IF at = <<>> THEN at ELSE Front(at)
    BY <1>3, <2>1 DEF Step
  <2>3. Step(at, <<Dot, Dot>>) \in Dirs
    BY <1>3, <2>2, TargetAssumption
  <2> QED BY <2>3, TargetAssumption
<1> QED BY <1>2, <1>3

(* A file at the end of a name that a NUL cuts short. *)
LEMMA CutShort ==
  ASSUME NEW x \in Text, NEW t \in Text, LevelOf(Split(x \o t, Slash)) # -1,
         Walk(Split(x, Slash)) \in Files
  PROVE  LevelOf(Split(x, Slash)) # -1
<1>1. PICK parts, last : SplitsTo(x, Slash, parts, last)
  BY SplitsExist
<1>2. LevelOf(parts) # -1
  <2> SUFFICES ASSUME LevelOf(parts) = -1 PROVE FALSE
    OBVIOUS
  <2>1. PICK p, l : SplitsTo(x \o t, Slash, p, l) /\ LevelOf(p) = -1
    BY <1>1, LevelGrows
  <2>2. LevelOf(Split(x \o t, Slash)) = Level(LevelOf(p), l)
    BY <2>1, SplitLevel
  <2> QED BY <2>1, <2>2 DEF Level
<1>3. last # <<Dot, Dot>>
  <2> SUFFICES ASSUME last = <<Dot, Dot>> PROVE FALSE
    OBVIOUS
  <2>1. parts \in Paths /\ last \in Text /\ Split(x, Slash) = Append(parts, last)
    BY <1>1 DEF SplitsTo
  <2>2. Walk(parts) \in Places /\ Walk(Append(parts, last)) = Step(Walk(parts), last)
    BY <2>1, WalkAppend
  <2> QED BY <2>1, <2>2, UpIsNoFile
<1>4. LevelOf(Split(x, Slash)) = Level(LevelOf(parts), last) /\ LevelOf(parts) \in Levels
  BY <1>1, SplitLevel
<1> QED BY <1>2, <1>3, <1>4 DEF Level, Levels

LEMMA StaticLeads ==
  ASSUME NEW uri \in Text, IsValidPath(uri), Walk(Names(uri)) \in Files
  PROVE  LeadsToFile(uri)
<1>1. uri # <<>> /\ uri[1] = Slash /\ LevelOf(Split(uri, Slash)) # -1
  BY DEF IsValidPath, LevelOf
<1> DEFINE f == FilePath(uri)
           x == Cut(f, Nul)[1]
<1>2. f \in Text /\ Names(uri) \in Paths /\ Names(uri) = Split(x, Slash)
  BY FilePathType DEF Names, CString
<1>3. LevelOf(Split(f, Slash)) # -1
  BY <1>1, FileLevel
<1> HIDE DEF f
<1>4. LevelOf(Split(x, Slash)) # -1
  <2>1. CASE Cut(f, Nul) = <<f, <<>>>>
    <3>1. x = f
      BY <2>1
    <3> QED BY <1>3, <3>1
  <2>2. CASE \E a, b \in Text : f = a \o <<Nul>> \o b /\ Cut(f, Nul) = <<a, b>>
    <3>1. PICK a \in Text, b \in Text : f = a \o <<Nul>> \o b /\ Cut(f, Nul) = <<a, b>>
      BY <2>2
    <3>2. x = a
      BY <3>1
    <3> DEFINE n == <<Nul>>
    <3>3. n \in Text
      BY Separators DEF Text
    <3>4. f = (a \o n) \o b
      BY <3>1
    <3> HIDE DEF n, x
    <3>5. Cat(Cat(a, n), b) = Cat(a, Cat(n, b)) /\ Cat(n, b) \in Text
      BY <3>3, CatIs
    <3>6. f = a \o Cat(n, b)
      BY <3>4, <3>5, Zenon DEF Cat
    <3> QED BY <1>2, <1>3, <3>2, <3>5, <3>6, CutShort
  <2>3. \/ Cut(f, Nul) = <<f, <<>>>>
        \/ \E a, b \in Text : f = a \o <<Nul>> \o b /\ Cut(f, Nul) = <<a, b>>
    BY <1>2, Separators, CutCases, Zenon
  <2> QED BY <2>1, <2>2, <2>3
<1>5. Inside(Names(uri))
  <2>1. Fine(LevelOf(Names(uri)), Walk(Names(uri)), Inside(Names(uri)))
    BY <1>2, LevelWalk
  <2>2. LevelOf(Names(uri)) # -1 /\ Walk(Names(uri)) # Nowhere
    BY <1>2, <1>4, NowhereIs, TargetAssumption
  <2> QED BY <2>1, <2>2 DEF Fine
<1> QED BY <1>1, <1>5 DEF LeadsToFile

LEMMA LeadsStatic ==
  ASSUME NEW uri \in Text, LeadsToFile(uri), ~Contains(uri, Nul)
  PROVE  IsValidPath(uri) /\ Walk(Names(uri)) \in Files
<1>1. uri # <<>> /\ uri[1] = Slash /\ Inside(Names(uri)) /\ Walk(Names(uri)) \in Files
  BY DEF LeadsToFile
<1> DEFINE f == FilePath(uri)
<1>2. f \in Text /\ Names(uri) \in Paths
  BY FilePathType
<1>3. Without(f, Nul)
  <2>1. Without(uri, Nul)
    BY DEF Without, Contains
  <2>2. Without(uri \o Index, Nul)
    <3> SUFFICES ASSUME NEW i \in 1..Len(uri \o Index) PROVE (uri \o Index)[i] # Nul
      BY DEF Without
    <3>1. /\ Len(uri \o Index) = Len(uri) + Len(Index) /\ Len(uri) \in Nat /\ Len(Index) \in Nat
          /\ (uri \o Index)[i] = IF i <= Len(uri) THEN uri[i] ELSE Index[i - Len(uri)]
      BY IndexIs, ConcatProperties DEF Text
    <3>2. CASE i <= Len(uri)
      BY <2>1, <3>1, <3>2 DEF Without
    <3>3. CASE ~(i <= Len(uri))
      <4>1. i - Len(uri) \in 1..Len(Index)
        BY <3>1, <3>3
      <4> QED BY <3>1, <3>3, <4>1, IndexIs DEF Without
    <3> QED BY <3>2, <3>3
  <2> QED BY <2>1, <2>2 DEF FilePath
<1>4. Names(uri) = Split(f, Slash)
  <2> HIDE DEF f
  <2>1. Cut(f, Nul) = <<f, <<>>>>
    BY <1>2, <1>3, CutNone
  <2>2. Cut(f, Nul)[1] = f
    BY <2>1
  <2> QED BY <2>2 DEF Names, CString, f
<1>5. LevelOf(Names(uri)) # -1
  <2>1. Fine(LevelOf(Names(uri)), Walk(Names(uri)), Inside(Names(uri)))
    BY <1>2, LevelWalk
  <2> QED BY <1>1, <2>1 DEF Fine
<1>6. LevelOf(Split(uri, Slash)) # -1
  BY <1>1, <1>4, <1>5, FileLevel
<1> QED BY <1>1, <1>6 DEF IsValidPath, LevelOf

-----------------------------------------------------------------------------
(* The theorems. *)

LEMMA TargetInit == Init => TypeOK
<1> SUFFICES ASSUME Init PROVE TypeOK
  OBVIOUS
<1>1. text \in Text /\ pieces \in 0..MaxPieces
  BY TargetAssumption DEF Init
<1>2. <<>> \in Paths
  BY EmptySeq DEF Paths
<1> QED BY <1>1, <1>2 DEF Init, Unanswered, TypeOK

LEMMA TargetStep == TypeOK /\ [Next]_vars => TypeOK'
<1> SUFFICES ASSUME TypeOK, [Next]_vars PROVE TypeOK'
  OBVIOUS
<1>1. CASE Write
  <2>1. PICK piece \in PathPieces \union QueryPieces : text' = text \o piece
    BY <1>1 DEF Write
  <2>2. text \in Text /\ piece \in Text
    BY <2>1, TargetAssumption DEF TypeOK
  <2>3. text' \in Text
    BY <2>1, <2>2, ConcatProperties DEF Text
  <2>4. pieces' \in 0..MaxPieces
    <3>1. pieces \in 0..MaxPieces /\ pieces < MaxPieces /\ pieces' = pieces + 1 /\ MaxPieces \in Nat
      BY <1>1, TargetAssumption DEF Write, TypeOK
    <3> QED BY <3>1
  <2>5. <<>> \in Paths
    BY EmptySeq DEF Paths
  <2> QED BY <1>1, <2>3, <2>4, <2>5 DEF Write, Unanswered, TypeOK
<1>2. CASE HandleRequest
  <2>1. PICK method \in {"GET", "HEAD", "POST"} : Request(method)
    BY <1>2 DEF HandleRequest
  <2> DEFINE uri == Uri(text)
  <2>2. \/ Walk(Names(uri)) \in Files
           /\ \E status \in {200, 500} :
                answer' = [method |-> method, status |-> status, file |-> Walk(Names(uri))]
        \/ answer' = [method |-> method, status |-> HandlerStatus(method, uri), file |-> <<>>]
    BY <2>1 DEF Request, IsStaticResource
  <2>3. \A m, u : HandlerStatus(m, u) \in Nat
    BY DEF HandlerStatus
  <2>4. <<>> \in Paths /\ Files \subseteq Paths
    BY EmptySeq, TargetAssumption DEF Paths
  <2>5. answer' \in [method : {"", "GET", "HEAD", "POST"}, status : Nat, file : Paths]
    <3> HIDE DEF uri
    <3>1. \A status \in Nat : \A file \in Paths :
            [method |-> method, status |-> status, file |-> file]
              \in [method : {"", "GET", "HEAD", "POST"}, status : Nat, file : Paths]
      OBVIOUS
    <3>2. ASSUME answer' = [method |-> method, status |-> HandlerStatus(method, uri), file |-> <<>>]
          PROVE  answer' \in [method : {"", "GET", "HEAD", "POST"}, status : Nat, file : Paths]
      <4>1. HandlerStatus(method, uri) \in Nat
        BY <2>3
      <4> QED BY <2>4, <3>1, <3>2, <4>1
    <3>3. CASE Walk(Names(uri)) \in Files /\ \E status \in {200, 500} :
                 answer' = [method |-> method, status |-> status, file |-> Walk(Names(uri))]
      <4>1. PICK status \in {200, 500} :
              answer' = [method |-> method, status |-> status, file |-> Walk(Names(uri))]
        BY <3>3
      <4>2. status \in Nat /\ Walk(Names(uri)) \in Paths
        BY <2>4, <3>3
      <4> QED BY <3>1, <4>1, <4>2
    <3>4. CASE answer' = [method |-> method, status |-> HandlerStatus(method, uri), file |-> <<>>]
      BY <3>2, <3>4
    <3> QED BY <2>2, <3>3, <3>4, Zenon
  <2> QED BY <1>2, <2>5 DEF HandleRequest, TypeOK
<1>3. CASE UNCHANGED vars
  BY <1>3 DEF vars, TypeOK
<1> QED BY <1>1, <1>2, <1>3 DEF Next

(* The texts, the count of pieces and the answers have their types.        *)
THEOREM TargetTypeCorrect == Spec => []TypeOK
BY TargetInit, TargetStep, PTL DEF Spec

LEMMA ServedInit == Init => ServedExactly
<1>1. Init => answer.method = ""
  <2>1. Unanswered.method = ""
    BY DEF Unanswered
  <2> QED BY <2>1, Zenon DEF Init
<1>2. answer.method = "" => ~(answer.method \in {"GET", "HEAD"})
  OBVIOUS
<1> QED BY <1>1, <1>2, Zenon DEF ServedExactly

LEMMA ServedStep == TypeOK /\ ServedExactly /\ [Next]_vars => ServedExactly'
<1> SUFFICES ASSUME TypeOK, ServedExactly, [Next]_vars PROVE ServedExactly'
  OBVIOUS
<1>1. CASE Write
  BY <1>1 DEF Write, Unanswered, ServedExactly
<1>2. CASE HandleRequest
  <2> DEFINE uri == Uri(text)
  <2>1. uri \in Text /\ text' = text
    BY <1>2, UriType DEF TypeOK, HandleRequest
  <2>2. PICK method \in {"GET", "HEAD", "POST"} : Request(method)
    BY <1>2 DEF HandleRequest
  <2>3. CASE IsStaticResource(method, uri)
    <3>1. answer'.file = Walk(Names(uri)) /\ Walk(Names(uri)) \in Files /\ IsValidPath(uri)
      BY <2>2, <2>3 DEF Request, IsStaticResource
    <3>2. LeadsToFile(uri)
      BY <2>1, <3>1, StaticLeads
    <3>3. Walk(Names(uri)) # <<>>
      BY <3>1, TargetAssumption
    <3> QED BY <2>1, <3>1, <3>2, <3>3 DEF ServedExactly
  <2>4. CASE ~IsStaticResource(method, uri)
    <3>1. answer'.file = <<>> /\ answer'.method = method
      BY <2>2, <2>4 DEF Request
    <3>2. method \in {"GET", "HEAD"} => ~(IsValidPath(uri) /\ Walk(Names(uri)) \in Files)
      BY <2>4 DEF IsStaticResource
    <3>3. method \in {"GET", "HEAD"} => ~(LeadsToFile(uri) /\ ~Contains(uri, Nul))
      BY <2>1, <3>2, LeadsStatic
    <3> QED BY <2>1, <3>1, <3>3 DEF ServedExactly
  <2> QED BY <2>3, <2>4
<1>3. CASE UNCHANGED vars
  BY <1>3 DEF vars, ServedExactly
<1> QED BY <1>1, <1>2, <1>3 DEF Next

(* For every file system: a GET or HEAD is answered with a file exactly if  *)
(* its path leads to it without leaving the root (counting levels is as     *)
(* good as walking); a path with a NUL may be refused, but never leads      *)
(* outside (utils.cpp:323-353, http_server.cpp:200-230).                    *)
THEOREM FilesServedExactly == Spec => []ServedExactly
BY TargetInit, TargetStep, ServedInit, ServedStep, PTL DEF Spec

(* For every text: the path, and each name and value of the query, is what  *)
(* the text sent says character by character, escapes read once and a stray *)
(* percent sign as itself; the parameters are the names read, each with its *)
(* last value (utils.cpp:251-276, http_context.cpp:52-84).                  *)
THEOREM PathDecodedOnce == Spec => []DecodedOnce
<1>1. TypeOK => DecodedOnce
  BY DecodesOnce DEF TypeOK
<1> QED BY <1>1, TargetTypeCorrect, PTL

(* For every text and every list of names: the service reads from the      *)
(* query that is sent on exactly the listed parameters that the client     *)
(* sent, with their values (server.cpp:119-140, 155-166).                  *)
THEOREM ParametersForwarded == Spec => []QueryForwarded
<1>1. TypeOK => QueryForwarded
  BY Forwards DEF TypeOK, QueryForwarded
<1> QED BY <1>1, TargetTypeCorrect, PTL

=============================================================================
