---------------------------- MODULE OsCoreProofs ----------------------------
(***************************************************************************)
(* What the operators of OsCore do to the lists of the kernel, for every   *)
(* set of tasks, objects and priorities: the lemmas that the proofs about  *)
(* the services cite.                                                      *)
(***************************************************************************)
EXTENDS OsCore, SequenceTheorems, FiniteSetTheorems, WellFoundedInduction, TLAPS

-----------------------------------------------------------------------------
(* Lists that hold every member of a set once.                             *)

Lists(s, S) ==
  /\ s \in Seq(S)
  /\ \A i, j \in 1..Len(s) : s[i] = s[j] => i = j
  /\ \A x \in S : \E i \in 1..Len(s) : s[i] = x

LEMMA ListsEmpty == Lists(<<>>, {})
BY EmptySeq DEF Lists

LEMMA ListsNone ==
  ASSUME NEW S, NEW s, Lists(s, S)
  PROVE  /\ s = <<>> <=> S = {}
         /\ Len(s) \in Nat
         /\ Len(s) = 0 <=> s = <<>>
         /\ \A i \in 1..Len(s) : s[i] \in S
         /\ s # <<>> => Head(s) \in S /\ Head(s) = s[1] /\ Len(s) >= 1
<1>1. s \in Seq(S) /\ Len(s) \in Nat /\ \A i \in 1..Len(s) : s[i] \in S
  BY LenProperties, ElementOfSeq DEF Lists
<1>2. s # <<>> => Len(s) >= 1 /\ s[1] \in S /\ Head(s) = s[1]
  BY <1>1, EmptySeq
<1>3. Len(s) = 0 <=> s = <<>>
  BY <1>1, EmptySeq
<1>4. S # {} => s # <<>>
  BY <1>1, EmptySeq DEF Lists
<1> QED
  BY <1>1, <1>2, <1>3, <1>4

(* r is s with x put in at n, or without its n-th.                         *)
Inserted(s, r, n, x) ==
  /\ Len(r) = Len(s) + 1
  /\ \A i \in 1..Len(r) : r[i] = IF i < n THEN s[i] ELSE IF i = n THEN x ELSE s[i - 1]

Deleted(s, r, n) ==
  /\ Len(r) = Len(s) - 1
  /\ \A i \in 1..Len(r) : r[i] = IF i < n THEN s[i] ELSE s[i + 1]

Shrunk(s, r) == \E n \in 1..Len(s) : Deleted(s, r, n)

LEMMA ListsInsert ==
  ASSUME NEW S, NEW s, NEW x, NEW r, NEW n \in 1..(Len(s) + 1),
         Lists(s, S), x \notin S, r \in Seq(S \cup {x}), Inserted(s, r, n, x)
  PROVE  Lists(r, S \cup {x})
<1> USE DEF Inserted
<1>1. Len(s) \in Nat /\ \A i \in 1..Len(s) : s[i] \in S
  BY ListsNone
<1>2. \A i \in 1..Len(r) : i # n => r[i] \in S
  <2> SUFFICES ASSUME NEW i \in 1..Len(r), i # n PROVE r[i] \in S
    OBVIOUS
  <2>1. CASE i < n
    BY <1>1, <2>1
  <2>2. CASE i > n
    <3>1. i - 1 \in 1..Len(s)
      BY <1>1, <2>2
    <3> QED
      BY <1>1, <2>2, <3>1
  <2> QED
    BY <1>1, <2>1, <2>2
<1>3. r[n] = x
  BY <1>1
<1>4. ASSUME NEW i \in 1..Len(r), NEW j \in 1..Len(r), r[i] = r[j] PROVE i = j
  <2>1. CASE i = n \/ j = n
    BY <1>2, <1>3, <1>4, <2>1
  <2>2. CASE i # n /\ j # n
    <3> DEFINE a == IF i < n THEN i ELSE i - 1
               b == IF j < n THEN j ELSE j - 1
    <3>1. a \in 1..Len(s) /\ b \in 1..Len(s)
      BY <1>1, <2>2
    <3>2. r[i] = s[a] /\ r[j] = s[b]
      BY <1>1, <2>2
    <3>3. a = b
      BY <1>4, <3>1, <3>2 DEF Lists
    <3> QED
      BY <1>1, <2>2, <3>3
  <2> QED
    BY <2>1, <2>2
<1>5. ASSUME NEW y \in S \cup {x} PROVE \E i \in 1..Len(r) : r[i] = y
  <2>1. CASE y = x
    BY <1>1, <1>3, <2>1
  <2>2. CASE y \in S
    <3>1. PICK i \in 1..Len(s) : s[i] = y
      BY <2>2 DEF Lists
    <3>2. CASE i < n
      BY <1>1, <3>1, <3>2
    <3>3. CASE i >= n
      <4>1. i + 1 \in 1..Len(r) /\ r[i + 1] = s[i + 1 - 1]
        BY <1>1, <3>1, <3>3
      <4>2. i + 1 - 1 = i
        BY <1>1
      <4> QED
        BY <3>1, <4>1, <4>2
    <3> QED
      BY <1>1, <3>2, <3>3
  <2> QED
    BY <2>1, <2>2
<1> QED
  BY <1>4, <1>5 DEF Lists

LEMMA ListsDelete ==
  ASSUME NEW S, NEW s, NEW r, NEW n \in 1..Len(s),
         Lists(s, S), r \in Seq(S), Deleted(s, r, n)
  PROVE  Lists(r, S \ {s[n]})
<1> USE DEF Deleted
<1> DEFINE at(i) == IF i < n THEN i ELSE i + 1
<1>1. Len(s) \in Nat /\ \A i \in 1..Len(s) : s[i] \in S
  BY ListsNone
<1>2. ASSUME NEW i \in 1..Len(r)
      PROVE  at(i) \in 1..Len(s) /\ at(i) # n /\ r[i] = s[at(i)] /\ r[i] \in S \ {s[n]}
  <2>1. at(i) \in 1..Len(s) /\ at(i) # n
    BY <1>1
  <2>2. r[i] = s[at(i)]
    OBVIOUS
  <2>3. s[at(i)] # s[n]
    BY <2>1 DEF Lists
  <2> HIDE DEF at
  <2> QED
    BY <1>1, <2>1, <2>2, <2>3
<1>3. ASSUME NEW i \in 1..Len(r), NEW j \in 1..Len(r), r[i] = r[j] PROVE i = j
  <2>1. at(i) = at(j)
    <3>1. /\ at(i) \in 1..Len(s) /\ at(j) \in 1..Len(s)
          /\ r[i] = s[at(i)] /\ r[j] = s[at(j)]
      BY <1>2
    <3> HIDE DEF at
    <3> QED
      BY <1>3, <3>1 DEF Lists
  <2> QED
    BY <1>1, <2>1
<1>4. ASSUME NEW y \in S \ {s[n]} PROVE \E i \in 1..Len(r) : r[i] = y
  <2>1. PICK i \in 1..Len(s) : s[i] = y
    BY DEF Lists
  <2>2. i # n
    BY <2>1
  <2>3. CASE i < n
    BY <1>1, <2>1, <2>3
  <2>4. CASE i > n
    <3>1. i - 1 \in 1..Len(r) /\ ~(i - 1 < n) /\ i - 1 + 1 = i
      BY <1>1, <2>4
    <3>2. r[i - 1] = s[i - 1 + 1]
      BY <3>1
    <3> QED
      BY <2>1, <3>1, <3>2
  <2> QED
    BY <1>1, <2>2, <2>3, <2>4
<1>5. r \in Seq(S \ {s[n]})
  <2>1. Range(r) = {r[i] : i \in 1..Len(r)}
    BY RangeEquality
  <2>2. Range(r) \subseteq S \ {s[n]}
    BY <1>2, <2>1
  <2>3. r \in Seq(Range(r))
    BY SeqOfRange
  <2> QED
    BY <2>2, <2>3, SeqMonotonic
<1> QED
  BY <1>3, <1>4, <1>5 DEF Lists

LEMMA ListsHead ==
  ASSUME NEW S, NEW s, NEW x, Lists(s, S), x \notin S
  PROVE  Lists(<<x>> \o s, S \cup {x})
<1> DEFINE T == S \cup {x}
           r == <<x>> \o s
<1>1. s \in Seq(T) /\ <<x>> \in Seq(T) /\ Len(s) \in Nat /\ Len(<<x>>) = 1
  BY SeqMonotonic, LenProperties DEF Lists
<1>2. /\ r \in Seq(T) /\ Len(r) = 1 + Len(s)
      /\ \A i \in 1..(1 + Len(s)) : r[i] = IF i <= 1 THEN <<x>>[i] ELSE s[i - 1]
  BY <1>1, ConcatProperties
<1> HIDE DEF r
<1>3. Inserted(s, r, 1, x)
  BY <1>1, <1>2 DEF Inserted
<1>4. 1 \in 1..(Len(s) + 1) /\ Len(s) + 1 \in 1..(Len(s) + 1)
  BY <1>1
<1>5. Lists(r, T)
  BY <1>2, <1>3, <1>4, ListsInsert
<1> QED
  BY <1>5 DEF r

LEMMA ListsTail ==
  ASSUME NEW S, NEW s, NEW x, Lists(s, S), x \notin S
  PROVE  Lists(Append(s, x), S \cup {x})
<1> DEFINE T == S \cup {x}
           r == Append(s, x)
<1>1. s \in Seq(T) /\ x \in T /\ Len(s) \in Nat
  BY SeqMonotonic, LenProperties DEF Lists
<1>2. /\ r \in Seq(T) /\ Len(r) = Len(s) + 1
      /\ \A i \in 1..Len(s) : r[i] = s[i]
      /\ r[Len(s) + 1] = x
  BY <1>1, AppendProperties
<1> HIDE DEF r
<1>3. Inserted(s, r, Len(s) + 1, x)
  BY <1>1, <1>2 DEF Inserted
<1>4. 1 \in 1..(Len(s) + 1) /\ Len(s) + 1 \in 1..(Len(s) + 1)
  BY <1>1
<1>5. Lists(r, T)
  BY <1>2, <1>3, <1>4, ListsInsert
<1> QED
  BY <1>5 DEF r

LEMMA ListsInsertAt ==
  ASSUME NEW S, NEW s, NEW x, NEW n \in 1..(Len(s) + 1), Lists(s, S), x \notin S
  PROVE  /\ Lists(InsertAt(s, n, x), S \cup {x})
         /\ Inserted(s, InsertAt(s, n, x), n, x)
<1> DEFINE T == S \cup {x}
           a == SubSeq(s, 1, n - 1)
           b == SubSeq(s, n, Len(s))
           ax == a \o <<x>>
           r == ax \o b
<1>1. s \in Seq(T) /\ x \in T /\ Len(s) \in Nat /\ \A i \in 1..Len(s) : s[i] \in T
  BY SeqMonotonic, LenProperties, ElementOfSeq DEF Lists
<1>2. /\ a \in Seq(T) /\ Len(a) = n - 1
      /\ \A i \in 1..(n - 1) : a[i] = s[i]
  <2>1. \A i \in 1..(n - 1) : s[i] \in T
    BY <1>1
  <2>2. /\ a \in Seq(T) /\ Len(a) = IF 1 <= n - 1 THEN n - 1 - 1 + 1 ELSE 0
        /\ \A i \in 1..(n - 1 - 1 + 1) : a[i] = s[1 + i - 1]
    BY <1>1, <2>1, SubSeqProperties
  <2> HIDE DEF a
  <2> QED
    BY <1>1, <2>2
<1>3. /\ b \in Seq(T) /\ Len(b) = Len(s) - n + 1
      /\ \A i \in 1..(Len(s) - n + 1) : b[i] = s[n + i - 1]
  <2>1. \A i \in n..Len(s) : s[i] \in T
    BY <1>1
  <2>2. /\ b \in Seq(T) /\ Len(b) = IF n <= Len(s) THEN Len(s) - n + 1 ELSE 0
        /\ \A i \in 1..(Len(s) - n + 1) : b[i] = s[n + i - 1]
    BY <1>1, <2>1, SubSeqProperties
  <2> HIDE DEF b
  <2> QED
    BY <1>1, <2>2
<1>4. <<x>> \in Seq(T) /\ Len(<<x>>) = 1 /\ <<x>>[1] = x
  BY <1>1
<1> HIDE DEF a, b
<1>5. /\ ax \in Seq(T) /\ Len(ax) = n
      /\ \A i \in 1..n : ax[i] = IF i < n THEN s[i] ELSE x
  <2>1. /\ ax \in Seq(T) /\ Len(ax) = n - 1 + 1
        /\ \A i \in 1..(n - 1 + 1) : ax[i] = IF i <= n - 1 THEN a[i] ELSE <<x>>[i - (n - 1)]
    BY <1>2, <1>4, ConcatProperties
  <2> HIDE DEF ax
  <2>2. ASSUME NEW i \in 1..n PROVE ax[i] = IF i < n THEN s[i] ELSE x
    <3>1. CASE i < n
      BY <1>1, <1>2, <2>1, <3>1
    <3>2. CASE i = n
      <4>1. n - (n - 1) = 1 /\ n \in 1..(n - 1 + 1) /\ ~(n <= n - 1)
        BY <1>1
      <4> QED
        BY <1>4, <2>1, <3>2, <4>1
    <3> QED
      BY <1>1, <3>1, <3>2
  <2>3. n - 1 + 1 = n
    BY <1>1
  <2> QED
    BY <2>1, <2>2, <2>3
<1> HIDE DEF ax
<1>6. /\ r \in Seq(T) /\ Len(r) = Len(ax) + Len(b)
      /\ \A i \in 1..(Len(ax) + Len(b)) :
           r[i] = IF i <= Len(ax) THEN ax[i] ELSE b[i - Len(ax)]
  BY <1>3, <1>5, ConcatProperties
<1> HIDE DEF r
<1>7. Len(r) = Len(s) + 1
  BY <1>1, <1>3, <1>5, <1>6
<1>8. ASSUME NEW i \in 1..(Len(s) + 1)
      PROVE  r[i] = IF i < n THEN s[i] ELSE IF i = n THEN x ELSE s[i - 1]
  <2>1. CASE i <= n
    BY <1>1, <1>5, <1>6, <2>1
  <2>2. CASE i > n
    <3>1. i - n \in 1..(Len(s) - n + 1) /\ n + (i - n) - 1 = i - 1
      BY <1>1, <2>2
    <3>2. r[i] = b[i - n] /\ b[i - n] = s[n + (i - n) - 1]
      BY <1>1, <1>3, <1>5, <1>6, <2>2, <3>1
    <3> QED
      BY <1>1, <2>2, <3>1, <3>2
  <2> QED
    BY <1>1, <2>1, <2>2
<1>9. Inserted(s, r, n, x)
  BY <1>7, <1>8 DEF Inserted
<1>10. Lists(r, T)
  BY <1>6, <1>9, ListsInsert
<1>11. InsertAt(s, n, x) = r
  BY DEF InsertAt, r, ax, a, b
<1> QED
  BY <1>9, <1>10, <1>11

LEMMA ListsRemoveAt ==
  ASSUME NEW S, NEW s, NEW n \in 1..Len(s), Lists(s, S)
  PROVE  /\ Lists(RemoveAt(s, n), S \ {s[n]})
         /\ Deleted(s, RemoveAt(s, n), n)
<1> DEFINE a == SubSeq(s, 1, n - 1)
           b == SubSeq(s, n + 1, Len(s))
           r == a \o b
<1>1. s \in Seq(S) /\ Len(s) \in Nat /\ \A i \in 1..Len(s) : s[i] \in S
  BY LenProperties, ElementOfSeq DEF Lists
<1>2. /\ a \in Seq(S) /\ Len(a) = n - 1
      /\ \A i \in 1..(n - 1) : a[i] = s[i]
  <2>1. \A i \in 1..(n - 1) : s[i] \in S
    BY <1>1
  <2>2. /\ a \in Seq(S) /\ Len(a) = IF 1 <= n - 1 THEN n - 1 - 1 + 1 ELSE 0
        /\ \A i \in 1..(n - 1 - 1 + 1) : a[i] = s[1 + i - 1]
    BY <1>1, <2>1, SubSeqProperties
  <2> HIDE DEF a
  <2> QED
    BY <1>1, <2>2
<1>3. /\ b \in Seq(S) /\ Len(b) = Len(s) - n
      /\ \A i \in 1..(Len(s) - n) : b[i] = s[n + i]
  <2>1. \A i \in (n + 1)..Len(s) : s[i] \in S
    BY <1>1
  <2>2. /\ b \in Seq(S) /\ Len(b) = IF n + 1 <= Len(s) THEN Len(s) - (n + 1) + 1 ELSE 0
        /\ \A i \in 1..(Len(s) - (n + 1) + 1) : b[i] = s[n + 1 + i - 1]
    BY <1>1, <2>1, SubSeqProperties
  <2> HIDE DEF b
  <2> QED
    BY <1>1, <2>2
<1> HIDE DEF a, b
<1>4. /\ r \in Seq(S) /\ Len(r) = Len(a) + Len(b)
      /\ \A i \in 1..(Len(a) + Len(b)) :
           r[i] = IF i <= Len(a) THEN a[i] ELSE b[i - Len(a)]
  BY <1>2, <1>3, ConcatProperties
<1> HIDE DEF r
<1>5. Len(r) = Len(s) - 1
  BY <1>1, <1>2, <1>3, <1>4
<1>6. ASSUME NEW i \in 1..(Len(s) - 1)
      PROVE  r[i] = IF i < n THEN s[i] ELSE s[i + 1]
  <2>0. i \in 1..(Len(a) + Len(b)) /\ (i <= Len(a) <=> i < n)
    BY <1>1, <1>2, <1>3
  <2> r[i] = IF i <= Len(a) THEN a[i] ELSE b[i - Len(a)]
    BY <1>4, <2>0
  <2>1. CASE i < n
    BY <1>1, <1>2, <2>0, <2>1
  <2>2. CASE i >= n
    <3> DEFINE j == i - Len(a)
    <3>1. j \in 1..(Len(s) - n) /\ n + j = i + 1
      BY <1>1, <1>2, <2>2
    <3>2. r[i] = b[j]
      BY <1>1, <2>0, <2>2
    <3>3. b[j] = s[n + j]
      BY <1>3, <3>1
    <3> QED
      BY <1>1, <2>2, <3>1, <3>2, <3>3
  <2> QED
    BY <1>1, <2>1, <2>2
<1>7. Deleted(s, r, n)
  BY <1>5, <1>6 DEF Deleted
<1>8. Lists(r, S \ {s[n]})
  BY <1>4, <1>7, ListsDelete
<1>9. RemoveAt(s, n) = r
  BY DEF RemoveAt, r, a, b
<1> QED
  BY <1>7, <1>8, <1>9

LEMMA ListsWithout ==
  ASSUME NEW S, NEW s, NEW x \in S, Lists(s, S)
  PROVE  /\ Lists(Without(s, x), S \ {x})
         /\ \E n \in 1..Len(s) : s[n] = x /\ Deleted(s, Without(s, x), n)
<1> DEFINE n == CHOOSE i \in 1..Len(s) : s[i] = x
<1>1. n \in 1..Len(s) /\ s[n] = x
  BY DEF Lists
<1>2. Without(s, x) = RemoveAt(s, n)
  BY DEF Without
<1> HIDE DEF n
<1> QED
  BY <1>1, <1>2, ListsRemoveAt

LEMMA ListsTimes ==
  ASSUME NEW S, NEW s, NEW x, Lists(s, S)
  PROVE  Times(s, x) = IF x \in S THEN 1 ELSE 0
<1> DEFINE I == {i \in 1..Len(s) : s[i] = x}
<1>1. CASE x \in S
  <2>1. PICK n \in 1..Len(s) : s[n] = x
    BY <1>1 DEF Lists
  <2>2. I = {n}
    BY <2>1 DEF Lists
  <2> QED
    BY <1>1, <2>2, FS_Singleton DEF Times
<1>2. CASE x \notin S
  <2>1. I = {}
    BY <1>2, ListsNone
  <2> QED
    BY <1>2, <2>1, FS_EmptySet DEF Times
<1> QED
  BY <1>1, <1>2

(* A set of numbers has a least one.                                       *)
LEMMA Least ==
  ASSUME NEW T, T \subseteq Nat, T # {}
  PROVE  \E n \in T : \A m \in T : n <= m
<1> DEFINE R == OpToRel(<, Nat)
<1>1. IsWellFoundedOn(R, Nat)
  BY NatLessThanWellFounded
<1>2. \A x \in Nat, y \in Nat : y < x => <<y, x>> \in R
  BY DEF OpToRel
<1> HIDE DEF R
<1>3. \E x \in T : \A y \in T : ~ (<<y, x>> \in R)
  BY <1>1, WFMin
<1>4. PICK n \in T : \A m \in T : ~ (<<m, n>> \in R)
  BY <1>3
<1>5. ASSUME NEW m \in T PROVE n <= m
  <2>1. ~(m < n)
    BY <1>2, <1>4
  <2>2. m \in Int /\ n \in Int
    OBVIOUS
  <2> QED
    BY <2>1, <2>2
<1> QED
  BY <1>5

LEMMA Induction ==
  ASSUME NEW S, 0 \in S, \A n \in Nat : n \in S => n + 1 \in S
  PROVE  Nat \subseteq S
<1> SUFFICES ASSUME NEW x \in Nat, x \notin S PROVE FALSE
  OBVIOUS
<1> DEFINE T == Nat \ S
<1>1. PICK n \in T : \A m \in T : n <= m
  BY Least
<1>2. n # 0 /\ n - 1 \in Nat /\ n - 1 \notin T
  BY <1>1
<1> QED
  BY <1>2

-----------------------------------------------------------------------------
(* Who is in the lists: the tasks of T, as the TCBs of f say.  A task is   *)
(* outside T while a call has it in hand.                                  *)

ReadyAt(f, T, p) == {t \in T : f[t].state = "rdy" /\ f[t].prio = p}
WaitingAt(f, T, o) == {t \in T : f[t].state \in Blocked /\ f[t].on = o}

Placed(s, f, T) ==
  /\ s.rdy = [p \in Prios |-> s.rdy[p]] /\ s.list = [o \in Objects |-> s.list[o]]
  /\ \A p \in Prios : Lists(s.rdy[p], ReadyAt(f, T, p))
  /\ \A o \in Objects : Lists(s.list[o], WaitingAt(f, T, o))

(* The fields of the kernel's state, and a change in some of them only.    *)
CoreFields == {"task", "list", "rdy", "cur", "prioCur"}

Kernel(s) == CoreFields \subseteq DOMAIN s /\ s.task \in [Tasks -> TCBs]

Changes(s, r, F) == DOMAIN r = DOMAIN s /\ \A f \in DOMAIN s \ F : r[f] = s[f]

LEMMA PrioType == PrioMax \in Nat \ {0} /\ None \notin Tasks /\ None \notin Objects
BY OsAssumption DEF OsAssumption

LEMMA PlacedAgree ==
  ASSUME NEW s, NEW f, NEW g, NEW T, Placed(s, f, T),
         \A t \in T : f[t].state = g[t].state /\ f[t].prio = g[t].prio /\ f[t].on = g[t].on
  PROVE  Placed(s, g, T)
<1>1. \A p : ReadyAt(f, T, p) = ReadyAt(g, T, p)
  BY DEF ReadyAt
<1>2. \A o : WaitingAt(f, T, o) = WaitingAt(g, T, o)
  BY DEF WaitingAt
<1> QED
  BY <1>1, <1>2 DEF Placed

LEMMA PlacedListed ==
  ASSUME NEW s, NEW f, NEW T \in SUBSET Tasks, Placed(s, f, T)
  PROVE  /\ \A p \in Prios : \A i \in 1..Len(s.rdy[p]) : s.rdy[p][i] \in T
         /\ \A o \in Objects : \A i \in 1..Len(s.list[o]) : s.list[o][i] \in T
<1>1. \A p : ReadyAt(f, T, p) \subseteq T
  BY DEF ReadyAt
<1>2. \A o : WaitingAt(f, T, o) \subseteq T
  BY DEF WaitingAt
<1>3. ASSUME NEW p \in Prios, NEW i \in 1..Len(s.rdy[p]) PROVE s.rdy[p][i] \in T
  BY <1>1, ListsNone DEF Placed
<1>4. ASSUME NEW o \in Objects, NEW i \in 1..Len(s.list[o]) PROVE s.list[o][i] \in T
  BY <1>2, ListsNone DEF Placed
<1> QED
  BY <1>3, <1>4

(* OS_RdyListRemove.                                                       *)
LEMMA RdyOut ==
  ASSUME NEW s, Kernel(s), NEW f, NEW T, Placed(s, f, T), NEW t \in T, t \in Tasks,
         f[t].state = "rdy", f[t].prio = s.task[t].prio
  PROVE  /\ Placed(RdyListRemove(s, t), f, T \ {t})
         /\ Changes(s, RdyListRemove(s, t), {"rdy"})
<1> DEFINE q == s.task[t].prio
           r == RdyListRemove(s, t)
           U == T \ {t}
<1>1. q \in Prios
  BY DEF Kernel, TCBs
<1>2. Changes(s, r, {"rdy"}) /\ r.list = s.list
  BY DEF RdyListRemove, Changes, Kernel, CoreFields
<1>3. r.rdy = [s.rdy EXCEPT ![q] = Without(@, t)]
  BY DEF RdyListRemove, Kernel, CoreFields
<1>4. r.rdy = [p \in Prios |-> IF p = q THEN Without(s.rdy[p], t) ELSE s.rdy[p]]
  BY <1>1, <1>3 DEF Placed
<1>5. \A p : ReadyAt(f, U, p) = IF p = q THEN ReadyAt(f, T, p) \ {t} ELSE ReadyAt(f, T, p)
  BY DEF ReadyAt
<1>6. \A o : WaitingAt(f, U, o) = WaitingAt(f, T, o)
  BY DEF WaitingAt, Blocked
<1>7. t \in ReadyAt(f, T, q)
  BY DEF ReadyAt
<1> HIDE DEF r, q, U
<1>8. ASSUME NEW p \in Prios PROVE Lists(r.rdy[p], ReadyAt(f, U, p))
  <2>1. Lists(s.rdy[p], ReadyAt(f, T, p))
    BY DEF Placed
  <2>2. CASE p = q
    BY <1>4, <1>5, <1>7, <2>1, <2>2, ListsWithout
  <2>3. CASE p # q
    BY <1>4, <1>5, <2>1, <2>3
  <2> QED
    BY <2>2, <2>3
<1>9. Placed(r, f, U)
  BY <1>2, <1>4, <1>6, <1>8 DEF Placed
<1> QED
  BY <1>2, <1>9 DEF r, U

(* OS_RdyListInsertHead, OS_RdyListInsertTail and OS_RdyListInsert.        *)
LEMMA RdyIn ==
  ASSUME NEW s, Kernel(s), NEW f, NEW T, Placed(s, f, T), NEW t \in Tasks, t \notin T,
         f[t].state = "rdy", f[t].prio = s.task[t].prio,
         NEW r, r \in {RdyListInsertHead(s, t), RdyListInsertTail(s, t), RdyListInsert(s, t)}
  PROVE  Placed(r, f, T \cup {t}) /\ Changes(s, r, {"rdy"})
<1> DEFINE q == s.task[t].prio
           U == T \cup {t}
<1>1. q \in Prios
  BY DEF Kernel, TCBs
<1>2. r \in {RdyListInsertHead(s, t), RdyListInsertTail(s, t)}
  BY DEF RdyListInsert
<1>3. PICK l \in {<<t>> \o s.rdy[q], Append(s.rdy[q], t)} : r = [s EXCEPT !.rdy[q] = l]
  BY <1>2 DEF RdyListInsertHead, RdyListInsertTail
<1>4. Changes(s, r, {"rdy"}) /\ r.list = s.list
  BY <1>3 DEF Changes, Kernel, CoreFields
<1>5. r.rdy = [p \in Prios |-> IF p = q THEN l ELSE s.rdy[p]]
  BY <1>1, <1>3 DEF Placed, Kernel, CoreFields
<1>6. \A p : ReadyAt(f, U, p) = IF p = q THEN ReadyAt(f, T, p) \cup {t} ELSE ReadyAt(f, T, p)
  BY DEF ReadyAt
<1>7. \A o : WaitingAt(f, U, o) = WaitingAt(f, T, o)
  BY DEF WaitingAt, Blocked
<1>8. t \notin ReadyAt(f, T, q)
  BY DEF ReadyAt
<1> HIDE DEF q, U
<1>9. ASSUME NEW p \in Prios PROVE Lists(r.rdy[p], ReadyAt(f, U, p))
  <2>1. Lists(s.rdy[p], ReadyAt(f, T, p))
    BY DEF Placed
  <2>2. CASE p = q
    <3>1. Lists(l, ReadyAt(f, T, q) \cup {t})
      <4>1. Lists(s.rdy[q], ReadyAt(f, T, q))
        BY <2>1, <2>2
      <4>2. /\ Lists(<<t>> \o s.rdy[q], ReadyAt(f, T, q) \cup {t})
            /\ Lists(Append(s.rdy[q], t), ReadyAt(f, T, q) \cup {t})
        BY <1>8, <4>1, ListsHead, ListsTail
      <4> QED
        BY <4>2
    <3> QED
      BY <1>5, <1>6, <2>2, <3>1
  <2>3. CASE p # q
    BY <1>5, <1>6, <2>1, <2>3
  <2> QED
    BY <2>2, <2>3
<1>10. Placed(r, f, U)
  BY <1>4, <1>5, <1>7, <1>9 DEF Placed
<1> QED
  BY <1>4, <1>10 DEF U

-----------------------------------------------------------------------------
(* Pend lists.                                                             *)

InOrder(l, f) == \A i, j \in 1..Len(l) : i < j => f[l[i]].prio <= f[l[j]].prio

LEMMA OrderInserted ==
  ASSUME NEW l, Len(l) \in Nat, NEW n \in 1..(Len(l) + 1), NEW t, NEW r, Inserted(l, r, n, t),
         NEW f, InOrder(l, f), f[t].prio \in Int,
         \A i \in 1..Len(l) : /\ f[l[i]].prio \in Int
                              /\ i < n => f[l[i]].prio <= f[t].prio
                              /\ i >= n => f[t].prio <= f[l[i]].prio
  PROVE  InOrder(r, f)
<1> SUFFICES ASSUME NEW i \in 1..Len(r), NEW j \in 1..Len(r), i < j
             PROVE  f[r[i]].prio <= f[r[j]].prio
  BY DEF InOrder
<1>1. /\ Len(r) = Len(l) + 1
      /\ r[i] = IF i < n THEN l[i] ELSE IF i = n THEN t ELSE l[i - 1]
      /\ r[j] = IF j < n THEN l[j] ELSE IF j = n THEN t ELSE l[j - 1]
  BY DEF Inserted
<1>2. CASE j < n
  <2>1. i \in 1..Len(l) /\ j \in 1..Len(l) /\ r[i] = l[i] /\ r[j] = l[j]
    BY <1>1, <1>2
  <2> QED
    BY <2>1 DEF InOrder
<1>3. CASE i < n /\ j = n
  <2>1. i \in 1..Len(l) /\ r[i] = l[i] /\ r[j] = t
    BY <1>1, <1>3
  <2> QED
    BY <1>3, <2>1
<1>4. CASE i < n /\ n < j
  <2>1. i \in 1..Len(l) /\ j - 1 \in 1..Len(l) /\ j - 1 >= n /\ r[i] = l[i] /\ r[j] = l[j - 1]
    BY <1>1, <1>4
  <2>2. /\ f[l[i]].prio <= f[t].prio /\ f[t].prio <= f[l[j - 1]].prio
        /\ f[l[i]].prio \in Int /\ f[l[j - 1]].prio \in Int
    BY <1>4, <2>1
  <2> QED
    BY <2>1, <2>2
<1>5. CASE i = n
  <2>1. j - 1 \in 1..Len(l) /\ j - 1 >= n /\ r[i] = t /\ r[j] = l[j - 1]
    BY <1>1, <1>5
  <2> QED
    BY <2>1
<1>6. CASE n < i
  <2>1. /\ i - 1 \in 1..Len(l) /\ j - 1 \in 1..Len(l) /\ i - 1 < j - 1
        /\ r[i] = l[i - 1] /\ r[j] = l[j - 1]
    BY <1>1, <1>6
  <2> QED
    BY <2>1 DEF InOrder
<1> QED
  BY <1>1, <1>2, <1>3, <1>4, <1>5, <1>6

LEMMA OrderDeleted ==
  ASSUME NEW l, Len(l) \in Nat, NEW r, Shrunk(l, r), NEW f, InOrder(l, f)
  PROVE  InOrder(r, f)
<1> PICK n \in 1..Len(l) : Deleted(l, r, n)
  BY DEF Shrunk
<1> SUFFICES ASSUME NEW i \in 1..Len(r), NEW j \in 1..Len(r), i < j
             PROVE  f[r[i]].prio <= f[r[j]].prio
  BY DEF InOrder
<1> DEFINE a == IF i < n THEN i ELSE i + 1
           b == IF j < n THEN j ELSE j + 1
<1>1. a \in 1..Len(l) /\ b \in 1..Len(l) /\ a < b /\ r[i] = l[a] /\ r[j] = l[b]
  BY DEF Deleted
<1> HIDE DEF a, b
<1> QED
  BY <1>1 DEF InOrder

(* OS_PendListInsertPrio.                                                  *)
LEMMA PendIn ==
  ASSUME NEW s, Kernel(s), NEW f, NEW T \in SUBSET Tasks, Placed(s, f, T),
         NEW t \in Tasks, t \notin T, NEW o \in Objects,
         f[t].state \in Blocked, f[t].on = o
  PROVE  LET r == PendListInsertPrio(s, o, t)
         IN /\ Placed(r, f, T \cup {t}) /\ Changes(s, r, {"list"})
            /\ \A b \in Objects \ {o} : r.list[b] = s.list[b]
            /\ InOrder(s.list[o], s.task) => InOrder(r.list[o], s.task)
<1> DEFINE l == s.list[o]
           after == {i \in 1..Len(l) : s.task[t].prio < s.task[l[i]].prio}
           at == IF after = {} THEN Len(l) + 1
                 ELSE CHOOSE i \in after : \A j \in after : i <= j
           new == InsertAt(l, at, t)
           r == PendListInsertPrio(s, o, t)
           U == T \cup {t}
           W == WaitingAt(f, T, o)
<1>1. Lists(l, W) /\ Len(l) \in Nat /\ t \notin W
  BY ListsNone DEF Placed, WaitingAt
<1>2. at \in 1..(Len(l) + 1) /\ (\A i \in after : at <= i)
      /\ (at \in after \/ at = Len(l) + 1)
  <2>1. CASE after = {}
    BY <1>1, <2>1
  <2>2. CASE after # {}
    <3>1. after \subseteq Nat
      OBVIOUS
    <3>2. \E i \in after : \A j \in after : i <= j
      BY <2>2, <3>1, Least
    <3>3. at \in after /\ \A j \in after : at <= j
      BY <2>2, <3>2
    <3>4. after \subseteq 1..(Len(l) + 1)
      BY <1>1
    <3> HIDE DEF at, after
    <3> QED
      BY <3>3, <3>4
  <2> QED
    BY <2>1, <2>2
<1>3. r = [s EXCEPT !.list[o] = new]
  BY DEF PendListInsertPrio
<1>4. Lists(new, W \cup {t}) /\ Inserted(l, new, at, t)
  <2>1. at \in 1..(Len(l) + 1)
    BY <1>2
  <2> HIDE DEF l, W, at, after
  <2> QED
    BY <1>1, <2>1, ListsInsertAt
<1> HIDE DEF new, at
<1>5. Changes(s, r, {"list"}) /\ r.rdy = s.rdy
  BY <1>3 DEF Changes, Kernel, CoreFields
<1>6. r.list = [b \in Objects |-> IF b = o THEN new ELSE s.list[b]]
  BY <1>3 DEF Placed, Kernel, CoreFields
<1>7. \A b : WaitingAt(f, U, b) = IF b = o THEN W \cup {t} ELSE WaitingAt(f, T, b)
  BY DEF WaitingAt
<1>8. \A p : ReadyAt(f, U, p) = ReadyAt(f, T, p)
  BY DEF ReadyAt, Blocked
<1> HIDE DEF r, U
<1>9. \A b \in Objects : Lists(r.list[b], WaitingAt(f, U, b))
  BY <1>4, <1>6, <1>7 DEF Placed
<1>10. Placed(r, f, U)
  BY <1>5, <1>6, <1>8, <1>9 DEF Placed
<1>11. ASSUME InOrder(l, s.task) PROVE InOrder(new, s.task)
  <2>1. \A n \in 1..Len(l) : l[n] \in Tasks
    BY PlacedListed
  <2>2. s.task[t].prio \in Int /\ \A n \in 1..Len(l) : s.task[l[n]].prio \in Int
    BY <2>1, PrioType DEF Kernel, TCBs, Prios
  <2>3. ASSUME NEW n \in 1..Len(l), n < at PROVE s.task[l[n]].prio <= s.task[t].prio
    <3>1. n \notin after
      BY <1>1, <1>2, <2>3
    <3> QED
      BY <2>2, <3>1
  <2>4. ASSUME NEW n \in 1..Len(l), n >= at PROVE s.task[t].prio <= s.task[l[n]].prio
    <3>1. at \in after
      BY <1>1, <1>2, <2>4
    <3>2. at \in 1..Len(l) /\ s.task[t].prio < s.task[l[at]].prio
      BY <3>1
    <3>3. at = n \/ s.task[l[at]].prio <= s.task[l[n]].prio
      BY <1>1, <1>2, <1>11, <2>4, <3>1 DEF InOrder
    <3>4. /\ s.task[t].prio \in Int /\ s.task[l[at]].prio \in Int
          /\ s.task[l[n]].prio \in Int
      BY <2>2, <3>2
    <3> HIDE DEF l
    <3>5. CASE at = n
      BY <3>2, <3>4, <3>5
    <3>6. CASE s.task[l[at]].prio <= s.task[l[n]].prio
      BY <3>2, <3>4, <3>6
    <3> QED
      BY <3>3, <3>5, <3>6
  <2>5. at \in 1..(Len(l) + 1) /\ Len(l) \in Nat
    BY <1>1, <1>2
  <2> HIDE DEF l, after
  <2> QED
    BY <1>4, <1>11, <2>2, <2>3, <2>4, <2>5, OrderInserted
<1> QED
  BY <1>5, <1>6, <1>10, <1>11 DEF r, U

(* A task leaves the list of its object.                                   *)
LEMMA PendOut ==
  ASSUME NEW s, Kernel(s), NEW f, NEW T \in SUBSET Tasks, Placed(s, f, T), NEW t \in T,
         NEW o \in Objects, f[t].state \in Blocked, f[t].on = o,
         NEW r, Changes(s, r, {"list", "task"}),
         r.list = [s.list EXCEPT ![o] = Without(@, t)]
  PROVE  Placed(r, f, T \ {t})
<1> DEFINE U == T \ {t}
           l == s.list[o]
           new == Without(l, t)
           W == WaitingAt(f, T, o)
<1>1. Lists(l, W) /\ Len(l) \in Nat /\ t \in W
  BY ListsNone DEF Placed, WaitingAt
<1>2. r.list = [b \in Objects |-> IF b = o THEN new ELSE s.list[b]]
  BY DEF Placed
<1>3. r.rdy = s.rdy
  BY DEF Changes, Kernel, CoreFields
<1>4. \A b : WaitingAt(f, U, b) = IF b = o THEN W \ {t} ELSE WaitingAt(f, T, b)
  BY DEF WaitingAt
<1>5. \A p : ReadyAt(f, U, p) = ReadyAt(f, T, p)
  BY DEF ReadyAt, Blocked
<1>6. Lists(new, W \ {t})
  <2> HIDE DEF l, W
  <2> QED
    BY <1>1, ListsWithout
<1> HIDE DEF new, U
<1>7. \A b \in Objects : Lists(r.list[b], WaitingAt(f, U, b))
  BY <1>2, <1>4, <1>6 DEF Placed
<1>8. Placed(r, f, U)
  BY <1>2, <1>3, <1>5, <1>7 DEF Placed
<1> QED
  BY <1>8 DEF U

(* OS_PendListRemove, of a task that is in a list.                         *)
LEMMA PendListOut ==
  ASSUME NEW s, Kernel(s), NEW f, NEW T \in SUBSET Tasks, Placed(s, f, T), NEW t \in T,
         f[t].state \in Blocked, f[t].on = s.task[t].on, f[t].on # None
  PROVE  LET r == PendListRemove(s, t)
         IN /\ Placed(r, f, T \ {t}) /\ Changes(s, r, {"list", "task"}) /\ Kernel(r)
            /\ r.task = [s.task EXCEPT ![t].on = None]
            /\ r.list = [s.list EXCEPT ![s.task[t].on] = Without(@, t)]
<1> DEFINE r == PendListRemove(s, t)
           o == s.task[t].on
<1>1. r = [s EXCEPT !.list[o] = Without(@, t), !.task[t].on = None]
  BY DEF PendListRemove
<1>2. o \in Objects /\ s.task[t] \in TCBs /\ [s.task[t] EXCEPT !.on = None] \in TCBs
  BY DEF Kernel, TCBs
<1>3. /\ Changes(s, r, {"list", "task"})
      /\ r.list = [s.list EXCEPT ![o] = Without(@, t)]
      /\ r.task = [s.task EXCEPT ![t].on = None]
  BY <1>1 DEF Changes, Kernel, CoreFields
<1>4. Kernel(r)
  BY <1>2, <1>3 DEF Changes, Kernel, CoreFields
<1> HIDE DEF r, o
<1>5. f[t].on = o
  BY DEF o
<1>6. Placed(r, f, T \ {t})
  BY <1>2, <1>3, <1>5, PendOut
<1> QED
  BY <1>3, <1>4, <1>6 DEF r, o

-----------------------------------------------------------------------------
(* The scheduler and the calls that are composed of these.                 *)

LEMMA Highest ==
  ASSUME NEW s, ReadyPrios(s) # {}
  PROVE  PrioGetHighest(s) \in ReadyPrios(s) /\
         \A q \in ReadyPrios(s) : PrioGetHighest(s) <= q
<1>1. ReadyPrios(s) \subseteq Nat
  BY PrioType DEF ReadyPrios, Prios
<1> QED
  BY <1>1, Least DEF PrioGetHighest

(* The kernel's state between two calls: T is Tasks.  Inside a call, the   *)
(* tasks outside T are in no list.                                         *)
Sound(s, T) ==
  /\ Kernel(s) /\ Placed(s, s.task, T)
  /\ s.cur \in Tasks \cup {None} /\ s.prioCur \in 0..PrioMax

(* Who runs is ready; nothing else changes.                                *)
LEMMA SchedRuns ==
  ASSUME NEW s, Sound(s, Tasks)
  PROVE  /\ Sound(Sched(s), Tasks) /\ Changes(s, Sched(s), {"cur", "prioCur"})
         /\ Sched(s).cur # None => s.task[Sched(s).cur].state = "rdy"
<1> DEFINE r == Sched(s)
           p == PrioGetHighest(s)
<1>1. ASSUME Changes(s, r, {"cur", "prioCur"}), r.prioCur \in 0..PrioMax,
             r.cur \in Tasks \cup {None}
      PROVE  Sound(r, Tasks)
  <2> HIDE DEF r
  <2>1. Kernel(r) /\ r.task = s.task /\ r.rdy = s.rdy /\ r.list = s.list
    BY <1>1 DEF Changes, Kernel, CoreFields, Sound
  <2> QED
    BY <1>1, <2>1 DEF Sound, Placed
<1>2. CASE ReadyPrios(s) = {}
  <2>1. r = [s EXCEPT !.cur = None, !.prioCur = PrioMax]
    BY <1>2 DEF Sched
  <2>2. Changes(s, r, {"cur", "prioCur"}) /\ r.cur = None /\ r.prioCur = PrioMax
    BY <2>1 DEF Changes, Kernel, CoreFields, Sound
  <2>3. r.prioCur \in 0..PrioMax
    BY <2>2, PrioType
  <2> QED
    BY <1>1, <2>2, <2>3
<1>3. CASE ReadyPrios(s) # {}
  <2>1. p \in Prios /\ s.rdy[p] # <<>>
    BY <1>3, Highest DEF ReadyPrios
  <2>2. Head(s.rdy[p]) \in ReadyAt(s.task, Tasks, p)
    BY <2>1, ListsNone DEF Placed, Sound
  <2>3. Head(s.rdy[p]) \in Tasks /\ s.task[Head(s.rdy[p])].state = "rdy"
    BY <2>2 DEF ReadyAt
  <2>4. p \in 0..PrioMax
    BY <2>1, PrioType DEF Prios
  <2>5. CASE Head(s.rdy[p]) = s.cur
    <3>1. r = s
      BY <1>3, <2>5 DEF Sched
    <3> QED
      BY <2>3, <2>5, <3>1 DEF Changes
  <2>6. CASE Head(s.rdy[p]) # s.cur
    <3>1. r = [s EXCEPT !.cur = Head(s.rdy[p]), !.prioCur = p]
      BY <1>3, <2>6 DEF Sched
    <3>2. Changes(s, r, {"cur", "prioCur"}) /\ r.cur = Head(s.rdy[p]) /\ r.prioCur = p
      BY <3>1 DEF Changes, Kernel, CoreFields, Sound
    <3> QED
      BY <1>1, <2>3, <2>4, <3>2
  <2> QED
    BY <2>5, <2>6
<1> QED
  BY <1>2, <1>3

LEMMA BlockingTCB ==
  ASSUME NEW x \in TCBs, NEW o \in Objects, NEW timed \in BOOLEAN
  PROVE  /\ Blocking(x, o, timed) \in TCBs
         /\ Blocking(x, o, timed).state \in Blocked
         /\ Blocking(x, o, timed).on = o
         /\ Blocking(x, o, timed).prio = x.prio
         /\ Blocking(x, o, timed).base = x.base
BY DEF Blocking, TCBs, States, Blocked

Statuses == {"ok", "timeout", "abort", "del"}

LEMMA ReadiedTCB ==
  ASSUME NEW x \in TCBs, NEW status \in Statuses
  PROVE  /\ Readied(x, status) \in TCBs
         /\ Readied(x, status).state = "rdy" /\ Readied(x, status).state \notin Blocked
         /\ Readied(x, status).on = None
         /\ Readied(x, status).status = status
         /\ Readied(x, status).prio = x.prio
         /\ Readied(x, status).base = x.base
BY DEF Readied, TCBs, States, Blocked, Statuses

LEMMA ReadiedAlready ==
  ASSUME NEW x \in TCBs, NEW status \in Statuses
  PROVE  Readied([x EXCEPT !.on = None], status) = Readied(x, status)
BY DEF Readied, TCBs

LEMMA OrderAgree ==
  ASSUME NEW l, NEW f, NEW g, \A i \in 1..Len(l) : f[l[i]].prio = g[l[i]].prio, InOrder(l, f)
  PROVE  InOrder(l, g)
BY DEF InOrder

LEMMA SoundLists ==
  ASSUME NEW s, NEW T \in SUBSET Tasks, Sound(s, T), NEW o \in Objects
  PROVE  /\ Len(s.list[o]) \in Nat
         /\ \A i \in 1..Len(s.list[o]) :
              /\ s.list[o][i] \in T
              /\ s.task[s.list[o][i]].state \in Blocked /\ s.task[s.list[o][i]].on = o
         /\ \A t \in T : s.task[t].state \in Blocked /\ s.task[t].on = o =>
              \E i \in 1..Len(s.list[o]) : s.list[o][i] = t
<1>1. Lists(s.list[o], WaitingAt(s.task, T, o))
  BY DEF Sound, Placed
<1>2. /\ Len(s.list[o]) \in Nat
      /\ \A i \in 1..Len(s.list[o]) : s.list[o][i] \in WaitingAt(s.task, T, o)
  BY <1>1, ListsNone
<1> QED
  BY <1>1, <1>2 DEF WaitingAt, Lists

(* OS_Pend: the current task is blocked.                                   *)
LEMMA PendSound ==
  ASSUME NEW s, Sound(s, Tasks), NEW o \in Objects, NEW timed \in BOOLEAN,
         s.cur \in Tasks, s.task[s.cur].state = "rdy"
  PROVE  /\ Sound(Pend(s, o, timed), Tasks) /\ Changes(s, Pend(s, o, timed), {"task", "list", "rdy"})
         /\ Pend(s, o, timed).task = [s.task EXCEPT ![s.cur] = Blocking(@, o, timed)]
         /\ ListsInOrder(s) => ListsInOrder(Pend(s, o, timed))
<1> DEFINE t == s.cur
           f == [s.task EXCEPT ![t] = Blocking(@, o, timed)]
           b == [s EXCEPT !.task[t] = Blocking(@, o, timed)]
           r == RdyListRemove(b, t)
           p == PendListInsertPrio(r, o, t)
           T == Tasks \ {t}
<1>1. /\ f[t] \in TCBs /\ f[t].state \in Blocked /\ f[t].on = o
      /\ \A u \in Tasks : f[u].prio = s.task[u].prio
      /\ \A u \in T : f[u] = s.task[u]
      /\ f \in [Tasks -> TCBs]
  BY BlockingTCB DEF Sound, Kernel
<1>2. /\ Changes(s, b, {"task"}) /\ b.task = f /\ b.rdy = s.rdy /\ b.list = s.list
      /\ b.cur = s.cur /\ b.prioCur = s.prioCur
  BY DEF Changes, Sound, Kernel, CoreFields
<1>3. Kernel(b)
  BY <1>1, <1>2 DEF Changes, Sound, Kernel
<1> HIDE DEF b, f
<1>4. Placed(b, s.task, Tasks) /\ s.task[t].prio = b.task[t].prio
  BY <1>1, <1>2 DEF Sound, Placed
<1>5. Placed(r, s.task, T) /\ Changes(b, r, {"rdy"})
  BY <1>3, <1>4, RdyOut
<1>6. Kernel(r) /\ r.task = f /\ r.list = s.list
  BY <1>1, <1>2, <1>3, <1>5 DEF Changes, Kernel, CoreFields
<1> HIDE DEF r
<1>7. Placed(r, f, T)
  BY <1>1, <1>5, PlacedAgree
<1>8. t \notin T /\ T \cup {t} = Tasks /\ T \in SUBSET Tasks
  OBVIOUS
<1>9. /\ Placed(p, f, Tasks) /\ Changes(r, p, {"list"})
      /\ \A c \in Objects \ {o} : p.list[c] = r.list[c]
      /\ InOrder(r.list[o], r.task) => InOrder(p.list[o], r.task)
  <2> HIDE DEF T
  <2>1. f[t].state \in Blocked /\ f[t].on = o
    BY <1>1
  <2>2. /\ Placed(p, f, T \cup {t}) /\ Changes(r, p, {"list"})
        /\ \A c \in Objects \ {o} : p.list[c] = r.list[c]
        /\ InOrder(r.list[o], r.task) => InOrder(p.list[o], r.task)
    BY <1>6, <1>7, <1>8, <2>1, PendIn
  <2> QED
    BY <1>8, <2>2
<1> HIDE DEF p
<1>10. Changes(s, p, {"task", "list", "rdy"}) /\ p.task = f
  BY <1>2, <1>3, <1>5, <1>6, <1>9 DEF Changes, Kernel, CoreFields
<1>11. Sound(p, Tasks)
  BY <1>1, <1>2, <1>9, <1>10 DEF Changes, Sound, Kernel, CoreFields
<1>12. ASSUME ListsInOrder(s) PROVE ListsInOrder(p)
  <2>1. ASSUME NEW c \in Objects PROVE InOrder(r.list[c], f)
    <3>1. InOrder(s.list[c], s.task)
      BY <1>12 DEF ListsInOrder, InOrder
    <3>2. \A i \in 1..Len(s.list[c]) : s.list[c][i] \in Tasks
      BY SoundLists
    <3> QED
      BY <1>1, <1>6, <3>1, <3>2, OrderAgree
  <2>2. ASSUME NEW c \in Objects PROVE InOrder(p.list[c], f)
    BY <1>6, <1>9, <2>1
  <2> QED
    BY <1>10, <2>2 DEF ListsInOrder, InOrder
<1>13. p = Pend(s, o, timed)
  BY DEF Pend, p, r, b
<1> QED
  BY <1>10, <1>11, <1>12, <1>13 DEF f

(* The pend of a task ends: OS_Post and its likes.                         *)
Ended(s, r, T, t, status) ==
  /\ Sound(r, T) /\ Changes(s, r, {"task", "list", "rdy"})
  /\ r.task = [s.task EXCEPT ![t] = Readied(@, status)]
  /\ r.list = [s.list EXCEPT ![s.task[t].on] = Without(@, t)]

LEMMA EndPendSound ==
  ASSUME NEW s, NEW T \in SUBSET Tasks, Sound(s, T), NEW t \in T, NEW status \in Statuses,
         s.task[t].state \in Blocked, s.task[t].on # None
  PROVE  Ended(s, EndPend(s, t, status), T, t, status)
<1> DEFINE f == [s.task EXCEPT ![t] = Readied(@, status)]
           o == s.task[t].on
           l == PendListRemove(s, t)
           b == [l EXCEPT !.task[t] = Readied(@, status)]
           r == RdyListInsert(b, t)
           U == T \ {t}
<1>1. s.task \in [Tasks -> TCBs] /\ t \in Tasks
  BY DEF Sound, Kernel
<1>2. /\ f[t].state = "rdy" /\ f[t].prio = s.task[t].prio
      /\ \A u \in U : f[u] = s.task[u]
      /\ f \in [Tasks -> TCBs]
  BY <1>1, ReadiedTCB
<1>3. /\ Placed(l, s.task, U) /\ Changes(s, l, {"list", "task"}) /\ Kernel(l)
      /\ l.task = [s.task EXCEPT ![t].on = None]
      /\ l.list = [s.list EXCEPT ![o] = Without(@, t)]
  BY <1>1, PendListOut DEF Sound
<1> HIDE DEF l
<1>4. b.task = f
  <2>1. b.task = [l.task EXCEPT ![t] = Readied(@, status)]
    BY <1>3 DEF Kernel, CoreFields
  <2>2. Readied(l.task[t], status) = Readied(s.task[t], status)
    BY <1>1, <1>3, ReadiedAlready
  <2> QED
    BY <1>1, <1>3, <2>1, <2>2
<1>5. Changes(l, b, {"task"}) /\ b.rdy = l.rdy /\ b.list = l.list
  BY <1>3 DEF Changes, Kernel, CoreFields
<1> HIDE DEF b, f
<1>6. Kernel(b)
  BY <1>2, <1>3, <1>4, <1>5 DEF Changes, Kernel
<1>7. Placed(b, f, U)
  <2>1. Placed(l, f, U)
    BY <1>2, <1>3, PlacedAgree
  <2> QED
    BY <1>5, <2>1 DEF Placed
<1>8. t \notin U /\ U \cup {t} = T /\ r \in {RdyListInsert(b, t)}
  OBVIOUS
<1> HIDE DEF r
<1>9. Placed(r, f, T) /\ Changes(b, r, {"rdy"})
  <2> HIDE DEF U
  <2>1. Placed(r, f, U \cup {t}) /\ Changes(b, r, {"rdy"})
    BY <1>1, <1>2, <1>4, <1>6, <1>7, <1>8, RdyIn
  <2> QED
    BY <1>8, <2>1
<1>10. /\ Changes(s, r, {"task", "list", "rdy"}) /\ r.task = f
       /\ r.list = [s.list EXCEPT ![o] = Without(@, t)]
  BY <1>3, <1>4, <1>5, <1>6, <1>9 DEF Changes, Kernel, CoreFields
<1>11. Sound(r, T)
  BY <1>2, <1>9, <1>10 DEF Changes, Sound, Kernel, CoreFields
<1>12. r = EndPend(s, t, status)
  BY DEF EndPend, r, b, l
<1> QED
  BY <1>10, <1>11, <1>12 DEF f, Ended

LEMMA EndPendOrder ==
  ASSUME NEW s, NEW T \in SUBSET Tasks, Sound(s, T), NEW t \in T, NEW status \in Statuses,
         s.task[t].state \in Blocked, s.task[t].on # None, ListsInOrder(s)
  PROVE  ListsInOrder(EndPend(s, t, status))
<1> DEFINE r == EndPend(s, t, status)
           o == s.task[t].on
<1>1. /\ r.task = [s.task EXCEPT ![t] = Readied(@, status)]
      /\ r.list = [s.list EXCEPT ![o] = Without(@, t)]
  BY EndPendSound DEF Ended
<1> HIDE DEF r
<1>2. s.task \in [Tasks -> TCBs] /\ t \in Tasks /\ o \in Objects
  BY DEF Sound, Kernel, TCBs
<1>3. \A u \in Tasks : r.task[u].prio = s.task[u].prio
  <2>1. Readied(s.task[t], status).prio = s.task[t].prio
    BY <1>2, ReadiedTCB
  <2> QED
    BY <1>1, <1>2, <2>1
<1>4. ASSUME NEW c \in Objects PROVE InOrder(r.list[c], r.task)
  <2>1. /\ InOrder(s.list[c], s.task) /\ Len(s.list[c]) \in Nat
        /\ \A i \in 1..Len(s.list[c]) : s.list[c][i] \in Tasks
    BY SoundLists DEF ListsInOrder, InOrder
  <2>2. InOrder(s.list[c], r.task)
    BY <1>3, <2>1, OrderAgree
  <2>3. CASE c # o
    BY <1>1, <1>2, <2>2, <2>3 DEF Sound, Placed
  <2>4. CASE c = o
    <3>1. Lists(s.list[o], WaitingAt(s.task, T, o)) /\ t \in WaitingAt(s.task, T, o)
      BY <1>2 DEF Sound, Placed, WaitingAt
    <3>2. Shrunk(s.list[o], Without(s.list[o], t))
      BY <3>1, ListsWithout DEF Shrunk
    <3>3. r.list[o] = Without(s.list[o], t)
      BY <1>1, <1>2 DEF Sound, Placed
    <3> QED
      BY <2>1, <2>2, <2>4, <3>2, <3>3, OrderDeleted
  <2> QED
    BY <2>3, <2>4
<1>5. ListsInOrder(r)
  BY <1>4 DEF ListsInOrder, InOrder
<1> QED
  BY <1>5 DEF r

-----------------------------------------------------------------------------
(* The walk of a pend list.                                                *)

LEMMA EndPendsWalk ==
  ASSUME NEW s, NEW o, NEW who, NEW status, Len(s.list[o]) \in Nat
  PROVE  \E w :
           /\ w[0] = s
           /\ \A n \in 1..Len(s.list[o]) :
                w[n] = IF s.list[o][n] \in who THEN EndPend(w[n - 1], s.list[o][n], status)
                       ELSE w[n - 1]
           /\ EndPends(s, o, who, status) = w[Len(s.list[o])]
<1> DEFINE N == Len(s.list[o])
           G(n, v) == IF s.list[o][n] \in who THEN EndPend(v, s.list[o][n], status) ELSE v
           Walks(w, m) == w = [n \in 0..m |-> IF n = 0 THEN s ELSE G(n, w[n - 1])]
           S == {m \in Nat : \E w : Walks(w, m)}
           walk == CHOOSE w : Walks(w, N)
<1>1. EndPends(s, o, who, status) = walk[N]
  BY DEF EndPends
<1> HIDE DEF G
<1>2. 0 \in S
  <2>1. Walks([n \in 0..0 |-> s], 0)
    OBVIOUS
  <2> QED
    BY <2>1
<1>3. ASSUME NEW m \in Nat, m \in S PROVE m + 1 \in S
  <2>1. PICK w : Walks(w, m)
    BY <1>3
  <2> DEFINE v == [n \in 0..(m + 1) |-> IF n = m + 1 THEN G(m + 1, w[m]) ELSE w[n]]
  <2>2. ASSUME NEW n \in 0..(m + 1) PROVE v[n] = IF n = 0 THEN s ELSE G(n, v[n - 1])
    <3>1. CASE n = 0
      BY <2>1, <3>1
    <3>2. CASE n # 0 /\ n # m + 1
      <4>1. n \in 0..m /\ n - 1 \in 0..m /\ n - 1 # m + 1
        BY <3>2
      <4>2. v[n] = w[n] /\ v[n - 1] = w[n - 1] /\ w[n] = G(n, w[n - 1])
        BY <2>1, <3>2, <4>1
      <4> QED
        BY <3>2, <4>2
    <3>3. CASE n = m + 1
      <4>1. n - 1 = m /\ m \in 0..(m + 1) /\ m # m + 1 /\ n # 0
        BY <3>3
      <4>2. v[m] = w[m] /\ v[n] = G(n, w[m])
        BY <3>3, <4>1
      <4> QED
        BY <4>1, <4>2
    <3> QED
      BY <3>1, <3>2, <3>3
  <2>3. Walks(v, m + 1)
    <3>1. v = [n \in 0..(m + 1) |-> v[n]]
      OBVIOUS
    <3> HIDE DEF v
    <3> QED
      BY <2>2, <3>1
  <2> HIDE DEF Walks, v
  <2>4. m + 1 \in Nat /\ \E x : Walks(x, m + 1)
    BY <2>3
  <2> QED
    BY <2>4
<1>4. N \in S
  <2> HIDE DEF S
  <2> QED
    BY <1>2, <1>3, Induction
<1>5. Walks(walk, N)
  BY <1>4
<1>6. walk[0] = s /\ \A n \in 1..N : walk[n] = G(n, walk[n - 1])
  <2> HIDE DEF walk, N
  <2>1. N \in Nat
    BY DEF N
  <2> QED
    BY <1>5, <2>1
<1> HIDE DEF walk
<1> QED
  BY <1>1, <1>6 DEF G

(* Everybody in who who waits for o is readied.                            *)
LEMMA EndPendsSound ==
  ASSUME NEW s, Sound(s, Tasks), NEW o \in Objects, NEW who, NEW status \in Statuses
  PROVE  /\ Sound(EndPends(s, o, who, status), Tasks)
         /\ Changes(s, EndPends(s, o, who, status), {"task", "list", "rdy"})
         /\ EndPends(s, o, who, status).task =
              [t \in Tasks |-> IF t \in who /\ s.task[t].state \in Blocked /\ s.task[t].on = o
                               THEN Readied(s.task[t], status) ELSE s.task[t]]
         /\ ListsInOrder(s) => ListsInOrder(EndPends(s, o, who, status))
<1> DEFINE l == s.list[o]
           N == Len(l)
           e == EndPends(s, o, who, status)
           Met(t, n) == t \in who /\ \E i \in 1..n : l[i] = t
           Good(v, n) ==
             /\ Sound(v, Tasks) /\ Changes(s, v, {"task", "list", "rdy"})
             /\ v.task = [t \in Tasks |-> IF Met(t, n) THEN Readied(s.task[t], status)
                                          ELSE s.task[t]]
             /\ ListsInOrder(s) => ListsInOrder(v)
<1>1. /\ N \in Nat /\ \A i \in 1..N : /\ l[i] \in Tasks /\ s.task[l[i]].state \in Blocked
                                      /\ s.task[l[i]].on = o
      /\ \A t \in Tasks : s.task[t].state \in Blocked /\ s.task[t].on = o =>
           \E i \in 1..N : l[i] = t
      /\ \A i, j \in 1..N : l[i] = l[j] => i = j
  <2>1. Lists(l, WaitingAt(s.task, Tasks, o))
    BY DEF Sound, Placed
  <2> QED
    BY <2>1, SoundLists DEF Lists
<1>2. PICK w : /\ w[0] = s
               /\ \A n \in 1..N : w[n] = IF l[n] \in who THEN EndPend(w[n - 1], l[n], status)
                                         ELSE w[n - 1]
               /\ e = w[N]
  BY <1>1, EndPendsWalk
<1> HIDE DEF l, N, e
<1> DEFINE S == {n \in Nat : n <= N => Good(w[n], n)}
<1>3. 0 \in S
  <2>1. s.task = [t \in Tasks |-> s.task[t]]
    BY DEF Sound, Kernel
  <2>2. Good(s, 0)
    BY <2>1 DEF Changes
  <2> QED
    BY <1>2, <2>2
<1>4. ASSUME NEW n \in Nat, n \in S PROVE n + 1 \in S
  <2> SUFFICES ASSUME n + 1 <= N PROVE Good(w[n + 1], n + 1)
    OBVIOUS
  <2>1. Good(w[n], n) /\ n + 1 \in 1..N /\ n + 1 - 1 = n
    BY <1>1, <1>4
  <2>2. w[n + 1] = IF l[n + 1] \in who THEN EndPend(w[n], l[n + 1], status) ELSE w[n]
    BY <1>2, <2>1
  <2> DEFINE u == l[n + 1]
             v == w[n]
  <2>3. u \in Tasks /\ s.task[u].state \in Blocked /\ s.task[u].on = o
    BY <1>1, <2>1
  <2>4. \A t \in Tasks : Met(t, n + 1) <=> Met(t, n) \/ (t = u /\ u \in who)
    BY <2>1
  <2>5. ~Met(u, n)
    BY <1>1, <2>1
  <2>6. CASE u \notin who
    <3>1. \A t \in Tasks : Met(t, n + 1) <=> Met(t, n)
      BY <2>4, <2>6
    <3> HIDE DEF Met
    <3> QED
      BY <2>1, <2>2, <2>6, <3>1
  <2>7. CASE u \in who
    <3>1. w[n + 1] = EndPend(v, u, status)
      BY <2>2, <2>7
    <3> HIDE DEF Met, u, v
    <3>2. /\ Sound(v, Tasks) /\ Changes(s, v, {"task", "list", "rdy"})
          /\ v.task = [t \in Tasks |-> IF Met(t, n) THEN Readied(s.task[t], status)
                                       ELSE s.task[t]]
          /\ ListsInOrder(s) => ListsInOrder(v)
      BY <2>1 DEF v
    <3>3. v.task[u] = s.task[u] /\ v.task[u].on # None
      BY <2>3, <2>5, <3>2, PrioType
    <3>4. /\ Sound(EndPend(v, u, status), Tasks)
          /\ Changes(v, EndPend(v, u, status), {"task", "list", "rdy"})
          /\ EndPend(v, u, status).task = [v.task EXCEPT ![u] = Readied(@, status)]
      <4>1. v.task[u].state \in Blocked /\ Tasks \in SUBSET Tasks
        BY <2>3, <3>3
      <4>2. Ended(v, EndPend(v, u, status), Tasks, u, status)
        BY <2>3, <3>2, <3>3, <4>1, EndPendSound
      <4> QED
        BY <4>2 DEF Ended
    <3>5. ListsInOrder(s) => ListsInOrder(EndPend(v, u, status))
      <4>1. v.task[u].state \in Blocked /\ Tasks \in SUBSET Tasks
        BY <2>3, <3>3
      <4> QED
        BY <2>3, <3>2, <3>3, <4>1, EndPendOrder
    <3>6. EndPend(v, u, status).task =
            [t \in Tasks |-> IF Met(t, n + 1) THEN Readied(s.task[t], status) ELSE s.task[t]]
      BY <2>3, <2>4, <2>7, <3>2, <3>3, <3>4 DEF u
    <3>7. Changes(s, EndPend(v, u, status), {"task", "list", "rdy"})
      BY <3>2, <3>4 DEF Changes
    <3> QED
      BY <3>1, <3>4, <3>5, <3>6, <3>7
  <2> QED
    BY <2>6, <2>7
<1>5. Good(w[N], N)
  <2>1. Nat \subseteq S
    <3> HIDE DEF S
    <3> QED
      BY <1>3, <1>4, Induction
  <2>2. N \in S
    BY <1>1, <2>1
  <2> HIDE DEF Good
  <2> QED
    BY <1>1, <2>2
<1>6. \A t \in Tasks : Met(t, N) <=> t \in who /\ s.task[t].state \in Blocked /\ s.task[t].on = o
  BY <1>1
<1> HIDE DEF Met
<1>7. e.task = [t \in Tasks |-> IF t \in who /\ s.task[t].state \in Blocked /\ s.task[t].on = o
                                THEN Readied(s.task[t], status) ELSE s.task[t]]
  BY <1>2, <1>5, <1>6
<1> QED
  BY <1>2, <1>5, <1>7 DEF e
-----------------------------------------------------------------------------
(* The first state, and the invariant's consequence for the runs.          *)

LEMMA SetToSeqLists ==
  ASSUME NEW S, IsFiniteSet(S)
  PROVE  Lists(SetToSeq(S), S)
<1> DEFINE s == SetToSeq(S)
           N == Cardinality(S)
<1>1. N \in Nat /\ ExistsBijection(1..N, S)
  BY FS_CardinalityType
<1>2. \E f \in [1..N -> S] : IsInjective(f)
  BY <1>1 DEF ExistsBijection, Bijection, Injection
<1>3. s \in [1..N -> S] /\ IsInjective(s)
  BY <1>2 DEF SetToSeq
<1> HIDE DEF s
<1>4. s \in Injection(1..N, S)
  BY <1>3 DEF Injection
<1>5. IsFiniteSet(1..N) /\ Cardinality(1..N) = N
  BY <1>1, FS_Interval
<1>6. s \in Surjection(1..N, S)
  BY <1>4, <1>5, FS_Injection
<1>7. s \in Seq(S) /\ Len(s) = N
  BY <1>1, <1>3
<1>8. Lists(s, S)
  BY <1>3, <1>6, <1>7 DEF Lists, IsInjective, Surjection
<1> QED
  BY <1>8 DEF s

LEMMA StartedSound ==
  /\ Sound(Started, Tasks) /\ ListsInOrder(Started)
  /\ Started.cur \in Tasks /\ Started.prioCur \in Prios
  /\ Started.list = [o \in Objects |-> <<>>]
  /\ DOMAIN Started = CoreFields
  /\ Started.task = [t \in Tasks |-> [prio |-> Base[t], base |-> Base[t], state |-> "rdy",
                                      on |-> None, status |-> "ok"]]
<1> DEFINE s == Started
           At(p) == {t \in Tasks : Base[t] = p}
           rdy == [p \in Prios |-> SetToSeq(At(p))]
           top == CHOOSE p \in Prios :
                    rdy[p] # <<>> /\ \A q \in Prios : rdy[q] # <<>> => p <= q
           f == [t \in Tasks |-> [prio |-> Base[t], base |-> Base[t], state |-> "rdy",
                                  on |-> None, status |-> "ok"]]
<1>1. /\ s.task = f /\ s.list = [o \in Objects |-> <<>>] /\ s.rdy = rdy
      /\ s.cur = Head(rdy[top]) /\ s.prioCur = top /\ DOMAIN s = CoreFields
  BY DEF Started, CoreFields
<1> HIDE DEF s
<1>2. Base \in [Tasks -> Prios] /\ Tasks # {} /\ Prios \subseteq Nat
  BY OsAssumption, PrioType DEF OsAssumption, Prios
<1>3. ASSUME NEW p \in Prios PROVE Lists(rdy[p], At(p))
  <2>1. IsFiniteSet(At(p))
    BY OsAssumption, FS_Subset DEF OsAssumption
  <2> QED
    BY <2>1, SetToSeqLists
<1> HIDE DEF rdy
<1>4. f \in [Tasks -> TCBs] /\ \A p \in Prios : ReadyAt(f, Tasks, p) = At(p)
  BY <1>2 DEF ReadyAt, TCBs, States
<1>5. \A o \in Objects : WaitingAt(f, Tasks, o) = {}
  BY DEF WaitingAt, Blocked
<1>6. top \in Prios /\ rdy[top] # <<>>
  <2> DEFINE R == {p \in Prios : rdy[p] # <<>>}
  <2>1. PICK t \in Tasks : TRUE
    BY <1>2
  <2>2. Base[t] \in Prios /\ t \in At(Base[t])
    BY <1>2
  <2>3. Base[t] \in R
    BY <1>3, <2>2, ListsNone
  <2>4. R \subseteq Nat /\ R # {}
    BY <1>2, <2>3
  <2>5. PICK n \in R : \A m \in R : n <= m
    <3> HIDE DEF R
    <3> QED
      BY <2>4, Least
  <2> QED
    BY <2>5
<1>7. Head(rdy[top]) \in Tasks
  BY <1>3, <1>6, ListsNone
<1>8. top \in 0..PrioMax
  BY <1>6, PrioType DEF Prios
<1> HIDE DEF f, top
<1>9. \A p \in Prios : Lists(s.rdy[p], ReadyAt(s.task, Tasks, p))
  BY <1>1, <1>3, <1>4
<1>10. \A o \in Objects : Lists(s.list[o], WaitingAt(s.task, Tasks, o))
  BY <1>1, <1>5, ListsEmpty
<1>11. s.rdy = [p \in Prios |-> s.rdy[p]] /\ s.list = [o \in Objects |-> s.list[o]]
  BY <1>1 DEF rdy
<1>12. Sound(s, Tasks)
  BY <1>1, <1>4, <1>7, <1>8, <1>9, <1>10, <1>11 DEF Sound, Kernel, Placed
<1>13. ListsInOrder(s)
  BY <1>1, EmptySeq DEF ListsInOrder
<1> QED
  BY <1>1, <1>6, <1>7, <1>12, <1>13 DEF s, f

(* What the lists of a sound kernel hold, in the words of the runs.        *)
LEMMA SoundListed ==
  ASSUME NEW s, Sound(s, Tasks)
  PROVE  ListedWhereItWaits(s)
<1> SUFFICES ASSUME NEW t \in Tasks
             PROVE  /\ \A p \in Prios : Times(s.rdy[p], t) =
                         IF s.task[t].state = "rdy" /\ s.task[t].prio = p THEN 1 ELSE 0
                    /\ \A o \in Objects : Times(s.list[o], t) =
                         IF s.task[t].state \in Blocked /\ s.task[t].on = o THEN 1 ELSE 0
  BY DEF ListedWhereItWaits
<1>1. ASSUME NEW p \in Prios
      PROVE  Times(s.rdy[p], t) = IF s.task[t].state = "rdy" /\ s.task[t].prio = p THEN 1 ELSE 0
  <2>1. Times(s.rdy[p], t) = IF t \in ReadyAt(s.task, Tasks, p) THEN 1 ELSE 0
    BY ListsTimes DEF Sound, Placed
  <2> QED
    BY <2>1 DEF ReadyAt
<1>2. ASSUME NEW o \in Objects
      PROVE  Times(s.list[o], t) = IF s.task[t].state \in Blocked /\ s.task[t].on = o THEN 1 ELSE 0
  <2>1. Times(s.list[o], t) = IF t \in WaitingAt(s.task, Tasks, o) THEN 1 ELSE 0
    BY ListsTimes DEF Sound, Placed
  <2> QED
    BY <2>1 DEF WaitingAt
<1> QED
  BY <1>1, <1>2
-----------------------------------------------------------------------------
(* The rest of what the services do to the lists.                          *)

LEMMA SoundAgree ==
  ASSUME NEW s, NEW r, NEW T, Sound(s, T), DOMAIN r = DOMAIN s,
         \A f \in CoreFields : r[f] = s[f]
  PROVE  Sound(r, T)
BY DEF Sound, Kernel, Placed, CoreFields

(* OS_PendListChangePrio, after the priority has changed.                  *)
LEMMA PendListChangePrioSound ==
  ASSUME NEW s, NEW T \in SUBSET Tasks, Sound(s, T), NEW t \in T, NEW p \in Prios,
         s.task[t].state \in Blocked, s.task[t].on # None,
         NEW r, r = PendListChangePrio([s EXCEPT !.task[t].prio = p], t)
  PROVE  /\ Sound(r, T) /\ Changes(s, r, {"task", "list"})
         /\ r.task = [s.task EXCEPT ![t].prio = p]
<1> DEFINE b == [s EXCEPT !.task[t].prio = p]
           f == [s.task EXCEPT ![t].prio = p]
           o == s.task[t].on
           c == [b EXCEPT !.list[o] = Without(@, t)]
           U == T \ {t}
<1>1. s.task \in [Tasks -> TCBs] /\ t \in Tasks /\ o \in Objects
  BY DEF Sound, Kernel, TCBs
<1>2. /\ f \in [Tasks -> TCBs] /\ f[t].state \in Blocked /\ f[t].on = o
      /\ \A u \in Tasks \ {t} : f[u] = s.task[u]
  BY <1>1 DEF TCBs
<1>3. /\ Changes(s, b, {"task"}) /\ b.task = f /\ b.rdy = s.rdy /\ b.list = s.list
      /\ b.cur = s.cur /\ b.prioCur = s.prioCur
  BY DEF Changes, Sound, Kernel, CoreFields
<1>4. b.task[t].on = o /\ Kernel(b)
  BY <1>1, <1>2, <1>3 DEF Kernel, Changes, Sound
<1>5. Placed(b, f, T)
  <2>1. \A p_ : ReadyAt(f, T, p_) = ReadyAt(s.task, T, p_)
    BY <1>1, <1>2 DEF ReadyAt, Blocked
  <2>2. \A x : WaitingAt(f, T, x) = WaitingAt(s.task, T, x)
    BY <1>1, <1>2 DEF WaitingAt
  <2> HIDE DEF f, b
  <2> QED
    BY <1>3, <2>1, <2>2 DEF Sound, Placed
<1> HIDE DEF b, f
<1>6. CASE Len(b.list[o]) = 1
  <2>1. r = b
    BY <1>4, <1>6 DEF PendListChangePrio, b
  <2> QED
    BY <1>3, <1>4, <1>5, <2>1 DEF Sound, Changes, f
<1>7. CASE Len(b.list[o]) # 1
  <2>1. r = PendListInsertPrio(c, o, t)
    BY <1>4, <1>7 DEF PendListChangePrio, b
  <2>2. /\ Changes(b, c, {"list", "task"}) /\ Changes(b, c, {"list"})
        /\ c.list = [b.list EXCEPT ![o] = Without(@, t)] /\ c.task = f
    BY <1>3, <1>4 DEF Changes, Kernel, CoreFields
  <2> HIDE DEF c
  <2>3. Kernel(c) /\ Placed(c, f, U)
    <3>1. Placed(c, f, U)
      BY <1>1, <1>2, <1>4, <1>5, <2>2, PendOut
    <3> QED
      BY <1>2, <2>2, <3>1, <1>4 DEF Kernel, Changes
  <2>4. t \notin U /\ U \cup {t} = T /\ U \in SUBSET Tasks
    OBVIOUS
  <2>5. Placed(r, f, U \cup {t}) /\ Changes(c, r, {"list"})
    <3> HIDE DEF U
    <3> QED
      BY <1>1, <1>2, <2>1, <2>3, <2>4, PendIn
  <2>6. Placed(r, f, T)
    BY <2>4, <2>5
  <2>7. Changes(s, r, {"task", "list"}) /\ r.task = f
    BY <1>3, <1>4, <2>2, <2>3, <2>5 DEF Changes, Kernel, CoreFields
  <2>8. r.cur = s.cur /\ r.prioCur = s.prioCur
    BY <2>7 DEF Changes, Sound, Kernel, CoreFields
  <2> QED
    BY <1>2, <2>6, <2>7, <2>8 DEF Sound, Kernel, Changes, f
<1> QED
  BY <1>6, <1>7

(* A ready task at a new priority: it leaves its list and joins another.   *)
Moved(s, r, T, t, p) ==
  /\ Sound(r, T) /\ Changes(s, r, {"task", "rdy"})
  /\ r.task = [s.task EXCEPT ![t].prio = p]

LEMMA RdyMoveSound ==
  ASSUME NEW s, NEW T \in SUBSET Tasks, Sound(s, T), NEW t \in T, NEW p \in Prios,
         s.task[t].state = "rdy"
  PROVE  LET off == [RdyListRemove(s, t) EXCEPT !.task[t].prio = p]
         IN Moved(s, RdyListInsertHead(off, t), T, t, p) /\ Moved(s, RdyListInsertTail(off, t), T, t, p)
<1> DEFINE off == [RdyListRemove(s, t) EXCEPT !.task[t].prio = p]
           f == [s.task EXCEPT ![t].prio = p]
           q == RdyListRemove(s, t)
           U == T \ {t}
<1>1. s.task \in [Tasks -> TCBs] /\ t \in Tasks
  BY DEF Sound, Kernel
<1>2. /\ f \in [Tasks -> TCBs] /\ f[t].state = "rdy" /\ f[t].prio = p
      /\ \A u \in Tasks \ {t} : f[u] = s.task[u]
  BY <1>1 DEF TCBs
<1>3. Placed(q, s.task, U) /\ Changes(s, q, {"rdy"})
  BY <1>1, RdyOut DEF Sound
<1> HIDE DEF q
<1>4. q.task = s.task /\ CoreFields \subseteq DOMAIN q
  BY <1>3 DEF Changes, Sound, Kernel, CoreFields
<1>5. off.task = f /\ Changes(q, off, {"task"}) /\ off.rdy = q.rdy /\ off.list = q.list
  BY <1>4 DEF Changes, CoreFields, q
<1> HIDE DEF f, off
<1>6. Placed(off, f, U)
  <2>1. Placed(q, f, U)
    BY <1>2, <1>3, PlacedAgree
  <2> QED
    BY <1>5, <2>1 DEF Placed
<1>7. Kernel(off)
  BY <1>2, <1>4, <1>5 DEF Kernel, Changes
<1>8. t \notin U /\ U \cup {t} = T
  OBVIOUS
<1>9. ASSUME NEW r, r \in {RdyListInsertHead(off, t), RdyListInsertTail(off, t)}
      PROVE  Moved(s, r, T, t, p)
  <2> HIDE DEF U
  <2>1. /\ f[t].state = "rdy" /\ f[t].prio = off.task[t].prio /\ t \notin U /\ t \in Tasks
        /\ r \in {RdyListInsertHead(off, t), RdyListInsertTail(off, t), RdyListInsert(off, t)}
    BY <1>1, <1>2, <1>5, <1>8, <1>9
  <2>2. Placed(r, f, U \cup {t}) /\ Changes(off, r, {"rdy"})
    BY <1>6, <1>7, <2>1, RdyIn
  <2>3. Placed(r, f, T)
    BY <1>8, <2>2
  <2>4. Changes(s, r, {"task", "rdy"}) /\ r.task = f
    BY <1>3, <1>4, <1>5, <1>7, <2>2 DEF Changes, CoreFields, Kernel
  <2> QED
    BY <1>2, <2>3, <2>4 DEF Moved, Sound, Kernel, Changes, CoreFields, f
<1> QED
  BY <1>9 DEF off

(* A task leaves the lists for good or for a while, and comes back.        *)
LEMMA RdyOutSound ==
  ASSUME NEW s, NEW T \in SUBSET Tasks, Sound(s, T), NEW t \in T, s.task[t].state = "rdy"
  PROVE  /\ Sound(RdyListRemove(s, t), T \ {t})
         /\ Changes(s, RdyListRemove(s, t), {"rdy"})
<1> DEFINE r == RdyListRemove(s, t)
<1>1. Placed(r, s.task, T \ {t}) /\ Changes(s, r, {"rdy"})
  BY RdyOut DEF Sound
<1> HIDE DEF r
<1>2. Sound(r, T \ {t})
  BY <1>1 DEF Sound, Kernel, Changes, CoreFields
<1> QED
  BY <1>1, <1>2 DEF r

LEMMA PendOutSound ==
  ASSUME NEW s, NEW T \in SUBSET Tasks, Sound(s, T), NEW t \in T,
         s.task[t].state \in Blocked, s.task[t].on # None
  PROVE  LET r == PendListRemove(s, t)
         IN /\ Sound(r, T \ {t}) /\ Changes(s, r, {"list", "task"})
            /\ r.task = [s.task EXCEPT ![t].on = None]
<1> DEFINE r == PendListRemove(s, t)
           U == T \ {t}
<1>0. s.task \in [Tasks -> TCBs] /\ t \in Tasks
  BY DEF Sound, Kernel
<1>1. /\ Placed(r, s.task, U) /\ Changes(s, r, {"list", "task"}) /\ Kernel(r)
      /\ r.task = [s.task EXCEPT ![t].on = None]
      /\ r.list = [s.list EXCEPT ![s.task[t].on] = Without(@, t)]
  BY <1>0, PendListOut DEF Sound
<1> HIDE DEF r
<1>2. \A u \in U : r.task[u] = s.task[u]
  BY <1>1 DEF Sound, Kernel
<1> HIDE DEF U
<1>3. Placed(r, r.task, U)
  <2>1. PICK f : f = s.task
    OBVIOUS
  <2>2. PICK g : g = r.task
    OBVIOUS
  <2>3. /\ Placed(r, f, U)
        /\ \A u \in U : f[u].state = g[u].state /\ f[u].prio = g[u].prio /\ f[u].on = g[u].on
    BY <1>1, <1>2, <2>1, <2>2
  <2>4. Placed(r, g, U)
    BY ONLY <2>3, PlacedAgree
  <2> QED
    BY <2>2, <2>4
<1>4. Sound(r, U)
  BY <1>1, <1>3 DEF Sound, Kernel, Changes, CoreFields
<1> QED
  BY <1>1, <1>4 DEF r, U

LEMMA IdleSound ==
  ASSUME NEW s, NEW u \in Tasks, Sound(s, Tasks \ {u}), NEW st \in {"dly", "del"}
  PROVE  LET r == [s EXCEPT !.task[u].state = st]
         IN /\ Sound(r, Tasks) /\ Changes(s, r, {"task"})
            /\ r.task = [s.task EXCEPT ![u].state = st]
<1> DEFINE r == [s EXCEPT !.task[u].state = st]
           f == [s.task EXCEPT ![u].state = st]
<1>1. /\ Changes(s, r, {"task"}) /\ r.task = f
  BY DEF Changes, Sound, Kernel, CoreFields
<1>2. r.rdy = s.rdy /\ r.list = s.list /\ r.cur = s.cur /\ r.prioCur = s.prioCur
  BY <1>1 DEF Changes, Sound, Kernel, CoreFields
<1> HIDE DEF r
<1>3. /\ f \in [Tasks -> TCBs] /\ f[u].state = st
      /\ \A v \in Tasks \ {u} : f[v] = s.task[v]
  BY DEF Sound, Kernel, TCBs, States
<1> HIDE DEF f
<1>4. \A p : ReadyAt(f, Tasks, p) = ReadyAt(s.task, Tasks \ {u}, p)
  BY <1>3 DEF ReadyAt
<1>5. \A o : WaitingAt(f, Tasks, o) = WaitingAt(s.task, Tasks \ {u}, o)
  BY <1>3 DEF WaitingAt, Blocked
<1>6. Placed(r, f, Tasks)
  BY <1>2, <1>4, <1>5 DEF Sound, Placed
<1>7. Sound(r, Tasks)
  BY <1>1, <1>2, <1>3, <1>6 DEF Sound, Kernel, Changes
<1> QED
  BY <1>1, <1>7 DEF r, f

LEMMA BackSound ==
  ASSUME NEW s, NEW u \in Tasks, Sound(s, Tasks), s.task[u].state = "dly"
  PROVE  LET r == RdyListInsert([s EXCEPT !.task[u].state = "rdy"], u)
         IN /\ Sound(r, Tasks) /\ Changes(s, r, {"task", "rdy"})
            /\ r.task = [s.task EXCEPT ![u].state = "rdy"]
<1> DEFINE b == [s EXCEPT !.task[u].state = "rdy"]
           r == RdyListInsert(b, u)
           f == [s.task EXCEPT ![u].state = "rdy"]
           U == Tasks \ {u}
<1>1. /\ Changes(s, b, {"task"}) /\ b.task = f /\ b.rdy = s.rdy /\ b.list = s.list
  BY DEF Changes, Sound, Kernel, CoreFields
<1> HIDE DEF b
<1>2. /\ f \in [Tasks -> TCBs] /\ f[u].state = "rdy"
      /\ \A v \in Tasks \ {u} : f[v] = s.task[v]
  BY DEF Sound, Kernel, TCBs, States
<1> HIDE DEF f
<1>3. \A p : ReadyAt(f, U, p) = ReadyAt(s.task, Tasks, p)
  BY <1>2 DEF ReadyAt
<1>4. \A o : WaitingAt(f, U, o) = WaitingAt(s.task, Tasks, o)
  BY <1>2 DEF WaitingAt, Blocked
<1>5. Placed(b, f, U) /\ Kernel(b)
  BY <1>1, <1>2, <1>3, <1>4 DEF Sound, Placed, Kernel, Changes
<1>6. Placed(r, f, U \cup {u}) /\ Changes(b, r, {"rdy"})
  BY <1>1, <1>2, <1>5, RdyIn
<1>7. U \cup {u} = Tasks
  OBVIOUS
<1> HIDE DEF r, U
<1>8. Placed(r, f, Tasks) /\ Changes(s, r, {"task", "rdy"}) /\ r.task = f
  BY <1>1, <1>5, <1>6, <1>7 DEF Changes, Kernel, CoreFields
<1>9. Sound(r, Tasks)
  BY <1>2, <1>8 DEF Sound, Kernel, Changes, CoreFields
<1> QED
  BY <1>8, <1>9 DEF r, b, f

(* A yield: who was first at its priority is last.                         *)
LEMMA RotatedSound ==
  ASSUME NEW s, Sound(s, Tasks), CanRotate(s)
  PROVE  Sound(Rotated(s), Tasks) /\ Changes(s, Rotated(s), {"rdy"})
<1> DEFINE r == Rotated(s)
           p == s.prioCur
           l == s.rdy[p]
           new == Append(Tail(l), Head(l))
           W == ReadyAt(s.task, Tasks, p)
<1>1. p \in Prios /\ Len(l) > 1
  BY DEF CanRotate
<1>2. Changes(s, r, {"rdy"}) /\ r.rdy = [s.rdy EXCEPT ![p] = new]
  BY DEF Rotated, Changes, Sound, Kernel, CoreFields
<1>3. Lists(l, W)
  BY <1>1 DEF Sound, Placed
<1> HIDE DEF W, l, r
<1>4. Lists(new, W)
  <2>1. /\ l \in Seq(W) /\ Len(l) \in Nat /\ l # <<>> /\ Head(l) = l[1] /\ 1 \in 1..Len(l)
    BY <1>1, <1>3, ListsNone DEF Lists
  <2>2. /\ Tail(l) \in Seq(W) /\ Len(Tail(l)) = Len(l) - 1
        /\ \A i \in 1..Len(Tail(l)) : Tail(l)[i] = l[i + 1]
    BY <2>1, HeadTailProperties
  <2>3. Deleted(l, Tail(l), 1)
    BY <2>2 DEF Deleted
  <2>4. Lists(Tail(l), W \ {l[1]})
    BY <1>3, <2>1, <2>2, <2>3, ListsDelete
  <2>5. Lists(Append(Tail(l), l[1]), (W \ {l[1]}) \cup {l[1]})
    BY <2>4, ListsTail
  <2>6. (W \ {l[1]}) \cup {l[1]} = W
    BY <1>3, <2>1, ListsNone
  <2> QED
    BY <2>1, <2>5, <2>6
<1> HIDE DEF new, p
<1>5. \A q \in Prios : Lists(r.rdy[q], ReadyAt(s.task, Tasks, q))
  BY <1>1, <1>2, <1>4 DEF Sound, Placed, W
<1>6. r.list = s.list /\ r.task = s.task /\ r.cur = s.cur /\ r.prioCur = s.prioCur
  BY <1>2 DEF Changes, Sound, Kernel, CoreFields
<1>7. r.rdy = [q \in Prios |-> r.rdy[q]]
  BY <1>1, <1>2 DEF Sound, Placed
<1>8. Sound(r, Tasks)
  BY <1>2, <1>5, <1>6, <1>7 DEF Sound, Kernel, Placed, Changes
<1> QED
  BY <1>2, <1>8 DEF r
=============================================================================
