---------------------------- MODULE LvTaskProofs ----------------------------
(***************************************************************************)
(* Proofs about the task list and the handler's pointers into it, for any  *)
(* set of nodes, any number of priorities and any callbacks, raising ones  *)
(* included.                                                               *)
(***************************************************************************)
EXTENDS LvTask, SequenceTheorems, TLAPS

Distinct(s) == \A i, j \in 1 .. Len(s) : s[i] = s[j] => i = j
Elems(s) == {s[i] : i \in 1 .. Len(s)}
Sorted(s, f) == \A i, j \in 1 .. Len(s) : i < j => f[s[i]] >= f[s[j]]

\* Taking out the k-th element: a list of the others, in the same order.
LEMMA CutOutFacts ==
  ASSUME NEW S, NEW s \in Seq(S), NEW k \in 1 .. Len(s), Distinct(s)
  PROVE  /\ CutOut(s, k) \in Seq(S) /\ Len(CutOut(s, k)) = Len(s) - 1
         /\ Distinct(CutOut(s, k))
         /\ Elems(CutOut(s, k)) = Elems(s) \ {s[k]}
<1> DEFINE r == CutOut(s, k)
<1>1. Len(s) \in Nat /\ \A i \in 1 .. Len(s) : s[i] \in S
  BY LenProperties, ElementOfSeq
<1>2. r \in [1 .. (Len(s) - 1) -> S]
  BY <1>1 DEF CutOut
<1>3. r \in Seq(S) /\ Len(r) = Len(s) - 1
  <2>1. Len(s) - 1 \in Nat
    BY <1>1
  <2> QED BY <1>2, <2>1, SeqDef, LenProperties
<1>4. \A i \in 1 .. Len(s) - 1 : r[i] = IF i < k THEN s[i] ELSE s[i + 1]
  BY DEF CutOut
<1> HIDE DEF r
<1>5. Distinct(r)
  BY <1>1, <1>3, <1>4 DEF Distinct
<1>6. ASSUME NEW x \in Elems(s), x # s[k] PROVE x \in Elems(r)
  <2>1. PICK i \in 1 .. Len(s) : x = s[i]
    BY <1>6 DEF Elems
  <2>2. CASE i < k
    <3>1. i \in 1 .. Len(s) - 1 /\ r[i] = x
      BY <1>1, <1>4, <2>1, <2>2
    <3> QED BY <1>3, <3>1 DEF Elems
  <2>3. CASE i > k
    <3>1. i - 1 \in 1 .. Len(s) - 1 /\ r[i - 1] = x
      BY <1>1, <1>4, <2>1, <2>3
    <3> QED BY <1>3, <3>1 DEF Elems
  <2> QED BY <1>1, <1>6, <2>1, <2>2, <2>3
<1>7. ASSUME NEW x \in Elems(r) PROVE x \in Elems(s) /\ x # s[k]
  <2>1. PICK i \in 1 .. Len(s) - 1 : x = r[i]
    BY <1>3, <1>7 DEF Elems
  <2>2. CASE i < k
    BY <1>1, <1>4, <2>1, <2>2 DEF Elems, Distinct
  <2>3. CASE ~(i < k)
    <3>1. i + 1 \in 1 .. Len(s) /\ x = s[i + 1] /\ i + 1 # k
      BY <1>1, <1>4, <2>1, <2>3
    <3> QED BY <1>1, <3>1 DEF Elems, Distinct
  <2> QED BY <2>2, <2>3
<1> QED BY <1>3, <1>5, <1>6, <1>7 DEF r

\* Inserting a new element behind the first n.
LEMMA InsertFacts ==
  ASSUME NEW S, NEW s \in Seq(S), NEW n \in 0 .. Len(s), NEW t \in S,
         Distinct(s), t \notin Elems(s)
  PROVE  /\ InsertAfter(s, n, t) \in Seq(S) /\ Len(InsertAfter(s, n, t)) = Len(s) + 1
         /\ Distinct(InsertAfter(s, n, t))
         /\ Elems(InsertAfter(s, n, t)) = Elems(s) \cup {t}
<1> DEFINE r == InsertAfter(s, n, t)
<1>1. Len(s) \in Nat /\ \A i \in 1 .. Len(s) : s[i] \in S /\ s[i] # t
  BY LenProperties, ElementOfSeq DEF Elems
<1>2. r \in [1 .. (Len(s) + 1) -> S]
  BY <1>1 DEF InsertAfter
<1>3. r \in Seq(S) /\ Len(r) = Len(s) + 1
  <2>1. Len(s) + 1 \in Nat
    BY <1>1
  <2> QED BY <1>2, <2>1, SeqDef, LenProperties
<1>4. \A i \in 1 .. Len(s) + 1 :
        r[i] = IF i <= n THEN s[i] ELSE IF i = n + 1 THEN t ELSE s[i - 1]
  BY DEF InsertAfter
<1> HIDE DEF r
<1>5. Distinct(r)
  <2> SUFFICES ASSUME NEW i \in 1 .. Len(s) + 1, NEW j \in 1 .. Len(s) + 1, r[i] = r[j]
               PROVE  i = j
    BY <1>3 DEF Distinct
  <2>0. n \in Int /\ Len(s) \in Int /\ i \in Int /\ j \in Int
    BY <1>1
  <2>1. ASSUME NEW m \in 1 .. Len(s) + 1
        PROVE  /\ m <= n => m \in 1 .. Len(s) /\ r[m] = s[m]
               /\ m = n + 1 => r[m] = t
               /\ m > n + 1 => m - 1 \in 1 .. Len(s) /\ r[m] = s[m - 1]
    BY <1>1, <1>4
  <2>2. CASE i = n + 1 \/ j = n + 1
    BY ONLY <1>1, <2>0, <2>1, <2>2, r[i] = r[j], i \in 1 .. Len(s) + 1, j \in 1 .. Len(s) + 1
  <2>3. CASE i <= n /\ j <= n
    BY ONLY <2>0, <2>1, <2>3, r[i] = r[j], Distinct(s), i \in 1 .. Len(s) + 1, j \in 1 .. Len(s) + 1
       DEF Distinct
  <2>4. CASE i > n + 1 /\ j > n + 1
    <3>1. i - 1 = j - 1
      BY ONLY <2>1, <2>4, r[i] = r[j], Distinct(s), i \in 1 .. Len(s) + 1, j \in 1 .. Len(s) + 1
         DEF Distinct
    <3> QED BY ONLY <2>0, <3>1
  <2>5. CASE i <= n /\ j > n + 1
    <3>1. i = j - 1
      BY ONLY <2>1, <2>5, r[i] = r[j], Distinct(s), i \in 1 .. Len(s) + 1, j \in 1 .. Len(s) + 1
         DEF Distinct
    <3> QED BY ONLY <2>0, <2>5, <3>1
  <2>6. CASE j <= n /\ i > n + 1
    <3>1. j = i - 1
      BY ONLY <2>1, <2>6, r[i] = r[j], Distinct(s), i \in 1 .. Len(s) + 1, j \in 1 .. Len(s) + 1
         DEF Distinct
    <3> QED BY ONLY <2>0, <2>6, <3>1
  <2> QED BY <2>0, <2>2, <2>3, <2>4, <2>5, <2>6
<1>6. ASSUME NEW x \in Elems(s) PROVE x \in Elems(r)
  <2>1. PICK i \in 1 .. Len(s) : x = s[i]
    BY DEF Elems
  <2>2. CASE i <= n
    <3>1. i \in 1 .. Len(s) + 1 /\ r[i] = x
      BY <1>1, <1>4, <2>1, <2>2
    <3> QED BY <1>3, <3>1 DEF Elems
  <2>3. CASE i > n
    <3>1. i + 1 \in 1 .. Len(s) + 1 /\ r[i + 1] = x
      BY <1>1, <1>4, <2>1, <2>3
    <3> QED BY <1>3, <3>1 DEF Elems
  <2> QED BY <1>1, <2>2, <2>3
<1>7. t \in Elems(r)
  <2>1. n + 1 \in 1 .. Len(s) + 1 /\ r[n + 1] = t
    BY <1>1, <1>4
  <2> QED BY <1>3, <2>1 DEF Elems
<1>8. ASSUME NEW x \in Elems(r) PROVE x \in Elems(s) \cup {t}
  <2>1. PICK i \in 1 .. Len(s) + 1 : x = r[i]
    BY <1>3 DEF Elems
  <2>2. i <= n => i \in 1 .. Len(s)
    BY <1>1
  <2>3. i > n + 1 => i - 1 \in 1 .. Len(s)
    BY <1>1
  <2> QED BY <1>1, <1>4, <2>1, <2>2, <2>3 DEF Elems
<1> QED BY <1>3, <1>5, <1>6, <1>7, <1>8 DEF r

\* A list in order stays in order without one of its elements.
LEMMA CutOutSorted ==
  ASSUME NEW s \in Seq(Task), NEW f \in [Task -> Nat], NEW k \in 1 .. Len(s), Sorted(s, f)
  PROVE  Sorted(CutOut(s, k), f)
<1> DEFINE r == CutOut(s, k)
<1>1. Len(s) \in Nat /\ \A i \in 1 .. Len(s) : f[s[i]] \in Nat
  BY LenProperties, ElementOfSeq
<1>2. /\ \A i \in 1 .. Len(s) - 1 : r[i] = IF i < k THEN s[i] ELSE s[i + 1]
      /\ r \in [1 .. (Len(s) - 1) -> Task]
  BY <1>1, ElementOfSeq DEF CutOut
<1>3. Len(r) = Len(s) - 1
  <2>1. Len(s) - 1 \in Nat
    BY <1>1
  <2> QED BY <1>2, <2>1, SeqDef, LenProperties
<1> HIDE DEF r
<1>4. ASSUME NEW i \in 1 .. Len(r), NEW j \in 1 .. Len(r), i < j
      PROVE  f[r[i]] >= f[r[j]]
  <2> DEFINE at(m) == IF m < k THEN m ELSE m + 1
  <2>1. /\ at(i) \in 1 .. Len(s) /\ at(j) \in 1 .. Len(s) /\ at(i) < at(j)
        /\ r[i] = s[at(i)] /\ r[j] = s[at(j)]
    BY <1>1, <1>2, <1>3, <1>4
  <2> HIDE DEF at
  <2> QED BY <2>1 DEF Sorted
<1> QED BY <1>4 DEF Sorted, r

\* It stays in order with a new element at the right spot.
LEMMA InsertSorted ==
  ASSUME NEW s \in Seq(Task), NEW n \in 0 .. Len(s), NEW t \in Task,
         NEW f \in [Task -> Nat], Sorted(s, f),
         \A i \in 1 .. n : f[s[i]] >= f[t],
         n < Len(s) => f[s[n + 1]] <= f[t]
  PROVE  Sorted(InsertAfter(s, n, t), f)
<1> DEFINE r == InsertAfter(s, n, t)
<1>1. Len(s) \in Nat /\ f[t] \in Nat /\ \A i \in 1 .. Len(s) : s[i] \in Task /\ f[s[i]] \in Nat
  BY LenProperties, ElementOfSeq
<1>2. /\ \A i \in 1 .. Len(s) + 1 :
            r[i] = IF i <= n THEN s[i] ELSE IF i = n + 1 THEN t ELSE s[i - 1]
      /\ r \in [1 .. (Len(s) + 1) -> Task]
  BY <1>1 DEF InsertAfter
<1>3. Len(r) = Len(s) + 1
  <2>1. Len(s) + 1 \in Nat
    BY <1>1
  <2> QED BY <1>2, <2>1, SeqDef, LenProperties
<1> HIDE DEF r
<1>4. ASSUME NEW i \in 1 .. Len(s), i > n PROVE f[s[i]] <= f[t]
  <2>1. n < Len(s) /\ n + 1 \in 1 .. Len(s) /\ n + 1 <= i
    BY <1>1, <1>4
  <2>2. f[s[n + 1]] >= f[s[i]]
    BY <1>1, <1>4, <2>1 DEF Sorted
  <2> QED BY <1>1, <2>1, <2>2
<1>5. ASSUME NEW i \in 1 .. Len(r), NEW j \in 1 .. Len(r), i < j
      PROVE  f[r[i]] >= f[r[j]]
  <2>0. i \in Int /\ j \in Int /\ n \in Int /\ i >= 1 /\ j <= Len(s) + 1
    BY <1>1, <1>3
  <2>1. CASE j <= n
    <3>1. r[i] = s[i] /\ r[j] = s[j] /\ i \in 1 .. Len(s) /\ j \in 1 .. Len(s)
      BY <1>1, <1>2, <1>5, <2>0, <2>1
    <3> QED BY <1>5, <3>1 DEF Sorted
  <2>2. CASE j = n + 1
    <3>1. r[i] = s[i] /\ r[j] = t /\ i \in 1 .. n
      BY <1>1, <1>2, <1>5, <2>0, <2>2
    <3> QED BY <3>1
  <2>3. CASE j > n + 1
    <3>1. r[j] = s[j - 1] /\ j - 1 \in 1 .. Len(s) /\ j - 1 > n
      BY <1>1, <1>2, <2>0, <2>3
    <3>2. CASE i <= n
      <4>1. r[i] = s[i] /\ i \in 1 .. Len(s) /\ i < j - 1
        BY <1>1, <1>2, <2>0, <2>3, <3>2
      <4> QED BY <3>1, <4>1 DEF Sorted
    <3>3. CASE i = n + 1
      <4>1. r[i] = t
        BY <1>1, <1>2, <2>0, <3>3
      <4> QED BY <1>1, <1>4, <3>1, <4>1
    <3>4. CASE i > n + 1
      <4>1. r[i] = s[i - 1] /\ i - 1 \in 1 .. Len(s) /\ i - 1 < j - 1
        BY <1>1, <1>2, <1>5, <2>0, <3>4
      <4> QED BY <3>1, <4>1 DEF Sorted
    <3> QED BY <2>0, <3>2, <3>3, <3>4
  <2> QED BY <2>0, <2>1, <2>2, <2>3
<1> QED BY <1>5 DEF Sorted, r

\* _lv_ll_get_next stays in the list.
LEMMA NextListed ==
  ASSUME NEW s \in Seq(Task), NEW t
  PROVE  NextOf(s, t) \in Elems(s) \cup {NULL}
<1>1. Len(s) \in Nat
  BY LenProperties
<1>2. CASE \E i \in 1 .. Len(s) - 1 : s[i] = t
  <2> DEFINE i == CHOOSE i \in 1 .. Len(s) - 1 : s[i] = t
  <2>1. i \in 1 .. Len(s) - 1 /\ NextOf(s, t) = s[1 + i]
    BY <1>2 DEF NextOf
  <2> HIDE DEF i
  <2>2. 1 + i \in 1 .. Len(s)
    BY <1>1, <2>1
  <2> QED BY <2>1, <2>2 DEF Elems
<1>3. CASE ~ \E i \in 1 .. Len(s) - 1 : s[i] = t
  BY <1>3 DEF NextOf
<1> QED BY <1>2, <1>3

-----------------------------------------------------------------------------
(* What the three changes of the list preserve.                            *)

\* A list in order of priority, in the words of the lemmas above.
ListOK == /\ ll \in Seq(Task) /\ Distinct(ll) /\ prio \in [Task -> Prio]
          /\ Sorted(ll, prio)

\* Priorities are natural numbers.
LEMMA PrioNat == ASSUME NEW f \in [Task -> Prio] PROVE f \in [Task -> Nat]
  BY HighestAssumption DEF Prio, OFF

\* A new task at its spot: the list stays in order, with the task in it.
LEMMA CreateKeepsList ==
  ASSUME ListOK, NEW t \in Task, NEW p \in Prio, NEW n \in 0 .. Len(ll), t \notin Elems(ll),
         Spot(ll, p, n), ll' = InsertAfter(ll, n, t), prio' = [prio EXCEPT ![t] = p]
  PROVE  ListOK' /\ Elems(ll') = Elems(ll) \cup {t}
<1>1. prio' \in [Task -> Prio] /\ prio' \in [Task -> Nat] /\ prio \in [Task -> Nat]
  BY PrioNat DEF ListOK
<1>2. ll' \in Seq(Task) /\ Distinct(ll') /\ Elems(ll') = Elems(ll) \cup {t}
  BY InsertFacts DEF ListOK
<1>3. Len(ll) \in Nat /\ p \in Nat
      /\ \A i \in 1 .. Len(ll) : ll[i] \in Task /\ ll[i] # t /\ prio'[ll[i]] = prio[ll[i]]
  BY LenProperties, ElementOfSeq, HighestAssumption DEF ListOK, Elems, Prio, OFF
<1>4. Sorted(ll, prio')
  BY <1>3 DEF ListOK, Sorted
<1>5. prio'[t] = p
  BY DEF ListOK
<1>6. (\A i \in 1 .. n : prio'[ll[i]] >= prio'[t]) /\ (n < Len(ll) => prio'[ll[n + 1]] <= prio'[t])
  <2>1. ASSUME NEW i \in 1 .. n PROVE prio'[ll[i]] >= prio'[t]
    <3>1. i \in 1 .. Len(ll) /\ prio[ll[i]] > p
      BY <1>3 DEF Spot
    <3> QED BY <1>1, <1>3, <1>5, <3>1
  <2>2. n < Len(ll) => n + 1 \in 1 .. Len(ll)
    BY <1>3
  <2> QED BY <1>3, <1>5, <2>1, <2>2 DEF Spot
<1>7. Sorted(InsertAfter(ll, n, t), prio')
  BY <1>1, <1>4, <1>6, InsertSorted DEF ListOK
<1> QED BY <1>1, <1>2, <1>7 DEF ListOK

\* A deleted task: the list stays in order, without it.
LEMMA UnlinkKeepsList ==
  ASSUME ListOK, NEW t \in Task, NEW k \in 1 .. Len(ll), ll[k] = t,
         ll' = CutOut(ll, k), prio' = [prio EXCEPT ![t] = OFF]
  PROVE  ListOK' /\ Elems(ll') = Elems(ll) \ {t}
<1>1. prio' \in [Task -> Prio] /\ prio \in [Task -> Nat] /\ prio' \in [Task -> Nat]
  BY PrioNat, HighestAssumption DEF ListOK, Prio, OFF
<1>2. ll' \in Seq(Task) /\ Distinct(ll') /\ Elems(ll') = Elems(ll) \ {t}
  BY CutOutFacts DEF ListOK
<1>3. Sorted(ll', prio)
  BY <1>1, CutOutSorted DEF ListOK
<1>4. \A i \in 1 .. Len(ll') : prio'[ll'[i]] = prio[ll'[i]]
  BY <1>1, <1>2, ElementOfSeq DEF Elems, ListOK
<1>5. Sorted(ll', prio')
  BY <1>3, <1>4 DEF Sorted
<1> QED BY <1>1, <1>2, <1>5 DEF ListOK

\* A moved task: the list stays in order, with the same nodes.
LEMMA SetPrioKeepsList ==
  ASSUME ListOK, NEW t \in Task, NEW p \in Prio, NEW k \in 1 .. Len(ll),
         NEW n \in 0 .. Len(ll) - 1, ll[k] = t, Spot(CutOut(ll, k), p, n),
         ll' = InsertAfter(CutOut(ll, k), n, t), prio' = [prio EXCEPT ![t] = p]
  PROVE  ListOK' /\ Elems(ll') = Elems(ll)
<1> DEFINE o == CutOut(ll, k)
<1>1. prio' \in [Task -> Prio] /\ prio' \in [Task -> Nat] /\ prio \in [Task -> Nat]
  BY PrioNat DEF ListOK
<1>2. o \in Seq(Task) /\ Distinct(o) /\ Elems(o) = Elems(ll) \ {t} /\ Len(o) = Len(ll) - 1
  BY CutOutFacts DEF ListOK
<1>3. Sorted(o, prio)
  BY <1>1, CutOutSorted DEF ListOK
<1>4. Spot(o, p, n) /\ ll' = InsertAfter(o, n, t)
  OBVIOUS
<1> HIDE DEF o
<1>5. n \in 0 .. Len(o) /\ t \notin Elems(o)
  BY <1>2
<1>6. ll' \in Seq(Task) /\ Distinct(ll') /\ Elems(ll') = Elems(o) \cup {t}
  BY <1>2, <1>4, <1>5, InsertFacts
<1>7. Len(o) \in Nat /\ p \in Nat
      /\ \A i \in 1 .. Len(o) : o[i] \in Task /\ o[i] # t /\ prio'[o[i]] = prio[o[i]]
  <2>1. Len(o) \in Nat /\ p \in Nat
    BY <1>2, LenProperties, HighestAssumption DEF Prio, OFF
  <2>2. ASSUME NEW i \in 1 .. Len(o) PROVE o[i] \in Task /\ o[i] # t /\ prio'[o[i]] = prio[o[i]]
    <3>1. o[i] \in Task /\ o[i] \in Elems(o)
      BY <1>2, ElementOfSeq DEF Elems
    <3> QED BY <1>5, <3>1 DEF ListOK
  <2> QED BY <2>1, <2>2
<1>8. Sorted(o, prio')
  BY <1>3, <1>7 DEF Sorted
<1>9. prio'[t] = p
  BY DEF ListOK
<1>10. (\A i \in 1 .. n : prio'[o[i]] >= prio'[t]) /\ (n < Len(o) => prio'[o[n + 1]] <= prio'[t])
  <2>1. ASSUME NEW i \in 1 .. n PROVE prio'[o[i]] >= prio'[t]
    <3>1. i \in 1 .. Len(o) /\ prio[o[i]] > p
      BY <1>4, <1>5, <1>7 DEF Spot
    <3> QED BY <1>1, <1>7, <1>9, <3>1
  <2>2. n < Len(o) => n + 1 \in 1 .. Len(o)
    BY <1>5, <1>7
  <2> QED BY <1>4, <1>7, <1>9, <2>1, <2>2 DEF Spot
<1>11. Sorted(InsertAfter(o, n, t), prio')
  BY <1>1, <1>2, <1>5, <1>8, <1>10, InsertSorted
<1>12. Elems(ll') = Elems(ll)
  <2>1. t \in Elems(ll)
    BY DEF Elems
  <2> QED BY <1>2, <1>6, <2>1
<1> QED BY <1>1, <1>4, <1>6, <1>11, <1>12 DEF ListOK

-----------------------------------------------------------------------------
(* The invariant.                                                          *)

\* Types, order and valid pointers support each other: an insertion keeps the
\* order because the list was in order, and the handler's pointers stay in the
\* list because every change of it raises a flag.
TaskInv == TypeOK /\ SortedByPriority /\ HandlerPointersValid

\* The invariant in the words of the lemmas about lists.
LEMMA InvList == TypeOK /\ SortedByPriority => ListOK /\ Listed = Elems(ll)
  BY DEF TypeOK, SortedByPriority, ListOK, Distinct, Sorted, Elems, Listed

\* And back.
LEMMA ListInv == ListOK => SortedByPriority /\ ll \in Seq(Task) /\ prio \in [Task -> Prio]
                           /\ (\A i, j \in 1 .. Len(ll) : ll[i] = ll[j] => i = j)
  BY DEF SortedByPriority, ListOK, Distinct, Sorted

\* After _lv_task_core_init.
LEMMA InitTasks == Init => TaskInv
<1> SUFFICES ASSUME Init PROVE TaskInv
  OBVIOUS
<1>1. ll = <<>> /\ ll \in Seq(Task) /\ Len(ll) = 0 /\ 1 .. Len(ll) = {}
  BY DEF Init
<1>2. TypeOK
  <2>1. 0 \in Prio
    BY HighestAssumption DEF Prio, OFF
  <2>2. prio \in [Task -> Prio] /\ repeat_count \in [Task -> {-1, 1}]
    BY <2>1 DEF Init, OFF
  <2> QED BY <1>1, <2>2 DEF Init, TypeOK, Pointer
<1>3. SortedByPriority /\ HandlerPointersValid
  BY <1>1 DEF Init, SortedByPriority, HandlerPointersValid
<1> QED BY <1>2, <1>3 DEF TaskInv

\* lv_task_create and lv_async_call, between handler calls or in a callback.
LEMMA CreateFits ==
  ASSUME TaskInv, NEW t \in Task, NEW p \in Prio, NEW count \in {-1, 1},
         NEW isZero \in BOOLEAN, NEW isAsync \in BOOLEAN, isAsync => isZero,
         lv_task_create(t, p, count, isZero, isAsync), pc # "scan"
  PROVE  TaskInv'
<1>1. ListOK /\ Listed = Elems(ll)
  BY InvList DEF TaskInv
<1>2. PICK n \in 0 .. Len(ll) : Spot(ll, p, n) /\ ll' = InsertAfter(ll, n, t)
  BY DEF lv_task_create
<1>3. prio' = [prio EXCEPT ![t] = p] /\ t \notin Elems(ll)
  BY <1>1 DEF lv_task_create
<1>4. ListOK' /\ Elems(ll') = Elems(ll) \cup {t}
  BY <1>1, <1>2, <1>3, CreateKeepsList
<1>5. SortedByPriority' /\ (ll \in Seq(Task))' /\ (prio \in [Task -> Prio])'
      /\ (\A i, j \in 1 .. Len(ll) : ll[i] = ll[j] => i = j)'
  BY <1>4, ListInv, PTL
<1>6. Listed' = Listed \cup {t}
  BY <1>1, <1>4 DEF Listed, Elems
<1>7. TypeOK'
  BY <1>5 DEF TaskInv, TypeOK, lv_task_create, handler, Touch, InCallback
<1>8. HandlerPointersValid'
  BY <1>6 DEF TaskInv, HandlerPointersValid, lv_task_create, handler, InCallback, TypeOK
<1> QED BY <1>5, <1>7, <1>8 DEF TaskInv

\* lv_task_del, of the running task too.
LEMMA DeleteFits ==
  ASSUME TaskInv, NEW t \in Task, lv_task_del(t), pc # "scan"
  PROVE  TaskInv'
<1>1. ListOK /\ Listed = Elems(ll)
  BY InvList DEF TaskInv
<1>2. PICK k \in 1 .. Len(ll) : ll[k] = t /\ ll' = CutOut(ll, k)
  BY DEF lv_task_del, Unlink
<1>3. prio' = [prio EXCEPT ![t] = OFF]
  BY DEF lv_task_del, Unlink
<1>4. ListOK' /\ Elems(ll') = Elems(ll) \ {t}
  BY <1>1, <1>2, <1>3, UnlinkKeepsList
<1>5. SortedByPriority' /\ (ll \in Seq(Task))' /\ (prio \in [Task -> Prio])'
      /\ (\A i, j \in 1 .. Len(ll) : ll[i] = ll[j] => i = j)'
  BY <1>4, ListInv, PTL
<1>6. Listed' = Listed \ {t}
  BY <1>1, <1>4 DEF Listed, Elems
<1>7. TypeOK'
  BY <1>5 DEF TaskInv, TypeOK, lv_task_del, Unlink, handler, InCallback
<1>8. HandlerPointersValid'
  BY <1>6 DEF TaskInv, HandlerPointersValid, lv_task_del, handler, InCallback, TypeOK
<1> QED BY <1>5, <1>7, <1>8 DEF TaskInv

\* lv_task_set_prio, of the running task too.
LEMMA SetPrioFits ==
  ASSUME TaskInv, NEW t \in Task, NEW p \in Prio, lv_task_set_prio(t, p), pc # "scan"
  PROVE  TaskInv'
<1>1. ListOK /\ Listed = Elems(ll)
  BY InvList DEF TaskInv
<1>2. PICK k \in 1 .. Len(ll), n \in 0 .. Len(ll) - 1 :
        ll[k] = t /\ Spot(CutOut(ll, k), p, n) /\ ll' = InsertAfter(CutOut(ll, k), n, t)
  BY DEF lv_task_set_prio
<1>3. prio' = [prio EXCEPT ![t] = p]
  BY DEF lv_task_set_prio
<1>4. ListOK' /\ Elems(ll') = Elems(ll)
  BY <1>1, <1>2, <1>3, SetPrioKeepsList
<1>5. SortedByPriority' /\ (ll \in Seq(Task))' /\ (prio \in [Task -> Prio])'
      /\ (\A i, j \in 1 .. Len(ll) : ll[i] = ll[j] => i = j)'
  BY <1>4, ListInv, PTL
<1>6. Listed' = Listed
  BY <1>1, <1>4 DEF Listed, Elems
<1>7. TypeOK'
  BY <1>5 DEF TaskInv, TypeOK, lv_task_set_prio, handler, Touch, InCallback
<1>8. HandlerPointersValid'
  BY <1>6 DEF TaskInv, HandlerPointersValid, lv_task_set_prio, handler, InCallback, TypeOK
<1> QED BY <1>5, <1>7, <1>8 DEF TaskInv

\* A step that leaves the list and the priorities alone keeps them in order.
LEMMA SameList ==
  ASSUME TaskInv, UNCHANGED <<ll, prio>>
  PROVE  SortedByPriority' /\ Listed' = Listed
  BY DEF TaskInv, SortedByPriority, Listed

\* The first task and the next one are in the list.
LEMMA FirstListed == TypeOK => First(ll) \in Listed \cup {NULL}
<1> SUFFICES ASSUME TypeOK, ll # <<>> PROVE ll[1] \in Listed
  BY DEF First
<1>1. 1 \in 1 .. Len(ll)
  BY LenProperties, EmptySeq DEF TypeOK
<1> QED BY <1>1 DEF Listed

\* The nodes of the list are nodes.
LEMMA ListedTasks == TypeOK => Listed \subseteq Task
  BY ElementOfSeq DEF TypeOK, Listed

\* The saved next pointer is a node of the list.
LEMMA ActNext == TypeOK => NextOf(ll, act) \in Listed \cup {NULL}
  BY NextListed DEF TypeOK, Listed, Elems

\* No step of the script, the handler or a callback breaks the invariant.
LEMMA StepKeepsInv == TaskInv /\ [Next]_vars => TaskInv'
<1> SUFFICES ASSUME TaskInv, [Next]_vars PROVE TaskInv'
  OBVIOUS
<1>0. TypeOK /\ SortedByPriority /\ HandlerPointersValid /\ Listed \subseteq Task
      /\ First(ll) \in Listed \cup {NULL} /\ NextOf(ll, act) \in Listed \cup {NULL}
  BY FirstListed, ListedTasks, ActNext DEF TaskInv
<1>1. CASE Create
  <2>1. pc # "scan"
    BY <1>1 DEF Create, May
  <2>2. PICK t \in Task, p \in Prio :
          \/ \E count \in RepeatCounts, isZero \in BOOLEAN : lv_task_create(t, p, count, isZero, FALSE)
          \/ lv_task_create(t, HIGHEST, 1, TRUE, TRUE)
    BY <1>1 DEF Create
  <2>3. HIGHEST \in Prio
    BY HighestAssumption DEF Prio, OFF
  <2> QED BY <2>1, <2>2, <2>3, CreateFits, RepeatAssumption
<1>2. CASE Delete
  BY <1>2, DeleteFits DEF Delete, May
<1>3. CASE SetPrio
  BY <1>3, SetPrioFits DEF SetPrio, May
<1>4. CASE Retime
  <2>1. SortedByPriority' /\ Listed' = Listed
    BY <1>4, SameList DEF Retime, lv_task_ready, lv_task_reset, lv_task_set_period, Timed
  <2>2. PICK t \in Task \ async : Timed(t) /\ zero' \subseteq ready' /\ ready' \subseteq Task /\ async \subseteq zero'
    BY <1>0, <1>4 DEF Retime, lv_task_ready, lv_task_reset, lv_task_set_period, TypeOK
  <2>3. pc # "scan" /\ late' \subseteq Task
    BY <1>0, <1>4, <2>2 DEF Retime, May, Timed, Touch, TypeOK
  <2>4. TypeOK'
    BY <1>0, <2>2, <2>3 DEF Timed, flags, handler, TypeOK
  <2> QED BY <1>0, <2>1, <2>2, <2>3, <2>4 DEF Timed, flags, handler, TaskInv, HandlerPointersValid
<1>12. CASE Recount
  <2>1. SortedByPriority' /\ Listed' = Listed
    BY <1>12, SameList DEF Recount, lv_task_set_repeat_count
  <2>2. PICK t \in Task, count \in {-1, 1} : lv_task_set_repeat_count(t, count)
    BY <1>12, RepeatAssumption DEF Recount
  <2>3. TypeOK'
    BY <1>0, <2>2 DEF lv_task_set_repeat_count, history, flags, handler, TypeOK
  <2> QED BY <1>0, <2>1, <2>2, <2>3 DEF lv_task_set_repeat_count, history, flags, handler, TaskInv,
                                        HandlerPointersValid
<1>5. CASE Script
  <2>1. SortedByPriority' /\ Listed' = Listed
    BY <1>5, SameList DEF Script, lv_tick_inc, lv_task_enable, tasks
  <2> QED BY <1>0, <1>5, <2>1 DEF Script, lv_tick_inc, lv_task_enable, tasks, history, flags, handler,
                             TaskInv, TypeOK, HandlerPointersValid
<1>6. CASE lv_task_handler
  <2>1. SortedByPriority' /\ Listed' = Listed
    BY <1>6, SameList DEF lv_task_handler, tasks
  <2> QED BY <1>0, <1>6, <2>1 DEF lv_task_handler, StartPass, tasks, history, Pointer,
                             TaskInv, TypeOK, HandlerPointersValid
<1>7. CASE Scan
  <2>1. UNCHANGED <<ll, prio>>
    BY <1>7 DEF Scan, EndOfTasks, SkipInterrupter, PassBy, Exec, tasks
  <2>2. SortedByPriority' /\ Listed' = Listed
    BY <2>1, SameList
  <2>3. CASE EndOfTasks
    BY <1>0, <2>1, <2>2, <2>3 DEF EndOfTasks, Return, Leave, tasks, Pointer, TaskInv, TypeOK, HandlerPointersValid
  <2>4. CASE SkipInterrupter \/ PassBy
    BY <1>0, <2>1, <2>2, <2>4 DEF SkipInterrupter, PassBy, tasks, history, flags, handler, Pointer,
                                  TaskInv, TypeOK, HandlerPointersValid
  <2>5. CASE Exec
    BY <1>0, <2>1, <2>2, <2>5 DEF Exec, flags, Pointer, TaskInv, TypeOK, HandlerPointersValid
  <2> QED BY <1>7, <2>3, <2>4, <2>5 DEF Scan
<1>8. CASE CallbackEnds
  <2>1. CASE LastRun
    <3>1. ListOK /\ Listed = Elems(ll)
      BY InvList DEF TaskInv
    <3>2. PICK k \in 1 .. Len(ll) : ll[k] = act /\ ll' = CutOut(ll, k)
      BY <1>8, <2>1 DEF CallbackEnds, Unlink
    <3>3. prio' = [prio EXCEPT ![act] = OFF]
      BY <1>8, <2>1 DEF CallbackEnds, Unlink
    <3>4. act \in Task
      BY <1>0, <3>2 DEF Listed
    <3>5. ListOK'
      BY <3>1, <3>2, <3>3, <3>4, UnlinkKeepsList
    <3>6. SortedByPriority' /\ (ll \in Seq(Task))' /\ (prio \in [Task -> Prio])'
          /\ (\A i, j \in 1 .. Len(ll) : ll[i] = ll[j] => i = j)'
      BY <3>5, ListInv, PTL
    <3> QED BY <1>0, <1>8, <2>1, <3>6 DEF CallbackEnds, Unlink, Return, Leave, Pointer,
                                     TaskInv, TypeOK, HandlerPointersValid
  <2>2. CASE ~LastRun
    <3>1. SortedByPriority' /\ Listed' = Listed
      BY <1>8, <2>2, SameList DEF CallbackEnds, tasks
    <3> QED BY <1>0, <1>8, <2>2, <3>1 DEF CallbackEnds, Return, Leave, Pointer, tasks,
                                     TaskInv, TypeOK, HandlerPointersValid
  <2> QED BY <2>1, <2>2
<1>9. CASE CallbackInterrupts \/ CallbackContinues
  <2>1. SortedByPriority' /\ Listed' = Listed
    BY <1>9, SameList DEF CallbackInterrupts, CallbackContinues, tasks
  <2> QED BY <1>0, <1>9, <2>1 DEF CallbackInterrupts, CallbackContinues, StartPass, tasks, history, flags, Pointer,
                             TaskInv, TypeOK, HandlerPointersValid
<1>10. CASE Raise
  <2>1. SortedByPriority' /\ Listed' = Listed
    BY <1>10, SameList DEF Raise, tasks
  <2> QED BY <1>0, <1>10, <2>1 DEF Raise, Leave, tasks, Pointer, TaskInv, TypeOK, HandlerPointersValid
<1>11. CASE UNCHANGED vars
  <2>1. SortedByPriority' /\ Listed' = Listed
    BY <1>11, SameList DEF vars, tasks
  <2> QED BY <1>0, <1>11, <2>1 DEF vars, tasks, history, flags, handler, TaskInv, TypeOK, HandlerPointersValid
<1> QED BY <1>1, <1>2, <1>3, <1>4, <1>5, <1>6, <1>7, <1>8, <1>9, <1>10, <1>11, <1>12
        DEF Next, CallbackReturn

\* The inductive invariant holds in every reachable state.
LEMMA AlwaysInv == Spec => []TaskInv
  BY InitTasks, StepKeepsInv, PTL DEF Spec

\* The list of tasks stays ordered by priority under creation, deletion and
\* change of priority, in callbacks too (lv_task.c:203-301).
THEOREM ListSorted == Spec => []SortedByPriority
  BY AlwaysInv, PTL DEF TaskInv

\* The list of lv_ll.c has the listed nodes as its chain, without a cycle.
THEOREM TasksTyped == Spec => []TypeOK
  BY AlwaysInv, PTL DEF TaskInv

\* The handler never uses a node that a callback has freed or moved, whatever
\* callbacks do, and the list has no cycle (lv_task.c:65-182).
THEOREM HandlerSafe == Spec => [](TypeOK /\ HandlerPointersValid)
  BY AlwaysInv, PTL DEF TaskInv

-----------------------------------------------------------------------------
(* The order of the list, as a relation between its nodes.                 *)

\* Two tasks of the list are ordered one way or the other, the higher priority first.
LEMMA BeforeFacts ==
  ASSUME NEW s \in Seq(Task), NEW f \in [Task -> Nat], Sorted(s, f),
         NEW u \in Elems(s), NEW v \in Elems(s)
  PROVE  /\ u = v \/ Before(s, u, v) \/ Before(s, v, u)
         /\ Before(s, u, v) => f[u] >= f[v]
<1>1. PICK i \in 1 .. Len(s) : s[i] = u
  BY DEF Elems
<1>2. PICK j \in 1 .. Len(s) : s[j] = v
  BY DEF Elems
<1>3. i = j \/ i < j \/ j < i
  BY LenProperties
<1>4. u = v \/ Before(s, u, v) \/ Before(s, v, u)
  BY <1>1, <1>2, <1>3 DEF Before
<1>5. Before(s, u, v) => f[u] >= f[v]
  BY DEF Before, Sorted
<1> QED BY <1>4, <1>5

\* Only tasks of the list are before one another.
LEMMA BeforeListed ==
  ASSUME NEW s, NEW u, NEW v, Before(s, u, v)
  PROVE  u \in Elems(s) /\ v \in Elems(s)
  BY DEF Before, Elems

\* _lv_ll_get_head: nothing is before it, and it is before everything else.
LEMMA FirstBefore ==
  ASSUME NEW s \in Seq(Task), Distinct(s)
  PROVE  /\ First(s) = NULL => Elems(s) = {}
         /\ \A u : ~Before(s, u, First(s))
         /\ \A v \in Elems(s) : First(s) # NULL /\ (First(s) = v \/ Before(s, First(s), v))
<1>1. CASE s = <<>>
  <2>1. 1 .. Len(s) = {}
    BY <1>1
  <2> QED BY <1>1, <2>1 DEF First, Elems, Before
<1>2. CASE s # <<>>
  <2>1. Len(s) \in Nat /\ 1 \in 1 .. Len(s) /\ First(s) = s[1] /\ s[1] \in Task
    BY <1>2, LenProperties, EmptySeq, ElementOfSeq DEF First
  <2>2. First(s) # NULL
    BY <2>1, NullAssumption
  <2>3. ASSUME NEW u, Before(s, u, First(s)) PROVE FALSE
    <3>1. PICK i, j \in 1 .. Len(s) : i < j /\ s[i] = u /\ s[j] = s[1]
      BY <2>1, <2>3 DEF Before
    <3>2. j = 1
      BY <2>1, <3>1 DEF Distinct
    <3> QED BY <2>1, <3>1, <3>2
  <2>4. ASSUME NEW v \in Elems(s) PROVE First(s) = v \/ Before(s, First(s), v)
    <3>1. PICK j \in 1 .. Len(s) : s[j] = v
      BY DEF Elems
    <3>2. CASE j = 1
      BY <2>1, <3>1, <3>2
    <3>3. CASE 1 < j
      BY <2>1, <3>1, <3>3 DEF Before
    <3> QED BY <2>1, <3>2, <3>3
  <2> QED BY <2>2, <2>3, <2>4
<1> QED BY <1>1, <1>2

\* _lv_ll_get_next: exactly t has been passed by on the way from t to it.
LEMMA NextBefore ==
  ASSUME NEW s \in Seq(Task), Distinct(s), NEW t \in Elems(s)
  PROVE  /\ NextOf(s, t) = NULL => \A u \in Elems(s) : u = t \/ Before(s, u, t)
         /\ NextOf(s, t) # NULL => \A u : Before(s, u, NextOf(s, t)) => u = t \/ Before(s, u, t)
         /\ \A v : Before(s, t, v) =>
              NextOf(s, t) # NULL /\ (NextOf(s, t) = v \/ Before(s, NextOf(s, t), v))
<1>1. Len(s) \in Nat /\ \A i \in 1 .. Len(s) : s[i] \in Task /\ s[i] # NULL
  BY LenProperties, ElementOfSeq, NullAssumption
<1>2. PICK k \in 1 .. Len(s) : s[k] = t
  BY DEF Elems
<1>3. ASSUME NEW i \in 1 .. Len(s), s[i] = t PROVE i = k
  BY <1>2, <1>3 DEF Distinct
<1>4. CASE k < Len(s)
  <2>1. k \in 1 .. Len(s) - 1 /\ k + 1 \in 1 .. Len(s)
    BY <1>1, <1>4
  <2>2. NextOf(s, t) = s[k + 1]
    <3> DEFINE c == CHOOSE i \in 1 .. Len(s) - 1 : s[i] = t
    <3>1. c \in 1 .. Len(s) - 1 /\ s[c] = t
      BY <1>2, <2>1
    <3>2. NextOf(s, t) = s[1 + c]
      BY <1>2, <2>1 DEF NextOf
    <3> HIDE DEF c
    <3>3. c = k
      BY <1>1, <1>3, <3>1
    <3> QED BY <1>1, <2>1, <3>2, <3>3
  <2>3. NextOf(s, t) # NULL
    BY <1>1, <2>1, <2>2
  <2>4. ASSUME NEW u, Before(s, u, NextOf(s, t)) PROVE u = t \/ Before(s, u, t)
    <3>1. PICK i, j \in 1 .. Len(s) : i < j /\ s[i] = u /\ s[j] = s[k + 1]
      BY <2>2, <2>4 DEF Before
    <3>2. j = k + 1
      BY <2>1, <3>1 DEF Distinct
    <3>3. i = k \/ i < k
      BY <1>1, <3>1, <3>2
    <3> QED BY <1>2, <3>1, <3>3 DEF Before
  <2>5. ASSUME NEW v, Before(s, t, v) PROVE NextOf(s, t) = v \/ Before(s, NextOf(s, t), v)
    <3>1. PICK i, j \in 1 .. Len(s) : i < j /\ s[i] = t /\ s[j] = v
      BY <2>5 DEF Before
    <3>2. i = k
      BY <1>3, <3>1
    <3>3. j = k + 1 \/ k + 1 < j
      BY <1>1, <3>1, <3>2
    <3> QED BY <2>1, <2>2, <3>1, <3>3 DEF Before
  <2> QED BY <2>3, <2>4, <2>5
<1>5. CASE k = Len(s)
  <2>1. ASSUME NEW i \in 1 .. Len(s) - 1 PROVE s[i] # t
    BY <1>1, <1>3, <1>5, <2>1
  <2>2. NextOf(s, t) = NULL
    BY <2>1 DEF NextOf
  <2>3. ASSUME NEW u \in Elems(s) PROVE u = t \/ Before(s, u, t)
    <3>1. PICK i \in 1 .. Len(s) : s[i] = u
      BY DEF Elems
    <3>2. i = k \/ i < k
      BY <1>1, <1>5
    <3> QED BY <1>2, <3>1, <3>2 DEF Before
  <2>4. ASSUME NEW v, Before(s, t, v) PROVE FALSE
    <3>1. PICK i, j \in 1 .. Len(s) : i < j /\ s[i] = t /\ s[j] = v
      BY <2>4 DEF Before
    <3>2. i = k
      BY <1>3, <3>1
    <3> QED BY <1>1, <1>5, <3>1, <3>2
  <2> QED BY <2>2, <2>3, <2>4
<1> QED BY <1>1, <1>4, <1>5

\* The nodes that stay keep their order when one is taken out.
LEMMA CutOutOrder ==
  ASSUME NEW s \in Seq(Task), NEW k \in 1 .. Len(s), NEW u, NEW v,
         Before(CutOut(s, k), u, v)
  PROVE  Before(s, u, v)
<1> DEFINE r == CutOut(s, k)
<1>1. Len(s) \in Nat /\ \A i \in 1 .. Len(s) : s[i] \in Task
  BY LenProperties, ElementOfSeq
<1>2. /\ \A i \in 1 .. Len(s) - 1 : r[i] = IF i < k THEN s[i] ELSE s[i + 1]
      /\ r \in [1 .. (Len(s) - 1) -> Task]
  BY <1>1 DEF CutOut
<1>3. Len(r) = Len(s) - 1
  <2>1. Len(s) - 1 \in Nat
    BY <1>1
  <2> QED BY <1>2, <2>1, SeqDef, LenProperties
<1>4. PICK i, j \in 1 .. Len(r) : i < j /\ r[i] = u /\ r[j] = v
  BY DEF Before
<1> HIDE DEF r
<1> DEFINE at(m) == IF m < k THEN m ELSE m + 1
<1>5. /\ at(i) \in 1 .. Len(s) /\ at(j) \in 1 .. Len(s) /\ at(i) < at(j)
      /\ r[i] = s[at(i)] /\ r[j] = s[at(j)]
  BY <1>1, <1>2, <1>3, <1>4
<1> HIDE DEF at
<1> QED BY <1>4, <1>5 DEF Before

\* They keep it when one is put in, and before the new one are the first n.
LEMMA InsertOrder ==
  ASSUME NEW s \in Seq(Task), NEW n \in 0 .. Len(s), NEW t \in Task, t \notin Elems(s),
         NEW u, NEW v, Before(InsertAfter(s, n, t), u, v)
  PROVE  /\ u # t /\ v # t => Before(s, u, v)
         /\ v = t => \E i \in 1 .. n : s[i] = u
<1> DEFINE r == InsertAfter(s, n, t)
<1>1. Len(s) \in Nat /\ \A i \in 1 .. Len(s) : s[i] \in Task /\ s[i] # t
  BY LenProperties, ElementOfSeq DEF Elems
<1>2. /\ \A i \in 1 .. Len(s) + 1 :
            r[i] = IF i <= n THEN s[i] ELSE IF i = n + 1 THEN t ELSE s[i - 1]
      /\ r \in [1 .. (Len(s) + 1) -> Task]
  BY <1>1 DEF InsertAfter
<1>3. Len(r) = Len(s) + 1
  <2>1. Len(s) + 1 \in Nat
    BY <1>1
  <2> QED BY <1>2, <2>1, SeqDef, LenProperties
<1>4. PICK i, j \in 1 .. Len(r) : i < j /\ r[i] = u /\ r[j] = v
  BY DEF Before
<1> HIDE DEF r
<1>5. ASSUME u # t, v # t PROVE Before(s, u, v)
  <2> DEFINE at(m) == IF m <= n THEN m ELSE m - 1
  <2>1. i # n + 1 /\ j # n + 1
    BY <1>1, <1>2, <1>3, <1>4, <1>5
  <2>2. /\ at(i) \in 1 .. Len(s) /\ at(j) \in 1 .. Len(s) /\ at(i) < at(j)
        /\ r[i] = s[at(i)] /\ r[j] = s[at(j)]
    BY <1>1, <1>2, <1>3, <1>4, <2>1
  <2> HIDE DEF at
  <2> QED BY <1>4, <2>2 DEF Before
<1>6. ASSUME v = t PROVE \E m \in 1 .. n : s[m] = u
  <2>1. j <= n => j \in 1 .. Len(s) /\ r[j] = s[j]
    BY <1>1, <1>2, <1>3
  <2>2. j > n + 1 => j - 1 \in 1 .. Len(s) /\ r[j] = s[j - 1]
    BY <1>1, <1>2, <1>3
  <2>3. j = n + 1
    BY <1>1, <1>3, <1>4, <1>6, <2>1, <2>2
  <2>4. i \in 1 .. n /\ r[i] = s[i]
    BY <1>1, <1>2, <1>3, <1>4, <2>3
  <2> QED BY <1>4, <2>4
<1> QED BY <1>5, <1>6

-----------------------------------------------------------------------------
(* What a pass of the handler has served.                                  *)

\* lv_task_del takes its node out, and leaves the order and the values of the others.
LEMMA UnlinkListed ==
  ASSUME TaskInv, NEW t \in Task, Unlink(t)
  PROVE  /\ Listed' = Listed \ {t}
         /\ \A u, v : Before(ll', u, v) => Before(ll, u, v)
         /\ \A u \in Task : u # t => prio'[u] = prio[u] /\ repeat_count'[u] = repeat_count[u]
<1>1. ListOK /\ Listed = Elems(ll)
  BY InvList DEF TaskInv
<1>2. PICK k \in 1 .. Len(ll) : ll[k] = t /\ ll' = CutOut(ll, k)
  BY DEF Unlink
<1>3. ListOK' /\ Elems(ll') = Elems(ll) \ {t}
  BY <1>1, <1>2, UnlinkKeepsList DEF Unlink
<1>4. Listed' = Listed \ {t}
  BY <1>1, <1>3 DEF Listed, Elems
<1>5. \A u, v : Before(ll', u, v) => Before(ll, u, v)
  BY <1>1, <1>2, CutOutOrder DEF ListOK
<1>6. \A u \in Task : u # t => prio'[u] = prio[u] /\ repeat_count'[u] = repeat_count[u]
  BY DEF Unlink, TaskInv, TypeOK
<1> QED BY <1>4, <1>5, <1>6

\* lv_task_set_prio: the others keep their order, and before the moved task is only
\* what has a higher priority than its new one.
LEMMA SetPrioListed ==
  ASSUME TaskInv, NEW t \in Task, NEW p \in Prio, lv_task_set_prio(t, p)
  PROVE  /\ Listed' = Listed
         /\ \A u, v : u # t /\ v # t /\ Before(ll', u, v) => Before(ll, u, v)
         /\ \A u : Before(ll', u, t) => u # t /\ u \in Listed /\ prio[u] > p
         /\ prio'[t] = p /\ \A u \in Task : u # t => prio'[u] = prio[u]
<1>1. ListOK /\ Listed = Elems(ll)
  BY InvList DEF TaskInv
<1>2. PICK k \in 1 .. Len(ll), n \in 0 .. Len(ll) - 1 :
        ll[k] = t /\ Spot(CutOut(ll, k), p, n) /\ ll' = InsertAfter(CutOut(ll, k), n, t)
  BY DEF lv_task_set_prio
<1>3. prio' = [prio EXCEPT ![t] = p]
  BY DEF lv_task_set_prio
<1>4. Elems(ll') = Elems(ll)
  BY <1>1, <1>2, <1>3, SetPrioKeepsList
<1> DEFINE o == CutOut(ll, k)
<1>5. o \in Seq(Task) /\ Elems(o) = Elems(ll) \ {t} /\ Len(o) = Len(ll) - 1
  BY <1>1, <1>2, CutOutFacts DEF ListOK
<1>6. \A u, v : Before(o, u, v) => Before(ll, u, v)
  BY <1>1, <1>2, CutOutOrder DEF ListOK
<1>7. Spot(o, p, n) /\ ll' = InsertAfter(o, n, t) /\ n \in 0 .. Len(o) /\ t \notin Elems(o)
  BY <1>2, <1>5
<1> HIDE DEF o
<1>8. ASSUME NEW u, NEW v, u # t, v # t, Before(ll', u, v) PROVE Before(ll, u, v)
  BY <1>5, <1>6, <1>7, <1>8, InsertOrder
<1>9. ASSUME NEW u, Before(ll', u, t) PROVE u # t /\ u \in Listed /\ prio[u] > p
  <2>1. PICK i \in 1 .. n : o[i] = u
    BY <1>5, <1>7, <1>9, InsertOrder
  <2>2. i \in 1 .. Len(o)
    BY <1>5, <1>7, LenProperties
  <2>3. u \in Elems(o)
    BY <2>1, <2>2 DEF Elems
  <2> QED BY <1>1, <1>5, <1>7, <2>1, <2>3 DEF Spot
<1>10. Listed' = Listed
  BY <1>1, <1>4 DEF Listed, Elems
<1>11. prio'[t] = p /\ \A u \in Task : u # t => prio'[u] = prio[u]
  BY <1>3 DEF TaskInv, TypeOK
<1> QED BY <1>8, <1>9, <1>10, <1>11

\* A mark stays one while the list is left alone and nothing becomes due unnoticed.
LEMMA MarkStays ==
  ASSUME UNCHANGED <<ll, prio>>, \A t \in Listed : Served(t) => Served(t)',
         NEW u \in Listed, Mark(u)
  PROVE  /\ Served(u)'
         /\ \A t \in Listed' : Before(ll', t, u) /\ prio'[t] <= prio'[u] => Served(t)'
  BY DEF Mark, Listed

\* The start of a pass: nothing has been passed by, and the task that was run last is
\* in the list, so ahead.
LEMMA StartServes ==
  ASSUME TaskInv, StartPass, UNCHANGED <<ll, prio, ready, zero, history>>,
         task_interrupter' # NULL => task_interrupter' \in Listed /\ Mark(task_interrupter')
  PROVE  PassServes'
<1>1. ListOK /\ Listed = Elems(ll) /\ Listed' = Listed
  BY InvList, SameList DEF TaskInv
<1>2. act' = First(ll)
  BY DEF StartPass
<1>3. \A t \in Listed : Served(t) => Served(t)'
  BY DEF Served, history
<1>4. \A t \in Listed' : ~(act' = NULL \/ Before(ll', t, act'))
  BY <1>1, <1>2, FirstBefore DEF ListOK
<1>5. ASSUME task_interrupter' # NULL
      PROVE  /\ act' # NULL
             /\ act' = task_interrupter' \/ Before(ll', act', task_interrupter')
             /\ Mark(task_interrupter)'
  <2>1. act' # NULL /\ (act' = task_interrupter' \/ Before(ll', act', task_interrupter'))
    BY <1>1, <1>2, <1>5, FirstBefore DEF ListOK
  <2>2. Mark(task_interrupter)'
    BY <1>3, <1>5, MarkStays DEF Mark
  <2> QED BY <2>1, <2>2
<1> QED BY <1>4, <1>5 DEF PassServes

\* The walk: going on to the next task adds the one just left to those passed by.
LEMMA WalkServes ==
  ASSUME TaskInv, UNCHANGED <<ll, prio, ready, zero, history>>, act \in Listed, act' = NextOf(ll, act),
         \A t \in Listed : t = act \/ Before(ll, t, act) => Served(t),
         task_interrupter' # NULL =>
           /\ task_interrupter' \in Listed /\ Mark(task_interrupter')
           /\ Before(ll, act, task_interrupter')
  PROVE  PassServes'
<1>1. ListOK /\ Listed = Elems(ll) /\ Listed' = Listed
  BY InvList, SameList DEF TaskInv
<1>2. \A t \in Listed : Served(t) => Served(t)'
  BY DEF Served, history
<1>3. ASSUME NEW t \in Listed', act' = NULL \/ Before(ll', t, act') PROVE Served(t)'
  <2>1. t = act \/ Before(ll, t, act)
    BY <1>1, <1>3, NextBefore DEF ListOK
  <2> QED BY <1>1, <1>2, <2>1
<1>4. ASSUME task_interrupter' # NULL
      PROVE  /\ act' # NULL
             /\ act' = task_interrupter' \/ Before(ll', act', task_interrupter')
             /\ Mark(task_interrupter)'
  <2>1. act' # NULL /\ (act' = task_interrupter' \/ Before(ll', act', task_interrupter'))
    BY <1>1, <1>4, NextBefore DEF ListOK
  <2>2. Mark(task_interrupter)'
    BY <1>2, <1>4, MarkStays DEF Mark
  <2> QED BY <2>1, <2>2
<1> QED BY <1>3, <1>4 DEF PassServes

\* The handler's own steps while it walks the list.
LEMMA ScanServes ==
  ASSUME TaskInv, ServeInv, SkipInterrupter \/ PassBy \/ Exec
  PROVE  (pc = "scan" => PassServes)' /\ (Ongoing => CallbackServes)'
<1>1. /\ pc = "scan" /\ act \in Listed /\ act \in Task /\ PassServes
      /\ task_interrupter \in Listed \cup {NULL}
  BY ListedTasks DEF SkipInterrupter, PassBy, Exec, ServeInv, TaskInv, HandlerPointersValid
<1>2. \A t \in Listed : Before(ll, t, act) => Served(t)
  BY <1>1 DEF PassServes
<1>3. CASE SkipInterrupter
  <2>1. /\ UNCHANGED <<ll, prio, ready, zero, history>> /\ act' = NextOf(ll, act)
        /\ task_interrupter' = NULL /\ pc' = "scan"
    BY <1>1, <1>3 DEF SkipInterrupter, tasks
  <2>2. Served(act)
    BY <1>1, <1>3 DEF SkipInterrupter, PassServes, Mark
  <2>3. PassServes'
    BY <1>1, <1>2, <2>1, <2>2, WalkServes
  <2> QED BY <2>1, <2>3 DEF Ongoing
<1>4. CASE PassBy
  <2>1. /\ UNCHANGED <<ll, prio, ready, zero, history>> /\ act' = NextOf(ll, act)
        /\ task_interrupter' = task_interrupter /\ pc' = "scan" /\ act # task_interrupter
    BY <1>1, <1>4 DEF PassBy, tasks, handler
  <2>2. task_interrupter # NULL => Mark(task_interrupter) /\ Before(ll, act, task_interrupter)
    BY <1>1, <2>1 DEF PassServes
  <2>3. Served(act)
    <3>1. CASE ToExec
      BY <1>4, <3>1 DEF PassBy, Served
    <3>2. CASE ~ToExec
      <4>1. task_interrupter # NULL /\ ~(prio[act] > prio[task_interrupter])
        BY <3>2 DEF ToExec
      <4>2. prio[act] \in Nat /\ prio[task_interrupter] \in Nat
        BY <1>1, <4>1, PrioNat, ListedTasks DEF TaskInv, TypeOK
      <4>3. prio[act] <= prio[task_interrupter]
        BY <4>1, <4>2
      <4> QED BY <1>1, <2>2, <4>1, <4>3 DEF Mark
    <3> QED BY <3>1, <3>2
  <2>4. PassServes'
    BY <1>1, <1>2, <2>1, <2>2, <2>3, WalkServes
  <2> QED BY <2>1, <2>4 DEF Ongoing
<1>5. CASE Exec
  <2>1. /\ UNCHANGED <<ll, prio, zero, repeat_count, act, task_interrupter>> /\ pc' = "callback"
        /\ ready' = (IF act \in zero THEN ready ELSE ready \ {act}) /\ act # task_interrupter
        /\ ran' = ran \cup {act} /\ late' = late \ {act}
    BY <1>5 DEF Exec
  <2>2. Listed' = Listed
    BY <2>1, SameList
  <2>3. \A t \in Listed : Served(t) => Served(t)'
    BY <2>1 DEF Served
  <2>4. CallbackServes'
    <3>2. Served(act)'
      BY <2>1 DEF Served
    <3>3. \A t \in Listed' : t = act \/ Before(ll', t, act') => Served(t)'
      BY <1>2, <2>1, <2>2, <2>3, <3>2
    <3>4. Mark(act)'
      BY <2>1, <3>2, <3>3 DEF Mark
    <3>5. ASSUME task_interrupter' # NULL
          PROVE  Before(ll', act', task_interrupter') /\ Mark(task_interrupter)'
      <4>1. Mark(task_interrupter) /\ Before(ll, act, task_interrupter)
        BY <1>1, <2>1, <3>5 DEF PassServes
      <4>2. Mark(task_interrupter)'
        BY <1>1, <2>1, <2>3, <3>5, <4>1, MarkStays DEF Mark
      <4> QED BY <2>1, <4>1, <4>2
    <3> QED BY <2>1, <3>3, <3>4, <3>5 DEF CallbackServes
  <2> QED BY <2>1, <2>4
<1> QED BY <1>3, <1>4, <1>5

\* What a callback may do to the tasks.
LEMMA CallbackOpServes ==
  ASSUME TaskInv, ServeInv, Create \/ Delete \/ SetPrio \/ Retime
  PROVE  (pc = "scan" => PassServes)' /\ (Ongoing => CallbackServes)'
<1>1. pc' = pc /\ pc # "scan"
  BY DEF Create, Delete, SetPrio, Retime, May, lv_task_create, lv_task_del, lv_task_set_prio,
         lv_task_ready, lv_task_reset, lv_task_set_period, Timed
<1> SUFFICES ASSUME Ongoing' PROVE CallbackServes'
  BY <1>1
<1>2. InCallback /\ pc = "callback" /\ UNCHANGED <<act, branch, task_interrupter>>
  BY <1>1 DEF Ongoing, InCallback, Create, Delete, SetPrio, Retime, lv_task_create, lv_task_del,
              lv_task_set_prio, lv_task_ready, lv_task_reset, lv_task_set_period, Timed, handler
<1>3. ~Create
  BY <1>2 DEF Create, lv_task_create, Ongoing
<1>4. CASE Retime
  <2>1. /\ UNCHANGED <<ll, prio, repeat_count, task_deleted, task_created, task_list_changed>>
        /\ \A u : Served(u) => Served(u)'
    <3>1. PICK t \in Task : /\ Timed(t)
                            /\ \A u : u # t => (u \in ready' <=> u \in ready) /\ (u \in zero' <=> u \in zero)
      BY <1>4 DEF Retime, lv_task_ready, lv_task_reset, lv_task_set_period
    <3>2. /\ ran' = ran /\ t \in ready' => t \in late'
          /\ \A u : u # t => (u \in late' <=> u \in late)
      BY <1>2, <3>1 DEF Timed, Touch
    <3> QED BY <3>1, <3>2 DEF Timed, Served, flags
  <2>2. CallbackServes
    BY <1>2, <2>1 DEF Ongoing, ServeInv
  <2>3. Listed' = Listed /\ \A t \in Listed : Served(t) => Served(t)'
    BY <2>1, SameList
  <2>4. ASSUME NEW u \in Listed, Mark(u)
        PROVE  /\ Served(u)'
               /\ \A t \in Listed' : Before(ll', t, u) /\ prio'[t] <= prio'[u] => Served(t)'
    BY <2>1, <2>3, <2>4, MarkStays
  <2>5. act \in Listed
    BY <1>2, <2>1 DEF Ongoing, TaskInv, HandlerPointersValid
  <2>6. ASSUME branch' = "other" PROVE Mark(act)'
    BY <1>2, <2>2, <2>4, <2>5, <2>6 DEF CallbackServes, Mark
  <2>7. ASSUME branch' # "other", ~task_list_changed'
        PROVE  /\ \A t \in Listed' : t = act' \/ Before(ll', t, act') => Served(t)'
               /\ task_interrupter' # NULL =>
                    Before(ll', act', task_interrupter') /\ Mark(task_interrupter)'
    <3>1. task_interrupter \in Listed \cup {NULL}
      BY <1>2, <2>1, <2>7 DEF TaskInv, HandlerPointersValid
    <3> QED BY <1>2, <2>1, <2>2, <2>3, <2>4, <2>7, <3>1 DEF CallbackServes, Mark
  <2> QED BY <2>6, <2>7 DEF CallbackServes
<1>5. CASE Delete
  <2>1. PICK t \in Task : lv_task_del(t)
    BY <1>5 DEF Delete
  <2>2. /\ task_list_changed' /\ Unlink(t) /\ act # t
        /\ ~task_deleted /\ task_created' = task_created /\ late' = late \ {t} /\ ready' = ready \ {t}
        /\ zero' = zero \ {t} /\ ran' = ran \ {t}
    BY <1>2, <2>1 DEF lv_task_del, Unlink, Ongoing
  <2>3. act \in Listed /\ act \in Task /\ Listed \subseteq Task
    BY <1>2, <2>2, ListedTasks DEF TaskInv, HandlerPointersValid
  <2>4. /\ Listed' = Listed \ {t}
        /\ \A u, v : Before(ll', u, v) => Before(ll, u, v)
        /\ \A u \in Task : u # t => prio'[u] = prio[u] /\ repeat_count'[u] = repeat_count[u]
    BY <2>2, UnlinkListed
  <2>5. Ongoing
    BY <1>2, <2>2, <2>3, <2>4 DEF Ongoing
  <2>6. ASSUME branch' = "other" PROVE Mark(act)'
    <3>1. Mark(act)
      BY <1>2, <2>5, <2>6 DEF ServeInv, CallbackServes
    <3>2. \A u : Served(u) => Served(u)'
      BY <2>2 DEF Served
    <3>3. ASSUME NEW u \in Listed', Before(ll', u, act), prio'[u] <= prio'[act]
          PROVE  Served(u)'
      <4>1. u \in Listed /\ u \in Task /\ u # t /\ Before(ll, u, act)
        BY <2>3, <2>4, <3>3
      <4>2. prio[u] <= prio[act]
        BY <2>2, <2>3, <2>4, <3>3, <4>1
      <4> QED BY <3>1, <3>2, <4>1, <4>2 DEF Mark
    <3>4. Served(act)'
      BY <1>2, <3>1, <3>2 DEF Mark
    <3> QED BY <1>2, <3>3, <3>4 DEF Mark
  <2> QED BY <2>2, <2>6 DEF CallbackServes
<1>6. CASE SetPrio
  <2>1. PICK t \in Task, p \in Prio : lv_task_set_prio(t, p)
    BY <1>6 DEF SetPrio
  <2>2. /\ task_list_changed' /\ UNCHANGED <<repeat_count, task_deleted, task_created, ready>>
        /\ UNCHANGED <<zero, ran>> /\ (t \in ready' => t \in late') /\ late \ {t} \subseteq late'
    BY <1>2, <2>1 DEF lv_task_set_prio, Touch
  <2>3. Ongoing /\ act \in Listed /\ act \in Task /\ Listed \subseteq Task
    BY <1>2, <2>2, ListedTasks DEF Ongoing, TaskInv, HandlerPointersValid
  <2>4. /\ Listed' = Listed
        /\ \A u, v : u # t /\ v # t /\ Before(ll', u, v) => Before(ll, u, v)
        /\ \A u : Before(ll', u, t) => u # t /\ u \in Listed /\ prio[u] > p
        /\ prio'[t] = p /\ \A u \in Task : u # t => prio'[u] = prio[u]
    BY <2>1, SetPrioListed
  <2>5. Served(t)' /\ \A u : Served(u) => Served(u)'
    BY <2>2 DEF Served
  <2>6. ASSUME branch' = "other" PROVE Mark(act)'
    <3>1. Mark(act)
      BY <1>2, <2>3, <2>6 DEF ServeInv, CallbackServes
    <3>2. ASSUME NEW u \in Listed', Before(ll', u, act), prio'[u] <= prio'[act]
          PROVE  Served(u)'
      <4>1. CASE u = t
        BY <2>5, <4>1
      <4>2. CASE u # t /\ act # t
        <5>1. Before(ll, u, act) /\ u \in Listed /\ u \in Task
          BY <2>3, <2>4, <3>2, <4>2
        <5>2. prio[u] <= prio[act]
          BY <2>3, <2>4, <3>2, <4>2, <5>1
        <5> QED BY <2>5, <3>1, <5>1, <5>2 DEF Mark
      <4>3. CASE u # t /\ act = t
        <5>1. prio[u] > p /\ u \in Task
          BY <2>3, <2>4, <3>2, <4>3
        <5>2. prio[u] <= p
          BY <2>3, <2>4, <3>2, <4>3, <5>1
        <5>3. prio[u] \in Nat /\ p \in Nat
          BY <5>1, PrioNat, HighestAssumption DEF TaskInv, TypeOK, Prio, OFF
        <5> QED BY <5>1, <5>2, <5>3
      <4> QED BY <4>1, <4>2, <4>3
    <3>3. Served(act)'
      BY <1>2, <2>5, <3>1 DEF Mark
    <3> QED BY <1>2, <3>2, <3>3 DEF Mark
  <2> QED BY <2>2, <2>6 DEF CallbackServes
<1> QED BY <1>3, <1>4, <1>5, <1>6

\* The handler goes on after a callback.
LEMMA ReturnServes ==
  ASSUME TaskInv, ServeInv, CallbackInterrupts \/ CallbackContinues
  PROVE  pc' = "scan" /\ PassServes'
<1>1. /\ Ongoing /\ CallbackServes /\ UNCHANGED <<ll, prio, ready, zero, history>> /\ act \in Listed
      /\ ~task_deleted /\ pc = "callback"
  BY DEF CallbackInterrupts, CallbackContinues, Ongoing, ServeInv, tasks, TaskInv,
         HandlerPointersValid
<1>2. CASE CallbackInterrupts
  <2>1. StartPass /\ task_interrupter' = act /\ Mark(act)
    BY <1>1, <1>2 DEF CallbackInterrupts, CallbackServes
  <2>2. PassServes'
    BY <1>1, <2>1, StartServes
  <2> QED BY <2>1, <2>2 DEF StartPass
<1>3. CASE CallbackContinues /\ task_list_changed
  <2>1. StartPass /\ task_interrupter' = NULL
    BY <1>3 DEF CallbackContinues
  <2>2. PassServes'
    BY <1>1, <2>1, StartServes
  <2> QED BY <2>1, <2>2 DEF StartPass
<1>4. CASE CallbackContinues /\ ~task_list_changed
  <2>1. act' = next /\ task_interrupter' = task_interrupter /\ pc' = "scan" /\ branch # "other"
    BY <1>4 DEF CallbackContinues
  <2>2. next = NextOf(ll, act) /\ task_interrupter \in Listed \cup {NULL}
    BY <1>1, <1>4 DEF TaskInv, HandlerPointersValid
  <2>3. /\ \A t \in Listed : t = act \/ Before(ll, t, act) => Served(t)
        /\ task_interrupter # NULL =>
             Before(ll, act, task_interrupter) /\ Mark(task_interrupter)
    BY <1>1, <1>4, <2>1 DEF CallbackServes
  <2>4. PassServes'
    BY <1>1, <2>1, <2>2, <2>3, WalkServes
  <2> QED BY <2>1, <2>4
<1> QED BY <1>2, <1>3, <1>4

\* No step of the handler, of a callback or of the script loses a task that is due.
LEMMA ServeStep ==
  ASSUME TaskInv, ServeInv, [Next]_vars
  PROVE  ServeInv'
<1>2. CASE Create \/ Delete \/ SetPrio \/ Retime
  BY <1>2, CallbackOpServes DEF ServeInv
<1>3. CASE SkipInterrupter \/ PassBy \/ Exec
  BY <1>3, ScanServes DEF ServeInv
<1>4. CASE CallbackInterrupts \/ CallbackContinues
  BY <1>4, ReturnServes DEF ServeInv, Ongoing
<1>5. CASE lv_task_handler
  <2>1. StartPass /\ UNCHANGED <<ll, prio, ready, zero, history>> /\ task_interrupter' = NULL
    BY <1>5 DEF lv_task_handler, tasks
  <2>2. PassServes'
    BY <2>1, StartServes
  <2> QED BY <2>1, <2>2 DEF StartPass, ServeInv, Ongoing
<1>6. CASE pc' = "script"
  BY <1>6 DEF ServeInv, Ongoing
<1>7. Script \/ EndOfTasks \/ CallbackEnds \/ Raise => pc' = "script"
  BY DEF Script, lv_tick_inc, lv_task_enable, EndOfTasks, CallbackEnds, Raise, Return, Leave
<1>8. CASE UNCHANGED vars
  BY <1>8 DEF vars, tasks, history, flags, handler, ServeInv, PassServes, Ongoing,
              CallbackServes, Mark, Served, Listed
<1>9. CASE Recount
  BY <1>9 DEF Recount, lv_task_set_repeat_count, history, flags, handler, ServeInv, PassServes,
              Ongoing, CallbackServes, Mark, Served, Listed
<1> QED BY <1>2, <1>3, <1>4, <1>5, <1>6, <1>7, <1>8, <1>9 DEF Next, Scan, CallbackReturn

\* When a call of lv_task_handler ends because the list does, every task that is on
\* and due was made so or moved by a callback of the call, for any number of tasks and
\* priorities and any callbacks, although each lower task that runs restarts the scan
\* and the handler then runs only what is higher than or behind it (lv_task.c:84-167).
THEOREM AllDueServed == Spec => ServesAllDue
<1>1. Init => ServeInv
  BY DEF Init, ServeInv, Ongoing
<1>2. TaskInv /\ ServeInv /\ [Next]_vars => ServeInv'
  BY ServeStep
<1>3. ASSUME TaskInv, ServeInv, [Next]_vars, pc = "scan", pc' = "script",
             NEW t \in Listed', prio'[t] # OFF, t \in ready'
      PROVE  t \in late \/ t \in zero \cap ran
  <2>1. EndOfTasks
    <3>1. ~Script /\ ~Create /\ ~Delete /\ ~SetPrio /\ ~Retime /\ ~Recount
      BY <1>3 DEF Script, lv_tick_inc, lv_task_enable, Create, Delete, SetPrio, Retime, Recount, May
    <3>2. ~lv_task_handler /\ ~CallbackReturn /\ ~Raise
      BY <1>3 DEF lv_task_handler, CallbackReturn, CallbackEnds, CallbackInterrupts,
                  CallbackContinues, Raise
    <3>3. ~SkipInterrupter /\ ~PassBy /\ ~Exec /\ ~UNCHANGED vars
      BY <1>3 DEF SkipInterrupter, PassBy, Exec, vars
    <3> QED BY <1>3, <3>1, <3>2, <3>3 DEF Next, Scan
  <2>2. UNCHANGED <<ll, prio, ready>> /\ (act # NULL => prio[act] = OFF)
    BY <2>1 DEF EndOfTasks, tasks
  <2>3. t \in Listed /\ Listed = Elems(ll) /\ ListOK
    BY <1>3, <2>2, InvList DEF TaskInv, Listed
  <2>4. act = NULL \/ Before(ll, t, act)
    <3>1. SUFFICES ASSUME act # NULL PROVE Before(ll, t, act)
      OBVIOUS
    <3>2. act \in Listed /\ t # act
      BY <1>3, <2>2, <3>1 DEF TaskInv, HandlerPointersValid
    <3>3. prio \in [Task -> Nat] /\ t \in Task /\ act \in Task
      BY <1>3, <2>3, <3>2, PrioNat, ListedTasks DEF TaskInv, TypeOK
    <3>4. t = act \/ Before(ll, t, act) \/ Before(ll, act, t)
      BY <2>3, <3>2, <3>3, BeforeFacts DEF ListOK
    <3>5. Before(ll, act, t) => prio[act] >= prio[t]
      BY <2>3, <3>2, <3>3, BeforeFacts DEF ListOK
    <3>6. ~(prio[act] >= prio[t])
      BY <1>3, <2>2, <3>1, <3>3 DEF OFF
    <3> QED BY <3>2, <3>4, <3>5, <3>6
  <2> QED BY <1>3, <2>2, <2>3, <2>4 DEF ServeInv, PassServes, Served
<1>4. TaskInv /\ ServeInv /\ [Next]_vars =>
        [pc = "scan" /\ pc' = "script" =>
           \A t \in Listed' : prio'[t] # OFF /\ t \in ready' => t \in late \/ t \in zero \cap ran]_vars
  BY <1>3
<1> QED BY <1>1, <1>2, <1>4, AlwaysInv, PTL DEF Spec, ServesAllDue
=============================================================================
