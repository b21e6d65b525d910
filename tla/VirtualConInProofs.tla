------------------------- MODULE VirtualConInProofs -------------------------
(***************************************************************************)
(* Proofs about the key queue and the notification list of the virtual     *)
(* console, for any keys, any functions and any number of key presses.     *)
(***************************************************************************)
EXTENDS VirtualConIn, SequenceTheorems, TLAPS

\* Moving the head of the second sequence to the end of the first.
LEMMA MoveHead ==
  ASSUME NEW S, NEW t \in Seq(S), NEW q \in Seq(S), q # <<>>
  PROVE  /\ Head(q) \in S /\ Tail(q) \in Seq(S)
         /\ t \o q = Append(t, Head(q)) \o Tail(q)
  OBVIOUS

\* The queue's invariant: the types and the order of the keys.
QueueInv == TypeOK /\ KeysInOrder

\* r is not among the nodes in front of place at, or in the whole list at its head, unless
\* it is in R.
Passed(list, at, r, R) ==
  \A i \in DOMAIN list : (at = 0 \/ i < at) => list[i] # r \/ r \in R

\* The notification list's: a walk is at a node, at the list head or just past a node freed
\* under it; and what a registration's scan has passed is not what it is called with,
\* unless that was registered behind its back.
ListInv ==
  /\ RegisteredOnce
  /\ link <= Len(KeyNotifyList) + 1
  /\ app \notin Walking => link = 0
  /\ app \in Walking /\ ~freed => link <= Len(KeyNotifyList)
  /\ app = "unlink" => link # 0
  /\ app \in {"register", "insert"} =>
       /\ request \in Registration
       /\ Passed(KeyNotifyList, link, request, raced)

\* Both hold when InitializeVirtualConsole is done.
LEMMA InitQueue == Init => QueueInv /\ ListInv
<1> SUFFICES ASSUME Init PROVE QueueInv /\ ListInv
  OBVIOUS
<1>1. loaded \in BOOLEAN /\ stolen \in BOOLEAN /\ freed \in BOOLEAN
  BY Zenon DEF Init
<1>2. KeyQueue \in Seq(Key) /\ pressed \in Seq(Key) /\ taken \in Seq(Key) /\ KeyNotifyList \in Seq(Registration)
  BY EmptySeq DEF Init
<1>3. /\ KeyToggleState \in {0, 1} /\ app \in AppPC /\ fault \in {"none", "phantom key", "freed node"}
      /\ request \in Registration \cup {NULL} /\ raced \in SUBSET Registration
      /\ handle \in Nat /\ link \in Nat
  BY DEF Init, AppPC
<1>4. KeysInOrder /\ RegisteredOnce
  BY DEF Init, KeysInOrder, RegisteredOnce
<1>5. ListInv
  BY <1>2, <1>4, LenProperties DEF Init, ListInv, Walking
<1> QED BY <1>1, <1>2, <1>3, <1>4, <1>5 DEF QueueInv, TypeOK

\* What UnregisterKeyNotify makes of the list: the nodes behind the removed one move up.
LEMMA RemoveShifts ==
  ASSUME NEW S, NEW list \in Seq(S), NEW i \in DOMAIN list
  PROVE  /\ Without(list, i) \in Seq(S)
         /\ Len(Without(list, i)) = Len(list) - 1
         /\ DOMAIN Without(list, i) = 1..(Len(list) - 1)
         /\ \A m \in 1..(Len(list) - 1) :
              Without(list, i)[m] = IF m <= i - 1 THEN list[m] ELSE list[m + 1]
<1> DEFINE rest == Without(list, i)
           a == SubSeq(list, 1, i - 1)
           b == SubSeq(list, i + 1, Len(list))
<1>1. Len(list) \in Nat /\ i \in 1..Len(list) /\ DOMAIN list = 1..Len(list)
      /\ \A m \in 1..Len(list) : list[m] \in S
  BY LenProperties
<1>2. /\ a \in Seq(S) /\ Len(a) = i - 1
      /\ \A m \in 1..(i - 1) : a[m] = list[m]
  <2>1. 1 \in Int /\ i - 1 \in Int /\ \A m \in 1..(i - 1) : list[m] \in S
    BY <1>1
  <2>2. \A m \in 1..(i - 1) - 1 + 1 : a[m] = list[1 + m - 1]
    BY <2>1, SubSeqProperties
  <2> QED BY <1>1, <2>1, <2>2, SubSeqProperties
<1>3. /\ b \in Seq(S) /\ Len(b) = Len(list) - i
      /\ \A m \in 1..(Len(list) - i) : b[m] = list[i + m]
  <2>1. i + 1 \in Int /\ Len(list) \in Int /\ \A m \in (i + 1)..Len(list) : list[m] \in S
    BY <1>1
  <2>2. \A m \in 1..Len(list) - (i + 1) + 1 : b[m] = list[(i + 1) + m - 1]
    BY <2>1, SubSeqProperties
  <2> QED BY <1>1, <2>1, <2>2, SubSeqProperties
<1>4. /\ rest \in Seq(S) /\ Len(rest) = Len(list) - 1 /\ DOMAIN rest = 1..(Len(list) - 1)
      /\ \A m \in 1..(Len(list) - 1) : rest[m] = IF m <= i - 1 THEN list[m] ELSE list[m + 1]
  <2>1. rest = a \o b
    BY DEF Without
  <2> HIDE DEF rest
  <2>2. rest \in Seq(S) /\ Len(rest) = Len(a) + Len(b)
        /\ \A m \in 1..(Len(a) + Len(b)) : rest[m] = IF m <= Len(a) THEN a[m] ELSE b[m - Len(a)]
    <3> HIDE DEF a, b
    <3>1. a \in Seq(S) /\ b \in Seq(S)
      BY <1>2, <1>3
    <3>2. /\ a \o b \in Seq(S)
          /\ Len(a \o b) = Len(a) + Len(b)
          /\ \A m \in 1..(Len(a) + Len(b)) : (a \o b)[m] = IF m <= Len(a) THEN a[m] ELSE b[m - Len(a)]
      BY ONLY <3>1, ConcatProperties
    <3> QED BY ONLY <2>1, <3>2
  <2> HIDE DEF a, b
  <2>3. Len(rest) = Len(list) - 1 /\ DOMAIN rest = 1..(Len(list) - 1)
    BY <1>1, <1>2, <1>3, <2>2, LenProperties
  <2>4. ASSUME NEW m \in 1..(Len(list) - 1)
        PROVE  rest[m] = IF m <= i - 1 THEN list[m] ELSE list[m + 1]
    <3>1. /\ i \in Int /\ Len(list) \in Int
          /\ Len(a) = i - 1 /\ Len(b) = Len(list) - i
          /\ m \in Int /\ 1 <= m /\ m <= Len(list) - 1
      BY <1>1, <1>2, <1>3
    <3>2. CASE m <= i - 1
      <4>1. m \in 1..(i - 1) /\ m \in 1..(Len(a) + Len(b)) /\ m <= Len(a)
        BY ONLY <3>1, <3>2
      <4> QED BY ONLY <1>2, <2>2, <3>2, <4>1
    <3>3. CASE ~(m <= i - 1)
      <4>0. m \in 1..(Len(a) + Len(b)) /\ ~(m <= Len(a))
        BY ONLY <3>1, <3>3
      <4>1. rest[m] = b[m - Len(a)]
        BY ONLY <2>2, <4>0
      <4>2. m - Len(a) \in 1..(Len(list) - i) /\ i + (m - Len(a)) = m + 1
        BY ONLY <3>1, <3>3
      <4> QED BY ONLY <1>3, <3>3, <4>1, <4>2
    <3> QED BY <3>2, <3>3
  <2> QED BY <2>2, <2>3, <2>4
<1> QED BY <1>4

\* Removing a node keeps the others single.
LEMMA RemoveKeepsDistinct ==
  ASSUME NEW S, NEW R, NEW list \in Seq(S), NEW i \in DOMAIN list,
         \A m, n \in DOMAIN list : list[m] = list[n] => m = n \/ list[m] \in R
  PROVE  \A m, n \in DOMAIN Without(list, i) :
           Without(list, i)[m] = Without(list, i)[n] => m = n \/ Without(list, i)[m] \in R
<1> DEFINE rest == Without(list, i)
<1>1. Len(list) \in Nat /\ i \in 1..Len(list) /\ DOMAIN list = 1..Len(list)
  BY LenProperties
<1>4. /\ DOMAIN rest = 1..(Len(list) - 1)
      /\ \A m \in 1..(Len(list) - 1) : rest[m] = IF m <= i - 1 THEN list[m] ELSE list[m + 1]
  BY RemoveShifts
<1>5. ASSUME NEW m \in DOMAIN rest, NEW n \in DOMAIN rest, rest[m] = rest[n]
      PROVE  m = n \/ rest[m] \in R
  <2> HIDE DEF rest
  <2> DEFINE at(x) == IF x <= i - 1 THEN x ELSE x + 1
  <2>1. m \in 1..(Len(list) - 1) /\ n \in 1..(Len(list) - 1) /\ i \in Int /\ Len(list) \in Int
    BY <1>1, <1>4
  <2>2. at(m) \in 1..Len(list) /\ at(n) \in 1..Len(list)
    BY ONLY <2>1
  <2>3. rest[m] = list[at(m)] /\ rest[n] = list[at(n)]
    <3>1. \A x \in 1..(Len(list) - 1) : rest[x] = list[at(x)]
      BY <1>4
    <3> QED BY <2>1, <3>1
  <2>4. at(m) = at(n) \/ rest[m] \in R
    <3> HIDE DEF at
    <3> QED BY <1>1, <1>5, <2>2, <2>3
  <2>5. at(m) = at(n) => m = n
    BY ONLY <2>1
  <2> QED BY <2>4, <2>5
<1> QED BY <1>5

\* A walk's place stays right when a node is removed at TPL_CALLBACK: what it has passed
\* is still what is in front of it.
LEMMA RemoveKeepsPassed ==
  ASSUME NEW S, NEW list \in Seq(S), NEW j \in DOMAIN list, NEW at \in Nat, NEW to \in Nat,
         NEW R, NEW r, at <= Len(list) + 1,
         to = IF j < at THEN at - 1 ELSE at,
         Passed(list, at, r, R)
  PROVE  Passed(Without(list, j), to, r, R)
<1> DEFINE rest == Without(list, j)
           n == Len(list)
<1>1. n \in Nat /\ DOMAIN list = 1..n /\ j \in 1..n
  BY LenProperties
<1>2. Len(rest) = n - 1 /\ DOMAIN rest = 1..(n - 1)
      /\ \A m \in 1..(n - 1) : rest[m] = IF m <= j - 1 THEN list[m] ELSE list[m + 1]
  BY RemoveShifts
<1>3. at <= n + 1 /\ to = (IF j < at THEN at - 1 ELSE at)
      /\ \A i \in 1..n : (at = 0 \/ i < at) => list[i] # r \/ r \in R
  BY <1>1 DEF Passed
<1> HIDE DEF rest, n
<1>5. ASSUME NEW i \in 1..(n - 1), to = 0 \/ i < to PROVE rest[i] # r \/ r \in R
  <2>1. CASE i <= j - 1
    <3>1. i \in 1..n /\ (at = 0 \/ i < at)
      BY <1>1, <1>3, <1>5, <2>1
    <3> QED BY <1>2, <1>3, <2>1, <3>1
  <2>2. CASE ~(i <= j - 1)
    <3>1. i + 1 \in 1..n /\ (at = 0 \/ i + 1 < at)
      BY <1>1, <1>3, <1>5, <2>2
    <3>2. rest[i] = list[i + 1]
      BY <1>2, <2>2
    <3> QED BY <1>3, <3>1, <3>2
  <2> QED BY <2>1, <2>2
<1> QED BY <1>2, <1>5 DEF rest, n, Passed

\* A registration that is not in the list goes to its end; the node a walk is at, and
\* those in front of it, are as they were.
LEMMA AppendKeeps ==
  ASSUME NEW S, NEW list \in Seq(S), NEW new \in S
  PROVE  /\ Append(list, new) \in Seq(S) /\ Len(Append(list, new)) = Len(list) + 1
         /\ DOMAIN Append(list, new) = 1..(Len(list) + 1) /\ DOMAIN list = 1..Len(list)
         /\ Len(list) \in Nat
         /\ Append(list, new)[Len(list) + 1] = new
         /\ \A i \in DOMAIN list : Append(list, new)[i] = list[i]
  BY AppendProperties, LenProperties

\* Every step keeps the queue's invariant, whoever takes it and at whichever priority.
LEMMA StepQueue == QueueInv /\ ListInv /\ [Next]_vars => QueueInv'
<1> SUFFICES ASSUME QueueInv, ListInv, [Next]_vars PROVE QueueInv'
  OBVIOUS
<1> USE DEF QueueInv
<1>0. /\ KeyNotifyList \in Seq(Registration) /\ link \in Nat /\ handle \in Nat /\ freed \in BOOLEAN
      /\ request \in Registration \cup {NULL}
      /\ Len(KeyNotifyList) \in Nat /\ DOMAIN KeyNotifyList = 1..Len(KeyNotifyList)
  BY LenProperties DEF TypeOK
<1>1. ASSUME NEW k \in Key, NEW ok \in BOOLEAN, InputKey(k, ok) PROVE QueueInv'
  <2>1. TypeOK'
    <3>1. Append(KeyQueue, k) \in Seq(Key) /\ Append(pressed, k) \in Seq(Key)
      <4>1. KeyQueue \in Seq(Key) /\ pressed \in Seq(Key)
        BY DEF TypeOK
      <4> QED BY ONLY <1>1, <4>1, AppendProperties
    <3> QED BY <1>1, <3>1 DEF notify, walk, TypeOK, InputKey, EnqueKeyData
  <2>2. KeysInOrder'
    <3>1. CASE ok
      <4>1. Append(pressed, k) = taken \o Append(KeyQueue, k)
        <5>1. k \in Key /\ taken \in Seq(Key) /\ KeyQueue \in Seq(Key)
          BY DEF TypeOK
        <5>2. Append(taken \o KeyQueue, k) = taken \o Append(KeyQueue, k)
          BY ONLY <5>1
        <5> QED BY <5>2 DEF KeysInOrder
      <4> QED BY <1>1, <3>1, <4>1 DEF KeysInOrder, InputKey, EnqueKeyData
    <3>2. CASE ~ok
      BY <1>1, <3>2 DEF KeysInOrder, InputKey, EnqueKeyData
    <3> QED BY <3>1, <3>2
  <2> QED BY <2>1, <2>2
<1>2. ASSUME NEW op \in {"read", "reset"}, Call(op) \/ DequeKeyData_Test(op) PROVE QueueInv'
  BY <1>2 DEF TypeOK, AppPC, Removing, KeysInOrder, Call, DequeKeyData_Test, queue, notify, walk
<1>3. ASSUME NEW op \in {"read", "reset"}, DequeKeyData_Remove(op) PROVE QueueInv'
  <2>2. CASE KeyQueue = <<>>
    BY <1>3, <2>2 DEF notify, walk, TypeOK, AppPC, Removing, KeysInOrder, DequeKeyData_Remove
  <2>3. CASE KeyQueue # <<>>
    <3>1. /\ Head(KeyQueue) \in Key /\ Tail(KeyQueue) \in Seq(Key)
          /\ taken \o KeyQueue = Append(taken, Head(KeyQueue)) \o Tail(KeyQueue)
      BY <2>3, MoveHead DEF TypeOK
    <3>2. TypeOK'
      <4>1. taken \in Seq(Key)
        BY DEF TypeOK
      <4>2. Append(taken, Head(KeyQueue)) \in Seq(Key)
        BY ONLY <3>1, <4>1, AppendProperties
      <4> QED BY <1>3, <2>3, <3>1, <4>2 DEF notify, walk, TypeOK, AppPC, Removing, DequeKeyData_Remove
    <3>3. KeysInOrder'
      BY <1>3, <2>3, <3>1 DEF KeysInOrder, DequeKeyData_Remove
    <3> QED BY <3>2, <3>3
  <2> QED BY <2>2, <2>3
<1>4. CASE WaitForEvent \/ WaitForKeyCallback
  BY <1>4 DEF TypeOK, AppPC, Removing, KeysInOrder, WaitForEvent, WaitForKeyCallback, queue, notify, walk
<1>5. CASE CallbackRead
  <2>2. CASE KeyQueue = <<>>
    BY <1>5, <2>2 DEF notify, walk, TypeOK, KeysInOrder, CallbackRead
  <2>3. CASE KeyQueue # <<>>
    <3>1. /\ Head(KeyQueue) \in Key /\ Tail(KeyQueue) \in Seq(Key)
          /\ taken \o KeyQueue = Append(taken, Head(KeyQueue)) \o Tail(KeyQueue)
      BY <2>3, MoveHead DEF TypeOK
    <3>2. TypeOK'
      <4>1. taken \in Seq(Key)
        BY DEF TypeOK
      <4>2. Append(taken, Head(KeyQueue)) \in Seq(Key)
        BY ONLY <3>1, <4>1, AppendProperties
      <4> QED BY <1>5, <2>3, <3>1, <4>2 DEF notify, walk, TypeOK, CallbackRead
    <3>3. KeysInOrder'
      BY <1>5, <2>3, <3>1 DEF KeysInOrder, CallbackRead
    <3> QED BY <3>2, <3>3
  <2> QED BY <2>2, <2>3
<1>6. CASE CallbackReset \/ Unload
  <2>1. taken \o KeyQueue \in Seq(Key) /\ (taken \o KeyQueue) \o <<>> = taken \o KeyQueue
    BY ConcatProperties, ConcatEmptySeq DEF TypeOK
  <2>2. TypeOK' /\ KeysInOrder'
    <3>1. <<>> \in Seq(Key) /\ <<>> \in Seq(Registration)
      BY EmptySeq
    <3>2. /\ KeyQueue' = <<>> /\ taken' = taken \o KeyQueue /\ pressed' = pressed
          /\ KeyNotifyList' \in {KeyNotifyList, <<>>}
      BY <1>6 DEF CallbackReset, Unload, notify
    <3>3. KeysInOrder'
      BY <2>1, <3>2 DEF KeysInOrder
    <3>4. UNCHANGED <<KeyToggleState, app, fault, request, handle, link, freed, raced>>
          /\ loaded' \in {loaded, FALSE} /\ stolen' \in BOOLEAN
      BY <1>6 DEF CallbackReset, Unload, TypeOK, notify, walk
    <3>5. TypeOK'
      BY <2>1, <3>1, <3>2, <3>4 DEF TypeOK
    <3> QED BY <3>3, <3>5
  <2> QED BY <2>2
<1>7. ASSUME NEW k \in Key, NEW cb \in Callback, RegisterKeyNotify(k, cb) PROVE QueueInv'
  <2>1. [key |-> k, callback |-> cb] \in Registration
    BY DEF Registration
  <2> QED BY <1>7, <2>1 DEF TypeOK, AppPC, Walking, KeysInOrder, RegisterKeyNotify, GetFirstNode, queue
<1>8. CASE RegisterKeyNotify_Scan \/ UnregisterKeyNotify_Scan
  <2>1. link' \in Nat
    <3>1. GetNextNode \in Nat
      BY <1>0 DEF GetNextNode
    <3>2. link' \in {0, link, GetNextNode}
      BY <1>8 DEF RegisterKeyNotify_Scan, UnregisterKeyNotify_Scan, Return, walk
    <3> QED BY <1>0, <3>1, <3>2
  <2>2. UNCHANGED <<KeyNotifyList, raced, queue, loaded, KeyToggleState, stolen, fault>>
    BY <1>8 DEF RegisterKeyNotify_Scan, UnregisterKeyNotify_Scan
  <2>3. request' \in {request, NULL} /\ handle' \in {handle, 0}
        /\ app' \in {app, "insert", "idle", "unlink"}
    BY <1>8 DEF RegisterKeyNotify_Scan, UnregisterKeyNotify_Scan, Return, walk
  <2>4. freed' \in BOOLEAN
    BY <1>8 DEF TypeOK, RegisterKeyNotify_Scan, UnregisterKeyNotify_Scan, Return, walk
  <2>5. request' \in Registration \cup {NULL} /\ handle' \in Nat
    BY <1>0, <2>3
  <2>6. app' \in AppPC
    BY <2>3 DEF TypeOK, AppPC, Walking
  <2> QED BY <2>1, <2>2, <2>4, <2>5, <2>6 DEF TypeOK, KeysInOrder, queue
<1>9. ASSUME NEW ok \in BOOLEAN, RegisterKeyNotify_Insert(ok), ListInv PROVE QueueInv'
  <2>1. KeyNotifyList' \in Seq(Registration)
    <3>1. request \in Registration /\ KeyNotifyList \in Seq(Registration)
      BY <1>9 DEF ListInv, RegisterKeyNotify_Insert, TypeOK
    <3>2. Append(KeyNotifyList, request) \in Seq(Registration)
      BY <3>1, AppendKeeps
    <3> QED BY <1>9, <3>1, <3>2 DEF RegisterKeyNotify_Insert
  <2> QED BY <1>9, <2>1 DEF TypeOK, AppPC, KeysInOrder, RegisterKeyNotify_Insert, Return, queue
<1>10. ASSUME NEW i \in DOMAIN KeyNotifyList, UnregisterKeyNotify(i) PROVE QueueInv'
  <2>1. i \in Nat
    BY <1>0
  <2> QED BY <1>10, <2>1 DEF TypeOK, AppPC, Walking, KeysInOrder, UnregisterKeyNotify, GetFirstNode, queue
<1>11. CASE UnregisterKeyNotify_Remove /\ link \in DOMAIN KeyNotifyList
  <2>1. KeyNotifyList' \in Seq(Registration)
    <3>1. KeyNotifyList \in Seq(Registration)
      BY DEF TypeOK
    <3>2. Without(KeyNotifyList, link) \in Seq(Registration)
      BY <1>11, <3>1, RemoveShifts
    <3> QED BY <1>11, <3>2 DEF UnregisterKeyNotify_Remove
  <2> QED BY <1>11, <2>1 DEF TypeOK, AppPC, KeysInOrder, UnregisterKeyNotify_Remove, Return, queue
<1>12. ASSUME NEW j \in DOMAIN KeyNotifyList, CallbackUnregister(j) PROVE QueueInv'
  <2>1. KeyNotifyList' \in Seq(Registration)
    <3>1. KeyNotifyList \in Seq(Registration)
      BY DEF TypeOK
    <3>2. Without(KeyNotifyList, j) \in Seq(Registration)
      BY <3>1, RemoveShifts
    <3> QED BY <1>12, <3>2 DEF CallbackUnregister
  <2>2. link' \in Nat /\ handle' \in Nat
    <3>1. j \in Nat /\ j > 0 /\ link \in Nat /\ handle \in Nat
      BY <1>0
    <3> QED BY <1>12, <3>1 DEF CallbackUnregister
  <2>3. freed' \in BOOLEAN
    BY <1>12 DEF CallbackUnregister
  <2> QED BY <1>12, <2>1, <2>2, <2>3 DEF TypeOK, KeysInOrder, CallbackUnregister, queue
<1>13. ASSUME NEW k \in Key, NEW cb \in Callback, NEW ok \in BOOLEAN, CallbackRegister(k, cb, ok) PROVE QueueInv'
  <2>1. [key |-> k, callback |-> cb] \in Registration /\ KeyNotifyList \in Seq(Registration)
    BY DEF Registration, TypeOK
  <2>2. Append(KeyNotifyList, [key |-> k, callback |-> cb]) \in Seq(Registration)
    BY <2>1, AppendKeeps
  <2>3. KeyNotifyList' \in Seq(Registration) /\ raced' \in SUBSET Registration
    BY <1>13, <2>1, <2>2 DEF CallbackRegister, TypeOK
  <2> QED BY <1>13, <2>3 DEF TypeOK, KeysInOrder, CallbackRegister, walk, queue
<1>14. ASSUME NEW toggle \in {0, 1}, SetState(toggle) PROVE QueueInv'
  BY <1>14 DEF TypeOK, KeysInOrder, SetState, queue, notify, walk
<1>15. CASE ReadFreedNode
  BY <1>15 DEF TypeOK, KeysInOrder, ReadFreedNode, queue, notify, walk
<1>16. CASE UNCHANGED vars
  BY <1>16 DEF TypeOK, KeysInOrder, vars
<1>17. CASE UnregisterKeyNotify_Remove
  <2>1. link \in DOMAIN KeyNotifyList
    BY <1>0, <1>17 DEF ListInv, UnregisterKeyNotify_Remove, Walking
  <2> QED BY <1>11, <1>17, <2>1
<1> QED
  BY <1>1, <1>2, <1>3, <1>4, <1>5, <1>6, <1>7, <1>8, <1>9, <1>10, <1>12, <1>13, <1>14, <1>15, <1>16, <1>17 DEF Next

\* Every step keeps the notification list's.
LEMMA StepList == QueueInv /\ ListInv /\ [Next]_vars => ListInv'
<1> SUFFICES ASSUME QueueInv, ListInv, [Next]_vars PROVE ListInv'
  OBVIOUS
<1>0. /\ KeyNotifyList \in Seq(Registration) /\ link \in Nat
      /\ Len(KeyNotifyList) \in Nat /\ DOMAIN KeyNotifyList = 1..Len(KeyNotifyList)
  BY LenProperties DEF QueueInv, TypeOK
<1>1. CASE UNCHANGED <<notify, app>>
  BY <1>1 DEF ListInv, RegisteredOnce, notify, walk
<1>2. ASSUME UNCHANGED notify, app \notin Walking \cup {"insert"}, app' \notin Walking \cup {"insert"}
      PROVE  ListInv'
  BY <1>2 DEF ListInv, RegisteredOnce, notify, walk, Walking
<1>3. ASSUME UNCHANGED <<KeyNotifyList, raced>>, app' \in {"idle", "unregister", "unlink"},
             app' = "idle" => link' = 0, app' = "unlink" => link' # 0,
             link' <= Len(KeyNotifyList) + 1, ~freed' => link' <= Len(KeyNotifyList)
      PROVE  ListInv'
  BY <1>3 DEF ListInv, RegisteredOnce, Walking
<1>4. CASE Unload
  <2>1. Len(<<>>) = 0 /\ DOMAIN <<>> = {}
    OBVIOUS
  <2>2. KeyNotifyList' = <<>> /\ app' = "idle" /\ link' = link /\ raced' = raced
    BY <1>4 DEF Unload, walk
  <2>3. app = "idle"
    BY <1>4 DEF Unload
  <2>4. link' = 0
    BY <2>2, <2>3 DEF ListInv, Walking
  <2> QED BY <2>1, <2>2, <2>4 DEF ListInv, RegisteredOnce, Walking
<1>5. ASSUME NEW k \in Key, NEW cb \in Callback, RegisterKeyNotify(k, cb) PROVE ListInv'
  <2>1. request' \in Registration
    BY <1>5 DEF RegisterKeyNotify, Registration
  <2>2. UNCHANGED <<KeyNotifyList, raced>> /\ app' = "register" /\ link' = GetFirstNode
    BY <1>5 DEF RegisterKeyNotify
  <2>3. /\ link' <= Len(KeyNotifyList) /\ link' <= Len(KeyNotifyList) + 1
        /\ \A i \in DOMAIN KeyNotifyList : ~(link' = 0 \/ i < link')
    <3>1. CASE KeyNotifyList = <<>>
      BY <1>0, <2>2, <3>1 DEF GetFirstNode
    <3>2. CASE KeyNotifyList # <<>>
      <4>1. Len(KeyNotifyList) # 0
        BY <1>0, <3>2, EmptySeq
      <4> QED BY <1>0, <2>2, <3>2, <4>1 DEF GetFirstNode
    <3> QED BY <3>1, <3>2
  <2> QED BY <2>1, <2>2, <2>3 DEF ListInv, Passed, RegisteredOnce, Walking
<1>6. CASE RegisterKeyNotify_Scan
  <2>0. UNCHANGED <<KeyNotifyList, raced>> /\ app = "register" /\ request \in Registration
    BY <1>6 DEF RegisterKeyNotify_Scan, ListInv
  <2>1. CASE link = 0
    BY <1>6, <2>0, <2>1 DEF Passed, RegisterKeyNotify_Scan, ListInv, RegisteredOnce, walk, Walking
  <2>2. CASE link # 0 /\ Registers(KeyNotifyList[link], request.key, request.callback)
    <3>1. app' = "idle" /\ link' = 0
      BY <1>6, <2>2 DEF RegisterKeyNotify_Scan, Return
    <3> QED BY <1>0, <1>3, <2>0, <3>1
  <2>3. CASE link # 0 /\ ~Registers(KeyNotifyList[link], request.key, request.callback)
    <3>1. app' = app /\ request' = request /\ link' = GetNextNode
      BY <1>6, <2>3 DEF RegisterKeyNotify_Scan
    <3>2. KeyNotifyList[link] # request
      BY <2>0, <2>3 DEF Registers, IsKeyRegistered, Registration
    <3>3. /\ link' <= Len(KeyNotifyList) + 1 /\ link' <= Len(KeyNotifyList)
          /\ \A i \in DOMAIN KeyNotifyList : (link' = 0 \/ i < link') => i < link \/ i = link
      BY <1>0, <2>3, <3>1 DEF GetNextNode
    <3>4. \A i \in DOMAIN KeyNotifyList : i < link => KeyNotifyList[i] # request \/ request \in raced
      BY <2>0 DEF ListInv, Passed
    <3>5. \A i \in DOMAIN KeyNotifyList : (link' = 0 \/ i < link') => KeyNotifyList[i] # request \/ request \in raced
      BY <3>2, <3>3, <3>4
    <3> QED BY <2>0, <3>1, <3>3, <3>5 DEF Passed, ListInv, RegisteredOnce, Walking
  <2> QED BY <2>1, <2>2, <2>3
<1>7. ASSUME NEW ok \in BOOLEAN, RegisterKeyNotify_Insert(ok) PROVE ListInv'
  <2>1. app' = "idle" /\ link' = 0 /\ raced' = raced /\ app = "insert" /\ link = 0 /\ request \in Registration
    BY <1>7 DEF RegisterKeyNotify_Insert, Return, ListInv, Walking
  <2>2. CASE ~ok
    <3>1. KeyNotifyList' = KeyNotifyList
      BY <1>7, <2>2 DEF RegisterKeyNotify_Insert
    <3> QED BY <1>0, <1>3, <2>1, <3>1
  <2>3. CASE ok
    <3>1. KeyNotifyList' = Append(KeyNotifyList, request)
      BY <1>7, <2>3 DEF RegisterKeyNotify_Insert
    <3>2. /\ Len(KeyNotifyList') = Len(KeyNotifyList) + 1
          /\ DOMAIN KeyNotifyList' = 1..(Len(KeyNotifyList) + 1)
          /\ KeyNotifyList'[Len(KeyNotifyList) + 1] = request
          /\ \A i \in 1..Len(KeyNotifyList) : KeyNotifyList'[i] = KeyNotifyList[i]
      BY <1>0, <2>1, <3>1, AppendKeeps
    <3>3. /\ \A i \in 1..Len(KeyNotifyList) : KeyNotifyList[i] # request \/ request \in raced
          /\ \A i, j \in 1..Len(KeyNotifyList) :
               KeyNotifyList[i] = KeyNotifyList[j] => i = j \/ KeyNotifyList[i] \in raced
      BY <1>0, <2>1 DEF ListInv, Passed, RegisteredOnce
    <3>4. \A i \in 1..(Len(KeyNotifyList) + 1) : i \in 1..Len(KeyNotifyList) \/ i = Len(KeyNotifyList) + 1
      BY <1>0
    <3>5. \A i, j \in DOMAIN KeyNotifyList' :
            KeyNotifyList'[i] = KeyNotifyList'[j] => i = j \/ KeyNotifyList'[i] \in raced
      BY <3>2, <3>3, <3>4
    <3>6. link' <= Len(KeyNotifyList') + 1
      BY <1>0, <2>1, <3>2
    <3> QED BY <2>1, <3>5, <3>6 DEF ListInv, RegisteredOnce, Walking
  <2> QED BY <2>2, <2>3
<1>8. ASSUME NEW k \in Key, NEW cb \in Callback, NEW ok \in BOOLEAN, CallbackRegister(k, cb, ok) PROVE ListInv'
  <2> DEFINE r == [key |-> k, callback |-> cb]
             new == ok /\ \A i \in DOMAIN KeyNotifyList : ~Registers(KeyNotifyList[i], k, cb)
             late == app = "insert" \/ (app = "register" /\ link = 0)
  <2>0. UNCHANGED <<app, request, link, freed>>
    BY <1>8 DEF CallbackRegister, walk
  <2>1. CASE ~new
    <3>1. UNCHANGED <<KeyNotifyList, raced>>
      BY <1>8, <2>1 DEF CallbackRegister
    <3> QED BY <2>0, <3>1 DEF ListInv, RegisteredOnce
  <2>2. CASE new
    <3>1. KeyNotifyList' = Append(KeyNotifyList, r) /\ r \in Registration
      BY <1>8, <2>2 DEF CallbackRegister, Registration
    <3>2. raced' = IF late /\ request = r THEN raced \cup {r} ELSE raced
      BY <1>8, <2>2 DEF CallbackRegister
    <3>3. \A i \in 1..Len(KeyNotifyList) : KeyNotifyList[i] # r
      BY <1>0, <2>2 DEF Registers, IsKeyRegistered
    <3>4. late \/ link # 0 \/ app \notin {"register", "insert"}
      OBVIOUS
    <3> HIDE DEF r, new, late
    <3>5. /\ Len(KeyNotifyList') = Len(KeyNotifyList) + 1
          /\ DOMAIN KeyNotifyList' = 1..(Len(KeyNotifyList) + 1)
          /\ KeyNotifyList'[Len(KeyNotifyList) + 1] = r
          /\ \A i \in 1..Len(KeyNotifyList) : KeyNotifyList'[i] = KeyNotifyList[i]
      BY <1>0, <3>1, AppendKeeps
    <3>6. \A i \in 1..(Len(KeyNotifyList) + 1) : i \in 1..Len(KeyNotifyList) \/ i = Len(KeyNotifyList) + 1
      BY <1>0
    <3>7. \A i, j \in DOMAIN KeyNotifyList' :
            KeyNotifyList'[i] = KeyNotifyList'[j] => i = j \/ KeyNotifyList'[i] \in raced'
      <4>1. \A i, j \in 1..Len(KeyNotifyList) :
              KeyNotifyList[i] = KeyNotifyList[j] => i = j \/ KeyNotifyList[i] \in raced
        BY <1>0 DEF ListInv, RegisteredOnce
      <4>2. raced \subseteq raced'
        BY <3>2
      <4> QED BY <3>3, <3>5, <3>6, <4>1, <4>2
    <3>8. /\ link' <= Len(KeyNotifyList') + 1
          /\ app \notin Walking => link = 0
          /\ app \in Walking /\ ~freed => link <= Len(KeyNotifyList')
          /\ app = "unlink" => link # 0
      BY <1>0, <2>0, <3>5 DEF ListInv
    <3>9. ASSUME app \in {"register", "insert"}, NEW i \in DOMAIN KeyNotifyList', link = 0 \/ i < link
          PROVE  KeyNotifyList'[i] # request \/ request \in raced'
      <4>1. CASE i \in 1..Len(KeyNotifyList)
        <5>1. KeyNotifyList[i] # request \/ request \in raced
          BY <1>0, <3>9, <4>1 DEF ListInv, Passed
        <5> QED BY <3>2, <3>5, <4>1, <5>1
      <4>2. CASE i = Len(KeyNotifyList) + 1
        <5>1. link = 0
          BY <1>0, <3>9, <4>2 DEF ListInv
        <5>2. late
          BY <3>4, <3>9, <5>1
        <5> QED BY <3>2, <3>5, <4>2, <5>2
      <4> QED BY <3>5, <3>6, <4>1, <4>2
    <3>10. app \in {"register", "insert"} => request \in Registration
      BY DEF ListInv
    <3> QED BY <2>0, <3>7, <3>8, <3>9, <3>10 DEF Passed, ListInv, RegisteredOnce
  <2> QED BY <2>1, <2>2
<1>9. ASSUME NEW i \in DOMAIN KeyNotifyList, UnregisterKeyNotify(i) PROVE ListInv'
  <2>1. UNCHANGED <<KeyNotifyList, raced>> /\ app' = "unregister" /\ link' = GetFirstNode
    BY <1>9 DEF UnregisterKeyNotify
  <2>2. link' <= Len(KeyNotifyList) + 1 /\ link' <= Len(KeyNotifyList)
    BY <1>0, <1>9, <2>1 DEF GetFirstNode
  <2> QED BY <1>3, <2>1, <2>2
<1>10. CASE UnregisterKeyNotify_Scan
  <2>1. UNCHANGED <<KeyNotifyList, raced>> /\ app = "unregister" /\ ~freed
    BY <1>10 DEF UnregisterKeyNotify_Scan
  <2>2. link <= Len(KeyNotifyList)
    BY <2>1 DEF ListInv, Walking
  <2>3. CASE link = 0
    <3>1. app' = "idle" /\ link' = 0
      BY <1>10, <2>3 DEF UnregisterKeyNotify_Scan, Return
    <3> QED BY <1>0, <1>3, <2>1, <3>1
  <2>4. CASE link # 0 /\ link = handle
    <3>1. app' = "unlink" /\ link' = link
      BY <1>10, <2>4 DEF UnregisterKeyNotify_Scan, walk
    <3> QED BY <1>0, <1>3, <2>1, <2>2, <2>4, <3>1
  <2>5. CASE link # 0 /\ link # handle
    <3>1. app' = "unregister" /\ link' = GetNextNode
      BY <1>10, <2>5 DEF UnregisterKeyNotify_Scan
    <3>2. link' <= Len(KeyNotifyList) /\ link' <= Len(KeyNotifyList) + 1
      BY <1>0, <3>1 DEF GetNextNode
    <3> QED BY <1>3, <2>1, <3>1, <3>2
  <2> QED BY <2>3, <2>4, <2>5
<1>11. CASE UnregisterKeyNotify_Remove
  <2>1. app' = "idle" /\ link' = 0 /\ raced' = raced /\ KeyNotifyList' = Without(KeyNotifyList, link)
    BY <1>11 DEF UnregisterKeyNotify_Remove, Return
  <2>2. link \in DOMAIN KeyNotifyList
    BY <1>0, <1>11 DEF ListInv, UnregisterKeyNotify_Remove, Walking
  <2>3. \A m, n \in DOMAIN KeyNotifyList : KeyNotifyList[m] = KeyNotifyList[n] => m = n \/ KeyNotifyList[m] \in raced
    BY DEF ListInv, RegisteredOnce
  <2>4. \A m, n \in DOMAIN KeyNotifyList' : KeyNotifyList'[m] = KeyNotifyList'[n] => m = n \/ KeyNotifyList'[m] \in raced
    BY <1>0, <2>1, <2>2, <2>3, RemoveKeepsDistinct
  <2>5. link' <= Len(KeyNotifyList') + 1
    BY <1>0, <2>1, <2>2, RemoveShifts
  <2> QED BY <2>1, <2>4, <2>5 DEF ListInv, RegisteredOnce, Walking
<1>12. ASSUME NEW j \in DOMAIN KeyNotifyList, CallbackUnregister(j) PROVE ListInv'
  <2>1. /\ UNCHANGED <<app, request, raced>> /\ KeyNotifyList' = Without(KeyNotifyList, j)
        /\ link' = IF j < link THEN link - 1 ELSE link
    BY <1>12 DEF CallbackUnregister
  <2>2. \A m, n \in DOMAIN KeyNotifyList : KeyNotifyList[m] = KeyNotifyList[n] => m = n \/ KeyNotifyList[m] \in raced
    BY DEF ListInv, RegisteredOnce
  <2>3. \A m, n \in DOMAIN KeyNotifyList' : KeyNotifyList'[m] = KeyNotifyList'[n] => m = n \/ KeyNotifyList'[m] \in raced
    BY <1>0, <2>1, <2>2, RemoveKeepsDistinct
  <2>4. /\ link' \in Nat /\ link' <= Len(KeyNotifyList') + 1 /\ (link = 0 => link' = 0)
        /\ app \in Walking /\ ~freed' => link' <= Len(KeyNotifyList')
        /\ link # 0 => link' # 0
    <3>1. Len(KeyNotifyList') = Len(KeyNotifyList) - 1
      BY <1>0, <2>1, RemoveShifts
    <3>2. link <= Len(KeyNotifyList) + 1 /\ j \in 1..Len(KeyNotifyList)
      BY <1>0 DEF ListInv
    <3>3. app \in Walking /\ ~freed' => ~freed /\ j # link
      BY <1>12 DEF CallbackUnregister
    <3>4. app \in Walking /\ ~freed' => link <= Len(KeyNotifyList) /\ j # link
      BY <3>3 DEF ListInv
    <3> QED BY <1>0, <2>1, <3>1, <3>2, <3>4
  <2>5. ASSUME app \in {"register", "insert"} PROVE Passed(KeyNotifyList', link', request, raced)
    <3>1. Passed(KeyNotifyList, link, request, raced) /\ link <= Len(KeyNotifyList) + 1
      BY <2>5 DEF ListInv
    <3>2. KeyNotifyList \in Seq(Registration) /\ link \in Nat /\ link' \in Nat
      BY <1>0, <2>4
    <3>3. Passed(Without(KeyNotifyList, j), link', request, raced)
      BY <2>1, <3>1, <3>2, RemoveKeepsPassed
    <3> QED BY <2>1, <3>3
  <2>6. /\ (app \notin Walking => link = 0) /\ (app = "unlink" => link # 0)
        /\ (app \in {"register", "insert"} => request \in Registration)
    BY DEF ListInv
  <2> QED BY <2>1, <2>3, <2>4, <2>5, <2>6 DEF ListInv, RegisteredOnce
<1>13. ASSUME NEW k \in Key, NEW ok \in BOOLEAN, InputKey(k, ok) PROVE ListInv'
  BY <1>1, <1>13 DEF InputKey
<1>14. ASSUME NEW op \in {"read", "reset"}, Call(op) \/ DequeKeyData_Test(op) \/ DequeKeyData_Remove(op) PROVE ListInv'
  BY <1>2, <1>14 DEF Call, DequeKeyData_Test, DequeKeyData_Remove, Walking
<1>15. CASE WaitForEvent \/ WaitForKeyCallback
  BY <1>2, <1>15 DEF WaitForEvent, WaitForKeyCallback, Walking
<1>16. CASE CallbackRead \/ CallbackReset \/ ReadFreedNode
  BY <1>1, <1>16 DEF CallbackRead, CallbackReset, ReadFreedNode
<1>17. ASSUME NEW toggle \in {0, 1}, SetState(toggle) PROVE ListInv'
  BY <1>1, <1>17 DEF SetState
<1>18. CASE UNCHANGED vars
  BY <1>1, <1>18 DEF vars, notify, walk
<1> QED
  BY <1>4, <1>5, <1>6, <1>7, <1>8, <1>9, <1>10, <1>11, <1>12, <1>13, <1>14, <1>15, <1>16, <1>17, <1>18 DEF Next

\* Both invariants of the key queue and the notification list, together.
LEMMA Inductive == Spec => [](QueueInv /\ ListInv)
<1>1. Init => QueueInv /\ ListInv
  BY InitQueue
<1>2. (QueueInv /\ ListInv) /\ [Next]_vars => (QueueInv /\ ListInv)'
  BY StepQueue, StepList
<1> QED BY <1>1, <1>2, PTL DEF Spec

\* For any number of key presses, and readers at both priorities: keys leave the queue of
\* VirtualConIn.c in the order in which InputKey accepted them, none lost or repeated.
THEOREM KeysSafe == Spec => [](TypeOK /\ KeysInOrder)
<1>1. QueueInv /\ ListInv => TypeOK /\ KeysInOrder
  BY DEF QueueInv
<1> QED BY <1>1, Inductive, PTL

\* For any keys, functions and callers at both priorities, with the list changed under the
\* unlocked scan at any node: RegisterKeyNotify puts a pair in the list twice only when
\* the same pair was registered between the end of its scan and its insertion.
THEOREM NotificationsOnce == Spec => []RegisteredOnce
<1>1. QueueInv /\ ListInv => RegisteredOnce
  BY DEF ListInv
<1> QED BY <1>1, Inductive, PTL

\* Between the two sections of DequeKeyData there is a key, unless one was stolen.
KeyThere == app \in Removing /\ ~stolen => KeyQueue # <<>>

\* For any keys and any number of readers at TPL_CALLBACK: a read makes up a key from the
\* list head (VirtualConIn.c:101) only when the queue was emptied between its own two
\* locked sections.
THEOREM PhantomsExplained == Spec => []PhantomExplained
<1> DEFINE Inv == (QueueInv /\ ListInv) /\ KeyThere /\ PhantomExplained
<1>1. Init => Inv
  BY InitQueue DEF Init, KeyThere, PhantomExplained, Removing
<1>2. Inv /\ [Next]_vars => Inv'
  <2> SUFFICES ASSUME Inv, [Next]_vars PROVE KeyThere' /\ PhantomExplained'
    BY StepQueue, StepList
  <2> USE DEF KeyThere, PhantomExplained
  <2>1. ASSUME NEW k \in Key, NEW ok \in BOOLEAN, InputKey(k, ok) PROVE KeyThere' /\ PhantomExplained'
    <3>1. KeyQueue \in Seq(Key)
      BY DEF QueueInv, TypeOK
    <3>2. Append(KeyQueue, k) # <<>>
      BY ONLY <3>1, <2>1, AppendProperties, EmptySeq
    <3> QED BY <2>1, <3>2 DEF InputKey, EnqueKeyData
  <2>2. ASSUME NEW op \in {"read", "reset"}, Call(op) \/ DequeKeyData_Test(op) \/ DequeKeyData_Remove(op)
        PROVE KeyThere' /\ PhantomExplained'
    <3>1. CASE Call(op)
      BY <3>1 DEF Call, queue, Removing
    <3>2. CASE DequeKeyData_Test(op)
      <4>1. fault = "none" \/ UNCHANGED vars
        BY DEF Next
      <4>2. CASE fault = "none"
        BY <2>2, <3>2, <4>2 DEF DequeKeyData_Test, IsKeyQueueEmpty, queue, Removing
      <4>3. CASE UNCHANGED vars
        BY <4>3 DEF vars
      <4> QED BY <4>1, <4>2, <4>3
    <3>3. CASE DequeKeyData_Remove(op)
      BY <2>2, <3>3 DEF DequeKeyData_Remove, Removing
    <3> QED BY <2>2, <3>1, <3>2, <3>3
  <2>3. CASE WaitForEvent \/ WaitForKeyCallback
    BY <2>3 DEF WaitForEvent, WaitForKeyCallback, queue, Removing
  <2>4. CASE CallbackRead \/ CallbackReset
    BY <2>4 DEF CallbackRead, CallbackReset
  <2>5. ASSUME NEW k \in Key, NEW cb \in Callback, RegisterKeyNotify(k, cb)
        PROVE KeyThere' /\ PhantomExplained'
    BY <2>5 DEF RegisterKeyNotify, queue, Removing
  <2>6. ASSUME NEW i \in DOMAIN KeyNotifyList, UnregisterKeyNotify(i) \/ CallbackUnregister(i)
        PROVE  KeyThere' /\ PhantomExplained'
    BY <2>6 DEF UnregisterKeyNotify, CallbackUnregister, queue, Removing
  <2>7. ASSUME NEW toggle \in {0, 1}, SetState(toggle) PROVE KeyThere' /\ PhantomExplained'
    BY <2>7 DEF SetState, queue
  <2>8. CASE Unload
    BY <2>8 DEF Unload, Removing
  <2>9. CASE UNCHANGED vars
    BY <2>9 DEF vars
  <2>10. CASE RegisterKeyNotify_Scan \/ UnregisterKeyNotify_Scan \/ UnregisterKeyNotify_Remove
    <3>1. app' \notin Removing /\ fault' = fault /\ stolen' = stolen
      BY <2>10 DEF RegisterKeyNotify_Scan, UnregisterKeyNotify_Scan, UnregisterKeyNotify_Remove, Return, Removing
    <3> QED BY <3>1
  <2>11. ASSUME NEW ok \in BOOLEAN, RegisterKeyNotify_Insert(ok) PROVE KeyThere' /\ PhantomExplained'
    BY <2>11 DEF RegisterKeyNotify_Insert, Return, Removing
  <2>12. ASSUME NEW k \in Key, NEW cb \in Callback, NEW ok \in BOOLEAN, CallbackRegister(k, cb, ok)
         PROVE  KeyThere' /\ PhantomExplained'
    BY <2>12 DEF CallbackRegister, queue
  <2>13. CASE ReadFreedNode
    BY <2>13 DEF ReadFreedNode, queue
  <2> QED
    BY <2>1, <2>2, <2>3, <2>4, <2>5, <2>6, <2>7, <2>8, <2>9, <2>10, <2>11, <2>12, <2>13 DEF Next
<1> QED BY <1>1, <1>2, PTL DEF Spec

\* The queue and the list of VirtualConIn.c hold keys and registrations at all times.
THEOREM KeysTyped == Spec => []TypeOK
BY KeysSafe, PTL
=============================================================================
