------------------------------ MODULE Induction ------------------------------
(***************************************************************************)
(* Induction over the naturals in a form the provers can apply: the        *)
(* hypothesis is a set of naturals, not an operator.  A set that holds 0   *)
(* and the successor of each of its members holds them all, since the      *)
(* smallest one it lacks would have a predecessor it holds.                *)
(*                                                                         *)
(* With it, what the proofs about two engines need of lists of orders: a   *)
(* list without one of its entries, and the sum of its quantities.         *)
(***************************************************************************)
EXTENDS Integers, Sequences, SequenceTheorems, NaturalsInduction, WellFoundedInduction, TLAPS

\* A set of naturals has a smallest member.
LEMMA SmallestExists ==
  ASSUME NEW T, T \subseteq Nat, T # {}
  PROVE  \E x \in T : \A y \in T : x <= y
  <1>1. PICK x \in T : \A y \in T : ~(<<y, x>> \in OpToRel(<, Nat))
    BY WFMin, NatLessThanWellFounded, Zenon
  <1>2. \A y \in T : ~(y < x)
    BY <1>1, Zenon DEF OpToRel
  <1> QED
    BY <1>2

\* What holds of 0, and of n + 1 whenever it holds of n, holds of every natural.
LEMMA NaturalsAreReached ==
  ASSUME NEW G, 0 \in G, \A n \in Nat : n \in G => n + 1 \in G
  PROVE  \A n \in Nat : n \in G
  <1> SUFFICES ASSUME Nat \ G # {} PROVE FALSE
    OBVIOUS
  <1>1. PICK n \in Nat \ G : \A m \in Nat \ G : n <= m
    BY SmallestExists
  <1>2. n - 1 \in Nat /\ n - 1 \in G
    BY <1>1
  <1>3. (n - 1) + 1 \in G
    BY <1>2
  <1> QED
    BY <1>1, <1>3
-----------------------------------------------------------------------------
(***************************************************************************)
(* Erasing one entry of a list.                                            *)
(***************************************************************************)
\* The list without its entry i.
Without(s, i) == SubSeq(s, 1, i - 1) \o SubSeq(s, i + 1, Len(s))

LEMMA WithoutFacts ==
  ASSUME NEW S, NEW s \in Seq(S), NEW i \in 1..Len(s)
  PROVE  /\ Without(s, i) \in Seq(S)
         /\ Len(Without(s, i)) = Len(s) - 1
         /\ \A j \in 1..(Len(s) - 1) : Without(s, i)[j] = IF j < i THEN s[j] ELSE s[j + 1]
  <1> DEFINE front == SubSeq(s, 1, i - 1)
             back  == SubSeq(s, i + 1, Len(s))
  <1>1. front \in Seq(S) /\ Len(front) = i - 1 /\ \A j \in 1..(i - 1) : front[j] = s[j]
    OBVIOUS
  <1>2. /\ back \in Seq(S) /\ Len(back) = Len(s) - i
        /\ \A j \in 1..(Len(s) - i) : back[j] = s[j + i]
    OBVIOUS
  <1>3. Without(s, i) = front \o back
    BY DEF Without
  <1> HIDE DEF front, back
  <1>4. front \o back \in Seq(S) /\ Len(front \o back) = Len(s) - 1
    BY <1>1, <1>2
  <1>5. ASSUME NEW j \in 1..(Len(s) - 1)
        PROVE  (front \o back)[j] = IF j < i THEN s[j] ELSE s[j + 1]
    <2>1. (front \o back)[j] = IF j <= Len(front) THEN front[j] ELSE back[j - Len(front)]
      BY <1>1, <1>2
    <2>2. CASE j < i
      BY <2>1, <2>2, <1>1
    <2>3. CASE ~(j < i)
      <3>1. j - (i - 1) \in 1..(Len(s) - i) /\ j - (i - 1) + i = j + 1
        BY <2>3
      <3> QED
        BY <3>1, <2>1, <2>3, <1>1, <1>2
    <2> QED
      BY <2>2, <2>3
  <1> QED
    BY <1>3, <1>4, <1>5

(***************************************************************************)
(* The total of a list of orders.                                          *)
(***************************************************************************)
\* Entries with a positive quantity.
Counted(Entry) == \A o \in Entry : o.qty \in Nat \ {0}

SumOfQty(orders) ==
  LET sum[i \in 0..Len(orders)] == IF i = 0 THEN 0 ELSE sum[i - 1] + orders[i].qty
  IN  sum[Len(orders)]

RunningSum(orders, sum) ==
  sum = [i \in 0..Len(orders) |-> IF i = 0 THEN 0 ELSE sum[i - 1] + orders[i].qty]

\* The running sum exists, so SumOfQty is its last value.
LEMMA SumIsRunning ==
  ASSUME NEW orders, Len(orders) \in Nat
  PROVE  \E sum : RunningSum(orders, sum) /\ SumOfQty(orders) = sum[Len(orders)]
  <1> DEFINE UpTo(n, sum) ==
               sum = [i \in 0..n |-> IF i = 0 THEN 0 ELSE sum[i - 1] + orders[i].qty]
             reached == {n \in Nat : \E sum : UpTo(n, sum)}
  <1>1. 0 \in reached
    <2>1. UpTo(0, [i \in 0..0 |-> 0])
      OBVIOUS
    <2> QED
      BY <2>1
  <1>2. ASSUME NEW n \in Nat, n \in reached
        PROVE  n + 1 \in reached
    <2>1. PICK sum : UpTo(n, sum)
      BY <1>2
    <2> DEFINE longer ==
                 [i \in 0..(n + 1) |-> IF i <= n THEN sum[i] ELSE sum[n] + orders[n + 1].qty]
    <2>2. UpTo(n + 1, longer)
      BY <2>1
    <2> HIDE DEF UpTo, longer
    <2>3. \E f : UpTo(n + 1, f)
      BY <2>2
    <2> QED
      BY <2>3
  <1>3. Len(orders) \in reached
    <2> HIDE DEF reached
    <2> QED
      BY <1>1, <1>2, NaturalsAreReached
  <1> QED
    BY <1>3 DEF SumOfQty, RunningSum

\* It starts at 0, adds one quantity at a time and never shrinks.
LEMMA RunningSumSteps ==
  ASSUME NEW Entry, Counted(Entry), NEW orders \in Seq(Entry), NEW sum, RunningSum(orders, sum)
  PROVE  /\ sum[0] = 0
         /\ \A i \in 1..Len(orders) : sum[i] = sum[i - 1] + orders[i].qty
         /\ \A i \in 0..Len(orders) : sum[i] \in Nat
         /\ \A i \in 1..Len(orders) : sum[i] > 0
         /\ \A i \in 1..Len(orders) : orders[i].qty \in Nat \ {0}
  <1>1. /\ sum[0] = 0
        /\ \A i \in 1..Len(orders) : sum[i] = sum[i - 1] + orders[i].qty
    BY DEF RunningSum
  <1>2. \A i \in 1..Len(orders) : orders[i].qty \in Nat \ {0}
    BY DEF Counted
  <1> DEFINE typed == {n \in Nat : n <= Len(orders) => sum[n] \in Nat}
  <1>3. 0 \in typed
    BY <1>1
  <1>4. ASSUME NEW n \in Nat, n \in typed
        PROVE  n + 1 \in typed
    <2> SUFFICES ASSUME n + 1 <= Len(orders) PROVE sum[n + 1] \in Nat
      OBVIOUS
    <2>1. n + 1 \in 1..Len(orders) /\ (n + 1) - 1 = n
      OBVIOUS
    <2> QED
      BY <2>1, <1>1, <1>2, <1>4
  <1>5. \A n \in Nat : n \in typed
    <2> HIDE DEF typed
    <2> QED
      BY <1>3, <1>4, NaturalsAreReached
  <1>6. \A i \in 0..Len(orders) : sum[i] \in Nat
    BY <1>5
  <1> QED
    BY <1>1, <1>2, <1>6

\* A sum is a natural, and 0 only for the empty list.
LEMMA SumFacts ==
  ASSUME NEW Entry, Counted(Entry), NEW orders \in Seq(Entry)
  PROVE  /\ SumOfQty(orders) \in Nat
         /\ orders # <<>> => SumOfQty(orders) > 0
         /\ orders = <<>> => SumOfQty(orders) = 0
  <1>1. PICK sum : RunningSum(orders, sum) /\ SumOfQty(orders) = sum[Len(orders)]
    BY SumIsRunning
  <1> QED
    BY <1>1, RunningSumSteps

\* One order more at the back.
LEMMA SumOfAppend ==
  ASSUME NEW Entry, Counted(Entry), NEW orders \in Seq(Entry), NEW order \in Entry
  PROVE  SumOfQty(Append(orders, order)) = SumOfQty(orders) + order.qty
  <1> DEFINE more == Append(orders, order)
  <1>1. /\ more \in Seq(Entry) /\ Len(more) = Len(orders) + 1 /\ Len(orders) \in Nat
        /\ more[Len(orders) + 1] = order
        /\ \A i \in 1..Len(orders) : more[i] = orders[i]
    BY AppendProperties
  <1> HIDE DEF more
  <1>2. PICK sum : RunningSum(orders, sum) /\ SumOfQty(orders) = sum[Len(orders)]
    BY SumIsRunning
  <1>3. PICK new : RunningSum(more, new) /\ SumOfQty(more) = new[Len(more)]
    BY <1>1, SumIsRunning
  <1>4. /\ sum[0] = 0 /\ \A i \in 1..Len(orders) : sum[i] = sum[i - 1] + orders[i].qty
        /\ new[0] = 0 /\ \A i \in 1..(Len(orders) + 1) : new[i] = new[i - 1] + more[i].qty
    BY <1>1, <1>2, <1>3, RunningSumSteps
  <1> DEFINE same == {n \in Nat : n <= Len(orders) => new[n] = sum[n]}
  <1>5. 0 \in same
    BY <1>4
  <1>6. ASSUME NEW n \in Nat, n \in same
        PROVE  n + 1 \in same
    <2> SUFFICES ASSUME n + 1 <= Len(orders) PROVE new[n + 1] = sum[n + 1]
      OBVIOUS
    <2>1. /\ n + 1 \in 1..Len(orders) /\ n + 1 \in 1..(Len(orders) + 1)
          /\ (n + 1) - 1 = n /\ n <= Len(orders)
      OBVIOUS
    <2>2. sum[n + 1] = sum[n] + orders[n + 1].qty /\ new[n + 1] = new[n] + more[n + 1].qty
      BY <2>1, <1>4
    <2>3. more[n + 1] = orders[n + 1] /\ new[n] = sum[n]
      BY <2>1, <1>1, <1>6
    <2> QED
      BY <2>2, <2>3
  <1>7. \A n \in Nat : n \in same
    <2> HIDE DEF same
    <2> QED
      BY <1>5, <1>6, NaturalsAreReached
  <1>8. new[Len(orders)] = sum[Len(orders)]
    BY <1>7
  <1>9. new[Len(orders) + 1] = new[Len(orders)] + more[Len(orders) + 1].qty
    BY <1>4
  <1> QED
    BY <1>1, <1>2, <1>3, <1>8, <1>9 DEF more

\* One order less, wherever it stood.
LEMMA SumOfWithout ==
  ASSUME NEW Entry, Counted(Entry), NEW orders \in Seq(Entry), NEW at \in 1..Len(orders)
  PROVE  SumOfQty(Without(orders, at)) = SumOfQty(orders) - orders[at].qty
  <1> DEFINE left == Without(orders, at)
  <1>1. /\ left \in Seq(Entry) /\ Len(left) = Len(orders) - 1 /\ Len(orders) \in Nat
        /\ \A i \in 1..(Len(orders) - 1) : left[i] = IF i < at THEN orders[i] ELSE orders[i + 1]
    BY WithoutFacts
  <1> HIDE DEF left
  <1>2. PICK sum : RunningSum(orders, sum) /\ SumOfQty(orders) = sum[Len(orders)]
    BY SumIsRunning
  <1>3. PICK new : RunningSum(left, new) /\ SumOfQty(left) = new[Len(left)]
    BY <1>1, SumIsRunning
  <1>4. /\ sum[0] = 0 /\ \A i \in 1..Len(orders) : sum[i] = sum[i - 1] + orders[i].qty
        /\ \A i \in 0..Len(orders) : sum[i] \in Nat
        /\ \A i \in 1..Len(orders) : orders[i].qty \in Nat
        /\ new[0] = 0 /\ \A i \in 1..(Len(orders) - 1) : new[i] = new[i - 1] + left[i].qty
    <2>1. /\ sum[0] = 0 /\ \A i \in 1..Len(orders) : sum[i] = sum[i - 1] + orders[i].qty
          /\ \A i \in 0..Len(orders) : sum[i] \in Nat
          /\ \A i \in 1..Len(orders) : orders[i].qty \in Nat \ {0}
      BY <1>2, RunningSumSteps
    <2>2. new[0] = 0 /\ \A i \in 1..Len(left) : new[i] = new[i - 1] + left[i].qty
      BY <1>1, <1>3, RunningSumSteps
    <2> QED
      BY <1>1, <2>1, <2>2
  <1> DEFINE related == {n \in Nat : n <= Len(orders) - 1 =>
                           new[n] = IF n < at THEN sum[n] ELSE sum[n + 1] - orders[at].qty}
  <1>5. 0 \in related
    BY <1>4
  <1>6. ASSUME NEW n \in Nat, n \in related
        PROVE  n + 1 \in related
    <2> SUFFICES ASSUME n + 1 <= Len(orders) - 1
                 PROVE  new[n + 1] = IF n + 1 < at THEN sum[n + 1]
                                     ELSE sum[(n + 1) + 1] - orders[at].qty
      OBVIOUS
    <2>1. /\ n + 1 \in 1..(Len(orders) - 1) /\ (n + 1) - 1 = n /\ n + 1 \in 1..Len(orders)
          /\ (n + 1) + 1 \in 1..Len(orders) /\ ((n + 1) + 1) - 1 = n + 1
      BY <1>1
    <2>2. /\ new[n + 1] = new[n] + left[n + 1].qty
          /\ sum[n + 1] = sum[n] + orders[n + 1].qty
          /\ sum[(n + 1) + 1] = sum[n + 1] + orders[(n + 1) + 1].qty
          /\ new[n] = IF n < at THEN sum[n] ELSE sum[n + 1] - orders[at].qty
          /\ left[n + 1] = IF n + 1 < at THEN orders[n + 1] ELSE orders[(n + 1) + 1]
          /\ sum[n] \in Nat /\ sum[n + 1] \in Nat /\ orders[(n + 1) + 1].qty \in Nat
          /\ orders[n + 1].qty \in Nat /\ orders[at].qty \in Nat
      BY <2>1, <1>1, <1>4, <1>6
    <2>3. CASE n + 1 < at
      BY <2>2, <2>3
    <2>4. CASE n + 1 = at
      BY <2>2, <2>4
    <2>5. CASE n + 1 > at
      <3>1. ~(n < at) /\ ~(n + 1 < at)
        BY <2>5
      <3>2. /\ new[n] = sum[n + 1] - orders[at].qty
            /\ left[n + 1] = orders[(n + 1) + 1]
        BY <2>2, <3>1
      <3>3. new[n + 1] = (sum[n + 1] - orders[at].qty) + orders[(n + 1) + 1].qty
        BY <2>2, <3>2
      <3>4. new[n + 1] = sum[(n + 1) + 1] - orders[at].qty
        <4>1. /\ sum[(n + 1) + 1] = sum[n + 1] + orders[(n + 1) + 1].qty
              /\ sum[n + 1] \in Nat /\ orders[(n + 1) + 1].qty \in Nat /\ orders[at].qty \in Nat
          BY <2>2, Zenon
        <4> QED
          BY <3>3, <4>1
      <3> QED
        BY <3>1, <3>4
    <2> QED
      BY <2>3, <2>4, <2>5
  <1>7. \A n \in Nat : n \in related
    <2> HIDE DEF related
    <2> QED
      BY <1>5, <1>6, NaturalsAreReached
  <1>8. new[Len(orders) - 1] = IF Len(orders) - 1 < at THEN sum[Len(orders) - 1]
                               ELSE sum[(Len(orders) - 1) + 1] - orders[at].qty
    BY <1>1, <1>7
  <1>9. sum[Len(orders)] = sum[Len(orders) - 1] + orders[Len(orders)].qty
    BY <1>1, <1>4
  <1>10. CASE at = Len(orders)
    <2>1. Len(orders) - 1 \in 0..Len(orders) /\ Len(orders) - 1 < at
      BY <1>10, <1>1
    <2>2. sum[Len(orders) - 1] \in Nat /\ orders[at].qty \in Nat
      BY <2>1, <1>4
    <2> QED
      BY <1>10, <2>1, <2>2, <1>1, <1>2, <1>3, <1>8, <1>9 DEF left
  <1>11. CASE at # Len(orders)
    BY <1>11, <1>1, <1>2, <1>3, <1>8 DEF left
  <1> QED
    BY <1>10, <1>11

\* Another quantity for the first order.
LEMMA SumOfShrunk ==
  ASSUME NEW Entry, Counted(Entry), NEW orders \in Seq(Entry), orders # <<>>,
         NEW new \in Seq(Entry), Len(new) = Len(orders),
         \A i \in 2..Len(orders) : new[i] = orders[i]
  PROVE  SumOfQty(new) = SumOfQty(orders) - orders[1].qty + new[1].qty
  <1>1. PICK before : RunningSum(orders, before) /\ SumOfQty(orders) = before[Len(orders)]
    BY SumIsRunning
  <1>2. PICK after : RunningSum(new, after) /\ SumOfQty(new) = after[Len(new)]
    BY SumIsRunning
  <1>3. /\ before[0] = 0
        /\ \A i \in 1..Len(orders) : before[i] = before[i - 1] + orders[i].qty
        /\ after[0] = 0
        /\ \A i \in 1..Len(orders) : after[i] = after[i - 1] + new[i].qty
        /\ \A i \in 0..Len(orders) : before[i] \in Nat
        /\ \A i \in 1..Len(orders) : orders[i].qty \in Nat /\ new[i].qty \in Nat
    BY <1>1, <1>2, RunningSumSteps
  <1> DEFINE shift   == new[1].qty - orders[1].qty
             shifted == {n \in Nat : n + 1 <= Len(orders) => after[n + 1] = before[n + 1] + shift}
  <1>4. 1 \in 1..Len(orders) /\ Len(orders) \in Nat /\ shift \in Int
    BY <1>3
  <1>5. 0 \in shifted
    <2>1. /\ after[1] = after[0] + new[1].qty /\ before[1] = before[0] + orders[1].qty
          /\ orders[1].qty \in Nat /\ new[1].qty \in Nat
      <3>1. 1 - 1 = 0
        OBVIOUS
      <3> HIDE DEF shift, shifted
      <3> QED
        BY <3>1, <1>3, <1>4
    <2>2. after[1] = new[1].qty /\ before[1] = orders[1].qty
      BY <2>1, <1>3
    <2>3. after[0 + 1] = before[0 + 1] + shift
      BY <2>1, <2>2
    <2> QED
      BY <2>3
  <1>6. ASSUME NEW n \in Nat, n \in shifted
        PROVE  n + 1 \in shifted
    <2> SUFFICES ASSUME (n + 1) + 1 <= Len(orders)
                 PROVE  after[(n + 1) + 1] = before[(n + 1) + 1] + shift
      OBVIOUS
    <2>1. /\ (n + 1) + 1 \in 2..Len(orders) /\ (n + 1) + 1 \in 1..Len(orders)
          /\ ((n + 1) + 1) - 1 = n + 1 /\ n + 1 \in 0..Len(orders)
      BY <1>4
    <2>2. /\ after[(n + 1) + 1] = after[n + 1] + new[(n + 1) + 1].qty
          /\ before[(n + 1) + 1] = before[n + 1] + orders[(n + 1) + 1].qty
          /\ new[(n + 1) + 1] = orders[(n + 1) + 1]
          /\ after[n + 1] = before[n + 1] + shift
          /\ before[n + 1] \in Nat /\ orders[(n + 1) + 1].qty \in Nat
      BY <2>1, <1>3, <1>6
    <2> HIDE DEF shift
    <2> QED
      BY <2>2, <1>4
  <1>7. \A n \in Nat : n \in shifted
    <2> HIDE DEF shifted
    <2> QED
      BY <1>5, <1>6, NaturalsAreReached
  <1>8. after[Len(orders)] = before[Len(orders)] + shift
    <2>1. Len(orders) - 1 \in Nat /\ (Len(orders) - 1) + 1 = Len(orders)
      BY <1>4
    <2>2. Len(orders) - 1 \in shifted
      BY <2>1, <1>7
    <2> QED
      BY <2>1, <2>2
  <1> QED
    BY <1>1, <1>2, <1>3, <1>4, <1>8

-------------------------------------------------------------------------------
(***************************************************************************)
(* Lists put end to end.                                                   *)
(***************************************************************************)
ListsIn(S, lists, n) == \A k \in 1..n : lists[k] \in Seq(S)

\* q is the lists 1..n one after the other; the list k ends at ends[k].
EndToEnd(lists, n, ends, q) ==
  /\ ends[0] = 0 /\ ends[n] = Len(q)
  /\ \A k \in 0..n : ends[k] \in Nat
  /\ \A k \in 1..n : ends[k] = ends[k - 1] + Len(lists[k])
  /\ \A k \in 1..n : \A j \in 1..Len(lists[k]) : q[ends[k - 1] + j] = lists[k][j]

\* Each list has a length.
LEMMA LenOfList ==
  ASSUME NEW S, NEW n \in Nat, NEW lists, ListsIn(S, lists, n)
  PROVE  \A k \in 1..n : lists[k] \in Seq(S) /\ Len(lists[k]) \in Nat
  BY LenProperties DEF ListsIn

\* Later lists end later.
LEMMA EndsGrow ==
  ASSUME NEW S, NEW n \in Nat, NEW lists, ListsIn(S, lists, n), NEW ends, NEW q,
         EndToEnd(lists, n, ends, q), NEW k \in 0..n, NEW m \in 0..n, k <= m
  PROVE  ends[k] <= ends[m]
  <1> DEFINE good == {i \in Nat : k <= i /\ i <= n => ends[k] <= ends[i]}
  <1>1. \A i \in 0..n : ends[i] \in Nat
    BY DEF EndToEnd
  <1>2. 0 \in good
    BY <1>1
  <1>3. ASSUME NEW i \in Nat, i \in good
        PROVE  i + 1 \in good
    <2> SUFFICES ASSUME k <= i + 1, i + 1 <= n PROVE ends[k] <= ends[i + 1]
      OBVIOUS
    <2>1. i + 1 \in 1..n /\ (i + 1) - 1 = i /\ i \in 0..n
      OBVIOUS
    <2>2. ends[i + 1] = ends[i] + Len(lists[i + 1]) /\ Len(lists[i + 1]) \in Nat
      BY <2>1, LenOfList DEF EndToEnd
    <2>3. CASE k = i + 1
      BY <2>3, <1>1
    <2>4. CASE k <= i
      BY <2>1, <2>2, <2>4, <1>1, <1>3
    <2> QED
      BY <2>3, <2>4
  <1>4. \A i \in Nat : i \in good
    <2> HIDE DEF good
    <2> QED
      BY <1>2, <1>3, NaturalsAreReached
  <1> QED
    BY <1>4

\* The place i of q is a place in one of the lists.
InList(lists, n, ends, q, i) ==
  \E k \in 1..n : \E j \in 1..Len(lists[k]) : i = ends[k - 1] + j /\ q[i] = lists[k][j]

\* Every place of the whole is a place of one of the lists.
LEMMA PlaceInList ==
  ASSUME NEW S, NEW n \in Nat, NEW lists, ListsIn(S, lists, n), NEW ends, NEW q,
         EndToEnd(lists, n, ends, q), NEW i \in 1..Len(q)
  PROVE  InList(lists, n, ends, q, i)
  <1> DEFINE after == {k \in 0..n : i <= ends[k]}
  <1>1. /\ ends[0] = 0 /\ ends[n] = Len(q) /\ n \in 0..n
        /\ \A k \in 0..n : ends[k] \in Nat
    BY DEF EndToEnd
  <1>2. n \in after /\ after \subseteq Nat /\ after # {}
    BY <1>1
  <1>3. PICK k \in after : \A m \in after : k <= m
    BY <1>2, SmallestExists
  <1>4. k \in 0..n /\ i <= ends[k]
    OBVIOUS
  <1>5. k # 0
    BY <1>1, <1>4
  <1>6. k \in 1..n /\ k - 1 \in 0..n
    BY <1>4, <1>5
  <1>7. k - 1 \notin after
    <2>1. ~(k <= k - 1)
      BY <1>6
    <2> HIDE DEF after
    <2> QED
      BY <2>1, <1>3
  <1>8. ends[k - 1] < i
    BY <1>1, <1>6, <1>7
  <1> HIDE DEF after
  <1>9. ends[k] = ends[k - 1] + Len(lists[k]) /\ Len(lists[k]) \in Nat /\ ends[k - 1] \in Nat
    BY <1>6, LenOfList DEF EndToEnd
  <1> DEFINE j == i - ends[k - 1]
  <1>10. j \in 1..Len(lists[k]) /\ i = ends[k - 1] + j
    BY <1>4, <1>8, <1>9
  <1> HIDE DEF j
  <1>11. q[i] = lists[k][j]
    BY <1>6, <1>10, LenOfList DEF EndToEnd
  <1> QED
    BY <1>6, <1>10, <1>11 DEF InList

\* The place of the j-th entry of the list k.
Within(ends, q, k, j) ==
  /\ k - 1 \in Nat /\ ends[k - 1] \in Nat /\ ends[k] \in Nat /\ j \in Nat /\ Len(q) \in Nat
  /\ 1 <= j /\ ends[k - 1] + j <= ends[k] /\ ends[k] <= Len(q)

\* A place of a list is a place of the whole, between the ends of the lists.
LEMMA PlaceIsWithin ==
  ASSUME NEW S, NEW n \in Nat, NEW lists, ListsIn(S, lists, n), NEW ends, NEW q,
         EndToEnd(lists, n, ends, q), NEW k \in 1..n, NEW j \in 1..Len(lists[k])
  PROVE  Within(ends, q, k, j)
  <1>1. k \in 0..n /\ k - 1 \in 0..n /\ n \in 0..n /\ k <= n
    OBVIOUS
  <1>2. ends[k - 1] \in Nat /\ ends[k] \in Nat /\ ends[n] = Len(q) /\ ends[n] \in Nat
    BY <1>1 DEF EndToEnd
  <1>3. ends[k] = ends[k - 1] + Len(lists[k]) /\ Len(lists[k]) \in Nat
    BY LenOfList DEF EndToEnd
  <1>4. j \in Nat /\ 1 <= j /\ j <= Len(lists[k])
    BY <1>3
  <1>5. ends[k] <= ends[n]
    BY <1>1, EndsGrow
  <1>6. ends[k - 1] + j <= ends[k]
    BY <1>2, <1>3, <1>4
  <1> QED
    BY <1>1, <1>2, <1>4, <1>5, <1>6 DEF Within

\* There is only one way to put lists end to end.
LEMMA JoinedOnce ==
  ASSUME NEW S, NEW n \in Nat, NEW lists, ListsIn(S, lists, n),
         NEW e1, NEW q1 \in Seq(S), EndToEnd(lists, n, e1, q1),
         NEW e2, NEW q2 \in Seq(S), EndToEnd(lists, n, e2, q2)
  PROVE  q1 = q2
  <1> DEFINE same == {k \in Nat : k <= n => e1[k] = e2[k]}
  <1>1. 0 \in same
    BY DEF EndToEnd
  <1>2. ASSUME NEW k \in Nat, k \in same
        PROVE  k + 1 \in same
    <2> SUFFICES ASSUME k + 1 <= n PROVE e1[k + 1] = e2[k + 1]
      OBVIOUS
    <2>1. k + 1 \in 1..n /\ (k + 1) - 1 = k
      OBVIOUS
    <2>2. /\ e1[k + 1] = e1[k] + Len(lists[k + 1])
          /\ e2[k + 1] = e2[k] + Len(lists[k + 1])
      BY <2>1, LenOfList DEF EndToEnd
    <2> QED
      BY <2>2, <1>2
  <1>3. \A k \in Nat : k \in same
    <2> HIDE DEF same
    <2> QED
      BY <1>1, <1>2, NaturalsAreReached
  <1>4. \A k \in 0..n : e1[k] = e2[k]
    BY <1>3
  <1>5. Len(q1) = Len(q2)
    <2>1. e1[n] = e2[n]
      <3>1. n \in 0..n
        OBVIOUS
      <3> QED
        BY <1>4, <3>1, Zenon
    <2>2. Len(q1) = e1[n] /\ Len(q2) = e2[n]
      BY Zenon DEF EndToEnd
    <2> QED
      BY <2>1, <2>2, Zenon
  <1>6. ASSUME NEW i \in 1..Len(q1)
        PROVE  q1[i] = q2[i]
    <2>1. InList(lists, n, e1, q1, i)
      BY PlaceInList
    <2>2. PICK k \in 1..n : \E j \in 1..Len(lists[k]) : i = e1[k - 1] + j /\ q1[i] = lists[k][j]
      BY <2>1 DEF InList
    <2>3. PICK j \in 1..Len(lists[k]) : i = e1[k - 1] + j /\ q1[i] = lists[k][j]
      BY <2>2
    <2>4. q2[e2[k - 1] + j] = lists[k][j] /\ k - 1 \in 0..n
      BY LenOfList DEF EndToEnd
    <2> QED
      BY <2>3, <2>4, <1>4
  <1> QED
    BY <1>5, <1>6, SeqEqual

\* Putting them end to end one by one.
Flattened(lists, n, flat) ==
  flat = [k \in 1..n |-> IF k = 1 THEN lists[k] ELSE flat[k - 1] \o lists[k]]

\* They exist for every number of lists.
LEMMA FlattenedExists ==
  ASSUME NEW lists, NEW n \in Nat \ {0}
  PROVE  \E flat : Flattened(lists, n, flat)
  <1> DEFINE UpTo(m, flat) ==
               flat = [k \in 1..(m + 1) |-> IF k = 1 THEN lists[k] ELSE flat[k - 1] \o lists[k]]
             reached == {m \in Nat : \E flat : UpTo(m, flat)}
  <1>1. 0 \in reached
    <2>1. UpTo(0, [k \in 1..1 |-> lists[k]])
      OBVIOUS
    <2> QED
      BY <2>1
  <1>2. ASSUME NEW m \in Nat, m \in reached
        PROVE  m + 1 \in reached
    <2>1. PICK flat : UpTo(m, flat)
      BY <1>2
    <2> DEFINE longer ==
                 [k \in 1..((m + 1) + 1) |->
                    IF k <= m + 1 THEN flat[k] ELSE flat[m + 1] \o lists[(m + 1) + 1]]
    <2>2. UpTo(m + 1, longer)
      <3>1. \A k \in 1..(m + 1) : flat[k] = IF k = 1 THEN lists[k] ELSE flat[k - 1] \o lists[k]
        BY <2>1
      <3> DEFINE next == [k \in 1..((m + 1) + 1) |->
                            IF k = 1 THEN lists[k] ELSE longer[k - 1] \o lists[k]]
      <3>2. ASSUME NEW k \in 1..((m + 1) + 1)
            PROVE  longer[k] = next[k]
        <4>1. CASE k <= m + 1
          <5>1. k \in 1..(m + 1) /\ longer[k] = flat[k]
            BY <4>1
          <5>2. k # 1 => k - 1 \in 1..((m + 1) + 1) /\ k - 1 <= m + 1 /\ longer[k - 1] = flat[k - 1]
            BY <4>1
          <5>3. next[k] = IF k = 1 THEN lists[k] ELSE longer[k - 1] \o lists[k]
            OBVIOUS
          <5> HIDE DEF longer, next
          <5>4. flat[k] = IF k = 1 THEN lists[k] ELSE flat[k - 1] \o lists[k]
            BY <5>1, <3>1
          <5>5. CASE k = 1
            BY <5>1, <5>3, <5>4, <5>5
          <5>6. CASE k # 1
            <6>1. longer[k - 1] = flat[k - 1]
              BY <5>2, <5>6
            <6> QED
              BY <5>1, <5>3, <5>4, <5>6, <6>1
          <5> QED
            BY <5>5, <5>6
        <4>2. CASE k = (m + 1) + 1
          <5>1. /\ k # 1 /\ ~(k <= m + 1) /\ k - 1 = m + 1 /\ m + 1 \in 1..((m + 1) + 1)
            BY <4>2
          <5>2. longer[k] = flat[m + 1] \o lists[k]
            BY <4>2, <5>1
          <5>3. longer[m + 1] = flat[m + 1]
            BY <5>1
          <5>4. next[k] = longer[m + 1] \o lists[k]
            BY <5>1
          <5> QED
            BY <5>2, <5>3, <5>4
        <4> QED
          BY <4>1, <4>2
      <3>3. longer = next
        BY <3>2
      <3> QED
        BY <3>3
    <2> HIDE DEF UpTo, longer
    <2>3. \E f : UpTo(m + 1, f)
      BY <2>2
    <2> QED
      BY <2>3
  <1>3. n - 1 \in reached
    <2> HIDE DEF reached
    <2> QED
      BY <1>1, <1>2, NaturalsAreReached
  <1>4. PICK flat : UpTo(n - 1, flat)
    BY <1>3
  <1>5. Flattened(lists, n, flat)
    <2>1. (n - 1) + 1 = n
      OBVIOUS
    <2> QED
      BY <1>4, <2>1 DEF Flattened
  <1> QED
    BY <1>5

\* One list more at the end.
LEMMA JoinedMore ==
  ASSUME NEW S, NEW m \in Nat, NEW lists, ListsIn(S, lists, m + 1), NEW ends, NEW q \in Seq(S),
         EndToEnd(lists, m, ends, q), ends[m + 1] = Len(q \o lists[m + 1])
  PROVE  EndToEnd(lists, m + 1, ends, q \o lists[m + 1])
  <1> DEFINE last == lists[m + 1]
             more == q \o last
  <1>1. /\ ListsIn(S, lists, m) /\ m + 1 \in 1..(m + 1) /\ (m + 1) - 1 = m
        /\ \A k \in 1..m : k \in 1..(m + 1)
    BY DEF ListsIn
  <1>2. \A k \in 1..(m + 1) : lists[k] \in Seq(S) /\ Len(lists[k]) \in Nat
    BY LenOfList
  <1>3. last \in Seq(S) /\ Len(last) \in Nat /\ Len(q) \in Nat
    BY <1>1, <1>2, LenProperties
  <1> HIDE DEF last
  <1>4. /\ more \in Seq(S) /\ Len(more) = Len(q) + Len(last)
        /\ \A i \in 1..(Len(q) + Len(last)) : more[i] = IF i <= Len(q) THEN q[i] ELSE last[i - Len(q)]
    BY <1>3, ConcatProperties
  <1>5. ends[m + 1] = Len(more)
    BY DEF last
  <1> HIDE DEF more
  <1>6. /\ ends[0] = 0 /\ ends[m] = Len(q)
        /\ \A k \in 0..m : ends[k] \in Nat
        /\ \A k \in 1..m : ends[k] = ends[k - 1] + Len(lists[k])
        /\ \A k \in 1..m : \A j \in 1..Len(lists[k]) : q[ends[k - 1] + j] = lists[k][j]
    BY DEF EndToEnd
  <1>7. \A k \in 0..(m + 1) : ends[k] \in Nat
    BY <1>3, <1>4, <1>5, <1>6
  <1>8. \A k \in 1..(m + 1) : ends[k] = ends[k - 1] + Len(lists[k])
    <2>1. ends[m + 1] = ends[(m + 1) - 1] + Len(lists[m + 1])
      BY <1>1, <1>4, <1>5, <1>6 DEF last
    <2> QED
      BY <2>1, <1>6
  <1>9. ASSUME NEW k \in 1..(m + 1), NEW j \in 1..Len(lists[k])
        PROVE  more[ends[k - 1] + j] = lists[k][j]
    <2>1. CASE k = m + 1
      <3>1. ends[k - 1] = Len(q) /\ j \in 1..Len(last) /\ lists[k][j] = last[j]
        BY <2>1, <1>1, <1>6 DEF last
      <3>2. /\ Len(q) + j \in 1..(Len(q) + Len(last)) /\ ~(Len(q) + j <= Len(q))
            /\ (Len(q) + j) - Len(q) = j
        BY <3>1, <1>3
      <3> QED
        BY <3>1, <3>2, <1>4
    <2>2. CASE k # m + 1
      <3>1. k \in 1..m /\ k - 1 \in 0..m /\ k \in 0..m /\ m \in 0..m
        BY <2>2
      <3>2. ends[k] <= ends[m]
        BY <3>1, <1>1, EndsGrow
      <3>3. ends[k] = ends[k - 1] + Len(lists[k]) /\ Len(lists[k]) \in Nat
        BY <3>1, <1>2, <1>6
      <3>4. ends[k - 1] + j \in 1..(Len(q) + Len(last)) /\ ends[k - 1] + j <= Len(q)
        <4>1. ends[k - 1] \in Nat /\ ends[m] = Len(q)
          BY <3>1, <1>6
        <4>2. j \in Nat /\ 1 <= j /\ j <= Len(lists[k])
          BY <3>3
        <4>3. ends[k - 1] + j <= ends[k - 1] + Len(lists[k])
          BY <4>1, <4>2, <3>3
        <4>4. ends[k - 1] + j <= Len(q)
          <5>1. ends[k - 1] + Len(lists[k]) <= Len(q)
            BY <4>1, <3>2, <3>3, Zenon
          <5> QED
            BY <4>1, <4>2, <4>3, <5>1, <3>3, <1>3
        <4> QED
          BY <4>1, <4>2, <4>4, <1>3
      <3>5. more[ends[k - 1] + j] = q[ends[k - 1] + j]
        BY <3>4, <1>4
      <3>6. q[ends[k - 1] + j] = lists[k][j]
        BY <3>1, <1>6
      <3> QED
        BY <3>5, <3>6
    <2> QED
      BY <2>1, <2>2
  <1>10. EndToEnd(lists, m + 1, ends, more)
    BY <1>5, <1>6, <1>7, <1>8, <1>9 DEF EndToEnd
  <1> QED
    BY <1>10 DEF more, last

\* The last of them is the lists put end to end.
LEMMA FlattenedIsJoined ==
  ASSUME NEW S, NEW n \in Nat \ {0}, NEW lists, ListsIn(S, lists, n),
         NEW flat, Flattened(lists, n, flat)
  PROVE  flat[n] \in Seq(S) /\ \E ends : EndToEnd(lists, n, ends, flat[n])
  <1> DEFINE ends == [k \in 0..n |-> IF k = 0 THEN 0 ELSE Len(flat[k])]
             good == {m \in Nat : m + 1 <= n =>
                        flat[m + 1] \in Seq(S) /\ EndToEnd(lists, m + 1, ends, flat[m + 1])}
  <1>1. \A k \in 1..n : flat[k] = IF k = 1 THEN lists[k] ELSE flat[k - 1] \o lists[k]
    BY DEF Flattened
  <1>2. ends[0] = 0 /\ \A k \in 1..n : ends[k] = Len(flat[k])
    OBVIOUS
  <1> HIDE DEF ends
  <1>3. \A k \in 1..n : lists[k] \in Seq(S) /\ Len(lists[k]) \in Nat
    BY LenOfList
  <1>4. 0 \in good
    <2>1. flat[1] = lists[1] /\ lists[1] \in Seq(S) /\ Len(lists[1]) \in Nat
      BY <1>1, <1>3
    <2>2. ends[0] = 0 /\ ends[1] = Len(lists[1])
      BY <2>1, <1>2
    <2>3. EndToEnd(lists, 1, ends, lists[1])
      <3>1. \A k \in 0..1 : ends[k] \in Nat
        BY <2>1, <2>2
      <3>2. \A k \in 1..1 : k = 1 /\ k - 1 = 0
        OBVIOUS
      <3>3. \A k \in 1..1 : ends[k] = ends[k - 1] + Len(lists[k])
        BY <2>1, <2>2, <3>2
      <3>4. \A k \in 1..1 : \A j \in 1..Len(lists[k]) : lists[1][ends[k - 1] + j] = lists[k][j]
        <4>1. \A j \in 1..Len(lists[1]) : ends[0] + j = j
          BY <2>1, <2>2
        <4> QED
          BY <3>2, <4>1
      <3> QED
        BY <2>2, <3>1, <3>3, <3>4 DEF EndToEnd
    <2> QED
      BY <2>1, <2>3
  <1>5. ASSUME NEW m \in Nat, m \in good
        PROVE  m + 1 \in good
    <2> SUFFICES ASSUME (m + 1) + 1 <= n
                 PROVE  /\ flat[(m + 1) + 1] \in Seq(S)
                        /\ EndToEnd(lists, (m + 1) + 1, ends, flat[(m + 1) + 1])
      OBVIOUS
    <2> DEFINE p == m + 1
               q == flat[p]
    <2>1. p \in Nat /\ p + 1 \in 1..n /\ (p + 1) - 1 = p /\ p + 1 # 1
      OBVIOUS
    <2>2. flat[p + 1] = q \o lists[p + 1] /\ lists[p + 1] \in Seq(S)
      BY <2>1, <1>1, <1>3
    <2>3. q \in Seq(S) /\ EndToEnd(lists, p, ends, q)
      BY <1>5
    <2>4. ends[p + 1] = Len(q \o lists[p + 1])
      BY <2>1, <2>2, <1>2
    <2>5. ListsIn(S, lists, p + 1)
      BY <2>1 DEF ListsIn
    <2> HIDE DEF p, q
    <2>6. EndToEnd(lists, p + 1, ends, q \o lists[p + 1])
      BY <2>1, <2>3, <2>4, <2>5, JoinedMore
    <2>7. q \o lists[p + 1] \in Seq(S)
      BY <2>2, <2>3, ConcatProperties
    <2> QED
      BY <2>2, <2>6, <2>7 DEF p
  <1>6. \A m \in Nat : m \in good
    <2> HIDE DEF good
    <2> QED
      BY <1>4, <1>5, NaturalsAreReached
  <1>7. n - 1 \in Nat /\ (n - 1) + 1 = n
    OBVIOUS
  <1>8. flat[n] \in Seq(S) /\ EndToEnd(lists, n, ends, flat[n])
    <2>1. n - 1 \in good
      BY <1>6, <1>7
    <2> QED
      BY <2>1, <1>7
  <1> QED
    BY <1>8

(***************************************************************************)
(* One of the lists changes, and so does what they make end to end.        *)
(***************************************************************************)
\* The list r loses its entry j.
LessAt(lists, n, r, j, new) ==
  \A k \in 1..n : new[k] = IF k = r THEN Without(lists[r], j) ELSE lists[k]

\* With one entry less in one list, the whole has lost the entry at its place.
LEMMA JoinedWithout ==
  ASSUME NEW S, NEW n \in Nat, NEW lists, ListsIn(S, lists, n), NEW ends, NEW q \in Seq(S),
         EndToEnd(lists, n, ends, q), NEW r \in 1..n, NEW j \in 1..Len(lists[r]),
         NEW new, LessAt(lists, n, r, j, new)
  PROVE  ListsIn(S, new, n) /\ \E e : EndToEnd(new, n, e, Without(q, ends[r - 1] + j))
  <1> DEFINE at == ends[r - 1] + j
             e  == [k \in 0..n |-> IF k < r THEN ends[k] ELSE ends[k] - 1]
             less == Without(q, at)
             rest == Without(lists[r], j)
  <1>1. /\ at \in 1..Len(q) /\ at <= ends[r] /\ ends[r - 1] < at
        /\ ends[r - 1] \in Nat /\ ends[r] \in Nat /\ Len(q) \in Nat
    <2>1. Within(ends, q, r, j)
      BY PlaceIsWithin
    <2> QED
      BY <2>1 DEF Within
  <1>2. \A k \in 0..n : e[k] = IF k < r THEN ends[k] ELSE ends[k] - 1
    OBVIOUS
  <1> HIDE DEF at, e
  <1>3. /\ less \in Seq(S) /\ Len(less) = Len(q) - 1
        /\ \A i \in 1..(Len(q) - 1) : less[i] = IF i < at THEN q[i] ELSE q[i + 1]
    BY <1>1, WithoutFacts
  <1>4. \A k \in 1..n : lists[k] \in Seq(S) /\ Len(lists[k]) \in Nat
    BY LenOfList
  <1>5. /\ rest \in Seq(S) /\ Len(rest) = Len(lists[r]) - 1
        /\ \A i \in 1..(Len(lists[r]) - 1) :
             rest[i] = IF i < j THEN lists[r][i] ELSE lists[r][i + 1]
    BY <1>4, WithoutFacts
  <1> HIDE DEF less, rest
  <1>6. new[r] = rest /\ \A k \in 1..n : k # r => new[k] = lists[k]
    BY DEF LessAt, rest
  <1>7. ListsIn(S, new, n)
    BY <1>4, <1>5, <1>6 DEF ListsIn
  <1>8. /\ ends[0] = 0 /\ ends[n] = Len(q)
        /\ \A k \in 0..n : ends[k] \in Nat
        /\ \A k \in 1..n : ends[k] = ends[k - 1] + Len(lists[k])
        /\ \A k \in 1..n : \A i \in 1..Len(lists[k]) : q[ends[k - 1] + i] = lists[k][i]
    BY DEF EndToEnd
  <1>9. \A k \in 0..n : k >= r => ends[k] >= at
    <2> SUFFICES ASSUME NEW k \in 0..n, k >= r PROVE ends[k] >= at
      OBVIOUS
    <2>1. r \in 0..n /\ r <= k
      OBVIOUS
    <2>2. ends[r] <= ends[k]
      BY <2>1, EndsGrow
    <2>3. ends[k] \in Nat /\ at \in Nat
      BY <1>1, <1>8
    <2> QED
      BY <2>2, <2>3, <1>1
  <1>10. e[0] = 0 /\ e[n] = Len(less) /\ \A k \in 0..n : e[k] \in Nat
    <2>1. ASSUME NEW k \in 0..n PROVE e[k] \in Nat
      <3>1. e[k] = IF k < r THEN ends[k] ELSE ends[k] - 1
        BY <1>2
      <3>2. ends[k] \in Nat /\ (k >= r => ends[k] >= at) /\ at \in Nat \ {0}
        BY <1>1, <1>8, <1>9
      <3> QED
        BY <3>1, <3>2
    <2>2. 0 \in 0..n /\ n \in 0..n /\ 0 < r /\ ~(n < r)
      OBVIOUS
    <2> QED
      BY <2>1, <2>2, <1>2, <1>3, <1>8
  <1>11. ASSUME NEW k \in 1..n
         PROVE  e[k] = e[k - 1] + Len(new[k])
    <2>1. k \in 0..n /\ k - 1 \in 0..n /\ ends[k] \in Nat /\ ends[k - 1] \in Nat
      BY <1>8
    <2>2. ends[k] = ends[k - 1] + Len(lists[k]) /\ Len(lists[k]) \in Nat
      BY <1>4, <1>8
    <2>3. /\ e[k] = IF k < r THEN ends[k] ELSE ends[k] - 1
          /\ e[k - 1] = IF k - 1 < r THEN ends[k - 1] ELSE ends[k - 1] - 1
      BY <2>1, <1>2
    <2>4. CASE k = r
      BY <2>1, <2>2, <2>3, <2>4, <1>5, <1>6
    <2>5. CASE k # r
      <3>1. new[k] = lists[k]
        BY <2>5, <1>6
      <3>2. k < r \/ (~(k < r) /\ ~(k - 1 < r))
        BY <2>5
      <3> QED
        BY <2>1, <2>2, <2>3, <2>5, <3>1, <3>2
    <2> QED
      BY <2>4, <2>5
  <1>12. ASSUME NEW k \in 1..n, NEW i \in 1..Len(new[k])
         PROVE  less[e[k - 1] + i] = new[k][i]
    <2>1. /\ k \in 0..n /\ k - 1 \in 0..n /\ ends[k] \in Nat /\ ends[k - 1] \in Nat
          /\ e[k - 1] = IF k - 1 < r THEN ends[k - 1] ELSE ends[k - 1] - 1
      BY <1>2, <1>8
    <2>2. CASE k = r
      <3>1. /\ e[k - 1] = ends[r - 1] /\ i \in 1..(Len(lists[r]) - 1)
            /\ new[k][i] = IF i < j THEN lists[r][i] ELSE lists[r][i + 1]
        BY <2>1, <2>2, <1>5, <1>6
      <3>2. i \in 1..Len(lists[r]) /\ i + 1 \in 1..Len(lists[r])
        BY <3>1, <1>4
      <3>3. /\ q[ends[r - 1] + i] = lists[r][i]
            /\ q[ends[r - 1] + (i + 1)] = lists[r][i + 1]
        BY <3>2, <1>8
      <3> DEFINE p == ends[r - 1] + i
      <3>4. ends[r - 1] + (i + 1) <= Len(q)
        <4>1. Within(ends, q, r, i + 1)
          BY <3>2, PlaceIsWithin
        <4> QED
          BY <4>1 DEF Within
      <3>5. /\ p \in 1..(Len(q) - 1) /\ p + 1 = ends[r - 1] + (i + 1)
            /\ p < at <=> i < j
        <4> DEFINE low == ends[r - 1]
                   len == Len(q)
        <4>1. i \in Nat /\ 1 <= i /\ j \in Nat
          BY <3>1, <1>4
        <4>2. low \in Nat /\ len \in Nat /\ low + (i + 1) <= len
          BY <3>4, <1>1
        <4>3. p = low + i /\ at = low + j
          BY DEF at
        <4> HIDE DEF low, len, p
        <4>4. p \in 1..(len - 1) /\ p + 1 = low + (i + 1) /\ (p < at <=> i < j)
          BY <4>1, <4>2, <4>3
        <4> QED
          BY <4>4 DEF low, len
      <3>6. less[p] = IF p < at THEN q[p] ELSE q[p + 1]
        BY <3>5, <1>3
      <3> QED
        BY <3>1, <3>3, <3>5, <3>6
    <2>3. CASE k # r
      <3>1. new[k] = lists[k] /\ i \in 1..Len(lists[k])
        BY <2>3, <1>6
      <3>2. q[ends[k - 1] + i] = lists[k][i]
        BY <3>1, <1>8
      <3>3. /\ ends[k - 1] + i <= ends[k] /\ ends[k] <= Len(q) /\ i \in Nat /\ 1 <= i
        <4>1. Within(ends, q, k, i)
          BY <3>1, PlaceIsWithin
        <4> QED
          BY <4>1 DEF Within
      <3>4. CASE k < r
        <4>1. e[k - 1] = ends[k - 1]
          BY <2>1, <3>4
        <4>2. ends[k] <= ends[r - 1]
          <5>1. r - 1 \in 0..n /\ k <= r - 1
            BY <3>4
          <5> QED
            BY <5>1, <2>1, EndsGrow
        <4> DEFINE p == ends[k - 1] + i
        <4>3. p \in 1..(Len(q) - 1) /\ p < at
          <5>1. p \in Nat /\ 1 <= p /\ p <= ends[k]
            BY <3>3, <2>1
          <5>2. ends[k] < at
            BY <4>2, <2>1, <1>1
          <5> HIDE DEF p
          <5> QED
            BY <5>1, <5>2, <2>1, <1>1
        <4>4. less[p] = q[p]
          BY <4>3, <1>3
        <4> QED
          BY <4>1, <4>4, <3>1, <3>2
      <3>5. CASE k > r
        <4>1. e[k - 1] = ends[k - 1] - 1 /\ ends[k - 1] >= at
          BY <2>1, <3>5, <1>9
        <4> DEFINE p == (ends[k - 1] - 1) + i
        <4>2. p \in 1..(Len(q) - 1) /\ ~(p < at) /\ p + 1 = ends[k - 1] + i
          <5> DEFINE low  == ends[k - 1]
                     high == ends[k]
                     len  == Len(q)
          <5>1. /\ low \in Nat /\ high \in Nat /\ len \in Nat /\ at \in Nat \ {0}
                /\ low >= at /\ low + i <= high /\ high <= len /\ i \in Nat /\ 1 <= i
            BY <4>1, <3>3, <2>1, <1>1
          <5>2. p = (low - 1) + i
            OBVIOUS
          <5> HIDE DEF low, high, len, p
          <5>3. p \in 1..(len - 1) /\ ~(p < at) /\ p + 1 = low + i
            BY <5>1, <5>2
          <5> QED
            BY <5>3 DEF low, len
        <4>3. less[p] = q[p + 1]
          BY <4>2, <1>3
        <4> QED
          BY <4>1, <4>2, <4>3, <3>1, <3>2
      <3> QED
        BY <2>3, <3>4, <3>5
    <2> QED
      BY <2>2, <2>3
  <1>13. EndToEnd(new, n, e, less)
    BY <1>10, <1>11, <1>12 DEF EndToEnd
  <1> QED
    BY <1>7, <1>13 DEF less, at

\* x stands before what was the i-th entry.
Inserted(s, i, x) == SubSeq(s, 1, i - 1) \o <<x>> \o SubSeq(s, i, Len(s))

\* Its length and its entries.
LEMMA InsertedFacts ==
  ASSUME NEW S, NEW s \in Seq(S), NEW i \in 1..(Len(s) + 1), NEW x \in S
  PROVE  /\ Inserted(s, i, x) \in Seq(S)
         /\ Len(Inserted(s, i, x)) = Len(s) + 1
         /\ \A j \in 1..(Len(s) + 1) :
              Inserted(s, i, x)[j] = IF j < i THEN s[j] ELSE IF j = i THEN x ELSE s[j - 1]
  <1> DEFINE front == SubSeq(s, 1, i - 1)
             back  == SubSeq(s, i, Len(s))
             most  == front \o <<x>>
             len   == Len(s)
  <1>1. len \in Nat /\ i \in Nat /\ 1 <= i /\ i <= len + 1
    BY LenProperties
  <1>2. front \in Seq(S) /\ Len(front) = i - 1 /\ \A j \in 1..(i - 1) : front[j] = s[j]
    OBVIOUS
  <1>3. /\ back \in Seq(S) /\ Len(back) = (len - i) + 1
        /\ \A j \in 1..((len - i) + 1) : back[j] = s[(i + j) - 1]
    OBVIOUS
  <1>4. <<x>> \in Seq(S) /\ Len(<<x>>) = 1 /\ <<x>>[1] = x
    OBVIOUS
  <1> HIDE DEF front, back, len
  <1>5. /\ most \in Seq(S) /\ Len(most) = i
        /\ \A j \in 1..(i - 1) : most[j] = s[j]
        /\ most[i] = x
    <2>1. /\ most \in Seq(S) /\ Len(most) = Len(front) + Len(<<x>>)
          /\ \A j \in 1..(Len(front) + Len(<<x>>)) :
               most[j] = IF j <= Len(front) THEN front[j] ELSE <<x>>[j - Len(front)]
      BY <1>2, <1>4, ConcatProperties
    <2>2. /\ most \in Seq(S) /\ Len(most) = i
          /\ \A j \in 1..i : most[j] = IF j <= i - 1 THEN front[j] ELSE <<x>>[j - (i - 1)]
      BY <2>1, <1>1, <1>2, <1>4
    <2>3. i \in 1..i /\ ~(i <= i - 1) /\ i - (i - 1) = 1 /\ \A j \in 1..(i - 1) : j \in 1..i /\ j <= i - 1
      BY <1>1
    <2> HIDE DEF most
    <2> QED
      BY <2>2, <2>3, <1>2, <1>4
  <1> HIDE DEF most
  <1>6. /\ most \o back \in Seq(S) /\ Len(most \o back) = len + 1
        /\ \A j \in 1..(len + 1) : (most \o back)[j] = IF j <= i THEN most[j] ELSE back[j - i]
    <2>1. /\ most \o back \in Seq(S) /\ Len(most \o back) = Len(most) + Len(back)
          /\ \A j \in 1..(Len(most) + Len(back)) :
               (most \o back)[j] = IF j <= Len(most) THEN most[j] ELSE back[j - Len(most)]
      BY <1>3, <1>5, ConcatProperties
    <2>2. Len(most) + Len(back) = len + 1
      BY <1>1, <1>3, <1>5
    <2> QED
      BY <2>1, <2>2, <1>5
  <1>7. Inserted(s, i, x) = most \o back
    BY DEF Inserted, most, front, back
  <1> DEFINE all == most \o back
  <1>8. ASSUME NEW j \in 1..(len + 1)
        PROVE  all[j] = IF j < i THEN s[j] ELSE IF j = i THEN x ELSE s[j - 1]
    <2>1. all[j] = IF j <= i THEN most[j] ELSE back[j - i]
      BY <1>6
    <2> HIDE DEF all
    <2>2. CASE j < i
      <3>1. j \in 1..(i - 1) /\ j <= i
        BY <2>2, <1>1
      <3> QED
        BY <2>1, <2>2, <3>1, <1>5
    <2>3. CASE j = i
      BY <2>1, <2>3, <1>1, <1>5
    <2>4. CASE j > i
      <3>1. ~(j <= i) /\ ~(j < i) /\ j # i /\ j - i \in 1..((len - i) + 1) /\ (i + (j - i)) - 1 = j - 1
        BY <2>4, <1>1
      <3>2. back[j - i] = s[(i + (j - i)) - 1]
        BY <3>1, <1>3
      <3> QED
        BY <2>1, <3>1, <3>2
    <2> QED
      BY <2>2, <2>3, <2>4, <1>1
  <1> HIDE DEF all
  <1>9. Inserted(s, i, x) = all
    BY <1>7 DEF all
  <1> QED
    BY <1>6, <1>8, <1>9 DEF all, len

\* The list r gains an entry at its end.
MoreAt(lists, n, r, x, new) ==
  \A k \in 1..n : new[k] = IF k = r THEN Append(lists[r], x) ELSE lists[k]

\* With one entry more at the end of a list, the whole has it after the end of that list.
LEMMA JoinedInserted ==
  ASSUME NEW S, NEW n \in Nat, NEW lists, ListsIn(S, lists, n), NEW ends, NEW q \in Seq(S),
         EndToEnd(lists, n, ends, q), NEW r \in 1..n, NEW x \in S,
         NEW new, MoreAt(lists, n, r, x, new)
  PROVE  ListsIn(S, new, n) /\ \E e : EndToEnd(new, n, e, Inserted(q, ends[r] + 1, x))
  <1> DEFINE at   == ends[r] + 1
             e    == [k \in 0..n |-> IF k < r THEN ends[k] ELSE ends[k] + 1]
             more == Inserted(q, at, x)
             list == Append(lists[r], x)
             size == Len(lists[r])
             len  == Len(q)
  <1>1. /\ ends[0] = 0 /\ ends[n] = len
        /\ \A k \in 0..n : ends[k] \in Nat
        /\ \A k \in 1..n : ends[k] = ends[k - 1] + Len(lists[k])
        /\ \A k \in 1..n : \A i \in 1..Len(lists[k]) : q[ends[k - 1] + i] = lists[k][i]
    BY DEF EndToEnd
  <1>2. \A k \in 1..n : lists[k] \in Seq(S) /\ Len(lists[k]) \in Nat
    BY LenOfList
  <1>3. at \in 1..(len + 1) /\ at \in Nat /\ len \in Nat /\ size \in Nat
    <2>1. r \in 0..n /\ n \in 0..n /\ r <= n
      OBVIOUS
    <2>2. ends[r] <= ends[n]
      BY <2>1, EndsGrow
    <2>3. ends[r] \in Nat /\ len \in Nat /\ size \in Nat
      BY <2>1, <1>1, <1>2
    <2> QED
      BY <2>2, <2>3, <1>1
  <1>4. \A k \in 0..n : e[k] = IF k < r THEN ends[k] ELSE ends[k] + 1
    OBVIOUS
  <1> HIDE DEF at, e
  <1>5. /\ more \in Seq(S) /\ Len(more) = len + 1
        /\ \A i \in 1..(len + 1) :
             more[i] = IF i < at THEN q[i] ELSE IF i = at THEN x ELSE q[i - 1]
    BY <1>3, InsertedFacts
  <1>6. /\ list \in Seq(S) /\ Len(list) = size + 1 /\ list[size + 1] = x
        /\ \A i \in 1..size : list[i] = lists[r][i]
    BY <1>2, AppendProperties
  <1> HIDE DEF more, list, size, len
  <1>7. new[r] = list /\ \A k \in 1..n : k # r => new[k] = lists[k]
    BY DEF MoreAt, list
  <1>8. ListsIn(S, new, n)
    BY <1>2, <1>6, <1>7 DEF ListsIn
  <1>9. e[0] = 0 /\ e[n] = Len(more) /\ \A k \in 0..n : e[k] \in Nat
    <2>1. 0 \in 0..n /\ n \in 0..n /\ 0 < r /\ ~(n < r)
      OBVIOUS
    <2>2. ASSUME NEW k \in 0..n
          PROVE  e[k] \in Nat
      <3>1. ends[k] \in Nat
        BY <1>1
      <3>2. e[k] = IF k < r THEN ends[k] ELSE ends[k] + 1
        BY <1>4
      <3> QED
        BY <3>1, <3>2
    <2> QED
      BY <2>1, <2>2, <1>1, <1>4, <1>5
  <1>10. ASSUME NEW k \in 1..n
         PROVE  e[k] = e[k - 1] + Len(new[k])
    <2> DEFINE low == ends[k - 1]
               high == ends[k]
               size2 == Len(lists[k])
    <2>1. /\ k \in 0..n /\ k - 1 \in 0..n /\ low \in Nat /\ high \in Nat /\ size2 \in Nat
          /\ high = low + size2
      BY <1>1, <1>2
    <2>2. /\ e[k] = IF k < r THEN high ELSE high + 1
          /\ e[k - 1] = IF k - 1 < r THEN low ELSE low + 1
      BY <2>1, <1>4
    <2>3. Len(new[k]) = IF k = r THEN size2 + 1 ELSE size2
      BY <1>6, <1>7 DEF size
    <2> HIDE DEF low, high, size2
    <2> QED
      BY <2>1, <2>2, <2>3
  <1>11. ASSUME NEW k \in 1..n, NEW i \in 1..Len(new[k])
         PROVE  more[e[k - 1] + i] = new[k][i]
    <2> DEFINE low == ends[k - 1]
    <2>1. /\ k \in 0..n /\ k - 1 \in 0..n /\ low \in Nat
          /\ e[k - 1] = IF k - 1 < r THEN low ELSE low + 1
      BY <1>1, <1>4
    <2>2. ASSUME NEW m \in 1..Len(lists[k])
          PROVE  /\ q[low + m] = lists[k][m]
                 /\ low + m \in Nat /\ 1 <= low + m /\ low + m <= ends[k] /\ low + m <= len
                 /\ ends[k] \in Nat
      <3>1. q[low + m] = lists[k][m]
        BY <1>1
      <3>2. Within(ends, q, k, m)
        BY PlaceIsWithin
      <3>3. low + m \in Nat /\ 1 <= low + m /\ low + m <= ends[k] /\ ends[k] <= len /\ ends[k] \in Nat
        BY <3>2 DEF Within, len
      <3> HIDE DEF low
      <3> QED
        BY <3>1, <3>3, <1>3
    <2> HIDE DEF low
    <2>3. CASE k = r /\ i = size + 1
      <3>1. e[k - 1] = low /\ low + i = at
        <4>1. ends[r] = low + size /\ k - 1 < r
          BY <2>3, <1>1 DEF low, size
        <4> QED
          BY <4>1, <2>1, <2>3, <1>3 DEF at
      <3>2. new[k][i] = x
        BY <2>3, <1>6, <1>7
      <3>3. more[at] = x
        BY <1>3, <1>5
      <3> QED
        BY <3>1, <3>2, <3>3
    <2>4. CASE k <= r /\ ~(k = r /\ i = size + 1)
      <3>1. i \in 1..Len(lists[k]) /\ new[k][i] = lists[k][i]
        <4>1. CASE k = r
          <5>1. i \in 1..(size + 1) /\ new[k] = list
            BY <4>1, <1>6, <1>7
          <5>2. i \in 1..size
            BY <5>1, <4>1, <2>4, <1>3
          <5> QED
            BY <5>1, <5>2, <4>1, <1>6 DEF size
        <4>2. CASE k # r
          BY <4>2, <1>7
        <4> QED
          BY <4>1, <4>2
      <3>2. e[k - 1] = low
        BY <2>1, <2>4
      <3>3. ends[k] <= ends[r] /\ ends[r] \in Nat
        <4>1. r \in 0..n /\ k \in 0..n /\ k <= r
          BY <2>4
        <4> QED
          BY <4>1, <1>1, EndsGrow
      <3> DEFINE p == low + i
      <3>4. /\ q[p] = lists[k][i] /\ p \in Nat /\ 1 <= p /\ p <= ends[k] /\ p <= len
            /\ ends[k] \in Nat
        BY <3>1, <2>2
      <3> HIDE DEF p
      <3>5. p \in 1..(len + 1) /\ p < at
        BY <3>3, <3>4, <1>3 DEF at
      <3>6. more[p] = q[p]
        BY <3>5, <1>5
      <3> QED
        BY <3>1, <3>2, <3>4, <3>6 DEF p
    <2>5. CASE k > r
      <3>1. new[k] = lists[k] /\ i \in 1..Len(lists[k])
        BY <2>5, <1>7
      <3>2. e[k - 1] = low + 1
        BY <2>1, <2>5
      <3>3. ends[r] <= low /\ ends[r] \in Nat
        <4>1. r \in 0..n /\ k - 1 \in 0..n /\ r <= k - 1
          BY <2>5
        <4> QED
          BY <4>1, <1>1, EndsGrow DEF low
      <3> DEFINE p == low + i
      <3>4. q[p] = lists[k][i] /\ p \in Nat /\ 1 <= p /\ p <= len /\ i \in Nat /\ 1 <= i
        BY <3>1, <2>2, <1>2
      <3>5. p > ends[r]
        BY <3>3, <3>4, <2>1
      <3>6. e[k - 1] + i = p + 1
        BY <3>2, <3>4, <2>1
      <3> HIDE DEF p
      <3>7. p + 1 \in 1..(len + 1) /\ ~(p + 1 < at) /\ p + 1 # at /\ (p + 1) - 1 = p
        BY <3>3, <3>4, <3>5, <1>3 DEF at
      <3>8. more[p + 1] = q[p]
        BY <3>7, <1>5
      <3> QED
        BY <3>1, <3>4, <3>6, <3>8
    <2> QED
      BY <2>3, <2>4, <2>5
  <1>12. EndToEnd(new, n, e, more)
    BY <1>9, <1>10, <1>11 DEF EndToEnd
  <1> QED
    BY <1>8, <1>12 DEF more, at

\* The first entry of the list r is replaced.
FirstAt(lists, n, r, x, new) ==
  \A k \in 1..n : new[k] = IF k = r THEN [lists[r] EXCEPT ![1] = x] ELSE lists[k]

\* With the first entry of a list replaced, so is the entry of the whole at its place.
LEMMA JoinedReplaced ==
  ASSUME NEW S, NEW n \in Nat, NEW lists, ListsIn(S, lists, n), NEW ends, NEW q \in Seq(S),
         EndToEnd(lists, n, ends, q), NEW r \in 1..n, Len(lists[r]) >= 1, NEW x \in S,
         NEW new, FirstAt(lists, n, r, x, new)
  PROVE  ListsIn(S, new, n) /\ \E e : EndToEnd(new, n, e, [q EXCEPT ![ends[r - 1] + 1] = x])
  <1> DEFINE at   == ends[r - 1] + 1
             next == [q EXCEPT ![at] = x]
             list == [lists[r] EXCEPT ![1] = x]
             size == Len(lists[r])
             len  == Len(q)
  <1>1. /\ ends[0] = 0 /\ ends[n] = len
        /\ \A k \in 0..n : ends[k] \in Nat
        /\ \A k \in 1..n : ends[k] = ends[k - 1] + Len(lists[k])
        /\ \A k \in 1..n : \A i \in 1..Len(lists[k]) : q[ends[k - 1] + i] = lists[k][i]
    BY DEF EndToEnd
  <1>2. \A k \in 1..n : lists[k] \in Seq(S) /\ Len(lists[k]) \in Nat
    BY LenOfList
  <1>3. 1 \in 1..size /\ size \in Nat /\ len \in Nat
    BY <1>2, LenProperties
  <1>4. at \in 1..len /\ at <= ends[r] /\ ends[r] \in Nat
    <2>1. Within(ends, q, r, 1)
      BY <1>3, PlaceIsWithin
    <2> QED
      BY <2>1 DEF Within
  <1>5. /\ list \in Seq(S) /\ Len(list) = size
        /\ \A i \in 1..size : list[i] = IF i = 1 THEN x ELSE lists[r][i]
    BY <1>2, <1>3, ExceptSeq
  <1> HIDE DEF at, len
  <1>6. /\ next \in Seq(S) /\ Len(next) = len
        /\ \A i \in 1..len : next[i] = IF i = at THEN x ELSE q[i]
    BY <1>4, ExceptSeq DEF len
  <1> HIDE DEF next, list, size
  <1>7. new[r] = list /\ \A k \in 1..n : k # r => new[k] = lists[k]
    BY DEF FirstAt, list
  <1>8. ListsIn(S, new, n)
    BY <1>2, <1>5, <1>7 DEF ListsIn
  <1>9. \A k \in 1..n : Len(new[k]) = Len(lists[k])
    BY <1>5, <1>7 DEF size
  <1>10. ASSUME NEW k \in 1..n, NEW i \in 1..Len(new[k])
         PROVE  next[ends[k - 1] + i] = new[k][i]
    <2> DEFINE low == ends[k - 1]
               p   == low + i
    <2>1. i \in 1..Len(lists[k]) /\ i \in Nat /\ 1 <= i
      BY <1>2, <1>9
    <2>2. q[p] = lists[k][i]
      BY <2>1, <1>1
    <2>3. low \in Nat /\ p \in 1..len /\ p <= ends[k] /\ ends[k] \in Nat
      <3>1. Within(ends, q, k, i)
        BY <2>1, PlaceIsWithin
      <3> QED
        BY <3>1 DEF Within, len
    <2>4. CASE k = r
      <3>1. at = low + 1
        BY <2>4 DEF at
      <3>2. p = at <=> i = 1
        <4> HIDE DEF low
        <4> QED
          BY <3>1, <2>1, <2>3
      <3>3. new[k][i] = IF i = 1 THEN x ELSE lists[k][i]
        BY <2>1, <2>4, <1>5, <1>7 DEF size
      <3> HIDE DEF p
      <3>4. next[p] = IF p = at THEN x ELSE q[p]
        BY <2>3, <1>6
      <3> QED
        BY <3>2, <3>3, <3>4, <2>2 DEF p
    <2>5. CASE k # r
      <3>1. new[k] = lists[k]
        BY <2>5, <1>7
      <3>2. p # at
        <4>1. CASE k < r
          <5>1. k \in 0..n /\ r - 1 \in 0..n /\ k <= r - 1
            BY <4>1
          <5>2. ends[k] <= ends[r - 1] /\ ends[r - 1] \in Nat
            BY <5>1, <1>1, EndsGrow
          <5> HIDE DEF p
          <5> QED
            BY <5>2, <2>3, <1>4 DEF at
        <4>2. CASE k > r
          <5>1. r \in 0..n /\ k - 1 \in 0..n /\ r <= k - 1
            BY <4>2
          <5>2. ends[r] <= low
            BY <5>1, EndsGrow
          <5> HIDE DEF low
          <5> QED
            BY <5>2, <2>1, <2>3, <1>4
        <4> QED
          BY <2>5, <4>1, <4>2
      <3> HIDE DEF p
      <3>3. next[p] = q[p]
        BY <3>2, <2>3, <1>6
      <3> QED
        BY <3>1, <3>3, <2>2 DEF p
    <2> QED
      BY <2>4, <2>5
  <1>11. \A k \in 1..n : ends[k] = ends[k - 1] + Len(new[k])
    BY <1>1, <1>9
  <1>12. EndToEnd(new, n, ends, next)
    BY <1>1, <1>6, <1>10, <1>11 DEF EndToEnd
  <1> QED
    BY <1>8, <1>12 DEF next, at
===============================================================================
