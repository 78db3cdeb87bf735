------------------------ MODULE PooledOrderBookProofs ------------------------
(***************************************************************************)
(* Theorems about the pooled engine, for every capacity, every set of ids  *)
(* and quantities and every price range: its pool and its lists are sound, *)
(* and a client cannot tell it from a price-time queue of bounded size.    *)
(***************************************************************************)
EXTENDS PooledRefinement, Induction, FiniteSetTheorems

(***************************************************************************)
(* Linked lists.  A list is described by its members and the position of   *)
(* each of them.                                                           *)
(***************************************************************************)
\* From `first` on, `link` meets the members in the order of their positions.
Chain(M, pos, link, first, count) ==
  /\ \A s \in M : pos[s] \in 1..count
  /\ \A s, t \in M : pos[s] = pos[t] => s = t
  /\ IF count = 0 THEN first = kInvalidSlot ELSE first \in M /\ pos[first] = 1
  /\ \A s \in M : IF pos[s] = count THEN link[s] = kInvalidSlot
                  ELSE link[s] \in M /\ pos[link[s]] = pos[s] + 1

LEMMA WalkSteps ==
  ASSUME NEW first, NEW link
  PROVE  /\ Walk(first, link)[1] = first
         /\ \A k \in 1..Capacity :
              Walk(first, link)[k + 1] =
                IF Walk(first, link)[k] = kInvalidSlot THEN kInvalidSlot
                ELSE link[Walk(first, link)[k]]
<1> DEFINE Follow(slot) == IF slot = kInvalidSlot THEN kInvalidSlot ELSE link[slot]
           UpTo(n, at) == at = [k \in 1..(n + 1) |-> IF k = 1 THEN first ELSE Follow(at[k - 1])]
           reached == {n \in Nat : \E at : UpTo(n, at)}
<1>1. 0 \in reached
  <2>1. UpTo(0, [k \in 1..(0 + 1) |-> first])
    OBVIOUS
  <2> QED
    BY <2>1
<1>2. ASSUME NEW n \in Nat, n \in reached
      PROVE  n + 1 \in reached
  <2>1. PICK at : UpTo(n, at)
    BY <1>2
  <2> HIDE DEF Follow
  <2> DEFINE longer ==
               [k \in 1..((n + 1) + 1) |-> IF k <= n + 1 THEN at[k] ELSE Follow(at[n + 1])]
  <2>2. UpTo(n + 1, longer)
    BY <2>1
  <2> HIDE DEF UpTo, longer
  <2>3. \E f : UpTo(n + 1, f)
    BY <2>2
  <2> QED
    BY <2>3
<1>3. Capacity \in reached
  <2> HIDE DEF reached
  <2> QED
    BY <1>1, <1>2, NaturalsAreReached, PoolAssumption
<1>4. PICK some : UpTo(Capacity, some)
  BY <1>3
<1> DEFINE walk == CHOOSE at : UpTo(Capacity, at)
<1>5. UpTo(Capacity, walk)
  <2> HIDE DEF UpTo
  <2> QED
    BY <1>4
<1>6. Walk(first, link) = walk
  BY DEF Walk
<1> HIDE DEF walk
<1>7. walk[1] = first
  <2>1. 1 \in 1..(Capacity + 1)
    BY PoolAssumption
  <2> QED
    BY <1>5, <2>1
<1>8. ASSUME NEW k \in 1..Capacity PROVE walk[k + 1] = Follow(walk[k])
  <2>1. k + 1 \in 1..(Capacity + 1) /\ k + 1 # 1 /\ (k + 1) - 1 = k
    BY PoolAssumption
  <2> HIDE DEF Follow
  <2>2. walk[k + 1] = Follow(walk[(k + 1) - 1])
    BY <1>5, <2>1
  <2> QED
    BY <2>1, <2>2
<1> QED
  BY <1>6, <1>7, <1>8

\* A walk along a chain meets its members in order, and then nothing more.
LEMMA WalkOfChain ==
  ASSUME NEW M, M \subseteq SlotIndexes, NEW pos, NEW link, NEW first, NEW count \in Nat,
         Chain(M, pos, link, first, count),
         NEW k \in 1..(Capacity + 1)
  PROVE  IF k <= count THEN Walk(first, link)[k] \in M /\ pos[Walk(first, link)[k]] = k
         ELSE Walk(first, link)[k] = kInvalidSlot
<1> DEFINE walk == Walk(first, link)
           good == {n \in Nat : n + 1 <= Capacity + 1 =>
                      IF n + 1 <= count THEN walk[n + 1] \in M /\ pos[walk[n + 1]] = n + 1
                      ELSE walk[n + 1] = kInvalidSlot}
<1>1. Capacity \in Nat
  BY PoolAssumption
<1>2. /\ walk[1] = first
      /\ \A i \in 1..Capacity :
           walk[i + 1] = IF walk[i] = kInvalidSlot THEN kInvalidSlot ELSE link[walk[i]]
  BY WalkSteps
<1> HIDE DEF walk
<1>3. 0 \notin M
  BY DEF SlotIndexes
<1>4. 0 \in good
  BY <1>2 DEF Chain
<1>5. ASSUME NEW n \in Nat, n \in good
      PROVE  n + 1 \in good
  <2> SUFFICES ASSUME (n + 1) + 1 <= Capacity + 1
               PROVE  IF (n + 1) + 1 <= count
                      THEN walk[(n + 1) + 1] \in M /\ pos[walk[(n + 1) + 1]] = (n + 1) + 1
                      ELSE walk[(n + 1) + 1] = kInvalidSlot
    OBVIOUS
  <2>1. n + 1 \in 1..Capacity /\ n + 1 <= Capacity + 1
    BY <1>1
  <2>2. walk[(n + 1) + 1] =
          IF walk[n + 1] = kInvalidSlot THEN kInvalidSlot ELSE link[walk[n + 1]]
    BY <1>2, <2>1
  <2>3. IF n + 1 <= count THEN walk[n + 1] \in M /\ pos[walk[n + 1]] = n + 1
        ELSE walk[n + 1] = kInvalidSlot
    BY <1>5, <2>1
  <2>4. CASE n + 1 <= count
    <3>1. walk[n + 1] \in M /\ pos[walk[n + 1]] = n + 1 /\ walk[n + 1] # kInvalidSlot
      BY <1>3, <2>3, <2>4 DEF kInvalidSlot
    <3>2. CASE n + 1 = count
      <4>1. link[walk[n + 1]] = kInvalidSlot /\ ~((n + 1) + 1 <= count)
        BY <3>1, <3>2 DEF Chain
      <4> QED
        BY <2>2, <3>1, <4>1
    <3>3. CASE n + 1 # count
      <4>1. link[walk[n + 1]] \in M /\ pos[link[walk[n + 1]]] = (n + 1) + 1
        BY <3>1, <3>3 DEF Chain
      <4>2. (n + 1) + 1 <= count
        BY <2>4, <3>3
      <4> QED
        BY <2>2, <3>1, <4>1, <4>2
    <3> QED
      BY <3>2, <3>3
  <2>5. CASE ~(n + 1 <= count)
    BY <2>2, <2>3, <2>5
  <2> QED
    BY <2>4, <2>5
<1>6. \A n \in Nat : n \in good
  <2> HIDE DEF good
  <2> QED
    BY <1>4, <1>5, NaturalsAreReached
<1>7. k - 1 \in Nat /\ (k - 1) + 1 = k /\ k <= Capacity + 1
  BY <1>1
<1>8. k - 1 \in good
  BY <1>6, <1>7
<1> QED
  BY <1>7, <1>8 DEF walk

\* There are not more members than slots.
LEMMA ChainFits ==
  ASSUME NEW M, M \subseteq SlotIndexes, NEW pos, NEW link, NEW first, NEW count \in Nat,
         Chain(M, pos, link, first, count)
  PROVE  count <= Capacity
<1> SUFFICES ASSUME count > Capacity PROVE FALSE
  BY PoolAssumption
<1> DEFINE holes == 1..(Capacity + 1)
           walk == [k \in holes |-> Walk(first, link)[k]]
<1>1. Capacity \in Nat
  BY PoolAssumption
<1>2. \A k \in holes : walk[k] \in M /\ pos[walk[k]] = k
  BY <1>1, WalkOfChain
<1>3. walk \in [holes -> SlotIndexes]
  BY <1>2
<1>4. /\ IsFiniteSet(holes) /\ IsFiniteSet(SlotIndexes)
      /\ Cardinality(SlotIndexes) < Cardinality(holes)
  <2>1. /\ IsFiniteSet(1..(Capacity + 1)) /\ IsFiniteSet(1..Capacity)
        /\ Cardinality(1..(Capacity + 1)) = IF 1 > Capacity + 1 THEN 0 ELSE (Capacity + 1) - 1 + 1
        /\ Cardinality(1..Capacity) = IF 1 > Capacity THEN 0 ELSE Capacity - 1 + 1
    BY <1>1, FS_Interval
  <2> QED
    BY <1>1, <2>1 DEF SlotIndexes
<1> HIDE DEF holes, walk
<1>5. \E x, y \in holes : x # y /\ walk[x] = walk[y]
  BY <1>3, <1>4, FS_PigeonHole
<1> QED
  BY <1>2, <1>5

Reads(list, M, pos, count) ==
  /\ list \in Seq(M) /\ DOMAIN list = 1..count /\ Len(list) = count
  /\ \A k \in 1..count : list[k] \in M /\ pos[list[k]] = k
  /\ \A s \in M : list[pos[s]] = s
  /\ Members(list) = M
  /\ Distinct(list)

\* What is read off a chain: its members, each once, at their positions.
LEMMA ListOfChain ==
  ASSUME NEW M, M \subseteq SlotIndexes, NEW pos, NEW link, NEW first, NEW count \in Nat,
         Chain(M, pos, link, first, count)
  PROVE  Reads(ListOf(first, link), M, pos, count)
<1> DEFINE walk == Walk(first, link)
           Ends(n) == \A k \in 1..(Capacity + 1) : k <= n <=> walk[k] # kInvalidSlot
           length == CHOOSE n \in 0..(Capacity + 1) : Ends(n)
<1>1. Capacity \in Nat /\ count <= Capacity
  BY PoolAssumption, ChainFits
<1>2. \A k \in 1..(Capacity + 1) :
        IF k <= count THEN walk[k] \in M /\ pos[walk[k]] = k ELSE walk[k] = kInvalidSlot
  BY WalkOfChain
<1>3. ListOf(first, link) = [k \in 1..length |-> walk[k]]
  BY DEF ListOf
<1> HIDE DEF walk
<1>4. kInvalidSlot \notin M
  BY DEF SlotIndexes, kInvalidSlot
<1>5. Ends(count) /\ count \in 0..(Capacity + 1)
  BY <1>1, <1>2, <1>4
<1>6. Ends(length) /\ length \in 0..(Capacity + 1)
  <2> HIDE DEF Ends
  <2> QED
    BY <1>5
<1> HIDE DEF length
<1>7. length = count
  <2>1. CASE length < count
    <3>1. count \in 1..(Capacity + 1) /\ ~(count <= length)
      BY <1>1, <1>6, <2>1
    <3> QED
      BY <1>5, <1>6, <3>1
  <2>2. CASE length > count
    <3>1. count + 1 \in 1..(Capacity + 1) /\ count + 1 <= length /\ ~(count + 1 <= count)
      BY <1>1, <1>6, <2>2
    <3> QED
      BY <1>5, <1>6, <3>1
  <2> QED
    BY <1>6, <2>1, <2>2
<1> DEFINE list == ListOf(first, link)
<1>8. list = [k \in 1..count |-> walk[k]]
  BY <1>3, <1>7
<1> HIDE DEF list
<1>9. ASSUME NEW k \in 1..count PROVE list[k] \in M /\ pos[list[k]] = k
  <2>1. k \in 1..(Capacity + 1) /\ k <= count
    BY <1>1
  <2> QED
    BY <1>2, <1>8, <2>1
<1>10. ASSUME NEW s \in M PROVE list[pos[s]] = s /\ pos[s] \in 1..count
  <2>1. pos[s] \in 1..count
    BY DEF Chain
  <2>2. list[pos[s]] \in M /\ pos[list[pos[s]]] = pos[s]
    BY <1>9, <2>1
  <2> QED
    BY <2>1, <2>2 DEF Chain
<1>11. list \in Seq(M) /\ DOMAIN list = 1..count /\ Len(list) = count
  <2>1. list \in [1..count -> M]
    BY <1>8, <1>9
  <2> QED
    BY <2>1
<1>12. Members(list) = M
  BY <1>9, <1>10, <1>11 DEF Members
<1>13. Distinct(list)
  BY <1>9, <1>11 DEF Distinct
<1> QED
  BY <1>9, <1>10, <1>11, <1>12, <1>13 DEF list, Reads

(***************************************************************************)
(* Doubly linked lists, with the quantities of their members added up.     *)
(***************************************************************************)
Doubly(M, pos, next, prev, head, tail, count) ==
  /\ Chain(M, pos, next, head, count)
  /\ IF count = 0 THEN tail = kInvalidSlot ELSE tail \in M /\ pos[tail] = count
  /\ \A s \in M : IF pos[s] = 1 THEN prev[s] = kInvalidSlot
                  ELSE prev[s] \in M /\ pos[prev[s]] = pos[s] - 1

\* upto[s] is the quantity of the members from the head to s.
AddedUp(M, pos, prev, qty, upto, tail, total) ==
  /\ \A s \in M : upto[s] \in Int
  /\ \A s \in M : upto[s] = qty[s] + (IF pos[s] = 1 THEN 0 ELSE upto[prev[s]])
  /\ total = IF tail = kInvalidSlot THEN 0 ELSE upto[tail]

\* M is a doubly linked list of `count` members that hold `total` together.
Listed(M, next, prev, qty, head, tail, count, total) ==
  \E pos, upto : /\ Doubly(M, pos, next, prev, head, tail, count)
                 /\ AddedUp(M, pos, prev, qty, upto, tail, total)

\* Read from the tail the positions are the other way round.
LEMMA ReadBackward ==
  ASSUME NEW M, NEW pos, NEW next, NEW prev, NEW head, NEW tail, NEW count \in Nat,
         Doubly(M, pos, next, prev, head, tail, count)
  PROVE  Chain(M, [s \in M |-> count + 1 - pos[s]], prev, tail, count)
<1> DEFINE back == [s \in M |-> count + 1 - pos[s]]
<1>1. \A s \in M : pos[s] \in 1..count
  BY DEF Doubly, Chain
<1>2. \A s \in M : back[s] \in 1..count /\ back[s] = count + 1 - pos[s]
  BY <1>1
<1> HIDE DEF back
<1>3. \A s, t \in M : back[s] = back[t] => s = t
  BY <1>1, <1>2 DEF Doubly, Chain
<1>4. IF count = 0 THEN tail = kInvalidSlot ELSE tail \in M /\ back[tail] = 1
  BY <1>1, <1>2 DEF Doubly
<1>5. ASSUME NEW s \in M
      PROVE  IF back[s] = count THEN prev[s] = kInvalidSlot
             ELSE prev[s] \in M /\ back[prev[s]] = back[s] + 1
  <2>1. back[s] = count <=> pos[s] = 1
    BY <1>1, <1>2
  <2> QED
    BY <1>1, <1>2, <2>1 DEF Doubly
<1> QED
  BY <1>2, <1>3, <1>4, <1>5 DEF Chain, back

\* unlink_slot, on the list of its level.
Unlinks(M, r, next, prev, qty, head, tail, next2, prev2, qty2, head2, tail2) ==
  /\ head2 = IF prev[r] = kInvalidSlot THEN next[r] ELSE head
  /\ tail2 = IF next[r] = kInvalidSlot THEN prev[r] ELSE tail
  /\ \A s \in M : qty[s] \in Int
  /\ \A s \in M \ {r} : /\ next2[s] = IF s = prev[r] THEN next[r] ELSE next[s]
                        /\ prev2[s] = IF s = next[r] THEN prev[r] ELSE prev[s]
                        /\ qty2[s] = qty[s]

LEMMA Unlinking ==
  ASSUME NEW M, M \subseteq SlotIndexes, NEW next, NEW prev, NEW qty, NEW head, NEW tail,
         NEW count \in Nat, NEW total,
         Listed(M, next, prev, qty, head, tail, count, total),
         NEW r \in M, NEW next2, NEW prev2, NEW qty2, NEW head2, NEW tail2,
         Unlinks(M, r, next, prev, qty, head, tail, next2, prev2, qty2, head2, tail2)
  PROVE  /\ count - 1 \in Nat
         /\ Listed(M \ {r}, next2, prev2, qty2, head2, tail2, count - 1, total - qty[r])
<1>0. PICK pos, upto : /\ Doubly(M, pos, next, prev, head, tail, count)
                       /\ AddedUp(M, pos, prev, qty, upto, tail, total)
  BY DEF Listed
<1> USE DEF Unlinks
<1> DEFINE N == M \ {r}
           pos2 == [s \in N |-> IF pos[s] > pos[r] THEN pos[s] - 1 ELSE pos[s]]
           upto2 == [s \in N |-> IF pos[s] > pos[r] THEN upto[s] - qty[r] ELSE upto[s]]
<1>1. /\ \A s \in M : pos[s] \in 1..count
      /\ \A s, t \in M : pos[s] = pos[t] => s = t
      /\ kInvalidSlot \notin M
  BY <1>0 DEF Doubly, Chain, SlotIndexes, kInvalidSlot
<1>2. /\ count # 0 /\ head \in M /\ pos[head] = 1 /\ tail \in M /\ pos[tail] = count
  BY <1>0, <1>1 DEF Doubly, Chain
<1>3. \A s \in M : /\ IF pos[s] = count THEN next[s] = kInvalidSlot
                      ELSE next[s] \in M /\ pos[next[s]] = pos[s] + 1
                   /\ IF pos[s] = 1 THEN prev[s] = kInvalidSlot
                      ELSE prev[s] \in M /\ pos[prev[s]] = pos[s] - 1
  BY <1>0 DEF Doubly, Chain
<1>4. /\ pos[r] = 1 <=> prev[r] = kInvalidSlot
      /\ pos[r] = count <=> next[r] = kInvalidSlot
  BY <1>1, <1>3
<1>5. \A s \in N : /\ pos2[s] = IF pos[s] > pos[r] THEN pos[s] - 1 ELSE pos[s]
                   /\ upto2[s] = IF pos[s] > pos[r] THEN upto[s] - qty[r] ELSE upto[s]
                   /\ pos[s] # pos[r] /\ s \in M
  BY <1>1
<1> HIDE DEF pos2, upto2
<1>6. \A s \in N : pos2[s] \in 1..(count - 1)
  BY <1>1, <1>5
<1>7. \A s, t \in N : pos2[s] = pos2[t] => s = t
  BY <1>1, <1>5
<1>8. IF count - 1 = 0 THEN head2 = kInvalidSlot ELSE head2 \in N /\ pos2[head2] = 1
  BY <1>1, <1>2, <1>3, <1>4, <1>5
<1>9. IF count - 1 = 0 THEN tail2 = kInvalidSlot ELSE tail2 \in N /\ pos2[tail2] = count - 1
  BY <1>1, <1>2, <1>3, <1>4, <1>5
<1>10. ASSUME NEW s \in N
       PROVE  IF pos2[s] = count - 1 THEN next2[s] = kInvalidSlot
              ELSE next2[s] \in N /\ pos2[next2[s]] = pos2[s] + 1
  <2>1. next2[s] = IF s = prev[r] THEN next[r] ELSE next[s]
    OBVIOUS
  <2>2. CASE s = prev[r]
    <3>1. pos[s] = pos[r] - 1 /\ pos2[s] = pos[s]
      BY <1>1, <1>3, <1>5, <2>2
    <3>2. CASE pos[r] = count
      BY <1>1, <1>3, <2>1, <2>2, <3>1, <3>2
    <3>3. CASE pos[r] # count
      BY <1>1, <1>3, <1>5, <2>1, <2>2, <3>1, <3>3
    <3> QED
      BY <3>2, <3>3
  <2>3. CASE s # prev[r]
    <3>1. pos[s] # pos[r] - 1
      BY <1>1, <1>3, <1>5, <2>3
    <3>2. CASE pos[s] = count
      BY <1>1, <1>3, <1>5, <2>1, <2>3, <3>2
    <3>3. CASE pos[s] # count
      <4>1. next[s] \in M /\ pos[next[s]] = pos[s] + 1 /\ next[s] # r
        BY <1>1, <1>3, <1>5, <3>1, <3>3
      <4>2. pos2[s] # count - 1
        BY <1>1, <1>5, <3>1, <3>3
      <4>3. pos2[next[s]] = pos2[s] + 1
        BY <1>1, <1>5, <3>1, <4>1
      <4> QED
        BY <2>1, <2>3, <4>1, <4>2, <4>3
    <3> QED
      BY <3>2, <3>3
  <2> QED
    BY <2>2, <2>3
<1>11. ASSUME NEW s \in N
       PROVE  IF pos2[s] = 1 THEN prev2[s] = kInvalidSlot
              ELSE /\ prev2[s] \in N /\ pos2[prev2[s]] = pos2[s] - 1
  <2>1. prev2[s] = IF s = next[r] THEN prev[r] ELSE prev[s]
    OBVIOUS
  <2>2. CASE s = next[r]
    <3>1. pos[s] = pos[r] + 1 /\ pos2[s] = pos[r]
      BY <1>1, <1>3, <1>5, <2>2
    <3>2. CASE pos[r] = 1
      BY <1>1, <1>3, <2>1, <2>2, <3>1, <3>2
    <3>3. CASE pos[r] # 1
      BY <1>1, <1>3, <1>5, <2>1, <2>2, <3>1, <3>3
    <3> QED
      BY <3>2, <3>3
  <2>3. CASE s # next[r]
    <3>1. pos[s] # pos[r] + 1
      BY <1>1, <1>3, <1>5, <2>3
    <3>2. CASE pos[s] = 1
      BY <1>1, <1>3, <1>5, <2>1, <2>3, <3>2
    <3>3. CASE pos[s] # 1
      <4>1. prev[s] \in M /\ pos[prev[s]] = pos[s] - 1 /\ prev[s] # r
        BY <1>1, <1>3, <1>5, <3>1, <3>3
      <4>2. pos2[s] # 1
        BY <1>1, <1>5, <3>1, <3>3
      <4>3. pos2[prev[s]] = pos2[s] - 1
        BY <1>1, <1>5, <3>1, <4>1
      <4> QED
        BY <2>1, <2>3, <4>1, <4>2, <4>3
    <3> QED
      BY <3>2, <3>3
  <2> QED
    BY <2>2, <2>3
<1>12. Doubly(N, pos2, next2, prev2, head2, tail2, count - 1)
  BY <1>6, <1>7, <1>8, <1>9, <1>10, <1>11 DEF Doubly, Chain
<1>13. /\ \A s \in M : upto[s] \in Int
       /\ \A s \in M : upto[s] = qty[s] + (IF pos[s] = 1 THEN 0 ELSE upto[prev[s]])
       /\ total = upto[tail]
  BY <1>0, <1>1, <1>2 DEF AddedUp
<1>14. AddedUp(N, pos2, prev2, qty2, upto2, tail2, total - qty[r])
  <2>1. \A s \in N : upto2[s] \in Int
    BY <1>5, <1>13
  <2>2. ASSUME NEW s \in N
        PROVE  upto2[s] = qty2[s] + (IF pos2[s] = 1 THEN 0 ELSE upto2[prev2[s]])
    <3>1. /\ qty2[s] = qty[s] /\ qty[s] \in Int /\ qty[r] \in Int /\ upto[s] \in Int
          /\ prev2[s] = IF s = next[r] THEN prev[r] ELSE prev[s]
      BY <1>13
    <3>2. CASE s = next[r]
      <4>1. /\ pos[s] = pos[r] + 1 /\ pos2[s] = pos[r] /\ prev[s] = r /\ pos[s] # 1
            /\ upto2[s] = upto[s] - qty[r]
        BY <1>1, <1>3, <1>5, <3>2
      <4>2. upto[s] = qty[s] + upto[r]
        BY <1>13, <4>1
      <4>3. CASE pos[r] = 1
        <5>1. upto[r] = qty[r] + 0
          BY <1>13, <4>3
        <5> QED
          BY <3>1, <4>1, <4>2, <4>3, <5>1
      <4>4. CASE pos[r] # 1
        <5>1. prev[r] \in N /\ upto2[prev[r]] = upto[prev[r]] /\ upto[prev[r]] \in Int
          BY <1>1, <1>3, <1>5, <1>13, <4>4
        <5>2. upto[r] = qty[r] + upto[prev[r]]
          BY <1>13, <4>4
        <5> QED
          BY <3>1, <3>2, <4>1, <4>2, <4>4, <5>1, <5>2
      <4> QED
        BY <4>3, <4>4
    <3>3. CASE s # next[r]
      <4>1. pos[s] # pos[r] + 1
        BY <1>1, <1>3, <1>5, <3>3
      <4>2. CASE pos[s] = 1
        <5>1. pos2[s] = 1 /\ upto2[s] = upto[s] /\ upto[s] = qty[s] + 0
          BY <1>1, <1>5, <1>13, <4>2
        <5> QED
          BY <3>1, <5>1
      <4>3. CASE pos[s] # 1
        <5>1. prev[s] \in N /\ pos[prev[s]] = pos[s] - 1 /\ pos2[s] # 1
          BY <1>1, <1>3, <1>5, <4>1, <4>3
        <5>2. upto[s] = qty[s] + upto[prev[s]] /\ upto[prev[s]] \in Int
          BY <1>13, <4>3, <5>1
        <5>3. pos[prev[s]] > pos[r] <=> pos[s] > pos[r]
          BY <1>1, <1>5, <4>1, <5>1
        <5>4. upto2[s] - upto2[prev[s]] = upto[s] - upto[prev[s]]
          BY <1>5, <3>1, <5>1, <5>2, <5>3
        <5>5. upto2[s] \in Int /\ upto2[prev[s]] \in Int
          BY <2>1, <5>1
        <5> QED
          BY <3>1, <3>3, <5>1, <5>2, <5>4, <5>5
      <4> QED
        BY <4>2, <4>3
    <3> QED
      BY <3>2, <3>3
  <2>3. total - qty[r] = IF tail2 = kInvalidSlot THEN 0 ELSE upto2[tail2]
    <3>1. upto[tail] \in Int /\ upto[r] \in Int /\ qty[r] \in Int
      BY <1>2, <1>13
    <3>2. CASE next[r] = kInvalidSlot
      <4>1. tail = r /\ tail2 = prev[r]
        BY <1>1, <1>2, <1>4, <3>2
      <4>2. CASE pos[r] = 1
        <5>1. upto[r] = qty[r] + 0 /\ prev[r] = kInvalidSlot
          BY <1>4, <1>13, <4>2
        <5> QED
          BY <1>13, <3>1, <4>1, <5>1
      <4>3. CASE pos[r] # 1
        <5>1. /\ upto[r] = qty[r] + upto[prev[r]] /\ prev[r] \in N /\ upto[prev[r]] \in Int
              /\ upto2[prev[r]] = upto[prev[r]] /\ prev[r] # kInvalidSlot
          BY <1>1, <1>3, <1>5, <1>13, <4>3
        <5> QED
          BY <1>13, <3>1, <4>1, <5>1
      <4> QED
        BY <4>2, <4>3
    <3>3. CASE next[r] # kInvalidSlot
      <4>1. tail2 = tail /\ tail \in N /\ tail # kInvalidSlot /\ pos[tail] > pos[r]
        BY <1>1, <1>2, <1>4, <3>3
      <4>2. upto2[tail] = upto[tail] - qty[r]
        BY <1>5, <4>1
      <4> QED
        BY <1>13, <4>1, <4>2
    <3> QED
      BY <3>2, <3>3
  <2> QED
    BY <2>1, <2>2, <2>3 DEF AddedUp
<1> QED
  BY <1>2, <1>12, <1>14 DEF Listed

\* append_slot, on the list of its level.
Appends(M, f, next, prev, qty, head, tail, next2, prev2, qty2, head2) ==
  /\ head2 = IF tail = kInvalidSlot THEN f ELSE head
  /\ \A s \in M : /\ next2[s] = IF s = tail THEN f ELSE next[s]
                  /\ prev2[s] = prev[s] /\ qty2[s] = qty[s]
  /\ next2[f] = kInvalidSlot /\ prev2[f] = tail /\ qty2[f] \in Int

LEMMA Appending ==
  ASSUME NEW M, M \subseteq SlotIndexes, NEW next, NEW prev, NEW qty, NEW head, NEW tail,
         NEW count \in Nat, NEW total \in Int,
         Listed(M, next, prev, qty, head, tail, count, total),
         NEW f \in SlotIndexes \ M, NEW next2, NEW prev2, NEW qty2, NEW head2,
         Appends(M, f, next, prev, qty, head, tail, next2, prev2, qty2, head2)
  PROVE  Listed(M \cup {f}, next2, prev2, qty2, head2, f, count + 1, total + qty2[f])
<1> USE DEF Appends
<1>0. PICK pos, upto : /\ Doubly(M, pos, next, prev, head, tail, count)
                       /\ AddedUp(M, pos, prev, qty, upto, tail, total)
  BY DEF Listed
<1> DEFINE N == M \cup {f}
           pos2 == [s \in N |-> IF s = f THEN count + 1 ELSE pos[s]]
           upto2 == [s \in N |-> IF s = f THEN total + qty2[f] ELSE upto[s]]
<1>1. /\ \A s \in M : pos[s] \in 1..count
      /\ \A s, t \in M : pos[s] = pos[t] => s = t
      /\ kInvalidSlot \notin M /\ f # kInvalidSlot /\ f \notin M
  BY <1>0 DEF Doubly, Chain, SlotIndexes, kInvalidSlot
<1>2. /\ IF count = 0 THEN head = kInvalidSlot ELSE head \in M /\ pos[head] = 1
      /\ IF count = 0 THEN tail = kInvalidSlot ELSE tail \in M /\ pos[tail] = count
      /\ \A s \in M : /\ IF pos[s] = count THEN next[s] = kInvalidSlot
                         ELSE next[s] \in M /\ pos[next[s]] = pos[s] + 1
                      /\ IF pos[s] = 1 THEN prev[s] = kInvalidSlot
                         ELSE prev[s] \in M /\ pos[prev[s]] = pos[s] - 1
  BY <1>0 DEF Doubly, Chain
<1>3. /\ pos2[f] = count + 1 /\ upto2[f] = total + qty2[f]
      /\ \A s \in M : pos2[s] = pos[s] /\ upto2[s] = upto[s]
  BY <1>1
<1> HIDE DEF pos2, upto2
<1>4. \A s \in N : pos2[s] \in 1..(count + 1)
  BY <1>1, <1>3
<1>5. \A s, t \in N : pos2[s] = pos2[t] => s = t
  BY <1>1, <1>3
<1>6. head2 \in N /\ pos2[head2] = 1
  BY <1>1, <1>2, <1>3
<1>7. ASSUME NEW s \in N
      PROVE  IF pos2[s] = count + 1 THEN next2[s] = kInvalidSlot
             ELSE next2[s] \in N /\ pos2[next2[s]] = pos2[s] + 1
  <2>1. CASE s = f
    BY <1>3, <2>1
  <2>2. CASE s \in M
    <3>1. pos2[s] = pos[s] /\ pos[s] \in 1..count
      BY <1>1, <1>3, <2>2
    <3>2. CASE s = tail
      BY <1>1, <1>2, <1>3, <2>2, <3>1, <3>2
    <3>3. CASE s # tail
      BY <1>1, <1>2, <1>3, <2>2, <3>1, <3>3
    <3> QED
      BY <3>2, <3>3
  <2> QED
    BY <2>1, <2>2
<1>8. ASSUME NEW s \in N
      PROVE  IF pos2[s] = 1 THEN prev2[s] = kInvalidSlot
             ELSE prev2[s] \in N /\ pos2[prev2[s]] = pos2[s] - 1
  <2>1. CASE s = f
    BY <1>2, <1>3, <2>1
  <2>2. CASE s \in M
    BY <1>1, <1>2, <1>3, <2>2
  <2> QED
    BY <2>1, <2>2
<1>9. Doubly(N, pos2, next2, prev2, head2, f, count + 1)
  BY <1>3, <1>4, <1>5, <1>6, <1>7, <1>8 DEF Doubly, Chain
<1>10. /\ \A s \in M : upto[s] \in Int
       /\ \A s \in M : upto[s] = qty[s] + (IF pos[s] = 1 THEN 0 ELSE upto[prev[s]])
       /\ total = IF tail = kInvalidSlot THEN 0 ELSE upto[tail]
  BY <1>0 DEF AddedUp
<1>11. \A s \in N : upto2[s] \in Int
  BY <1>3, <1>10
<1>12. ASSUME NEW s \in N
       PROVE  upto2[s] = qty2[s] + (IF pos2[s] = 1 THEN 0 ELSE upto2[prev2[s]])
  <2>1. CASE s = f
    <3>1. CASE count = 0
      BY <1>2, <1>3, <1>10, <2>1, <3>1
    <3>2. CASE count # 0
      <4>1. tail \in M /\ tail # kInvalidSlot /\ upto2[tail] = total /\ pos2[f] # 1
        BY <1>1, <1>2, <1>3, <1>10, <3>2
      <4> QED
        BY <1>3, <2>1, <4>1
    <3> QED
      BY <3>1, <3>2
  <2>2. CASE s \in M
    BY <1>1, <1>2, <1>3, <1>10, <2>2
  <2> QED
    BY <2>1, <2>2
<1>13. AddedUp(N, pos2, prev2, qty2, upto2, f, total + qty2[f])
  BY <1>1, <1>3, <1>11, <1>12 DEF AddedUp
<1> QED
  BY <1>9, <1>13 DEF Listed

\* A fill that leaves some of the order at the head.
Shrinks(M, head, fill, next, prev, qty, next2, prev2, qty2) ==
  /\ \A s \in M : qty[s] \in Int
  /\ \A s \in M : /\ next2[s] = next[s] /\ prev2[s] = prev[s]
                  /\ qty2[s] = IF s = head THEN qty[s] - fill ELSE qty[s]

LEMMA HeadShrinks ==
  ASSUME NEW M, M \subseteq SlotIndexes, NEW next, NEW prev, NEW qty, NEW head, NEW tail,
         NEW count \in Nat \ {0}, NEW total,
         Listed(M, next, prev, qty, head, tail, count, total),
         NEW fill \in Int, NEW next2, NEW prev2, NEW qty2,
         Shrinks(M, head, fill, next, prev, qty, next2, prev2, qty2)
  PROVE  Listed(M, next2, prev2, qty2, head, tail, count, total - fill)
<1> USE DEF Shrinks
<1>0. PICK pos, upto : /\ Doubly(M, pos, next, prev, head, tail, count)
                       /\ AddedUp(M, pos, prev, qty, upto, tail, total)
  BY DEF Listed
<1> DEFINE upto2 == [s \in M |-> upto[s] - fill]
<1>1. /\ \A s \in M : pos[s] \in 1..count
      /\ \A s, t \in M : pos[s] = pos[t] => s = t
      /\ kInvalidSlot \notin M /\ tail \in M /\ head \in M /\ pos[head] = 1
      /\ \A s \in M : IF pos[s] = 1 THEN prev[s] = kInvalidSlot
                      ELSE prev[s] \in M /\ pos[prev[s]] = pos[s] - 1
  BY <1>0 DEF Doubly, Chain, SlotIndexes, kInvalidSlot
<1>2. Doubly(M, pos, next2, prev2, head, tail, count)
  BY <1>0 DEF Doubly, Chain
<1>3. /\ \A s \in M : upto[s] \in Int
      /\ \A s \in M : upto[s] = qty[s] + (IF pos[s] = 1 THEN 0 ELSE upto[prev[s]])
      /\ total = IF tail = kInvalidSlot THEN 0 ELSE upto[tail]
  BY <1>0 DEF AddedUp
<1>4. \A s \in M : upto2[s] = upto[s] - fill
  OBVIOUS
<1> HIDE DEF upto2
<1>5. ASSUME NEW s \in M
      PROVE  /\ upto2[s] \in Int
             /\ upto2[s] = qty2[s] + (IF pos[s] = 1 THEN 0 ELSE upto2[prev2[s]])
  <2>1. upto[s] \in Int /\ qty[s] \in Int /\ upto2[s] = upto[s] - fill /\ prev2[s] = prev[s]
    BY <1>3, <1>4
  <2>2. CASE pos[s] = 1
    <3>1. s = head /\ qty2[s] = qty[s] - fill /\ upto[s] = qty[s] + 0
      BY <1>1, <1>3, <2>2
    <3> QED
      BY <2>1, <2>2, <3>1
  <2>3. CASE pos[s] # 1
    <3>1. s # head /\ prev[s] \in M
      BY <1>1, <2>3
    <3>2. /\ qty2[s] = qty[s] /\ upto[s] = qty[s] + upto[prev[s]]
          /\ upto2[prev[s]] = upto[prev[s]] - fill /\ upto[prev[s]] \in Int
      BY <1>3, <1>4, <2>3, <3>1
    <3> QED
      BY <2>1, <2>3, <3>2
  <2> QED
    BY <2>2, <2>3
<1>6. total - fill = IF tail = kInvalidSlot THEN 0 ELSE upto2[tail]
  BY <1>1, <1>3, <1>4
<1>7. AddedUp(M, pos, prev2, qty2, upto2, tail, total - fill)
  BY <1>5, <1>6 DEF AddedUp
<1> QED
  BY <1>2, <1>7 DEF Listed

\* A list none of whose members changes.
SameFields(M, next, prev, qty, next2, prev2, qty2) ==
  \A s \in M : next2[s] = next[s] /\ prev2[s] = prev[s] /\ qty2[s] = qty[s]

LEMMA ListUntouched ==
  ASSUME NEW M, NEW next, NEW prev, NEW qty, NEW head, NEW tail, NEW count, NEW total,
         Listed(M, next, prev, qty, head, tail, count, total),
         NEW next2, NEW prev2, NEW qty2, SameFields(M, next, prev, qty, next2, prev2, qty2)
  PROVE  Listed(M, next2, prev2, qty2, head, tail, count, total)
<1>0. PICK pos, upto : /\ Doubly(M, pos, next, prev, head, tail, count)
                       /\ AddedUp(M, pos, prev, qty, upto, tail, total)
  BY DEF Listed
<1> USE DEF SameFields
<1>1. Doubly(M, pos, next2, prev2, head, tail, count)
  BY <1>0 DEF Doubly, Chain
<1>2. AddedUp(M, pos, prev2, qty2, upto, tail, total)
  BY <1>0 DEF AddedUp
<1> QED
  BY <1>1, <1>2 DEF Listed

(***************************************************************************)
(* The free list.                                                          *)
(***************************************************************************)
\* release_slot: the slot comes first.
LEMMA Freeing ==
  ASSUME NEW M, NEW pos, NEW link, NEW first, NEW count \in Nat,
         Chain(M, pos, link, first, count),
         NEW r, r \notin M, NEW link2, \A s \in M : link2[s] = link[s], link2[r] = first,
         kInvalidSlot \notin M
  PROVE  \E pos2 : Chain(M \cup {r}, pos2, link2, r, count + 1)
<1> DEFINE N == M \cup {r}
           pos2 == [s \in N |-> IF s = r THEN 1 ELSE pos[s] + 1]
<1>1. pos2[r] = 1 /\ \A s \in M : pos2[s] = pos[s] + 1 /\ pos[s] \in 1..count
  BY DEF Chain
<1> HIDE DEF pos2
<1>2. /\ \A s, t \in M : pos[s] = pos[t] => s = t
      /\ IF count = 0 THEN first = kInvalidSlot ELSE first \in M /\ pos[first] = 1
      /\ \A s \in M : IF pos[s] = count THEN link[s] = kInvalidSlot
                      ELSE link[s] \in M /\ pos[link[s]] = pos[s] + 1
  BY DEF Chain
<1>3. \A s \in N : pos2[s] \in 1..(count + 1)
  BY <1>1
<1>4. \A s, t \in N : pos2[s] = pos2[t] => s = t
  BY <1>1, <1>2
<1>5. ASSUME NEW s \in N
      PROVE  IF pos2[s] = count + 1 THEN link2[s] = kInvalidSlot
             ELSE link2[s] \in N /\ pos2[link2[s]] = pos2[s] + 1
  <2>1. CASE s = r
    BY <1>1, <1>2, <2>1
  <2>2. CASE s \in M
    BY <1>1, <1>2, <2>2
  <2> QED
    BY <2>1, <2>2
<1>6. Chain(N, pos2, link2, r, count + 1)
  BY <1>1, <1>3, <1>4, <1>5 DEF Chain
<1> QED
  BY <1>6

\* allocate_slot: the first one leaves.
LEMMA Taking ==
  ASSUME NEW M, NEW pos, NEW link, NEW first, NEW count \in Nat,
         Chain(M, pos, link, first, count), first # kInvalidSlot,
         NEW link2, \A s \in M \ {first} : link2[s] = link[s]
  PROVE  /\ first \in M /\ count - 1 \in Nat
         /\ \E pos2 : Chain(M \ {first}, pos2, link2, link[first], count - 1)
<1> DEFINE N == M \ {first}
           pos2 == [s \in N |-> pos[s] - 1]
<1>1. /\ \A s \in M : pos[s] \in 1..count
      /\ \A s, t \in M : pos[s] = pos[t] => s = t
      /\ count # 0 /\ first \in M /\ pos[first] = 1
      /\ \A s \in M : IF pos[s] = count THEN link[s] = kInvalidSlot
                      ELSE link[s] \in M /\ pos[link[s]] = pos[s] + 1
  BY DEF Chain
<1>2. \A s \in N : pos2[s] = pos[s] - 1 /\ pos[s] # 1
  BY <1>1
<1> HIDE DEF pos2
<1>3. \A s \in N : pos2[s] \in 1..(count - 1)
  BY <1>1, <1>2
<1>4. \A s, t \in N : pos2[s] = pos2[t] => s = t
  BY <1>1, <1>2
<1>5. IF count - 1 = 0 THEN link[first] = kInvalidSlot
      ELSE link[first] \in N /\ pos2[link[first]] = 1
  <2>1. CASE count = 1
    BY <1>1, <2>1
  <2>2. CASE count # 1
    <3>1. link[first] \in M /\ pos[link[first]] = 1 + 1
      BY <1>1, <2>2
    <3>2. link[first] \in N /\ pos2[link[first]] = pos[link[first]] - 1
      BY <1>1, <1>2, <3>1
    <3> QED
      BY <2>2, <3>1, <3>2
  <2> QED
    BY <2>1, <2>2
<1>6. ASSUME NEW s \in N
      PROVE  IF pos2[s] = count - 1 THEN link2[s] = kInvalidSlot
             ELSE link2[s] \in N /\ pos2[link2[s]] = pos2[s] + 1
  BY <1>1, <1>2
<1>7. Chain(N, pos2, link2, link[first], count - 1)
  BY <1>3, <1>4, <1>5, <1>6 DEF Chain
<1> QED
  BY <1>1, <1>7

\* What reserve_orders leaves.
LEMMA FreshChain ==
  ASSUME NEW link, \A s \in SlotIndexes : link[s] = IF s = Capacity THEN kInvalidSlot ELSE s + 1
  PROVE  \E pos : Chain(SlotIndexes, pos, link, FreshHead, Capacity)
<1> DEFINE pos == [s \in SlotIndexes |-> s]
<1>1. Capacity \in Nat /\ SlotIndexes = 1..Capacity
  BY PoolAssumption DEF SlotIndexes
<1>2. \A s \in SlotIndexes : pos[s] = s
  OBVIOUS
<1> HIDE DEF pos
<1>3. /\ \A s \in SlotIndexes : pos[s] \in 1..Capacity
      /\ \A s, t \in SlotIndexes : pos[s] = pos[t] => s = t
  BY <1>1, <1>2
<1>4. IF Capacity = 0 THEN FreshHead = kInvalidSlot
      ELSE FreshHead \in SlotIndexes /\ pos[FreshHead] = 1
  BY <1>1, <1>2 DEF FreshHead
<1>5. ASSUME NEW s \in SlotIndexes
      PROVE  IF pos[s] = Capacity THEN link[s] = kInvalidSlot
             ELSE link[s] \in SlotIndexes /\ pos[link[s]] = pos[s] + 1
  <2>1. CASE s = Capacity
    BY <1>2, <2>1
  <2>2. CASE s # Capacity
    <3>1. link[s] = s + 1 /\ s + 1 \in SlotIndexes
      BY <1>1, <2>2
    <3> QED
      BY <1>2, <2>2, <3>1
  <2> QED
    BY <2>1, <2>2
<1>6. Chain(SlotIndexes, pos, link, FreshHead, Capacity)
  BY <1>3, <1>4, <1>5 DEF Chain
<1> QED
  BY <1>6

(***************************************************************************)
(* The invariant.  The slots of a level are those that say so: the live    *)
(* ones with its side and its price.  A price without a level is an empty  *)
(* list, so every operation is one on lists, whether or not it adds or     *)
(* erases a level.                                                         *)
(***************************************************************************)
SlotRecord ==
  [order_id : OrderIds \cup {NoId}, side : Sides, price : 0..MaxPrice, qty : Int,
   prev : 0..Capacity, next : 0..Capacity, free_next : 0..Capacity, live : BOOLEAN]
Level == [total_qty : Int, head : 0..Capacity, tail : 0..Capacity, order_count : Nat]

NextOf(pool) == [s \in SlotIndexes |-> pool[s].next]
PrevOf(pool) == [s \in SlotIndexes |-> pool[s].prev]
FreeNextOf(pool) == [s \in SlotIndexes |-> pool[s].free_next]
AmountOf(pool) == [s \in SlotIndexes |-> pool[s].qty]

At(pool, side, p) ==
  {s \in SlotIndexes : pool[s].live /\ pool[s].side = side /\ pool[s].price = p}
Free(pool) == {s \in SlotIndexes : ~pool[s].live}
LevelIn(lv, side, p) == IF p \in DOMAIN lv[side] THEN lv[side][p] ELSE NewLevel

Linked(M, pool, level) ==
  Listed(M, NextOf(pool), PrevOf(pool), AmountOf(pool),
         level.head, level.tail, level.order_count, level.total_qty)
FreeLinked(pool, first) ==
  \E pos : \E n \in Nat : Chain(Free(pool), pos, FreeNextOf(pool), first, n)

LevelsTyped(lv) ==
  /\ DOMAIN lv = Sides
  /\ \A side \in Sides :
       /\ lv[side] = [p \in DOMAIN lv[side] |-> lv[side][p]]
       /\ \A p \in DOMAIN lv[side] :
            p \in Prices /\ lv[side][p] \in Level /\ lv[side][p].order_count # 0
PoolTyped(pool) ==
  /\ pool \in [SlotIndexes -> SlotRecord]
  /\ \A s \in SlotIndexes : pool[s].live => pool[s].price \in Prices
Lists(lv, pool) ==
  \A side \in Sides, p \in Prices : Linked(At(pool, side, p), pool, LevelIn(lv, side, p))
Indexed(pool, index) ==
  /\ \A s \in SlotIndexes : pool[s].live =>
       pool[s].order_id \in DOMAIN index /\ index[pool[s].order_id] = s
  /\ \A id \in DOMAIN index :
       index[id] \in SlotIndexes /\ pool[index[id]].live /\ pool[index[id]].order_id = id

Sound(lv, pool, first, index) ==
  /\ LevelsTyped(lv)
  /\ PoolTyped(pool)
  /\ Lists(lv, pool)
  /\ FreeLinked(pool, first)
  /\ Indexed(pool, index)

\* The level of an order that rests exists.
LEMMA LiveHasLevel ==
  ASSUME NEW lv, NEW pool, NEW first, NEW index, Sound(lv, pool, first, index),
         NEW r \in SlotIndexes, pool[r].live
  PROVE  /\ pool[r] \in SlotRecord /\ pool[r].side \in Sides /\ pool[r].price \in Prices
         /\ pool[r].qty \in Int
         /\ r \in At(pool, pool[r].side, pool[r].price)
         /\ pool[r].price \in DOMAIN lv[pool[r].side]
         /\ LevelIn(lv, pool[r].side, pool[r].price) = lv[pool[r].side][pool[r].price]
         /\ lv[pool[r].side][pool[r].price] \in Level
         /\ lv[pool[r].side][pool[r].price].order_count - 1 \in Nat
<1> DEFINE side == pool[r].side
           p == pool[r].price
<1>1. pool[r] \in SlotRecord /\ side \in Sides /\ p \in Prices /\ pool[r].qty \in Int
  BY DEF Sound, PoolTyped, SlotRecord
<1>2. r \in At(pool, side, p)
  BY DEF At
<1>3. Linked(At(pool, side, p), pool, LevelIn(lv, side, p))
  BY <1>1 DEF Sound, Lists
<1>4. p \in DOMAIN lv[side]
  <2>1. CASE p \notin DOMAIN lv[side]
    <3>1. LevelIn(lv, side, p).order_count = 0
      BY <2>1 DEF LevelIn, NewLevel
    <3> QED
      BY <1>2, <1>3, <3>1 DEF Linked, Listed, Doubly, Chain
  <2> QED
    BY <2>1
<1>5. lv[side][p] \in Level /\ lv[side][p].order_count # 0
  BY <1>1, <1>4 DEF Sound, LevelsTyped
<1>6. lv[side][p].order_count - 1 \in Nat
  BY <1>5 DEF Level
<1> QED
  BY <1>1, <1>2, <1>4, <1>5, <1>6 DEF LevelIn

\* Members of a list stay among themselves: their links lead to one another or nowhere.
LEMMA LinksStay ==
  ASSUME NEW lv, NEW pool, Lists(lv, pool), NEW side \in Sides, NEW p \in Prices,
         NEW s \in At(pool, side, p)
  PROVE  /\ pool[s].next = kInvalidSlot \/ pool[s].next \in At(pool, side, p)
         /\ pool[s].prev = kInvalidSlot \/ pool[s].prev \in At(pool, side, p)
<1>1. Linked(At(pool, side, p), pool, LevelIn(lv, side, p))
  BY DEF Lists
<1>2. s \in SlotIndexes
  BY DEF At
<1>3. NextOf(pool)[s] = pool[s].next /\ PrevOf(pool)[s] = pool[s].prev
  BY <1>2 DEF NextOf, PrevOf
<1> QED
  BY <1>1, <1>3 DEF Linked, Listed, Doubly, Chain

\* A level with its list, written with the fields of the slots.
LEMMA FieldsOf ==
  ASSUME NEW pool, NEW s \in SlotIndexes
  PROVE  /\ NextOf(pool)[s] = pool[s].next /\ PrevOf(pool)[s] = pool[s].prev
         /\ AmountOf(pool)[s] = pool[s].qty /\ FreeNextOf(pool)[s] = pool[s].free_next
BY DEF NextOf, PrevOf, AmountOf, FreeNextOf

(***************************************************************************)
(* A slot leaves its list and becomes the first free one.                  *)
(***************************************************************************)
\* lv2 is lv with another level at one price.
Rewritten(lv, lv2, side, p, level) ==
  \A s \in Sides, q \in Prices :
    LevelIn(lv2, s, q) = IF s = side /\ q = p
                         THEN IF level.order_count = 0 THEN NewLevel ELSE level
                         ELSE LevelIn(lv, s, q)

Leaves(pool, pool2, r, first) ==
  /\ pool2 \in [SlotIndexes -> SlotRecord]
  /\ \A s \in SlotIndexes \ {r} :
       /\ pool2[s].order_id = pool[s].order_id /\ pool2[s].live = pool[s].live
       /\ pool2[s].side = pool[s].side /\ pool2[s].price = pool[s].price
       /\ pool2[s].qty = pool[s].qty /\ pool2[s].free_next = pool[s].free_next
       /\ pool2[s].next = IF s = pool[r].prev THEN pool[r].next ELSE pool[s].next
       /\ pool2[s].prev = IF s = pool[r].next THEN pool[r].prev ELSE pool[s].prev
  /\ ~pool2[r].live /\ pool2[r].free_next = first

Lessened(old, level, order) ==
  /\ level.total_qty = old.total_qty - order.qty
  /\ level.head = IF order.prev = kInvalidSlot THEN order.next ELSE old.head
  /\ level.tail = IF order.next = kInvalidSlot THEN order.prev ELSE old.tail
  /\ level.order_count = old.order_count - 1

LEMMA SlotLeaves ==
  ASSUME NEW lv, NEW pool, NEW first, NEW index, Sound(lv, pool, first, index),
         NEW r \in SlotIndexes, pool[r].live,
         NEW pool2, Leaves(pool, pool2, r, first),
         NEW old, old = LevelIn(lv, pool[r].side, pool[r].price),
         NEW level, Lessened(old, level, pool[r]),
         NEW lv2, LevelsTyped(lv2), Rewritten(lv, lv2, pool[r].side, pool[r].price, level)
  PROVE  Sound(lv2, pool2, r, Erase(index, pool[r].order_id))
<1> USE DEF Leaves, Lessened, Rewritten
<1>1. /\ LevelsTyped(lv) /\ PoolTyped(pool) /\ Lists(lv, pool) /\ FreeLinked(pool, first)
      /\ Indexed(pool, index)
  BY DEF Sound
<1>2. /\ pool[r].side \in Sides /\ pool[r].price \in Prices /\ pool[r].qty \in Int
      /\ r \in At(pool, pool[r].side, pool[r].price)
      /\ old.order_count \in Nat
  <2>1. old \in Level
    BY LiveHasLevel
  <2> QED
    BY <2>1, LiveHasLevel DEF Level
<1>3. PoolTyped(pool2)
  BY <1>1 DEF PoolTyped
<1>4. \A side \in Sides, p \in Prices :
        At(pool2, side, p) = At(pool, side, p) \ {r}
  BY DEF At
<1>5. ASSUME NEW side \in Sides, NEW p \in Prices
      PROVE  Linked(At(pool2, side, p), pool2, LevelIn(lv2, side, p))
  <2> DEFINE M == At(pool, side, p)
  <2>1. M \subseteq SlotIndexes /\ \A s \in M : pool[s].qty \in Int
    BY <1>1 DEF At, PoolTyped, SlotRecord
  <2>2. Linked(M, pool, LevelIn(lv, side, p))
    BY <1>1 DEF Lists
  <2>3. At(pool2, side, p) = M \ {r}
    BY <1>4
  <2>4. CASE side = pool[r].side /\ p = pool[r].price
    <3>1. LevelIn(lv, side, p) = old /\ r \in M
      BY <1>2, <2>4
    <3> HIDE DEF M
    <3>2. \A s \in M : AmountOf(pool)[s] \in Int
      BY <2>1, FieldsOf
    <3>3. /\ NextOf(pool)[r] = pool[r].next /\ PrevOf(pool)[r] = pool[r].prev
          /\ AmountOf(pool)[r] = pool[r].qty
      BY FieldsOf
    <3>4. \A s \in M \ {r} :
            /\ NextOf(pool2)[s] = IF s = PrevOf(pool)[r] THEN NextOf(pool)[r] ELSE NextOf(pool)[s]
            /\ PrevOf(pool2)[s] = IF s = NextOf(pool)[r] THEN PrevOf(pool)[r] ELSE PrevOf(pool)[s]
            /\ AmountOf(pool2)[s] = AmountOf(pool)[s]
      BY <2>1, <3>3, FieldsOf
    <3>6. /\ level.head = IF PrevOf(pool)[r] = kInvalidSlot THEN NextOf(pool)[r] ELSE old.head
          /\ level.tail = IF NextOf(pool)[r] = kInvalidSlot THEN PrevOf(pool)[r] ELSE old.tail
      BY <3>3
    <3>7. Unlinks(M, r, NextOf(pool), PrevOf(pool), AmountOf(pool), old.head, old.tail,
                  NextOf(pool2), PrevOf(pool2), AmountOf(pool2), level.head, level.tail)
      BY <3>2, <3>4, <3>6 DEF Unlinks
    <3>8. Linked(M \ {r}, pool2, level)
      <4>1. Listed(M, NextOf(pool), PrevOf(pool), AmountOf(pool),
                   old.head, old.tail, old.order_count, old.total_qty)
        BY <2>2, <3>1 DEF Linked
      <4>2. Listed(M \ {r}, NextOf(pool2), PrevOf(pool2), AmountOf(pool2), level.head, level.tail,
                   old.order_count - 1, old.total_qty - AmountOf(pool)[r])
        BY <1>2, <2>1, <3>1, <3>7, <4>1, Unlinking
      <4> QED
        BY <3>3, <4>2 DEF Linked
    <3>9. CASE level.order_count = 0
      <4>1. level.head = NewLevel.head /\ level.tail = NewLevel.tail
            /\ level.total_qty = NewLevel.total_qty /\ level.order_count = NewLevel.order_count
        BY <3>8, <3>9 DEF Linked, Listed, Doubly, Chain, AddedUp, NewLevel
      <4>2. Linked(M \ {r}, pool2, NewLevel)
        BY <3>8, <4>1 DEF Linked
      <4>3. LevelIn(lv2, side, p) = NewLevel
        BY <2>4, <3>9
      <4> QED
        BY <2>3, <4>2, <4>3
    <3>10. CASE level.order_count # 0
      <4>1. LevelIn(lv2, side, p) = level
        BY <2>4, <3>10
      <4> QED
        BY <2>3, <3>8, <4>1
    <3> QED
      BY <3>9, <3>10
  <2>5. CASE ~(side = pool[r].side /\ p = pool[r].price)
    <3>1. LevelIn(lv2, side, p) = LevelIn(lv, side, p) /\ r \notin M /\ M \ {r} = M
      BY <2>5 DEF At
    <3>2. /\ pool[r].next = kInvalidSlot \/ pool[r].next \in At(pool, pool[r].side, pool[r].price)
          /\ pool[r].prev = kInvalidSlot \/ pool[r].prev \in At(pool, pool[r].side, pool[r].price)
      BY <1>1, <1>2, LinksStay
    <3>3. pool[r].next \notin M /\ pool[r].prev \notin M
      BY <2>5, <3>2 DEF At, SlotIndexes, kInvalidSlot
    <3> HIDE DEF M
    <3>4. SameFields(M, NextOf(pool), PrevOf(pool), AmountOf(pool),
                     NextOf(pool2), PrevOf(pool2), AmountOf(pool2))
      BY <2>1, <3>1, <3>3, FieldsOf DEF SameFields
    <3>6. Linked(M, pool2, LevelIn(lv, side, p))
      BY <2>2, <3>4, ListUntouched DEF Linked
    <3> QED
      BY <2>3, <3>1, <3>6
  <2> QED
    BY <2>4, <2>5
<1>6. FreeLinked(pool2, r)
  <2>1. PICK pos : \E n \in Nat : Chain(Free(pool), pos, FreeNextOf(pool), first, n)
    BY <1>1 DEF FreeLinked
  <2>2. PICK n \in Nat : Chain(Free(pool), pos, FreeNextOf(pool), first, n)
    BY <2>1
  <2>3. Free(pool2) = Free(pool) \cup {r} /\ r \notin Free(pool) /\ kInvalidSlot \notin Free(pool)
    BY DEF Free, SlotIndexes, kInvalidSlot
  <2>4. /\ \A s \in Free(pool) : FreeNextOf(pool2)[s] = FreeNextOf(pool)[s]
        /\ FreeNextOf(pool2)[r] = first
    <3>1. \A s \in Free(pool) : s \in SlotIndexes \ {r}
      BY <2>3 DEF Free
    <3> QED
      BY <3>1, FieldsOf
  <2>5. \E pos2 : Chain(Free(pool2), pos2, FreeNextOf(pool2), r, n + 1)
    BY <2>2, <2>3, <2>4, Freeing
  <2> QED
    BY <2>5 DEF FreeLinked
<1>7. Indexed(pool2, Erase(index, pool[r].order_id))
  <2>1. index[pool[r].order_id] = r
    BY <1>1 DEF Indexed
  <2> QED
    BY <1>1, <2>1 DEF Indexed, Erase
<1> QED
  BY <1>3, <1>5, <1>6, <1>7 DEF Sound, Lists

(***************************************************************************)
(* The first free slot becomes the tail of a level.                        *)
(***************************************************************************)
LEMMA FirstIsFree ==
  ASSUME NEW pool, NEW first, FreeLinked(pool, first), first # kInvalidSlot
  PROVE  first \in SlotIndexes /\ ~pool[first].live
<1>1. PICK pos : \E n \in Nat : Chain(Free(pool), pos, FreeNextOf(pool), first, n)
  BY DEF FreeLinked
<1>2. first \in Free(pool)
  BY <1>1 DEF Chain
<1> QED
  BY <1>2 DEF Free

Arrives(pool, pool2, first, order, tail) ==
  /\ pool2 \in [SlotIndexes -> SlotRecord]
  /\ \A s \in SlotIndexes \ {first} :
       /\ pool2[s].order_id = pool[s].order_id /\ pool2[s].live = pool[s].live
       /\ pool2[s].side = pool[s].side /\ pool2[s].price = pool[s].price
       /\ pool2[s].qty = pool[s].qty /\ pool2[s].free_next = pool[s].free_next
       /\ pool2[s].next = IF s = tail THEN first ELSE pool[s].next
       /\ pool2[s].prev = pool[s].prev
  /\ pool2[first].order_id = order.order_id /\ pool2[first].live
  /\ pool2[first].side = order.side /\ pool2[first].price = order.price
  /\ pool2[first].qty = order.qty
  /\ pool2[first].prev = tail /\ pool2[first].next = kInvalidSlot

Increased(old, level, first, qty) ==
  /\ level.total_qty = old.total_qty + qty
  /\ level.head = IF old.tail = kInvalidSlot THEN first ELSE old.head
  /\ level.tail = first
  /\ level.order_count = old.order_count + 1

LEMMA SlotTaken ==
  ASSUME NEW lv, NEW pool, NEW first, NEW index, Sound(lv, pool, first, index),
         first # kInvalidSlot,
         NEW order, order.order_id \notin DOMAIN index, order.side \in Sides,
         order.price \in Prices, order.qty \in Int,
         NEW old, old = LevelIn(lv, order.side, order.price),
         NEW pool2, Arrives(pool, pool2, first, order, old.tail),
         NEW level, Increased(old, level, first, order.qty),
         NEW lv2, LevelsTyped(lv2), Rewritten(lv, lv2, order.side, order.price, level)
  PROVE  Sound(lv2, pool2, pool[first].free_next, Put(index, order.order_id, first))
<1> USE DEF Arrives, Increased
<1> DEFINE id == order.order_id
           side == order.side
           p == order.price
           qty == order.qty
<1>0. \A s \in Sides, q \in Prices :
        LevelIn(lv2, s, q) = IF s = side /\ q = p THEN level ELSE LevelIn(lv, s, q)
  <2>1. old \in Level
    BY PoolAssumption DEF Sound, LevelsTyped, LevelIn, Level, NewLevel, kInvalidSlot
  <2>2. level.order_count # 0
    BY <2>1 DEF Level
  <2> QED
    BY <2>2 DEF Rewritten
<1>1. /\ LevelsTyped(lv) /\ PoolTyped(pool) /\ Lists(lv, pool) /\ FreeLinked(pool, first)
      /\ Indexed(pool, index)
  BY DEF Sound
<1>2. first \in SlotIndexes /\ ~pool[first].live
  BY <1>1, FirstIsFree
<1>3. PoolTyped(pool2)
  BY <1>1, <1>2 DEF PoolTyped
<1>4. /\ At(pool2, side, p) = At(pool, side, p) \cup {first} /\ first \notin At(pool, side, p)
      /\ \A s \in Sides, q \in Prices : ~(s = side /\ q = p) => At(pool2, s, q) = At(pool, s, q)
  BY <1>2 DEF At
<1>5. old.order_count \in Nat /\ old.total_qty \in Int
  <2>1. old \in Level
    BY <1>1, PoolAssumption DEF LevelsTyped, LevelIn, Level, NewLevel, kInvalidSlot
  <2> QED
    BY <2>1 DEF Level
<1>6. old.tail = kInvalidSlot \/ old.tail \in At(pool, side, p)
  <2>1. Linked(At(pool, side, p), pool, old)
    BY <1>1 DEF Lists
  <2> QED
    BY <2>1 DEF Linked, Listed, Doubly
<1>7. ASSUME NEW s \in Sides, NEW q \in Prices
      PROVE  Linked(At(pool2, s, q), pool2, LevelIn(lv2, s, q))
  <2> DEFINE M == At(pool, s, q)
  <2>1. M \subseteq SlotIndexes \ {first}
    BY <1>2 DEF At
  <2>2. Linked(M, pool, LevelIn(lv, s, q))
    BY <1>1 DEF Lists
  <2>3. CASE s = side /\ q = p
    <3>1. /\ LevelIn(lv, s, q) = old /\ LevelIn(lv2, s, q) = level
          /\ At(pool2, s, q) = M \cup {first}
      BY <1>0, <1>4, <2>3
    <3> HIDE DEF M
    <3>2. Appends(M, first, NextOf(pool), PrevOf(pool), AmountOf(pool), old.head, old.tail,
                  NextOf(pool2), PrevOf(pool2), AmountOf(pool2), level.head)
      BY <1>2, <2>1, FieldsOf DEF Appends
    <3>3. Listed(M, NextOf(pool), PrevOf(pool), AmountOf(pool),
                 old.head, old.tail, old.order_count, old.total_qty)
      BY <2>2, <3>1 DEF Linked
    <3>4. first \in SlotIndexes \ M /\ M \subseteq SlotIndexes
      BY <1>2, <2>1
    <3>5. Listed(M \cup {first}, NextOf(pool2), PrevOf(pool2), AmountOf(pool2),
                 level.head, first, old.order_count + 1, old.total_qty + AmountOf(pool2)[first])
      BY <1>5, <3>2, <3>3, <3>4, Appending
    <3>6. AmountOf(pool2)[first] = qty
      BY <1>2, FieldsOf
    <3>7. Linked(M \cup {first}, pool2, level)
      BY <3>5, <3>6 DEF Linked
    <3> QED
      BY <3>1, <3>7
  <2>4. CASE ~(s = side /\ q = p)
    <3>1. LevelIn(lv2, s, q) = LevelIn(lv, s, q) /\ At(pool2, s, q) = M
      BY <1>0, <1>4, <2>4
    <3>2. old.tail \notin M
      BY <1>6, <2>4 DEF At, SlotIndexes, kInvalidSlot
    <3> HIDE DEF M
    <3>3. SameFields(M, NextOf(pool), PrevOf(pool), AmountOf(pool),
                     NextOf(pool2), PrevOf(pool2), AmountOf(pool2))
      BY <2>1, <3>2, FieldsOf DEF SameFields
    <3>4. Linked(M, pool2, LevelIn(lv, s, q))
      BY <2>2, <3>3, ListUntouched DEF Linked
    <3> QED
      BY <3>1, <3>4
  <2> QED
    BY <2>3, <2>4
<1>8. FreeLinked(pool2, pool[first].free_next)
  <2>1. PICK pos : \E n \in Nat : Chain(Free(pool), pos, FreeNextOf(pool), first, n)
    BY <1>1 DEF FreeLinked
  <2>2. PICK n \in Nat : Chain(Free(pool), pos, FreeNextOf(pool), first, n)
    BY <2>1
  <2>3. Free(pool2) = Free(pool) \ {first}
    BY <1>2 DEF Free
  <2>4. \A s \in Free(pool) \ {first} : FreeNextOf(pool2)[s] = FreeNextOf(pool)[s]
    BY FieldsOf DEF Free
  <2>5. /\ n - 1 \in Nat
        /\ \E pos2 : Chain(Free(pool) \ {first}, pos2, FreeNextOf(pool2),
                           FreeNextOf(pool)[first], n - 1)
    BY <2>2, <2>4, Taking
  <2>6. FreeNextOf(pool)[first] = pool[first].free_next
    BY <1>2, FieldsOf
  <2> QED
    BY <2>3, <2>5, <2>6 DEF FreeLinked
<1>9. Indexed(pool2, Put(index, id, first))
  BY <1>1, <1>2 DEF Indexed, Put
<1> QED
  BY <1>3, <1>7, <1>8, <1>9 DEF Sound, Lists

(***************************************************************************)
(* The order at the head of a level.                                       *)
(***************************************************************************)
LEMMA HeadFacts ==
  ASSUME NEW lv, NEW pool, NEW first, NEW index, Sound(lv, pool, first, index),
         NEW side \in Sides, NEW p \in DOMAIN lv[side]
  PROVE  /\ p \in Prices /\ lv[side][p] \in Level /\ LevelIn(lv, side, p) = lv[side][p]
         /\ lv[side][p].order_count \in Nat \ {0}
         /\ lv[side][p].head \in SlotIndexes /\ pool[lv[side][p].head].live
         /\ pool[lv[side][p].head].side = side /\ pool[lv[side][p].head].price = p
         /\ pool[lv[side][p].head].prev = kInvalidSlot
         /\ lv[side][p].tail = lv[side][p].head <=>
              pool[lv[side][p].head].next = kInvalidSlot
<1> DEFINE level == lv[side][p]
           M == At(pool, side, p)
<1>1. p \in Prices /\ level \in Level /\ level.order_count # 0 /\ LevelIn(lv, side, p) = level
  BY DEF Sound, LevelsTyped, LevelIn
<1>2. level.order_count \in Nat
  BY <1>1 DEF Level
<1>3. Linked(M, pool, level)
  BY <1>1 DEF Sound, Lists
<1>4. M \subseteq SlotIndexes
  BY DEF At
<1> HIDE DEF level, M
<1>5. PICK pos, upto : Doubly(M, pos, NextOf(pool), PrevOf(pool), level.head, level.tail,
                              level.order_count)
  BY <1>3 DEF Linked, Listed
<1>6. /\ level.head \in M /\ pos[level.head] = 1 /\ level.tail \in M
      /\ pos[level.tail] = level.order_count
      /\ PrevOf(pool)[level.head] = kInvalidSlot
      /\ \A s, t \in M : pos[s] = pos[t] => s = t
      /\ IF pos[level.head] = level.order_count THEN NextOf(pool)[level.head] = kInvalidSlot
         ELSE NextOf(pool)[level.head] \in M
  BY <1>1, <1>5 DEF Doubly, Chain
<1>7. kInvalidSlot \notin M
  BY <1>4 DEF SlotIndexes, kInvalidSlot
<1>8. level.tail = level.head <=> NextOf(pool)[level.head] = kInvalidSlot
  BY <1>6, <1>7
<1>9. /\ PrevOf(pool)[level.head] = pool[level.head].prev
      /\ NextOf(pool)[level.head] = pool[level.head].next
  BY <1>4, <1>6, FieldsOf
<1> QED
  BY <1>1, <1>2, <1>4, <1>6, <1>8, <1>9 DEF level, M, At

\* Part of the order at the head is filled.
LessFilled(pool, pool2, r, fill) ==
  /\ pool2 \in [SlotIndexes -> SlotRecord]
  /\ \A s \in SlotIndexes :
       /\ pool2[s].order_id = pool[s].order_id /\ pool2[s].live = pool[s].live
       /\ pool2[s].side = pool[s].side /\ pool2[s].price = pool[s].price
       /\ pool2[s].free_next = pool[s].free_next
       /\ pool2[s].next = pool[s].next /\ pool2[s].prev = pool[s].prev
       /\ pool2[s].qty = IF s = r THEN pool[s].qty - fill ELSE pool[s].qty

LEMMA HeadPartlyFilled ==
  ASSUME NEW lv, NEW pool, NEW first, NEW index, Sound(lv, pool, first, index),
         NEW side \in Sides, NEW p \in DOMAIN lv[side],
         NEW old, old = lv[side][p], NEW fill \in Int,
         NEW pool2, LessFilled(pool, pool2, old.head, fill),
         NEW lv2, LevelsTyped(lv2),
         Rewritten(lv, lv2, side, p, [old EXCEPT !.total_qty = @ - fill])
  PROVE  Sound(lv2, pool2, first, index)
<1> USE DEF LessFilled
<1>1. /\ LevelsTyped(lv) /\ PoolTyped(pool) /\ Lists(lv, pool) /\ FreeLinked(pool, first)
      /\ Indexed(pool, index)
  BY DEF Sound
<1>2. /\ p \in Prices /\ old \in Level /\ LevelIn(lv, side, p) = old
      /\ old.order_count \in Nat \ {0}
      /\ old.head \in SlotIndexes /\ pool[old.head].live
      /\ pool[old.head].side = side /\ pool[old.head].price = p
  BY HeadFacts
<1>0. \A s \in Sides, q \in Prices :
        LevelIn(lv2, s, q) = IF s = side /\ q = p THEN [old EXCEPT !.total_qty = @ - fill]
                             ELSE LevelIn(lv, s, q)
  <2>1. [old EXCEPT !.total_qty = @ - fill].order_count # 0
    BY <1>2 DEF Level
  <2> QED
    BY <2>1 DEF Rewritten
<1>3. \A s \in SlotIndexes : pool[s].qty \in Int
  BY <1>1 DEF PoolTyped, SlotRecord
<1>7. PoolTyped(pool2)
  BY <1>1 DEF PoolTyped
<1>8. \A s \in Sides, q \in Prices : At(pool2, s, q) = At(pool, s, q)
  BY DEF At
<1>9. ASSUME NEW s \in Sides, NEW q \in Prices
      PROVE  Linked(At(pool2, s, q), pool2, LevelIn(lv2, s, q))
  <2> DEFINE M == At(pool, s, q)
  <2>1. M \subseteq SlotIndexes
    BY DEF At
  <2>2. Linked(M, pool, LevelIn(lv, s, q))
    BY <1>1 DEF Lists
  <2>3. CASE s = side /\ q = p
    <3>1. LevelIn(lv, s, q) = old /\ LevelIn(lv2, s, q) = [old EXCEPT !.total_qty = @ - fill]
      BY <1>0, <1>2, <2>3
    <3> HIDE DEF M
    <3>2. Shrinks(M, old.head, fill, NextOf(pool), PrevOf(pool), AmountOf(pool),
                  NextOf(pool2), PrevOf(pool2), AmountOf(pool2))
      BY <1>3, <2>1, FieldsOf DEF Shrinks
    <3>3. Listed(M, NextOf(pool), PrevOf(pool), AmountOf(pool),
                 old.head, old.tail, old.order_count, old.total_qty)
      BY <2>2, <3>1 DEF Linked
    <3>4. Listed(M, NextOf(pool2), PrevOf(pool2), AmountOf(pool2),
                 old.head, old.tail, old.order_count, old.total_qty - fill)
      BY <1>2, <2>1, <3>2, <3>3, HeadShrinks
    <3>5. /\ LevelIn(lv2, s, q).head = old.head /\ LevelIn(lv2, s, q).tail = old.tail
          /\ LevelIn(lv2, s, q).order_count = old.order_count
          /\ LevelIn(lv2, s, q).total_qty = old.total_qty - fill
      BY <1>2, <3>1 DEF Level
    <3> QED
      BY <1>8, <3>4, <3>5 DEF Linked, M
  <2>4. CASE ~(s = side /\ q = p)
    <3>1. LevelIn(lv2, s, q) = LevelIn(lv, s, q)
      BY <1>0, <2>4
    <3>2. old.head \notin M
      BY <1>2, <2>4 DEF At
    <3> HIDE DEF M
    <3>3. SameFields(M, NextOf(pool), PrevOf(pool), AmountOf(pool),
                     NextOf(pool2), PrevOf(pool2), AmountOf(pool2))
      BY <2>1, <3>2, FieldsOf DEF SameFields
    <3>4. Linked(M, pool2, LevelIn(lv, s, q))
      BY <2>2, <3>3, ListUntouched DEF Linked
    <3> QED
      BY <1>8, <3>1, <3>4 DEF M
  <2> QED
    BY <2>3, <2>4
<1>10. FreeLinked(pool2, first)
  <2>1. Free(pool2) = Free(pool) /\ FreeNextOf(pool2) = FreeNextOf(pool)
    BY DEF Free, FreeNextOf
  <2> QED
    BY <1>1, <2>1 DEF FreeLinked
<1>11. Indexed(pool2, index)
  BY <1>1 DEF Indexed
<1> QED
  BY <1>7, <1>9, <1>10, <1>11 DEF Sound, Lists

(***************************************************************************)
(* What the operations write, slot by slot and level by level.             *)
(***************************************************************************)
SameBut(pool, pool2, s) ==
  /\ pool2[s].order_id = pool[s].order_id /\ pool2[s].live = pool[s].live
  /\ pool2[s].side = pool[s].side /\ pool2[s].price = pool[s].price
  /\ pool2[s].qty = pool[s].qty /\ pool2[s].free_next = pool[s].free_next

LEMMA NextSetFields ==
  ASSUME NEW pool \in [SlotIndexes -> SlotRecord], NEW slot \in 0..Capacity,
         NEW link \in 0..Capacity
  PROVE  /\ NextSet(pool, slot, link) \in [SlotIndexes -> SlotRecord]
         /\ \A s \in SlotIndexes :
              /\ SameBut(pool, NextSet(pool, slot, link), s)
              /\ NextSet(pool, slot, link)[s].prev = pool[s].prev
              /\ NextSet(pool, slot, link)[s].next = IF s = slot THEN link ELSE pool[s].next
<1>1. CASE slot = kInvalidSlot
  <2>1. \A s \in SlotIndexes : s # slot
    BY <1>1 DEF kInvalidSlot, SlotIndexes
  <2> QED
    BY <1>1, <2>1 DEF NextSet, SameBut
<1>2. CASE slot # kInvalidSlot
  <2> DEFINE rec == [pool[slot] EXCEPT !.next = link]
             pool2 == [pool EXCEPT ![slot] = rec]
  <2>1. slot \in SlotIndexes /\ pool[slot] \in SlotRecord
    BY <1>2, PoolAssumption DEF kInvalidSlot, SlotIndexes
  <2>2. /\ rec \in SlotRecord /\ rec.next = link /\ rec.prev = pool[slot].prev
        /\ rec.order_id = pool[slot].order_id /\ rec.side = pool[slot].side
        /\ rec.price = pool[slot].price /\ rec.qty = pool[slot].qty
        /\ rec.free_next = pool[slot].free_next
    BY <2>1 DEF SlotRecord
  <2>3. rec.live = pool[slot].live
    BY <2>1 DEF SlotRecord
  <2>4. NextSet(pool, slot, link) = pool2
    BY <1>2 DEF NextSet
  <2> HIDE DEF rec
  <2>5. /\ pool2 \in [SlotIndexes -> SlotRecord]
        /\ \A s \in SlotIndexes : pool2[s] = IF s = slot THEN rec ELSE pool[s]
    BY <2>1, <2>2
  <2> HIDE DEF pool2
  <2>6. ASSUME NEW s \in SlotIndexes
        PROVE  /\ SameBut(pool, pool2, s) /\ pool2[s].prev = pool[s].prev
               /\ pool2[s].next = IF s = slot THEN link ELSE pool[s].next
    <3>1. CASE s = slot
      <4>1. pool2[s] = rec
        BY <2>5, <3>1
      <4> QED
        BY <2>2, <2>3, <3>1, <4>1 DEF SameBut
    <3>2. CASE s # slot
      BY <2>5, <3>2 DEF SameBut
    <3> QED
      BY <3>1, <3>2
  <2> QED
    BY <2>4, <2>5, <2>6
<1> QED
  BY <1>1, <1>2

LEMMA PrevSetFields ==
  ASSUME NEW pool \in [SlotIndexes -> SlotRecord], NEW slot \in 0..Capacity,
         NEW link \in 0..Capacity
  PROVE  /\ PrevSet(pool, slot, link) \in [SlotIndexes -> SlotRecord]
         /\ \A s \in SlotIndexes :
              /\ SameBut(pool, PrevSet(pool, slot, link), s)
              /\ PrevSet(pool, slot, link)[s].next = pool[s].next
              /\ PrevSet(pool, slot, link)[s].prev = IF s = slot THEN link ELSE pool[s].prev
<1>1. CASE slot = kInvalidSlot
  <2>1. \A s \in SlotIndexes : s # slot
    BY <1>1 DEF kInvalidSlot, SlotIndexes
  <2> QED
    BY <1>1, <2>1 DEF PrevSet, SameBut
<1>2. CASE slot # kInvalidSlot
  <2> DEFINE rec == [pool[slot] EXCEPT !.prev = link]
             pool2 == [pool EXCEPT ![slot] = rec]
  <2>1. slot \in SlotIndexes /\ pool[slot] \in SlotRecord
    BY <1>2, PoolAssumption DEF kInvalidSlot, SlotIndexes
  <2>2. /\ rec \in SlotRecord /\ rec.prev = link /\ rec.next = pool[slot].next
        /\ rec.order_id = pool[slot].order_id /\ rec.side = pool[slot].side
        /\ rec.price = pool[slot].price /\ rec.qty = pool[slot].qty
        /\ rec.free_next = pool[slot].free_next
    BY <2>1 DEF SlotRecord
  <2>3. rec.live = pool[slot].live
    BY <2>1 DEF SlotRecord
  <2>4. PrevSet(pool, slot, link) = pool2
    BY <1>2 DEF PrevSet
  <2> HIDE DEF rec
  <2>5. /\ pool2 \in [SlotIndexes -> SlotRecord]
        /\ \A s \in SlotIndexes : pool2[s] = IF s = slot THEN rec ELSE pool[s]
    BY <2>1, <2>2
  <2> HIDE DEF pool2
  <2>6. ASSUME NEW s \in SlotIndexes
        PROVE  /\ SameBut(pool, pool2, s) /\ pool2[s].next = pool[s].next
               /\ pool2[s].prev = IF s = slot THEN link ELSE pool[s].prev
    <3>1. CASE s = slot
      <4>1. pool2[s] = rec
        BY <2>5, <3>1
      <4> QED
        BY <2>2, <2>3, <3>1, <4>1 DEF SameBut
    <3>2. CASE s # slot
      BY <2>5, <3>2 DEF SameBut
    <3> QED
      BY <3>1, <3>2
  <2> QED
    BY <2>4, <2>5, <2>6
<1> QED
  BY <1>1, <1>2

LEMMA FreeSlotTyped ==
  ASSUME NEW link \in 0..Capacity
  PROVE  /\ [EmptySlot EXCEPT !.free_next = link] \in SlotRecord
         /\ [EmptySlot EXCEPT !.free_next = link].free_next = link
         /\ ~[EmptySlot EXCEPT !.free_next = link].live
<1>1. /\ NoId \in OrderIds \cup {NoId} /\ "Bid" \in Sides /\ 0 \in 0..MaxPrice
      /\ 0 \in 0..Capacity /\ FALSE \in BOOLEAN /\ 0 \in Int
  BY PoolAssumption DEF Sides
<1>2. EmptySlot \in SlotRecord
  BY <1>1 DEF SlotRecord, EmptySlot, kInvalidSlot
<1>3. ~EmptySlot.live
  BY DEF EmptySlot
<1>4. [EmptySlot EXCEPT !.free_next = link].live = EmptySlot.live
  BY <1>2 DEF SlotRecord
<1> QED
  BY <1>2, <1>3, <1>4 DEF SlotRecord

LEMMA ReleasedFields ==
  ASSUME NEW pool \in [SlotIndexes -> SlotRecord], NEW slot \in SlotIndexes,
         free_head \in 0..Capacity
  PROVE  /\ Released(pool, slot) \in [SlotIndexes -> SlotRecord]
         /\ \A s \in SlotIndexes \ {slot} : Released(pool, slot)[s] = pool[s]
         /\ ~Released(pool, slot)[slot].live
         /\ Released(pool, slot)[slot].free_next = free_head
<1> DEFINE rec == [EmptySlot EXCEPT !.free_next = free_head]
<1>1. rec \in SlotRecord /\ rec.free_next = free_head
  BY FreeSlotTyped
<1>2. ~rec.live
  BY FreeSlotTyped
<1>3. Released(pool, slot) = [pool EXCEPT ![slot] = rec]
  BY DEF Released
<1> HIDE DEF rec
<1>4. Released(pool, slot)[slot] = rec
  BY <1>3
<1> QED
  BY <1>1, <1>2, <1>3, <1>4

\* A level written to its map, or erased from it with its last order.
WithLevel(side, p, level) == [levels EXCEPT ![side] = Stored(side, p, level)]

LEMMA StoredLevels ==
  ASSUME NEW side \in Sides, NEW p \in Prices, LevelsTyped(levels), NEW level \in Level
  PROVE  /\ LevelsTyped(WithLevel(side, p, level))
         /\ Rewritten(levels, WithLevel(side, p, level), side, p, level)
<1> DEFINE map == Stored(side, p, level)
           lv == [levels EXCEPT ![side] = map]
<1>1. DOMAIN levels = Sides
  BY DEF LevelsTyped
<1>2. /\ DOMAIN lv = Sides /\ lv[side] = map
      /\ \A s \in Sides \ {side} : lv[s] = levels[s]
  BY <1>1
<1> HIDE DEF lv
<1>3. /\ \A q \in DOMAIN levels[side] :
           q \in Prices /\ levels[side][q] \in Level /\ levels[side][q].order_count # 0
      /\ \A s \in Sides : levels[s] = [q \in DOMAIN levels[s] |-> levels[s][q]]
  BY DEF LevelsTyped
<1>4. /\ map = [q \in DOMAIN map |-> map[q]]
      /\ DOMAIN map = IF level.order_count = 0 THEN DOMAIN levels[side] \ {p}
                      ELSE DOMAIN levels[side] \cup {p}
      /\ \A q \in DOMAIN map : map[q] = IF q = p THEN level ELSE levels[side][q]
  BY DEF Stored, Put, Erase
<1> HIDE DEF map
<1>5. LevelsTyped(lv)
  <2>1. ASSUME NEW s \in Sides
        PROVE  /\ lv[s] = [q \in DOMAIN lv[s] |-> lv[s][q]]
               /\ \A q \in DOMAIN lv[s] :
                    q \in Prices /\ lv[s][q] \in Level /\ lv[s][q].order_count # 0
    <3>1. CASE s = side
      BY <1>2, <1>3, <1>4, <3>1
    <3>2. CASE s # side
      BY <1>2, <3>2 DEF LevelsTyped
    <3> QED
      BY <3>1, <3>2
  <2> QED
    BY <1>2, <2>1 DEF LevelsTyped
<1>6. ASSUME NEW s \in Sides, NEW q \in Prices
      PROVE  LevelIn(lv, s, q) = IF s = side /\ q = p
                                 THEN IF level.order_count = 0 THEN NewLevel ELSE level
                                 ELSE LevelIn(levels, s, q)
  <2>1. CASE s = side
    BY <1>2, <1>4, <2>1 DEF LevelIn
  <2>2. CASE s # side
    BY <1>2, <2>2 DEF LevelIn
  <2> QED
    BY <2>1, <2>2
<1> QED
  BY <1>5, <1>6 DEF lv, map, WithLevel, Rewritten

(***************************************************************************)
(* The pool as reserve_orders leaves it.                                   *)
(***************************************************************************)
LEMMA FreshIsSound == Sound(EmptyLevels, FreshSlots, FreshHead, EmptyIndex)
<1>1. \A s \in SlotIndexes :
        /\ FreshSlots[s] \in SlotRecord
        /\ FreshSlots[s].free_next = IF s = Capacity THEN kInvalidSlot ELSE s + 1
  <2>1. TAKE s \in SlotIndexes
  <2>2. (IF s = Capacity THEN kInvalidSlot ELSE s + 1) \in 0..Capacity
    BY PoolAssumption DEF SlotIndexes, kInvalidSlot
  <2> QED
    BY <2>2, FreeSlotTyped DEF FreshSlots
<1>2. \A s \in SlotIndexes : ~FreshSlots[s].live
  BY DEF FreshSlots, EmptySlot
<1>3. PoolTyped(FreshSlots)
  <2>1. FreshSlots \in [SlotIndexes -> SlotRecord]
    BY <1>1 DEF FreshSlots
  <2> QED
    BY <1>2, <2>1 DEF PoolTyped
<1>4. DOMAIN EmptyIndex = {} /\ \A side \in Sides : DOMAIN EmptyLevels[side] = {}
  BY DEF EmptyIndex, EmptyLevels
<1>5. LevelsTyped(EmptyLevels)
  BY <1>4 DEF LevelsTyped, EmptyLevels
<1>6. ASSUME NEW side \in Sides, NEW p \in Prices
      PROVE  Linked(At(FreshSlots, side, p), FreshSlots, LevelIn(EmptyLevels, side, p))
  <2>1. At(FreshSlots, side, p) = {}
    BY <1>2 DEF At
  <2>2. LevelIn(EmptyLevels, side, p) = NewLevel
    BY <1>4 DEF LevelIn
  <2>3. Listed({}, NextOf(FreshSlots), PrevOf(FreshSlots), AmountOf(FreshSlots),
               kInvalidSlot, kInvalidSlot, 0, 0)
    BY DEF Listed, Doubly, Chain, AddedUp
  <2> QED
    BY <2>1, <2>2, <2>3 DEF Linked, NewLevel
<1>7. FreeLinked(FreshSlots, FreshHead)
  <2>1. Free(FreshSlots) = SlotIndexes
    BY <1>2 DEF Free
  <2>2. \A s \in SlotIndexes :
          FreeNextOf(FreshSlots)[s] = IF s = Capacity THEN kInvalidSlot ELSE s + 1
    BY <1>1, FieldsOf
  <2>3. \E pos : Chain(SlotIndexes, pos, FreeNextOf(FreshSlots), FreshHead, Capacity)
    BY <2>2, FreshChain
  <2> QED
    BY <2>1, <2>3, PoolAssumption DEF FreeLinked
<1>8. Indexed(FreshSlots, EmptyIndex)
  BY <1>2, <1>4 DEF Indexed
<1> QED
  BY <1>3, <1>5, <1>6, <1>7, <1>8 DEF Sound, Lists

(***************************************************************************)
(* The operations keep the book sound.                                     *)
(***************************************************************************)
SoundNow == Sound(levels, slots, free_head, order_index)

LEMMA NowTyped ==
  ASSUME SoundNow
  PROVE  /\ LevelsTyped(levels) /\ slots \in [SlotIndexes -> SlotRecord]
         /\ free_head \in 0..Capacity
         /\ kInvalidSlot \in 0..Capacity /\ SlotIndexes \subseteq 0..Capacity
<1>1. free_head = kInvalidSlot \/ free_head \in SlotIndexes
  BY FirstIsFree DEF SoundNow, Sound
<1>2. kInvalidSlot \in 0..Capacity /\ SlotIndexes \subseteq 0..Capacity
  BY PoolAssumption DEF kInvalidSlot, SlotIndexes
<1> QED
  BY <1>1, <1>2 DEF SoundNow, Sound, PoolTyped

\* The slot r leaves the pool and its level.
Withdraws(lv, pool, r) ==
  LET side == slots[r].side
      p    == slots[r].price
  IN  /\ Leaves(slots, pool, r, free_head)
      /\ \E level : /\ Lessened(levels[side][p], level, slots[r])
                    /\ Rewritten(levels, lv, side, p, level)

\* remove_order.
LEMMA RemovalIsSound ==
  ASSUME SoundNow, NEW r \in SlotIndexes, slots[r].live
  PROVE  /\ Sound([levels EXCEPT ![slots[r].side] =
                     Stored(slots[r].side, slots[r].price,
                            LevelWithout(levels[slots[r].side][slots[r].price], r))],
                  Released(Unlinked(r), r), r, Erase(order_index, slots[r].order_id))
         /\ Withdraws([levels EXCEPT ![slots[r].side] =
                     Stored(slots[r].side, slots[r].price,
                            LevelWithout(levels[slots[r].side][slots[r].price], r))],
                  Released(Unlinked(r), r), r)
<1> DEFINE side == slots[r].side
           p == slots[r].price
           old == levels[side][p]
           level == LevelWithout(old, r)
           pool1 == NextSet(slots, slots[r].prev, slots[r].next)
           pool2 == PrevSet(pool1, slots[r].next, slots[r].prev)
           pool3 == Released(pool2, r)
           lv == [levels EXCEPT ![side] = Stored(side, p, level)]
<1>1. /\ slots[r] \in SlotRecord /\ side \in Sides /\ p \in Prices /\ slots[r].qty \in Int
      /\ LevelIn(levels, side, p) = old /\ old \in Level /\ old.order_count - 1 \in Nat
  BY LiveHasLevel DEF SoundNow
<1>2. slots[r].prev \in 0..Capacity /\ slots[r].next \in 0..Capacity
  BY <1>1 DEF SlotRecord
<1>3. /\ old.total_qty \in Int /\ old.head \in 0..Capacity /\ old.tail \in 0..Capacity
      /\ old.order_count \in Nat
  BY <1>1 DEF Level
<1>4. Lessened(old, level, slots[r])
  BY DEF LevelWithout, Lessened
<1>5. level \in Level
  <2>1. /\ level.total_qty \in Int /\ level.head \in 0..Capacity /\ level.tail \in 0..Capacity
        /\ level.order_count \in Nat
    BY <1>1, <1>2, <1>3, <1>4 DEF Lessened
  <2> QED
    BY <2>1 DEF Level, LevelWithout
<1>6. LevelsTyped(lv) /\ Rewritten(levels, lv, side, p, level)
  <2>1. lv = WithLevel(side, p, level)
    BY DEF WithLevel
  <2> HIDE DEF level, side, p, lv
  <2> QED
    BY <1>1, <1>5, <2>1, NowTyped, StoredLevels
<1> HIDE DEF lv
<1>7. /\ pool1 \in [SlotIndexes -> SlotRecord]
      /\ \A s \in SlotIndexes :
           /\ SameBut(slots, pool1, s) /\ pool1[s].prev = slots[s].prev
           /\ pool1[s].next = IF s = slots[r].prev THEN slots[r].next ELSE slots[s].next
  BY <1>2, NowTyped, NextSetFields
<1> HIDE DEF pool1
<1>8. /\ pool2 \in [SlotIndexes -> SlotRecord]
      /\ \A s \in SlotIndexes :
           /\ SameBut(pool1, pool2, s) /\ pool2[s].next = pool1[s].next
           /\ pool2[s].prev = IF s = slots[r].next THEN slots[r].prev ELSE pool1[s].prev
  BY <1>2, <1>7, PrevSetFields
<1> HIDE DEF pool2
<1>9. /\ pool3 \in [SlotIndexes -> SlotRecord]
      /\ \A s \in SlotIndexes \ {r} : pool3[s] = pool2[s]
      /\ ~pool3[r].live /\ pool3[r].free_next = free_head
  BY <1>8, NowTyped, ReleasedFields
<1> HIDE DEF pool3
<1>10. Leaves(slots, pool3, r, free_head)
  BY <1>7, <1>8, <1>9 DEF SameBut, Leaves
<1>11. Sound(lv, pool3, r, Erase(order_index, slots[r].order_id))
  <2> HIDE DEF level, old
  <2> QED
    BY <1>1, <1>4, <1>6, <1>10, SlotLeaves DEF SoundNow
<1>12. Withdraws(lv, pool3, r)
  <2>1. \E l : Lessened(old, l, slots[r]) /\ Rewritten(levels, lv, side, p, l)
    <3> HIDE DEF level, old
    <3> QED
      BY <1>4, <1>6
  <2> QED
    BY <1>10, <2>1 DEF Withdraws
<1> QED
  BY <1>11, <1>12 DEF lv, pool3, pool2, pool1, Unlinked

\* The fill that takes the whole order at the head of a level.
LEMMA PopIsSound ==
  ASSUME SoundNow, NEW side \in Sides, NEW p \in DOMAIN levels[side],
         NEW r, r = levels[side][p].head
  PROVE  /\ Sound([levels EXCEPT ![side] = Stored(side, p, LevelAfterPop(levels[side][p], r))],
                  Released(PrevSet(slots, slots[r].next, kInvalidSlot), r), r,
                  Erase(order_index, slots[r].order_id))
         /\ Withdraws([levels EXCEPT ![side] = Stored(side, p, LevelAfterPop(levels[side][p], r))],
                  Released(PrevSet(slots, slots[r].next, kInvalidSlot), r), r)
<1> DEFINE old == levels[side][p]
<1>1. /\ p \in Prices /\ r \in SlotIndexes /\ slots[r].live /\ slots[r].side = side
      /\ slots[r].price = p /\ slots[r].prev = kInvalidSlot
      /\ old.tail = r <=> slots[r].next = kInvalidSlot
  BY HeadFacts DEF SoundNow
<1>2. LevelAfterPop(old, r) = LevelWithout(old, r)
  BY <1>1 DEF LevelAfterPop, LevelWithout
<1>3. PrevSet(slots, slots[r].next, kInvalidSlot) = Unlinked(r)
  BY <1>1 DEF Unlinked, NextSet
<1>4. /\ Sound([levels EXCEPT ![slots[r].side] =
                  Stored(slots[r].side, slots[r].price,
                         LevelWithout(levels[slots[r].side][slots[r].price], r))],
               Released(Unlinked(r), r), r, Erase(order_index, slots[r].order_id))
      /\ Withdraws([levels EXCEPT ![slots[r].side] =
                  Stored(slots[r].side, slots[r].price,
                         LevelWithout(levels[slots[r].side][slots[r].price], r))],
               Released(Unlinked(r), r), r)
  BY <1>1, RemovalIsSound
<1> QED
  BY <1>1, <1>2, <1>3, <1>4

\* The fill that leaves some of it.
LEMMA PartialFillIsSound ==
  ASSUME SoundNow, NEW side \in Sides, NEW p \in DOMAIN levels[side],
         NEW r, r = levels[side][p].head, NEW fill \in Int
  PROVE  /\ Sound([levels EXCEPT ![side][p].total_qty = @ - fill],
                  [slots EXCEPT ![r].qty = @ - fill], free_head, order_index)
         /\ Rewritten(levels, [levels EXCEPT ![side][p].total_qty = @ - fill], side, p,
                      [levels[side][p] EXCEPT !.total_qty = @ - fill])
         /\ LessFilled(slots, [slots EXCEPT ![r].qty = @ - fill], r, fill)
<1> DEFINE old == levels[side][p]
           level == [old EXCEPT !.total_qty = @ - fill]
           lv == [levels EXCEPT ![side][p].total_qty = @ - fill]
           rec == [slots[r] EXCEPT !.qty = @ - fill]
           pool2 == [slots EXCEPT ![r].qty = @ - fill]
<1>1. /\ p \in Prices /\ old \in Level /\ r \in SlotIndexes
      /\ old.order_count \in Nat \ {0}
  BY HeadFacts DEF SoundNow
<1>2. level \in Level /\ level.order_count = old.order_count
  BY <1>1 DEF Level
<1>3. lv = WithLevel(side, p, level)
  <2>1. levels[side] = [q \in DOMAIN levels[side] |-> levels[side][q]] /\ DOMAIN levels = Sides
    BY NowTyped DEF LevelsTyped
  <2>2. Stored(side, p, level) = [levels[side] EXCEPT ![p] = level]
    <3>1. Stored(side, p, level) = Put(levels[side], p, level)
      BY <1>1, <1>2 DEF Stored
    <3> HIDE DEF level
    <3>2. DOMAIN levels[side] \cup {p} = DOMAIN levels[side]
      OBVIOUS
    <3> QED
      BY <2>1, <3>1, <3>2 DEF Put
  <2> QED
    BY <2>2 DEF WithLevel
<1>4. LevelsTyped(lv) /\ Rewritten(levels, lv, side, p, level)
  <2> HIDE DEF level, lv
  <2> QED
    BY <1>1, <1>2, <1>3, NowTyped, StoredLevels
<1>5. slots[r] \in SlotRecord /\ slots \in [SlotIndexes -> SlotRecord]
  BY <1>1, NowTyped
<1>6. /\ rec \in SlotRecord /\ rec.qty = slots[r].qty - fill /\ rec.next = slots[r].next
      /\ rec.prev = slots[r].prev /\ rec.order_id = slots[r].order_id
      /\ rec.side = slots[r].side /\ rec.price = slots[r].price
      /\ rec.free_next = slots[r].free_next
  BY <1>5 DEF SlotRecord
<1>7. rec.live = slots[r].live
  BY <1>5 DEF SlotRecord
<1>8. pool2 = [slots EXCEPT ![r] = rec]
  OBVIOUS
<1> HIDE DEF rec
<1>9. /\ pool2 \in [SlotIndexes -> SlotRecord]
      /\ \A s \in SlotIndexes : pool2[s] = IF s = r THEN rec ELSE slots[s]
  BY <1>1, <1>5, <1>6, <1>8
<1> HIDE DEF pool2
<1>10. ASSUME NEW s \in SlotIndexes
       PROVE  /\ pool2[s].order_id = slots[s].order_id /\ pool2[s].live = slots[s].live
              /\ pool2[s].side = slots[s].side /\ pool2[s].price = slots[s].price
              /\ pool2[s].free_next = slots[s].free_next
              /\ pool2[s].next = slots[s].next /\ pool2[s].prev = slots[s].prev
              /\ pool2[s].qty = IF s = old.head THEN slots[s].qty - fill ELSE slots[s].qty
  <2>1. CASE s = r
    <3>1. pool2[s] = rec
      BY <1>9, <2>1
    <3> QED
      BY <1>6, <1>7, <2>1, <3>1
  <2>2. CASE s # r
    BY <1>9, <2>2
  <2> QED
    BY <2>1, <2>2
<1>11. LessFilled(slots, pool2, old.head, fill)
  BY <1>9, <1>10 DEF LessFilled
<1>12. Sound(lv, pool2, free_head, order_index)
  <2> HIDE DEF lv
  <2> QED
    BY <1>4, <1>11, HeadPartlyFilled DEF SoundNow
<1> QED
  BY <1>4, <1>11, <1>12 DEF lv, pool2

\* append_slot.
LEMMA AppendIsSound ==
  ASSUME SoundNow, free_head # kInvalidSlot,
         NEW order, order.order_id \in OrderIds \ DOMAIN order_index,
         order.side \in Sides, order.price \in Prices, order.qty \in Int,
         NEW old, old = LevelAt(order.side, order.price)
  PROVE  /\ Sound([levels EXCEPT ![order.side] =
                     Put(@, order.price, LevelWith(old, order.qty))],
                  Allocated(old, order), slots[free_head].free_next,
                  Put(order_index, order.order_id, free_head))
         /\ Arrives(slots, Allocated(old, order), free_head, order, old.tail)
         /\ Increased(old, LevelWith(old, order.qty), free_head, order.qty)
         /\ Rewritten(levels,
                      [levels EXCEPT ![order.side] =
                         Put(@, order.price, LevelWith(old, order.qty))],
                      order.side, order.price, LevelWith(old, order.qty))
<1> DEFINE side == order.side
           p == order.price
           f == free_head
           level == LevelWith(old, order.qty)
           rec == [order_id |-> order.order_id, side |-> order.side, price |-> order.price,
                   qty |-> order.qty, prev |-> old.tail, next |-> kInvalidSlot,
                   free_next |-> kInvalidSlot, live |-> TRUE]
           pool1 == [slots EXCEPT ![f] = rec]
           pool2 == NextSet(pool1, old.tail, f)
           lv == [levels EXCEPT ![side] = Put(@, p, level)]
<1>1. f \in SlotIndexes /\ ~slots[f].live
  BY FirstIsFree DEF SoundNow, Sound
<1>2. old = LevelIn(levels, side, p)
  BY DEF LevelAt, LevelIn
<1>3. old \in Level
  BY <1>2, NowTyped, PoolAssumption DEF LevelsTyped, LevelIn, Level, NewLevel, kInvalidSlot
<1>4. /\ old.total_qty \in Int /\ old.head \in 0..Capacity /\ old.tail \in 0..Capacity
      /\ old.order_count \in Nat
  BY <1>3 DEF Level
<1>5. Increased(old, level, f, order.qty)
  BY DEF LevelWith, Increased
<1>6. level \in Level
  <2>1. /\ level.total_qty \in Int /\ level.head \in 0..Capacity /\ level.tail \in 0..Capacity
        /\ level.order_count \in Nat
    BY <1>1, <1>4, <1>5, NowTyped DEF Increased
  <2> QED
    BY <2>1 DEF Level, LevelWith
<1>7. lv = WithLevel(side, p, level)
  <2>1. level.order_count # 0
    BY <1>4, <1>5 DEF Increased
  <2>2. Stored(side, p, level) = Put(levels[side], p, level)
    BY <2>1 DEF Stored
  <2> QED
    BY <2>2 DEF WithLevel
<1> HIDE DEF level, lv
<1>8. LevelsTyped(lv) /\ Rewritten(levels, lv, side, p, level)
  BY <1>6, <1>7, NowTyped, StoredLevels
<1>9. rec \in SlotRecord /\ rec.live
  <2>1. order.price \in 0..MaxPrice
    BY PoolAssumption DEF Prices
  <2> QED
    BY <1>4, <2>1, NowTyped DEF SlotRecord
<1>10. /\ rec.order_id = order.order_id /\ rec.side = side /\ rec.price = p
       /\ rec.qty = order.qty /\ rec.prev = old.tail /\ rec.next = kInvalidSlot
  OBVIOUS
<1> HIDE DEF rec
<1>11. /\ pool1 \in [SlotIndexes -> SlotRecord]
       /\ \A s \in SlotIndexes : pool1[s] = IF s = f THEN rec ELSE slots[s]
  BY <1>1, <1>9, NowTyped
<1> HIDE DEF pool1
<1>12. f \in 0..Capacity
  BY <1>1, NowTyped
<1>13. /\ pool2 \in [SlotIndexes -> SlotRecord]
       /\ \A s \in SlotIndexes :
            /\ SameBut(pool1, pool2, s) /\ pool2[s].prev = pool1[s].prev
            /\ pool2[s].next = IF s = old.tail THEN f ELSE pool1[s].next
  BY <1>4, <1>11, <1>12, NextSetFields
<1> HIDE DEF pool2
<1>14. old.tail # f
  <2>1. Linked(At(slots, side, p), slots, old)
    BY <1>2 DEF SoundNow, Sound, Lists
  <2>2. old.tail = kInvalidSlot \/ old.tail \in At(slots, side, p)
    BY <2>1 DEF Linked, Listed, Doubly
  <2> QED
    BY <1>1, <2>2 DEF At
<1>15. /\ pool2[f].order_id = order.order_id /\ pool2[f].side = side
       /\ pool2[f].price = p /\ pool2[f].qty = order.qty
       /\ pool2[f].prev = old.tail /\ pool2[f].next = kInvalidSlot
  BY <1>1, <1>10, <1>11, <1>13, <1>14 DEF SameBut
<1>16. pool2[f].live
  <2>1. pool2[f].live = pool1[f].live /\ pool1[f] = rec
    BY <1>1, <1>11, <1>13 DEF SameBut
  <2> QED
    BY <1>9, <2>1
<1>17. \A s \in SlotIndexes \ {f} :
         /\ pool2[s].order_id = slots[s].order_id /\ pool2[s].live = slots[s].live
         /\ pool2[s].side = slots[s].side /\ pool2[s].price = slots[s].price
         /\ pool2[s].qty = slots[s].qty /\ pool2[s].free_next = slots[s].free_next
         /\ pool2[s].next = IF s = old.tail THEN f ELSE slots[s].next
         /\ pool2[s].prev = slots[s].prev
  BY <1>11, <1>13 DEF SameBut
<1>18. Arrives(slots, pool2, f, order, old.tail)
  BY <1>13, <1>15, <1>16, <1>17 DEF Arrives
<1>19. Sound(lv, pool2, slots[f].free_next, Put(order_index, order.order_id, f))
  BY <1>2, <1>5, <1>8, <1>18, SlotTaken DEF SoundNow
<1> QED
  BY <1>5, <1>8, <1>18, <1>19 DEF lv, level, pool2, pool1, rec, Allocated

(***************************************************************************)
(* The best level of a side that has one: its prices are finitely many.    *)
(***************************************************************************)
LEMMA BestPriceExists ==
  ASSUME NEW side \in Sides, SoundNow, DOMAIN levels[side] # {}
  PROVE  BestPrice(side) \in DOMAIN levels[side]
<1>1. DOMAIN levels[side] \subseteq Prices /\ MaxPrice \in Nat
  BY NowTyped, PoolAssumption DEF LevelsTyped
<1>2. \E p \in DOMAIN levels[side] : \A r \in DOMAIN levels[side] : AtLeastAsGood(side, p, r)
  <2>1. CASE side = "Ask"
    <3>1. DOMAIN levels[side] \subseteq Nat
      BY <1>1 DEF Prices
    <3>2. PICK p \in DOMAIN levels[side] : \A r \in DOMAIN levels[side] : p <= r
      BY <3>1, SmallestExists
    <3> QED
      BY <2>1, <3>2 DEF AtLeastAsGood
  <2>2. CASE side = "Bid"
    <3> DEFINE depth == {d \in Nat : MaxPrice - d \in DOMAIN levels[side]}
    <3>1. \A r \in DOMAIN levels[side] : r \in Int /\ MaxPrice - r \in depth
      <4>1. TAKE r \in DOMAIN levels[side]
      <4>2. r \in Int /\ MaxPrice - r \in Nat /\ MaxPrice - (MaxPrice - r) = r
        BY <1>1 DEF Prices
      <4> QED
        BY <4>2
    <3>2. depth # {} /\ depth \subseteq Nat
      BY <3>1
    <3>3. PICK d \in depth : \A e \in depth : d <= e
      BY <3>2, SmallestExists
    <3>4. \A r \in DOMAIN levels[side] : MaxPrice - d >= r
      <4>1. TAKE r \in DOMAIN levels[side]
      <4>2. d <= MaxPrice - r /\ r \in Int /\ d \in Nat
        BY <3>1, <3>2, <3>3
      <4> QED
        BY <1>1, <4>2
    <3> QED
      BY <2>2, <3>3, <3>4 DEF AtLeastAsGood
  <2> QED
    BY <2>1, <2>2 DEF Sides
<1> QED
  BY <1>2 DEF BestPrice

(***************************************************************************)
(* The invariant: the book is sound, and the order being matched is not in *)
(* it yet and has a price it can rest at.                                  *)
(***************************************************************************)
Call == [order_id : OrderIds, side : Sides, price : Int, qty : Int, can_rest : BOOLEAN,
         is_market : BOOLEAN]
CallSound ==
  ~Idle => /\ incoming \in Call
           /\ incoming.can_rest => incoming.price \in Prices
           /\ incoming.order_id \notin DOMAIN order_index

IInv == SoundNow /\ CallSound

LEMMA InitEstablishes == Init => IInv
<1> SUFFICES ASSUME Init PROVE IInv
  OBVIOUS
<1>1. SoundNow
  BY FreshIsSound DEF Init, SoundNow
<1>2. CallSound
  BY DEF Init, CallSound, Idle
<1> QED
  BY <1>1, <1>2 DEF IInv

LEMMA ReservePreserves ==
  ASSUME IInv, Reserve
  PROVE  IInv'
<1>1. SoundNow'
  BY FreshIsSound DEF Reserve, SoundNow
<1>2. CallSound'
  BY DEF Reserve, CallSound, Idle
<1> QED
  BY <1>1, <1>2 DEF IInv

LEMMA RejectPreserves ==
  ASSUME IInv, NEW reason, Reject(reason)
  PROVE  IInv'
<1>1. SoundNow'
  BY DEF IInv, Reject, SoundNow, book
<1>2. CallSound'
  BY DEF IInv, Reject, CallSound, Idle, book
<1> QED
  BY <1>1, <1>2 DEF IInv

LEMMA AddPreserves ==
  ASSUME IInv, NEW add \in AddRequests, Add(add)
  PROVE  IInv'
<1>1. CASE AddError(add) # "None" /\ Reject(AddError(add))
  BY <1>1, RejectPreserves
<1>2. CASE AddError(add) = "None" /\ ~(AddError(add) # "None" /\ Reject(AddError(add)))
  <2>1. /\ incoming' = [order_id |-> add.order_id, side |-> add.side,
                        price |-> MatchPrice(add), qty |-> add.qty, can_rest |-> CanRest(add),
                        is_market |-> add.is_market]
        /\ UNCHANGED book
    BY <1>2 DEF Add
  <2>2. SoundNow'
    BY <2>1 DEF IInv, SoundNow, book
  <2>3. /\ add.order_id \in OrderIds /\ add.side \in Sides /\ add.price \in 0..MaxPrice
        /\ add.qty \in Quantities /\ add.is_market \in BOOLEAN
    <3>1. add \in Adds
      BY PoolAssumption
    <3> QED
      BY <3>1 DEF Adds
  <2>10. add.qty \in Int
    <3>1. add.qty \in Quantities
      BY <2>3
    <3>2. Quantities \subseteq Int
      BY PoolAssumption
    <3> QED
      BY <3>1, <3>2
  <2>4. MatchPrice(add) \in Int /\ CanRest(add) \in BOOLEAN
    BY <2>3, PoolAssumption DEF MatchPrice, CanRest
  <2>5. add.order_id \notin DOMAIN order_index /\ ~(~add.is_market /\ add.price <= 0)
    BY <1>2 DEF AddError
  <2>6. CanRest(add) => MatchPrice(add) \in Prices
    BY <2>3, <2>5, PoolAssumption DEF CanRest, MatchPrice, Prices
  <2>7. incoming' \in Call
    BY <2>1, <2>3, <2>4, <2>10 DEF Call
  <2>8. incoming'.can_rest => incoming'.price \in Prices
    BY <2>1, <2>6
  <2>9. incoming'.order_id \notin DOMAIN order_index'
    BY <2>1, <2>5 DEF book
  <2> QED
    BY <2>2, <2>7, <2>8, <2>9 DEF IInv, CallSound
<1> QED
  BY <1>1, <1>2 DEF Add

\* What RemoveOrder leaves, in Cancel and in Modify.
LEMMA RemoveOrderKeeps ==
  ASSUME IInv, NEW id \in DOMAIN order_index, RemoveOrder(id)
  PROVE  /\ SoundNow'
         /\ id \notin DOMAIN order_index'
         /\ slots[order_index[id]].side \in Sides
<1> DEFINE r == order_index[id]
<1>1. r \in SlotIndexes /\ slots[r].live /\ slots[r].order_id = id
  BY DEF IInv, SoundNow, Sound, Indexed
<1>2. slots[r].side \in Sides
  BY <1>1, LiveHasLevel DEF IInv, SoundNow
<1>3. /\ levels' = [levels EXCEPT ![slots[r].side] =
                      Stored(slots[r].side, slots[r].price,
                             LevelWithout(levels[slots[r].side][slots[r].price], r))]
      /\ order_index' = Erase(order_index, id)
      /\ slots' = Released(Unlinked(r), r)
      /\ free_head' = r
  BY DEF RemoveOrder
<1>4. Sound([levels EXCEPT ![slots[r].side] =
               Stored(slots[r].side, slots[r].price,
                      LevelWithout(levels[slots[r].side][slots[r].price], r))],
            Released(Unlinked(r), r), r, Erase(order_index, slots[r].order_id))
  BY <1>1, RemovalIsSound DEF IInv
<1>5. Sound(levels', slots', free_head', order_index')
  BY <1>1, <1>3, <1>4
<1>6. id \notin DOMAIN order_index'
  BY <1>3 DEF Erase
<1> QED
  BY <1>2, <1>5, <1>6 DEF SoundNow

LEMMA CancelPreserves ==
  ASSUME IInv, NEW id \in OrderIds, Cancel(id)
  PROVE  IInv'
<1>1. CASE Reject("UnknownOrderId")
  BY <1>1, RejectPreserves
<1>2. CASE id \in DOMAIN order_index /\ RemoveOrder(id) /\ UNCHANGED incoming
  <2>1. SoundNow'
    BY <1>2, RemoveOrderKeeps
  <2>2. CallSound'
    BY <1>2 DEF Cancel, CallSound, Idle
  <2> QED
    BY <2>1, <2>2 DEF IInv
<1> QED
  BY <1>1, <1>2 DEF Cancel

LEMMA ModifyPreserves ==
  ASSUME IInv, NEW id \in OrderIds, NEW price \in 0..MaxPrice, NEW qty \in Quantities,
         Modify(id, price, qty)
  PROVE  IInv'
<1>1. CASE Reject(ModifyError(id, price, qty))
  BY <1>1, RejectPreserves
<1>2. CASE /\ ModifyError(id, price, qty) = "None" /\ RemoveOrder(id)
           /\ incoming' = [order_id |-> id, side |-> slots[order_index[id]].side,
                           price |-> price, qty |-> qty, can_rest |-> TRUE,
                           is_market |-> FALSE]
  <2>1. id \in DOMAIN order_index /\ ~(price <= 0)
    BY <1>2 DEF ModifyError
  <2>2. SoundNow' /\ id \notin DOMAIN order_index' /\ slots[order_index[id]].side \in Sides
    BY <1>2, <2>1, RemoveOrderKeeps
  <2>3. price \in Prices /\ price \in Int /\ qty \in Int
    BY <2>1, PoolAssumption DEF Prices
  <2>4. incoming' \in Call
    BY <1>2, <2>2, <2>3 DEF Call
  <2>5. incoming'.order_id = id /\ incoming'.price = price
    BY <1>2
  <2> QED
    BY <2>2, <2>3, <2>4, <2>5 DEF IInv, CallSound
<1> QED
  BY <1>1, <1>2 DEF Modify

LEMMA FillPreserves ==
  ASSUME IInv, Fill
  PROVE  IInv'
<1> DEFINE side == OtherSide(incoming.side)
           price == BestPrice(side)
           level == levels[side][price]
           slot == level.head
           resting == slots[slot]
           fill == Smaller(incoming.qty, resting.qty)
<1>1. SoundNow /\ incoming \in Call /\ incoming.qty \in Int /\ incoming.side \in Sides
  BY DEF IInv, CallSound, Fill, Call
<1>2. side \in Sides /\ DOMAIN levels[side] # {}
  BY <1>1 DEF Fill, Matching, OtherSide, Sides
<1>3. price \in DOMAIN levels[side]
  BY <1>1, <1>2, BestPriceExists
<1>4. slot \in SlotIndexes /\ resting.live
  BY <1>1, <1>2, <1>3, HeadFacts DEF SoundNow
<1>5. resting.qty \in Int
  BY <1>1, <1>4, LiveHasLevel DEF SoundNow
<1>6. fill \in Int
  BY <1>1, <1>5 DEF Smaller
<1>7. /\ incoming' = [incoming EXCEPT !.qty = @ - fill]
      /\ \/ /\ levels' = [levels EXCEPT ![side][price].total_qty = @ - fill]
            /\ slots' = [slots EXCEPT ![slot].qty = @ - fill]
            /\ UNCHANGED <<free_head, order_index>>
         \/ /\ levels' = [levels EXCEPT ![side] =
                            Stored(side, price, LevelAfterPop(level, slot))]
            /\ order_index' = Erase(order_index, resting.order_id)
            /\ slots' = Released(PrevSet(slots, resting.next, kInvalidSlot), slot)
            /\ free_head' = slot
  BY DEF Fill
<1> HIDE DEF side, price
<1>8. SoundNow' /\ DOMAIN order_index' \subseteq DOMAIN order_index
  <2>1. CASE /\ levels' = [levels EXCEPT ![side][price].total_qty = @ - fill]
             /\ slots' = [slots EXCEPT ![slot].qty = @ - fill]
             /\ UNCHANGED <<free_head, order_index>>
    <3> HIDE DEF fill
    <3>1. Sound([levels EXCEPT ![side][price].total_qty = @ - fill],
                [slots EXCEPT ![slot].qty = @ - fill], free_head, order_index)
      BY <1>1, <1>2, <1>3, <1>6, PartialFillIsSound
    <3>2. Sound(levels', slots', free_head', order_index')
      BY <2>1, <3>1
    <3> QED
      BY <2>1, <3>2 DEF SoundNow
  <2>2. CASE /\ levels' = [levels EXCEPT ![side] =
                             Stored(side, price, LevelAfterPop(level, slot))]
             /\ order_index' = Erase(order_index, resting.order_id)
             /\ slots' = Released(PrevSet(slots, resting.next, kInvalidSlot), slot)
             /\ free_head' = slot
    <3>1. Sound([levels EXCEPT ![side] = Stored(side, price, LevelAfterPop(level, slot))],
                Released(PrevSet(slots, resting.next, kInvalidSlot), slot), slot,
                Erase(order_index, resting.order_id))
      BY <1>1, <1>2, <1>3, PopIsSound
    <3>2. Sound(levels', slots', free_head', order_index')
      BY <2>2, <3>1
    <3> QED
      BY <2>2, <3>2 DEF SoundNow, Erase
  <2> QED
    BY <1>7, <2>1, <2>2
<1>9. /\ incoming' \in Call /\ incoming'.can_rest = incoming.can_rest
      /\ incoming'.price = incoming.price /\ incoming'.order_id = incoming.order_id
  <2> HIDE DEF fill
  <2>1. incoming' = [incoming EXCEPT !.qty = incoming.qty - fill] /\ incoming.qty - fill \in Int
    BY <1>1, <1>6, <1>7
  <2> QED
    BY <1>1, <2>1 DEF Call
<1>10. CallSound'
  BY <1>8, <1>9 DEF IInv, CallSound, Fill
<1> QED
  BY <1>8, <1>10 DEF IInv

LEMMA RestPreserves ==
  ASSUME IInv, Rest
  PROVE  IInv'
<1>1. SoundNow'
  <2>1. CASE free_head = kInvalidSlot
    BY <2>1 DEF Rest, AddRestingOrder, IInv, SoundNow, book
  <2>2. CASE free_head # kInvalidSlot
    <3> DEFINE level == LevelAt(incoming.side, incoming.price)
    <3>1. /\ levels' = [levels EXCEPT ![incoming.side] =
                          Put(@, incoming.price, LevelWith(level, incoming.qty))]
          /\ slots' = Allocated(level, incoming)
          /\ free_head' = slots[free_head].free_next
          /\ order_index' = Put(order_index, incoming.order_id, free_head)
      BY <2>2 DEF Rest, AddRestingOrder
    <3>2. /\ incoming.order_id \in OrderIds \ DOMAIN order_index /\ incoming.side \in Sides
          /\ incoming.price \in Prices /\ incoming.qty \in Int
      BY DEF IInv, CallSound, Rest, Rests, Call
    <3> HIDE DEF level
    <3>3. Sound([levels EXCEPT ![incoming.side] =
                   Put(@, incoming.price, LevelWith(level, incoming.qty))],
                Allocated(level, incoming), slots[free_head].free_next,
                Put(order_index, incoming.order_id, free_head))
      BY <2>2, <3>2, AppendIsSound DEF IInv, level
    <3>4. Sound(levels', slots', free_head', order_index')
      BY <3>1, <3>3
    <3> QED
      BY <3>4 DEF SoundNow
  <2> QED
    BY <2>1, <2>2
<1>2. CallSound'
  BY DEF Rest, CallSound, Idle
<1> QED
  BY <1>1, <1>2 DEF IInv

LEMMA NextPreserves ==
  ASSUME IInv, [Next]_vars
  PROVE  IInv'
<1>1. CASE Reserve
  BY <1>1, ReservePreserves
<1>2. CASE \E add \in AddRequests : Add(add)
  BY <1>2, AddPreserves
<1>3. CASE \E id \in OrderIds : Cancel(id)
  BY <1>3, CancelPreserves
<1>4. CASE \E id \in OrderIds, price \in 0..MaxPrice, qty \in Quantities : Modify(id, price, qty)
  BY <1>4, ModifyPreserves
<1>5. CASE Fill
  BY <1>5, FillPreserves
<1>6. CASE Rest
  BY <1>6, RestPreserves
<1>7. CASE Return
  <2>1. SoundNow'
    BY <1>7 DEF Return, IInv, SoundNow, book
  <2>2. CallSound'
    BY <1>7 DEF Return, CallSound, Idle
  <2> QED
    BY <2>1, <2>2 DEF IInv
<1>8. CASE UNCHANGED vars
  BY <1>8 DEF IInv, SoundNow, CallSound, Idle, vars, book
<1> QED
  BY <1>1, <1>2, <1>3, <1>4, <1>5, <1>6, <1>7, <1>8 DEF Next

LEMMA Invariance == Spec => []IInv
<1>1. Init => IInv
  BY InitEstablishes
<1>2. IInv /\ [Next]_vars => IInv'
  BY NextPreserves
<1> QED
  BY <1>1, <1>2, PTL DEF Spec

(***************************************************************************)
(* What the invariant says of the lists as the properties read them.       *)
(***************************************************************************)
LEMMA FreeListHoldsTheFree ==
  ASSUME SoundNow
  PROVE  Members(FreeList) = Free(slots) /\ Distinct(FreeList)
<1>1. PICK pos : \E n \in Nat : Chain(Free(slots), pos, FreeNextOf(slots), free_head, n)
  BY DEF SoundNow, Sound, FreeLinked
<1>2. PICK n \in Nat : Chain(Free(slots), pos, FreeNextOf(slots), free_head, n)
  BY <1>1
<1>3. Free(slots) \subseteq SlotIndexes
  BY DEF Free
<1>4. FreeList = ListOf(free_head, FreeNextOf(slots))
  BY DEF FreeList, FreeNextOf
<1> DEFINE list == ListOf(free_head, FreeNextOf(slots))
<1>5. Reads(list, Free(slots), pos, n)
  BY <1>2, <1>3, ListOfChain
<1> HIDE DEF list
<1> QED
  BY <1>4, <1>5 DEF list, Reads

LEMMA ForwardHoldsTheLevel ==
  ASSUME SoundNow, NEW side \in Sides, NEW p \in DOMAIN levels[side]
  PROVE  LET list == Forward(levels[side][p])
         IN  Members(list) = At(slots, side, p) /\ Distinct(list)
<1> DEFINE level == levels[side][p]
           M == At(slots, side, p)
<1>1. /\ p \in Prices /\ LevelIn(levels, side, p) = level /\ level.order_count \in Nat
  BY HeadFacts DEF SoundNow
<1>2. PICK pos, upto : Doubly(M, pos, NextOf(slots), PrevOf(slots), level.head, level.tail,
                              level.order_count)
  BY <1>1 DEF SoundNow, Sound, Lists, Linked, Listed
<1>3. M \subseteq SlotIndexes /\ Chain(M, pos, NextOf(slots), level.head, level.order_count)
  BY <1>2 DEF At, Doubly
<1>4. Forward(level) = ListOf(level.head, NextOf(slots))
  BY DEF Forward, NextOf
<1> DEFINE list == ListOf(level.head, NextOf(slots))
<1>5. Reads(list, M, pos, level.order_count)
  <2> HIDE DEF M, level
  <2> QED
    BY <1>1, <1>3, ListOfChain
<1> QED
  BY <1>4, <1>5 DEF Reads

\* Read from either end a level's list is the same, and its total is that of its orders.
LEMMA ForwardAndBackward ==
  ASSUME SoundNow, NEW side \in Sides, NEW p \in DOMAIN levels[side]
  PROVE  LET level == levels[side][p]
             list  == Forward(level)
         IN  /\ DOMAIN list = 1..level.order_count /\ Len(list) = level.order_count
             /\ level.order_count \in Nat \ {0}
             /\ \A i \in DOMAIN list : list[i] \in At(slots, side, p)
             /\ Backward(level) = [i \in DOMAIN list |-> list[Len(list) + 1 - i]]
             /\ level.total_qty = TotalQty(list)
<1> DEFINE level == levels[side][p]
           M == At(slots, side, p)
           count == level.order_count
           list == Forward(level)
           back == Backward(level)
<1>1. p \in Prices /\ LevelIn(levels, side, p) = level /\ count \in Nat \ {0}
  BY HeadFacts DEF SoundNow
<1>2. PICK pos, upto :
        /\ Doubly(M, pos, NextOf(slots), PrevOf(slots), level.head, level.tail, count)
        /\ AddedUp(M, pos, PrevOf(slots), AmountOf(slots), upto, level.tail, level.total_qty)
  BY <1>1 DEF SoundNow, Sound, Lists, Linked, Listed
<1>3. M \subseteq SlotIndexes /\ \A s \in M : slots[s].qty \in Int
  BY DEF At, SoundNow, Sound, PoolTyped, SlotRecord
<1>4. list = ListOf(level.head, NextOf(slots)) /\ back = ListOf(level.tail, PrevOf(slots))
  BY DEF Forward, Backward, NextOf, PrevOf
<1> HIDE DEF M, level, count, list, back
<1>5. Chain(M, pos, NextOf(slots), level.head, count)
  BY <1>2 DEF Doubly
<1>6. /\ list \in Seq(M) /\ DOMAIN list = 1..count /\ Len(list) = count
      /\ \A k \in 1..count : list[k] \in M /\ pos[list[k]] = k
      /\ \A s \in M : list[pos[s]] = s
  <2>1. Reads(ListOf(level.head, NextOf(slots)), M, pos, count)
    BY <1>1, <1>3, <1>5, ListOfChain
  <2> QED
    BY <1>4, <2>1 DEF Reads
<1> DEFINE bpos == [s \in M |-> count + 1 - pos[s]]
<1>7. Chain(M, bpos, PrevOf(slots), level.tail, count)
  BY <1>1, <1>2, ReadBackward
<1>8. \A s \in M : bpos[s] = count + 1 - pos[s]
  OBVIOUS
<1> HIDE DEF bpos
<1>9. /\ back \in Seq(M) /\ DOMAIN back = 1..count
      /\ \A k \in 1..count : back[k] \in M /\ bpos[back[k]] = k
  <2>1. Reads(ListOf(level.tail, PrevOf(slots)), M, bpos, count)
    BY <1>1, <1>3, <1>7, ListOfChain
  <2> QED
    BY <1>4, <2>1 DEF Reads
<1>10. ASSUME NEW i \in 1..count
       PROVE  back[i] = list[count + 1 - i]
  <2>1. back[i] \in M /\ i = count + 1 - pos[back[i]] /\ pos[back[i]] \in 1..count
    BY <1>5, <1>8, <1>9 DEF Chain
  <2>2. pos[back[i]] = count + 1 - i
    BY <1>1, <2>1
  <2> QED
    BY <1>6, <2>1, <2>2
<1>11. back = [i \in 1..count |-> list[count + 1 - i]]
  <2>1. back = [i \in DOMAIN back |-> back[i]]
    BY <1>9
  <2> QED
    BY <1>9, <1>10, <2>1
<1>12. level.total_qty = TotalQty(list)
  <2> DEFINE Amount(n) == slots[list[n]].qty
             Step(sum, n) == IF n = 0 THEN 0 ELSE sum[n - 1] + Amount(n)
             IsSum(sum) == sum = [n \in 0..count |-> Step(sum, n)]
             known == [n \in 0..count |-> IF n = 0 THEN 0 ELSE upto[list[n]]]
  <2>1. \A s \in M : /\ upto[s] \in Int /\ slots[s].qty \in Int
                     /\ upto[s] = slots[s].qty
                          + (IF pos[s] = 1 THEN 0 ELSE upto[PrevOf(slots)[s]])
    BY <1>2, <1>3, FieldsOf DEF AddedUp
  <2>2. \A n \in 1..count :
          upto[list[n]] = (IF n = 1 THEN 0 ELSE upto[list[n - 1]]) + Amount(n)
    <3>1. TAKE n \in 1..count
    <3>2. list[n] \in M /\ pos[list[n]] = n
      BY <1>6
    <3>3. /\ upto[list[n]] \in Int /\ Amount(n) \in Int
          /\ upto[list[n]] = Amount(n) + (IF n = 1 THEN 0 ELSE upto[PrevOf(slots)[list[n]]])
      BY <2>1, <3>2
    <3>4. CASE n = 1
      BY <3>3, <3>4
    <3>5. CASE n # 1
      <4>1. PrevOf(slots)[list[n]] \in M /\ pos[PrevOf(slots)[list[n]]] = n - 1
        BY <1>2, <3>2, <3>5 DEF Doubly
      <4>2. PrevOf(slots)[list[n]] = list[n - 1]
        BY <1>6, <4>1
      <4>3. upto[list[n - 1]] \in Int
        BY <2>1, <4>1, <4>2
      <4> HIDE DEF Amount
      <4> QED
        BY <3>3, <3>5, <4>2, <4>3
    <3> QED
      BY <3>4, <3>5
  <2> HIDE DEF Amount
  <2>3. IsSum(known)
    <3>1. ASSUME NEW n \in 0..count
          PROVE  (IF n = 0 THEN 0 ELSE upto[list[n]]) = Step(known, n)
      <4>1. CASE n = 0
        BY <4>1
      <4>2. CASE n # 0
        <5>1. n \in 1..count /\ n - 1 \in 0..count
          BY <1>1, <4>2
        <5>2. known[n - 1] = IF n - 1 = 0 THEN 0 ELSE upto[list[n - 1]]
          BY <5>1
        <5>3. n - 1 = 0 <=> n = 1
          BY <5>1
        <5> HIDE DEF known
        <5> QED
          BY <2>2, <4>2, <5>1, <5>2, <5>3
      <4> QED
        BY <4>1, <4>2
    <3> QED
      BY <3>1, Zenon
  <2> DEFINE sum == CHOOSE f : IsSum(f)
  <2>4. IsSum(sum)
    <3> HIDE DEF IsSum, known
    <3> QED
      BY <2>3
  <2>5. TotalQty(list) = sum[count]
    BY <1>6 DEF TotalQty, Amount
  <2> HIDE DEF sum
  <2> DEFINE good == {n \in Nat : n <= count => sum[n] = IF n = 0 THEN 0 ELSE upto[list[n]]}
  <2>6. \A n \in 0..count : sum[n] = Step(sum, n)
    BY <2>4, Zenon
  <2>7. 0 \in good
    BY <1>1, <2>6
  <2>8. ASSUME NEW n \in Nat, n \in good
        PROVE  n + 1 \in good
    <3> SUFFICES ASSUME n + 1 <= count PROVE sum[n + 1] = upto[list[n + 1]]
      OBVIOUS
    <3>1. /\ n + 1 \in 0..count /\ n + 1 \in 1..count /\ n + 1 # 0 /\ (n + 1) - 1 = n
          /\ n + 1 = 1 <=> n = 0
      BY <1>1
    <3>2. sum[n + 1] = Step(sum, n + 1)
      BY <2>6, <3>1
    <3>3. sum[n + 1] = sum[n] + Amount(n + 1)
      BY <3>1, <3>2
    <3>4. sum[n] = IF n = 0 THEN 0 ELSE upto[list[n]]
      BY <1>1, <2>8
    <3>5. upto[list[n + 1]] = (IF n + 1 = 1 THEN 0 ELSE upto[list[(n + 1) - 1]]) + Amount(n + 1)
      BY <2>2, <3>1
    <3> QED
      BY <3>1, <3>3, <3>4, <3>5
  <2>9. count \in good
    <3> HIDE DEF good
    <3> QED
      BY <1>1, <2>7, <2>8, NaturalsAreReached
  <2>10. sum[count] = upto[list[count]]
    BY <1>1, <2>9
  <2>11. level.tail \in M /\ pos[level.tail] = count /\ level.tail # kInvalidSlot
    BY <1>1, <1>2, <1>3 DEF Doubly, SlotIndexes, kInvalidSlot
  <2>12. level.total_qty = upto[level.tail] /\ list[count] = level.tail
    BY <1>2, <1>6, <2>11 DEF AddedUp
  <2> QED
    BY <2>5, <2>10, <2>12
<1> QED
  BY <1>1, <1>6, <1>11, <1>12 DEF M, level, count, list, back

LEMMA SoundIsPartitioned ==
  ASSUME SoundNow
  PROVE  PoolPartitioned
<1> DEFINE places == {place \in Sides \X Prices : place[2] \in DOMAIN levels[place[1]]}
           list(place) == Forward(levels[place[1]][place[2]])
<1>1. Members(FreeList) = Free(slots) /\ Distinct(FreeList)
  BY FreeListHoldsTheFree
<1>2. \A place \in places :
        /\ place[1] \in Sides /\ place[2] \in DOMAIN levels[place[1]]
        /\ Members(list(place)) = At(slots, place[1], place[2]) /\ Distinct(list(place))
  BY ForwardHoldsTheLevel
<1>3. ASSUME NEW s \in SlotIndexes, slots[s].live
      PROVE  \E place \in places : s \in At(slots, place[1], place[2])
  <2>1. /\ slots[s].side \in Sides /\ slots[s].price \in Prices
        /\ s \in At(slots, slots[s].side, slots[s].price)
        /\ slots[s].price \in DOMAIN levels[slots[s].side]
    BY <1>3, LiveHasLevel DEF SoundNow
  <2>2. <<slots[s].side, slots[s].price>> \in places
    BY <2>1
  <2> QED
    BY <2>1, <2>2
<1>4. \A place, other \in places : other # place => place[1] # other[1] \/ place[2] # other[2]
  OBVIOUS
<1> HIDE DEF places, list
<1>5. Members(FreeList) \cup UNION {Members(list(place)) : place \in places} = SlotIndexes
  <2>1. \A place \in places : Members(list(place)) \subseteq SlotIndexes
    BY <1>2 DEF At
  <2>2. \A s \in SlotIndexes : s \in Free(slots) \/ \E place \in places : s \in Members(list(place))
    BY <1>2, <1>3 DEF Free
  <2> QED
    BY <1>1, <2>1, <2>2 DEF Free
<1>6. ASSUME NEW place \in places
      PROVE  /\ Distinct(list(place))
             /\ Members(list(place)) \cap Members(FreeList) = {}
             /\ \A other \in places : other # place =>
                  Members(list(place)) \cap Members(list(other)) = {}
  BY <1>1, <1>2, <1>4 DEF At, Free
<1>7. \A slot \in SlotIndexes : slots[slot].live <=> slot \notin Members(FreeList)
  BY <1>1 DEF Free
<1> QED
  BY <1>1, <1>5, <1>6, <1>7 DEF PoolPartitioned, places, list

LEMMA SoundIsWellLinked ==
  ASSUME SoundNow
  PROVE  LevelsWellLinked
<1>1. ASSUME NEW side \in Sides, NEW p \in DOMAIN levels[side]
      PROVE  LET level == levels[side][p]
                 list  == Forward(level)
             IN  /\ Backward(level) = [i \in DOMAIN list |-> list[Len(list) + 1 - i]]
                 /\ level.order_count = Len(list) /\ level.order_count > 0
                 /\ level.total_qty = TotalQty(list)
                 /\ \A i \in DOMAIN list :
                      /\ slots[list[i]].side = side /\ slots[list[i]].price = p
                      /\ slots[list[i]].order_id \in DOMAIN order_index
                      /\ order_index[slots[list[i]].order_id] = list[i]
  <2> DEFINE level == levels[side][p]
             list  == Forward(level)
  <2>1. /\ Len(list) = level.order_count /\ level.order_count \in Nat \ {0}
        /\ \A i \in DOMAIN list : list[i] \in At(slots, side, p)
        /\ Backward(level) = [i \in DOMAIN list |-> list[Len(list) + 1 - i]]
        /\ level.total_qty = TotalQty(list)
    BY ForwardAndBackward
  <2>2. \A s \in At(slots, side, p) :
          /\ slots[s].side = side /\ slots[s].price = p
          /\ slots[s].order_id \in DOMAIN order_index
          /\ order_index[slots[s].order_id] = s
    BY DEF At, SoundNow, Sound, Indexed
  <2> HIDE DEF list, level
  <2>3. level.order_count = Len(list) /\ level.order_count > 0
    BY <2>1
  <2>4. \A i \in DOMAIN list :
          /\ slots[list[i]].side = side /\ slots[list[i]].price = p
          /\ slots[list[i]].order_id \in DOMAIN order_index
          /\ order_index[slots[list[i]].order_id] = list[i]
    BY <2>1, <2>2
  <2> QED
    BY <2>1, <2>3, <2>4 DEF list, level
<1>2. \A id \in DOMAIN order_index :
        slots[order_index[id]].live /\ slots[order_index[id]].order_id = id
  BY DEF SoundNow, Sound, Indexed
<1> QED
  BY <1>1, <1>2 DEF LevelsWellLinked

\* In every state of the pooled engine each slot is either free or in the list of
\* exactly one level, whatever the capacity: allocate_slot never hands out a slot in
\* use and release_slot never loses one.
THEOREM NoSlotLeaks == Spec => []PoolPartitioned
<1>1. IInv => PoolPartitioned
  BY SoundIsPartitioned DEF IInv
<1> QED
  BY <1>1, Invariance, PTL

\* In every state each level's list is the same read from the head and from the tail,
\* its count and total are those of its orders, and the index finds each of them:
\* unlink_slot and append_slot keep both links, both ends and both counters together.
THEOREM ListsStayWellLinked == Spec => []LevelsWellLinked
<1>1. IInv => LevelsWellLinked
  BY SoundIsWellLinked DEF IInv
<1> QED
  BY <1>1, Invariance, PTL

(***************************************************************************)
(* The sequence of slots a level's list reads.                             *)
(***************************************************************************)
OrderIn(pool, s) ==
  [order_id |-> pool[s].order_id, price |-> pool[s].price, qty |-> pool[s].qty]
Read(pool, list) == [i \in 1..Len(list) |-> OrderIn(pool, list[i])]

\* OrdersFrom, of any pool.
FromIn(pool) ==
  LET upTo[n \in 0..Capacity] ==
        [slot \in 0..Capacity |->
           IF n = 0 \/ slot = kInvalidSlot THEN <<>>
           ELSE <<[order_id |-> pool[slot].order_id, price |-> pool[slot].price,
                   qty |-> pool[slot].qty]>> \o upTo[n - 1][pool[slot].next]]
  IN  upTo[Capacity]

\* The links lead from `first` through the list to its end.
Follows(list, pool, first) ==
  /\ list \in Seq(SlotIndexes)
  /\ first = IF list = <<>> THEN kInvalidSlot ELSE list[1]
  /\ \A i \in 1..Len(list) :
       pool[list[i]].next = IF i = Len(list) THEN kInvalidSlot ELSE list[i + 1]

\* The recursion of FromIn, one slot at a time.
LEMMA FromInSteps ==
  ASSUME NEW pool
  PROVE  \E upTo :
           /\ FromIn(pool) = upTo[Capacity]
           /\ \A n \in 0..Capacity : \A slot \in 0..Capacity :
                upTo[n][slot] = IF n = 0 \/ slot = kInvalidSlot THEN <<>>
                                ELSE <<OrderIn(pool, slot)>> \o upTo[n - 1][pool[slot].next]
<1> DEFINE Body(n, slot, before) ==
             IF n = 0 \/ slot = kInvalidSlot THEN <<>>
             ELSE <<OrderIn(pool, slot)>> \o before[pool[slot].next]
           Row(n, before) == [slot \in 0..Capacity |-> Body(n, slot, before)]
           UpTo(n, f) == f = [k \in 0..n |-> Row(k, f[k - 1])]
           reached == {n \in Nat : \E f : UpTo(n, f)}
<1>1. 0 \in reached
  <2>1. \A f, g : Row(0, f) = Row(0, g)
    OBVIOUS
  <2> HIDE DEF Row
  <2>2. UpTo(0, [k \in 0..0 |-> Row(0, 0)])
    <3> DEFINE one == [k \in 0..0 |-> Row(0, 0)]
               two == [k \in 0..0 |-> Row(k, one[k - 1])]
    <3>1. \A k \in 0..0 : one[k] = two[k]
      <4>1. \A k \in 0..0 : k = 0
        OBVIOUS
      <4> QED
        BY <2>1, <4>1
    <3>2. one = two
      BY <3>1
    <3> QED
      BY <3>2
  <2> QED
    BY <2>2
<1>2. ASSUME NEW n \in Nat, n \in reached
      PROVE  n + 1 \in reached
  <2>1. PICK f : UpTo(n, f)
    BY <1>2
  <2> HIDE DEF Row
  <2> DEFINE longer == [k \in 0..(n + 1) |-> IF k <= n THEN f[k] ELSE Row(n + 1, f[n])]
             next == [k \in 0..(n + 1) |-> Row(k, longer[k - 1])]
  <2>2. \A k \in 0..n : f[k] = Row(k, f[k - 1])
    BY <2>1
  <2>3. ASSUME NEW k \in 0..(n + 1)
        PROVE  longer[k] = next[k]
    <3>1. CASE k = 0
      <4>1. longer[0] = f[0] /\ f[0] = Row(0, f[0 - 1]) /\ next[0] = Row(0, longer[0 - 1])
        BY <2>2
      <4>2. Row(0, f[0 - 1]) = Row(0, longer[0 - 1])
        BY DEF Row
      <4> QED
        BY <3>1, <4>1, <4>2
    <3>2. CASE k \in 1..n
      <4>1. k - 1 \in 0..(n + 1) /\ k - 1 <= n /\ k <= n /\ k \in 0..n
        BY <3>2
      <4> QED
        BY <4>1, <2>2
    <3>3. CASE k = n + 1
      <4>1. k - 1 = n /\ ~(k <= n) /\ n \in 0..(n + 1)
        BY <3>3
      <4> QED
        BY <4>1, <3>3
    <3> QED
      BY <3>1, <3>2, <3>3
  <2>4. longer = next
    BY <2>3
  <2>5. UpTo(n + 1, longer)
    BY <2>4
  <2> HIDE DEF UpTo, longer
  <2>6. \E g : UpTo(n + 1, g)
    BY <2>5
  <2> QED
    BY <2>6
<1>3. Capacity \in Nat
  BY PoolAssumption
<1>4. Capacity \in reached
  <2> HIDE DEF reached
  <2> QED
    BY <1>1, <1>2, <1>3, NaturalsAreReached
<1> DEFINE upTo == CHOOSE f : UpTo(Capacity, f)
<1>5. UpTo(Capacity, upTo)
  <2>1. PICK f : UpTo(Capacity, f)
    BY <1>4
  <2> HIDE DEF UpTo
  <2> QED
    BY <2>1
<1>6. FromIn(pool) = upTo[Capacity]
  BY DEF FromIn, OrderIn
<1> HIDE DEF upTo
<1>7. ASSUME NEW n \in 0..Capacity, NEW slot \in 0..Capacity
      PROVE  upTo[n][slot] = Body(n, slot, upTo[n - 1])
  <2> HIDE DEF Row
  <2>1. upTo[n] = Row(n, upTo[n - 1])
    BY <1>5
  <2> HIDE DEF Body
  <2> QED
    BY <2>1 DEF Row
<1> QED
  BY <1>6, <1>7

\* The orders read along a list of slots are those of its slots, in its order.
LEMMA ReadsAlong ==
  ASSUME NEW pool, NEW list, NEW first, Follows(list, pool, first), Len(list) <= Capacity
  PROVE  FromIn(pool)[first] = Read(pool, list)
<1>1. PICK upTo :
        /\ FromIn(pool) = upTo[Capacity]
        /\ \A n \in 0..Capacity : \A slot \in 0..Capacity :
             upTo[n][slot] = IF n = 0 \/ slot = kInvalidSlot THEN <<>>
                             ELSE <<OrderIn(pool, slot)>> \o upTo[n - 1][pool[slot].next]
  BY FromInSteps
<1>2. /\ list \in Seq(SlotIndexes) /\ Len(list) \in Nat /\ Capacity \in Nat
      /\ \A i \in 1..Len(list) : list[i] \in SlotIndexes
  BY PoolAssumption DEF Follows
<1> DEFINE len == Len(list)
           order(i) == OrderIn(pool, list[i])
           rest(i) == [j \in 1..(len + 1 - i) |-> order(i + j - 1)]
           at(i) == IF i = len + 1 THEN kInvalidSlot ELSE list[i]
           good == {m \in Nat : m <= len =>
                      \A n \in m..Capacity : upTo[n][at(len + 1 - m)] = rest(len + 1 - m)}
<1>3. kInvalidSlot \in 0..Capacity /\ \A s \in SlotIndexes : s \in 0..Capacity /\ s # kInvalidSlot
  BY PoolAssumption DEF SlotIndexes, kInvalidSlot
<1> HIDE DEF order
<1>4. 0 \in good
  <2>1. rest(len + 1) = <<>>
    BY <1>2
  <2>2. \A n \in 0..Capacity : upTo[n][kInvalidSlot] = <<>>
    BY <1>1, <1>3
  <2> QED
    BY <2>1, <2>2, <1>2
<1>5. ASSUME NEW m \in Nat, m \in good
      PROVE  m + 1 \in good
  <2> SUFFICES ASSUME m + 1 <= len, NEW n \in (m + 1)..Capacity
               PROVE  upTo[n][at(len + 1 - (m + 1))] = rest(len + 1 - (m + 1))
    OBVIOUS
  <2> DEFINE i == len + 1 - (m + 1)
  <2>1. /\ i \in 1..len /\ i + 1 = len + 1 - m /\ n - 1 \in m..Capacity /\ n \in 0..Capacity /\ n # 0
        /\ m <= len /\ n - 1 \in 0..Capacity /\ len \in Nat
    BY <1>2
  <2> HIDE DEF i
  <2>2. at(i) = list[i] /\ at(i) \in 0..Capacity /\ at(i) # kInvalidSlot
    BY <2>1, <1>2, <1>3
  <2>3. upTo[n][at(i)] = <<order(i)>> \o upTo[n - 1][pool[list[i]].next]
    BY <2>1, <2>2, <1>1 DEF order
  <2>4. pool[list[i]].next = at(i + 1)
    BY <2>1 DEF Follows
  <2>5. upTo[n - 1][at(i + 1)] = rest(i + 1)
    BY <2>1, <1>5
  <2>6. <<order(i)>> \o rest(i + 1) = rest(i)
    <3> DEFINE a == <<order(i)>> \o rest(i + 1)
    <3> DEFINE S == {order(k) : k \in 1..len}
    <3>1. /\ rest(i + 1) \in Seq(S) /\ Len(rest(i + 1)) = len - i
      <4>1. len + 1 - (i + 1) = len - i /\ len - i \in Nat
        BY <2>1
      <4>2. \A j \in 1..(len - i) : (i + 1) + j - 1 \in 1..len
        BY <2>1
      <4>3. \A j \in 1..(len - i) : order((i + 1) + j - 1) \in S
        BY <4>2
      <4> HIDE DEF S
      <4>4. rest(i + 1) \in [1..(len - i) -> S]
        BY <4>1, <4>3
      <4> QED
        BY <4>1, <4>4
    <3>2. /\ rest(i) \in Seq(S) /\ Len(rest(i)) = len + 1 - i
      <4> DEFINE size == len + 1 - i
      <4>1. size \in Nat
        BY <2>1
      <4>2. \A j \in 1..(len + 1 - i) : i + j - 1 \in 1..len
        BY <2>1
      <4>3. \A j \in 1..(len + 1 - i) : order(i + j - 1) \in S
        BY <4>2
      <4> HIDE DEF S
      <4>4. rest(i) \in [1..size -> S]
        BY <4>3
      <4> HIDE DEF size, rest
      <4>5. rest(i) \in Seq(S) /\ Len(rest(i)) = size
        BY <4>1, <4>4
      <4> QED
        BY <4>5 DEF size
    <3>3. order(i) \in S
      BY <2>1
    <3>4. \A j \in 1..(len + 1 - i) : rest(i)[j] = order(i + j - 1)
      OBVIOUS
    <3>5. \A j \in 1..(len - i) : rest(i + 1)[j] = order(i + j)
      <4>1. len + 1 - (i + 1) = len - i
        BY <2>1
      <4>2. \A j \in 1..(len - i) : (i + 1) + j - 1 = i + j
        BY <2>1
      <4> QED
        BY <4>1, <4>2
    <3> HIDE DEF S, rest
    <3>6. a \in Seq(S) /\ Len(a) = len + 1 - i
      BY <3>1, <3>3, <2>1
    <3>7. ASSUME NEW j \in 1..(len + 1 - i)
          PROVE  a[j] = rest(i)[j]
      <4>1. CASE j = 1
        <5>1. a[1] = order(i)
          BY <3>1, <3>3
        <5>2. i + 1 - 1 = i
          BY <2>1
        <5> QED
          BY <5>1, <5>2, <4>1, <3>4
      <4>2. CASE j # 1
        <5>1. j - 1 \in 1..(len - i) /\ i + (j - 1) = i + j - 1
          BY <4>2, <2>1
        <5>2. a[j] = rest(i + 1)[j - 1]
          BY <5>1, <3>1, <3>3
        <5> QED
          BY <5>1, <5>2, <3>4, <3>5
      <4> QED
        BY <4>1, <4>2
    <3>8. a = rest(i)
      <4> HIDE DEF a
      <4> QED
        BY <3>2, <3>6, <3>7
    <3> QED
      BY <3>8
  <2> QED
    BY <2>3, <2>4, <2>5, <2>6 DEF i
<1>6. len \in good
  <2> HIDE DEF good
  <2> QED
    BY <1>2, <1>4, <1>5, NaturalsAreReached
<1>7. upTo[Capacity][at(1)] = rest(1)
  <2>1. len + 1 - len = 1 /\ Capacity \in len..Capacity /\ len \in Nat
    BY <1>2
  <2> QED
    BY <2>1, <1>6
<1>8. at(1) = first
  BY <1>2 DEF Follows
<1>9. rest(1) = Read(pool, list)
  <2>1. len + 1 - 1 = len /\ \A j \in 1..len : 1 + j - 1 = j
    BY <1>2
  <2> QED
    BY <2>1 DEF Read, order
<1> QED
  BY <1>1, <1>7, <1>8, <1>9

\* The list threads the level: forwards from its head, backwards from its tail.
Threads(list, pool, level) ==
  /\ Follows(list, pool, level.head)
  /\ level.tail = IF list = <<>> THEN kInvalidSlot ELSE list[Len(list)]
  /\ \A i \in 1..Len(list) :
       pool[list[i]].prev = IF i = 1 THEN kInvalidSlot ELSE list[i - 1]
  /\ \A i, j \in 1..Len(list) : list[i] = list[j] => i = j
  /\ level.order_count = Len(list) /\ Len(list) <= Capacity

\* The slots of a level of a sound pool are threaded on one list.
LEMMA ListOfLevel ==
  ASSUME NEW lv, NEW pool, NEW first, NEW index, Sound(lv, pool, first, index),
         NEW side \in Sides, NEW p \in Prices
  PROVE  \E list : Threads(list, pool, LevelIn(lv, side, p)) /\ Members(list) = At(pool, side, p)
<1> DEFINE level == LevelIn(lv, side, p)
           M == At(pool, side, p)
           count == level.order_count
<1>1. count \in Nat /\ M \subseteq SlotIndexes
  <2>1. LevelsTyped(lv)
    BY DEF Sound
  <2>2. p \in DOMAIN lv[side] => lv[side][p] \in Level
    BY <2>1 DEF LevelsTyped
  <2> QED
    BY <2>2 DEF LevelIn, Level, NewLevel, At
<1>2. Linked(M, pool, level)
  BY DEF Sound, Lists
<1>3. PICK pos : Doubly(M, pos, NextOf(pool), PrevOf(pool), level.head, level.tail, count)
  BY <1>2 DEF Linked, Listed
<1>4. Chain(M, pos, NextOf(pool), level.head, count)
  BY <1>3 DEF Doubly
<1> DEFINE list == ListOf(level.head, NextOf(pool))
<1>5. Reads(list, M, pos, count) /\ count <= Capacity
  <2> HIDE DEF M, count
  <2> QED
    BY <1>1, <1>4, ListOfChain, ChainFits
<1> HIDE DEF list
<1>6. /\ list \in Seq(SlotIndexes) /\ Len(list) = count
      /\ \A k \in 1..count : list[k] \in M /\ pos[list[k]] = k
      /\ \A s \in M : list[pos[s]] = s
  <2>1. list \in Seq(M) /\ DOMAIN list = 1..count /\ Len(list) = count
    BY <1>5 DEF Reads
  <2>2. list \in [1..count -> SlotIndexes]
    BY <1>1, <1>5, <2>1 DEF Reads
  <2> HIDE DEF count, M
  <2>3. list \in Seq(SlotIndexes)
    BY <1>1, <2>2
  <2> QED
    BY <1>5, <2>1, <2>3 DEF Reads
<1>7. list = <<>> <=> count = 0
  BY <1>6
<1>8. level.head = IF list = <<>> THEN kInvalidSlot ELSE list[1]
  BY <1>4, <1>6, <1>7 DEF Chain
<1>9. level.tail = IF list = <<>> THEN kInvalidSlot ELSE list[Len(list)]
  BY <1>3, <1>6, <1>7 DEF Doubly
<1>10. ASSUME NEW i \in 1..count
       PROVE  /\ pool[list[i]].next = IF i = count THEN kInvalidSlot ELSE list[i + 1]
              /\ pool[list[i]].prev = IF i = 1 THEN kInvalidSlot ELSE list[i - 1]
  <2>1. list[i] \in M /\ pos[list[i]] = i /\ list[i] \in SlotIndexes
    BY <1>1, <1>6
  <2>2. NextOf(pool)[list[i]] = pool[list[i]].next /\ PrevOf(pool)[list[i]] = pool[list[i]].prev
    BY <2>1, FieldsOf
  <2>3. IF i = count THEN pool[list[i]].next = kInvalidSlot
        ELSE pool[list[i]].next \in M /\ pos[pool[list[i]].next] = i + 1
    BY <1>4, <2>1, <2>2 DEF Chain
  <2>4. IF i = 1 THEN pool[list[i]].prev = kInvalidSlot
        ELSE pool[list[i]].prev \in M /\ pos[pool[list[i]].prev] = i - 1
    BY <1>3, <2>1, <2>2 DEF Doubly
  <2> QED
    BY <1>6, <2>3, <2>4
<1>11. \A i, j \in 1..count : list[i] = list[j] => i = j
  BY <1>6
<1>12. Members(list) = M
  BY <1>5 DEF Reads
<1>13. Threads(list, pool, level)
  <2>1. Follows(list, pool, level.head)
    BY <1>6, <1>8, <1>10 DEF Follows
  <2> QED
    BY <1>5, <1>6, <1>9, <1>10, <1>11, <2>1 DEF Threads
<1> QED
  BY <1>12, <1>13

\* A list reads as one order per slot.
LEMMA ReadFacts ==
  ASSUME NEW pool, NEW list \in Seq(SlotIndexes)
  PROVE  /\ Read(pool, list) \in Seq({OrderIn(pool, s) : s \in SlotIndexes})
         /\ Len(Read(pool, list)) = Len(list)
         /\ \A i \in 1..Len(list) : Read(pool, list)[i] = OrderIn(pool, list[i])
<1> DEFINE S == {OrderIn(pool, s) : s \in SlotIndexes}
<1>1. \A i \in 1..Len(list) : OrderIn(pool, list[i]) \in S
  OBVIOUS
<1>2. Len(list) \in Nat
  OBVIOUS
<1> HIDE DEF S
<1>3. Read(pool, list) \in [1..Len(list) -> S]
  BY <1>1 DEF Read
<1>4. Read(pool, list) \in Seq(S) /\ Len(Read(pool, list)) = Len(list)
  BY <1>2, <1>3
<1> QED
  BY <1>4 DEF S, Read

\* A list whose slots keep their order and their next slot is read as before.
LEMMA ListKept ==
  ASSUME NEW pool, NEW pool2, NEW list, NEW first, Follows(list, pool, first),
         \A i \in 1..Len(list) : /\ pool2[list[i]].next = pool[list[i]].next
                                 /\ OrderIn(pool2, list[i]) = OrderIn(pool, list[i])
  PROVE  Follows(list, pool2, first) /\ Read(pool2, list) = Read(pool, list)
BY DEF Follows, Read

\* A list of the pool is read as the orders given.
ReadsAs(list, pool, first, orders) ==
  Follows(list, pool, first) /\ Len(list) <= Capacity /\ Read(pool, list) = orders

\* When a slot leaves its level, the level reads as before without that slot's order.
LEMMA ListShortened ==
  ASSUME NEW pool, NEW pool2, NEW list, NEW old, Threads(list, pool, old), NEW first,
         NEW i \in 1..Len(list), Leaves(pool, pool2, list[i], first),
         NEW level, Lessened(old, level, pool[list[i]])
  PROVE  ReadsAs(Without(list, i), pool2, level.head, Without(Read(pool, list), i))
<1> DEFINE r == list[i]
           len == Len(list)
           new == Without(list, i)
           p == pool[r].prev
           n == pool[r].next
<1>1. /\ list \in Seq(SlotIndexes) /\ len \in Nat /\ len <= Capacity
      /\ \A j \in 1..len : list[j] \in SlotIndexes
      /\ \A j \in 1..len : pool[list[j]].next = IF j = len THEN kInvalidSlot ELSE list[j + 1]
      /\ \A j \in 1..len : pool[list[j]].prev = IF j = 1 THEN kInvalidSlot ELSE list[j - 1]
      /\ \A j, k \in 1..len : list[j] = list[k] => j = k
      /\ old.head = list[1] /\ kInvalidSlot \notin SlotIndexes
  <2>1. list \in Seq(SlotIndexes) /\ list # <<>> /\ kInvalidSlot \notin SlotIndexes
    BY DEF Threads, Follows, SlotIndexes, kInvalidSlot
  <2>2. \A j \in 1..len : pool[list[j]].next = IF j = len THEN kInvalidSlot ELSE list[j + 1]
    BY DEF Threads, Follows
  <2>3. \A j \in 1..len : pool[list[j]].prev = IF j = 1 THEN kInvalidSlot ELSE list[j - 1]
    BY DEF Threads
  <2>4. \A j, k \in 1..len : list[j] = list[k] => j = k
    BY DEF Threads
  <2>5. len \in Nat /\ len <= Capacity /\ \A j \in 1..len : list[j] \in SlotIndexes
    BY <2>1 DEF Threads
  <2>6. old.head = list[1]
    BY <2>1 DEF Threads, Follows
  <2> QED
    BY <2>1, <2>2, <2>3, <2>4, <2>5, <2>6
<1>2. /\ new \in Seq(SlotIndexes) /\ Len(new) = len - 1
      /\ \A j \in 1..(len - 1) : new[j] = IF j < i THEN list[j] ELSE list[j + 1]
  BY <1>1, WithoutFacts
<1>3. /\ p = IF i = 1 THEN kInvalidSlot ELSE list[i - 1]
      /\ n = IF i = len THEN kInvalidSlot ELSE list[i + 1]
  BY <1>1
<1>4. \A s \in SlotIndexes \ {r} :
        /\ pool2[s].next = IF s = p THEN n ELSE pool[s].next
        /\ OrderIn(pool2, s) = OrderIn(pool, s)
  BY DEF Leaves, OrderIn
<1>5. level.head = IF p = kInvalidSlot THEN n ELSE old.head
  BY DEF Lessened
<1> HIDE DEF new, p, n
<1>6. level.head = IF new = <<>> THEN kInvalidSlot ELSE new[1]
  <2>1. new = <<>> <=> len = 1
    BY <1>1, <1>2
  <2>2. CASE i = 1
    <3>1. level.head = n
      BY <2>2, <1>3, <1>5
    <3>2. len # 1 => new[1] = list[2] /\ n = list[2]
      BY <2>2, <1>1, <1>2, <1>3
    <3> QED
      BY <2>1, <2>2, <3>1, <3>2, <1>3
  <2>3. CASE i # 1
    <3>1. i - 1 \in 1..len /\ 1 \in 1..(len - 1) /\ 1 < i
      BY <2>3, <1>1
    <3>2. p # kInvalidSlot
      BY <2>3, <3>1, <1>1, <1>3
    <3> QED
      BY <2>1, <3>1, <3>2, <1>1, <1>2, <1>5
  <2> QED
    BY <2>2, <2>3
<1>7. ASSUME NEW j \in 1..(len - 1)
      PROVE  pool2[new[j]].next = IF j = len - 1 THEN kInvalidSlot ELSE new[j + 1]
  <2>1. CASE j < i - 1
    <3>1. /\ j \in 1..len /\ j + 1 \in 1..len /\ i - 1 \in 1..len /\ j + 1 \in 1..(len - 1) /\ j + 1 < i
          /\ j # len /\ j # len - 1 /\ j < i /\ i # 1
      BY <2>1, <1>1
    <3>2. new[j] = list[j] /\ new[j + 1] = list[j + 1] /\ list[j] # r /\ list[j] # list[i - 1]
      BY <3>1, <2>1, <1>1, <1>2
    <3>3. pool2[list[j]].next = list[j + 1]
      BY <3>1, <3>2, <1>1, <1>3, <1>4
    <3> QED
      BY <3>1, <3>2, <3>3
  <2>2. CASE j = i - 1
    <3>1. /\ j \in 1..len /\ i # 1 /\ j < i /\ j # i
      BY <2>2, <1>1
    <3>2. new[j] = p /\ list[j] = p /\ p # r /\ p \in SlotIndexes
      BY <3>1, <2>2, <1>1, <1>2, <1>3
    <3>3. pool2[new[j]].next = n
      BY <3>2, <1>4
    <3>4. CASE i = len
      BY <3>3, <3>4, <2>2, <1>3
    <3>5. CASE i # len
      <4>1. j + 1 \in 1..(len - 1) /\ ~(j + 1 < i) /\ j # len - 1 /\ (j + 1) + 1 = i + 1
        BY <3>5, <2>2, <1>1
      <4> QED
        BY <4>1, <3>3, <3>5, <1>2, <1>3
    <3> QED
      BY <3>4, <3>5
  <2>3. CASE j >= i
    <3>1. j + 1 \in 1..len /\ ~(j < i) /\ j + 1 # i /\ j + 1 # i - 1
      BY <2>3, <1>1
    <3>2. new[j] = list[j + 1] /\ list[j + 1] # r /\ list[j + 1] \in SlotIndexes
      BY <3>1, <1>1, <1>2
    <3>3. list[j + 1] # p
      <4>1. CASE i = 1
        BY <4>1, <3>2, <1>1, <1>3
      <4>2. CASE i # 1
        <5>1. i - 1 \in 1..len
          BY <4>2, <1>1
        <5> QED
          BY <4>2, <5>1, <3>1, <1>1, <1>3
      <4> QED
        BY <4>1, <4>2
    <3>4. pool2[new[j]].next = IF j + 1 = len THEN kInvalidSlot ELSE list[(j + 1) + 1]
      BY <3>1, <3>2, <3>3, <1>1, <1>4
    <3>5. j # len - 1 => j + 1 \in 1..(len - 1) /\ ~(j + 1 < i)
      BY <3>1, <2>3, <1>1
    <3>6. j + 1 = len <=> j = len - 1
      <4>1. len \in Nat
        BY <1>1
      <4> HIDE DEF len
      <4> QED
        BY <4>1
    <3> QED
      BY <3>4, <3>5, <3>6, <1>2
  <2> QED
    BY <2>1, <2>2, <2>3, <1>1
<1>8. Follows(new, pool2, level.head)
  BY <1>2, <1>6, <1>7 DEF Follows
<1>9. Read(pool2, new) = Without(Read(pool, list), i)
  <2> DEFINE reads == Read(pool, list)
             left == Without(reads, i)
             S == {OrderIn(pool, s) : s \in SlotIndexes}
  <2>1. reads \in Seq(S) /\ Len(reads) = len /\ \A j \in 1..len : reads[j] = OrderIn(pool, list[j])
    <3>1. list \in Seq(SlotIndexes)
      BY <1>1
    <3> QED
      BY <3>1, ReadFacts
  <2> HIDE DEF S, reads
  <2>2. /\ left \in Seq(S) /\ Len(left) = len - 1
        /\ \A j \in 1..(len - 1) : left[j] = IF j < i THEN reads[j] ELSE reads[j + 1]
    BY <2>1, WithoutFacts
  <2> HIDE DEF left
  <2>3. ASSUME NEW j \in 1..(len - 1)
        PROVE  OrderIn(pool2, new[j]) = left[j]
    <3>1. j \in 1..len /\ j + 1 \in 1..len /\ (j < i => j # i) /\ (~(j < i) => j + 1 # i)
      BY <1>1
    <3>2. new[j] \in SlotIndexes \ {r}
      BY <3>1, <1>1, <1>2
    <3>3. OrderIn(pool2, new[j]) = OrderIn(pool, new[j])
      BY <3>2, <1>4
    <3> QED
      BY <3>1, <3>3, <1>2, <2>1, <2>2
  <2>4. Read(pool2, new) = [j \in 1..(len - 1) |-> left[j]]
    BY <2>3, <1>2 DEF Read
  <2>5. left = [j \in 1..(len - 1) |-> left[j]]
    BY <2>2, <1>1
  <2> QED
    BY <2>4, <2>5 DEF left, reads
<1>10. Len(new) <= Capacity
  BY <1>1, <1>2, PoolAssumption
<1> QED
  BY <1>8, <1>9, <1>10 DEF ReadsAs, new

\* What the baseline keeps of an order that rests.
Entry(order) == [order_id |-> order.order_id, price |-> order.price, qty |-> order.qty]

\* A slot that was in no list becomes the last one of a list that has room for it.
LEMMA ListLengthened ==
  ASSUME NEW pool, NEW pool2, NEW list, NEW old, Threads(list, pool, old),
         NEW f \in SlotIndexes, \A i \in 1..Len(list) : list[i] # f,
         NEW order, Arrives(pool, pool2, f, order, old.tail),
         NEW level, Increased(old, level, f, order.qty), level.order_count <= Capacity
  PROVE  ReadsAs(Append(list, f), pool2, level.head, Append(Read(pool, list), Entry(order)))
<1> DEFINE len == Len(list)
           new == Append(list, f)
           x == Entry(order)
<1>1. /\ list \in Seq(SlotIndexes) /\ len \in Nat
      /\ \A j \in 1..len : list[j] \in SlotIndexes
      /\ \A j \in 1..len : pool[list[j]].next = IF j = len THEN kInvalidSlot ELSE list[j + 1]
      /\ \A j, k \in 1..len : list[j] = list[k] => j = k
      /\ old.tail = IF len = 0 THEN kInvalidSlot ELSE list[len]
      /\ old.head = IF len = 0 THEN kInvalidSlot ELSE list[1]
      /\ kInvalidSlot \notin SlotIndexes
  <2>1. list \in Seq(SlotIndexes)
    BY DEF Threads, Follows
  <2>2. list = <<>> <=> len = 0
    BY <2>1
  <2>3. \A j \in 1..len : pool[list[j]].next = IF j = len THEN kInvalidSlot ELSE list[j + 1]
    BY DEF Threads, Follows
  <2>4. \A j, k \in 1..len : list[j] = list[k] => j = k
    BY DEF Threads
  <2>5. /\ old.tail = IF len = 0 THEN kInvalidSlot ELSE list[len]
        /\ old.head = IF len = 0 THEN kInvalidSlot ELSE list[1]
    BY <2>2 DEF Threads, Follows
  <2>6. /\ len \in Nat /\ kInvalidSlot \notin SlotIndexes
        /\ \A j \in 1..len : list[j] \in SlotIndexes
    <3>1. kInvalidSlot \notin SlotIndexes
      BY DEF SlotIndexes, kInvalidSlot
    <3> QED
      BY <2>1, <3>1
  <2> QED
    BY <2>1, <2>3, <2>4, <2>5, <2>6
<1>2. /\ new \in Seq(SlotIndexes) /\ Len(new) = len + 1 /\ new[len + 1] = f
      /\ \A j \in 1..len : new[j] = list[j]
  BY <1>1, AppendProperties
<1>3. /\ \A s \in SlotIndexes \ {f} :
           /\ pool2[s].next = IF s = old.tail THEN f ELSE pool[s].next
           /\ OrderIn(pool2, s) = OrderIn(pool, s)
      /\ pool2[f].next = kInvalidSlot /\ OrderIn(pool2, f) = x
  BY DEF Arrives, OrderIn, Entry
<1>4. level.head = IF old.tail = kInvalidSlot THEN f ELSE old.head
  BY DEF Increased
<1> HIDE DEF new, x
<1>5. level.head = new[1] /\ new # <<>>
  <2>1. CASE len = 0
    <3>1. level.head = f /\ new[1] = f
      BY <2>1, <1>1, <1>2, <1>4
    <3>2. new # <<>>
      <4>1. Len(new) = 1 /\ Len(<<>>) = 0
        BY <2>1, <1>2
      <4> QED
        BY <4>1
    <3> QED
      BY <3>1, <3>2
  <2>2. CASE len # 0
    <3>1. 1 \in 1..len /\ len \in 1..len
      BY <2>2, <1>1
    <3>2. list[len] # kInvalidSlot
      BY <3>1, <1>1
    <3> QED
      BY <2>2, <3>1, <3>2, <1>1, <1>2, <1>4
  <2> QED
    BY <2>1, <2>2
<1>6. ASSUME NEW j \in 1..(len + 1)
      PROVE  pool2[new[j]].next = IF j = len + 1 THEN kInvalidSlot ELSE new[j + 1]
  <2>1. CASE j = len + 1
    BY <2>1, <1>2, <1>3
  <2>2. CASE j # len + 1
    <3>1. j \in 1..len /\ new[j] = list[j] /\ list[j] \in SlotIndexes /\ list[j] # f
      BY <2>2, <1>1, <1>2
    <3>2. CASE j = len
      <4>1. list[j] = old.tail
        BY <3>1, <3>2, <1>1
      <4> QED
        BY <3>1, <3>2, <4>1, <1>2, <1>3, <2>2
    <3>3. CASE j # len
      <4>1. len \in 1..len /\ j + 1 \in 1..len /\ list[j] # old.tail
        BY <3>1, <3>3, <1>1
      <4> QED
        BY <3>1, <3>3, <4>1, <1>1, <1>2, <1>3, <2>2
    <3> QED
      BY <3>2, <3>3
  <2> QED
    BY <2>1, <2>2
<1>7. Follows(new, pool2, level.head)
  BY <1>2, <1>5, <1>6 DEF Follows
<1>8. Read(pool2, new) = Append(Read(pool, list), x)
  <2> DEFINE reads == Read(pool, list)
             more == Append(reads, x)
             S == {OrderIn(pool, s) : s \in SlotIndexes} \cup {x}
  <2>1. Len(reads) = len /\ \A j \in 1..len : reads[j] = OrderIn(pool, list[j])
    BY <1>1, ReadFacts
  <2>2. reads \in Seq(S)
    <3>1. \A j \in 1..len : reads[j] \in S
      BY <2>1, <1>1
    <3> HIDE DEF S
    <3>2. reads \in [1..len -> S]
      BY <3>1 DEF Read
    <3> QED
      BY <3>2, <1>1
  <2>3. x \in S
    OBVIOUS
  <2> HIDE DEF S, reads
  <2>4. /\ more \in Seq(S) /\ Len(more) = len + 1 /\ more[len + 1] = x
        /\ \A j \in 1..len : more[j] = reads[j]
    BY <2>1, <2>2, <2>3, AppendProperties
  <2> HIDE DEF more
  <2>5. ASSUME NEW j \in 1..(len + 1)
        PROVE  OrderIn(pool2, new[j]) = more[j]
    <3>1. CASE j = len + 1
      BY <3>1, <1>2, <1>3, <2>4
    <3>2. CASE j # len + 1
      <4>1. j \in 1..len /\ new[j] = list[j] /\ list[j] \in SlotIndexes \ {f}
        BY <3>2, <1>1, <1>2
      <4> QED
        BY <4>1, <1>3, <2>1, <2>4
    <3> QED
      BY <3>1, <3>2
  <2>6. Read(pool2, new) = [j \in 1..(len + 1) |-> more[j]]
    BY <2>5, <1>2 DEF Read
  <2>7. more = [j \in 1..(len + 1) |-> more[j]]
    BY <2>4, <1>1
  <2> QED
    BY <2>6, <2>7 DEF more, reads
<1>9. Len(new) <= Capacity
  BY <1>1, <1>2 DEF Threads, Increased
<1> QED
  BY <1>7, <1>8, <1>9 DEF ReadsAs, new, x

\* The first order of a list with that much less to trade.
FirstReduced(orders, fill) == <<[Head(orders) EXCEPT !.qty = @ - fill]>> \o Tail(orders)

\* The slot at the head of a list is filled in part.
LEMMA ListShrunk ==
  ASSUME NEW pool, NEW pool2, NEW list, list # <<>>, NEW old, Threads(list, pool, old),
         NEW fill, LessFilled(pool, pool2, old.head, fill)
  PROVE  ReadsAs(list, pool2, old.head, FirstReduced(Read(pool, list), fill))
<1> DEFINE len == Len(list)
           reads == Read(pool, list)
           next == Read(pool2, list)
           x == [Head(reads) EXCEPT !.qty = @ - fill]
           S == {OrderIn(pool, s) : s \in SlotIndexes} \cup {x}
<1>1. /\ list \in Seq(SlotIndexes) /\ len \in Nat \ {0} /\ old.head = list[1]
      /\ \A j \in 1..len : list[j] \in SlotIndexes
      /\ \A j, k \in 1..len : list[j] = list[k] => j = k
  <2>1. list \in Seq(SlotIndexes)
    BY DEF Threads, Follows
  <2> QED
    BY <2>1 DEF Threads, Follows
<1>2. \A s \in SlotIndexes : /\ pool2[s].next = pool[s].next
                             /\ s # list[1] => OrderIn(pool2, s) = OrderIn(pool, s)
                             /\ s = list[1] => OrderIn(pool2, s) = [OrderIn(pool, s) EXCEPT !.qty = @ - fill]
  BY <1>1 DEF LessFilled, OrderIn
<1>3. Follows(list, pool2, old.head)
  BY <1>1, <1>2 DEF Threads, Follows
<1>4. /\ reads \in Seq({OrderIn(pool, s) : s \in SlotIndexes}) /\ Len(reads) = len
      /\ \A j \in 1..len : reads[j] = OrderIn(pool, list[j])
      /\ \A j \in 1..len : next[j] = OrderIn(pool2, list[j])
      /\ next = [j \in 1..len |-> next[j]]
  BY <1>1, ReadFacts DEF Read
<1>5. Head(reads) = OrderIn(pool, list[1])
  BY <1>1, <1>4
<1>6. reads \in Seq(S) /\ x \in S
  <2>1. \A j \in 1..len : reads[j] \in S
    BY <1>1, <1>4
  <2>2. x \in S
    OBVIOUS
  <2>3. reads = [j \in 1..len |-> reads[j]]
    BY <1>4
  <2> HIDE DEF S, reads
  <2>4. reads \in [1..len -> S]
    BY <2>1, <2>3
  <2> QED
    BY <2>2, <2>4, <1>1
<1>7. next[1] = x /\ \A j \in 2..len : next[j] = reads[j]
  <2>1. 1 \in 1..len /\ \A j \in 2..len : j \in 1..len /\ j # 1
    BY <1>1
  <2> QED
    BY <2>1, <1>1, <1>2, <1>4, <1>5
<1> HIDE DEF reads, next, x, S
<1>8. /\ <<x>> \o Tail(reads) \in Seq(S)
      /\ Len(<<x>> \o Tail(reads)) = len
      /\ (<<x>> \o Tail(reads))[1] = x
      /\ \A j \in 2..len : (<<x>> \o Tail(reads))[j] = reads[j]
  <2>1. reads # <<>>
    BY <1>1, <1>4
  <2>2. /\ Tail(reads) \in Seq(S) /\ Len(Tail(reads)) = len - 1
        /\ \A j \in 1..(len - 1) : Tail(reads)[j] = reads[j + 1]
    BY <2>1, <1>1, <1>4, <1>6
  <2> HIDE DEF len
  <2>3. \A j \in 2..len : j - 1 \in 1..(len - 1) /\ (j - 1) + 1 = j
    BY <1>1
  <2> QED
    BY <2>2, <2>3, <1>1, <1>6
<1> DEFINE other == <<x>> \o Tail(reads)
<1>9. \A j \in 1..len : next[j] = other[j]
  <2>1. \A j \in 1..len : j = 1 \/ j \in 2..len
    BY <1>1
  <2> QED
    BY <2>1, <1>7, <1>8
<1>10. next = other
  <2>1. other = [j \in 1..len |-> other[j]]
    BY <1>1, <1>8
  <2> HIDE DEF other
  <2> QED
    BY <2>1, <1>4, <1>9
<1>11. Len(list) <= Capacity
  BY DEF Threads
<1> QED
  BY <1>3, <1>10, <1>11 DEF ReadsAs, FirstReduced, next, x, reads

(***************************************************************************)
(* The book of lists a pool stands for.                                    *)
(***************************************************************************)
\* A level as the baseline keeps it.
Kept(level, pool) == [total_qty |-> level.total_qty, orders |-> FromIn(pool)[level.head]]
Image(lv, pool) == [side \in Sides |-> [p \in DOMAIN lv[side] |-> Kept(lv[side][p], pool)]]

\* A map of levels with the level at p replaced, or erased when it is empty.
Replaced(map, p, level) == IF level.orders = <<>> THEN Erase(map, p) ELSE Put(map, p, level)

\* The level of a price in a book of lists, and an empty one where there is none.
KeptAt(map, p) == IF p \in DOMAIN map THEN map[p] ELSE [total_qty |-> 0, orders |-> <<>>]

\* From one book of lists to another: the i-th order of a level leaves, its first order is
\* filled in part, an order joins it.
OrderLeaves(before, after, side, p, i) ==
  LET old == before[side][p]
  IN  after = [before EXCEPT
                 ![side] = Replaced(@, p, [total_qty |-> old.total_qty - old.orders[i].qty,
                                           orders |-> Without(old.orders, i)])]
Departs(before, after, side, p, order, prev) ==
  /\ side \in Sides /\ p \in DOMAIN before[side]
  /\ \E i \in 1..Len(before[side][p].orders) :
       /\ before[side][p].orders[i] = order
       /\ prev = kInvalidSlot => i = 1
       /\ OrderLeaves(before, after, side, p, i)
FirstIsFilled(before, after, side, p, fill) ==
  LET old == before[side][p]
  IN  after = [before EXCEPT ![side] = Put(@, p, [total_qty |-> old.total_qty - fill,
                                                  orders |-> FirstReduced(old.orders, fill)])]
OrderJoins(before, after, side, p, order) ==
  LET old == KeptAt(before[side], p)
  IN  after = [before EXCEPT ![side] = Put(@, p, [total_qty |-> old.total_qty + order.qty,
                                                  orders |-> Append(old.orders, Entry(order))])]

\* What a list of Sound reads as.
LEMMA LevelReads ==
  ASSUME NEW lv, NEW pool, NEW first, NEW index, Sound(lv, pool, first, index),
         NEW side \in Sides, NEW p \in Prices
  PROVE  \E list : /\ Threads(list, pool, LevelIn(lv, side, p))
                   /\ Members(list) = At(pool, side, p)
                   /\ FromIn(pool)[LevelIn(lv, side, p).head] = Read(pool, list)
                   /\ p \in DOMAIN lv[side] <=> list # <<>>
<1>1. PICK list : Threads(list, pool, LevelIn(lv, side, p)) /\ Members(list) = At(pool, side, p)
  BY ListOfLevel
<1>2. FromIn(pool)[LevelIn(lv, side, p).head] = Read(pool, list)
  BY <1>1, ReadsAlong DEF Threads
<1>3. p \in DOMAIN lv[side] <=> list # <<>>
  <2>1. LevelIn(lv, side, p).order_count = Len(list) /\ list \in Seq(SlotIndexes)
    BY <1>1 DEF Threads, Follows
  <2>2. p \in DOMAIN lv[side] <=> LevelIn(lv, side, p).order_count # 0
    <3>1. LevelsTyped(lv)
      BY DEF Sound
    <3> QED
      BY <3>1 DEF LevelsTyped, LevelIn, NewLevel
  <2> QED
    BY <2>1, <2>2
<1> QED
  BY <1>1, <1>2, <1>3

\* One level is rewritten, the orders of the others stay what they were.
LEMMA ImageRewritten ==
  ASSUME NEW lv, NEW lv2, NEW pool, NEW pool2, LevelsTyped(lv), LevelsTyped(lv2),
         NEW side \in Sides, NEW p \in Prices, NEW level, Rewritten(lv, lv2, side, p, level),
         NEW orders, orders = <<>> <=> level.order_count = 0,
         level.order_count # 0 => FromIn(pool2)[level.head] = orders,
         \A s \in Sides : \A q \in DOMAIN lv[s] : s # side \/ q # p =>
           FromIn(pool2)[lv[s][q].head] = FromIn(pool)[lv[s][q].head]
  PROVE  Image(lv2, pool2) =
           [Image(lv, pool) EXCEPT
              ![side] = Replaced(@, p, [total_qty |-> level.total_qty, orders |-> orders])]
<1> DEFINE new == [total_qty |-> level.total_qty, orders |-> orders]
           before == Image(lv, pool)
           after == Image(lv2, pool2)
           map == Replaced(before[side], p, new)
<1>1. /\ \A s \in Sides : DOMAIN before[s] = DOMAIN lv[s] /\ DOMAIN after[s] = DOMAIN lv2[s]
      /\ \A s \in Sides : \A q \in DOMAIN lv[s] : before[s][q] = Kept(lv[s][q], pool)
      /\ \A s \in Sides : \A q \in DOMAIN lv2[s] : after[s][q] = Kept(lv2[s][q], pool2)
      /\ \A s \in Sides : after[s] = [q \in DOMAIN lv2[s] |-> Kept(lv2[s][q], pool2)]
      /\ \A s \in Sides : before[s] = [q \in DOMAIN lv[s] |-> Kept(lv[s][q], pool)]
      /\ after = [s \in Sides |-> after[s]] /\ DOMAIN before = Sides
  BY DEF Image
<1> HIDE DEF before, after
<1>2. /\ \A s \in Sides : DOMAIN lv[s] \subseteq Prices /\ DOMAIN lv2[s] \subseteq Prices
      /\ \A s \in Sides : \A q \in DOMAIN lv[s] : lv[s][q].order_count # 0
      /\ \A s \in Sides : \A q \in DOMAIN lv2[s] : lv2[s][q].order_count # 0
  BY DEF LevelsTyped
<1>3. \A s \in Sides, q \in Prices :
        LevelIn(lv2, s, q) = IF s = side /\ q = p
                             THEN IF level.order_count = 0 THEN NewLevel ELSE level
                             ELSE LevelIn(lv, s, q)
  BY DEF Rewritten
<1>4. NewLevel.order_count = 0
  BY DEF NewLevel
<1>5. \A s \in Sides, q \in Prices :
        /\ q \in DOMAIN lv[s] <=> LevelIn(lv, s, q).order_count # 0
        /\ q \in DOMAIN lv2[s] <=> LevelIn(lv2, s, q).order_count # 0
        /\ q \in DOMAIN lv[s] => LevelIn(lv, s, q) = lv[s][q]
        /\ q \in DOMAIN lv2[s] => LevelIn(lv2, s, q) = lv2[s][q]
  BY <1>2, <1>4 DEF LevelIn
<1>6. ASSUME NEW s \in Sides, NEW q \in Prices, s # side \/ q # p
      PROVE  /\ q \in DOMAIN lv2[s] <=> q \in DOMAIN lv[s]
             /\ q \in DOMAIN lv[s] => after[s][q] = before[s][q]
  <2>1. LevelIn(lv2, s, q) = LevelIn(lv, s, q)
    BY <1>3, <1>6
  <2>2. q \in DOMAIN lv2[s] <=> q \in DOMAIN lv[s]
    BY <2>1, <1>5
  <2>3. q \in DOMAIN lv[s] => lv2[s][q] = lv[s][q] /\ FromIn(pool2)[lv[s][q].head] = FromIn(pool)[lv[s][q].head]
    BY <2>1, <2>2, <1>5, <1>6
  <2>4. ASSUME q \in DOMAIN lv[s]
        PROVE  after[s][q] = before[s][q]
    <3>1. after[s][q] = Kept(lv2[s][q], pool2)
      BY <2>2, <2>4, <1>1
    <3>2. before[s][q] = Kept(lv[s][q], pool)
      BY <2>4, <1>1
    <3>3. Kept(lv2[s][q], pool2) = Kept(lv[s][q], pool)
      BY <2>3, <2>4 DEF Kept
    <3> QED
      BY <3>1, <3>2, <3>3
  <2> QED
    BY <2>2, <2>4
<1>7. ASSUME NEW s \in Sides, s # side
      PROVE  after[s] = before[s]
  <2>1. DOMAIN lv2[s] = DOMAIN lv[s]
    BY <1>2, <1>6, <1>7
  <2>2. \A q \in DOMAIN lv[s] : after[s][q] = before[s][q]
    BY <1>2, <1>6, <1>7
  <2>3. \A q \in DOMAIN lv[s] : Kept(lv2[s][q], pool2) = Kept(lv[s][q], pool)
    BY <2>1, <2>2, <1>1
  <2> QED
    BY <2>1, <2>3, <1>1
<1>8. after[side] = map
  <2>1. CASE level.order_count = 0
    <3>1. map = Erase(before[side], p)
      BY <2>1 DEF Replaced
    <3>2. p \notin DOMAIN lv2[side]
      BY <2>1, <1>3, <1>4, <1>5
    <3>3. DOMAIN lv2[side] = DOMAIN lv[side] \ {p}
      BY <3>2, <1>2, <1>6
    <3>4. \A q \in DOMAIN lv[side] \ {p} : Kept(lv2[side][q], pool2) = before[side][q]
      BY <3>3, <1>1, <1>2, <1>6
    <3> QED
      BY <3>1, <3>3, <3>4, <1>1 DEF Erase
  <2>2. CASE level.order_count # 0
    <3>1. map = Put(before[side], p, new)
      BY <2>2 DEF Replaced
    <3>2. p \in DOMAIN lv2[side] /\ lv2[side][p] = level
      BY <2>2, <1>3, <1>5
    <3>3. DOMAIN lv2[side] = DOMAIN lv[side] \cup {p}
      BY <3>2, <1>2, <1>6
    <3>4. Kept(lv2[side][p], pool2) = new
      BY <3>2, <2>2 DEF Kept
    <3>5. \A q \in DOMAIN lv[side] : q # p => Kept(lv2[side][q], pool2) = before[side][q]
      BY <3>3, <1>1, <1>2, <1>6
    <3>6. \A q \in DOMAIN lv[side] \cup {p} : Kept(lv2[side][q], pool2) = IF q = p THEN new ELSE before[side][q]
      BY <3>4, <3>5
    <3>7. after[side] = [q \in DOMAIN lv[side] \cup {p} |-> IF q = p THEN new ELSE before[side][q]]
      <4>1. after[side] = [q \in DOMAIN lv2[side] |-> Kept(lv2[side][q], pool2)]
        BY <1>1
      <4>2. after[side] = [q \in DOMAIN lv[side] \cup {p} |-> Kept(lv2[side][q], pool2)]
        BY <4>1, <3>3
      <4> HIDE DEF new
      <4> QED
        BY <4>2, <3>6
    <3> QED
      BY <3>1, <3>7, <1>1 DEF Put
  <2> QED
    BY <2>1, <2>2
<1>9. after = [before EXCEPT ![side] = map]
  <2> HIDE DEF map
  <2> QED
    BY <1>1, <1>7, <1>8
<1> QED
  BY <1>9 DEF before, after

\* The lists of the other levels are read as before when their slots are.
LEMMA OthersKept ==
  ASSUME NEW lv, NEW pool, NEW first, NEW index, Sound(lv, pool, first, index),
         NEW side \in Sides, NEW p \in Prices, NEW pool2,
         \A s \in SlotIndexes : pool[s].live /\ s \notin At(pool, side, p) =>
           pool2[s].next = pool[s].next /\ OrderIn(pool2, s) = OrderIn(pool, s)
  PROVE  \A s \in Sides : \A q \in DOMAIN lv[s] : s # side \/ q # p =>
           FromIn(pool2)[lv[s][q].head] = FromIn(pool)[lv[s][q].head]
<1> SUFFICES ASSUME NEW s \in Sides, NEW q \in DOMAIN lv[s], s # side \/ q # p
             PROVE  FromIn(pool2)[lv[s][q].head] = FromIn(pool)[lv[s][q].head]
  OBVIOUS
<1>1. q \in Prices /\ LevelIn(lv, s, q) = lv[s][q]
  BY DEF Sound, LevelsTyped, LevelIn
<1>2. PICK other : /\ Threads(other, pool, lv[s][q]) /\ Members(other) = At(pool, s, q)
                   /\ FromIn(pool)[lv[s][q].head] = Read(pool, other)
  BY <1>1, LevelReads
<1>3. Follows(other, pool, lv[s][q].head) /\ Len(other) <= Capacity /\ other \in Seq(SlotIndexes)
  BY <1>2 DEF Threads, Follows
<1>4. ASSUME NEW j \in 1..Len(other)
      PROVE  /\ pool2[other[j]].next = pool[other[j]].next
             /\ OrderIn(pool2, other[j]) = OrderIn(pool, other[j])
  <2>1. other[j] \in At(pool, s, q) /\ other[j] \in SlotIndexes
    BY <1>2, <1>3 DEF Members
  <2>2. other[j] \notin At(pool, side, p) /\ pool[other[j]].live
    BY <2>1 DEF At
  <2> QED
    BY <2>1, <2>2
<1>5. Follows(other, pool2, lv[s][q].head) /\ Read(pool2, other) = Read(pool, other)
  BY <1>3, <1>4, ListKept
<1>6. FromIn(pool2)[lv[s][q].head] = Read(pool2, other)
  BY <1>3, <1>5, ReadsAlong
<1> QED
  BY <1>2, <1>5, <1>6

\* The order in slot r leaves.
LEMMA ImageShortened ==
  ASSUME NEW lv, NEW pool, NEW first, NEW index, Sound(lv, pool, first, index),
         NEW r \in SlotIndexes, pool[r].live,
         NEW side, side = pool[r].side, NEW p, p = pool[r].price,
         NEW pool2, Leaves(pool, pool2, r, first),
         NEW level, Lessened(lv[side][p], level, pool[r]),
         NEW lv2, LevelsTyped(lv2), Rewritten(lv, lv2, side, p, level)
  PROVE  Departs(Image(lv, pool), Image(lv2, pool2), side, p, OrderIn(pool, r), pool[r].prev)
<1>1. /\ side \in Sides /\ p \in Prices /\ r \in At(pool, side, p) /\ p \in DOMAIN lv[side]
      /\ LevelIn(lv, side, p) = lv[side][p] /\ lv[side][p].order_count - 1 \in Nat
  BY LiveHasLevel
<1>2. LevelsTyped(lv) /\ kInvalidSlot \notin SlotIndexes
  BY DEF Sound, SlotIndexes, kInvalidSlot
<1>3. PICK list : /\ Threads(list, pool, lv[side][p]) /\ Members(list) = At(pool, side, p)
                  /\ FromIn(pool)[lv[side][p].head] = Read(pool, list)
  BY <1>1, LevelReads
<1>4. list \in Seq(SlotIndexes) /\ lv[side][p].order_count = Len(list) /\ Len(list) \in Nat
  BY <1>3 DEF Threads, Follows
<1>5. PICK i \in 1..Len(list) : list[i] = r
  BY <1>1, <1>3, <1>4 DEF Members
<1>6. /\ Follows(Without(list, i), pool2, level.head) /\ Len(Without(list, i)) <= Capacity
      /\ Read(pool2, Without(list, i)) = Without(Read(pool, list), i)
  <2>1. Leaves(pool, pool2, list[i], first) /\ Lessened(lv[side][p], level, pool[list[i]])
    BY <1>5
  <2>2. Threads(list, pool, lv[side][p])
    BY <1>3
  <2> QED
    <3>1. i \in 1..Len(list)
      BY <1>5
    <3>2. ReadsAs(Without(list, i), pool2, level.head, Without(Read(pool, list), i))
      BY <2>1, <2>2, <3>1, ListShortened, Zenon
    <3> QED
      BY <3>2 DEF ReadsAs
<1>7. FromIn(pool2)[level.head] = Without(Read(pool, list), i)
  BY <1>6, ReadsAlong
<1>8. /\ Read(pool, list) \in Seq({OrderIn(pool, s) : s \in SlotIndexes})
      /\ Len(Read(pool, list)) = Len(list)
      /\ Read(pool, list)[i] = OrderIn(pool, r)
  BY <1>4, <1>5, ReadFacts
<1> DEFINE orders == Without(Read(pool, list), i)
<1>9. orders = <<>> <=> level.order_count = 0
  <2>1. orders \in Seq({OrderIn(pool, s) : s \in SlotIndexes}) /\ Len(orders) = Len(list) - 1
    BY <1>5, <1>8, WithoutFacts
  <2>2. level.order_count = Len(list) - 1
    BY <1>4 DEF Lessened
  <2> HIDE DEF orders
  <2> QED
    BY <2>1, <2>2
<1>10. \A s \in Sides : \A q \in DOMAIN lv[s] : s # side \/ q # p =>
         FromIn(pool2)[lv[s][q].head] = FromIn(pool)[lv[s][q].head]
  <2>1. pool[r].prev = kInvalidSlot \/ pool[r].prev \in At(pool, side, p)
    BY <1>1, LinksStay DEF Sound
  <2>2. ASSUME NEW s \in SlotIndexes, s \notin At(pool, side, p)
        PROVE  pool2[s].next = pool[s].next /\ OrderIn(pool2, s) = OrderIn(pool, s)
    <3>1. s # r /\ s # pool[r].prev
      BY <2>1, <2>2, <1>1, <1>2
    <3> QED
      BY <3>1 DEF Leaves, OrderIn
  <2> QED
    BY <1>1, <2>2, OthersKept
<1> HIDE DEF orders
<1>11. Image(lv2, pool2) =
         [Image(lv, pool) EXCEPT
            ![side] = Replaced(@, p, [total_qty |-> level.total_qty, orders |-> orders])]
  BY <1>1, <1>2, <1>7, <1>9, <1>10, ImageRewritten DEF orders
<1>12. Image(lv, pool)[side][p] = Kept(lv[side][p], pool)
  BY <1>1 DEF Image
<1>13. /\ Kept(lv[side][p], pool).orders = Read(pool, list)
       /\ Kept(lv[side][p], pool).total_qty = lv[side][p].total_qty
  BY <1>3 DEF Kept
<1>14. level.total_qty = lv[side][p].total_qty - pool[r].qty
  BY DEF Lessened
<1>15. pool[r].prev = kInvalidSlot => i = 1
  BY <1>2, <1>3, <1>4, <1>5 DEF Threads
<1>16. /\ Image(lv, pool)[side][p].orders = Read(pool, list)
       /\ Image(lv, pool)[side][p].total_qty = lv[side][p].total_qty
  BY <1>12, <1>13
<1>17. i \in 1..Len(Image(lv, pool)[side][p].orders)
  BY <1>5, <1>8, <1>16
<1>18. Image(lv, pool)[side][p].orders[i] = OrderIn(pool, r)
  BY <1>8, <1>16
<1>19. Image(lv2, pool2) =
         [Image(lv, pool) EXCEPT
            ![side] = Replaced(@, p, [total_qty |-> Image(lv, pool)[side][p].total_qty - pool[r].qty,
                                      orders |-> Without(Image(lv, pool)[side][p].orders, i)])]
  BY <1>11, <1>14, <1>16 DEF orders
<1>20. Image(lv, pool)[side][p].orders[i].qty = pool[r].qty
  BY <1>18 DEF OrderIn
<1>21. OrderLeaves(Image(lv, pool), Image(lv2, pool2), side, p, i)
  BY <1>19, <1>20 DEF OrderLeaves
<1> QED
  BY <1>1, <1>12, <1>15, <1>17, <1>18, <1>21 DEF Departs, Image

\* An order of which `fill` has traded stays first in its level.
LEMMA ImageShrunk ==
  ASSUME NEW lv, NEW pool, NEW first, NEW index, Sound(lv, pool, first, index),
         NEW side \in Sides, NEW p \in DOMAIN lv[side], NEW fill \in Int,
         NEW pool2, LessFilled(pool, pool2, lv[side][p].head, fill),
         NEW lv2, LevelsTyped(lv2),
         Rewritten(lv, lv2, side, p, [lv[side][p] EXCEPT !.total_qty = @ - fill])
  PROVE  FirstIsFilled(Image(lv, pool), Image(lv2, pool2), side, p, fill)
<1> DEFINE level == [lv[side][p] EXCEPT !.total_qty = @ - fill]
<1>1. /\ p \in Prices /\ LevelIn(lv, side, p) = lv[side][p] /\ lv[side][p] \in Level
      /\ lv[side][p].head \in SlotIndexes /\ lv[side][p].order_count \in Nat \ {0}
      /\ pool[lv[side][p].head].live
      /\ pool[lv[side][p].head].side = side /\ pool[lv[side][p].head].price = p
  BY HeadFacts
<1>2. LevelsTyped(lv)
  BY DEF Sound
<1>3. PICK list : /\ Threads(list, pool, lv[side][p]) /\ Members(list) = At(pool, side, p)
                  /\ FromIn(pool)[lv[side][p].head] = Read(pool, list)
                  /\ list # <<>>
  BY <1>1, LevelReads
<1>4. ReadsAs(list, pool2, lv[side][p].head, FirstReduced(Read(pool, list), fill))
  BY <1>3, ListShrunk, Zenon
<1>5. FromIn(pool2)[lv[side][p].head] = FirstReduced(Read(pool, list), fill)
  BY <1>4, ReadsAlong DEF ReadsAs
<1>6. /\ level.head = lv[side][p].head /\ level.order_count # 0
      /\ level.total_qty = lv[side][p].total_qty - fill
  BY <1>1 DEF Level
<1>7. FirstReduced(Read(pool, list), fill) # <<>>
  <2>1. Read(pool2, list) = FirstReduced(Read(pool, list), fill)
    BY <1>4 DEF ReadsAs
  <2>2. list \in Seq(SlotIndexes)
    BY <1>4 DEF ReadsAs, Follows
  <2>3. Len(list) # 0
    BY <2>2, <1>3
  <2>4. Len(Read(pool2, list)) = Len(list)
    BY <2>2, ReadFacts
  <2> QED
    BY <2>1, <2>3, <2>4
<1>8. \A s \in Sides : \A q \in DOMAIN lv[s] : s # side \/ q # p =>
        FromIn(pool2)[lv[s][q].head] = FromIn(pool)[lv[s][q].head]
  <2>1. ASSUME NEW s \in SlotIndexes, s \notin At(pool, side, p)
        PROVE  pool2[s].next = pool[s].next /\ OrderIn(pool2, s) = OrderIn(pool, s)
    <3>1. s # lv[side][p].head
      BY <2>1, <1>1 DEF At
    <3> QED
      BY <3>1 DEF LessFilled, OrderIn
  <2> QED
    BY <1>1, <2>1, OthersKept
<1> DEFINE orders == FirstReduced(Read(pool, list), fill)
<1>9. Image(lv2, pool2) =
        [Image(lv, pool) EXCEPT
           ![side] = Replaced(@, p, [total_qty |-> level.total_qty, orders |-> orders])]
  <2>1. orders = <<>> <=> level.order_count = 0
    BY <1>6, <1>7
  <2>2. level.order_count # 0 => FromIn(pool2)[level.head] = orders
    BY <1>5, <1>6
  <2>3. Rewritten(lv, lv2, side, p, level)
    OBVIOUS
  <2> HIDE DEF level, orders
  <2> QED
    BY <1>1, <1>2, <1>8, <2>1, <2>2, <2>3, ImageRewritten
<1>10. /\ Image(lv, pool)[side][p].orders = Read(pool, list)
       /\ Image(lv, pool)[side][p].total_qty = lv[side][p].total_qty
  BY <1>3 DEF Image, Kept
<1> QED
  BY <1>6, <1>7, <1>9, <1>10 DEF Replaced, FirstIsFilled

\* An order takes the free slot f and stands last in its level.
LEMMA ImageLengthened ==
  ASSUME NEW lv, NEW pool, NEW first, NEW index, Sound(lv, pool, first, index),
         NEW f \in SlotIndexes, ~pool[f].live,
         NEW order, NEW side \in Sides, side = order.side, NEW p \in Prices, p = order.price,
         NEW pool2, Arrives(pool, pool2, f, order, LevelIn(lv, side, p).tail),
         NEW level, Increased(LevelIn(lv, side, p), level, f, order.qty),
         NEW lv2, NEW first2, NEW index2, Sound(lv2, pool2, first2, index2),
         Rewritten(lv, lv2, side, p, level)
  PROVE  OrderJoins(Image(lv, pool), Image(lv2, pool2), side, p, order)
<1> DEFINE before == LevelIn(lv, side, p)
<1>1. LevelsTyped(lv) /\ LevelsTyped(lv2)
  BY DEF Sound
<1>2. PICK list : /\ Threads(list, pool, before) /\ Members(list) = At(pool, side, p)
                  /\ FromIn(pool)[before.head] = Read(pool, list)
                  /\ p \in DOMAIN lv[side] <=> list # <<>>
  BY LevelReads
<1>3. /\ list \in Seq(SlotIndexes) /\ before.order_count = Len(list) /\ Len(list) \in Nat
      /\ level.order_count = Len(list) + 1
  BY <1>2 DEF Threads, Follows, Increased
<1>4. \A i \in 1..Len(list) : list[i] # f
  BY <1>2, <1>3 DEF Members, At
<1>5. level.order_count <= Capacity
  <2>1. PICK more : Threads(more, pool2, LevelIn(lv2, side, p))
    BY LevelReads
  <2>2. LevelIn(lv2, side, p).order_count <= Capacity
    BY <2>1 DEF Threads
  <2>3. LevelIn(lv2, side, p) = level
    BY <1>3 DEF Rewritten
  <2> QED
    BY <2>2, <2>3
<1> DEFINE orders == Append(Read(pool, list), Entry(order))
<1>6. ReadsAs(Append(list, f), pool2, level.head, orders)
  BY <1>2, <1>4, <1>5, ListLengthened, Zenon
<1>7. FromIn(pool2)[level.head] = orders
  BY <1>6, ReadsAlong DEF ReadsAs
<1>8. \A s \in Sides : \A q \in DOMAIN lv[s] : s # side \/ q # p =>
        FromIn(pool2)[lv[s][q].head] = FromIn(pool)[lv[s][q].head]
  <2>1. ASSUME NEW s \in SlotIndexes, pool[s].live, s \notin At(pool, side, p)
        PROVE  pool2[s].next = pool[s].next /\ OrderIn(pool2, s) = OrderIn(pool, s)
    <3>1. before.tail # s
      <4>1. CASE list = <<>>
        BY <4>1, <1>2 DEF Threads, SlotIndexes, kInvalidSlot
      <4>2. CASE list # <<>>
        <5>1. Len(list) \in 1..Len(list)
          BY <4>2, <1>3
        <5> QED
          BY <4>2, <5>1, <2>1, <1>2, <1>3 DEF Threads, Members
      <4> QED
        BY <4>1, <4>2
    <3>2. s # f
      BY <2>1
    <3> QED
      BY <3>1, <3>2 DEF Arrives, OrderIn
  <2> QED
    BY <2>1, OthersKept
<1>9. orders # <<>>
  <2>1. Read(pool, list) \in Seq({OrderIn(pool, s) : s \in SlotIndexes})
    BY <1>3, ReadFacts
  <2> QED
    BY <2>1
<1> HIDE DEF orders, before
<1>10. Image(lv2, pool2) =
         [Image(lv, pool) EXCEPT
            ![side] = Replaced(@, p, [total_qty |-> level.total_qty, orders |-> orders])]
  <2>1. orders = <<>> <=> level.order_count = 0
    BY <1>3, <1>9
  <2> QED
    BY <1>1, <1>7, <1>8, <2>1, ImageRewritten
<1>11. /\ KeptAt(Image(lv, pool)[side], p).orders = Read(pool, list)
       /\ KeptAt(Image(lv, pool)[side], p).total_qty = before.total_qty
  <2>1. CASE p \in DOMAIN lv[side]
    BY <2>1, <1>2 DEF KeptAt, Image, Kept, LevelIn, before
  <2>2. CASE p \notin DOMAIN lv[side]
    <3>1. Read(pool, list) = <<>>
      BY <2>2, <1>2 DEF Read
    <3> QED
      BY <2>2, <3>1 DEF KeptAt, Image, LevelIn, NewLevel, before
  <2> QED
    BY <2>1, <2>2
<1>12. level.total_qty = before.total_qty + order.qty
  BY DEF Increased, before
<1> QED
  BY <1>9, <1>10, <1>11, <1>12 DEF Replaced, OrderJoins, orders

(***************************************************************************)
(* The pooled engine runs as the baseline does: seen through AbsLevels,    *)
(* AbsIndex and AbsIncoming each of its steps but reserve_orders is a step *)
(* of the baseline.  A refused call is the baseline's refusal "None": why  *)
(* a call is refused is compared separately.                               *)
(***************************************************************************)
Places(pool, index) ==
  [id \in DOMAIN index |-> [side |-> pool[index[id]].side, price |-> pool[index[id]].price]]

\* The book, the index and the call under way as the baseline keeps them.
AbsLevels == Image(levels, slots)
AbsIndex == Places(slots, order_index)
AbsIncoming ==
  IF Idle THEN NoOrder
  ELSE [order_id |-> incoming.order_id, side |-> incoming.side, price |-> incoming.price,
        qty |-> incoming.qty, can_rest |-> incoming.can_rest,
        is_market |-> incoming.is_market,
        time_in_force |-> IF incoming.can_rest THEN "GTC" ELSE "IOC", post_only |-> FALSE]

B == INSTANCE OrderBookProofs
  WITH levels <- AbsLevels, order_index <- AbsIndex, incoming <- AbsIncoming,
       error <- "None", AddRequests <- Adds

\* What the baseline assumes of its constants holds of those it is given here.
LEMMA Assumed == B!PriceAssumption /\ B!QuantityAssumption /\ B!RequestAssumption
BY PoolAssumption
   DEF B!PriceAssumption, B!QuantityAssumption, B!RequestAssumption, B!Adds, Adds,
       B!Policies, Policies, B!Sides, Sides

\* The baseline's operators are those of the pooled engine.
LEMMA BSameOperators ==
  /\ B!Sides = Sides /\ B!Prices = Prices /\ B!NoOrder = NoOrder
  /\ \A side : B!OtherSide(side) = OtherSide(side)
  /\ \A side, p, r : B!AtLeastAsGood(side, p, r) <=> AtLeastAsGood(side, p, r)
  /\ \A side, p, r : B!Crosses(side, p, r) <=> Crosses(side, p, r)
  /\ \A side, k : B!Ranked(side, k) = Ranked(side, k)
  /\ \A a, b : B!Smaller(a, b) = Smaller(a, b)
  /\ \A a, b : B!AddWouldOverflow(a, b) <=> AddWouldOverflow(a, b)
  /\ \A s, i : B!RemoveAt(s, i) = Without(s, i)
  /\ \A map, key : B!Erase(map, key) = Erase(map, key)
  /\ \A map, key, value : B!Put(map, key, value) = Put(map, key, value)
BY DEF B!Sides, Sides, B!Prices, Prices, B!NoOrder, NoOrder, NoId, B!OtherSide, OtherSide,
       B!AtLeastAsGood, AtLeastAsGood, B!Crosses, Crosses, B!Ranked, Ranked, B!Smaller, Smaller,
       B!AddWouldOverflow, AddWouldOverflow, B!RemoveAt, Without, B!Erase, Erase, B!Put, Put

\* Both engines store a level, or erase it with its last order.
LEMMA BSameStored ==
  \A side, p, level : B!Stored(side, p, level) = Replaced(AbsLevels[side], p, level)
BY BSameOperators DEF B!Stored, Replaced

\* The baseline is in the middle of a call when the pooled engine is, and of the same call.
LEMMA BIdle ==
  /\ B!Idle <=> Idle
  /\ ~Idle => /\ AbsIncoming.order_id = incoming.order_id /\ AbsIncoming.side = incoming.side
              /\ AbsIncoming.price = incoming.price /\ AbsIncoming.qty = incoming.qty
              /\ AbsIncoming.can_rest = incoming.can_rest
              /\ AbsIncoming.is_market = incoming.is_market
              /\ AbsIncoming.time_in_force = IF incoming.can_rest THEN "GTC" ELSE "IOC"
              /\ AbsIncoming.post_only = FALSE
<1>1. CASE Idle
  BY <1>1, BSameOperators DEF B!Idle, AbsIncoming
<1>2. CASE ~Idle
  <2> DEFINE call == [order_id |-> incoming.order_id, side |-> incoming.side,
                      price |-> incoming.price, qty |-> incoming.qty,
                      can_rest |-> incoming.can_rest, is_market |-> incoming.is_market,
                      time_in_force |-> IF incoming.can_rest THEN "GTC" ELSE "IOC",
                      post_only |-> FALSE]
  <2>1. AbsIncoming = call
    BY <1>2 DEF AbsIncoming
  <2>2. "side" \in DOMAIN call /\ "side" \notin DOMAIN NoOrder
    BY DEF NoOrder
  <2>3. call # NoOrder
    BY <2>2
  <2>4. ~B!Idle
    BY <2>1, <2>3, BSameOperators DEF B!Idle
  <2> QED
    BY <1>2, <2>1, <2>4
<1> QED
  BY <1>1, <1>2

\* Both engines match at the same price.
LEMMA BBestPrice ==
  ASSUME NEW side \in Sides
  PROVE  DOMAIN AbsLevels[side] = DOMAIN levels[side] /\ B!BestPrice(side) = BestPrice(side)
<1>1. DOMAIN AbsLevels[side] = DOMAIN levels[side]
  BY DEF AbsLevels, Image
<1> QED
  BY <1>1 DEF B!BestPrice, BestPrice, B!AtLeastAsGood, AtLeastAsGood

\* Both loops go on together.
LEMMA BMatching ==
  ASSUME IInv, ~Idle
  PROVE  B!Matching <=> Matching
<1>1. incoming.side \in Sides /\ OtherSide(incoming.side) \in Sides
  BY DEF IInv, CallSound, Call, OtherSide, Sides
<1> QED
  BY <1>1, BIdle, BBestPrice, BSameOperators DEF B!Matching, Matching

\* What the baseline sees after a step.
LEMMA AbsNext == AbsLevels' = Image(levels', slots') /\ AbsIndex' = Places(slots', order_index')
BY DEF AbsLevels, AbsIndex, Image, Kept, FromIn, Places

\* The index forgets the order that leaves its slot.
LEMMA PlacesShortened ==
  ASSUME NEW pool, NEW index, Indexed(pool, index), NEW id \in DOMAIN index,
         NEW pool2, NEW first, Leaves(pool, pool2, index[id], first)
  PROVE  Places(pool2, Erase(index, id)) = Erase(Places(pool, index), id)
<1>1. ASSUME NEW other \in DOMAIN index \ {id}
      PROVE  /\ pool2[index[other]].side = pool[index[other]].side
             /\ pool2[index[other]].price = pool[index[other]].price
  <2>1. index[other] \in SlotIndexes /\ index[other] # index[id]
    BY DEF Indexed
  <2> QED
    BY <2>1 DEF Leaves
<1> QED
  BY <1>1 DEF Places, Erase

\* The index learns of the order that takes a slot.
LEMMA PlacesLengthened ==
  ASSUME NEW pool, NEW index, Indexed(pool, index), NEW f \in SlotIndexes, ~pool[f].live,
         NEW order, order.order_id \notin DOMAIN index,
         NEW pool2, NEW tail, Arrives(pool, pool2, f, order, tail)
  PROVE  Places(pool2, Put(index, order.order_id, f))
           = Put(Places(pool, index), order.order_id,
                 [side |-> order.side, price |-> order.price])
<1>1. ASSUME NEW other \in DOMAIN index
      PROVE  /\ pool2[index[other]].side = pool[index[other]].side
             /\ pool2[index[other]].price = pool[index[other]].price
  <2>1. index[other] \in SlotIndexes \ {f}
    BY DEF Indexed
  <2> QED
    BY <2>1 DEF Arrives
<1>2. pool2[f].side = order.side /\ pool2[f].price = order.price
  BY DEF Arrives
<1> QED
  BY <1>1, <1>2 DEF Places, Put

\* A partial fill moves no order.
LEMMA PlacesKept ==
  ASSUME NEW pool, NEW index, Indexed(pool, index), NEW pool2, NEW r, NEW fill,
         LessFilled(pool, pool2, r, fill)
  PROVE  Places(pool2, index) = Places(pool, index)
BY DEF Indexed, LessFilled, Places

\* The order of an id, where the baseline finds it.
LEMMA RemovalSeen ==
  ASSUME IInv, B!IInv, NEW id \in DOMAIN order_index,
         Withdraws(levels', slots', order_index[id]), SoundNow',
         order_index' = Erase(order_index, id)
  PROVE  /\ AbsLevels' = B!LevelsWithout(id) /\ AbsIndex' = B!Unindexed(id)
         /\ id \in DOMAIN AbsIndex
         /\ AbsIndex[id].side = slots[order_index[id]].side
         /\ AbsIndex[id].price = slots[order_index[id]].price
         /\ B!OrderOf(id) = OrderIn(slots, order_index[id])
<1> DEFINE r == order_index[id]
           side == slots[r].side
           p == slots[r].price
           old == AbsLevels[side][p]
<1>1. r \in SlotIndexes /\ slots[r].live /\ slots[r].order_id = id /\ Indexed(slots, order_index)
  BY DEF IInv, SoundNow, Sound, Indexed
<1>2. PICK level : /\ Lessened(levels[side][p], level, slots[r])
                   /\ Rewritten(levels, levels', side, p, level)
  BY DEF Withdraws
<1>3. Leaves(slots, slots', r, free_head) /\ LevelsTyped(levels')
  BY DEF Withdraws, SoundNow, Sound
<1>4. Departs(AbsLevels, AbsLevels', side, p, OrderIn(slots, r), slots[r].prev)
  <2>1. Sound(levels, slots, free_head, order_index)
    BY DEF IInv, SoundNow
  <2>2. Departs(Image(levels, slots), Image(levels', slots'), side, p, OrderIn(slots, r),
                slots[r].prev)
    BY <2>1, <1>1, <1>2, <1>3, ImageShortened
  <2> QED
    BY <2>2, AbsNext DEF AbsLevels
<1>5. PICK i \in 1..Len(old.orders) :
        old.orders[i] = OrderIn(slots, r) /\ OrderLeaves(AbsLevels, AbsLevels', side, p, i)
  BY <1>4 DEF Departs
<1>6. p \in DOMAIN AbsLevels[side] /\ side \in Sides
  BY <1>4 DEF Departs
<1>7. old.orders \in Seq(B!Order) /\ B!HeldOnce(old.orders, side, p, AbsIndex)
  BY <1>6, BSameOperators
     DEF B!IInv, B!WellTyped, B!LevelMap, B!Indexed, B!Level
<1>15. DOMAIN old.orders = 1..Len(old.orders)
  <2> DEFINE orders == old.orders
  <2> HIDE DEF orders
  <2>1. orders \in Seq(B!Order)
    BY <1>7 DEF orders
  <2>2. DOMAIN orders = 1..Len(orders)
    BY <2>1
  <2> QED
    BY <2>2 DEF orders
<1>8. \A j \in DOMAIN old.orders : old.orders[j].order_id = id => j = i
  <2>1. i \in DOMAIN old.orders /\ old.orders[i].order_id = id
    BY <1>1, <1>5, <1>15 DEF OrderIn
  <2> QED
    BY <2>1, <1>7 DEF B!HeldOnce
<1>9. B!Position(old.orders, id) = i
  <2>1. i \in DOMAIN old.orders /\ old.orders[i].order_id = id
    BY <1>1, <1>5, <1>15 DEF OrderIn
  <2> HIDE DEF old
  <2> QED
    BY <2>1, <1>8 DEF B!Position
<1>10. /\ id \in DOMAIN AbsIndex /\ AbsIndex[id].side = side /\ AbsIndex[id].price = p
  BY DEF AbsIndex, Places
<1>11. B!OrderOf(id) = OrderIn(slots, r)
  BY <1>5, <1>9, <1>10 DEF B!OrderOf
<1>12. B!LevelsWithout(id) =
         [AbsLevels EXCEPT
            ![side] = Replaced(@, p, [total_qty |-> old.total_qty - old.orders[i].qty,
                                      orders |-> Without(old.orders, i)])]
  <2>1. B!LevelWithout(old, i) = [total_qty |-> old.total_qty - old.orders[i].qty,
                                  orders |-> Without(old.orders, i)]
    BY BSameOperators DEF B!LevelWithout
  <2>2. B!LevelsWithout(id) =
          [AbsLevels EXCEPT ![side] = B!Stored(side, p, B!LevelWithout(old, i))]
    BY <1>9, <1>10 DEF B!LevelsWithout
  <2> HIDE DEF side, p, old
  <2> QED
    BY <2>1, <2>2, BSameStored
<1>13. AbsLevels' = B!LevelsWithout(id)
  BY <1>5, <1>12 DEF OrderLeaves
<1>14. AbsIndex' = B!Unindexed(id)
  <2>1. AbsIndex' = Erase(AbsIndex, id)
    BY <1>1, <1>3, AbsNext, PlacesShortened DEF AbsIndex
  <2> QED
    BY <2>1, BSameOperators DEF B!Unindexed
<1> QED
  BY <1>10, <1>11, <1>13, <1>14

\* Both removals are those of the baseline.
LEMMA RemoveOrderSeen ==
  ASSUME IInv, B!IInv, NEW id \in DOMAIN order_index, RemoveOrder(id)
  PROVE  /\ AbsLevels' = B!LevelsWithout(id) /\ AbsIndex' = B!Unindexed(id)
         /\ id \in DOMAIN AbsIndex
         /\ AbsIndex[id].side = slots[order_index[id]].side
         /\ AbsIndex[id].price = slots[order_index[id]].price
         /\ B!OrderOf(id) = OrderIn(slots, order_index[id])
<1> DEFINE r == order_index[id]
<1>1. r \in SlotIndexes /\ slots[r].live /\ slots[r].order_id = id
  BY DEF IInv, SoundNow, Sound, Indexed
<1>2. /\ levels' = [levels EXCEPT ![slots[r].side] =
                      Stored(slots[r].side, slots[r].price,
                             LevelWithout(levels[slots[r].side][slots[r].price], r))]
      /\ order_index' = Erase(order_index, id)
      /\ slots' = Released(Unlinked(r), r)
      /\ free_head' = r
  BY DEF RemoveOrder
<1>3. Withdraws([levels EXCEPT ![slots[r].side] =
                   Stored(slots[r].side, slots[r].price,
                          LevelWithout(levels[slots[r].side][slots[r].price], r))],
                Released(Unlinked(r), r), r)
  BY <1>1, RemovalIsSound DEF IInv
<1>4. Withdraws(levels', slots', r)
  BY <1>2, <1>3
<1>5. SoundNow'
  BY RemoveOrderKeeps
<1> QED
  BY <1>2, <1>4, <1>5, RemovalSeen

\* The head of a level holds the first of its orders.
LEMMA LevelHead ==
  ASSUME IInv, NEW side \in Sides, NEW p \in DOMAIN levels[side]
  PROVE  /\ AbsLevels[side][p].orders # <<>>
         /\ Head(AbsLevels[side][p].orders) = OrderIn(slots, levels[side][p].head)
         /\ AbsLevels[side][p].total_qty = levels[side][p].total_qty
<1>1. p \in Prices /\ LevelIn(levels, side, p) = levels[side][p]
  BY HeadFacts DEF IInv, SoundNow
<1>2. PICK list : /\ Threads(list, slots, levels[side][p])
                  /\ FromIn(slots)[levels[side][p].head] = Read(slots, list)
                  /\ p \in DOMAIN levels[side] <=> list # <<>>
  BY <1>1, LevelReads DEF IInv, SoundNow
<1>3. AbsLevels[side][p] = Kept(levels[side][p], slots)
  BY DEF AbsLevels, Image
<1>4. AbsLevels[side][p].orders = Read(slots, list)
  BY <1>2, <1>3 DEF Kept
<1>5. list \in Seq(SlotIndexes) /\ list # <<>> /\ levels[side][p].head = list[1]
  BY <1>2 DEF Threads, Follows
<1>6. Len(list) \in Nat \ {0}
  BY <1>5
<1>7. Read(slots, list) \in Seq({OrderIn(slots, s) : s \in SlotIndexes})
      /\ Len(Read(slots, list)) = Len(list) /\ Read(slots, list)[1] = OrderIn(slots, list[1])
  BY <1>5, <1>6, ReadFacts
<1>8. Read(slots, list) # <<>> /\ Head(Read(slots, list)) = OrderIn(slots, list[1])
  BY <1>6, <1>7
<1> QED
  BY <1>3, <1>4, <1>5, <1>8 DEF Kept

\* A fill takes the same quantity from both calls.
LEMMA FillCall ==
  ASSUME IInv, ~Idle, NEW fill, incoming' = [incoming EXCEPT !.qty = @ - fill]
  PROVE  AbsIncoming' = [AbsIncoming EXCEPT !.qty = @ - fill]
<1>1. incoming \in Call
  BY DEF IInv, CallSound
<1>2. incoming' # NoOrder
  <2>1. "side" \in DOMAIN incoming' /\ "side" \notin DOMAIN NoOrder
    BY <1>1 DEF Call, NoOrder
  <2> QED
    BY <2>1
<1>3. ~Idle'
  BY <1>2 DEF Idle, NoOrder
<1>4. /\ incoming'.order_id = incoming.order_id /\ incoming'.side = incoming.side
      /\ incoming'.price = incoming.price /\ incoming'.qty = incoming.qty - fill
      /\ incoming'.can_rest = incoming.can_rest /\ incoming'.is_market = incoming.is_market
  BY <1>1 DEF Call
<1> DEFINE policy == IF incoming.can_rest THEN "GTC" ELSE "IOC"
           Seen(qty, name, post) ==
             [order_id |-> incoming.order_id, side |-> incoming.side, price |-> incoming.price,
              qty |-> qty, can_rest |-> incoming.can_rest, is_market |-> incoming.is_market,
              time_in_force |-> name, post_only |-> post]
<1>5. AbsIncoming = Seen(incoming.qty, policy, FALSE)
  BY DEF AbsIncoming
<1>6. AbsIncoming' = Seen(incoming.qty - fill, policy, FALSE)
  BY <1>3, <1>4 DEF AbsIncoming
<1>7. ASSUME NEW name, NEW post
      PROVE  [Seen(incoming.qty, name, post) EXCEPT !.qty = @ - fill]
               = Seen(incoming.qty - fill, name, post)
  OBVIOUS
<1> HIDE DEF Seen, policy
<1> QED
  BY <1>5, <1>6, <1>7

\* The baseline's book once the first order of a level is filled.
TakesFirst(after, side, p, fill) ==
  after = [AbsLevels EXCEPT
             ![side] = B!Stored(side, p, B!LevelAfterFill(AbsLevels[side][p], fill))]

\* The first order of a level, as the baseline sees it.
LEMMA FirstOfLevel ==
  ASSUME IInv, B!IInv, NEW side \in Sides, NEW p \in DOMAIN levels[side],
         NEW r, r = levels[side][p].head
  PROVE  /\ AbsLevels[side][p].orders \in Seq(B!Order) /\ AbsLevels[side][p].orders # <<>>
         /\ Head(AbsLevels[side][p].orders) = AbsLevels[side][p].orders[1]
         /\ AbsLevels[side][p].orders[1] = OrderIn(slots, r)
         /\ Tail(AbsLevels[side][p].orders) = Without(AbsLevels[side][p].orders, 1)
<1>1. p \in DOMAIN AbsLevels[side]
  BY DEF AbsLevels, Image
<1>2. AbsLevels[side][p].orders \in Seq(B!Order)
  BY <1>1, BSameOperators DEF B!IInv, B!WellTyped, B!LevelMap, B!Level
<1>3. /\ AbsLevels[side][p].orders # <<>>
      /\ Head(AbsLevels[side][p].orders) = OrderIn(slots, r)
  BY LevelHead
<1> DEFINE orders == AbsLevels[side][p].orders
<1> HIDE DEF orders
<1>4. orders \in Seq(B!Order) /\ orders # <<>>
  BY <1>2, <1>3 DEF orders
<1>5. Head(orders) = orders[1]
  BY <1>4
<1>6. Tail(orders) = B!RemoveAt(orders, 1)
  BY <1>4, Assumed, B!TailIsRemoveAt
<1>7. Tail(orders) = Without(orders, 1)
  BY <1>6, BSameOperators
<1> QED
  BY <1>3, <1>4, <1>5, <1>7 DEF orders

\* An order filled whole leaves the baseline's level.
LEMMA WholeFillSeen ==
  ASSUME IInv, B!IInv, NEW side \in Sides, NEW p \in DOMAIN levels[side],
         NEW r, r = levels[side][p].head, NEW fill, fill = slots[r].qty,
         Withdraws(levels', slots', r), SoundNow',
         order_index' = Erase(order_index, slots[r].order_id)
  PROVE  TakesFirst(AbsLevels', side, p, fill) /\ AbsIndex' = B!Unindexed(slots[r].order_id)
<1> DEFINE id == slots[r].order_id
           old == AbsLevels[side][p]
<1>1. /\ r \in SlotIndexes /\ slots[r].live /\ slots[r].side = side /\ slots[r].price = p
      /\ slots[r].prev = kInvalidSlot
  BY HeadFacts DEF IInv, SoundNow
<1>2. id \in DOMAIN order_index /\ order_index[id] = r /\ Indexed(slots, order_index)
  BY <1>1 DEF IInv, SoundNow, Sound, Indexed
<1>3. PICK level : /\ Lessened(levels[side][p], level, slots[r])
                   /\ Rewritten(levels, levels', side, p, level)
  BY <1>1 DEF Withdraws
<1>4. Leaves(slots, slots', r, free_head) /\ LevelsTyped(levels')
  BY DEF Withdraws, SoundNow, Sound
<1>5. Departs(AbsLevels, AbsLevels', side, p, OrderIn(slots, r), kInvalidSlot)
  <2>1. Sound(levels, slots, free_head, order_index)
    BY DEF IInv, SoundNow
  <2>2. Departs(Image(levels, slots), Image(levels', slots'), side, p, OrderIn(slots, r),
                slots[r].prev)
    BY <2>1, <1>1, <1>3, <1>4, ImageShortened
  <2> QED
    BY <2>2, <1>1, AbsNext DEF AbsLevels
<1>6. OrderLeaves(AbsLevels, AbsLevels', side, p, 1)
  BY <1>5 DEF Departs
<1>7. /\ old.orders \in Seq(B!Order) /\ old.orders # <<>>
      /\ Head(old.orders) = old.orders[1]
      /\ old.orders[1] = OrderIn(slots, r)
      /\ Tail(old.orders) = Without(old.orders, 1)
  BY FirstOfLevel
<1>8. Head(old.orders).qty = fill /\ old.orders[1].qty = fill
  BY <1>7 DEF OrderIn
<1>9. B!LevelAfterFill(old, fill)
        = [total_qty |-> old.total_qty - old.orders[1].qty, orders |-> Without(old.orders, 1)]
  BY <1>7, <1>8 DEF B!LevelAfterFill
<1>10. TakesFirst(AbsLevels', side, p, fill)
  <2> HIDE DEF old
  <2>1. AbsLevels' = [AbsLevels EXCEPT
           ![side] = Replaced(@, p, [total_qty |-> AbsLevels[side][p].total_qty
                                                     - AbsLevels[side][p].orders[1].qty,
                                     orders |-> Without(AbsLevels[side][p].orders, 1)])]
    BY <1>6 DEF OrderLeaves
  <2>2. AbsLevels' = [AbsLevels EXCEPT
           ![side] = Replaced(@, p, B!LevelAfterFill(AbsLevels[side][p], fill))]
    BY <2>1, <1>9 DEF old
  <2> QED
    BY <2>2, BSameStored DEF TakesFirst
<1>11. AbsIndex' = B!Unindexed(id)
  <2>1. AbsIndex' = Erase(AbsIndex, id)
    BY <1>2, <1>4, AbsNext, PlacesShortened DEF AbsIndex
  <2> QED
    BY <2>1, BSameOperators DEF B!Unindexed
<1> QED
  BY <1>10, <1>11

\* An order filled in part stays first in the baseline's level.
LEMMA PartFillSeen ==
  ASSUME IInv, B!IInv, NEW side \in Sides, NEW p \in DOMAIN levels[side],
         NEW r, r = levels[side][p].head, NEW fill \in Int, fill # slots[r].qty,
         LessFilled(slots, slots', r, fill), SoundNow',
         Rewritten(levels, levels', side, p, [levels[side][p] EXCEPT !.total_qty = @ - fill]),
         order_index' = order_index
  PROVE  TakesFirst(AbsLevels', side, p, fill) /\ AbsIndex' = AbsIndex
<1> DEFINE old == AbsLevels[side][p]
<1>1. Sound(levels, slots, free_head, order_index) /\ LevelsTyped(levels')
      /\ Indexed(slots, order_index)
  BY DEF IInv, SoundNow, Sound
<1>2. FirstIsFilled(AbsLevels, AbsLevels', side, p, fill)
  <2>1. FirstIsFilled(Image(levels, slots), Image(levels', slots'), side, p, fill)
    BY <1>1, ImageShrunk
  <2> QED
    BY <2>1, AbsNext DEF AbsLevels
<1>3. /\ old.orders \in Seq(B!Order) /\ old.orders # <<>>
      /\ Head(old.orders) = old.orders[1]
      /\ old.orders[1] = OrderIn(slots, r)
  BY FirstOfLevel
<1>4. Head(old.orders).qty # fill
  BY <1>3 DEF OrderIn
<1>5. B!LevelAfterFill(old, fill)
        = [total_qty |-> old.total_qty - fill, orders |-> FirstReduced(old.orders, fill)]
  BY <1>4 DEF B!LevelAfterFill, FirstReduced
<1>6. FirstReduced(old.orders, fill) # <<>>
  <2> DEFINE orders == old.orders
             first == [Head(orders) EXCEPT !.qty = @ - fill]
  <2> HIDE DEF orders, first
  <2>1. orders \in Seq(B!Order) /\ orders # <<>>
    BY <1>3 DEF orders
  <2>2. Tail(orders) \in Seq(B!Order \cup {first}) /\ <<first>> \in Seq(B!Order \cup {first})
    BY <2>1
  <2>3. Len(<<first>> \o Tail(orders)) = 1 + Len(Tail(orders)) /\ Len(Tail(orders)) \in Nat
    BY <2>2
  <2>4. <<first>> \o Tail(orders) # <<>>
    BY <2>3
  <2> QED
    BY <2>4 DEF FirstReduced, orders, first
<1>7. \A map : Put(map, p, B!LevelAfterFill(old, fill)) = Replaced(map, p, B!LevelAfterFill(old, fill))
  BY <1>5, <1>6 DEF Replaced
<1>8. AbsLevels' = [AbsLevels EXCEPT ![side] = Put(@, p, B!LevelAfterFill(old, fill))]
  <2>1. AbsLevels' = [AbsLevels EXCEPT
           ![side] = Put(@, p, [total_qty |-> AbsLevels[side][p].total_qty - fill,
                                orders |-> FirstReduced(AbsLevels[side][p].orders, fill)])]
    BY <1>2 DEF FirstIsFilled
  <2> QED
    BY <2>1, <1>5
<1>9. B!Stored(side, p, B!LevelAfterFill(old, fill))
        = Put(AbsLevels[side], p, B!LevelAfterFill(old, fill))
  BY <1>7, BSameStored
<1>10. TakesFirst(AbsLevels', side, p, fill)
  BY <1>8, <1>9 DEF TakesFirst
<1>11. AbsIndex' = AbsIndex
  BY <1>1, AbsNext, PlacesKept DEF AbsIndex
<1> QED
  BY <1>10, <1>11

\* A step of the loop is one of the baseline's.
LEMMA FillSeen ==
  ASSUME IInv, B!IInv, Fill
  PROVE  B!Fill
<1> DEFINE side == OtherSide(incoming.side)
           price == BestPrice(side)
           level == levels[side][price]
           slot == level.head
           resting == slots[slot]
           fill == Smaller(incoming.qty, resting.qty)
           seen == Head(AbsLevels[side][price].orders)
<1>1. /\ SoundNow /\ incoming.qty \in Int /\ incoming.side \in Sides /\ ~Idle /\ Matching
  BY DEF IInv, CallSound, Fill, Call
<1>2. side \in Sides /\ DOMAIN levels[side] # {}
  BY <1>1 DEF Matching, OtherSide, Sides
<1>3. price \in DOMAIN levels[side]
  BY <1>1, <1>2, BestPriceExists
<1>4. slot \in SlotIndexes /\ resting.live /\ resting.side = side /\ resting.price = price
  BY <1>1, <1>2, <1>3, HeadFacts DEF SoundNow
<1>5. resting.qty \in Int
  BY <1>1, <1>4, LiveHasLevel DEF SoundNow
<1>6. fill \in Int
  BY <1>1, <1>5 DEF Smaller
<1>7. /\ incoming' = [incoming EXCEPT !.qty = @ - fill]
      /\ trades' = Append(trades, [resting_order_id |-> resting.order_id,
                                   price |-> resting.price, qty |-> fill])
      /\ traded_qty' = traded_qty + fill
      /\ \/ /\ fill < resting.qty
            /\ levels' = [levels EXCEPT ![side][price].total_qty = @ - fill]
            /\ slots' = [slots EXCEPT ![slot].qty = @ - fill]
            /\ UNCHANGED <<free_head, order_index>>
         \/ /\ fill = resting.qty
            /\ levels' = [levels EXCEPT ![side] =
                            Stored(side, price, LevelAfterPop(level, slot))]
            /\ order_index' = Erase(order_index, resting.order_id)
            /\ slots' = Released(PrevSet(slots, resting.next, kInvalidSlot), slot)
            /\ free_head' = slot
  BY DEF Fill
<1>8. SoundNow'
  BY FillPreserves DEF IInv
<1>9. seen = OrderIn(slots, slot)
  BY <1>2, <1>3, LevelHead
<1>10. /\ seen.order_id = resting.order_id /\ seen.price = resting.price
       /\ seen.qty = resting.qty
  BY <1>9 DEF OrderIn
<1> HIDE DEF side, price, seen
<1>11. /\ TakesFirst(AbsLevels', side, price, fill)
       /\ AbsIndex' = IF fill = resting.qty THEN B!Unindexed(resting.order_id) ELSE AbsIndex
  <2>1. CASE /\ fill < resting.qty
             /\ levels' = [levels EXCEPT ![side][price].total_qty = @ - fill]
             /\ slots' = [slots EXCEPT ![slot].qty = @ - fill]
             /\ UNCHANGED <<free_head, order_index>>
    <3>0. fill # resting.qty
      BY <2>1, <1>5, <1>6
    <3> HIDE DEF fill
    <3>1. /\ Rewritten(levels, [levels EXCEPT ![side][price].total_qty = @ - fill], side, price,
                      [levels[side][price] EXCEPT !.total_qty = @ - fill])
          /\ LessFilled(slots, [slots EXCEPT ![slot].qty = @ - fill], slot, fill)
      BY <1>1, <1>2, <1>3, <1>6, PartialFillIsSound
    <3>2. /\ Rewritten(levels, levels', side, price,
                       [levels[side][price] EXCEPT !.total_qty = @ - fill])
          /\ LessFilled(slots, slots', slot, fill)
      BY <2>1, <3>1
    <3>3. TakesFirst(AbsLevels', side, price, fill) /\ AbsIndex' = AbsIndex
      BY <1>2, <1>3, <1>6, <1>8, <2>1, <3>0, <3>2, PartFillSeen
    <3> QED
      BY <3>0, <3>3
  <2>2. CASE /\ fill = resting.qty
             /\ levels' = [levels EXCEPT ![side] =
                             Stored(side, price, LevelAfterPop(level, slot))]
             /\ order_index' = Erase(order_index, resting.order_id)
             /\ slots' = Released(PrevSet(slots, resting.next, kInvalidSlot), slot)
             /\ free_head' = slot
    <3> HIDE DEF fill
    <3>1. Withdraws([levels EXCEPT ![side] = Stored(side, price, LevelAfterPop(level, slot))],
                    Released(PrevSet(slots, resting.next, kInvalidSlot), slot), slot)
      BY <1>1, <1>2, <1>3, PopIsSound
    <3>2. Withdraws(levels', slots', slot)
      BY <2>2, <3>1
    <3>3. TakesFirst(AbsLevels', side, price, fill)
          /\ AbsIndex' = B!Unindexed(resting.order_id)
      BY <1>2, <1>3, <1>8, <2>2, <3>2, WholeFillSeen
    <3> QED
      BY <2>2, <3>3
  <2> QED
    BY <1>7, <2>1, <2>2
<1>12. AbsIncoming' = [AbsIncoming EXCEPT !.qty = @ - fill]
  <2> HIDE DEF fill
  <2> QED
    BY <1>1, <1>7, FillCall
<1>13. /\ ~B!Idle /\ B!Matching /\ AbsIncoming.side = incoming.side /\ AbsIncoming.qty = incoming.qty
  BY <1>1, BIdle, BMatching
<1>14. B!OtherSide(AbsIncoming.side) = side /\ B!BestPrice(side) = price
  BY <1>2, <1>13, BSameOperators, BBestPrice DEF side, price
<1>15. B!Smaller(AbsIncoming.qty, seen.qty) = fill
  BY <1>10, <1>13, BSameOperators
<1> HIDE DEF fill
<1>16. /\ trades' = Append(trades, [resting_order_id |-> seen.order_id,
                                    price |-> seen.price, qty |-> fill])
       /\ AbsLevels' = [AbsLevels EXCEPT
            ![side] = B!Stored(side, price, B!LevelAfterFill(AbsLevels[side][price], fill))]
       /\ AbsIndex' = IF fill = seen.qty THEN B!Unindexed(seen.order_id) ELSE AbsIndex
  BY <1>7, <1>10, <1>11 DEF TakesFirst
<1> QED
  BY <1>7, <1>12, <1>13, <1>14, <1>15, <1>16 DEF B!Fill, seen

\* A call that returns has returned in the baseline.
LEMMA CallOver ==
  ASSUME incoming' = NoOrder
  PROVE  Idle' /\ AbsIncoming' = NoOrder /\ AbsIncoming' = B!NoOrder
<1>1. Idle'
  BY DEF Idle, NoOrder
<1> QED
  BY <1>1, BSameOperators DEF AbsIncoming, NoOrder

\* A remainder that rests is the baseline's, as long as a slot is free.
LEMMA RestSeen ==
  ASSUME IInv, B!IInv, Rest, free_head # kInvalidSlot
  PROVE  B!Return
<1> DEFINE side == incoming.side
           p == incoming.price
           old == LevelAt(side, p)
           f == free_head
           lv == [levels EXCEPT ![side] = Put(@, p, LevelWith(old, incoming.qty))]
           new == [order_id |-> incoming.order_id, price |-> incoming.price,
                   qty |-> incoming.qty]
<1>1. /\ SoundNow /\ ~Idle /\ ~Matching /\ incoming.qty > 0 /\ incoming.can_rest
      /\ incoming' = NoOrder /\ traded_qty' = traded_qty /\ trades' = trades
  BY DEF IInv, Rest, Rests
<1>2. /\ levels' = lv /\ slots' = Allocated(old, incoming)
      /\ free_head' = slots[free_head].free_next
      /\ order_index' = Put(order_index, incoming.order_id, free_head)
  BY DEF Rest, AddRestingOrder
<1>3. /\ incoming.order_id \in OrderIds \ DOMAIN order_index /\ side \in Sides
      /\ p \in Prices /\ incoming.qty \in Int
  BY <1>1 DEF IInv, CallSound, Call
<1>4. f \in SlotIndexes /\ ~slots[f].live /\ Indexed(slots, order_index)
  BY <1>1, FirstIsFree DEF SoundNow, Sound
<1>5. old = LevelIn(levels, side, p)
  BY DEF LevelAt, LevelIn
<1>6. /\ Arrives(slots, slots', f, incoming, old.tail)
      /\ Increased(old, LevelWith(old, incoming.qty), f, incoming.qty)
      /\ Rewritten(levels, levels', side, p, LevelWith(old, incoming.qty))
  <2> HIDE DEF old
  <2>1. /\ Arrives(slots, Allocated(old, incoming), f, incoming, old.tail)
        /\ Increased(old, LevelWith(old, incoming.qty), f, incoming.qty)
        /\ Rewritten(levels, lv, side, p, LevelWith(old, incoming.qty))
    BY <1>1, <1>3, AppendIsSound DEF old
  <2> QED
    BY <1>2, <2>1
<1>7. SoundNow'
  BY RestPreserves DEF IInv
<1>8. OrderJoins(AbsLevels, AbsLevels', side, p, incoming)
  <2> HIDE DEF old
  <2>1. Sound(levels, slots, free_head, order_index)
        /\ Sound(levels', slots', free_head', order_index')
    BY <1>1, <1>7 DEF SoundNow
  <2>2. OrderJoins(Image(levels, slots), Image(levels', slots'), side, p, incoming)
    BY <1>3, <1>4, <1>5, <1>6, <2>1, ImageLengthened
  <2> QED
    BY <2>2, AbsNext DEF AbsLevels
<1>9. AbsIndex' = Put(AbsIndex, incoming.order_id, [side |-> side, price |-> p])
  <2> HIDE DEF old
  <2> QED
    BY <1>2, <1>3, <1>4, <1>6, AbsNext, PlacesLengthened DEF AbsIndex
<1>10. B!LevelAt(side, p) = KeptAt(AbsLevels[side], p)
  BY DEF B!LevelAt, KeptAt
<1>11. B!LevelWith(B!LevelAt(side, p), new)
         = [total_qty |-> KeptAt(AbsLevels[side], p).total_qty + incoming.qty,
            orders |-> Append(KeptAt(AbsLevels[side], p).orders, Entry(incoming))]
  <2>1. new = Entry(incoming) /\ new.qty = incoming.qty
    BY DEF Entry
  <2> HIDE DEF new
  <2> QED
    BY <1>10, <2>1 DEF B!LevelWith
<1>12. AbsLevels' = [AbsLevels EXCEPT
         ![side] = Put(@, p, B!LevelWith(B!LevelAt(side, p), new))]
  BY <1>8, <1>11 DEF OrderJoins
<1>13. ~B!Idle /\ ~B!Matching /\ AbsIncoming' = B!NoOrder
  BY <1>1, BIdle, BMatching, CallOver
<1>14. /\ AbsIncoming.order_id = incoming.order_id /\ AbsIncoming.side = side
       /\ AbsIncoming.price = p /\ AbsIncoming.qty = incoming.qty
       /\ AbsIncoming.can_rest = incoming.can_rest
  BY <1>1, BIdle
<1>15. new = [order_id |-> AbsIncoming.order_id, price |-> AbsIncoming.price,
              qty |-> AbsIncoming.qty]
  BY <1>14
<1> HIDE DEF new, side, p
<1> QED
  BY <1>1, <1>9, <1>12, <1>13, <1>14, <1>15, BSameOperators DEF B!Return

\* A return without a remainder is one of the baseline's.
LEMMA ReturnSeen ==
  ASSUME IInv, B!IInv, Return
  PROVE  B!Return
<1>1. /\ ~Idle /\ ~Matching /\ ~(incoming.qty > 0 /\ incoming.can_rest)
      /\ incoming' = NoOrder /\ traded_qty' = traded_qty /\ trades' = trades
      /\ levels' = levels /\ slots' = slots /\ order_index' = order_index
  BY DEF Return, Rests, book
<1>2. AbsLevels' = AbsLevels /\ AbsIndex' = AbsIndex
  BY <1>1, AbsNext DEF AbsLevels, AbsIndex
<1>3. ~B!Idle /\ ~B!Matching /\ AbsIncoming' = B!NoOrder
  BY <1>1, BIdle, BMatching, CallOver
<1>4. AbsIncoming.qty = incoming.qty /\ AbsIncoming.can_rest = incoming.can_rest
  BY <1>1, BIdle
<1> QED
  BY <1>1, <1>2, <1>3, <1>4 DEF B!Return

\* The order withdrawn and the order modified are the baseline's.
LEMMA CancelSeen ==
  ASSUME IInv, B!IInv, NEW id \in OrderIds, id \in DOMAIN order_index, Cancel(id)
  PROVE  B!Cancel(id)
<1>1. /\ Idle /\ trades' = <<>> /\ traded_qty' = traded_qty /\ incoming' = incoming
      /\ RemoveOrder(id)
  BY DEF Cancel
<1>2. /\ AbsLevels' = B!LevelsWithout(id) /\ AbsIndex' = B!Unindexed(id)
      /\ id \in DOMAIN AbsIndex
  BY <1>1, RemoveOrderSeen
<1>3. AbsIncoming' = AbsIncoming
  BY <1>1 DEF AbsIncoming, Idle, NoOrder
<1>4. B!Idle
  BY <1>1, BIdle
<1> QED
  BY <1>1, <1>2, <1>3, <1>4 DEF B!Cancel

\* The prediction reads nothing of a level but its total.
LEMMA BCrossing ==
  ASSUME NEW side \in Sides, NEW limit, NEW qty
  PROVE  B!MaxCrossingQty(side, limit, qty) = MaxCrossingQty(side, limit, qty)
<1> DEFINE other == OtherSide(side)
           mine == levels[other]
           base == AbsLevels[other]
           Body(map, k, before) ==
             IF k = 0 THEN 0
             ELSE IF Ranked(other, k) \in DOMAIN map /\ Crosses(side, limit, Ranked(other, k))
                  THEN before + Smaller(qty - before, map[Ranked(other, k)].total_qty)
                  ELSE before
           Is(map, f) == f = [k \in 0..MaxPrice |-> Body(map, k, f[k - 1])]
<1>1. other \in Sides
  BY DEF OtherSide, Sides
<1>2. DOMAIN base = DOMAIN mine /\ \A p \in DOMAIN mine : base[p].total_qty = mine[p].total_qty
  BY <1>1 DEF AbsLevels, Image, Kept
<1>3. \A k, before : Body(base, k, before) = Body(mine, k, before)
  BY <1>2
<1>4. \A f : Is(base, f) <=> Is(mine, f)
  BY <1>3
<1>5. MaxCrossingQty(side, limit, qty) = (CHOOSE f : Is(mine, f))[MaxPrice]
  BY DEF MaxCrossingQty
<1>6. B!MaxCrossingQty(side, limit, qty) = (CHOOSE f : Is(base, f))[MaxPrice]
  BY BSameOperators DEF B!MaxCrossingQty
<1> HIDE DEF Is
<1>7. (CHOOSE f : Is(base, f)) = (CHOOSE f : Is(mine, f))
  BY <1>4
<1> QED
  BY <1>5, <1>6, <1>7

\* No more crosses than is asked for.
LEMMA CrossingBounded ==
  ASSUME B!AdmissionInv, NEW side \in Sides, NEW limit, NEW qty \in Nat
  PROVE  MaxCrossingQty(side, limit, qty) \in 0..qty
<1>1. B!WellTyped(AbsLevels, AbsIndex) /\ B!TotalsExact(AbsLevels) /\ side \in B!Sides
  BY BSameOperators DEF B!AdmissionInv, B!IInv
<1>2. B!CrossingQty(AbsLevels[B!OtherSide(side)], side, limit, qty) \in 0..qty
  BY <1>1, Assumed, B!MaxCrossingIsTaken
<1>3. B!MaxCrossingQty(side, limit, qty) \in 0..qty
  BY <1>2, Assumed, B!PredictionOfLevels
<1> QED
  BY <1>3, BCrossing

\* Both engines read a request alike.
LEMMA BSameRequests ==
  /\ \A add : B!MatchPrice(add) = MatchPrice(add)
  /\ \A add : B!MatchPolicy(add) = MatchPolicy(add)
  /\ \A add : B!CanRest(add) <=> CanRest(add)
BY DEF B!MatchPrice, MatchPrice, B!MatchPolicy, MatchPolicy, B!CanRest, CanRest

\* The pooled engine refuses an order for the baseline's reason, or for its pool.
LEMMA AddErrorSeen ==
  ASSUME IInv, B!AdmissionInv, NEW add \in Adds
  PROVE  AddError(add) =
           IF B!AddError(add) # "None" THEN B!AddError(add)
           ELSE IF OutOfSlots(add, MaxCrossingQty(add.side, MatchPrice(add), add.qty))
                THEN "CapacityExceeded"
           ELSE "None"
<1> DEFINE side     == add.side
           price    == MatchPrice(add)
           crossing == MaxCrossingQty(side, price, add.qty)
<1>1. /\ side \in Sides /\ add.qty \in 0..MaxQty /\ MaxQty \in Nat
  BY PoolAssumption DEF Adds
<1>2. crossing \in 0..add.qty
  <2> HIDE DEF side, price
  <2>1. add.qty \in Nat
    BY <1>1
  <2> QED
    BY <1>1, <2>1, CrossingBounded
<1>3. B!MaxCrossingQty(side, price, add.qty) = crossing
  BY <1>1, BCrossing
<1>4. DOMAIN AbsIndex = DOMAIN order_index /\ DOMAIN AbsLevels[side] = DOMAIN levels[side]
  BY <1>1 DEF AbsIndex, Places, AbsLevels, Image
<1> DEFINE badPrice  == ~add.is_market /\ add.price <= 0
           takes     == add.is_market /\ add.post_only
           badQty    == add.qty <= 0
           known     == add.order_id \in DOMAIN order_index
           short     == MatchPolicy(add) = "FOK" /\ crossing < add.qty
           crosses   == add.post_only /\ crossing # 0
           overflows == \/ /\ CanRest(add)
                           /\ AddWouldOverflow(LevelAt(side, price).total_qty, add.qty - crossing)
                        \/ AddWouldOverflow(traded_qty, crossing)
           overflows2 == \/ /\ CanRest(add) /\ price \in DOMAIN AbsLevels[side]
                            /\ AddWouldOverflow(AbsLevels[side][price].total_qty,
                                                add.qty - crossing)
                         \/ AddWouldOverflow(traded_qty, crossing)
           First(full, last) ==
             IF badPrice THEN "InvalidPrice"
             ELSE IF takes THEN "WouldTakeLiquidity"
             ELSE IF badQty THEN "InvalidQuantity"
             ELSE IF known THEN "DuplicateOrderId"
             ELSE IF short THEN "InsufficientLiquidity"
             ELSE IF crosses THEN "WouldTakeLiquidity"
             ELSE IF full THEN "QuantityOverflow"
             ELSE last
<1>5. overflows <=> overflows2
  <2>1. CASE price \in DOMAIN levels[side]
    <3>1. AbsLevels[side][price].total_qty = LevelAt(side, price).total_qty
      BY <2>1, <1>1 DEF LevelAt, AbsLevels, Image, Kept
    <3> QED
      BY <2>1, <3>1, <1>4
  <2>2. CASE price \notin DOMAIN levels[side]
    <3>1. LevelAt(side, price).total_qty = 0
      BY <2>2 DEF LevelAt, NewLevel
    <3>2. ~AddWouldOverflow(0, add.qty - crossing)
      BY <1>1, <1>2 DEF AddWouldOverflow
    <3> QED
      BY <2>2, <3>1, <3>2, <1>4
  <2> QED
    BY <2>1, <2>2
<1>6. AddError(add) = First(overflows, IF OutOfSlots(add, crossing) THEN "CapacityExceeded"
                                       ELSE "None")
  BY DEF AddError
<1>7. B!AddError(add) = First(overflows2, "None")
  BY <1>3, <1>4, BSameOperators, BSameRequests DEF B!AddError
<1> HIDE DEF badPrice, takes, badQty, known, short, crosses, overflows, overflows2
<1>8. First(overflows, "None") = First(overflows2, "None")
  BY <1>5
<1> QED
  BY <1>5, <1>6, <1>7, <1>8

\* The index finds in the baseline the order that is in the slot.
LEMMA OrderFound ==
  ASSUME IInv, B!IInv, NEW id \in DOMAIN order_index
  PROVE  /\ id \in DOMAIN AbsIndex
         /\ AbsIndex[id].side = slots[order_index[id]].side
         /\ AbsIndex[id].price = slots[order_index[id]].price
         /\ B!OrderOf(id) = OrderIn(slots, order_index[id])
<1> DEFINE r == order_index[id]
           side == slots[r].side
           p == slots[r].price
           old == AbsLevels[side][p]
<1>1. r \in SlotIndexes /\ slots[r].live /\ slots[r].order_id = id
  BY DEF IInv, SoundNow, Sound, Indexed
<1>2. /\ side \in Sides /\ p \in Prices /\ r \in At(slots, side, p) /\ p \in DOMAIN levels[side]
      /\ LevelIn(levels, side, p) = levels[side][p]
  BY <1>1, LiveHasLevel DEF IInv, SoundNow
<1>3. PICK list : /\ Threads(list, slots, levels[side][p])
                  /\ Members(list) = At(slots, side, p)
                  /\ FromIn(slots)[levels[side][p].head] = Read(slots, list)
  <2> HIDE DEF side, p
  <2> QED
    BY <1>2, LevelReads DEF IInv, SoundNow
<1>4. old.orders = Read(slots, list) /\ p \in DOMAIN AbsLevels[side]
  BY <1>2, <1>3 DEF AbsLevels, Image, Kept
<1>5. PICK i \in DOMAIN list : list[i] = r
  BY <1>2, <1>3 DEF Members
<1>6. list \in Seq(SlotIndexes) /\ DOMAIN list = 1..Len(list)
  BY <1>3 DEF Threads, Follows
<1>7. old.orders[i] = OrderIn(slots, r) /\ i \in DOMAIN old.orders
  BY <1>4, <1>5, <1>6 DEF Read
<1>8. B!HeldOnce(old.orders, side, p, AbsIndex)
  BY <1>2, <1>4, BSameOperators DEF B!IInv, B!Indexed
<1>9. old.orders[i].order_id = id
  BY <1>1, <1>7 DEF OrderIn
<1> HIDE DEF old
<1>10. B!Position(old.orders, id) = i
  BY <1>7, <1>8, <1>9 DEF B!Position, B!HeldOnce
<1>11. id \in DOMAIN AbsIndex /\ AbsIndex[id].side = side /\ AbsIndex[id].price = p
  BY DEF AbsIndex, Places
<1> QED
  BY <1>7, <1>10, <1>11 DEF B!OrderOf, old

\* Both engines refuse a replacement for the same reason.
LEMMA ModifyErrorSeen ==
  ASSUME IInv, B!AdmissionInv, NEW id, NEW price, NEW qty
  PROVE  ModifyError(id, price, qty) = B!ModifyError(id, price, qty)
<1>1. DOMAIN AbsIndex = DOMAIN order_index
  BY DEF AbsIndex, Places
<1>2. CASE id \in DOMAIN order_index
  <2> DEFINE r == order_index[id]
             side == slots[r].side
             crossing == MaxCrossingQty(side, price, qty)
  <2>1. side \in Sides
    BY <1>2, LiveHasLevel DEF IInv, SoundNow, Sound, Indexed
  <2>2. /\ AbsIndex[id].side = side /\ AbsIndex[id].price = slots[r].price
        /\ B!OrderOf(id).qty = slots[r].qty
    BY <1>2, OrderFound DEF OrderIn, B!AdmissionInv
  <2>3. B!MaxCrossingQty(side, price, qty) = crossing
    BY <2>1, BCrossing
  <2>4. B!LevelAt(side, price).total_qty = LevelAt(side, price).total_qty
    BY <2>1 DEF B!LevelAt, LevelAt, AbsLevels, Image, Kept, NewLevel
  <2> HIDE DEF side, crossing
  <2>5. \A a, b : B!AddWouldOverflow(a, b) <=> AddWouldOverflow(a, b)
    BY BSameOperators
  <2> QED
    BY <1>1, <1>2, <2>2, <2>3, <2>4, <2>5 DEF B!ModifyError, ModifyError, side, crossing
<1>3. CASE id \notin DOMAIN order_index
  BY <1>1, <1>3 DEF B!ModifyError, ModifyError
<1> QED
  BY <1>2, <1>3

\* The order the baseline runs for an admitted add: what the admission alone looks at
\* is left out of it, as in `incoming`.
Plain(add) ==
  [order_id |-> add.order_id, side |-> add.side, price |-> add.price, qty |-> add.qty,
   is_market |-> add.is_market, time_in_force |-> IF CanRest(add) THEN "GTC" ELSE "IOC",
   post_only |-> FALSE]

\* What a request whose policy has been judged says.
LEMMA PlainFacts ==
  ASSUME NEW add \in Adds
  PROVE  /\ Plain(add) \in Adds /\ Plain(add).order_id = add.order_id
         /\ Plain(add).side = add.side /\ Plain(add).price = add.price
         /\ Plain(add).qty = add.qty /\ Plain(add).is_market = add.is_market
         /\ Plain(add).time_in_force = (IF CanRest(add) THEN "GTC" ELSE "IOC")
         /\ Plain(add).post_only = FALSE
         /\ MatchPrice(Plain(add)) = MatchPrice(add)
         /\ CanRest(Plain(add)) <=> CanRest(add)
         /\ MatchPolicy(Plain(add)) # "FOK"
<1>1. /\ add.order_id \in OrderIds /\ add.side \in Sides /\ add.price \in 0..MaxPrice
      /\ add.qty \in Quantities /\ add.is_market \in BOOLEAN
      /\ add.time_in_force \in Policies
  BY DEF Adds
<1>2. (IF CanRest(add) THEN "GTC" ELSE "IOC") \in Policies
  BY DEF Policies
<1>3. /\ Plain(add).order_id = add.order_id
      /\ Plain(add).side = add.side /\ Plain(add).price = add.price
      /\ Plain(add).qty = add.qty /\ Plain(add).is_market = add.is_market
      /\ Plain(add).time_in_force = (IF CanRest(add) THEN "GTC" ELSE "IOC")
      /\ Plain(add).post_only = FALSE
  BY DEF Plain
<1>4. Plain(add) \in Adds
  BY <1>1, <1>2 DEF Plain, Adds
<1>5. MatchPrice(Plain(add)) = MatchPrice(add)
  BY <1>3 DEF MatchPrice
<1>6. MatchPolicy(Plain(add)) = IF add.is_market THEN "IOC" ELSE IF CanRest(add) THEN "GTC" ELSE "IOC"
  BY <1>3 DEF MatchPolicy
<1>7. CanRest(Plain(add)) <=> CanRest(add)
  BY <1>3, <1>6 DEF CanRest
<1> QED
  BY <1>3, <1>4, <1>5, <1>6, <1>7

\* A request that is admitted is admitted once its policy has been judged.
LEMMA PlainAdmitted ==
  ASSUME NEW add \in Adds, B!AddError(add) = "None"
  PROVE  B!AddError(Plain(add)) = "None"
<1> DEFINE plain == Plain(add)
<1>1. /\ plain.order_id = add.order_id /\ plain.side = add.side /\ plain.price = add.price
      /\ plain.qty = add.qty /\ plain.is_market = add.is_market /\ plain.post_only = FALSE
      /\ B!MatchPrice(plain) = B!MatchPrice(add)
      /\ B!CanRest(plain) <=> B!CanRest(add)
      /\ B!MatchPolicy(plain) # "FOK"
  BY PlainFacts, BSameRequests
<1> HIDE DEF plain
<1> DEFINE price == B!MatchPrice(add)
           crossing == B!MaxCrossingQty(add.side, price, add.qty)
           overflows == \/ /\ B!CanRest(add) /\ price \in DOMAIN AbsLevels[add.side]
                           /\ B!AddWouldOverflow(AbsLevels[add.side][price].total_qty,
                                                 add.qty - crossing)
                        \/ B!AddWouldOverflow(traded_qty, crossing)
<1> HIDE DEF price, crossing, overflows
<1>3. /\ ~(~add.is_market /\ add.price <= 0) /\ ~(add.qty <= 0)
      /\ add.order_id \notin DOMAIN AbsIndex /\ ~overflows
  BY DEF B!AddError, price, crossing, overflows
<1>4. B!MaxCrossingQty(plain.side, B!MatchPrice(plain), plain.qty) = crossing
  BY <1>1 DEF crossing, price
<1>5. ~ \/ /\ B!CanRest(plain) /\ B!MatchPrice(plain) \in DOMAIN AbsLevels[plain.side]
           /\ B!AddWouldOverflow(AbsLevels[plain.side][B!MatchPrice(plain)].total_qty,
                                 plain.qty - crossing)
        \/ B!AddWouldOverflow(traded_qty, crossing)
  BY <1>1, <1>3 DEF overflows, price
<1>2. B!AddError(plain) = "None"
  BY <1>1, <1>3, <1>4, <1>5 DEF B!AddError
<1> QED
  BY <1>2 DEF plain

\* An admitted call begins as one of the baseline's.
LEMMA AddSeen ==
  ASSUME IInv, B!AdmissionInv, NEW add \in AddRequests, Add(add), AddError(add) = "None"
  PROVE  Plain(add) \in Adds /\ B!Add(Plain(add)) /\ ~Idle'
<1>1. add \in Adds
  BY PoolAssumption
<1>2. /\ Idle /\ trades' = <<>> /\ error' = "None" /\ levels' = levels /\ slots' = slots
      /\ free_head' = free_head /\ order_index' = order_index /\ traded_qty' = traded_qty
      /\ incoming' = [order_id |-> add.order_id, side |-> add.side,
                        price |-> MatchPrice(add), qty |-> add.qty, can_rest |-> CanRest(add),
                        is_market |-> add.is_market]
  BY DEF Add, book
<1>3. B!AddError(add) = "None"
  BY <1>1, AddErrorSeen
<1>4. B!AddError(Plain(add)) = "None"
  BY <1>1, <1>3, PlainAdmitted
<1>5. /\ incoming'.order_id = add.order_id /\ incoming'.side = add.side
      /\ incoming'.price = MatchPrice(add) /\ incoming'.qty = add.qty
      /\ incoming'.can_rest = CanRest(add) /\ incoming'.is_market = add.is_market
  BY <1>2
<1>6. ~Idle'
  <2>1. "side" \in DOMAIN incoming' /\ "side" \notin DOMAIN NoOrder
    BY <1>2 DEF NoOrder
  <2>2. incoming' # NoOrder
    BY <2>1
  <2> QED
    BY <2>2 DEF Idle, NoOrder
<1>7. AbsIncoming' = [order_id |-> add.order_id, side |-> add.side, price |-> MatchPrice(add),
                      qty |-> add.qty, can_rest |-> CanRest(add), is_market |-> add.is_market,
                      time_in_force |-> IF CanRest(add) THEN "GTC" ELSE "IOC",
                      post_only |-> FALSE]
  BY <1>5, <1>6 DEF AbsIncoming
<1> DEFINE plain == Plain(add)
<1>8. /\ plain \in Adds /\ plain.order_id = add.order_id /\ plain.side = add.side
      /\ plain.qty = add.qty /\ plain.is_market = add.is_market
      /\ plain.time_in_force = (IF CanRest(add) THEN "GTC" ELSE "IOC")
      /\ plain.post_only = FALSE
      /\ B!MatchPrice(plain) = MatchPrice(add)
      /\ B!CanRest(plain) <=> CanRest(add)
  BY <1>1, PlainFacts, BSameRequests
<1>9. B!CanRest(plain) = CanRest(add)
  <2> HIDE DEF plain
  <2>1. B!CanRest(plain) <=> CanRest(add)
    BY <1>8
  <2> QED
    BY <2>1, Zenon DEF B!CanRest, CanRest
<1>10. AbsLevels' = AbsLevels /\ AbsIndex' = AbsIndex
  BY <1>2, AbsNext DEF AbsLevels, AbsIndex
<1>11. B!Idle
  BY <1>2, BIdle
<1> HIDE DEF plain
<1>12. AbsIncoming' = [order_id |-> plain.order_id, side |-> plain.side,
                       price |-> B!MatchPrice(plain), qty |-> plain.qty,
                       can_rest |-> B!CanRest(plain), is_market |-> plain.is_market,
                       time_in_force |-> plain.time_in_force, post_only |-> plain.post_only]
  BY <1>7, <1>8, <1>9
<1>13. B!Add(plain)
  BY <1>2, <1>4, <1>10, <1>11, <1>12 DEF B!Add, plain
<1> QED
  BY <1>6, <1>8, <1>13 DEF plain

\* An admitted replacement begins as one of the baseline's.
LEMMA ModifySeen ==
  ASSUME IInv, B!AdmissionInv, NEW id \in OrderIds, NEW price \in 0..MaxPrice,
         NEW qty \in Quantities, Modify(id, price, qty), ModifyError(id, price, qty) = "None"
  PROVE  /\ B!Modify(id, price, qty) /\ ~Idle' /\ error' = "None"
         /\ id \in DOMAIN order_index /\ RemoveOrder(id)
<1>1. /\ Idle /\ trades' = <<>> /\ error' = "None" /\ traded_qty' = traded_qty
      /\ RemoveOrder(id)
      /\ incoming' = [order_id |-> id, side |-> slots[order_index[id]].side, price |-> price,
                      qty |-> qty, can_rest |-> TRUE, is_market |-> FALSE]
  BY DEF Modify
<1>2. id \in DOMAIN order_index
  BY DEF ModifyError
<1>3. B!IInv
  BY DEF B!AdmissionInv
<1>4. /\ AbsLevels' = B!LevelsWithout(id) /\ AbsIndex' = B!Unindexed(id)
      /\ AbsIndex[id].side = slots[order_index[id]].side
  BY <1>1, <1>2, <1>3, RemoveOrderSeen
<1>5. B!ModifyError(id, price, qty) = "None" /\ B!Idle
  BY <1>1, ModifyErrorSeen, BIdle
<1>6. ~Idle'
  <2>1. "side" \in DOMAIN incoming' /\ "side" \notin DOMAIN NoOrder
    BY <1>1 DEF NoOrder
  <2>2. incoming' # NoOrder
    BY <2>1
  <2> QED
    BY <2>2 DEF Idle, NoOrder
<1>7. /\ incoming'.order_id = id /\ incoming'.side = slots[order_index[id]].side
      /\ incoming'.price = price /\ incoming'.qty = qty
      /\ incoming'.can_rest = TRUE /\ incoming'.is_market = FALSE
  BY <1>1
<1>8. AbsIncoming' = [order_id |-> id, side |-> AbsIndex[id].side, price |-> price,
                      qty |-> qty, can_rest |-> TRUE, is_market |-> FALSE,
                      time_in_force |-> "GTC", post_only |-> FALSE]
  BY <1>4, <1>6, <1>7 DEF AbsIncoming
<1> QED
  BY <1>1, <1>2, <1>4, <1>5, <1>6, <1>8 DEF B!Modify

\* What is not a step of the baseline: a refused call, and the pool reserved again.
LEMMA RejectSeen ==
  ASSUME IInv, B!AdmissionInv, Idle, NEW reason, Reject(reason)
  PROVE  /\ B!AdmissionInv' /\ Idle' /\ trades' = <<>> /\ error' = reason
         /\ AbsLevels' = AbsLevels /\ traded_qty' = traded_qty
<1>1. /\ levels' = levels /\ slots' = slots /\ order_index' = order_index
      /\ traded_qty' = traded_qty /\ incoming' = incoming /\ trades' = <<>> /\ error' = reason
      /\ free_head' = free_head
  BY DEF Reject, book
<1>2. /\ AbsLevels' = AbsLevels /\ AbsIndex' = AbsIndex /\ AbsIncoming' = AbsIncoming
  BY <1>1, AbsNext DEF AbsLevels, AbsIndex, AbsIncoming, Idle, NoOrder
<1>3. B!Idle
  BY BIdle
<1>4. B!Reject("None") /\ "None" \in B!Errors
  BY <1>1, <1>2 DEF B!Reject, B!Errors
<1>5. B!AdmissionInv'
  BY <1>3, <1>4, Assumed, B!RejectAdmission
<1>6. Idle'
  BY <1>1 DEF Idle, NoOrder
<1> QED
  BY <1>1, <1>2, <1>5, <1>6

\* The pool reserved again is the empty baseline.
LEMMA ReserveSeen ==
  ASSUME IInv, B!AdmissionInv, Reserve
  PROVE  /\ B!AdmissionInv' /\ Idle' /\ \A side \in Sides : AbsLevels'[side] = <<>>
         /\ traded_qty' = 0
<1>1. /\ levels' = EmptyLevels /\ order_index' = EmptyIndex /\ incoming' = incoming
      /\ trades' = trades /\ traded_qty' = 0 /\ Idle
  BY DEF Reserve
<1>2. Idle' /\ AbsIncoming' = NoOrder
  BY <1>1 DEF Idle, AbsIncoming, NoOrder
<1>3. /\ AbsLevels' = [side \in Sides |-> <<>>] /\ AbsIndex' = <<>>
  BY <1>1, AbsNext DEF EmptyLevels, EmptyIndex, Image, Places
<1> DEFINE lv == AbsLevels'
           ix == AbsIndex'
<1>4. DOMAIN ix = {} /\ (\A side \in Sides : DOMAIN lv[side] = {}) /\ lv = [side \in Sides |-> lv[side]]
  BY <1>3
<1> HIDE DEF lv, ix
<1>5. B!WellTyped(lv, ix)
  <2>0. ix = [id \in DOMAIN ix |-> ix[id]]
    BY <1>3 DEF ix
  <2>1. \A side \in Sides : B!LevelMap(lv[side])
    <3> SUFFICES ASSUME NEW side \in Sides PROVE B!LevelMap(lv[side])
      OBVIOUS
    <3>1. lv[side] = <<>> /\ DOMAIN lv[side] = {}
      BY <1>3 DEF lv
    <3>2. lv[side] = [p \in DOMAIN lv[side] |-> lv[side][p]]
      BY <3>1
    <3> QED
      BY <3>1, <3>2 DEF B!LevelMap
  <2> QED
    BY <1>4, <2>0, <2>1, BSameOperators DEF B!WellTyped
<1>6. B!Indexed(lv, ix) /\ B!TotalsExact(lv)
  BY <1>4, BSameOperators DEF B!Indexed, B!TotalsExact
<1>7. B!BookUncrossed'
  BY <1>4 DEF B!BookUncrossed, lv, Sides
<1>8. B!Idle'
  BY <1>2, BSameOperators DEF B!Idle
<1>9. B!CallTyped' /\ B!IncomingOutside' /\ B!RestsIfGtc'
  <2>1. AbsIncoming' = B!NoOrder /\ traded_qty' \in Int /\ trades' = trades
    BY <1>1, <1>2, BSameOperators
  <2> QED
    BY <2>1, <1>8 DEF B!AdmissionInv, B!IInv, B!CallTyped, B!IncomingOutside, B!RestsIfGtc
<1>10. traded_qty' <= MaxQty
  BY <1>1, PoolAssumption
<1>11. B!AdmissionInv'
  BY <1>5, <1>6, <1>7, <1>8, <1>9, <1>10 DEF B!AdmissionInv, B!IInv, lv, ix
<1>12. \A side \in Sides : AbsLevels'[side] = <<>>
  BY <1>3
<1> QED
  BY <1>1, <1>2, <1>11, <1>12

\* The inductive invariant: the pool is sound, the baseline it stands for satisfies its own
\* invariants, and a remainder that would find no slot has not finished matching.
PoolInv == IInv /\ B!AdmissionInv /\ B!ReachInv /\ SlotForRest

\* The baseline's invariant of admission contains its inductive invariant.
LEMMA BIInv == B!AdmissionInv => B!IInv
BY DEF B!AdmissionInv

\* The pool starts in the invariant.
LEMMA PoolInit == Init => PoolInv
<1> SUFFICES ASSUME Init PROVE PoolInv
  OBVIOUS
<1>1. Idle /\ IInv
  BY InitEstablishes DEF Init, Idle
<1>2. AbsIncoming = NoOrder
  BY <1>1 DEF AbsIncoming
<1>3. AbsLevels = [side \in Sides |-> <<>>] /\ AbsIndex = <<>>
  BY DEF Init, EmptyLevels, EmptyIndex, AbsLevels, AbsIndex, Image, Places
<1>4. B!Init
  BY <1>2, <1>3, BSameOperators DEF Init, B!Init
<1>5. B!AdmissionInv
  BY <1>4, Assumed, B!InitAdmission
<1>6. B!ReachInv /\ SlotForRest
  BY <1>1, BIdle DEF B!ReachInv, SlotForRest
<1> QED
  BY <1>1, <1>5, <1>6 DEF PoolInv

\* A step of the baseline keeps what the baseline keeps.
LEMMA BStep ==
  ASSUME B!AdmissionInv, B!ReachInv, B!Next
  PROVE  B!ReachInv'
BY Assumed, B!ReachIsKept

\* Between calls there is no call whose reach or remainder matters.
LEMMA IdleAgain ==
  ASSUME Idle'
  PROVE  B!ReachInv' /\ SlotForRest'
<1>1. B!Idle'
  BY BSameOperators DEF AbsIncoming, B!Idle
<1> QED
  BY <1>1 DEF B!ReachInv, SlotForRest

\* Nothing to take means that the loop is over.
LEMMA TakesWhileMatching ==
  ASSUME IInv, B!AdmissionInv, ~Idle,
         MaxCrossingQty(incoming.side, incoming.price, incoming.qty) > 0
  PROVE  Matching
<1> SUFFICES ASSUME ~Matching PROVE FALSE
  OBVIOUS
<1>1. incoming.side \in Sides
  BY DEF IInv, CallSound, Call
<1>2. ~B!Idle /\ ~B!Matching
  BY BIdle, BMatching
<1>3. B!Predicted(AbsLevels, AbsIncoming) = 0
  BY <1>2, Assumed, B!NothingLeftToTake
<1>4. /\ AbsIncoming.side = incoming.side /\ AbsIncoming.price = incoming.price
      /\ AbsIncoming.qty = incoming.qty
  BY BIdle
<1>5. B!CrossingQty(AbsLevels[B!OtherSide(incoming.side)], incoming.side, incoming.price,
                    incoming.qty) = 0
  BY <1>3, <1>4 DEF B!Predicted
<1>6. MaxCrossingQty(incoming.side, incoming.price, incoming.qty) = 0
  BY <1>1, <1>5, Assumed, B!PredictionOfLevels, BCrossing
<1> QED
  BY <1>6

\* The call under way can still take something.
CouldTake == ~Idle /\ MaxCrossingQty(incoming.side, incoming.price, incoming.qty) > 0
\* A call that can take something has not finished matching.
LEMMA CouldTakeMatches == IInv /\ B!AdmissionInv /\ CouldTake => Matching
BY TakesWhileMatching DEF CouldTake

\* The same after a step.
LEMMA CouldTakeMatchesNext ==
  ASSUME IInv', B!AdmissionInv', CouldTake'
  PROVE  Matching'
<1>1. (IInv /\ B!AdmissionInv /\ CouldTake => Matching)'
  BY CouldTakeMatches, PTL
<1> QED
  BY <1>1

\* reserve_orders keeps the invariant.
LEMMA PoolReserve ==
  ASSUME PoolInv, Reserve
  PROVE  PoolInv'
<1>1. IInv' /\ B!AdmissionInv' /\ Idle'
  BY ReservePreserves, ReserveSeen DEF PoolInv
<1> QED
  BY <1>1, IdleAgain DEF PoolInv

\* A refused call keeps the invariant.
LEMMA PoolReject ==
  ASSUME PoolInv, Idle, NEW reason, Reject(reason)
  PROVE  PoolInv'
<1>1. IInv' /\ B!AdmissionInv' /\ Idle'
  BY RejectPreserves, RejectSeen DEF PoolInv
<1> QED
  BY <1>1, IdleAgain DEF PoolInv

\* An add keeps the invariant: one that is admitted with no free slot and something to
\* rest takes an order first.
LEMMA PoolAdd ==
  ASSUME PoolInv, NEW add \in AddRequests, Add(add)
  PROVE  PoolInv'
<1>1. CASE AddError(add) # "None"
  <2>1. Idle /\ Reject(AddError(add))
    BY <1>1 DEF Add
  <2> QED
    BY <2>1, PoolReject
<1>2. CASE AddError(add) = "None"
  <2>1. IInv'
    BY AddPreserves DEF PoolInv
  <2>2. Plain(add) \in Adds /\ B!Add(Plain(add)) /\ ~Idle'
    BY <1>2, AddSeen DEF PoolInv
  <2>3. B!AdmissionInv'
    BY <2>2, Assumed, B!AddAdmission DEF PoolInv
  <2>4. B!Next
    BY <2>2 DEF B!Next
  <2>5. B!ReachInv'
    BY <2>4, BStep DEF PoolInv
  <2>6. /\ incoming'.side = add.side /\ incoming'.price = MatchPrice(add)
        /\ incoming'.qty = add.qty /\ incoming'.can_rest = CanRest(add)
        /\ levels' = levels /\ free_head' = free_head
    BY <1>2 DEF Add, book
  <2>7. SlotForRest'
    <3> SUFFICES ASSUME Rests', free_head' = kInvalidSlot
                 PROVE  Matching'
      BY <2>2 DEF SlotForRest
    <3> DEFINE crossing == MaxCrossingQty(add.side, MatchPrice(add), add.qty)
    <3>1. CanRest(add) /\ add.qty > 0 /\ free_head = kInvalidSlot /\ add.qty \in Nat
      <4>1. add \in Adds /\ MaxQty \in Nat /\ Quantities \subseteq 0..MaxQty
        BY PoolAssumption
      <4>3. add.qty \in Quantities
        BY <4>1 DEF Adds
      <4>4. add.qty \in 0..MaxQty
        BY <4>1, <4>3
      <4>2. add.qty \in Nat
        BY <4>1, <4>4
      <4> QED
        BY <2>6, <4>2 DEF Rests
    <3>2. add \in Adds /\ add.side \in Sides
      BY PoolAssumption DEF Adds
    <3>3. crossing \in 0..add.qty
      BY <3>1, <3>2, CrossingBounded DEF PoolInv
    <3>4. ~OutOfSlots(add, crossing)
      BY <1>2, <3>2, AddErrorSeen DEF PoolInv
    <3>5. crossing > 0
      BY <3>1, <3>3, <3>4 DEF OutOfSlots
    <3>6. MaxCrossingQty(incoming.side, incoming.price, incoming.qty)' = crossing
      BY <2>6 DEF MaxCrossingQty
    <3>7. CouldTake'
      BY <2>2, <3>5, <3>6 DEF CouldTake
    <3> QED
      BY <2>1, <2>3, <3>7, CouldTakeMatchesNext
  <2> QED
    BY <2>1, <2>3, <2>5, <2>7 DEF PoolInv
<1> QED
  BY <1>1, <1>2

\* A cancel keeps the invariant.
LEMMA PoolCancel ==
  ASSUME PoolInv, NEW id \in OrderIds, Cancel(id)
  PROVE  PoolInv'
<1>1. CASE id \notin DOMAIN order_index
  <2>1. Idle /\ Reject("UnknownOrderId")
    BY <1>1 DEF Cancel
  <2> QED
    BY <2>1, PoolReject
<1>2. CASE id \in DOMAIN order_index
  <2>1. IInv'
    BY CancelPreserves DEF PoolInv
  <2>2. B!Cancel(id)
    BY <1>2, BIInv, CancelSeen DEF PoolInv
  <2>3. B!AdmissionInv'
    BY <2>2, Assumed, B!CancelAdmission DEF PoolInv
  <2>4. Idle'
    BY <1>2 DEF Cancel, Idle, NoOrder, Reject
  <2> QED
    BY <2>1, <2>3, <2>4, IdleAgain DEF PoolInv
<1> QED
  BY <1>1, <1>2

\* A replacement keeps the invariant: the order it replaces has left its slot free.
LEMMA PoolModify ==
  ASSUME PoolInv, NEW id \in OrderIds, NEW price \in 0..MaxPrice, NEW qty \in Quantities,
         Modify(id, price, qty)
  PROVE  PoolInv'
<1>1. CASE ModifyError(id, price, qty) # "None"
  <2>1. Idle /\ Reject(ModifyError(id, price, qty))
    BY <1>1 DEF Modify
  <2> QED
    BY <2>1, PoolReject
<1>2. CASE ModifyError(id, price, qty) = "None"
  <2>1. IInv'
    BY ModifyPreserves DEF PoolInv
  <2>2. /\ B!Modify(id, price, qty) /\ ~Idle' /\ id \in DOMAIN order_index /\ RemoveOrder(id)
    BY <1>2, ModifySeen DEF PoolInv
  <2>3. B!AdmissionInv'
    BY <2>2, Assumed, B!ModifyAdmission DEF PoolInv
  <2>4. B!Next
    BY <2>2 DEF B!Next
  <2>5. B!ReachInv'
    BY <2>4, BStep DEF PoolInv
  <2>6. free_head' \in SlotIndexes
    BY <2>2 DEF RemoveOrder, PoolInv, IInv, SoundNow, Sound, Indexed
  <2>7. SlotForRest'
    BY <2>6 DEF SlotForRest, SlotIndexes, kInvalidSlot
  <2> QED
    BY <2>1, <2>3, <2>5, <2>7 DEF PoolInv
<1> QED
  BY <1>1, <1>2

\* A fill keeps the invariant: it frees the slot of an order it fills whole, and nothing is
\* left to rest when it fills one in part.
LEMMA PoolFill ==
  ASSUME PoolInv, Fill
  PROVE  PoolInv'
<1>1. IInv'
  BY FillPreserves DEF PoolInv
<1>2. B!Fill
  BY BIInv, FillSeen DEF PoolInv
<1>3. B!AdmissionInv'
  BY <1>2, Assumed, B!FillAdmission DEF PoolInv
<1>4. B!ReachInv'
  BY <1>2, BStep DEF PoolInv, B!Next
<1>5. SlotForRest'
  <2> DEFINE side == OtherSide(incoming.side)
             price == BestPrice(side)
             slot == levels[side][price].head
             fill == Smaller(incoming.qty, slots[slot].qty)
  <2>1. /\ incoming' = [incoming EXCEPT !.qty = @ - fill]
        /\ fill < slots[slot].qty \/ free_head' = slot
    BY DEF Fill
  <2>2. /\ SoundNow /\ incoming \in Call /\ incoming.qty \in Int /\ side \in Sides
        /\ DOMAIN levels[side] # {}
    BY DEF PoolInv, IInv, CallSound, Fill, Matching, Call, OtherSide, Sides
  <2>3. price \in DOMAIN levels[side]
    BY <2>2, BestPriceExists
  <2>4. slot \in SlotIndexes /\ slots[slot].live
    BY <2>2, <2>3, HeadFacts DEF SoundNow
  <2>5. slots[slot].qty \in Int
    BY <2>2, <2>4, LiveHasLevel DEF SoundNow
  <2> HIDE DEF side, price, slot
  <2>6. CASE free_head' = slot
    BY <2>4, <2>6 DEF SlotForRest, SlotIndexes, kInvalidSlot
  <2>7. CASE fill < slots[slot].qty
    <3>1. fill = incoming.qty
      BY <2>2, <2>5, <2>7 DEF Smaller
    <3> HIDE DEF fill
    <3>2. incoming'.qty = incoming.qty - fill
      BY <2>1, <2>2 DEF Call
    <3>3. incoming'.qty = 0
      BY <2>2, <3>1, <3>2
    <3> QED
      BY <3>3 DEF SlotForRest, Rests
  <2> QED
    BY <2>1, <2>6, <2>7
<1> QED
  BY <1>1, <1>3, <1>4, <1>5 DEF PoolInv

\* A slot is free when a remainder rests, so that rest and return are the baseline's.
LEMMA RestOrReturnSeen ==
  ASSUME PoolInv, Rest \/ Return
  PROVE  B!Return /\ Idle' /\ error' = error
<1>1. CASE Rest
  <2>1. free_head # kInvalidSlot
    BY <1>1 DEF PoolInv, SlotForRest, Rest
  <2>2. B!Return
    BY <1>1, <2>1, BIInv, RestSeen DEF PoolInv
  <2>3. Idle' /\ error' = error
    BY <1>1, <2>1 DEF Rest, AddRestingOrder, Idle, NoOrder
  <2> QED
    BY <2>2, <2>3
<1>2. CASE Return
  <2>1. B!Return
    BY <1>2, BIInv, ReturnSeen DEF PoolInv
  <2>2. Idle' /\ error' = error
    BY <1>2 DEF Return, Idle, NoOrder
  <2> QED
    BY <2>1, <2>2
<1> QED
  BY <1>1, <1>2

\* The end of a call keeps the invariant.
LEMMA PoolReturn ==
  ASSUME PoolInv, Rest \/ Return
  PROVE  PoolInv'
<1>1. IInv'
  BY NextPreserves DEF PoolInv, Next
<1>2. B!Return /\ Idle'
  BY RestOrReturnSeen
<1>3. B!AdmissionInv'
  BY <1>2, Assumed, B!ReturnAdmission DEF PoolInv
<1> QED
  BY <1>1, <1>2, <1>3, IdleAgain DEF PoolInv

\* What does not change for the pool does not change for the baseline.
LEMMA Unchanged ==
  ASSUME UNCHANGED vars
  PROVE  /\ AbsLevels' = AbsLevels /\ AbsIndex' = AbsIndex /\ AbsIncoming' = AbsIncoming
         /\ traded_qty' = traded_qty /\ trades' = trades /\ error' = error
         /\ Idle' = Idle
<1>1. /\ levels' = levels /\ slots' = slots /\ free_head' = free_head
      /\ order_index' = order_index /\ incoming' = incoming
      /\ traded_qty' = traded_qty /\ trades' = trades /\ error' = error
  BY DEF vars, book
<1> QED
  BY <1>1, AbsNext DEF AbsLevels, AbsIndex, AbsIncoming, Idle, NoOrder

\* Every step keeps the invariant.
LEMMA PoolStep == PoolInv /\ [Next]_vars => PoolInv'
<1> SUFFICES ASSUME PoolInv, [Next]_vars PROVE PoolInv'
  OBVIOUS
<1>1. CASE Reserve
  BY <1>1, PoolReserve
<1>2. CASE \E add \in AddRequests : Add(add)
  BY <1>2, PoolAdd
<1>3. CASE \E id \in OrderIds : Cancel(id)
  BY <1>3, PoolCancel
<1>4. CASE \E id \in OrderIds, price \in 0..MaxPrice, qty \in Quantities : Modify(id, price, qty)
  BY <1>4, PoolModify
<1>5. CASE Fill
  BY <1>5, PoolFill
<1>6. CASE Rest \/ Return
  BY <1>6, PoolReturn
<1>7. CASE UNCHANGED vars
  <2>1. IInv'
    BY NextPreserves DEF PoolInv
  <2>2. UNCHANGED B!vars
    BY <1>7, Unchanged DEF B!vars
  <2>3. B!AdmissionInv'
    BY <2>2, Assumed, B!StepAdmission DEF PoolInv
  <2>4. B!ReachInv'
    BY <2>2, Assumed, B!ReachIsKept DEF PoolInv
  <2>5. SlotForRest'
    BY <1>7 DEF PoolInv, SlotForRest, vars, book, Idle, NoOrder, Rests, Matching, BestPrice
  <2> QED
    BY <2>1, <2>3, <2>4, <2>5 DEF PoolInv
<1> QED
  BY <1>1, <1>2, <1>3, <1>4, <1>5, <1>6, <1>7 DEF Next

\* Every reachable state satisfies the invariant.
LEMMA PoolInvariant == Spec => []PoolInv
<1>1. Init => PoolInv
  BY PoolInit
<1>2. PoolInv /\ [Next]_vars => PoolInv'
  BY PoolStep
<1> QED
  BY <1>1, <1>2, PTL DEF Spec

\* The exception of add_resting_order is never thrown: when the remainder of an admitted
\* order comes to rest a slot is free, though none may have been free when it was admitted.
THEOREM RemaindersFindASlot == Spec => []SlotForRest
<1>1. PoolInv => SlotForRest
  BY DEF PoolInv
<1> QED
  BY <1>1, PoolInvariant, PTL

(***************************************************************************)
(* The instances have copies of the operators of PriceTime; each means the *)
(* same.                                                                   *)
(***************************************************************************)
LEMMA BSameMatching ==
  /\ \A in, p : B!Reaches(in, p) = Reaches(in, p)
  /\ \A in, q : B!Executed(in, q) = Executed(in, q)
  /\ \A in, q : B!TradesOf(in, q) = TradesOf(in, q)
  /\ \A in, q : B!AfterFills(in, q) = AfterFills(in, q)
  /\ \A q, p : B!QtyAtPrice(q, p) = QtyAtPrice(q, p)
  /\ \A q, id : B!Positions(q, id) = Positions(q, id)
  /\ \A q, id : B!WithoutOrder(q, id) = WithoutOrder(q, id)
  /\ \A b, in, canRest : B!Matched(b, in, canRest) = Matched(b, in, canRest)
<1>1. \A in, p : B!Reaches(in, p) = Reaches(in, p)
  BY DEF B!Reaches, Reaches, B!AtLeastAsGood, AtLeastAsGood
<1>2. \A in, q : B!Executed(in, q) = Executed(in, q)
  BY DEF B!Executed, Executed, B!Smaller, Smaller, B!Available, Available, B!QtyOf,
         QtyOf, B!Reaches, Reaches, B!AtLeastAsGood, AtLeastAsGood
<1>3. \A in, q : B!TradesOf(in, q) = TradesOf(in, q)
  BY DEF B!TradesOf, TradesOf, B!FillAt, FillAt, B!Ahead, Ahead, B!Smaller, Smaller,
         B!QtyOf, QtyOf, B!Reaches, Reaches, B!AtLeastAsGood, AtLeastAsGood,
         B!Cardinality, Cardinality, B!IsFiniteSet, IsFiniteSet
<1>4. \A in, q : B!AfterFills(in, q) = AfterFills(in, q)
  BY DEF B!AfterFills, AfterFills, B!FillAt, FillAt, B!Ahead, Ahead, B!Smaller,
         Smaller, B!QtyOf, QtyOf, B!Reaches, Reaches, B!AtLeastAsGood,
         AtLeastAsGood, B!Cardinality, Cardinality, B!IsFiniteSet, IsFiniteSet
<1>5. \A q, p : B!QtyAtPrice(q, p) = QtyAtPrice(q, p)
  BY DEF B!QtyAtPrice, QtyAtPrice, B!QtyOf, QtyOf
<1>6. \A q, id : B!Positions(q, id) = Positions(q, id)
  BY DEF B!Positions, Positions
<1>7. \A q, id : B!WithoutOrder(q, id) = WithoutOrder(q, id)
  BY DEF B!WithoutOrder, WithoutOrder, B!Positions, Positions, B!RemoveAt, RemoveAt
<1>8. \A b, in, canRest : B!Matched(b, in, canRest) = Matched(b, in, canRest)
  BY DEF B!Matched, Matched, B!Sides, Sides, B!OtherSide, OtherSide, B!AfterFills,
         AfterFills, B!Enqueue, Enqueue, B!InsertAt, InsertAt, B!Cardinality,
         Cardinality, B!IsFiniteSet, IsFiniteSet, B!FillAt, FillAt, B!Ahead, Ahead,
         B!Executed, Executed, B!Smaller, Smaller, B!Available, Available, B!QtyOf,
         QtyOf, B!Reaches, Reaches, B!AtLeastAsGood, AtLeastAsGood
<1> QED
  BY <1>1, <1>2, <1>3, <1>4, <1>5, <1>6, <1>7, <1>8

\* The promise matches with the operators of the pooled engine.
LEMMA PromiseSameMatching ==
  /\ \A in, p : Promise!Reaches(in, p) = Reaches(in, p)
  /\ \A in, q : Promise!Executed(in, q) = Executed(in, q)
  /\ \A in, q : Promise!TradesOf(in, q) = TradesOf(in, q)
  /\ \A in, q : Promise!AfterFills(in, q) = AfterFills(in, q)
  /\ \A q, p : Promise!QtyAtPrice(q, p) = QtyAtPrice(q, p)
  /\ \A q, id : Promise!Positions(q, id) = Positions(q, id)
  /\ \A q, id : Promise!WithoutOrder(q, id) = WithoutOrder(q, id)
  /\ \A b, in, canRest : Promise!Matched(b, in, canRest) = Matched(b, in, canRest)
<1>1. \A in, p : Promise!Reaches(in, p) = Reaches(in, p)
  BY DEF Promise!Reaches, Reaches, Promise!AtLeastAsGood, AtLeastAsGood
<1>2. \A in, q : Promise!Executed(in, q) = Executed(in, q)
  BY DEF Promise!Executed, Executed, Promise!Smaller, Smaller, Promise!Available,
         Available, Promise!QtyOf, QtyOf, Promise!Reaches, Reaches,
         Promise!AtLeastAsGood, AtLeastAsGood
<1>3. \A in, q : Promise!TradesOf(in, q) = TradesOf(in, q)
  BY DEF Promise!TradesOf, TradesOf, Promise!FillAt, FillAt, Promise!Ahead, Ahead,
         Promise!Smaller, Smaller, Promise!QtyOf, QtyOf, Promise!Reaches, Reaches,
         Promise!AtLeastAsGood, AtLeastAsGood, Promise!Cardinality, Cardinality,
         Promise!IsFiniteSet, IsFiniteSet
<1>4. \A in, q : Promise!AfterFills(in, q) = AfterFills(in, q)
  BY DEF Promise!AfterFills, AfterFills, Promise!FillAt, FillAt, Promise!Ahead,
         Ahead, Promise!Smaller, Smaller, Promise!QtyOf, QtyOf, Promise!Reaches,
         Reaches, Promise!AtLeastAsGood, AtLeastAsGood, Promise!Cardinality,
         Cardinality, Promise!IsFiniteSet, IsFiniteSet
<1>5. \A q, p : Promise!QtyAtPrice(q, p) = QtyAtPrice(q, p)
  BY DEF Promise!QtyAtPrice, QtyAtPrice, Promise!QtyOf, QtyOf
<1>6. \A q, id : Promise!Positions(q, id) = Positions(q, id)
  BY DEF Promise!Positions, Positions
<1>7. \A q, id : Promise!WithoutOrder(q, id) = WithoutOrder(q, id)
  BY DEF Promise!WithoutOrder, WithoutOrder, Promise!Positions, Positions,
         Promise!RemoveAt, RemoveAt
<1>8. \A b, in, canRest : Promise!Matched(b, in, canRest) = Matched(b, in, canRest)
  BY DEF Promise!Matched, Matched, Promise!Sides, Sides, Promise!OtherSide,
         OtherSide, Promise!AfterFills, AfterFills, Promise!Enqueue, Enqueue,
         Promise!InsertAt, InsertAt, Promise!Cardinality, Cardinality,
         Promise!IsFiniteSet, IsFiniteSet, Promise!FillAt, FillAt, Promise!Ahead,
         Ahead, Promise!Executed, Executed, Promise!Smaller, Smaller,
         Promise!Available, Available, Promise!QtyOf, QtyOf, Promise!Reaches,
         Reaches, Promise!AtLeastAsGood, AtLeastAsGood
<1> QED
  BY <1>1, <1>2, <1>3, <1>4, <1>5, <1>6, <1>7, <1>8

\* So does the promise of the baseline.
LEMMA BPromiseSameMatching ==
  /\ \A in, p : B!Promise!Reaches(in, p) = Reaches(in, p)
  /\ \A in, q : B!Promise!Executed(in, q) = Executed(in, q)
  /\ \A in, q : B!Promise!TradesOf(in, q) = TradesOf(in, q)
  /\ \A in, q : B!Promise!AfterFills(in, q) = AfterFills(in, q)
  /\ \A q, p : B!Promise!QtyAtPrice(q, p) = QtyAtPrice(q, p)
  /\ \A q, id : B!Promise!Positions(q, id) = Positions(q, id)
  /\ \A q, id : B!Promise!WithoutOrder(q, id) = WithoutOrder(q, id)
  /\ \A b, in, canRest : B!Promise!Matched(b, in, canRest) = Matched(b, in, canRest)
<1>1. \A in, p : B!Promise!Reaches(in, p) = Reaches(in, p)
  BY DEF B!Promise!Reaches, Reaches, B!Promise!AtLeastAsGood, AtLeastAsGood
<1>2. \A in, q : B!Promise!Executed(in, q) = Executed(in, q)
  BY DEF B!Promise!Executed, Executed, B!Promise!Smaller, Smaller,
         B!Promise!Available, Available, B!Promise!QtyOf, QtyOf, B!Promise!Reaches,
         Reaches, B!Promise!AtLeastAsGood, AtLeastAsGood
<1>3. \A in, q : B!Promise!TradesOf(in, q) = TradesOf(in, q)
  BY DEF B!Promise!TradesOf, TradesOf, B!Promise!FillAt, FillAt, B!Promise!Ahead,
         Ahead, B!Promise!Smaller, Smaller, B!Promise!QtyOf, QtyOf,
         B!Promise!Reaches, Reaches, B!Promise!AtLeastAsGood, AtLeastAsGood,
         B!Promise!Cardinality, Cardinality, B!Promise!IsFiniteSet, IsFiniteSet
<1>4. \A in, q : B!Promise!AfterFills(in, q) = AfterFills(in, q)
  BY DEF B!Promise!AfterFills, AfterFills, B!Promise!FillAt, FillAt,
         B!Promise!Ahead, Ahead, B!Promise!Smaller, Smaller, B!Promise!QtyOf, QtyOf,
         B!Promise!Reaches, Reaches, B!Promise!AtLeastAsGood, AtLeastAsGood,
         B!Promise!Cardinality, Cardinality, B!Promise!IsFiniteSet, IsFiniteSet
<1>5. \A q, p : B!Promise!QtyAtPrice(q, p) = QtyAtPrice(q, p)
  BY DEF B!Promise!QtyAtPrice, QtyAtPrice, B!Promise!QtyOf, QtyOf
<1>6. \A q, id : B!Promise!Positions(q, id) = Positions(q, id)
  BY DEF B!Promise!Positions, Positions
<1>7. \A q, id : B!Promise!WithoutOrder(q, id) = WithoutOrder(q, id)
  BY DEF B!Promise!WithoutOrder, WithoutOrder, B!Promise!Positions, Positions,
         B!Promise!RemoveAt, RemoveAt
<1>8. \A b, in, canRest : B!Promise!Matched(b, in, canRest) = Matched(b, in, canRest)
  BY DEF B!Promise!Matched, Matched, B!Promise!Sides, Sides, B!Promise!OtherSide,
         OtherSide, B!Promise!AfterFills, AfterFills, B!Promise!Enqueue, Enqueue,
         B!Promise!InsertAt, InsertAt, B!Promise!Cardinality, Cardinality,
         B!Promise!IsFiniteSet, IsFiniteSet, B!Promise!FillAt, FillAt,
         B!Promise!Ahead, Ahead, B!Promise!Executed, Executed, B!Promise!Smaller,
         Smaller, B!Promise!Available, Available, B!Promise!QtyOf, QtyOf,
         B!Promise!Reaches, Reaches, B!Promise!AtLeastAsGood, AtLeastAsGood
<1> QED
  BY <1>1, <1>2, <1>3, <1>4, <1>5, <1>6, <1>7, <1>8

\* Both promises read a book and a request alike.
LEMMA PromisesAlike ==
  /\ \A add : Promise!CanRest(add) <=> B!Promise!CanRest(add)
  /\ \A b, id : Promise!Resting(b, id) <=> B!Promise!Resting(b, id)
  /\ \A b, id : Promise!SideOf(b, id) = B!Promise!SideOf(b, id)
  /\ \A b, id : Promise!Withdrawn(b, id) = B!Promise!Withdrawn(b, id)
  /\ \A b, id, price, qty : Promise!Replacement(b, id, price, qty)
                              = B!Promise!Replacement(b, id, price, qty)
  /\ \A a, b : Promise!Overflows(a, b) <=> B!Promise!Overflows(a, b)
  /\ \A price : Promise!PriceError(price) = B!Promise!PriceError(price)
BY DEF Promise!CanRest, B!Promise!CanRest, Promise!Resting, B!Promise!Resting,
       Promise!SideOf, B!Promise!SideOf, Promise!Withdrawn, B!Promise!Withdrawn,
       Promise!Replacement, B!Promise!Replacement, Promise!Overflows, B!Promise!Overflows,
       Promise!PriceError, B!Promise!PriceError, Promise!Positions, B!Promise!Positions,
       Promise!WithoutOrder, B!Promise!WithoutOrder, Promise!RemoveAt, B!Promise!RemoveAt,
       Promise!Sides, B!Promise!Sides

\* The baseline joins its levels as the pooled engine does.
LEMMA BSameFlatten == \A s : B!FlattenSeq(s) = FlattenSeq(s)
BY DEF B!FlattenSeq, FlattenSeq

\* A client sees the same queues.
LEMMA BookSeen == Book = B!QueuesOf(AbsLevels)
<1>1. OrdersFrom = FromIn(slots)
  BY DEF OrdersFrom, FromIn
<1>2. OrdersFrom[kInvalidSlot] = <<>>
  <2>1. PICK upTo :
          /\ FromIn(slots) = upTo[Capacity]
          /\ \A n \in 0..Capacity : \A slot \in 0..Capacity :
               upTo[n][slot] = IF n = 0 \/ slot = kInvalidSlot THEN <<>>
                               ELSE <<OrderIn(slots, slot)>> \o upTo[n - 1][slots[slot].next]
    BY FromInSteps
  <2>2. Capacity \in 0..Capacity /\ kInvalidSlot \in 0..Capacity
    BY PoolAssumption DEF kInvalidSlot
  <2> QED
    BY <1>1, <2>1, <2>2
<1>3. ASSUME NEW side \in Sides, NEW p
      PROVE  OrdersFrom[LevelAt(side, p).head] = B!LevelAt(side, p).orders
  <2>1. CASE p \in DOMAIN levels[side]
    BY <1>1, <2>1 DEF LevelAt, B!LevelAt, AbsLevels, Image, Kept
  <2>2. CASE p \notin DOMAIN levels[side]
    BY <1>2, <2>2 DEF LevelAt, NewLevel, B!LevelAt, AbsLevels, Image
  <2> QED
    BY <2>1, <2>2
<1>4. ASSUME NEW side \in Sides
      PROVE  OrdersOf(side) = B!OrdersOf(side)
  <2> DEFINE lists == [k \in 1..MaxPrice |-> OrdersFrom[LevelAt(side, Ranked(side, k)).head]]
             same == [k \in 1..MaxPrice |-> B!LevelAt(side, B!Ranked(side, k)).orders]
  <2>1. lists = same
    BY <1>3, BSameOperators
  <2>2. OrdersOf(side) = FlattenSeq(lists) /\ B!OrdersOf(side) = B!FlattenSeq(same)
    BY DEF OrdersOf, B!OrdersOf
  <2> HIDE DEF lists, same
  <2> QED
    BY <2>1, <2>2, BSameFlatten
<1>5. Book = B!Book
  BY <1>4, BSameOperators DEF Book, B!Book
<1>6. B!Book = B!QueuesOf(AbsLevels)
  BY Assumed, B!BookIs
<1> QED
  BY <1>5, <1>6

\* The same after a step.
LEMMA BookSeenNext == Book' = B!QueuesOf(AbsLevels')
<1>1. (Book = B!QueuesOf(AbsLevels))'
  BY BookSeen, PTL
<1>2. B!QueuesOf(AbsLevels)' = B!QueuesOf(AbsLevels')
  BY DEF B!QueuesOf, B!QueueOf, B!ListsOf, B!OrdersAt, B!Ranked, B!FlattenSeq
<1> QED
  BY <1>1, <1>2

\* The match that is running does the same to them.
LEMMA MatchSeen ==
  /\ AbstractQueue = B!AbstractQueue
  /\ AbstractTrades = B!AbstractTrades
  /\ AbstractTradedQty = B!AbstractTradedQty
<1>1. Book = B!Book
  <2>1. B!Book = B!QueuesOf(AbsLevels)
    BY Assumed, B!BookIs
  <2> QED
    BY <2>1, BookSeen
<1>2. CASE Idle
  <2>1. B!Idle
    BY <1>2, BIdle
  <2> QED
    BY <1>1, <1>2, <2>1
       DEF AbstractQueue, B!AbstractQueue, AbstractTrades, B!AbstractTrades,
           AbstractTradedQty, B!AbstractTradedQty
<1>3. CASE ~Idle
  <2>1. /\ ~B!Idle
        /\ AbsIncoming.order_id = incoming.order_id /\ AbsIncoming.side = incoming.side
        /\ AbsIncoming.price = incoming.price /\ AbsIncoming.qty = incoming.qty
        /\ AbsIncoming.can_rest = incoming.can_rest
        /\ AbsIncoming.is_market = incoming.is_market
    BY <1>3, BIdle
  <2>2. \A p : B!Reaches(incoming, p) <=> B!Reaches(AbsIncoming, p)
    BY <2>1 DEF B!Reaches
  <2> DEFINE q == Book[OtherSide(incoming.side)]
  <2>3. /\ B!TradesOf(incoming, q) = B!TradesOf(AbsIncoming, q)
        /\ B!Executed(incoming, q) = B!Executed(AbsIncoming, q)
    BY <2>1, <2>2, Assumed, B!SameReachSameFills
  <2>4. B!Matched(Book, incoming, incoming.can_rest)
          = B!Matched(Book, AbsIncoming, incoming.can_rest)
    BY <2>1, <2>2, Assumed, B!SameReachSameBook
  <2>5. Opposing = q /\ B!Opposing = q
    BY <1>1, <2>1, BSameOperators DEF Opposing, B!Opposing
  <2> HIDE DEF q
  <2>6. AbstractQueue = B!AbstractQueue
    BY <1>1, <1>3, <2>1, <2>4, BSameMatching DEF AbstractQueue, B!AbstractQueue
  <2>7. AbstractTrades = B!AbstractTrades
    BY <1>3, <2>1, <2>3, <2>5, BSameMatching DEF AbstractTrades, B!AbstractTrades
  <2>8. AbstractTradedQty = B!AbstractTradedQty
    BY <1>3, <2>1, <2>3, <2>5, BSameMatching DEF AbstractTradedQty, B!AbstractTradedQty
  <2> QED
    BY <2>6, <2>7, <2>8
<1> QED
  BY <1>2, <1>3

\* The same after a step.
LEMMA MatchSeenNext ==
  /\ AbstractQueue' = B!AbstractQueue'
  /\ AbstractTrades' = B!AbstractTrades'
  /\ AbstractTradedQty' = B!AbstractTradedQty'
<1>1. (/\ AbstractQueue = B!AbstractQueue
       /\ AbstractTrades = B!AbstractTrades
       /\ AbstractTradedQty = B!AbstractTradedQty)'
  BY MatchSeen, PTL
<1> QED
  BY <1>1

\* What the loop does and the return are not seen by a client.
LEMMA LoopStutters ==
  ASSUME PoolInv, Fill \/ Rest \/ Return
  PROVE  UNCHANGED Promise!bookVars
<1>1. /\ B!AbstractQueue' = B!AbstractQueue
      /\ B!AbstractTrades' = B!AbstractTrades
      /\ B!AbstractTradedQty' = B!AbstractTradedQty
      /\ error' = error
  <2>1. CASE Fill
    <3>1. B!Fill /\ error' = error
      BY <2>1, BIInv, FillSeen DEF PoolInv, Fill
    <3> QED
      BY <3>1, Assumed, B!FillStutters DEF PoolInv
  <2>2. CASE Rest \/ Return
    <3>1. B!Return /\ error' = error
      BY <2>2, RestOrReturnSeen
    <3> QED
      BY <3>1, Assumed, B!ReturnStutters DEF PoolInv
  <2> QED
    BY <2>1, <2>2
<1>2. AbstractQueue' = AbstractQueue /\ AbstractTrades' = AbstractTrades
      /\ AbstractTradedQty' = AbstractTradedQty
  BY <1>1, MatchSeen, MatchSeenNext
<1> QED
  BY <1>1, <1>2 DEF Promise!bookVars

\* The slots in use, and those of one side.
Live == {s \in SlotIndexes : slots[s].live}
LiveOn(side) == {s \in Live : slots[s].side = side}

\* The numbers from 1 to n are n.
LEMMA UpToN ==
  ASSUME NEW n \in Nat
  PROVE  IsFiniteSet(1..n) /\ Cardinality(1..n) = n
<1>1. IsFiniteSet(1..n) /\ Cardinality(1..n) = IF 1 > n THEN 0 ELSE n - 1 + 1
  BY FS_Interval
<1> QED
  BY <1>1

\* No id stands twice in the queue of a side.
LEMMA PlacesDiffer ==
  ASSUME B!IInv, NEW side \in Sides,
         NEW i \in 1..Len(B!QueueOf(AbsLevels, side)),
         NEW j \in 1..Len(B!QueueOf(AbsLevels, side)),
         B!QueueOf(AbsLevels, side)[i].order_id = B!QueueOf(AbsLevels, side)[j].order_id
  PROVE  i = j
<1> DEFINE q == B!QueueOf(AbsLevels, side)
           id == q[i].order_id
<1>1. B!WellTyped(AbsLevels, AbsIndex) /\ B!Indexed(AbsLevels, AbsIndex) /\ side \in B!Sides
  BY BSameOperators DEF B!IInv
<1>2. PICK ends : B!Queued(AbsLevels, side, ends)
  BY <1>1, Assumed, B!QueueIsJoined
<1>3. /\ B!PlaceOfId(AbsLevels, side, ends, AbsIndex[id].price, i, id)
      /\ B!PlaceOfId(AbsLevels, side, ends, AbsIndex[id].price, j, id)
      /\ id \in DOMAIN AbsIndex
  BY <1>1, <1>2, Assumed, B!PositionIs
<1>4. AbsIndex[id].price \in B!Prices
  BY <1>1, <1>3 DEF B!WellTyped
<1> DEFINE orders == B!OrdersAt(AbsLevels, side, AbsIndex[id].price)
           at(k) == ends[B!RankOf(side, AbsIndex[id].price) - 1] + k
<1>5. PICK k \in 1..Len(orders) : i = at(k) /\ orders[k].order_id = id
  BY <1>3 DEF B!PlaceOfId
<1>6. q \in Seq(B!Order)
  BY <1>1, Assumed, B!QueueIsJoined
<1>7. B!Positions(q, id) = {at(k)}
  BY <1>1, <1>2, <1>4, <1>5, Assumed, B!PositionOf
<1> HIDE DEF q
<1>8. i \in B!Positions(q, id) /\ j \in B!Positions(q, id)
  <2>1. i \in DOMAIN q /\ j \in DOMAIN q
    BY <1>6, LenProperties DEF q
  <2> QED
    BY <2>1 DEF B!Positions, q
<1> QED
  BY <1>7, <1>8

\* The orders of a side are the slots of that side in use.
LEMMA QueueHoldsTheLive ==
  ASSUME IInv, B!IInv, NEW side \in Sides
  PROVE  /\ IsFiniteSet(LiveOn(side))
         /\ Len(B!QueueOf(AbsLevels, side)) = Cardinality(LiveOn(side))
<1> DEFINE q == B!QueueOf(AbsLevels, side)
           slot == [i \in 1..Len(q) |-> order_index[q[i].order_id]]
<1>1. B!WellTyped(AbsLevels, AbsIndex) /\ B!Indexed(AbsLevels, AbsIndex) /\ side \in B!Sides
  BY BSameOperators DEF B!IInv
<1>2. PICK ends : B!Queued(AbsLevels, side, ends)
  BY <1>1, Assumed, B!QueueIsJoined
<1>3. q \in Seq(B!Order)
  BY <1>1, Assumed, B!QueueIsJoined
<1>4. Len(q) \in Nat /\ DOMAIN q = 1..Len(q)
  BY <1>3, LenProperties
<1>5. Indexed(slots, order_index)
  BY DEF IInv, SoundNow, Sound
<1>6. ASSUME NEW i \in 1..Len(q)
      PROVE  q[i].order_id \in DOMAIN order_index /\ slot[i] \in LiveOn(side)
  <2>1. q[i].order_id \in DOMAIN AbsIndex /\ AbsIndex[q[i].order_id].side = side
    BY <1>1, <1>2, Assumed, B!PositionIs
  <2> HIDE DEF q
  <2>2. q[i].order_id \in DOMAIN order_index
        /\ slots[order_index[q[i].order_id]].side = side
    BY <2>1 DEF AbsIndex, Places
  <2> QED
    BY <2>2, <1>5 DEF Indexed, LiveOn, Live
<1>7. ASSUME NEW i \in 1..Len(q), NEW j \in 1..Len(q), slot[i] = slot[j]
      PROVE  i = j
  <2>1. q[i].order_id = q[j].order_id
    BY <1>5, <1>6, <1>7 DEF Indexed
  <2> QED
    BY <2>1, PlacesDiffer
<1>8. ASSUME NEW s \in LiveOn(side)
      PROVE  \E i \in 1..Len(q) : slot[i] = s
  <2> DEFINE id == slots[s].order_id
  <2>1. s \in SlotIndexes /\ slots[s].live /\ slots[s].side = side
    BY DEF LiveOn, Live
  <2>2. id \in DOMAIN order_index /\ order_index[id] = s
    BY <2>1, <1>5 DEF Indexed
  <2>3. id \in DOMAIN AbsIndex /\ AbsIndex[id].side = side
    BY <2>1, <2>2 DEF AbsIndex, Places
  <2>4. B!Positions(q, id) # {}
    BY <1>1, <2>3, Assumed, B!PositionsOfResting
  <2>5. PICK i \in 1..Len(q) : q[i].order_id = id
    BY <1>4, <2>4 DEF B!Positions
  <2> QED
    BY <2>2, <2>5
<1> HIDE DEF q
<1>9. slot \in Bijection(1..Len(q), LiveOn(side))
  <2>1. slot \in [1..Len(q) -> LiveOn(side)]
    BY <1>6
  <2> HIDE DEF slot
  <2> QED
    BY <2>1, <1>7, <1>8 DEF Bijection, Injection, Surjection, IsInjective
<1>10. ExistsBijection(1..Len(q), LiveOn(side))
  BY <1>9 DEF ExistsBijection
<1>11. IsFiniteSet(1..Len(q)) /\ Cardinality(1..Len(q)) = Len(q)
  BY <1>4, UpToN
<1>12. IsFiniteSet(LiveOn(side)) /\ Cardinality(LiveOn(side)) = Len(q)
  BY <1>10, <1>11, FS_Bijection
<1> QED
  BY <1>12 DEF q

\* As many orders rest as slots are in use, and the pool is full when none is free.
LEMMA PoolIsFull ==
  ASSUME IInv, B!IInv
  PROVE  LET n == Len(B!QueueOf(AbsLevels, "Bid")) + Len(B!QueueOf(AbsLevels, "Ask"))
         IN  /\ n \in Nat /\ n <= Capacity
             /\ (n >= Capacity) <=> (free_head = kInvalidSlot)
<1> DEFINE a == Len(B!QueueOf(AbsLevels, "Bid"))
           b == Len(B!QueueOf(AbsLevels, "Ask"))
<1>1. /\ IsFiniteSet(LiveOn("Bid")) /\ a = Cardinality(LiveOn("Bid"))
      /\ IsFiniteSet(LiveOn("Ask")) /\ b = Cardinality(LiveOn("Ask"))
  BY QueueHoldsTheLive DEF Sides
<1> HIDE DEF a, b
<1>2. SoundNow /\ PoolTyped(slots) /\ FreeLinked(slots, free_head)
  BY DEF IInv, SoundNow, Sound
<1>3. LiveOn("Bid") \cup LiveOn("Ask") = Live /\ LiveOn("Bid") \cap LiveOn("Ask") = {}
  <2>1. \A s \in SlotIndexes : slots[s].side \in Sides
    BY <1>2 DEF PoolTyped, SlotRecord
  <2> QED
    BY <2>1 DEF LiveOn, Live, Sides
<1>4. IsFiniteSet(Live) /\ Cardinality(Live) = a + b - Cardinality({})
  BY <1>1, <1>3, FS_Union
<1>5. Cardinality({}) = 0
  BY FS_EmptySet
<1>6. a \in Nat /\ b \in Nat
  BY <1>1, FS_CardinalityType
<1>7. Cardinality(Live) = a + b
  BY <1>4, <1>5, <1>6
<1>8. IsFiniteSet(SlotIndexes) /\ Cardinality(SlotIndexes) = Capacity
  BY PoolAssumption, UpToN DEF SlotIndexes
<1>9. Live \in SUBSET SlotIndexes
  BY DEF Live
<1>10. a + b <= Capacity /\ (a + b = Capacity => Live = SlotIndexes)
  BY <1>7, <1>8, <1>9, FS_Subset
<1>11. (free_head = kInvalidSlot) <=> (Live = SlotIndexes)
  <2>1. PICK pos : \E n \in Nat : Chain(Free(slots), pos, FreeNextOf(slots), free_head, n)
    BY <1>2 DEF FreeLinked
  <2>2. PICK n \in Nat : Chain(Free(slots), pos, FreeNextOf(slots), free_head, n)
    BY <2>1
  <2>3. ASSUME free_head = kInvalidSlot PROVE Free(slots) = {}
    <3>1. free_head \notin SlotIndexes
      BY <2>3 DEF kInvalidSlot, SlotIndexes
    <3>2. n = 0
      BY <2>2, <3>1 DEF Chain, Free
    <3>3. \A s \in Free(slots) : pos[s] \in 1..0
      BY <2>2, <3>2 DEF Chain
    <3> QED
      BY <3>3
  <2>4. free_head # kInvalidSlot => free_head \in SlotIndexes /\ ~slots[free_head].live
    BY <1>2, FirstIsFree
  <2> QED
    BY <2>3, <2>4 DEF Live, Free
<1> QED
  <2>1. a + b \in Nat /\ a + b <= Capacity
    BY <1>6, <1>10
  <2>2. (a + b >= Capacity) <=> (Live = SlotIndexes)
    BY <2>1, <1>7, <1>8, <1>10, PoolAssumption
  <2>3. a + b \in Nat /\ a + b <= Capacity
        /\ ((a + b >= Capacity) <=> (free_head = kInvalidSlot))
    BY <2>1, <2>2, <1>11
  <2> QED
    BY <2>3 DEF a, b

\* The first order of a queue has the best price of the side.
LEMMA FirstIsBest ==
  ASSUME B!IInv, NEW side \in Sides, NEW i \in 1..Len(B!QueueOf(AbsLevels, side))
  PROVE  /\ AtLeastAsGood(side, B!QueueOf(AbsLevels, side)[1].price,
                          B!QueueOf(AbsLevels, side)[i].price)
         /\ B!QueueOf(AbsLevels, side)[1].price \in Prices
         /\ B!QueueOf(AbsLevels, side)[i].price \in Prices
<1> DEFINE q     == B!QueueOf(AbsLevels, side)
           lists == B!ListsOf(AbsLevels, side)
           n     == MaxPrice
<1>1. B!WellTyped(AbsLevels, AbsIndex) /\ B!Indexed(AbsLevels, AbsIndex) /\ side \in B!Sides
  BY BSameOperators DEF B!IInv
<1>2. PICK ends : B!Queued(AbsLevels, side, ends)
  BY <1>1, Assumed, B!QueueIsJoined
<1>3. q \in Seq(B!Order)
  BY <1>1, Assumed, B!QueueIsJoined
<1>4. Len(q) \in Nat /\ 1 \in 1..Len(q)
  BY <1>3, LenProperties
<1>5. B!ListsIn(B!Order, lists, n) /\ B!EndToEnd(lists, n, ends, q) /\ n \in Nat
  BY <1>2, PoolAssumption DEF B!Queued
<1>6. ASSUME NEW m \in 1..Len(q)
      PROVE  \E k \in 1..n : \E j \in 1..Len(lists[k]) :
               m = ends[k - 1] + j /\ q[m].price = B!Ranked(side, k)
  <2>1. B!PlacedOrder(AbsLevels, AbsIndex, side, ends, m)
    BY <1>1, <1>2, Assumed, B!EveryPlaceIsInAList
  <2>2. PICK k \in 1..n : \E j \in 1..Len(B!OrdersAt(AbsLevels, side, B!Ranked(side, k))) :
                            m = ends[k - 1] + j /\ q[m].price = B!Ranked(side, k)
    BY <2>1 DEF B!PlacedOrder
  <2>3. lists[k] = B!OrdersAt(AbsLevels, side, B!Ranked(side, k))
    BY DEF B!ListsOf
  <2> QED
    BY <2>2, <2>3
<1>7. PICK a \in 1..n : \E j \in 1..Len(lists[a]) :
               1 = ends[a - 1] + j /\ q[1].price = B!Ranked(side, a)
  BY <1>4, <1>6
<1>8. PICK b \in 1..n : \E j \in 1..Len(lists[b]) :
               i = ends[b - 1] + j /\ q[i].price = B!Ranked(side, b)
  BY <1>6
<1>9. PICK j \in 1..Len(lists[b]) : i = ends[b - 1] + j /\ q[i].price = B!Ranked(side, b)
  BY <1>8
<1> HIDE DEF q, lists
<1>10. PICK h \in 1..Len(lists[a]) : 1 = ends[a - 1] + h /\ q[1].price = B!Ranked(side, a)
  BY <1>7
<1>11. a <= b
  <2> SUFFICES ASSUME b < a PROVE FALSE
    BY <1>5
  <2>1. B!Within(ends, q, a, h)
    BY <1>5, Assumed, B!PlaceIsWithin
  <2>2. B!Within(ends, q, b, j)
    BY <1>5, Assumed, B!PlaceIsWithin
  <2>3. b \in 0..n /\ a - 1 \in 0..n /\ b <= a - 1
    BY <1>5
  <2>4. ends[b] <= ends[a - 1]
    BY <2>3, <1>5, Assumed, B!EndsGrow
  <2> QED
    BY <2>1, <2>2, <2>4, <1>9, <1>10 DEF B!Within
<1>12. /\ B!Ranked(side, a) \in B!Prices /\ B!RankOf(side, B!Ranked(side, a)) = a
       /\ B!Ranked(side, b) \in B!Prices /\ B!RankOf(side, B!Ranked(side, b)) = b
  BY <1>1, Assumed, B!RankFacts
<1>13. B!AtLeastAsGood(side, B!Ranked(side, a), B!Ranked(side, b))
  BY <1>1, <1>11, <1>12, Assumed, B!RankFacts
<1>14. AtLeastAsGood(side, q[1].price, q[i].price) /\ q[1].price \in Prices /\ q[i].price \in Prices
  BY <1>9, <1>10, <1>12, <1>13, BSameOperators
<1> QED
  BY <1>14 DEF q

\* An order that does not reach the first of the queue reaches none.
LEMMA FirstOrNone ==
  ASSUME B!IInv, NEW side \in Sides, NEW in, in.is_market \/ in.price \in Int,
         in.side = OtherSide(side),
         NEW i \in 1..Len(B!QueueOf(AbsLevels, side)),
         B!Reaches(in, B!QueueOf(AbsLevels, side)[i].price)
  PROVE  B!Reaches(in, B!QueueOf(AbsLevels, side)[1].price)
<1> DEFINE p == B!QueueOf(AbsLevels, side)[1].price
           r == B!QueueOf(AbsLevels, side)[i].price
<1>1. AtLeastAsGood(side, p, r) /\ p \in Prices /\ r \in Prices
  BY FirstIsBest
<1>2. B!Reaches(in, r)
  OBVIOUS
<1> HIDE DEF p, r
<1>3. in.is_market \/ AtLeastAsGood(in.side, in.price, r)
  BY <1>2, BSameOperators DEF B!Reaches
<1>4. in.is_market \/ AtLeastAsGood(in.side, in.price, p)
  BY <1>1, <1>3, PoolAssumption DEF AtLeastAsGood, OtherSide, Sides, Prices
<1>5. B!Reaches(in, p)
  BY <1>4, BSameOperators DEF B!Reaches
<1> QED
  BY <1>5 DEF p

\* The fills never lengthen a queue.
LEMMA FillsShorten ==
  ASSUME NEW q \in Seq(B!Order), NEW in
  PROVE  /\ Len(B!AfterFills(in, q)) \in Nat
         /\ Len(B!AfterFills(in, q)) <= Len(q)
<1> DEFINE S == {i \in DOMAIN q : B!FillAt(in, q, i) = q[i].qty}
           gone == Cardinality(S)
<1>1. Len(q) \in Nat /\ DOMAIN q = 1..Len(q)
  BY LenProperties
<1>2. IsFiniteSet(1..Len(q)) /\ Cardinality(1..Len(q)) = Len(q)
  BY <1>1, UpToN
<1>3. S \in SUBSET (1..Len(q))
  BY <1>1
<1>4. IsFiniteSet(S) /\ gone <= Len(q)
  BY <1>2, <1>3, FS_Subset
<1>5. gone \in Nat
  BY <1>4, FS_CardinalityType
<1> HIDE DEF S
<1>6. Len(q) - gone \in Nat /\ Len(q) - gone <= Len(q)
  BY <1>1, <1>4, <1>5
<1>7. B!AfterFills(in, q)
        = [i \in 1..(Len(q) - gone) |->
             [q[i + gone] EXCEPT !.qty = @ - B!FillAt(in, q, i + gone)]]
  BY DEF B!AfterFills, S, B!Cardinality, Cardinality, B!IsFiniteSet
<1>8. Len(B!AfterFills(in, q)) = Len(q) - gone
  <2> HIDE DEF gone
  <2> QED
    BY <1>6, <1>7
<1> QED
  BY <1>6, <1>8

\* An order that is not filled and reaches the first order of a queue removes it.
LEMMA FillsRemoveTheFirst ==
  ASSUME NEW q \in Seq(B!Order), q # <<>>, NEW in, in.qty \in Nat \ {0},
         B!Reaches(in, q[1].price)
  PROVE  /\ B!Executed(in, q) > 0
         /\ B!Executed(in, q) < in.qty => Len(B!AfterFills(in, q)) < Len(q)
<1>1. /\ Len(q) \in Nat \ {0} /\ q[1] \in B!Order /\ q[1].qty \in Nat \ {0}
      /\ Tail(q) \in Seq(B!Order) /\ Len(Tail(q)) = Len(q) - 1
      /\ \A i \in 1..Len(q) : q[i] \in B!Order
  <2>1. /\ Len(q) \in Nat /\ \A i \in 1..Len(q) : q[i] \in B!Order /\ q[i].qty \in Nat \ {0}
        /\ Len(q) - 1 \in Nat /\ Tail(q) \in Seq(B!Order) /\ Len(Tail(q)) = Len(q) - 1
    BY Assumed, B!OrderIsRested, B!QueueFacts
  <2>2. 1 \in 1..Len(q)
    BY <2>1
  <2> QED
    BY <2>1, <2>2
<1>2. CASE q[1].qty <= in.qty
  <2> DEFINE out == [side |-> in.side, price |-> in.price, is_market |-> in.is_market,
                     qty |-> in.qty - q[1].qty]
  <2>1. out.qty = in.qty - q[1].qty /\ out.qty \in Nat
    BY <1>1, <1>2
  <2>2. B!WantsLess(in, out, q[1].qty)
    BY <1>1, <1>2 DEF B!WantsLess
  <2> HIDE DEF out
  <2>3. B!AfterFills(in, q) = B!AfterFills(out, Tail(q))
    BY <1>2, <2>2, Assumed, B!OrderIsRested, B!FullFill
  <2>4. B!Executed(in, q) = q[1].qty + B!Executed(out, Tail(q))
    BY <1>2, <2>2, Assumed, B!OrderIsRested, B!FullFill
  <2>5. Len(B!AfterFills(out, Tail(q))) \in Nat
        /\ Len(B!AfterFills(out, Tail(q))) <= Len(Tail(q))
    BY <1>1, FillsShorten
  <2>6. B!Executed(out, Tail(q)) \in Nat
    <3>1. B!Counted(B!Order)
      BY DEF B!Counted, B!Order
    <3>2. B!QtyOf(Tail(q), {i \in DOMAIN Tail(q) : B!Reaches(out, Tail(q)[i].price)}) \in Nat
      BY <1>1, <3>1, Assumed, B!QtyFacts
    <3> QED
      BY <2>1, <3>2 DEF B!Executed, B!Available, B!Smaller
  <2> QED
    BY <1>1, <2>3, <2>4, <2>5, <2>6
<1>3. CASE ~(q[1].qty <= in.qty)
  <2>1. in.qty < q[1].qty
    BY <1>1, <1>3
  <2>2. q \in Seq(B!Rested(B!Prices))
    BY Assumed, B!OrderIsRested
  <2> QED
    BY <2>1, <2>2, Assumed, B!PartTakesAll
<1> QED
  BY <1>2, <1>3

\* Nothing is taken exactly when the queue is left as it is, and less than asked for
\* only when the queue shrinks.
LEMMA TakingShortens ==
  ASSUME B!IInv, NEW side \in Sides, NEW in, in.is_market \/ in.price \in Int,
         in.side = OtherSide(side), in.qty \in Nat \ {0}
  PROVE  LET q == B!QueueOf(AbsLevels, side)
         IN  /\ B!Executed(in, q) = 0 => Len(B!AfterFills(in, q)) = Len(q)
             /\ B!Executed(in, q) # 0 /\ B!Executed(in, q) < in.qty =>
                  Len(B!AfterFills(in, q)) < Len(q)
<1> DEFINE q == B!QueueOf(AbsLevels, side)
<1>1. B!WellTyped(AbsLevels, AbsIndex) /\ side \in B!Sides
  BY BSameOperators DEF B!IInv
<1>2. q \in Seq(B!Order)
  BY <1>1, Assumed, B!QueueIsJoined
<1>3. CASE \A i \in 1..Len(q) : ~B!Reaches(in, q[i].price)
  <2> HIDE DEF q
  <2>1. in.qty \in Nat
    OBVIOUS
  <2>2. B!AfterFills(in, q) = q /\ B!Executed(in, q) = 0
    BY <1>2, <1>3, <2>1, Assumed, B!OrderIsRested, B!NothingFills
  <2> QED
    BY <2>2 DEF q
<1>4. CASE \E i \in 1..Len(q) : B!Reaches(in, q[i].price)
  <2>1. PICK i \in 1..Len(q) : B!Reaches(in, q[i].price)
    BY <1>4
  <2>2. B!Reaches(in, q[1].price)
    BY <2>1, FirstOrNone
  <2> HIDE DEF q
  <2>3. q # <<>>
    BY <2>1
  <2>4. /\ B!Executed(in, q) > 0
        /\ B!Executed(in, q) < in.qty => Len(B!AfterFills(in, q)) < Len(q)
    BY <1>2, <2>2, <2>3, FillsRemoveTheFirst
  <2> QED
    BY <2>4 DEF q
<1> QED
  BY <1>3, <1>4

\* A newcomer makes a queue longer by one.
LEMMA EnqueueLengthens ==
  ASSUME NEW q \in Seq(B!Order), NEW side, NEW x
  PROVE  Len(Enqueue(side, q, x)) = Len(q) + 1
<1> DEFINE S == {i \in DOMAIN q : AtLeastAsGood(side, q[i].price, x.price)}
           at == Cardinality(S) + 1
<1>1. Len(q) \in Nat /\ DOMAIN q = 1..Len(q)
  BY LenProperties
<1>2. IsFiniteSet(1..Len(q)) /\ Cardinality(1..Len(q)) = Len(q)
  BY <1>1, UpToN
<1>3. S \in SUBSET (1..Len(q))
  BY <1>1
<1>4. IsFiniteSet(S) /\ Cardinality(S) <= Len(q)
  BY <1>2, <1>3, FS_Subset
<1>5. Cardinality(S) \in Nat
  BY <1>4, FS_CardinalityType
<1> HIDE DEF S
<1>6. at \in 1..(Len(q) + 1)
  BY <1>1, <1>4, <1>5
<1>7. Enqueue(side, q, x) = SubSeq(q, 1, at - 1) \o <<x>> \o SubSeq(q, at, Len(q))
  BY DEF Enqueue, InsertAt, S
<1> HIDE DEF at
<1> DEFINE T == B!Order \cup {x}
<1>8. q \in Seq(T) /\ <<x>> \in Seq(T) /\ Len(<<x>>) = 1
  <2>1. q \in Seq(T)
    BY <1>1, ElementOfSeq
  <2> QED
    BY <2>1
<1>9. SubSeq(q, 1, at - 1) \in Seq(T) /\ Len(SubSeq(q, 1, at - 1)) = at - 1
  <2>1. \A i \in 1..(at - 1) : q[i] \in T
    BY <1>1, <1>6, ElementOfSeq
  <2> QED
    BY <1>1, <1>6, <2>1, SubSeqProperties
<1>10. SubSeq(q, at, Len(q)) \in Seq(T) /\ Len(SubSeq(q, at, Len(q))) = Len(q) + 1 - at
  <2>1. \A i \in at..Len(q) : q[i] \in T
    BY <1>1, <1>6, ElementOfSeq
  <2> QED
    BY <1>1, <1>6, <2>1, SubSeqProperties
<1> HIDE DEF T
<1> DEFINE l == SubSeq(q, 1, at - 1)
           r == SubSeq(q, at, Len(q))
<1> HIDE DEF l, r
<1>11. l \o <<x>> \in Seq(T) /\ Len(l \o <<x>>) = Len(l) + 1
  BY <1>8, <1>9, ConcatProperties DEF l
<1>12. Len(l \o <<x>> \o r) = Len(l \o <<x>>) + Len(r)
  BY <1>10, <1>11, ConcatProperties DEF r
<1>13. Len(l) = at - 1 /\ Len(r) = Len(q) + 1 - at /\ at \in Int
  BY <1>6, <1>9, <1>10 DEF l, r
<1>14. Enqueue(side, q, x) = l \o <<x>> \o r
  BY <1>7 DEF l, r
<1>15. Len(l \o <<x>> \o r) = Len(q) + 1
  BY <1>1, <1>11, <1>12, <1>13
<1> QED
  BY <1>14, <1>15

\* How many orders rest once the match is done.
LEMMA SizeOfMatched ==
  ASSUME NEW b, NEW in, in.side \in Sides, NEW canRest,
         \A side \in Sides : b[side] \in Seq(B!Order)
  PROVE  Promise!OrdersIn(Matched(b, in, canRest))
           = Len(AfterFills(in, b[OtherSide(in.side)])) + Len(b[in.side])
             + (IF in.qty - Executed(in, b[OtherSide(in.side)]) > 0 /\ canRest THEN 1 ELSE 0)
<1> DEFINE o == OtherSide(in.side)
           s == in.side
           left == in.qty - Executed(in, b[o])
           rested == [order_id |-> in.order_id, price |-> in.price, qty |-> left]
           stays == left > 0 /\ canRest
           m == Matched(b, in, canRest)
<1>1. /\ o \in Sides /\ s # o /\ \A t \in Sides : t = o \/ t = s
      /\ b[s] \in Seq(B!Order) /\ b[o] \in Seq(B!Order) /\ Len(b[s]) \in Nat
  BY LenProperties DEF OtherSide, Sides
<1> HIDE DEF left
<1>2. /\ m[o] = AfterFills(in, b[o])
      /\ m[s] = IF stays THEN Enqueue(s, b[s], rested) ELSE b[s]
  BY <1>1 DEF Matched, left
<1> HIDE DEF stays
<1>3. Len(m[s]) = Len(b[s]) + (IF stays THEN 1 ELSE 0)
  <2>1. Len(Enqueue(s, b[s], rested)) = Len(b[s]) + 1
    BY <1>1, EnqueueLengthens
  <2> HIDE DEF m, rested
  <2>2. CASE stays
    BY <1>2, <2>1, <2>2
  <2>3. CASE ~stays
    <3>1. Len(b[s]) \in Nat /\ m[s] = b[s]
      BY <1>1, <1>2, <2>3
    <3> QED
      BY <3>1, <2>3
  <2> QED
    BY <2>2, <2>3
<1> HIDE DEF m, rested
<1>4. Promise!OrdersIn(m) = Len(m[o]) + Len(m[s])
  <2>1. Len(m[o]) \in Int /\ Len(m[s]) \in Int
    BY <1>1, <1>2, <1>3, BSameMatching, FillsShorten DEF m
  <2>2. Promise!OrdersIn(m) = Len(m["Bid"]) + Len(m["Ask"])
    BY DEF Promise!OrdersIn
  <2>3. (s = "Bid" /\ o = "Ask") \/ (s = "Ask" /\ o = "Bid")
    BY <1>1 DEF OtherSide, Sides
  <2> DEFINE c(t) == Len(m[t])
  <2>4. c("Bid") \in Int /\ c("Ask") \in Int /\ Promise!OrdersIn(m) = c("Bid") + c("Ask")
    BY <2>1, <2>2, <2>3
  <2> HIDE DEF c
  <2>5. Promise!OrdersIn(m) = c(o) + c(s)
    BY <2>3, <2>4
  <2> QED
    BY <2>5 DEF c
<1>5. Len(m[o]) = Len(AfterFills(in, b[o])) /\ Len(m[o]) \in Nat
  BY <1>1, <1>2, BSameMatching, FillsShorten
<1> DEFINE one == IF stays THEN 1 ELSE 0
<1>6. one \in Nat
  OBVIOUS
<1> HIDE DEF one
<1>7. Len(m[s]) = Len(b[s]) + one
  BY <1>3 DEF one
<1> DEFINE x == Len(AfterFills(in, b[o]))
           y == Len(b[s])
<1>8. x \in Nat /\ y \in Nat /\ Len(m[o]) = x /\ Len(m[s]) = y + one
  BY <1>1, <1>5, <1>7
<1> HIDE DEF x, y
<1>9. Promise!OrdersIn(m) = x + (y + one)
  BY <1>4, <1>8
<1>10. x + (y + one) = x + y + one
  BY <1>6, <1>8
<1>11. Promise!OrdersIn(m) = x + y + one
  BY <1>9, <1>10
<1> QED
  BY <1>11 DEF left, m, one, stays, x, y

\* Between calls the queues have the type of the lists they are read from.
LEMMA BookTyped ==
  ASSUME B!IInv
  PROVE  \A side \in Sides : /\ Book[side] = B!QueueOf(AbsLevels, side)
                             /\ Book[side] \in Seq(B!Order)
<1>1. B!WellTyped(AbsLevels, AbsIndex)
  BY DEF B!IInv
<1>2. \A side \in Sides : B!QueueOf(AbsLevels, side) \in Seq(B!Order)
  BY <1>1, Assumed, BSameOperators, B!QueueIsJoined
<1>3. \A side \in Sides : Book[side] = B!QueueOf(AbsLevels, side)
  BY BookSeen, BSameOperators DEF B!QueuesOf
<1> QED
  BY <1>2, <1>3

\* What max_crossing_qty predicts is what will be executed.
LEMMA CrossingIsExecuted ==
  ASSUME B!AdmissionInv, NEW add \in Adds
  PROVE  MaxCrossingQty(add.side, MatchPrice(add), add.qty)
           = Executed(add, Book[OtherSide(add.side)])
<1> DEFINE side == add.side
           price == MatchPrice(add)
<1>1. /\ side \in Sides /\ OtherSide(side) \in Sides /\ add.qty \in 0..MaxQty /\ MaxQty \in Nat
  BY PoolAssumption DEF Adds, OtherSide, Sides
<1>2. /\ B!WellTyped(AbsLevels, AbsIndex) /\ B!Indexed(AbsLevels, AbsIndex)
      /\ B!TotalsExact(AbsLevels) /\ B!IInv
  BY DEF B!AdmissionInv, B!IInv
<1>3. B!SameReach(add, side, price)
  BY Assumed, BSameRequests, B!RequestReaches
<1> HIDE DEF side, price
<1>4. side \in B!Sides /\ add.qty \in Nat
  BY <1>1, BSameOperators
<1>5. B!CrossingQty(AbsLevels[B!OtherSide(side)], side, price, add.qty)
        = B!Executed(add, B!QueueOf(AbsLevels, B!OtherSide(side)))
  BY <1>2, <1>3, <1>4, Assumed, B!PredictionIsExecuted
<1>6. B!MaxCrossingQty(side, price, add.qty)
        = B!CrossingQty(AbsLevels[B!OtherSide(side)], side, price, add.qty)
  BY Assumed, B!PredictionOfLevels
<1>7. MaxCrossingQty(side, price, add.qty) = B!MaxCrossingQty(side, price, add.qty)
  BY <1>1, BCrossing
<1>8. B!QueueOf(AbsLevels, B!OtherSide(side)) = Book[OtherSide(side)]
  BY <1>1, <1>2, BookTyped, BSameOperators
<1>9. MaxCrossingQty(side, price, add.qty) = Executed(add, Book[OtherSide(side)])
  BY <1>5, <1>6, <1>7, <1>8, BSameMatching
<1> QED
  BY <1>9 DEF side, price

\* The pool has no slot for the order exactly when more orders would rest than the
\* pool can hold.
LEMMA OutOfSlotsMeans ==
  ASSUME IInv, B!AdmissionInv, NEW add \in Adds, add.qty > 0
  PROVE  OutOfSlots(add, Executed(add, Book[OtherSide(add.side)]))
           <=> /\ Promise!OrdersIn(Book) >= Capacity
               /\ Promise!OrdersIn(Matched(Book, add, CanRest(add))) > Capacity
<1> DEFINE s == add.side
           o == OtherSide(s)
           e == Executed(add, Book[o])
           x == Len(AfterFills(add, Book[o]))
           y == Len(Book[s])
           z == Len(Book[o])
           stays == add.qty - e > 0 /\ CanRest(add)
<1>1. /\ s \in Sides /\ o \in Sides /\ add.qty \in Nat \ {0} /\ s = OtherSide(o)
      /\ add.is_market \/ add.price \in Int
      /\ (s = "Bid" /\ o = "Ask") \/ (s = "Ask" /\ o = "Bid")
  <2>1. /\ s \in Sides /\ add.qty \in Nat /\ add.price \in Int
    <3>1. /\ add.side \in Sides /\ add.qty \in 0..MaxQty /\ add.price \in 0..MaxPrice
          /\ MaxQty \in Nat
      BY PoolAssumption DEF Adds
    <3> QED
      BY <3>1
  <2>2. add.qty \in Nat \ {0}
    BY <2>1
  <2> HIDE DEF s
  <2>3. /\ o \in Sides /\ s = OtherSide(o)
        /\ (s = "Bid" /\ o = "Ask") \/ (s = "Ask" /\ o = "Bid")
    BY <2>1 DEF OtherSide, Sides
  <2> QED
    BY <2>1, <2>2, <2>3
<1>2. B!IInv
  BY DEF B!AdmissionInv
<1>3. /\ Book[o] = B!QueueOf(AbsLevels, o) /\ Book[o] \in Seq(B!Order)
      /\ Book[s] = B!QueueOf(AbsLevels, s) /\ Book[s] \in Seq(B!Order)
  BY <1>1, <1>2, BookTyped
<1>4. /\ e = 0 => x = z
      /\ e # 0 /\ e < add.qty => x < z
  <2>1. LET q == B!QueueOf(AbsLevels, o)
        IN  /\ B!Executed(add, q) = 0 => Len(B!AfterFills(add, q)) = Len(q)
            /\ B!Executed(add, q) # 0 /\ B!Executed(add, q) < add.qty =>
                 Len(B!AfterFills(add, q)) < Len(q)
    <3> HIDE DEF o
    <3> QED
      BY <1>1, <1>2, TakingShortens DEF s
  <2> QED
    BY <2>1, <1>3, BSameMatching
<1>5. x \in Nat /\ x <= z /\ y \in Nat /\ z \in Nat
  <2>1. Len(B!AfterFills(add, Book[o])) \in Nat /\ Len(B!AfterFills(add, Book[o])) <= Len(Book[o])
    BY <1>3, FillsShorten
  <2> QED
    BY <1>3, <2>1, BSameMatching, LenProperties
<1>6. e \in Int
  <2>1. e = MaxCrossingQty(s, MatchPrice(add), add.qty)
    BY CrossingIsExecuted
  <2>2. MaxCrossingQty(s, MatchPrice(add), add.qty) \in 0..add.qty
    BY <1>1, CrossingBounded
  <2> QED
    BY <2>1, <2>2
<1>7. Promise!OrdersIn(Book) = y + z
  <2>1. Promise!OrdersIn(Book) = Len(Book["Bid"]) + Len(Book["Ask"])
    BY DEF Promise!OrdersIn
  <2> DEFINE c(t) == Len(Book[t])
  <2>2. c(s) \in Int /\ c(o) \in Int /\ Promise!OrdersIn(Book) = c("Bid") + c("Ask")
    BY <1>5, <2>1
  <2> HIDE DEF c, s
  <2> HIDE DEF o
  <2>3. Promise!OrdersIn(Book) = c(s) + c(o)
    BY <1>1, <2>2
  <2> QED
    BY <2>3 DEF c
<1>8. y + z \in Nat /\ y + z <= Capacity /\ (y + z >= Capacity <=> free_head = kInvalidSlot)
  <2> DEFINE n == Len(B!QueueOf(AbsLevels, "Bid")) + Len(B!QueueOf(AbsLevels, "Ask"))
  <2>1. n \in Nat /\ n <= Capacity /\ ((n >= Capacity) <=> (free_head = kInvalidSlot))
    BY <1>2, PoolIsFull
  <2>2. n = y + z
    <3>1. /\ Book["Bid"] = B!QueueOf(AbsLevels, "Bid")
          /\ Book["Ask"] = B!QueueOf(AbsLevels, "Ask")
      BY <1>2, BookTyped DEF Sides
    <3> QED
      BY <3>1, <1>7 DEF Promise!OrdersIn
  <2> HIDE DEF n
  <2> QED
    BY <2>1, <2>2
<1>9. Promise!OrdersIn(Matched(Book, add, CanRest(add))) = x + y + (IF stays THEN 1 ELSE 0)
  <2>1. \A side \in Sides : Book[side] \in Seq(B!Order)
    BY <1>2, BookTyped
  <2> QED
    BY <1>1, <2>1, SizeOfMatched
<1>10. OutOfSlots(add, e) <=> stays /\ free_head = kInvalidSlot /\ e = 0
  BY <1>1, <1>6 DEF OutOfSlots
<1> HIDE DEF e, x, y, z
<1>11. stays => e < add.qty
  BY <1>1, <1>6
<1> HIDE DEF stays
<1>12. OutOfSlots(add, e)
         <=> y + z >= Capacity /\ x + y + (IF stays THEN 1 ELSE 0) > Capacity
  <2>1. CASE stays
    <3>1. CASE e = 0
      BY <2>1, <3>1, <1>4, <1>5, <1>8, <1>10, PoolAssumption
    <3>2. CASE e # 0
      BY <2>1, <3>2, <1>4, <1>5, <1>8, <1>10, <1>11, PoolAssumption
    <3> QED
      BY <3>1, <3>2
  <2>2. CASE ~stays
    BY <2>2, <1>5, <1>8, <1>10, PoolAssumption
  <2> QED
    BY <2>1, <2>2
<1> QED
  BY <1>7, <1>9, <1>12 DEF e

\* The engine of the instance has room for every order its totals admit.
LEMMA RoomInB ==
  ASSUME B!AdmissionInv
  PROVE  ~(B!Promise!OrdersIn(Book) >= 2 * MaxPrice * MaxQty + 1)
<1> DEFINE cap == 2 * MaxPrice * MaxQty + 1
           n == B!Promise!OrdersIn(Book)
<1>1. B!IInv
  BY DEF B!AdmissionInv
<1>2. n = Len(B!QueuesOf(AbsLevels)["Bid"]) + Len(B!QueuesOf(AbsLevels)["Ask"])
  BY BookSeen DEF B!Promise!OrdersIn
<1>3. Len(B!QueuesOf(AbsLevels)["Bid"]) + Len(B!QueuesOf(AbsLevels)["Ask"]) < cap
  BY Assumed, B!NeverAtCapacity
<1>4. n \in Nat
  <2> DEFINE c(t) == Len(Book[t])
  <2>1. c("Bid") \in Nat /\ c("Ask") \in Nat
    BY <1>1, BookTyped, LenProperties DEF Sides
  <2>2. n = c("Bid") + c("Ask")
    BY DEF B!Promise!OrdersIn
  <2> HIDE DEF c, n
  <2> QED
    BY <2>1, <2>2
<1>5. cap \in Nat
  BY PoolAssumption
<1>6. n < cap
  BY <1>2, <1>3
<1> HIDE DEF cap, n
<1>7. ~(n >= cap)
  BY <1>4, <1>5, <1>6
<1> QED
  BY <1>7 DEF cap, n

\* Both promises refuse an add for the same reasons, up to the room in the book.
LEMMA PromisesRefuseAlike ==
  ASSUME B!AdmissionInv, Idle, NEW add
  PROVE  LET reason == B!Promise!AddError(Book, add)
         IN  Promise!AddError(Book, add) =
               IF reason # "None" THEN reason
               ELSE IF /\ Promise!OrdersIn(Book) >= Capacity
                       /\ Promise!OrdersIn(Matched(Book, add, Promise!CanRest(add))) > Capacity
                    THEN "CapacityExceeded"
               ELSE "None"
<1> DEFINE b         == Book
           e         == Executed(add, b[OtherSide(add.side)])
           badPrice  == ~add.is_market /\ add.price \notin Prices
           takes     == add.is_market /\ add.post_only
           badQty    == add.qty <= 0
           known     == Promise!Resting(b, add.order_id)
           short     == ~add.is_market /\ add.time_in_force = "FOK" /\ e < add.qty
           crosses   == add.post_only /\ e > 0
           overflows == \/ /\ Promise!CanRest(add)
                           /\ Promise!Overflows(QtyAtPrice(b[add.side], add.price), add.qty - e)
                        \/ Promise!Overflows(AbstractTradedQty, e)
           full      == /\ Promise!OrdersIn(b) >= Capacity
                        /\ Promise!OrdersIn(Matched(b, add, Promise!CanRest(add))) > Capacity
           full2     == /\ B!Promise!OrdersIn(b) >= 2 * MaxPrice * MaxQty + 1
                        /\ B!Promise!OrdersIn(B!Promise!Matched(b, add, B!Promise!CanRest(add)))
                             > 2 * MaxPrice * MaxQty + 1
           First(room) ==
             IF badPrice THEN Promise!PriceError(add.price)
             ELSE IF takes THEN "WouldTakeLiquidity"
             ELSE IF badQty THEN "InvalidQuantity"
             ELSE IF known THEN "DuplicateOrderId"
             ELSE IF short THEN "InsufficientLiquidity"
             ELSE IF crosses THEN "WouldTakeLiquidity"
             ELSE IF overflows THEN "QuantityOverflow"
             ELSE IF room THEN "CapacityExceeded"
             ELSE "None"
<1>1. ~full2
  BY RoomInB
<1> HIDE DEF b
<1>2. /\ \A s : Promise!OtherSide(s) = OtherSide(s)
      /\ \A s : B!Promise!OtherSide(s) = OtherSide(s)
  BY DEF Promise!OtherSide, B!Promise!OtherSide, OtherSide
<1>3. Promise!AddError(b, add) = First(full)
  BY <1>2, PromiseSameMatching DEF Promise!AddError
<1>4. B!Promise!AddError(b, add) = First(full2)
  <2>1. AbstractTradedQty = B!AbstractTradedQty
    BY MatchSeen
  <2>2. B!Prices = Prices
    BY BSameOperators
  <2> QED
    BY <1>2, <2>1, <2>2, BPromiseSameMatching, PromisesAlike DEF B!Promise!AddError
<1>5. Promise!PriceError(add.price) # "None"
  BY DEF Promise!PriceError
<1> HIDE DEF badPrice, takes, badQty, known, short, crosses, overflows, full, full2
<1>6. First(full) = IF First(full2) # "None" THEN First(full2)
                    ELSE IF full THEN "CapacityExceeded" ELSE "None"
  BY <1>1, <1>5
<1>7. Promise!AddError(b, add) =
        IF B!Promise!AddError(b, add) # "None" THEN B!Promise!AddError(b, add)
        ELSE IF full THEN "CapacityExceeded" ELSE "None"
  BY <1>3, <1>4, <1>6
<1> QED
  BY <1>7 DEF full, b

\* The engine refuses an add as its promise does.
LEMMA AddRefusalSeen ==
  ASSUME IInv, B!AdmissionInv, Idle, NEW add \in Adds
  PROVE  AddError(add) = Promise!AddError(Book, add)
<1> DEFINE reason == B!AddError(add)
           e == Executed(add, Book[OtherSide(add.side)])
<1>1. B!Idle
  BY BIdle
<1>2. reason = B!Promise!AddError(Book, add)
  BY <1>1, Assumed, BookSeen, B!AddErrorsAgree
<1>3. AddError(add) =
        IF reason # "None" THEN reason
        ELSE IF OutOfSlots(add, e) THEN "CapacityExceeded" ELSE "None"
  BY AddErrorSeen, CrossingIsExecuted
<1>4. Promise!AddError(Book, add) =
        IF reason # "None" THEN reason
        ELSE IF /\ Promise!OrdersIn(Book) >= Capacity
                /\ Promise!OrdersIn(Matched(Book, add, Promise!CanRest(add))) > Capacity
             THEN "CapacityExceeded"
        ELSE "None"
  BY <1>2, PromisesRefuseAlike
<1>5. CASE reason # "None"
  BY <1>3, <1>4, <1>5
<1>6. CASE reason = "None"
  <2>1. add.qty > 0
    <3>1. ~(add.qty <= 0)
      BY <1>6 DEF B!AddError
    <3>2. add.qty \in 0..MaxQty /\ MaxQty \in Nat
      BY PoolAssumption DEF Adds
    <3> QED
      BY <3>1, <3>2
  <2>2. Promise!CanRest(add) <=> CanRest(add)
    <3>1. add.is_market \in BOOLEAN /\ add.time_in_force \in Policies
      BY DEF Adds
    <3> QED
      BY <3>1 DEF Promise!CanRest, CanRest, MatchPolicy
  <2>3. Matched(Book, add, Promise!CanRest(add)) = Matched(Book, add, CanRest(add))
    BY <2>2 DEF Matched
  <2>4. OutOfSlots(add, e)
          <=> /\ Promise!OrdersIn(Book) >= Capacity
              /\ Promise!OrdersIn(Matched(Book, add, CanRest(add))) > Capacity
    BY <2>1, OutOfSlotsMeans
  <2> HIDE DEF reason, e
  <2> QED
    BY <1>3, <1>4, <1>6, <2>3, <2>4
<1> QED
  BY <1>5, <1>6

\* A replacement is refused as its promise does; the pool never runs out for one, as the
\* order it replaces has left a slot.
LEMMA ModifyRefusalSeen ==
  ASSUME IInv, B!AdmissionInv, Idle, NEW id \in OrderIds, NEW price \in 0..MaxPrice,
         NEW qty \in Quantities
  PROVE  ModifyError(id, price, qty) = Promise!ModifyError(Book, id, price, qty)
<1>1. B!Idle
  BY BIdle
<1>2. ModifyError(id, price, qty) = B!ModifyError(id, price, qty)
  BY ModifyErrorSeen
<1>3. B!ModifyError(id, price, qty) = B!Promise!ModifyError(Book, id, price, qty)
  BY <1>1, Assumed, BookSeen, B!ModifyErrorsAgree
<1> DEFINE b == Book
<1>4. Promise!ModifyError(b, id, price, qty) = B!Promise!ModifyError(b, id, price, qty)
  <2>1. AbstractTradedQty = B!AbstractTradedQty /\ B!Prices = Prices
    BY MatchSeen, BSameOperators
  <2>2. /\ \A s : Promise!OtherSide(s) = OtherSide(s)
        /\ \A s : B!Promise!OtherSide(s) = OtherSide(s)
    BY DEF Promise!OtherSide, B!Promise!OtherSide, OtherSide
  <2> HIDE DEF b
  <2> QED
    BY <2>1, <2>2, PromiseSameMatching, BPromiseSameMatching, PromisesAlike
       DEF Promise!ModifyError, B!Promise!ModifyError
<1> QED
  BY <1>2, <1>3, <1>4

\* The refusals agree wherever the invariant holds.
LEMMA PoolRefusals == PoolInv => RefusalsAgree
<1> SUFFICES ASSUME PoolInv, Idle
             PROVE  /\ \A add \in AddRequests : AddError(add) = Promise!AddError(Book, add)
                    /\ \A id \in OrderIds, price \in 0..MaxPrice, qty \in Quantities :
                         ModifyError(id, price, qty) = Promise!ModifyError(Book, id, price, qty)
  BY DEF RefusalsAgree
<1>1. IInv /\ B!AdmissionInv /\ AddRequests \subseteq Adds
  BY PoolAssumption DEF PoolInv
<1> QED
  BY <1>1, AddRefusalSeen, ModifyRefusalSeen

\* The pooled engine refuses what the baseline refuses and for the same reason, and beyond
\* that exactly the orders that would leave more of them resting than its pool has slots.
THEOREM PooledRefusesAlike == Spec => []RefusalsAgree
BY PoolInvariant, PoolRefusals, PTL

\* What the promise sees before a call.
LEMMA SeenIdle == Idle => AbstractQueue = Book /\ AbstractTrades = trades /\ AbstractTradedQty = traded_qty
BY DEF AbstractQueue, AbstractTrades, AbstractTradedQty

\* What the promise sees after a call that has returned.
LEMMA SeenIdleNext ==
  Idle' => AbstractQueue' = Book' /\ AbstractTrades' = trades' /\ AbstractTradedQty' = traded_qty'
BY DEF AbstractQueue, AbstractTrades, AbstractTradedQty

\* A refused call changes nothing a client sees but its error.
LEMMA RefusalSeen ==
  ASSUME Idle, Idle', AbsLevels' = AbsLevels, traded_qty' = traded_qty, trades' = <<>>
  PROVE  Promise!Refuse(Book, Promise!Seen')
<1>1. Book' = Book
  BY BookSeen, BookSeenNext
<1>2. /\ AbstractQueue' = Book /\ AbstractTrades' = <<>> /\ AbstractTradedQty' = AbstractTradedQty
  BY <1>1, SeenIdle, SeenIdleNext
<1> QED
  BY <1>2 DEF Promise!Refuse, Promise!Seen

\* A match the baseline makes at once is one the pooled engine makes at once.
LEMMA ExecutionSeen ==
  ASSUME NEW b, NEW in, NEW canRest, error' = "None",
         B!Promise!Execute(b, B!Promise!Seen', in, canRest)
  PROVE  Promise!Execute(b, Promise!Seen', in, canRest)
<1>1. /\ B!AbstractTrades' = B!Promise!TradesOf(in, b[B!Promise!OtherSide(in.side)])
      /\ B!AbstractQueue' = B!Promise!Matched(b, in, canRest)
      /\ B!AbstractTradedQty'
           = B!AbstractTradedQty + B!Promise!Executed(in, b[B!Promise!OtherSide(in.side)])
  BY DEF B!Promise!Execute, B!Promise!Seen
<1>2. Promise!OtherSide(in.side) = B!Promise!OtherSide(in.side)
  BY DEF Promise!OtherSide, B!Promise!OtherSide
<1>3. /\ AbstractTrades' = Promise!TradesOf(in, b[Promise!OtherSide(in.side)])
      /\ AbstractQueue' = Promise!Matched(b, in, canRest)
      /\ AbstractTradedQty'
           = AbstractTradedQty + Promise!Executed(in, b[Promise!OtherSide(in.side)])
  BY <1>1, <1>2, MatchSeen, MatchSeenNext, PromiseSameMatching, BPromiseSameMatching
<1> QED
  BY <1>3 DEF Promise!Execute, Promise!Seen

\* A request whose policy has been judged matches as the request does.
LEMMA PlainExecution ==
  ASSUME NEW add \in Adds, NEW b, NEW after,
         B!Promise!Execute(b, after, Plain(add), B!Promise!CanRest(Plain(add)))
  PROVE  B!Promise!Execute(b, after, add, B!Promise!CanRest(add))
<1> DEFINE plain == Plain(add)
           q == b[B!Promise!OtherSide(add.side)]
<1>1. /\ plain.order_id = add.order_id /\ plain.side = add.side /\ plain.price = add.price
      /\ plain.qty = add.qty /\ plain.is_market = add.is_market
      /\ plain.time_in_force = (IF CanRest(add) THEN "GTC" ELSE "IOC")
  BY PlainFacts
<1> HIDE DEF plain
<1>2. B!Promise!CanRest(plain) = B!Promise!CanRest(add)
  <2>1. B!Promise!CanRest(plain) <=> B!Promise!CanRest(add)
    BY <1>1 DEF B!Promise!CanRest, CanRest, MatchPolicy
  <2> QED
    BY <2>1, Zenon DEF B!Promise!CanRest
<1>3. \A p : B!Reaches(plain, p) <=> B!Reaches(add, p)
  BY <1>1 DEF B!Reaches
<1>4. /\ B!TradesOf(plain, q) = B!TradesOf(add, q)
      /\ B!Executed(plain, q) = B!Executed(add, q)
  BY <1>1, <1>3, Assumed, B!SameReachSameFills
<1> DEFINE canRest == B!Promise!CanRest(add)
<1> HIDE DEF canRest
<1>5. B!Matched(b, plain, canRest) = B!Matched(b, add, canRest)
  BY <1>1, <1>3, Assumed, B!SameReachSameBook
<1>6. /\ B!Promise!TradesOf(plain, q) = B!Promise!TradesOf(add, q)
      /\ B!Promise!Executed(plain, q) = B!Promise!Executed(add, q)
      /\ B!Promise!Matched(b, plain, canRest) = B!Promise!Matched(b, add, canRest)
  BY <1>4, <1>5, BSameMatching, BPromiseSameMatching
<1>7. B!Promise!Execute(b, after, plain, canRest)
  BY <1>2 DEF plain, canRest
<1>8. B!Promise!Execute(b, after, add, canRest)
  BY <1>1, <1>6, <1>7 DEF B!Promise!Execute, q
<1> QED
  BY <1>8 DEF canRest

\* An add of the pooled engine is the atomic add of the promise.
LEMMA PoolAddMaps ==
  ASSUME PoolInv, NEW add \in AddRequests, Add(add)
  PROVE  Promise!Add(Book, Promise!Seen', add)
<1> DEFINE b == Book
<1>1. /\ IInv /\ B!AdmissionInv /\ Idle /\ add \in Adds
  BY PoolAssumption DEF PoolInv, Add
<1>2. AddError(add) = Promise!AddError(b, add)
  BY <1>1, AddRefusalSeen
<1>3. Promise!Seen'.error = error'
  BY DEF Promise!Seen
<1>4. CASE AddError(add) # "None"
  <2>1. Reject(AddError(add))
    BY <1>4 DEF Add
  <2>2. /\ Idle' /\ trades' = <<>> /\ error' = AddError(add)
        /\ AbsLevels' = AbsLevels /\ traded_qty' = traded_qty
    BY <1>1, <2>1, RejectSeen
  <2>3. Promise!Refuse(b, Promise!Seen')
    BY <1>1, <2>2, RefusalSeen
  <2> HIDE DEF b
  <2>4. Promise!Add(b, Promise!Seen', add)
    BY <1>2, <1>3, <1>4, <2>2, <2>3 DEF Promise!Add
  <2> QED
    BY <2>4 DEF b
<1>5. CASE AddError(add) = "None"
  <2> DEFINE plain == Plain(add)
  <2>1. plain \in Adds /\ B!Add(plain) /\ error' = "None"
    BY <1>1, <1>5, AddSeen DEF Add
  <2>2. b = B!QueuesOf(AbsLevels)
    BY BookSeen
  <2> HIDE DEF b
  <2>3. B!Promise!Add(b, B!Promise!Seen', plain)
    BY <1>1, <2>1, <2>2, Assumed, B!AddMaps
  <2>4. B!AddError(plain) = "None"
    <3>1. B!AddError(add) = "None"
      BY <1>1, <1>5, AddErrorSeen
    <3> QED
      BY <1>1, <3>1, PlainAdmitted
  <2>5. B!Promise!AddError(b, plain) = "None"
    BY <1>1, <2>1, <2>2, <2>4, Assumed, BIdle, B!AddErrorsAgree
  <2>6. B!Promise!Execute(b, B!Promise!Seen', plain, B!Promise!CanRest(plain))
    BY <2>3, <2>5 DEF B!Promise!Add
  <2> DEFINE canRest == B!Promise!CanRest(add)
  <2>7. B!Promise!Execute(b, B!Promise!Seen', add, canRest)
    BY <1>1, <2>6, PlainExecution DEF plain
  <2> HIDE DEF canRest, plain
  <2>8. Promise!Execute(b, Promise!Seen', add, canRest)
    BY <2>1, <2>7, ExecutionSeen
  <2>9. canRest = Promise!CanRest(add)
    BY DEF canRest, B!Promise!CanRest, Promise!CanRest
  <2>10. Promise!Add(b, Promise!Seen', add)
    BY <1>2, <1>3, <1>5, <2>1, <2>8, <2>9 DEF Promise!Add
  <2> QED
    BY <2>10 DEF b
<1> QED
  BY <1>4, <1>5

\* A cancel of the pooled engine is the atomic cancel of the promise.
LEMMA PoolCancelMaps ==
  ASSUME PoolInv, NEW id \in OrderIds, Cancel(id)
  PROVE  Promise!Cancel(Book, Promise!Seen', id)
<1> DEFINE b == Book
<1>1. IInv /\ B!AdmissionInv /\ B!IInv /\ Idle
  BY BIInv DEF PoolInv, Cancel
<1>2. b = B!QueuesOf(AbsLevels)
  BY BookSeen
<1>3. Promise!Resting(b, id) <=> id \in DOMAIN order_index
  <2>1. B!Promise!Resting(b, id) <=> id \in DOMAIN AbsIndex
    BY <1>1, <1>2, Assumed, B!RestingIsIndexed
  <2>2. DOMAIN AbsIndex = DOMAIN order_index
    BY DEF AbsIndex, Places
  <2> HIDE DEF b
  <2> QED
    BY <2>1, <2>2, PromisesAlike
<1>4. Promise!Seen'.error = error'
  BY DEF Promise!Seen
<1>5. CASE id \notin DOMAIN order_index
  <2>1. Reject("UnknownOrderId")
    BY <1>5 DEF Cancel
  <2>2. /\ Idle' /\ trades' = <<>> /\ error' = "UnknownOrderId"
        /\ AbsLevels' = AbsLevels /\ traded_qty' = traded_qty
    BY <1>1, <2>1, RejectSeen
  <2>3. Promise!Refuse(b, Promise!Seen')
    BY <1>1, <2>2, RefusalSeen
  <2> HIDE DEF b
  <2>4. Promise!Cancel(b, Promise!Seen', id)
    BY <1>3, <1>4, <1>5, <2>2, <2>3 DEF Promise!Cancel
  <2> QED
    BY <2>4 DEF b
<1>6. CASE id \in DOMAIN order_index
  <2>1. /\ error' = "None" /\ trades' = <<>> /\ traded_qty' = traded_qty /\ incoming' = incoming
        /\ RemoveOrder(id)
    BY <1>6 DEF Cancel
  <2>2. Idle'
    BY <1>1, <2>1 DEF Idle, NoOrder
  <2>3. AbsLevels' = B!LevelsWithout(id) /\ id \in DOMAIN AbsIndex
    BY <1>1, <1>6, <2>1, RemoveOrderSeen
  <2>4. B!Promise!Withdrawn(b, id) = B!QueuesOf(AbsLevels')
    BY <1>1, <1>2, <2>3, Assumed, B!WithdrawnIs
  <2>5. Book' = Promise!Withdrawn(b, id)
    <3> HIDE DEF b
    <3> QED
      BY <2>4, BookSeenNext, PromisesAlike
  <2>6. /\ AbstractQueue' = Promise!Withdrawn(b, id) /\ AbstractTrades' = <<>>
        /\ AbstractTradedQty' = AbstractTradedQty
    BY <1>1, <2>1, <2>2, <2>5, SeenIdle, SeenIdleNext
  <2> HIDE DEF b
  <2>7. Promise!Cancel(b, Promise!Seen', id)
    BY <1>3, <1>6, <2>1, <2>6 DEF Promise!Cancel, Promise!Seen
  <2> QED
    BY <2>7 DEF b
<1> QED
  BY <1>5, <1>6

\* A modify of the pooled engine is the atomic modify of the promise.
LEMMA PoolModifyMaps ==
  ASSUME PoolInv, NEW id \in OrderIds, NEW price \in 0..MaxPrice, NEW qty \in Quantities,
         Modify(id, price, qty)
  PROVE  Promise!Modify(Book, Promise!Seen', id, price, qty)
<1> DEFINE b == Book
<1>1. IInv /\ B!AdmissionInv /\ Idle
  BY DEF PoolInv, Modify
<1>2. ModifyError(id, price, qty) = Promise!ModifyError(b, id, price, qty)
  BY <1>1, ModifyRefusalSeen
<1>3. Promise!Seen'.error = error'
  BY DEF Promise!Seen
<1>4. CASE ModifyError(id, price, qty) # "None"
  <2>1. Reject(ModifyError(id, price, qty))
    BY <1>4 DEF Modify
  <2>2. /\ Idle' /\ trades' = <<>> /\ error' = ModifyError(id, price, qty)
        /\ AbsLevels' = AbsLevels /\ traded_qty' = traded_qty
    BY <1>1, <2>1, RejectSeen
  <2>3. Promise!Refuse(b, Promise!Seen')
    BY <1>1, <2>2, RefusalSeen
  <2> HIDE DEF b
  <2>4. Promise!Modify(b, Promise!Seen', id, price, qty)
    BY <1>2, <1>3, <1>4, <2>2, <2>3 DEF Promise!Modify
  <2> QED
    BY <2>4 DEF b
<1>5. CASE ModifyError(id, price, qty) = "None"
  <2>1. B!Modify(id, price, qty) /\ error' = "None"
    BY <1>1, <1>5, ModifySeen
  <2>2. b = B!QueuesOf(AbsLevels)
    BY BookSeen
  <2> HIDE DEF b
  <2>3. B!Promise!Modify(b, B!Promise!Seen', id, price, qty)
    BY <1>1, <2>1, <2>2, Assumed, B!ModifyMaps
  <2>4. B!Promise!ModifyError(b, id, price, qty) = "None"
    <3>1. B!ModifyError(id, price, qty) = "None"
      BY <1>1, <1>5, ModifyErrorSeen
    <3> QED
      BY <1>1, <2>2, <3>1, Assumed, BIdle, B!ModifyErrorsAgree
  <2> DEFINE rest == B!Promise!Withdrawn(b, id)
             new == B!Promise!Replacement(b, id, price, qty)
             canRest == TRUE
  <2>5. B!Promise!Execute(rest, B!Promise!Seen', new, canRest)
    BY <2>3, <2>4 DEF B!Promise!Modify
  <2> HIDE DEF rest, new, canRest
  <2>6. Promise!Execute(rest, Promise!Seen', new, canRest)
    BY <2>1, <2>5, ExecutionSeen
  <2>7. rest = Promise!Withdrawn(b, id) /\ new = Promise!Replacement(b, id, price, qty)
    BY PromisesAlike DEF rest, new
  <2>8. Promise!Execute(Promise!Withdrawn(b, id), Promise!Seen',
                        Promise!Replacement(b, id, price, qty), TRUE)
    BY <2>6, <2>7 DEF canRest
  <2>9. Promise!Modify(b, Promise!Seen', id, price, qty)
    BY <1>2, <1>3, <1>5, <2>1, <2>8 DEF Promise!Modify
  <2> QED
    BY <2>9 DEF b
<1> QED
  BY <1>4, <1>5

\* There is no level; a client sees no order.
NoLevels == \A side \in Sides : AbsLevels[side] = <<>>
NothingRests == \A side \in Sides : Book[side] = <<>>

\* Without a level a client sees no order.
LEMMA NoLevelsNoOrders == B!IInv /\ NoLevels => NothingRests
<1> SUFFICES ASSUME B!IInv, NoLevels, NEW side \in Sides
             PROVE  Book[side] = <<>>
  BY DEF NothingRests
<1> DEFINE q == B!QueueOf(AbsLevels, side)
<1>1. B!WellTyped(AbsLevels, AbsIndex) /\ B!Indexed(AbsLevels, AbsIndex) /\ side \in B!Sides
  BY BSameOperators DEF B!IInv
<1>2. PICK ends : B!Queued(AbsLevels, side, ends)
  BY <1>1, Assumed, B!QueueIsJoined
<1>3. Book[side] = q /\ q \in Seq(B!Order)
  BY BookTyped
<1>4. ASSUME NEW i \in 1..Len(q) PROVE FALSE
  <2>1. B!PlacedOrder(AbsLevels, AbsIndex, side, ends, i)
    BY <1>1, <1>2, Assumed, B!EveryPlaceIsInAList
  <2> DEFINE orders(k) == B!OrdersAt(AbsLevels, side, B!Ranked(side, k))
  <2>2. \E k \in 1..MaxPrice : \E j \in 1..Len(orders(k)) : TRUE
    BY <2>1 DEF B!PlacedOrder
  <2>3. DOMAIN AbsLevels[side] = {}
    BY DEF NoLevels
  <2>4. \A k : orders(k) = <<>>
    BY <2>3 DEF B!OrdersAt
  <2> HIDE DEF orders
  <2>5. \A k : Len(orders(k)) = 0
    BY <2>4
  <2> QED
    BY <2>2, <2>5
<1> HIDE DEF q
<1>5. q = <<>>
  BY <1>3, <1>4, EmptySeq
<1> QED
  BY <1>3, <1>5

\* The same after a step.
LEMMA NoLevelsNoOrdersNext == B!IInv' /\ NoLevels' => NothingRests'
<1>1. (B!IInv /\ NoLevels => NothingRests)'
  BY NoLevelsNoOrders, PTL
<1> QED
  BY <1>1

\* A second reserve_orders starts afresh.
LEMMA ReserveForgets ==
  ASSUME PoolInv, Reserve
  PROVE  Forgotten
<1>1. /\ B!AdmissionInv' /\ traded_qty' = 0
      /\ \A side \in Sides : AbsLevels'[side] = <<>>
  BY ReserveSeen DEF PoolInv
<1>2. B!IInv'
  BY <1>1 DEF B!AdmissionInv
<1>3. NoLevels'
  BY <1>1 DEF NoLevels
<1>4. NothingRests'
  BY <1>2, <1>3, NoLevelsNoOrdersNext
<1>5. \A side \in Sides : Book'[side] = <<>>
  BY <1>4 DEF NothingRests
<1> QED
  BY <1>1, <1>5 DEF Forgotten

\* Every step of the pooled engine is a call of the promise, a fresh start, or changes
\* nothing a client sees.
LEMMA PoolStepMaps ==
  PoolInv /\ [Next]_vars => [Promise!Next \/ Forgotten]_(Promise!bookVars)
<1> SUFFICES ASSUME PoolInv, [Next]_vars
             PROVE  Promise!Next \/ Forgotten \/ UNCHANGED Promise!bookVars
  OBVIOUS
<1>1. CASE UNCHANGED vars
  <2>1. /\ AbsLevels' = AbsLevels /\ AbsIndex' = AbsIndex /\ AbsIncoming' = AbsIncoming
        /\ traded_qty' = traded_qty /\ trades' = trades /\ error' = error /\ Idle' = Idle
    BY <1>1, Unchanged
  <2>2. Book' = Book
    BY <2>1, BookSeen, BookSeenNext
  <2>3. incoming' = incoming
    BY <1>1 DEF vars
  <2>4. Opposing' = Opposing
    BY <2>2, <2>3 DEF Opposing
  <2>5. AbstractQueue' = AbstractQueue
    BY <2>1, <2>2, <2>3 DEF AbstractQueue
  <2>6. AbstractTrades' = AbstractTrades /\ AbstractTradedQty' = AbstractTradedQty
    BY <2>1, <2>3, <2>4 DEF AbstractTrades, AbstractTradedQty
  <2> QED
    BY <2>1, <2>5, <2>6 DEF Promise!bookVars
<1>2. CASE Reserve
  BY <1>2, ReserveForgets
<1>3. CASE \E add \in AddRequests : Add(add)
  <2>1. PICK add \in AddRequests : Add(add)
    BY <1>3
  <2>2. Promise!Add(Book, Promise!Seen', add) /\ AbstractQueue = Book
    BY <2>1, PoolAddMaps, SeenIdle DEF Add
  <2> QED
    BY <2>2 DEF Promise!Next
<1>4. CASE \E id \in OrderIds : Cancel(id)
  <2>1. PICK id \in OrderIds : Cancel(id)
    BY <1>4
  <2>2. Promise!Cancel(Book, Promise!Seen', id) /\ AbstractQueue = Book
    BY <2>1, PoolCancelMaps, SeenIdle DEF Cancel
  <2> QED
    BY <2>2 DEF Promise!Next
<1>5. CASE \E id \in OrderIds, price \in 0..MaxPrice, qty \in Quantities : Modify(id, price, qty)
  <2>1. PICK id \in OrderIds, price \in 0..MaxPrice, qty \in Quantities : Modify(id, price, qty)
    BY <1>5
  <2>2. Promise!Modify(Book, Promise!Seen', id, price, qty) /\ AbstractQueue = Book
    BY <2>1, PoolModifyMaps, SeenIdle DEF Modify
  <2> QED
    BY <2>2 DEF Promise!Next
<1>6. CASE Fill \/ Rest \/ Return
  BY <1>6, LoopStutters
<1> QED
  BY <1>1, <1>2, <1>3, <1>4, <1>5, <1>6 DEF Next

\* The empty pool is the empty promise.
LEMMA PoolInitMaps == Init => Promise!Init
<1> SUFFICES ASSUME Init PROVE Promise!Init
  OBVIOUS
<1>1. Idle
  BY DEF Init, Idle
<1>2. AbsIncoming = NoOrder
  BY <1>1 DEF AbsIncoming
<1>3. AbsLevels = [side \in Sides |-> <<>>] /\ AbsIndex = <<>>
  BY DEF Init, EmptyLevels, EmptyIndex, AbsLevels, AbsIndex, Image, Places
<1>4. B!Init
  BY <1>2, <1>3, BSameOperators DEF Init, B!Init
<1>5. B!Promise!Init
  BY <1>4, Assumed, B!InitMaps
<1>6. /\ AbstractQueue = [side \in B!Promise!Sides |-> <<>>]
      /\ AbstractTradedQty = 0 /\ AbstractTrades = <<>>
  BY <1>5, MatchSeen DEF B!Promise!Init
<1>7. B!Promise!Sides = Promise!Sides
  BY DEF B!Promise!Sides, Promise!Sides
<1> QED
  BY <1>6, <1>7 DEF Init, Promise!Init

\* The pooled engine is the price-time queue of bounded size: each call has the effect of
\* one atomic call on it, and reserve_orders on a book in use empties it, whatever the
\* requests, the pool and the order in which its slots were used.
THEOREM PooledEngineIsPriceTime == Spec => ImplementsPriceTimeBook
<1>1. Init => Promise!Init
  BY PoolInitMaps
<1>2. PoolInv /\ [Next]_vars => [Promise!Next \/ Forgotten]_(Promise!bookVars)
  BY PoolStepMaps
<1> QED
  BY <1>1, <1>2, PoolInvariant, PTL DEF Spec, ImplementsPriceTimeBook
==============================================================================
