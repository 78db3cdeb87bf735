-------------------------- MODULE EventReplayProofs --------------------------
(***************************************************************************)
(* Lemmas about the direct replay of a sequence of events, for every       *)
(* sequence: those who apply events one by one get what it gets.           *)
(***************************************************************************)
EXTENDS EventReplay, Induction, SequenceTheorems

\* The states after the first n events.
StatesAfter(input, after) ==
  after = [n \in 0..Len(input) |-> IF n = 0 THEN Fresh ELSE Process(after[n - 1], input[n])]

\* They exist, so the replay is the last of them.
LEMMA ReplayIsLastState ==
  ASSUME NEW input, Len(input) \in Nat
  PROVE  \E after : StatesAfter(input, after) /\ Replay(input) = after[Len(input)]
  <1> DEFINE UpTo(n, after) ==
               after = [k \in 0..n |-> IF k = 0 THEN Fresh ELSE Process(after[k - 1], input[k])]
             reached == {n \in Nat : \E after : UpTo(n, after)}
  <1>1. 0 \in reached
    <2>1. UpTo(0, [k \in 0..0 |-> Fresh])
      OBVIOUS
    <2> QED
      BY <2>1
  <1>2. ASSUME NEW n \in Nat, n \in reached
        PROVE  n + 1 \in reached
    <2>1. PICK after : UpTo(n, after)
      BY <1>2
    <2> DEFINE longer ==
                 [k \in 0..(n + 1) |-> IF k <= n THEN after[k] ELSE Process(after[n], input[n + 1])]
    <2>2. UpTo(n + 1, longer)
      BY <2>1
    <2> HIDE DEF UpTo, longer
    <2>3. \E f : UpTo(n + 1, f)
      BY <2>2
    <2> QED
      BY <2>3
  <1>3. Len(input) \in reached
    <2> HIDE DEF reached
    <2> QED
      BY <1>1, <1>2, NaturalsAreReached
  <1> QED
    BY <1>3 DEF Replay, StatesAfter

\* The replay of no events is a fresh book.
LEMMA ReplayOfNothing == Replay(<<>>) = Fresh
  <1>1. Len(<<>>) = 0
    OBVIOUS
  <1>2. PICK after : StatesAfter(<<>>, after) /\ Replay(<<>>) = after[Len(<<>>)]
    BY <1>1, ReplayIsLastState
  <1> QED
    BY <1>1, <1>2 DEF StatesAfter

\* One more event is one more step of the replay.
LEMMA ReplayOfAppend ==
  ASSUME NEW S, NEW input \in Seq(S), NEW event \in S
  PROVE  Replay(Append(input, event)) = Process(Replay(input), event)
  <1> DEFINE more == Append(input, event)
  <1>1. /\ more \in Seq(S) /\ Len(more) = Len(input) + 1 /\ Len(input) \in Nat
        /\ more[Len(input) + 1] = event
        /\ \A i \in 1..Len(input) : more[i] = input[i]
    BY AppendProperties, LenProperties
  <1> HIDE DEF more
  <1>2. PICK old : StatesAfter(input, old) /\ Replay(input) = old[Len(input)]
    BY <1>1, ReplayIsLastState
  <1>3. PICK new : StatesAfter(more, new) /\ Replay(more) = new[Len(more)]
    BY <1>1, ReplayIsLastState
  <1>4. /\ old[0] = Fresh /\ \A n \in 1..Len(input) : old[n] = Process(old[n - 1], input[n])
    <2>1. old = [n \in 0..Len(input) |-> IF n = 0 THEN Fresh ELSE Process(old[n - 1], input[n])]
      BY <1>2 DEF StatesAfter
    <2>2. 0 \in 0..Len(input) /\ \A n \in 1..Len(input) : n \in 0..Len(input) /\ n # 0
      BY <1>1
    <2> QED
      BY <2>1, <2>2, Zenon
  <1>5. /\ new[0] = Fresh
        /\ \A n \in 1..(Len(input) + 1) : new[n] = Process(new[n - 1], more[n])
    <2>1. new = [n \in 0..(Len(input) + 1) |-> IF n = 0 THEN Fresh ELSE Process(new[n - 1], more[n])]
      BY <1>1, <1>3 DEF StatesAfter
    <2>2. 0 \in 0..(Len(input) + 1) /\ \A n \in 1..(Len(input) + 1) : n \in 0..(Len(input) + 1) /\ n # 0
      BY <1>1
    <2> QED
      BY <2>1, <2>2, Zenon
  <1> DEFINE same == {n \in Nat : n <= Len(input) => new[n] = old[n]}
  <1>6. 0 \in same
    BY <1>4, <1>5
  <1>7. ASSUME NEW n \in Nat, n \in same
        PROVE  n + 1 \in same
    <2> SUFFICES ASSUME n + 1 <= Len(input) PROVE new[n + 1] = old[n + 1]
      OBVIOUS
    <2>1. /\ n + 1 \in 1..Len(input) /\ n + 1 \in 1..(Len(input) + 1)
          /\ (n + 1) - 1 = n /\ n <= Len(input)
      BY <1>1
    <2>2. old[n + 1] = Process(old[n], input[n + 1]) /\ new[n + 1] = Process(new[n], more[n + 1])
      BY <2>1, <1>4, <1>5
    <2>3. more[n + 1] = input[n + 1] /\ new[n] = old[n]
      BY <2>1, <1>1, <1>7
    <2> QED
      BY <2>2, <2>3
  <1>8. \A n \in Nat : n \in same
    <2> HIDE DEF same
    <2> QED
      BY <1>6, <1>7, NaturalsAreReached
  <1>9. new[Len(input)] = old[Len(input)]
    BY <1>1, <1>8
  <1>10. new[Len(input) + 1] = Process(new[Len(input)], more[Len(input) + 1])
    <2>1. Len(input) + 1 \in 1..(Len(input) + 1) /\ (Len(input) + 1) - 1 = Len(input)
      BY <1>1
    <2> QED
      BY <2>1, <1>5
  <1> QED
    BY <1>1, <1>2, <1>3, <1>9, <1>10 DEF more

\* An event is refused or not, and adds that to the count and to nothing else.
LEMMA ProcessFacts ==
  ASSUME NEW state, NEW event, state.rejected \in Nat,
         DOMAIN state = {"book", "trades", "rejected"}
  PROVE  /\ DOMAIN Process(state, event) = {"book", "trades", "rejected"}
         /\ Process(state, event).rejected =
              IF Refused(state, event) THEN state.rejected + 1 ELSE state.rejected
  BY DEF Process

\* Every replay is a state of a book, and refuses no more events than there are.
LEMMA ReplayIsState ==
  ASSUME NEW input, Len(input) \in Nat
  PROVE  /\ DOMAIN Replay(input) = {"book", "trades", "rejected"}
         /\ Replay(input).rejected \in 0..Len(input)
  <1>1. PICK after : StatesAfter(input, after) /\ Replay(input) = after[Len(input)]
    BY ReplayIsLastState
  <1>2. /\ after[0] = Fresh
        /\ \A n \in 1..Len(input) : after[n] = Process(after[n - 1], input[n])
    BY <1>1 DEF StatesAfter
  <1> DEFINE good == {n \in Nat : n <= Len(input) =>
                        /\ DOMAIN after[n] = {"book", "trades", "rejected"}
                        /\ after[n].rejected \in 0..n}
  <1>3. 0 \in good
    BY <1>2 DEF Fresh
  <1>4. ASSUME NEW n \in Nat, n \in good
        PROVE  n + 1 \in good
    <2> SUFFICES ASSUME n + 1 <= Len(input)
                 PROVE  /\ DOMAIN after[n + 1] = {"book", "trades", "rejected"}
                        /\ after[n + 1].rejected \in 0..(n + 1)
      OBVIOUS
    <2>1. n + 1 \in 1..Len(input) /\ (n + 1) - 1 = n /\ n <= Len(input)
      OBVIOUS
    <2>2. after[n + 1] = Process(after[n], input[n + 1])
      BY <2>1, <1>2
    <2>3. DOMAIN after[n] = {"book", "trades", "rejected"} /\ after[n].rejected \in 0..n
      BY <2>1, <1>4
    <2>4. /\ DOMAIN Process(after[n], input[n + 1]) = {"book", "trades", "rejected"}
          /\ Process(after[n], input[n + 1]).rejected \in {after[n].rejected, after[n].rejected + 1}
      <3> DEFINE state == after[n]
                 event == input[n + 1]
      <3>1. DOMAIN state = {"book", "trades", "rejected"} /\ state.rejected \in Nat
        BY <2>3
      <3> HIDE DEF state, event
      <3>2. /\ DOMAIN Process(state, event) = {"book", "trades", "rejected"}
            /\ Process(state, event).rejected =
                 IF Refused(state, event) THEN state.rejected + 1 ELSE state.rejected
        BY <3>1, ProcessFacts
      <3>3. Process(state, event).rejected \in {state.rejected, state.rejected + 1}
        BY <3>2
      <3> QED
        BY <3>2, <3>3 DEF state, event
    <2> QED
      BY <2>2, <2>3, <2>4
  <1>5. \A n \in Nat : n \in good
    <2> HIDE DEF good
    <2> QED
      BY <1>3, <1>4, NaturalsAreReached
  <1> QED
    BY <1>1, <1>5

\* The first n events of an input.
LEMMA FirstPart ==
  ASSUME NEW S, NEW input \in Seq(S), NEW n \in 0..Len(input)
  PROVE  /\ SubSeq(input, 1, n) \in Seq(S)
         /\ SubSeq(input, 1, n) = [i \in 1..n |-> input[i]]
         /\ Len(SubSeq(input, 1, n)) = n
  <1>1. Len(input) \in Nat /\ n \in Nat /\ n <= Len(input)
    BY LenProperties
  <1>2. SubSeq(input, 1, n) = [i \in 1..n |-> input[i]]
    BY <1>1
  <1>3. \A i \in 1..n : input[i] \in S
    <2>1. \A i \in 1..n : i \in 1..Len(input)
      BY <1>1
    <2> QED
      BY <2>1, ElementOfSeq
  <1>4. SubSeq(input, 1, n) \in [1..n -> S]
    BY <1>2, <1>3
  <1>5. SubSeq(input, 1, n) \in Seq(S)
    BY <1>1, <1>4, SeqDef
  <1> QED
    BY <1>1, <1>2, <1>4, <1>5, LenProperties

LEMMA FirstPartOfAll ==
  ASSUME NEW S, NEW input \in Seq(S)
  PROVE  SubSeq(input, 1, Len(input)) = input
  <1>1. Len(input) \in Nat /\ Len(input) \in 0..Len(input)
    BY LenProperties
  <1>2. /\ SubSeq(input, 1, Len(input)) \in Seq(S)
        /\ Len(SubSeq(input, 1, Len(input))) = Len(input)
        /\ \A i \in 1..Len(input) : SubSeq(input, 1, Len(input))[i] = input[i]
    BY <1>1, FirstPart
  <1> QED
    BY <1>2, SeqEqual

\* One event more of the input is one more step of the replay.
LEMMA ReplayOfNext ==
  ASSUME NEW S, NEW input \in Seq(S), NEW n \in Nat, n < Len(input)
  PROVE  Replay(SubSeq(input, 1, n + 1)) = Process(Replay(SubSeq(input, 1, n)), input[n + 1])
  <1> DEFINE part == SubSeq(input, 1, n)
             next == SubSeq(input, 1, n + 1)
  <1>1. /\ Len(input) \in Nat /\ n \in 0..Len(input) /\ n + 1 \in 0..Len(input)
        /\ n + 1 \in 1..Len(input)
    BY LenProperties
  <1>2. input[n + 1] \in S
    BY <1>1, ElementOfSeq
  <1>3. /\ part \in Seq(S) /\ Len(part) = n /\ \A i \in 1..n : part[i] = input[i]
    BY <1>1, FirstPart
  <1>4. /\ next \in Seq(S) /\ Len(next) = n + 1 /\ \A i \in 1..(n + 1) : next[i] = input[i]
    BY <1>1, FirstPart
  <1> HIDE DEF part, next
  <1>5. /\ Append(part, input[n + 1]) \in Seq(S)
        /\ Len(Append(part, input[n + 1])) = n + 1
        /\ \A i \in 1..n : Append(part, input[n + 1])[i] = part[i]
        /\ Append(part, input[n + 1])[n + 1] = input[n + 1]
    BY <1>2, <1>3, AppendProperties
  <1>6. \A i \in 1..(n + 1) : Append(part, input[n + 1])[i] = next[i]
    BY <1>3, <1>4, <1>5
  <1>7. Append(part, input[n + 1]) = next
    BY <1>4, <1>5, <1>6, SeqEqual
  <1> QED
    BY <1>2, <1>3, <1>7, ReplayOfAppend DEF part, next

\* The replay of the whole input has refused what the replay of a first part has.
LEMMA RefusalsRemain ==
  ASSUME NEW S, NEW input \in Seq(S), NEW m \in 0..Len(input)
  PROVE  /\ Replay(input).rejected \in Nat
         /\ Replay(SubSeq(input, 1, m)).rejected \in Nat
         /\ Replay(SubSeq(input, 1, m)).rejected <= Replay(input).rejected
  <1> DEFINE count(n) == Replay(SubSeq(input, 1, n)).rejected
             good == {n \in Nat : m <= n /\ n <= Len(input) => count(m) <= count(n)}
  <1>1. Len(input) \in Nat /\ m \in Nat /\ m <= Len(input)
    BY LenProperties
  <1>2. ASSUME NEW n \in 0..Len(input)
        PROVE  count(n) \in Nat
    <2>1. Len(SubSeq(input, 1, n)) \in Nat
      BY <1>1, FirstPart
    <2> QED
      BY <2>1, ReplayIsState
  <1>3. 0 \in good
    <2>1. m <= 0 => m = 0
      BY <1>1
    <2>2. count(m) <= count(m)
      BY <1>1, <1>2
    <2> HIDE DEF count
    <2> QED
      BY <2>1, <2>2
  <1>4. ASSUME NEW n \in Nat, n \in good
        PROVE  n + 1 \in good
    <2> SUFFICES ASSUME m <= n + 1, n + 1 <= Len(input) PROVE count(m) <= count(n + 1)
      OBVIOUS
    <2>1. n \in 0..Len(input) /\ n + 1 \in 0..Len(input) /\ n < Len(input) /\ n <= Len(input)
      BY <1>1
    <2>2. count(m) \in Nat /\ count(n) \in Nat /\ count(n + 1) \in Nat
      BY <1>1, <1>2, <2>1
    <2>3. count(n) <= count(n + 1)
      <3> DEFINE state == Replay(SubSeq(input, 1, n))
      <3>1. Replay(SubSeq(input, 1, n + 1)) = Process(state, input[n + 1])
        BY <2>1, ReplayOfNext
      <3>2. DOMAIN state = {"book", "trades", "rejected"}
        <4>1. Len(SubSeq(input, 1, n)) \in Nat
          BY <2>1, FirstPart
        <4> QED
          BY <4>1, ReplayIsState
      <3>3. state.rejected \in Nat
        BY <2>2
      <3> HIDE DEF state
      <3>4. Process(state, input[n + 1]).rejected =
              IF Refused(state, input[n + 1]) THEN state.rejected + 1 ELSE state.rejected
        BY <3>2, <3>3, ProcessFacts
      <3>5. state.rejected <= Process(state, input[n + 1]).rejected
        BY <3>3, <3>4
      <3> QED
        BY <3>1, <3>5 DEF state
    <2> HIDE DEF count
    <2>4. CASE m <= n
      <3>1. count(m) <= count(n)
        BY <1>4, <2>1, <2>4
      <3> QED
        BY <2>2, <2>3, <3>1
    <2>5. CASE m = n + 1
      BY <2>2, <2>5
    <2> QED
      BY <1>1, <2>4, <2>5
  <1>5. \A n \in Nat : n \in good
    <2> HIDE DEF good
    <2> QED
      BY <1>3, <1>4, NaturalsAreReached
  <1>6. count(m) <= count(Len(input)) /\ count(Len(input)) \in Nat /\ count(m) \in Nat
    BY <1>1, <1>2, <1>5
  <1> QED
    BY <1>6, FirstPartOfAll
==============================================================================
