----------------------- MODULE FirmwareSequencerProofs -----------------------
(***************************************************************************)
(* Proofs about FirmwareSequencer, for any number of messages and slots,   *)
(* any ceilings and any deletions: the queue stays compact, and its counts *)
(* are off by no more than the handler calls that landed inside a pass of  *)
(* the sequencer.                                                          *)
(***************************************************************************)
EXTENDS FirmwareSequencer, FiniteSetTheorems, WellFoundedInduction, TLAPS

\* What is queued was sent, and so was what is under way to the panels.
FromSent == Queued(queue) \subseteq sent /\ chosen \in sent \cup {Blank}

\* A race is a counted call or the sending of a message.
RacesBounded == races <= calls + Cardinality(sent)

\* A count exceeds the highest ceiling by the races at most, and while a play
\* waits to be counted the slot under the cursor has room for it.
CountsBounded ==
  /\ \A i \in Slot : queue.count[i] <= MaxCeiling + races
  /\ pc \in {"copy", "publish", "count"} => queue.count[cur] <= MaxCeiling - 1 + races

\* The same of the plays, and of the message about to be published.
PlaysBounded ==
  /\ \A m \in Msg : plays[m] <= MaxCeiling + races
  /\ pc = "copy" /\ queue.text[cur] \in Msg => plays[queue.text[cur]] <= MaxCeiling - 1 + races
  /\ pc = "publish" /\ chosen \in Msg => plays[chosen] <= MaxCeiling - 1 + races

\* No handler has landed inside the pass under way: it works on a queue that is
\* not empty and on the message it has chosen, whose play it has yet to count, ...
Steady ==
  /\ pc = "wrap" => queue.n # 0
  /\ pc \in {"look", "copy", "publish", "count"} => cur < queue.n
  /\ pc \in {"publish", "count"} => queue.text[cur] = chosen
  /\ pc = "count" => queue.count[cur] + 1 <= plays[chosen] + races

\* ... or one has, and the counts are better than the races allow, by the one
\* the pass may still spoil.
Slack ==
  /\ races >= 1
  /\ \A i \in 0 .. queue.n - 1 :
       LET m == queue.text[i]
       IN /\ plays[m] <= queue.count[i] + InFlight(m) + (races - 1)
          /\ queue.count[i] <= plays[m] + (races - 1)

IInv ==
  /\ TypeOK /\ Compact /\ FromSent /\ RacesBounded
  /\ CountsBounded /\ PlaysBounded /\ CountsHonest
  /\ Steady \/ Slack
-------------------------------------------------------------------------------
(* The operators on the queue. *)

\* A queue without holes whose messages are distinct.
Packed(q) ==
  /\ \A i \in Slot : q.text[i] = Blank <=> i >= q.n
  /\ \A i, j \in 0 .. q.n - 1 : q.text[i] = q.text[j] => i = j

\* r has lost messages of q, at most, and made up no count.
Kept(r, q) ==
  /\ r \in Queue /\ Packed(r)
  /\ \A i \in 0 .. r.n - 1 : \E j \in 0 .. q.n - 1 :
       r.text[i] = q.text[j] /\ r.count[i] = q.count[j]
  /\ \A i \in Slot : r.count[i] = 0 \/ \E j \in Slot : r.count[i] = q.count[j]

\* The least-number principle, for a set of numbers.
LEMMA LeastNumber ==
  ASSUME NEW T \in SUBSET Nat, T # {}
  PROVE  \E x \in T : \A y \in T : x <= y
<1>1. PICK x \in T : \A y \in T : ~(<<y, x>> \in OpToRel(<, Nat))
  BY NatLessThanWellFounded, WFMin
<1>2. \A y \in T : ~(y < x)
  BY <1>1 DEF OpToRel
<1>3. x \in Nat /\ \A y \in T : y \in Nat
  OBVIOUS
<1>4. \A y \in T : x <= y
  BY <1>2, <1>3, SMT
<1> QED  BY <1>4

LEMMA Bounds ==
  /\ MAX_SENT_STRINGS \in Nat /\ MAX_SENT_STRINGS > 0
  /\ MaxCalls \in Nat /\ Cardinality(Msg) \in Nat
  /\ MaxCeiling \in Nat /\ MaxCeiling >= 99
  /\ MaxCount \in Nat /\ MaxCount = MaxCeiling + 1 + MaxCalls + Cardinality(Msg)
<1>1. Cardinality(Msg) \in Nat
  BY QueueAssumption, FS_CardinalityType
<1> QED  BY <1>1, QueueAssumption, SMT DEF MaxCount

\* The recursive function of Deletions is what its equation says.
LEMMA DeletionsUnfold ==
  ASSUME NEW q, NEW order \in Seq(Int)
  PROVE  \A k \in 0 .. Len(order) :
           Deletions(q, order)[k] =
             IF k = 0 THEN q ELSE Deleted(Deletions(q, order)[k - 1], order[k])
<1> DEFINE n == Len(order)
           Body(g, x) == [k \in 0 .. x |-> IF k = 0 THEN q ELSE Deleted(g[k - 1], order[k])]
           T == {x \in 0 .. n : ~ \E g : g = Body(g, x)}
<1>1. n \in Nat
  OBVIOUS
<1>2. T = {}
  <2>1. SUFFICES ASSUME T # {} PROVE FALSE
    OBVIOUS
  <2>2. PICK x \in T : \A y \in T : x <= y
    <3>1. T \in SUBSET Nat
      BY <1>1, SMT
    <3> HIDE DEF T
    <3> QED  BY <2>1, <3>1, LeastNumber
  <2>3. x \in 0 .. n /\ x \in Nat
    BY <1>1
  <2>4. CASE x = 0
    <3> DEFINE g == [k \in 0 .. x |-> q]
    <3>1. g = Body(g, x)
      BY <2>4, SMT
    <3> QED  BY <3>1
  <2>5. CASE x # 0
    <3>1. x - 1 \in 0 .. n /\ x - 1 \notin T
      <4> HIDE DEF T
      <4> QED  BY <1>1, <2>2, <2>3, <2>5, SMT
    <3>2. PICK h : h = Body(h, x - 1)
      BY <3>1
    <3> DEFINE g == [k \in 0 .. x |-> IF k = x THEN Deleted(h[x - 1], order[x]) ELSE h[k]]
    <3>3. ASSUME NEW k \in 0 .. x
          PROVE  g[k] = IF k = 0 THEN q ELSE Deleted(g[k - 1], order[k])
      <4> HIDE DEF T
      <4>1. CASE k = x
        <5>1. g[k] = Deleted(h[x - 1], order[x])
          BY <4>1
        <5>2. x - 1 \in 0 .. x /\ x - 1 # x
          BY <2>3, <2>5, SMT
        <5>3. g[x - 1] = h[x - 1]
          BY <5>2
        <5> QED  BY <4>1, <5>1, <5>3, <2>5
      <4>2. CASE k # x
        <5>1. k \in 0 .. x - 1
          BY <4>2, <2>3, SMT
        <5>2. g[k] = h[k]
          BY <4>2
        <5>3. h[k] = IF k = 0 THEN q ELSE Deleted(h[k - 1], order[k])
          BY <3>2, <5>1, Zenon
        <5>4. k # 0 => k - 1 \in 0 .. x /\ k - 1 # x
          BY <2>3, <4>2, SMT
        <5>5. k # 0 => g[k - 1] = h[k - 1]
          BY <5>4
        <5> QED  BY <5>2, <5>3, <5>5, Zenon
      <4> QED  BY <4>1, <4>2
    <3>4. g = Body(g, x)
      BY <3>3, Zenon
    <3> QED  BY <3>4
  <2> QED  BY <2>4, <2>5
<1>3. \E g : g = Body(g, n)
  BY <1>1, <1>2
<1>4. Deletions(q, order) = CHOOSE g : g = Body(g, n)
  BY Zenon DEF Deletions
<1>5. Deletions(q, order) = Body(Deletions(q, order), n)
  BY <1>3, <1>4, Zenon
<1> HIDE DEF T
<1> QED  BY <1>5, Zenon

LEMMA SlotIsNat == \A i \in Slot : i \in Nat /\ i < MAX_SENT_STRINGS
BY Bounds, SMT DEF Slot

LEMMA KeptReflexive ==
  ASSUME NEW q \in Queue, Packed(q)
  PROVE  Kept(q, q)
BY Zenon DEF Kept

LEMMA KeptTransitive ==
  ASSUME NEW q, NEW r, NEW s, Kept(r, q), Kept(s, r)
  PROVE  Kept(s, q)
<1>1. ASSUME NEW i \in 0 .. s.n - 1
      PROVE  \E j \in 0 .. q.n - 1 : s.text[i] = q.text[j] /\ s.count[i] = q.count[j]
  <2>1. PICK k \in 0 .. r.n - 1 : s.text[i] = r.text[k] /\ s.count[i] = r.count[k]
    BY DEF Kept
  <2>2. PICK j \in 0 .. q.n - 1 : r.text[k] = q.text[j] /\ r.count[k] = q.count[j]
    BY DEF Kept
  <2> QED  BY <2>1, <2>2
<1>2. ASSUME NEW i \in Slot
      PROVE  s.count[i] = 0 \/ \E j \in Slot : s.count[i] = q.count[j]
  <2>1. CASE s.count[i] = 0
    BY <2>1
  <2>2. CASE \E k \in Slot : s.count[i] = r.count[k]
    BY <2>2 DEF Kept
  <2> QED  BY <2>1, <2>2 DEF Kept
<1> QED  BY <1>1, <1>2 DEF Kept

\* Closing the gap keeps the messages that are left, each with its count.
LEMMA DeletedKept ==
  ASSUME NEW q \in Queue, Packed(q), NEW i \in Int
  PROVE  Kept(Deleted(q, i), q)
<1> DEFINE r == Deleted(q, i)
           from(j) == IF j \in i .. q.n - 2 THEN j + 1 ELSE j
<1>1. CASE i \notin 0 .. q.n - 1
  BY <1>1, KeptReflexive DEF Deleted
<1>2. CASE i \in 0 .. q.n - 1
  <2>1. /\ q.n \in 0 .. MAX_SENT_STRINGS
        /\ q.text \in [Slot -> Msg \cup {Blank}] /\ q.count \in [Slot -> 0 .. MaxCount]
    BY DEF Queue
  <2>2. /\ r.n = q.n - 1
        /\ r.text = [j \in Slot |-> IF j = q.n - 1 THEN Blank
                                    ELSE IF j \in i .. q.n - 2 THEN q.text[j + 1]
                                    ELSE q.text[j]]
        /\ r.count = [j \in Slot |-> IF j = q.n - 1 THEN 0
                                     ELSE IF j \in i .. q.n - 2 THEN q.count[j + 1]
                                     ELSE q.count[j]]
        /\ r = [text |-> r.text, count |-> r.count, n |-> r.n]
    BY <1>2, Zenon DEF Deleted
  <2>3. \A j \in Slot : from(j) \in Slot \/ j = q.n - 1
    BY <2>1, Bounds, SMT DEF Slot
  <2>4. \A j \in Slot : j # q.n - 1 =>
          from(j) \in Slot /\ r.text[j] = q.text[from(j)] /\ r.count[j] = q.count[from(j)]
    BY <2>2, <2>3
  <2>5. \A j \in Slot : j = q.n - 1 => r.text[j] = Blank /\ r.count[j] = 0
    BY <2>2
  <2>6. \A j \in 0 .. r.n - 1 : j \in Slot /\ j # q.n - 1 /\ from(j) \in 0 .. q.n - 1
    BY <1>2, <2>1, <2>2, Bounds, SMT DEF Slot
  <2>7. r \in Queue
    <3>1. r.n \in 0 .. MAX_SENT_STRINGS
      BY <1>2, <2>1, <2>2, Bounds, SMT
    <3>2. 0 \in 0 .. MaxCount
      BY Bounds, SMT
    <3>3. \A j \in Slot : r.text[j] \in Msg \cup {Blank} /\ r.count[j] \in 0 .. MaxCount
      BY <2>1, <2>4, <2>5, <3>2
    <3>4. r.text \in [Slot -> Msg \cup {Blank}] /\ r.count \in [Slot -> 0 .. MaxCount]
      <4> HIDE DEF r
      <4> QED  BY <2>2, <3>3
    <3> HIDE DEF r
    <3> QED  BY <2>2, <3>1, <3>4, Zenon DEF Queue
  <2>8. Packed(r)
    <3>1. ASSUME NEW j \in Slot
          PROVE  r.text[j] = Blank <=> j >= r.n
      <4>1. CASE j = q.n - 1
        BY <1>2, <2>1, <2>2, <2>5, <4>1, SMT
      <4>2. CASE j # q.n - 1
        <5>1. r.text[j] = Blank <=> from(j) >= q.n
          BY <2>4, <4>2 DEF Packed
        <5>2. from(j) >= q.n <=> j >= q.n - 1
          BY <1>2, <2>1, <4>2, SlotIsNat, SMT
        <5> QED  BY <2>2, <5>1, <5>2
      <4> QED  BY <4>1, <4>2
    <3>2. ASSUME NEW j \in 0 .. r.n - 1, NEW k \in 0 .. r.n - 1, r.text[j] = r.text[k]
          PROVE  j = k
      <4>1. from(j) = from(k)
        <5> HIDE DEF r, from
        <5>1. q.text[from(j)] = q.text[from(k)]
          BY <2>4, <2>6, <3>2
        <5>2. from(j) \in 0 .. q.n - 1 /\ from(k) \in 0 .. q.n - 1
          BY <2>6
        <5> QED  BY <5>1, <5>2, Zenon DEF Packed
      <4>2. j \in 0 .. q.n - 2 /\ k \in 0 .. q.n - 2
        <5> HIDE DEF r, from
        <5> QED  BY <2>1, <2>2, SMT
      <4> QED  BY <4>1, <4>2, <1>2, <2>1, SMT
    <3> HIDE DEF r
    <3> QED  BY <3>1, <3>2 DEF Packed
  <2>9. \A j \in 0 .. r.n - 1 : \E k \in 0 .. q.n - 1 :
          r.text[j] = q.text[k] /\ r.count[j] = q.count[k]
    <3> HIDE DEF r, from
    <3> QED  BY <2>4, <2>6
  <2>10. \A j \in Slot : r.count[j] = 0 \/ \E k \in Slot : r.count[j] = q.count[k]
    <3> HIDE DEF r, from
    <3> QED  BY <2>4, <2>5
  <2> QED  BY <2>7, <2>8, <2>9, <2>10 DEF Kept
<1> QED  BY <1>1, <1>2

LEMMA DeletionsKept ==
  ASSUME NEW q \in Queue, Packed(q), NEW order \in Seq(Int)
  PROVE  Kept(Deletions(q, order)[Len(order)], q)
<1> DEFINE n == Len(order)
           left(k) == Deletions(q, order)[k]
           T == {k \in 0 .. n : ~Kept(left(k), q)}
<1>1. n \in Nat /\ T \in SUBSET Nat
  BY SMT
<1>2. T = {}
  <2>1. SUFFICES ASSUME T # {} PROVE FALSE
    OBVIOUS
  <2>2. PICK x \in T : \A y \in T : x <= y
    <3> HIDE DEF T
    <3> QED  BY <1>1, <2>1, LeastNumber
  <2>3. x \in 0 .. n /\ ~Kept(left(x), q)
    OBVIOUS
  <2>4. x # 0
    <3>1. left(0) = q
      BY <1>1, DeletionsUnfold, SMT
    <3> QED  BY <2>3, <3>1, KeptReflexive
  <2>5. x - 1 \in 0 .. n /\ x - 1 \notin T
    <3> HIDE DEF T
    <3> QED  BY <1>1, <2>2, <2>3, <2>4, SMT
  <2>6. Kept(left(x - 1), q)
    BY <2>5
  <2>7. left(x) = Deleted(left(x - 1), order[x])
    BY <2>3, <2>4, DeletionsUnfold
  <2>8. order[x] \in Int
    BY <2>3, <2>4, SMT
  <2>9. left(x - 1) \in Queue /\ Packed(left(x - 1))
    BY <2>6 DEF Kept
  <2>10. Kept(left(x), left(x - 1))
    BY <2>7, <2>8, <2>9, DeletedKept
  <2> QED  BY <2>3, <2>6, <2>10, KeptTransitive
<1>3. n \in 0 .. n
  BY <1>1, SMT
<1> QED  BY <1>2, <1>3

\* A message that is not queued comes last, with count 0; the others keep theirs,
\* without a shift as long as there is a free slot.
LEMMA AddedKept ==
  ASSUME NEW q \in Queue, Packed(q), NEW m \in Msg, m \notin Queued(q)
  PROVE  /\ Added(q, m) \in Queue /\ Packed(Added(q, m))
         /\ \A i \in 0 .. Added(q, m).n - 1 :
              \/ Added(q, m).text[i] = m /\ Added(q, m).count[i] = 0
              \/ \E j \in 0 .. q.n - 1 : /\ Added(q, m).text[i] = q.text[j]
                                         /\ Added(q, m).count[i] = q.count[j]
         /\ \A i \in Slot : \/ Added(q, m).count[i] = 0
                            \/ \E j \in Slot : Added(q, m).count[i] = q.count[j]
         /\ q.n < MAX_SENT_STRINGS =>
              /\ Added(q, m).n = q.n + 1
              /\ \A i \in Slot \ {q.n} : /\ Added(q, m).text[i] = q.text[i]
                                         /\ Added(q, m).count[i] = q.count[i]
              /\ Added(q, m).text[q.n] = m /\ Added(q, m).count[q.n] = 0
         /\ Added(q, m) # q
<1> DEFINE r == Added(q, m)
<1>1. /\ q.n \in 0 .. MAX_SENT_STRINGS
      /\ q.text \in [Slot -> Msg \cup {Blank}] /\ q.count \in [Slot -> 0 .. MaxCount]
  BY DEF Queue
<1>2. 0 \in 0 .. MaxCount /\ m # Blank
  BY Bounds, QueueAssumption, SMT
<1>3. \A i \in 0 .. q.n - 1 : i \in Slot /\ q.text[i] # m
  <2>1. \A i \in 0 .. q.n - 1 : i \in Slot
    BY <1>1, Bounds, SMT DEF Slot
  <2> QED  BY <2>1 DEF Queued
<1>4. CASE q.n < MAX_SENT_STRINGS
  <2>1. q.n \in Slot
    BY <1>1, <1>4, Bounds, SMT DEF Slot
  <2>2. /\ r.n = q.n + 1
        /\ r.text = [q.text EXCEPT ![q.n] = m]
        /\ r.count = [q.count EXCEPT ![q.n] = 0]
        /\ r = [text |-> r.text, count |-> r.count, n |-> r.n]
    BY <1>4, Zenon DEF Added
  <2>3. /\ \A i \in Slot \ {q.n} : r.text[i] = q.text[i] /\ r.count[i] = q.count[i]
        /\ r.text[q.n] = m /\ r.count[q.n] = 0
        /\ r.text \in [Slot -> Msg \cup {Blank}] /\ r.count \in [Slot -> 0 .. MaxCount]
    <3> HIDE DEF r
    <3> QED  BY <1>1, <1>2, <2>1, <2>2
  <2>4. r.n \in 0 .. MAX_SENT_STRINGS
    <3> HIDE DEF r
    <3> QED  BY <1>1, <1>4, <2>2, Bounds, SMT
  <2>5. r \in Queue
    <3> HIDE DEF r
    <3> QED  BY <2>2, <2>3, <2>4, Zenon DEF Queue
  <2>6. Packed(r)
    <3> HIDE DEF r
    <3>1. ASSUME NEW i \in Slot
          PROVE  r.text[i] = Blank <=> i >= r.n
      <4>1. CASE i = q.n
        BY <1>1, <1>2, <2>2, <2>3, <4>1, SMT
      <4>2. CASE i # q.n
        <5>1. r.text[i] = Blank <=> i >= q.n
          BY <2>3, <4>2 DEF Packed
        <5>2. i >= q.n <=> i >= r.n
          BY <1>1, <2>2, <4>2, SlotIsNat, SMT
        <5> QED  BY <5>1, <5>2
      <4> QED  BY <4>1, <4>2
    <3>2. \A i \in 0 .. r.n - 1 : i = q.n \/ i \in 0 .. q.n - 1
      BY <1>1, <2>2, SMT
    <3>3. \A i \in 0 .. q.n - 1 : i \in Slot \ {q.n}
      BY <1>1, <1>3, SMT
    <3>4. ASSUME NEW i \in 0 .. r.n - 1, NEW j \in 0 .. r.n - 1, r.text[i] = r.text[j]
          PROVE  i = j
      <4>1. CASE i = q.n
        BY <1>3, <2>3, <3>2, <3>3, <3>4, <4>1
      <4>2. CASE j = q.n
        BY <1>3, <2>3, <3>2, <3>3, <3>4, <4>2
      <4>3. CASE i # q.n /\ j # q.n
        <5>1. i \in 0 .. q.n - 1 /\ j \in 0 .. q.n - 1 /\ q.text[i] = q.text[j]
          BY <2>3, <3>2, <3>3, <3>4, <4>3
        <5> QED  BY <5>1, Zenon DEF Packed
      <4> QED  BY <4>1, <4>2, <4>3
    <3> QED  BY <3>1, <3>4, Zenon DEF Packed
  <2>7. \A i \in 0 .. r.n - 1 :
          \/ r.text[i] = m /\ r.count[i] = 0
          \/ \E j \in 0 .. q.n - 1 : r.text[i] = q.text[j] /\ r.count[i] = q.count[j]
    <3> HIDE DEF r
    <3>1. \A i \in 0 .. r.n - 1 : i = q.n \/ i \in 0 .. q.n - 1
      BY <1>1, <2>2, SMT
    <3>2. \A i \in 0 .. q.n - 1 : i \in Slot \ {q.n}
      BY <1>1, <1>3, SMT
    <3> QED  BY <2>3, <3>1, <3>2
  <2>8. \A i \in Slot : r.count[i] = 0 \/ \E j \in Slot : r.count[i] = q.count[j]
    <3> HIDE DEF r
    <3> QED  BY <2>3
  <2>9. r # q
    <3> HIDE DEF r
    <3> QED  BY <1>1, <2>2, SMT
  <2> HIDE DEF r
  <2> QED  BY <2>2, <2>3, <2>5, <2>6, <2>7, <2>8, <2>9 DEF r
<1>5. CASE ~(q.n < MAX_SENT_STRINGS)
  <2> DEFINE last == MAX_SENT_STRINGS - 1
  <2>1. last \in Slot /\ q.n = MAX_SENT_STRINGS /\ last \in 0 .. q.n - 1
    BY <1>1, <1>5, Bounds, SMT DEF Slot
  <2>2. /\ r.n = q.n
        /\ r.text = [i \in Slot |-> IF i = last THEN m ELSE q.text[i + 1]]
        /\ r.count = [i \in Slot |-> IF i = last THEN 0 ELSE q.count[i + 1]]
        /\ r = [text |-> r.text, count |-> r.count, n |-> r.n]
    BY <1>5, Zenon DEF Added
  <2>3. Slot = 0 .. q.n - 1
    BY <2>1 DEF Slot
  <2>4. \A i \in Slot : i # last => i + 1 \in Slot
    BY Bounds, SMT DEF Slot
  <2>5. /\ \A i \in Slot : i # last => r.text[i] = q.text[i + 1] /\ r.count[i] = q.count[i + 1]
        /\ r.text[last] = m /\ r.count[last] = 0
    <3> HIDE DEF r, last
    <3> QED  BY <2>1, <2>2
  <2>6. r.text \in [Slot -> Msg \cup {Blank}] /\ r.count \in [Slot -> 0 .. MaxCount]
    <3>1. \A i \in Slot : r.text[i] \in Msg \cup {Blank} /\ r.count[i] \in 0 .. MaxCount
      <4> HIDE DEF r, last
      <4> QED  BY <1>1, <1>2, <2>4, <2>5
    <3> HIDE DEF r, last
    <3> QED  BY <2>2, <3>1
  <2>7. r \in Queue
    <3> HIDE DEF r
    <3> QED  BY <1>1, <2>2, <2>6, Zenon DEF Queue
  <2>8. \A i \in Slot : q.text[i] # Blank /\ ~(i >= q.n)
    <3>1. \A i \in Slot : ~(i >= q.n)
      BY <2>1, SlotIsNat, Bounds, SMT
    <3> QED  BY <3>1 DEF Packed
  <2>9. Packed(r)
    <3>1. ASSUME NEW i \in Slot
          PROVE  r.text[i] = Blank <=> i >= r.n
      <4> HIDE DEF r, last
      <4> QED  BY <1>2, <2>2, <2>4, <2>5, <2>8
    <3>2. ASSUME NEW i \in 0 .. r.n - 1, NEW j \in 0 .. r.n - 1, r.text[i] = r.text[j]
          PROVE  i = j
      <4>1. i \in Slot /\ j \in Slot
        BY <2>2, <2>3, Zenon
      <4>2. CASE i = last
        <5> HIDE DEF r, last
        <5> QED  BY <1>3, <2>3, <2>4, <2>5, <3>2, <4>1, <4>2
      <4>3. CASE j = last
        <5> HIDE DEF r, last
        <5> QED  BY <1>3, <2>3, <2>4, <2>5, <3>2, <4>1, <4>3
      <4>4. CASE i # last /\ j # last
        <5>1. i + 1 \in Slot /\ j + 1 \in Slot /\ q.text[i + 1] = q.text[j + 1]
          <6> HIDE DEF r, last
          <6> QED  BY <2>4, <2>5, <3>2, <4>1, <4>4
        <5>2. i + 1 = j + 1
          BY <2>3, <5>1, Zenon DEF Packed
        <5> QED  BY <4>1, <5>2, SlotIsNat, SMT
      <4> QED  BY <4>2, <4>3, <4>4
    <3> HIDE DEF r
    <3> QED  BY <3>1, <3>2, Zenon DEF Packed
  <2>10. \A i \in 0 .. r.n - 1 :
           \/ r.text[i] = m /\ r.count[i] = 0
           \/ \E j \in 0 .. q.n - 1 : r.text[i] = q.text[j] /\ r.count[i] = q.count[j]
    <3> HIDE DEF r, last
    <3> QED  BY <2>2, <2>3, <2>4, <2>5
  <2>11. \A i \in Slot : r.count[i] = 0 \/ \E j \in Slot : r.count[i] = q.count[j]
    <3> HIDE DEF r, last
    <3> QED  BY <2>4, <2>5
  <2>12. r # q
    <3> HIDE DEF r, last
    <3> QED  BY <1>3, <2>1, <2>5
  <2> HIDE DEF r
  <2> QED  BY <1>5, <2>7, <2>9, <2>10, <2>11, <2>12 DEF r
<1> QED  BY <1>4, <1>5
-------------------------------------------------------------------------------
(* What every step of the invariant's proof needs. *)

LEMMA Numbers ==
  ASSUME IInv
  PROVE  /\ races \in Nat /\ calls \in Nat
         /\ \A m \in Msg : plays[m] \in Nat
         /\ \A i \in Slot : queue.count[i] \in Nat
         /\ \A i \in Slot : queue.text[i] \in Msg \cup {Blank}
         /\ \A m : InFlight(m) \in {0, 1}
         /\ queue.n \in Nat /\ queue.n <= MAX_SENT_STRINGS
         /\ \A i \in 0 .. queue.n - 1 : i \in Slot /\ queue.text[i] \in Msg
         /\ cur \in Slot /\ maxPlays \in Int /\ maxPlays <= MaxCeiling
         /\ MaxCeiling \in Nat /\ MaxCeiling >= 99
<1>1. TypeOK /\ Compact
  BY DEF IInv
<1>2. races \in Nat /\ calls \in Nat
  BY <1>1, Bounds, SMT DEF TypeOK
<1>3. /\ \A m \in Msg : plays[m] \in Nat
      /\ \A i \in Slot : queue.count[i] \in Nat /\ queue.text[i] \in Msg \cup {Blank}
  <2>1. queue.count \in [Slot -> 0 .. MaxCount] /\ queue.text \in [Slot -> Msg \cup {Blank}]
    BY <1>1 DEF TypeOK, Queue
  <2>2. plays \in [Msg -> 0 .. MaxCount]
    BY <1>1 DEF TypeOK
  <2>3. \A x \in 0 .. MaxCount : x \in Nat
    BY Bounds, SMT
  <2> QED  BY <2>1, <2>2, <2>3
<1>4. \A m : InFlight(m) \in {0, 1}
  BY DEF InFlight
<1>5. queue.n \in 0 .. MAX_SENT_STRINGS
  BY <1>1 DEF TypeOK, Queue
<1>6. queue.n \in Nat /\ queue.n <= MAX_SENT_STRINGS
  BY <1>5, Bounds, SMT
<1>7. \A i \in 0 .. queue.n - 1 : i \in Slot /\ ~(i >= queue.n)
  BY <1>6, Bounds, SMT DEF Slot
<1>8. \A i \in 0 .. queue.n - 1 : queue.text[i] \in Msg
  BY <1>1, <1>3, <1>7 DEF Compact
<1>9. /\ cur \in Slot /\ maxPlays \in Int /\ maxPlays <= MaxCeiling
      /\ MaxCeiling \in Nat /\ MaxCeiling >= 99
  BY <1>1, QueueAssumption, SMT DEF TypeOK
<1> QED  BY <1>2, <1>3, <1>4, <1>6, <1>7, <1>8, <1>9

LEMMA CompactIsPacked == Compact <=> Packed(queue)
BY Zenon DEF Compact, Packed

LEMMA SentCounted ==
  ASSUME NEW S \in SUBSET Msg
  PROVE  /\ Cardinality(S) \in Nat /\ Cardinality(S) <= Cardinality(Msg)
         /\ \A m \in Msg \ S : Cardinality(S \cup {m}) = Cardinality(S) + 1
BY QueueAssumption, FS_Subset, FS_CardinalityType, FS_AddElement

\* The bound on the races holds whenever their number is bounded by the calls.
LEMMA RacesTyped ==
  ASSUME IInv, RacesBounded', sent' \in SUBSET Msg, calls' \in 0 .. MaxCalls, races' \in Nat
  PROVE  races' \in 0 .. MaxCalls + Cardinality(Msg)
<1>1. Cardinality(sent') \in Nat /\ Cardinality(sent') <= Cardinality(Msg)
  BY SentCounted
<1>2. races' <= calls' + Cardinality(sent')
  BY DEF RacesBounded
<1> QED  BY <1>1, <1>2, Bounds, SMT

LEMMA InitCorrect == Init => IInv
<1> SUFFICES ASSUME Init PROVE IInv
  OBVIOUS
<1>1. /\ queue.text = [i \in Slot |-> Blank] /\ queue.count = [i \in Slot |-> 0]
      /\ queue.n = 0 /\ queue = [text |-> queue.text, count |-> queue.count, n |-> queue.n]
  BY Zenon DEF Init, Empty
<1>2. 0 \in Slot /\ 0 \in 0 .. MaxCount /\ 0 \in 0 .. MaxCalls + Cardinality(Msg)
      /\ 0 \in 0 .. MaxCalls /\ 0 \in 0 .. MAX_SENT_STRINGS
  BY Bounds, SMT DEF Slot
<1>3. TypeOK
  <2>1. queue.text \in [Slot -> Msg \cup {Blank}] /\ queue.count \in [Slot -> 0 .. MaxCount]
    BY <1>1, <1>2
  <2>2. queue \in Queue
    BY <1>1, <1>2, <2>1, Zenon DEF Queue
  <2>3. sched \in [msg : Msg \cup {Blank}, active : BOOLEAN]
    BY Zenon DEF Init
  <2>4. plays \in [Msg -> 0 .. MaxCount]
    BY <1>2 DEF Init
  <2> QED  BY <1>2, <2>2, <2>3, <2>4 DEF Init, TypeOK, Pc
<1>4. Compact
  BY <1>1, SlotIsNat, SMT DEF Compact
<1>5. FromSent /\ RacesBounded
  <2>1. Queued(queue) = {}
    BY <1>1, SMT DEF Queued
  <2>2. Cardinality({}) = 0
    BY FS_EmptySet
  <2> QED  BY <2>1, <2>2, SMT DEF Init, FromSent, RacesBounded
<1>6. CountsBounded /\ PlaysBounded /\ CountsHonest
  <2>1. CountsBounded
    BY <1>1, Bounds, SMT DEF Init, CountsBounded
  <2>2. PlaysBounded
    BY <1>1, Bounds, SMT DEF Init, PlaysBounded
  <2>3. CountsHonest
    BY <1>1, SMT DEF CountsHonest
  <2> QED  BY <2>1, <2>2, <2>3
<1>7. Steady
  BY DEF Init, Steady
<1> QED  BY <1>3, <1>4, <1>5, <1>6, <1>7 DEF IInv

-------------------------------------------------------------------------------
(* loop(). *)

\* A step of loop() that neither publishes nor counts leaves the books as they are.
LEMMA BooksKept ==
  ASSUME IInv, UNCHANGED <<queue, plays, races, calls, sent>>,
         pc # "count", pc' # "count"
  PROVE  /\ Compact' /\ RacesBounded' /\ CountsHonest'
         /\ \A m : InFlight(m) = 0 /\ InFlight(m)' = 0
         /\ Slack => Slack'
<1>1. \A m : InFlight(m) = 0 /\ InFlight(m)' = 0
  BY DEF InFlight
<1>2. Compact' /\ RacesBounded'
  BY Zenon DEF IInv, Compact, RacesBounded
<1>3. CountsHonest'
  BY SMT DEF IInv, CountsHonest, InFlight
<1>4. Slack => Slack'
  BY SMT DEF Slack, InFlight
<1> QED  BY <1>1, <1>2, <1>3, <1>4

\* Steps that change neither the books nor the place of loop().
LEMMA ElsewhereCorrect ==
  ASSUME IInv, UNCHANGED <<queue, plays, races, sent, cur, pc, chosen>>,
         calls' \in Nat, calls' >= calls, TypeOK'
  PROVE  IInv'
<1>1. \A m : InFlight(m)' = InFlight(m)
  BY DEF InFlight
<1>2. (Compact /\ FromSent /\ CountsBounded /\ PlaysBounded)'
  <2>1. (Compact /\ FromSent)'
    BY Zenon DEF IInv, Compact, FromSent, Queued
  <2>2. (CountsBounded /\ PlaysBounded)'
    BY SMT DEF IInv, CountsBounded, PlaysBounded
  <2> QED  BY <2>1, <2>2
<1>3. RacesBounded'
  <2>1. races' = races /\ Cardinality(sent') = Cardinality(sent)
    OBVIOUS
  <2>2. Cardinality(sent) \in Nat
    BY SentCounted DEF IInv, TypeOK
  <2> QED  BY <2>1, <2>2, Numbers, SMT DEF IInv, RacesBounded
<1>4. CountsHonest'
  BY <1>1, Zenon DEF IInv, CountsHonest
<1>5. Steady' \/ Slack'
  <2>1. Steady => Steady'
    BY Zenon DEF Steady
  <2>2. Slack => Slack'
    BY <1>1, Zenon DEF Slack
  <2> QED  BY <2>1, <2>2 DEF IInv
<1> QED  BY <1>2, <1>3, <1>4, <1>5 DEF IInv

LEMMA IdleCorrect ==
  ASSUME IInv, GraceOver \/ RenderDone \/ \E v \in Ceilings : SetMaxPlays(v)
  PROVE  IInv'
<1>1. CASE GraceOver
  <2>1. TypeOK'
    BY <1>1, Zenon DEF IInv, TypeOK, GraceOver, queueVars, history
  <2> QED
    BY <1>1, <2>1, ElsewhereCorrect, Numbers, SMT DEF GraceOver, queueVars, history
<1>2. CASE RenderDone
  <2>1. sched' \in [msg : Msg \cup {Blank}, active : BOOLEAN]
    BY <1>2, Zenon DEF IInv, TypeOK, RenderDone
  <2>2. TypeOK'
    BY <1>2, <2>1, Zenon DEF IInv, TypeOK, RenderDone, queueVars, loopVars, history
  <2> QED
    BY <1>2, <2>2, ElsewhereCorrect, Numbers, SMT DEF RenderDone, queueVars, loopVars, history
<1>3. ASSUME NEW v \in Ceilings, SetMaxPlays(v) PROVE IInv'
  <2>1. calls' \in 0 .. MaxCalls /\ calls' \in Nat /\ calls' >= calls
    BY <1>3, Numbers, Bounds, SMT DEF SetMaxPlays, Call, IInv, TypeOK
  <2>2. TypeOK'
    BY <1>3, <2>1, Zenon DEF IInv, TypeOK, SetMaxPlays, loopVars
  <2> QED
    BY <1>3, <2>1, <2>2, ElsewhereCorrect, Zenon DEF SetMaxPlays, loopVars
<1> QED  BY <1>1, <1>2, <1>3

LEMMA BeginPassCorrect ==
  ASSUME IInv, BeginPass
  PROVE  IInv'
<1>1. /\ pc = "top" /\ pc' = "wrap" /\ queue.n # 0
      /\ UNCHANGED <<queue, maxPlays, cur, ready, start, chosen, sched, sent, plays, shown, races,
                     calls>>
      /\ under' \in BOOLEAN
  BY DEF BeginPass, queueVars
<1>2. TypeOK'
  BY <1>1, Zenon DEF IInv, TypeOK, Pc
<1>3. Compact' /\ RacesBounded' /\ CountsHonest'
  BY <1>1, BooksKept
<1>4. FromSent' /\ CountsBounded' /\ PlaysBounded'
  BY <1>1, SMT DEF IInv, FromSent, Queued, CountsBounded, PlaysBounded
<1>5. Steady'
  BY <1>1 DEF Steady
<1> QED  BY <1>2, <1>3, <1>4, <1>5 DEF IInv

LEMMA WrapIndexCorrect ==
  ASSUME IInv, WrapIndex
  PROVE  IInv'
<1>1. /\ pc = "wrap" /\ pc' = "look"
      /\ cur' = (IF cur >= queue.n THEN 0 ELSE cur) /\ start' = cur'
      /\ UNCHANGED <<queue, maxPlays, ready, chosen, sched, sent, plays, shown, races, calls, under>>
  BY DEF WrapIndex, queueVars, history
<1>2. cur' \in Slot
  <2>1. 0 \in Slot
    BY Bounds, SMT DEF Slot
  <2> QED  BY <1>1, <2>1, Numbers
<1>3. TypeOK'
  BY <1>1, <1>2, Zenon DEF IInv, TypeOK, Pc
<1>4. Compact' /\ RacesBounded' /\ CountsHonest' /\ (Slack => Slack')
  BY <1>1, BooksKept
<1>5. FromSent' /\ CountsBounded' /\ PlaysBounded'
  BY <1>1, SMT DEF IInv, FromSent, Queued, CountsBounded, PlaysBounded
<1>6. Steady => Steady'
  BY <1>1, <1>2, Numbers, SlotIsNat, SMT DEF Steady
<1> QED  BY <1>3, <1>4, <1>5, <1>6 DEF IInv

LEMMA LookFoundCorrect ==
  ASSUME IInv, LookFound
  PROVE  IInv'
<1>1. /\ pc = "look" /\ pc' = "copy" /\ queue.count[cur] < maxPlays
      /\ UNCHANGED <<queue, maxPlays, cur, ready, start, chosen, sched, sent, plays, shown, races,
                     calls, under>>
  BY DEF LookFound, PlaysLeft, queueVars, history
<1>2. TypeOK'
  BY <1>1, Zenon DEF IInv, TypeOK, Pc
<1>3. /\ Compact' /\ RacesBounded' /\ CountsHonest' /\ (Slack => Slack')
      /\ \A m : InFlight(m) = 0
  BY <1>1, BooksKept
<1>4. FromSent'
  BY <1>1, Zenon DEF IInv, FromSent, Queued
<1>5. queue.count[cur] <= MaxCeiling - 1 + races /\ queue.count[cur] <= MaxCeiling - 1
  BY <1>1, Numbers, SMT
<1>6. CountsBounded'
  BY <1>1, <1>5, SMT DEF IInv, CountsBounded
<1>7. ASSUME queue.text[cur] \in Msg PROVE plays[queue.text[cur]] <= MaxCeiling - 1 + races
  <2>1. cur < queue.n
    BY <1>7, QueueAssumption, Numbers, SlotIsNat, SMT DEF IInv, Compact
  <2>2. cur \in 0 .. queue.n - 1
    BY <2>1, Numbers, SlotIsNat, SMT
  <2>3. plays[queue.text[cur]] <= queue.count[cur] + InFlight(queue.text[cur]) + races
    BY <2>2, Zenon DEF IInv, CountsHonest
  <2> QED  BY <1>3, <1>5, <1>7, <2>3, Numbers, SMT
<1>8. PlaysBounded'
  BY <1>1, <1>7, SMT DEF IInv, PlaysBounded
<1>9. Steady => Steady'
  BY <1>1 DEF Steady
<1> QED  BY <1>2, <1>3, <1>4, <1>6, <1>8, <1>9 DEF IInv

LEMMA NextIndex ==
  ASSUME IInv, queue.n # 0
  PROVE  (cur + 1) % queue.n \in Slot /\ (cur + 1) % queue.n < queue.n
<1>1. queue.n \in Nat /\ queue.n > 0 /\ queue.n <= MAX_SENT_STRINGS /\ cur + 1 \in Nat
  BY Numbers, SlotIsNat, SMT
<1>2. (cur + 1) % queue.n \in 0 .. queue.n - 1
  BY <1>1, SMT
<1> QED  BY <1>1, <1>2, Bounds, SMT DEF Slot

LEMMA LookNextCorrect ==
  ASSUME IInv, LookNext
  PROVE  IInv'
<1>1. /\ pc = "look" /\ queue.n # 0
      /\ cur' = (cur + 1) % queue.n /\ pc' \in {"top", "look"}
      /\ UNCHANGED <<queue, maxPlays, ready, start, chosen, sched, sent, plays, shown, races, calls, under>>
  BY DEF LookNext, queueVars, history
<1>2. cur' \in Slot /\ cur' < queue.n
  BY <1>1, NextIndex
<1>3. TypeOK'
  BY <1>1, <1>2, Zenon DEF IInv, TypeOK, Pc
<1>4. Compact' /\ RacesBounded' /\ CountsHonest'
  BY <1>1, BooksKept
<1>5. FromSent' /\ CountsBounded' /\ PlaysBounded'
  BY <1>1, SMT DEF IInv, FromSent, Queued, CountsBounded, PlaysBounded
<1>6. Steady'
  BY <1>1, <1>2, SMT DEF Steady
<1> QED  BY <1>3, <1>4, <1>5, <1>6 DEF IInv

LEMMA CopyTextCorrect ==
  ASSUME IInv, CopyText
  PROVE  IInv'
<1>1. /\ pc = "copy" /\ pc' = "publish" /\ chosen' = queue.text[cur]
      /\ UNCHANGED <<queue, maxPlays, cur, ready, start, sched, sent, plays, shown, races, calls, under>>
  BY DEF CopyText, queueVars, history
<1>2. chosen' \in Msg \cup {Blank}
  BY <1>1, Numbers
<1>3. TypeOK'
  BY <1>1, <1>2, Zenon DEF IInv, TypeOK, Pc
<1>4. Compact' /\ RacesBounded' /\ CountsHonest' /\ (Slack => Slack')
  BY <1>1, BooksKept
<1>5. FromSent'
  <2>1. queue.text[cur] # Blank => cur \in 0 .. queue.n - 1
    BY Numbers, SlotIsNat, SMT DEF IInv, Compact
  <2> QED  BY <1>1, <2>1 DEF IInv, FromSent, Queued
<1>6. CountsBounded' /\ PlaysBounded'
  BY <1>1, SMT DEF IInv, CountsBounded, PlaysBounded
<1>7. Steady => Steady'
  BY <1>1 DEF Steady
<1> QED  BY <1>3, <1>4, <1>5, <1>6, <1>7 DEF IInv

LEMMA PublishCorrect ==
  ASSUME IInv, Publish
  PROVE  IInv'
<1>1. /\ pc = "publish" /\ pc' = "count"
      /\ sched' = [msg |-> chosen, active |-> TRUE]
      /\ plays' = [m \in Msg |-> IF m = chosen THEN plays[m] + 1 ELSE plays[m]]
      /\ shown' = shown \cup ({chosen} \ {Blank})
      /\ UNCHANGED <<queue, maxPlays, cur, ready, start, chosen, sent, races, calls, under>>
  BY DEF Publish, queueVars
<1>2. \A m \in Msg : plays[m] <= MaxCeiling + races /\ (m = chosen => plays[m] <= MaxCeiling - 1 + races)
  BY <1>1, SMT DEF IInv, PlaysBounded
<1>3. /\ \A m \in Msg : /\ plays'[m] = plays[m] + InFlight(m)'
                        /\ plays'[m] <= MaxCeiling + races /\ plays'[m] \in Nat
      /\ \A m : InFlight(m) = 0
      /\ \A m : InFlight(m)' = IF m = chosen THEN 1 ELSE 0
  <2>1. \A m : InFlight(m) = 0
    BY <1>1 DEF InFlight
  <2>2. \A m : InFlight(m)' = IF m = chosen THEN 1 ELSE 0
    BY <1>1 DEF InFlight
  <2>3. \A m \in Msg : plays'[m] = IF m = chosen THEN plays[m] + 1 ELSE plays[m]
    BY <1>1
  <2>4. \A m \in Msg : plays'[m] <= MaxCeiling + races /\ plays'[m] \in Nat
    BY <1>2, <2>3, Numbers, SMT
  <2> QED  BY <2>1, <2>2, <2>3, <2>4, Numbers, SMT
<1>4. TypeOK'
  <2>1. sched' \in [msg : Msg \cup {Blank}, active : BOOLEAN]
    BY <1>1, Zenon DEF IInv, TypeOK
  <2>2. races <= MaxCalls + Cardinality(Msg)
    BY SMT, Bounds DEF IInv, TypeOK
  <2>3. \A m \in Msg : plays'[m] \in 0 .. MaxCount
    BY <1>3, <2>2, Numbers, Bounds, SMT
  <2>4. plays' \in [Msg -> 0 .. MaxCount]
    <3>1. plays' = [m \in Msg |-> plays'[m]]
      BY <1>1
    <3> QED  BY <2>3, <3>1, Zenon
  <2>5. shown' \subseteq sent
    BY <1>1 DEF IInv, TypeOK, FromSent
  <2> QED  BY <1>1, <2>1, <2>4, <2>5, Zenon DEF IInv, TypeOK, Pc
<1>5. Compact' /\ FromSent' /\ RacesBounded'
  BY <1>1, Zenon DEF IInv, Compact, FromSent, Queued, RacesBounded
<1>6. CountsBounded'
  BY <1>1, SMT DEF IInv, CountsBounded
<1>7. PlaysBounded'
  BY <1>1, <1>3, SMT DEF PlaysBounded
<1>8. CountsHonest'
  <2> SUFFICES ASSUME NEW i \in 0 .. queue.n - 1, NEW m \in Msg, m = queue.text[i]
      PROVE  /\ plays'[m] <= queue.count[i] + InFlight(m)' + races
             /\ queue.count[i] <= plays'[m] + races
    BY <1>1, Numbers, Zenon DEF CountsHonest
  <2>1. /\ plays[m] <= queue.count[i] + InFlight(m) + races
        /\ queue.count[i] <= plays[m] + races
    BY Zenon DEF IInv, CountsHonest
  <2>2. InFlight(m)' \in {0, 1} /\ plays'[m] = plays[m] + InFlight(m)' /\ InFlight(m) = 0
    BY <1>3
  <2> QED  BY <2>1, <2>2, Numbers, SMT
<1>9. Slack => Slack'
  <2> SUFFICES ASSUME Slack, NEW i \in 0 .. queue.n - 1, NEW m \in Msg, m = queue.text[i]
      PROVE  /\ plays'[m] <= queue.count[i] + InFlight(m)' + (races - 1)
             /\ queue.count[i] <= plays'[m] + (races - 1)
    BY <1>1, Numbers, Zenon DEF Slack
  <2>1. /\ plays[m] <= queue.count[i] + InFlight(m) + (races - 1)
        /\ queue.count[i] <= plays[m] + (races - 1)
    BY Zenon DEF Slack
  <2>2. InFlight(m)' \in {0, 1} /\ plays'[m] = plays[m] + InFlight(m)' /\ InFlight(m) = 0
    BY <1>3
  <2> QED  BY <2>1, <2>2, Numbers, SMT
<1>10. Steady => Steady'
  <2> SUFFICES ASSUME Steady PROVE queue.count[cur] + 1 <= plays'[chosen] + races
    BY <1>1 DEF Steady
  <2>1. cur \in 0 .. queue.n - 1 /\ queue.text[cur] = chosen
    BY <1>1, Numbers, SlotIsNat, SMT DEF Steady
  <2>2. queue.count[cur] <= plays[chosen] + races /\ chosen \in Msg
    BY <2>1, Numbers, Zenon DEF IInv, CountsHonest
  <2>3. plays'[chosen] = plays[chosen] + 1
    BY <1>1, <2>2
  <2> QED  BY <2>2, <2>3, Numbers, SMT
<1> QED  BY <1>4, <1>5, <1>6, <1>7, <1>8, <1>9, <1>10 DEF IInv

LEMMA CountPlayCorrect ==
  ASSUME IInv, CountPlay
  PROVE  IInv'
<1>1. /\ pc = "count" /\ pc' = "advance"
      /\ queue' = [queue EXCEPT !.count[cur] = @ + 1]
      /\ UNCHANGED <<maxPlays, cur, ready, start, chosen, sched, sent, plays, shown, races, calls, under>>
  BY DEF CountPlay, history
<1>2. cur \in Slot /\ queue \in Queue
  BY DEF IInv, TypeOK
<1>3. /\ queue'.text = queue.text /\ queue'.n = queue.n
      /\ queue'.count = [queue.count EXCEPT ![cur] = @ + 1]
      /\ queue' = [text |-> queue'.text, count |-> queue'.count, n |-> queue'.n]
  BY <1>1, <1>2, Zenon DEF Queue
<1>4. \A i \in Slot : queue'.count[i] = IF i = cur THEN queue.count[i] + 1 ELSE queue.count[i]
  BY <1>2, <1>3 DEF Queue
<1>5. \A i \in Slot : queue'.count[i] <= MaxCeiling + races /\ queue'.count[i] \in Nat
  BY <1>1, <1>2, <1>4, Numbers, SMT DEF IInv, CountsBounded
<1>6. TypeOK'
  <2>1. races <= MaxCalls + Cardinality(Msg)
    BY Bounds, SMT DEF IInv, TypeOK
  <2>2. \A i \in Slot : queue'.count[i] \in 0 .. MaxCount
    BY <1>5, <2>1, Numbers, Bounds, SMT
  <2>3. queue'.count \in [Slot -> 0 .. MaxCount]
    BY <1>2, <1>3, <2>2 DEF Queue
  <2>4. queue' \in Queue
    BY <1>2, <1>3, <2>3, Zenon DEF Queue
  <2> QED  BY <1>1, <2>4, Zenon DEF IInv, TypeOK, Pc
<1>7. Compact' /\ FromSent' /\ RacesBounded'
  <2>1. Queued(queue') = Queued(queue)
    BY <1>3, SMT DEF Queued
  <2>2. Compact'
    BY <1>3, SMT DEF IInv, Compact
  <2>3. FromSent'
    BY <1>1, <2>1, Zenon DEF IInv, FromSent, Queued
  <2> QED  BY <1>1, <2>2, <2>3, Zenon DEF IInv, RacesBounded
<1>8. CountsBounded' /\ PlaysBounded'
  BY <1>1, <1>5, SMT DEF IInv, CountsBounded, PlaysBounded
<1>9. \A m : InFlight(m)' = 0 /\ (InFlight(m) = IF m = chosen THEN 1 ELSE 0)
  BY <1>1 DEF InFlight
<1>10. CountsHonest'
  <2> SUFFICES ASSUME NEW i \in 0 .. queue.n - 1, NEW m \in Msg, m = queue.text[i]
      PROVE  /\ plays[m] <= queue'.count[i] + races
             /\ queue'.count[i] <= plays[m] + races
    <3>1. \A i \in 0 .. queue.n - 1 : InFlight(queue.text[i])' = 0
      BY <1>9
    <3>2. \A i \in 0 .. queue.n - 1 :
            /\ plays[queue.text[i]] <= queue'.count[i] + races
            /\ queue'.count[i] <= plays[queue.text[i]] + races
      BY Numbers, Zenon
    <3> QED  BY <1>1, <1>3, <1>5, <3>2, Numbers, SMT DEF CountsHonest, InFlight
  <2>1. /\ plays[m] <= queue.count[i] + InFlight(m) + races
        /\ queue.count[i] <= plays[m] + races
    BY Zenon DEF IInv, CountsHonest
  <2>2. /\ i \in Slot /\ queue.count[i] \in Nat /\ plays[m] \in Nat /\ races \in Nat
        /\ queue'.count[i] = IF i = cur THEN queue.count[i] + 1 ELSE queue.count[i]
    BY <1>4, Numbers
  <2>3. CASE Slack
    <3>1. /\ plays[m] <= queue.count[i] + InFlight(m) + (races - 1)
          /\ queue.count[i] <= plays[m] + (races - 1)
      BY <2>3, Zenon DEF Slack
    <3>2. InFlight(m) \in {0, 1}
      BY <1>9
    <3> QED  BY <2>2, <3>1, <3>2, SMT
  <2>4. CASE Steady
    <3>1. /\ cur \in 0 .. queue.n - 1 /\ queue.text[cur] = chosen
          /\ queue.count[cur] + 1 <= plays[chosen] + races
      BY <1>1, <2>4, Numbers, SlotIsNat, SMT DEF Steady
    <3>2. m = chosen <=> i = cur
      BY <3>1, Zenon DEF IInv, Compact
    <3>3. CASE i = cur
      <4>1. InFlight(m) = 1
        BY <1>9, <3>2, <3>3
      <4> QED  BY <2>1, <2>2, <3>1, <3>2, <3>3, <4>1, SMT
    <3>4. CASE i # cur
      <4>1. InFlight(m) = 0
        BY <1>9, <3>2, <3>4
      <4> QED  BY <2>1, <2>2, <3>4, <4>1, SMT
    <3> QED  BY <3>3, <3>4
  <2> QED  BY <2>3, <2>4 DEF IInv
<1>11. Steady'
  BY <1>1 DEF Steady
<1> QED  BY <1>6, <1>7, <1>8, <1>10, <1>11 DEF IInv

LEMMA AdvanceCorrect ==
  ASSUME IInv, Advance
  PROVE  IInv'
<1>1. /\ pc = "advance" /\ queue.n # 0
      /\ cur' = (cur + 1) % queue.n /\ pc' = "top"
      /\ UNCHANGED <<queue, maxPlays, ready, start, chosen, sched, sent, plays, shown, races, calls, under>>
  BY DEF Advance, queueVars, history
<1>2. cur' \in Slot
  BY <1>1, NextIndex
<1>3. TypeOK'
  BY <1>1, <1>2, Zenon DEF IInv, TypeOK, Pc
<1>4. Compact' /\ RacesBounded' /\ CountsHonest'
  BY <1>1, BooksKept
<1>5. FromSent' /\ CountsBounded' /\ PlaysBounded'
  BY <1>1, SMT DEF IInv, FromSent, Queued, CountsBounded, PlaysBounded
<1>6. Steady'
  BY <1>1, SMT DEF Steady
<1> QED  BY <1>3, <1>4, <1>5, <1>6 DEF IInv

LEMMA DivideByZeroCorrect ==
  ASSUME IInv, DivideByZero
  PROVE  IInv'
<1>1. /\ pc \in {"advance", "look"} /\ pc' = "crashed"
      /\ UNCHANGED <<queue, maxPlays, cur, ready, start, chosen, sched, sent, plays, shown, races,
                     calls, under>>
  BY DEF DivideByZero, queueVars, history
<1>2. TypeOK'
  BY <1>1, Zenon DEF IInv, TypeOK, Pc
<1>3. Compact' /\ RacesBounded' /\ CountsHonest'
  BY <1>1, BooksKept
<1>4. FromSent' /\ CountsBounded' /\ PlaysBounded'
  BY <1>1, SMT DEF IInv, FromSent, Queued, CountsBounded, PlaysBounded
<1>5. Steady'
  BY <1>1, SMT DEF Steady
<1> QED  BY <1>2, <1>3, <1>4, <1>5 DEF IInv

-------------------------------------------------------------------------------
(* The handlers. *)

\* After a call that rewrote the queue inside a pass the counts have the slack
\* that the pass may use up, and every bound has grown by one.
LEMMA RacedCorrect ==
  ASSUME IInv, TypeOK', Compact', FromSent', RacesBounded',
         races' = IF pc = "top" THEN races ELSE races + 1,
         UNCHANGED <<cur, pc, chosen>>,
         \A m \in Msg : plays'[m] <= plays[m],
         \A i \in Slot : queue'.count[i] <= MaxCeiling + races,
         \A i \in 0 .. queue'.n - 1 :
           LET m == queue'.text[i]
           IN /\ i \in Slot /\ m \in Msg
              /\ plays'[m] <= queue'.count[i] + InFlight(m) + races
              /\ queue'.count[i] <= plays'[m] + races
  PROVE  IInv'
<1>1. /\ races' \in {races, races + 1} /\ races \in Nat
      /\ pc # "top" => races' = races + 1
  BY Numbers
<1>2. /\ \A i \in Slot : queue'.count[i] \in Nat /\ queue'.text[i] \in Msg \cup {Blank}
      /\ \A m \in Msg : plays'[m] \in Nat
  <2>1. /\ queue'.count \in [Slot -> 0 .. MaxCount] /\ queue'.text \in [Slot -> Msg \cup {Blank}]
        /\ plays' \in [Msg -> 0 .. MaxCount]
    BY DEF TypeOK, Queue
  <2>2. \A x \in 0 .. MaxCount : x \in Nat
    BY Bounds, SMT
  <2> QED  BY <2>1, <2>2
<1>3. CountsBounded'
  BY <1>1, <1>2, Numbers, SMT DEF CountsBounded
<1>4. PlaysBounded'
  <2>1. \A m \in Msg : plays'[m] <= MaxCeiling + races
    BY <1>1, <1>2, Numbers, SMT DEF IInv, PlaysBounded
  <2> QED  BY <1>1, <1>2, <2>1, Numbers, SMT DEF PlaysBounded
<1>5. CountsHonest'
  BY <1>1, <1>2, Numbers, SMT DEF CountsHonest, InFlight
<1>6. CASE pc = "top"
  <2>1. Steady'
    BY <1>6 DEF Steady
  <2> QED  BY <1>3, <1>4, <1>5, <2>1 DEF IInv
<1>7. CASE pc # "top"
  <2>1. races' = races + 1 /\ races' - 1 = races
    BY <1>1, <1>7, SMT
  <2>2. Slack'
    BY <1>1, <1>2, <2>1, Numbers, SMT DEF Slack, InFlight
  <2> QED  BY <1>3, <1>4, <1>5, <2>2 DEF IInv
<1> QED  BY <1>6, <1>7

\* A call that takes messages out of the queue.
LEMMA RewrittenCorrect ==
  ASSUME IInv, Kept(queue', queue), Race, calls' = calls + 1, TypeOK',
         UNCHANGED <<cur, pc, chosen, sent, plays>>
  PROVE  IInv'
<1>1. CASE queue' = queue
  BY <1>1, ElsewhereCorrect, Numbers, SMT DEF Race
<1>2. CASE queue' # queue
  <2>1. races' = IF pc = "top" THEN races ELSE races + 1
    BY <1>2 DEF Race
  <2>2. races' \in {races, races + 1} /\ races \in Nat
    BY <2>1, Numbers
  <2>3. Compact'
    BY Zenon DEF Kept, Packed, Compact
  <2>4. FromSent'
    <3>1. Queued(queue)' \subseteq Queued(queue)
      <4>1. \A i \in 0 .. queue'.n - 1 : queue'.text[i] \in Queued(queue)
        BY Zenon DEF Kept, Queued
      <4> QED  BY <4>1 DEF Queued
    <3> QED  BY <3>1, Zenon DEF IInv, FromSent
  <2>5. RacesBounded'
    <3>1. Cardinality(sent') = Cardinality(sent) /\ Cardinality(sent) \in Nat
      BY SentCounted DEF IInv, TypeOK
    <3> QED  BY <2>2, <3>1, Numbers, SMT DEF IInv, RacesBounded
  <2>6. \A i \in Slot : queue'.count[i] <= MaxCeiling + races
    <3>1. \A i \in Slot : queue'.count[i] = 0 \/ \E j \in Slot : queue'.count[i] = queue.count[j]
      BY Zenon DEF Kept
    <3> QED  BY <2>2, <3>1, Numbers, SMT DEF IInv, CountsBounded
  <2>7. ASSUME NEW i \in 0 .. queue'.n - 1
        PROVE  LET m == queue'.text[i]
               IN /\ m \in Msg
                  /\ plays[m] <= queue'.count[i] + InFlight(m) + races
                  /\ queue'.count[i] <= plays[m] + races
    <3>1. PICK j \in 0 .. queue.n - 1 :
            queue'.text[i] = queue.text[j] /\ queue'.count[i] = queue.count[j]
      BY Zenon DEF Kept
    <3>2. /\ plays[queue.text[j]] <= queue.count[j] + InFlight(queue.text[j]) + races
          /\ queue.count[j] <= plays[queue.text[j]] + races
      BY Zenon DEF IInv, CountsHonest
    <3> QED  BY <3>1, <3>2, Numbers, Zenon
  <2>8. \A i \in 0 .. queue'.n - 1 : i \in Slot
    <3>1. queue'.n \in 0 .. MAX_SENT_STRINGS
      BY DEF Kept, Queue
    <3> QED  BY <3>1, Bounds, SMT DEF Slot
  <2>9. \A m \in Msg : plays'[m] <= plays[m]
    BY Numbers, SMT
  <2>10. \A i \in 0 .. queue'.n - 1 :
           LET m == queue'.text[i]
           IN /\ i \in Slot /\ m \in Msg
              /\ plays'[m] <= queue'.count[i] + InFlight(m) + races
              /\ queue'.count[i] <= plays'[m] + races
    BY <2>7, <2>8, Zenon
  <2> QED  BY <2>1, <2>3, <2>4, <2>5, <2>6, <2>9, <2>10, RacedCorrect
<1> QED  BY <1>1, <1>2

\* The types after a call that races, given those of the queue.
LEMMA CallTyped ==
  ASSUME IInv, Call, Race, Shrink, queue' \in Queue, sched' \in [msg : Msg \cup {Blank}, active : BOOLEAN],
         plays' \in [Msg -> 0 .. MaxCount], UNCHANGED <<maxPlays, loopVars, sent, shown>>
  PROVE  TypeOK'
<1>1. /\ calls' = calls + 1 /\ calls' \in 0 .. MaxCalls
      /\ races' \in {races, races + 1} /\ races' \in Nat
  BY Numbers, Bounds, SMT DEF Call, Race, IInv, TypeOK
<1>2. RacesBounded'
  <2>1. Cardinality(sent') = Cardinality(sent) /\ Cardinality(sent) \in Nat
    BY SentCounted DEF IInv, TypeOK
  <2> QED  BY <1>1, <2>1, Numbers, SMT DEF IInv, RacesBounded
<1>3. races' \in 0 .. MaxCalls + Cardinality(Msg)
  BY <1>1, <1>2, RacesTyped DEF IInv, TypeOK
<1>4. under' \in BOOLEAN
  BY DEF Shrink
<1> QED  BY <1>1, <1>3, <1>4, Zenon DEF IInv, TypeOK, loopVars

LEMMA DescendingTyped ==
  ASSUME NEW s \in Seq(Int), NEW order \in Descending(s)
  PROVE  order \in Seq(Int) /\ Len(order) = Len(s)
<1>1. PICK p \in Bijection(DOMAIN s, DOMAIN s) : order = [k \in DOMAIN s |-> s[p[k]]]
  BY Zenon DEF Descending
<1>2. p \in [DOMAIN s -> DOMAIN s]
  BY DEF Bijection, Injection
<1>3. DOMAIN s = 1 .. Len(s) /\ Len(s) \in Nat /\ \A k \in 1 .. Len(s) : s[k] \in Int
  OBVIOUS
<1>4. order \in [1 .. Len(s) -> Int]
  BY <1>1, <1>2, <1>3
<1> QED  BY <1>3, <1>4

LEMMA DeleteSelectedCorrect ==
  ASSUME IInv, NEW indexes \in DeleteRequests, DeleteSelected(indexes)
  PROVE  IInv'
<1>1. PICK order \in Descending(Taken(indexes)) : queue' = Deletions(queue, order)[Len(order)]
  BY DEF DeleteSelected
<1>2. indexes \in Seq(Int)
  BY QueueAssumption
<1>3. Taken(indexes) \in Seq(Int)
  BY <1>2, Bounds, SMT DEF Taken
<1>4. Kept(queue', queue)
  BY <1>1, <1>3, DescendingTyped, DeletionsKept, CompactIsPacked, Zenon DEF IInv, TypeOK
<1>5. queue' \in Queue
  BY <1>4 DEF Kept
<1>6. TypeOK'
  BY <1>5, CallTyped, Zenon DEF DeleteSelected, IInv, TypeOK
<1> QED
  BY <1>4, <1>6, RewrittenCorrect, Zenon DEF DeleteSelected, Call, loopVars

LEMMA ClearStringsCorrect ==
  ASSUME IInv, ClearStrings
  PROVE  IInv'
<1>1. /\ queue'.text = [i \in Slot |-> Blank] /\ queue'.count = [i \in Slot |-> 0]
      /\ queue'.n = 0
      /\ queue' = [text |-> queue'.text, count |-> queue'.count, n |-> queue'.n]
  BY Zenon DEF ClearStrings, Empty
<1>2. Kept(queue', queue)
  <2>1. 0 \in 0 .. MaxCount /\ 0 \in 0 .. MAX_SENT_STRINGS
    BY Bounds, SMT
  <2>2. queue'.text \in [Slot -> Msg \cup {Blank}] /\ queue'.count \in [Slot -> 0 .. MaxCount]
    BY <1>1, <2>1
  <2>3. queue' \in Queue
    BY <1>1, <2>1, <2>2, Zenon DEF Queue
  <2>4. Packed(queue')
    BY <1>1, SlotIsNat, SMT DEF Packed
  <2> QED  BY <1>1, <2>3, <2>4, SMT DEF Kept
<1>3. sched' \in [msg : Msg \cup {Blank}, active : BOOLEAN]
  BY Zenon DEF ClearStrings, IInv, TypeOK
<1>4. queue' \in Queue
  BY <1>2 DEF Kept
<1>5. TypeOK'
  BY <1>3, <1>4, CallTyped, Zenon DEF ClearStrings, IInv, TypeOK
<1> QED
  BY <1>2, <1>5, RewrittenCorrect, Zenon DEF ClearStrings, Call, loopVars

LEMMA ResetPlayCountCorrect ==
  ASSUME IInv, NEW I \in SUBSET Slot, ResetPlayCount(I)
  PROVE  IInv'
<1> DEFINE played == {queue.text[i] : i \in {j \in I : queue.count[j] > 0}}
<1>1. /\ Call /\ Race /\ Shrink
      /\ queue' = [queue EXCEPT !.count = [i \in Slot |-> IF i \in I THEN 0 ELSE queue.count[i]]]
      /\ plays' = [m \in Msg |-> IF m \in played THEN 0 ELSE plays[m]]
      /\ UNCHANGED <<maxPlays, sched, loopVars, sent, shown>>
  BY DEF ResetPlayCount, ResetCounts
<1>2. queue \in Queue
  BY DEF IInv, TypeOK
<1>3. /\ queue'.text = queue.text /\ queue'.n = queue.n
      /\ queue'.count = [i \in Slot |-> IF i \in I THEN 0 ELSE queue.count[i]]
      /\ queue' = [text |-> queue'.text, count |-> queue'.count, n |-> queue'.n]
  BY <1>1, <1>2, Zenon DEF Queue
<1>4. \A i \in Slot : queue'.count[i] = IF i \in I THEN 0 ELSE queue.count[i]
  BY <1>3
<1>5. \A m \in Msg : plays'[m] = IF m \in played THEN 0 ELSE plays[m]
  BY <1>1
<1>6. TypeOK'
  <2>1. 0 \in 0 .. MaxCount
    BY Bounds, SMT
  <2>2. queue'.count \in [Slot -> 0 .. MaxCount]
    BY <1>2, <1>3, <2>1 DEF Queue
  <2>3. queue' \in Queue
    BY <1>2, <1>3, <2>2, Zenon DEF Queue
  <2>4. plays' \in [Msg -> 0 .. MaxCount]
    BY <1>1, <2>1, Zenon DEF IInv, TypeOK
  <2> QED  BY <1>1, <2>3, <2>4, CallTyped, Zenon DEF IInv, TypeOK
<1>7. CASE queue' = queue
  <2>1. played = {}
    BY <1>4, <1>7, Numbers, SMT
  <2>2. plays' = plays
    BY <1>1, <2>1, Zenon DEF IInv, TypeOK
  <2>3. calls' = calls + 1 /\ races' = races /\ UNCHANGED <<cur, pc, chosen, sent>>
    BY <1>1, <1>7 DEF Call, Race, loopVars
  <2> QED  BY <1>6, <1>7, <2>2, <2>3, ElsewhereCorrect, Numbers, SMT
<1>8. CASE queue' # queue
  <2>1. races' = (IF pc = "top" THEN races ELSE races + 1) /\ calls' = calls + 1
    BY <1>1, <1>8 DEF Race, Call
  <2>2. UNCHANGED <<cur, pc, chosen, sent>>
    BY <1>1 DEF loopVars
  <2>3. Compact' /\ FromSent'
    <3>1. Queued(queue)' = Queued(queue)
      BY <1>3, SMT DEF Queued
    <3> QED  BY <1>3, <2>2, <3>1, SMT DEF IInv, Compact, FromSent
  <2>4. RacesBounded'
    <3>1. Cardinality(sent') = Cardinality(sent) /\ Cardinality(sent) \in Nat
      BY <2>2, SentCounted DEF IInv, TypeOK
    <3> QED  BY <2>1, <3>1, Numbers, SMT DEF IInv, RacesBounded
  <2>5. \A m \in Msg : plays'[m] <= plays[m]
    BY <1>5, Numbers, SMT
  <2>6. \A i \in Slot : queue'.count[i] <= MaxCeiling + races
    BY <1>4, Numbers, SMT DEF IInv, CountsBounded
  <2>7. ASSUME NEW i \in 0 .. queue.n - 1, NEW m \in Msg, m = queue.text[i]
        PROVE  /\ plays'[m] <= queue'.count[i] + InFlight(m) + races
               /\ queue'.count[i] <= plays'[m] + races
    <3>1. m \in played <=> i \in I /\ queue.count[i] > 0
      <4>1. ASSUME NEW j \in I, queue.text[j] = m
            PROVE  j = i
        <5>1. j \in Slot /\ ~(j >= queue.n)
          BY <4>1, QueueAssumption, Zenon DEF IInv, Compact
        <5>2. j \in 0 .. queue.n - 1
          BY <5>1, Numbers, SlotIsNat, SMT
        <5> QED  BY <2>7, <4>1, <5>2, Zenon DEF IInv, Compact
      <4> QED  BY <2>7, <4>1
    <3>2. /\ plays[m] <= queue.count[i] + InFlight(m) + races
          /\ queue.count[i] <= plays[m] + races
      BY <2>7, Zenon DEF IInv, CountsHonest
    <3>3. /\ plays'[m] = (IF i \in I /\ queue.count[i] > 0 THEN 0 ELSE plays[m])
          /\ queue'.count[i] = (IF i \in I THEN 0 ELSE queue.count[i])
      BY <1>4, <1>5, <3>1, Numbers
    <3> HIDE DEF played
    <3> QED  BY <3>2, <3>3, Numbers, SMT
  <2>8. \A i \in 0 .. queue'.n - 1 :
          LET m == queue'.text[i]
          IN /\ i \in Slot /\ m \in Msg
             /\ plays'[m] <= queue'.count[i] + InFlight(m) + races
             /\ queue'.count[i] <= plays'[m] + races
    BY <1>3, <2>7, Numbers, Zenon
  <2> QED  BY <1>6, <2>1, <2>2, <2>3, <2>4, <2>5, <2>6, <2>8, RacedCorrect
<1> QED  BY <1>7, <1>8

LEMMA SendDataCorrect ==
  ASSUME IInv, NEW m \in Msg, SendData(m)
  PROVE  IInv'
<1> DEFINE old(i, j) == /\ queue'.text[i] = queue.text[j]
                        /\ queue'.count[i] = queue.count[j]
<1>1. /\ m \notin sent /\ queue' = Added(queue, m) /\ sent' = sent \cup {m}
      /\ plays' = [plays EXCEPT ![m] = 0]
      /\ IF queue.n < MAX_SENT_STRINGS THEN races' = races ELSE Race
      /\ Shrink
      /\ UNCHANGED <<maxPlays, sched, cur, ready, pc, start, chosen, shown, calls>>
  BY DEF SendData, loopVars
<1>2. queue \in Queue /\ Packed(queue) /\ m \notin Queued(queue)
  BY <1>1, CompactIsPacked DEF IInv, TypeOK, FromSent
<1>3. /\ queue' \in Queue /\ Packed(queue') /\ queue' # queue
      /\ \A i \in 0 .. queue'.n - 1 :
           \/ queue'.text[i] = m /\ queue'.count[i] = 0
           \/ \E j \in 0 .. queue.n - 1 : old(i, j)
      /\ \A i \in Slot : queue'.count[i] = 0 \/ \E j \in Slot : queue'.count[i] = queue.count[j]
      /\ queue.n < MAX_SENT_STRINGS =>
           /\ queue'.n = queue.n + 1
           /\ \A i \in Slot \ {queue.n} : old(i, i)
           /\ queue'.text[queue.n] = m /\ queue'.count[queue.n] = 0
  BY <1>1, <1>2, AddedKept
<1>4. /\ plays'[m] = 0
      /\ \A k \in Msg \ {m} : plays'[k] = plays[k]
      /\ \A k \in Msg : plays'[k] <= plays[k] /\ plays'[k] \in Nat
  <2>1. plays \in [Msg -> 0 .. MaxCount]
    BY DEF IInv, TypeOK
  <2>2. plays'[m] = 0 /\ \A k \in Msg \ {m} : plays'[k] = plays[k]
    BY <1>1, <2>1
  <2> QED  BY <2>2, Numbers, SMT
<1>5. InFlight(m) = 0 /\ \A k : InFlight(k)' = InFlight(k)
  <2>1. chosen # m
    BY <1>1, QueueAssumption DEF IInv, FromSent
  <2> QED  BY <1>1, <2>1 DEF InFlight
<1>6. races' \in {races, races + 1} /\ races' \in Nat
  BY <1>1, Numbers, SMT DEF Race
<1>7. Compact'
  BY <1>3, Zenon DEF Packed, Compact
<1>8. FromSent'
  <2>1. \A i \in 0 .. queue'.n - 1 : queue'.text[i] \in Queued(queue) \cup {m}
    BY <1>3, SMT DEF Queued
  <2>2. Queued(queue)' \subseteq Queued(queue) \cup {m}
    BY <2>1 DEF Queued
  <2> QED  BY <1>1, <2>2 DEF IInv, FromSent
<1>9. RacesBounded'
  <2>1. Cardinality(sent') = Cardinality(sent) + 1 /\ Cardinality(sent) \in Nat
    BY <1>1, SentCounted DEF IInv, TypeOK
  <2> QED  BY <1>1, <1>6, <2>1, Numbers, SMT DEF IInv, RacesBounded
<1>10. TypeOK'
  <2>1. sent' \in SUBSET Msg /\ shown' \subseteq sent' /\ calls' \in 0 .. MaxCalls
    BY <1>1 DEF IInv, TypeOK
  <2>2. races' \in 0 .. MaxCalls + Cardinality(Msg)
    BY <1>6, <1>9, <2>1, RacesTyped
  <2>3. plays' \in [Msg -> 0 .. MaxCount]
    <3>1. 0 \in 0 .. MaxCount
      BY Bounds, SMT
    <3> QED  BY <1>1, <3>1 DEF IInv, TypeOK
  <2>4. under' \in BOOLEAN
    BY <1>1 DEF Shrink
  <2> QED  BY <1>1, <1>3, <2>1, <2>2, <2>3, <2>4, Zenon DEF IInv, TypeOK
<1>11. \A i \in Slot : queue'.count[i] <= MaxCeiling + races /\ queue'.count[i] \in Nat
  BY <1>3, Numbers, SMT DEF IInv, CountsBounded
<1>12. \A i \in 0 .. queue'.n - 1 : i \in Slot
  <2>1. queue'.n \in 0 .. MAX_SENT_STRINGS
    BY <1>3 DEF Queue
  <2> QED  BY <2>1, Bounds, SMT DEF Slot
<1>13. ASSUME NEW i \in 0 .. queue'.n - 1
       PROVE  LET k == queue'.text[i]
              IN /\ i \in Slot /\ k \in Msg
                 /\ plays'[k] <= queue'.count[i] + InFlight(k) + races
                 /\ queue'.count[i] <= plays'[k] + races
  <2>1. CASE queue'.text[i] = m /\ queue'.count[i] = 0
    BY <1>4, <1>5, <1>12, <2>1, Numbers, SMT
  <2>2. ASSUME NEW j \in 0 .. queue.n - 1, old(i, j)
        PROVE  LET k == queue'.text[i]
               IN /\ k \in Msg
                  /\ plays'[k] <= queue'.count[i] + InFlight(k) + races
                  /\ queue'.count[i] <= plays'[k] + races
    <3>1. queue.text[j] \in Msg \ {m}
      BY <1>2, Numbers DEF Queued
    <3>2. /\ plays[queue.text[j]] <= queue.count[j] + InFlight(queue.text[j]) + races
          /\ queue.count[j] <= plays[queue.text[j]] + races
      BY Zenon DEF IInv, CountsHonest
    <3>3. plays'[queue.text[j]] = plays[queue.text[j]]
      BY <1>4, <3>1
    <3> QED  BY <2>2, <3>1, <3>2, <3>3, Zenon
  <2> QED  BY <1>3, <1>12, <2>1, <2>2
<1>14. CASE ~(queue.n < MAX_SENT_STRINGS)
  <2>1. races' = IF pc = "top" THEN races ELSE races + 1
    BY <1>1, <1>3, <1>14 DEF Race
  <2> HIDE DEF old
  <2> QED
    BY <1>1, <1>4, <1>7, <1>8, <1>9, <1>10, <1>11, <1>13, <2>1, RacedCorrect
<1>15. CASE queue.n < MAX_SENT_STRINGS
  <2>1. races' = races
    BY <1>1, <1>15
  <2>2. cur = queue.n \/ old(cur, cur)
    BY <1>3, <1>15, Numbers
  <2>3. cur = queue.n => queue'.text[cur] = m /\ queue'.count[cur] = 0
    BY <1>3, <1>15
  <2>4. CountsBounded'
    BY <1>1, <1>11, <2>1, <2>2, <2>3, Numbers, SMT DEF IInv, CountsBounded
  <2>5. PlaysBounded'
    <3>1. \A k \in Msg : plays'[k] <= MaxCeiling + races
      BY <1>4, Numbers, SMT DEF IInv, PlaysBounded
    <3>2. ASSUME pc = "copy", queue'.text[cur] \in Msg
          PROVE  plays'[queue'.text[cur]] <= MaxCeiling - 1 + races
      <4>1. CASE cur = queue.n
        BY <1>4, <2>3, <4>1, Numbers, SMT
      <4>2. CASE old(cur, cur)
        BY <1>4, <3>2, <4>2, Numbers, SMT DEF IInv, PlaysBounded
      <4> QED  BY <2>2, <4>1, <4>2
    <3>3. ASSUME pc = "publish", chosen \in Msg
          PROVE  plays'[chosen] <= MaxCeiling - 1 + races
      BY <1>4, <3>3, Numbers, SMT DEF IInv, PlaysBounded
    <3> QED  BY <1>1, <2>1, <3>1, <3>2, <3>3, Zenon DEF PlaysBounded
  <2>6. CountsHonest'
    BY <1>1, <1>13, <2>1, SMT DEF CountsHonest, InFlight
  <2>7. CASE Steady
    <3>1. queue'.n = queue.n + 1 /\ queue.n \in Nat
      BY <1>3, <1>15, Numbers
    <3>2. ASSUME pc \in {"look", "copy", "publish", "count"}
          PROVE  cur < queue.n + 1 /\ cur # queue.n /\ old(cur, cur)
      <4>1. cur < queue.n
        BY <2>7, <3>2, Zenon DEF Steady
      <4>2. cur < queue.n + 1 /\ cur # queue.n
        BY <3>1, <4>1, Numbers, SlotIsNat, SMT
      <4> QED  BY <2>2, <4>2
    <3>3. ASSUME pc = "count" PROVE plays'[chosen] = plays[chosen]
      <4>1. cur \in 0 .. queue.n - 1 /\ queue.text[cur] = chosen
        BY <2>7, <3>3, Numbers, SlotIsNat, SMT DEF Steady
      <4> QED  BY <1>2, <1>4, <4>1, Numbers DEF Queued
    <3> QED
      <4>1. Steady'
        BY <1>1, <2>1, <2>7, <3>1, <3>2, <3>3, SMT DEF Steady
      <4> QED  BY <1>7, <1>8, <1>9, <1>10, <2>4, <2>5, <2>6, <4>1 DEF IInv
  <2>8. CASE Slack
    <3>1. ASSUME NEW i \in 0 .. queue'.n - 1
          PROVE  LET k == queue'.text[i]
                 IN /\ plays'[k] <= queue'.count[i] + InFlight(k) + (races - 1)
                    /\ queue'.count[i] <= plays'[k] + (races - 1)
      <4>1. CASE queue'.text[i] = m /\ queue'.count[i] = 0
        BY <1>4, <1>5, <2>8, <4>1, Numbers, SMT DEF Slack
      <4>2. ASSUME NEW j \in 0 .. queue.n - 1, old(i, j)
            PROVE  LET k == queue'.text[i]
                   IN /\ plays'[k] <= queue'.count[i] + InFlight(k) + (races - 1)
                      /\ queue'.count[i] <= plays'[k] + (races - 1)
        <5>1. queue.text[j] \in Msg \ {m}
          BY <1>2, Numbers DEF Queued
        <5>2. /\ plays[queue.text[j]] <= queue.count[j] + InFlight(queue.text[j]) + (races - 1)
              /\ queue.count[j] <= plays[queue.text[j]] + (races - 1)
          BY <2>8, Zenon DEF Slack
        <5>3. plays'[queue.text[j]] = plays[queue.text[j]]
          BY <1>4, <5>1
        <5> QED  BY <4>2, <5>2, <5>3, Zenon
      <4> QED  BY <1>3, <4>1, <4>2
    <3>2. Slack'
      BY <1>1, <2>1, <2>8, <3>1, SMT DEF Slack, InFlight
    <3> QED  BY <1>7, <1>8, <1>9, <1>10, <2>4, <2>5, <2>6, <3>2 DEF IInv
  <2> QED  BY <2>7, <2>8 DEF IInv
<1> QED  BY <1>14, <1>15

LEMMA StepCorrect ==
  ASSUME IInv, [Next]_vars
  PROVE  IInv'
<1>1. CASE UNCHANGED vars
  <2>1. TypeOK'
    BY <1>1, Zenon DEF IInv, TypeOK, vars, queueVars, loopVars, history
  <2> QED
    BY <1>1, <2>1, ElsewhereCorrect, Numbers, SMT DEF vars, queueVars, loopVars, history
<1>2. CASE GraceOver
  BY <1>2, IdleCorrect
<1>3. CASE LoopStep
  BY <1>3, IdleCorrect, BeginPassCorrect, WrapIndexCorrect, LookFoundCorrect, LookNextCorrect,
     CopyTextCorrect, PublishCorrect, CountPlayCorrect, AdvanceCorrect, DivideByZeroCorrect
     DEF LoopStep
<1>4. CASE Handler
  <2>1. CASE \E m \in Msg : SendData(m)
    BY <2>1, SendDataCorrect
  <2>2. CASE \E indexes \in DeleteRequests : DeleteSelected(indexes)
    BY <2>2, DeleteSelectedCorrect
  <2>3. CASE ClearStrings
    BY <2>3, ClearStringsCorrect
  <2>4. CASE \E I \in {{i} : i \in Slot} \cup {Slot} : ResetPlayCount(I)
    BY <2>4, ResetPlayCountCorrect
  <2>5. CASE \E v \in Ceilings : SetMaxPlays(v)
    BY <2>5, IdleCorrect
  <2> QED  BY <1>4, <2>1, <2>2, <2>3, <2>4, <2>5 DEF Handler
<1> QED  BY <1>1, <1>2, <1>3, <1>4 DEF Next

-------------------------------------------------------------------------------
\* The books and the pass that works on them hang together as IInv says.
THEOREM InvCorrect == Spec => []IInv
<1>1. IInv /\ [Next]_vars => IInv'
  BY StepCorrect
<1> QED  BY InitCorrect, <1>1, PTL DEF Spec

\* Every variable keeps its type: the cursor stays within the slots, and no
\* count outgrows the ceiling by more than the races and the play in flight.
THEOREM TypeCorrect == Spec => []TypeOK
<1>1. IInv => TypeOK
  BY DEF IInv
<1> QED  BY InvCorrect, <1>1, PTL

\* addSentString and handleDeleteSelected keep the queue free of holes and of
\* stale texts, whatever is deleted and wherever the calls fall in a pass.
THEOREM StaysCompact == Spec => []Compact
<1>1. IInv => Compact
  BY DEF IInv
<1> QED  BY InvCorrect, <1>1, PTL

\* serverSequencerLoop counts the play of a message it copied out of the queue
\* earlier, by position and without a lock: a count is off by no more than the
\* handler calls that rewrote the queue inside a pass.
THEOREM CountsStayHonest == Spec => []CountsHonest
<1>1. IInv => CountsHonest
  BY DEF IInv
<1> QED  BY InvCorrect, <1>1, PTL
===============================================================================
