------------------------ MODULE PendingPromptsProofs ------------------------
(***************************************************************************)
(* What the operations of PendingPrompts do to the ids a queue holds, for  *)
(* queues of any length: none of them duplicates an entry, and none loses  *)
(* one it was not asked to remove.                                         *)
(***************************************************************************)
EXTENDS PendingPrompts, WellFoundedInduction, TLAPS

\* Ids are unique: no entry is in the queue twice.
Distinct(q) == \A i, j \in DOMAIN q : q[i].id = q[j].id => i = j

\* Min of FiniteSetsExt is a member of its set: less-than is well-founded.
LEMMA MinIsMember ==
  ASSUME NEW S \in SUBSET Nat, S # {}
  PROVE  Min(S) \in S
  <1> DEFINE R == {p \in Nat \X Nat : p[1] < p[2]}
  <1>1. OpToRel(<, Nat) = R
    BY Zenon DEF OpToRel
  <1>2. IsWellFoundedOn(R, Nat)
    BY <1>1, NatLessThanWellFounded, Zenon
  <1>3. PICK x \in S : \A y \in S : ~ (<<y, x>> \in R)
    <2> HIDE DEF R
    <2> QED
      BY <1>2, WFMin
  <1>4. ASSUME NEW y \in S PROVE x <= y
    <2>1. <<y, x>> \notin R
      BY <1>3
    <2> QED
      BY <2>1
  <1> QED
    BY <1>4 DEF Min

LEMMA PositionFound ==
  ASSUME NEW Id, NEW Text, NEW q \in Seq(Entries(Id, Text)), NEW id \in Ids(q)
  PROVE  /\ PositionOf(q, id) \in 1 .. Len(q)
         /\ q[PositionOf(q, id)].id = id
  <1> DEFINE I == {i \in 1 .. Len(q) : q[i].id = id}
  <1>1. I # {}
    BY DEF Ids, ToSet
  <1>2. PositionOf(q, id) = Min(I)
    BY <1>1 DEF PositionOf, SelectInSeq
  <1>3. Min(I) \in I
    <2>1. I \in SUBSET Nat
      OBVIOUS
    <2> QED
      BY <1>1, <2>1, MinIsMember
  <1> QED
    BY <1>2, <1>3

-----------------------------------------------------------------------------
\* Sequences.
LEMMA ConcatElements ==
  ASSUME NEW S, NEW a \in Seq(S), NEW b \in Seq(S)
  PROVE  /\ a \o b \in Seq(S)
         /\ Len(a \o b) = Len(a) + Len(b)
         /\ \A i \in 1 .. Len(a) + Len(b) :
               (a \o b)[i] = IF i <= Len(a) THEN a[i] ELSE b[i - Len(a)]
  OBVIOUS

LEMMA RemoveAtElements ==
  ASSUME NEW S, NEW q \in Seq(S), NEW at \in 1 .. Len(q)
  PROVE  /\ RemoveAt(q, at) \in Seq(S)
         /\ DOMAIN RemoveAt(q, at) = 1 .. Len(q) - 1
         /\ \A i \in 1 .. Len(q) - 1 : RemoveAt(q, at)[i] = IF i < at THEN q[i] ELSE q[i + 1]
  <1> DEFINE a == SubSeq(q, 1, at - 1)
             b == SubSeq(q, at + 1, Len(q))
  <1>1. /\ a \in Seq(S) /\ Len(a) = at - 1
        /\ \A i \in 1 .. at - 1 : a[i] = q[i]
    OBVIOUS
  <1>2. /\ b \in Seq(S) /\ Len(b) = Len(q) - at
        /\ \A i \in 1 .. Len(q) - at : b[i] = q[i + at]
    OBVIOUS
  <1> HIDE DEF a, b
  <1>3. /\ a \o b \in Seq(S)
        /\ DOMAIN (a \o b) = 1 .. Len(q) - 1
        /\ \A i \in 1 .. Len(q) - 1 : (a \o b)[i] = IF i < at THEN a[i] ELSE b[i - Len(a)]
    <2>2. /\ a \o b \in Seq(S)
          /\ Len(a \o b) = Len(a) + Len(b)
          /\ \A i \in 1 .. Len(a) + Len(b) :
                (a \o b)[i] = IF i <= Len(a) THEN a[i] ELSE b[i - Len(a)]
      BY <1>1, <1>2, ConcatElements
    <2>1. Len(a \o b) = Len(q) - 1
      BY <1>1, <1>2, <2>2
    <2>3. Len(a) + Len(b) = Len(q) - 1 /\ \A i \in Nat : i <= Len(a) <=> i < at
      BY <1>1, <1>2
    <2> QED
      BY <2>1, <2>2, <2>3
  <1>4. ASSUME NEW i \in 1 .. Len(q) - 1
        PROVE  (a \o b)[i] = IF i < at THEN q[i] ELSE q[i + 1]
    <2>1. CASE i < at
      BY <1>1, <1>3, <2>1
    <2>2. CASE ~ (i < at)
      <3>1. i - Len(a) \in 1 .. Len(q) - at /\ (i - Len(a)) + at = i + 1
        BY <1>1, <2>2
      <3> QED
        BY <1>2, <1>3, <2>2, <3>1
    <2> QED
      BY <2>1, <2>2
  <1> QED
    BY <1>3, <1>4 DEF a, b, RemoveAt

LEMMA ConsElements ==
  ASSUME NEW S, NEW q \in Seq(S), NEW e \in S
  PROVE  /\ Cons(e, q) \in Seq(S)
         /\ DOMAIN Cons(e, q) = 1 .. Len(q) + 1
         /\ Cons(e, q)[1] = e
         /\ \A i \in 2 .. Len(q) + 1 : Cons(e, q)[i] = q[i - 1]
  BY DEF Cons

LEMMA RemoveAtIds ==
  ASSUME NEW S, NEW q \in Seq(S), NEW at \in 1 .. Len(q), Distinct(q)
  PROVE  /\ Distinct(RemoveAt(q, at))
         /\ Ids(RemoveAt(q, at)) = Ids(q) \ {q[at].id}
  <1> DEFINE r == RemoveAt(q, at)
  <1>1. /\ DOMAIN r = 1 .. Len(q) - 1
        /\ \A i \in 1 .. Len(q) - 1 : r[i] = IF i < at THEN q[i] ELSE q[i + 1]
        /\ DOMAIN q = 1 .. Len(q)
        /\ Len(q) \in Nat
    BY RemoveAtElements
  <1> HIDE DEF r
  <1>2. Distinct(r)
    <2> SUFFICES ASSUME NEW i \in DOMAIN r, NEW j \in DOMAIN r, r[i].id = r[j].id PROVE i = j
      BY DEF Distinct
    <2> DEFINE k(n) == IF n < at THEN n ELSE n + 1
    <2>1. k(i) \in DOMAIN q /\ r[i] = q[k(i)]
      BY <1>1
    <2>2. k(j) \in DOMAIN q /\ r[j] = q[k(j)]
      BY <1>1
    <2>3. k(i) = k(j)
      BY <2>1, <2>2 DEF Distinct
    <2> QED
      BY <1>1, <2>3
  <1>3. ASSUME NEW id \in Ids(r) PROVE id \in Ids(q) \ {q[at].id}
    <2>1. PICK i \in DOMAIN r : id = r[i].id
      BY DEF Ids, ToSet
    <2> DEFINE k == IF i < at THEN i ELSE i + 1
    <2>2. k \in DOMAIN q /\ k # at /\ id = q[k].id
      BY <1>1, <2>1
    <2> QED
      BY <1>1, <2>2 DEF Ids, ToSet, Distinct
  <1>4. ASSUME NEW id \in Ids(q) \ {q[at].id} PROVE id \in Ids(r)
    <2>1. PICK k \in DOMAIN q : id = q[k].id /\ k # at
      BY DEF Ids, ToSet
    <2> DEFINE i == IF k < at THEN k ELSE k - 1
    <2>2. i \in DOMAIN r /\ id = r[i].id
      BY <1>1, <2>1
    <2> QED
      BY <2>2 DEF Ids, ToSet
  <1> QED
    BY <1>2, <1>3, <1>4 DEF r

LEMMA ConsIds ==
  ASSUME NEW S, NEW q \in Seq(S), NEW e \in S
  PROVE  /\ Ids(Cons(e, q)) = Ids(q) \cup {e.id}
         /\ (Distinct(q) /\ e.id \notin Ids(q)) => Distinct(Cons(e, q))
  <1>0. /\ DOMAIN Cons(e, q) = 1 .. Len(q) + 1
        /\ Cons(e, q)[1] = e
        /\ \A i \in 2 .. Len(q) + 1 : Cons(e, q)[i] = q[i - 1]
    BY DEF Cons
  <1> DEFINE r == Cons(e, q)
  <1>1. /\ DOMAIN r = 1 .. Len(q) + 1
        /\ r[1] = e
        /\ \A i \in 2 .. Len(q) + 1 : r[i] = q[i - 1]
    BY <1>0
  <1>6. DOMAIN q = 1 .. Len(q) /\ Len(q) \in Nat
    OBVIOUS
  <1> HIDE DEF r
  <1>2. ASSUME NEW id \in Ids(r) PROVE id \in Ids(q) \cup {e.id}
    <2>1. PICK i \in DOMAIN r : id = r[i].id
      BY DEF Ids, ToSet
    <2>2. CASE i = 1
      BY <1>1, <2>1, <2>2
    <2>3. CASE i # 1
      <3>1. i - 1 \in DOMAIN q /\ id = q[i - 1].id
        BY <1>1, <1>6, <2>1, <2>3
      <3> QED
        BY <3>1 DEF Ids, ToSet
    <2> QED
      BY <2>2, <2>3
  <1>3. ASSUME NEW id \in Ids(q) PROVE id \in Ids(r)
    <2>1. PICK k \in DOMAIN q : id = q[k].id
      BY DEF Ids, ToSet
    <2>2. k + 1 \in DOMAIN r /\ id = r[k + 1].id
      BY <1>1, <1>6, <2>1
    <2> QED
      BY <2>2 DEF Ids, ToSet
  <1>4. e.id \in Ids(r)
    <2>1. 1 \in DOMAIN r
      BY <1>1, <1>6
    <2> QED
      BY <1>1, <2>1 DEF Ids, ToSet
  <1>5. ASSUME Distinct(q), e.id \notin Ids(q) PROVE Distinct(r)
    <2> SUFFICES ASSUME NEW i \in DOMAIN r, NEW j \in DOMAIN r, r[i].id = r[j].id PROVE i = j
      BY DEF Distinct
    <2>1. \A k \in DOMAIN q : q[k].id # e.id
      BY <1>5 DEF Ids, ToSet
    <2>2. CASE i = 1 \/ j = 1
      <3>1. \A n \in DOMAIN r : n # 1 => n - 1 \in DOMAIN q /\ r[n] = q[n - 1]
        BY <1>1, <1>6
      <3> QED
        BY <1>1, <2>1, <2>2, <3>1
    <2>3. CASE i # 1 /\ j # 1
      <3>1. i - 1 \in DOMAIN q /\ j - 1 \in DOMAIN q
        BY <1>1, <1>6, <2>3
      <3>2. r[i] = q[i - 1] /\ r[j] = q[j - 1]
        BY <1>1, <1>6, <2>3
      <3>3. i - 1 = j - 1
        BY <1>5, <3>1, <3>2 DEF Distinct
      <3> QED
        BY <1>1, <1>6, <3>3
    <2> QED
      BY <2>2, <2>3
  <1> QED
    BY <1>2, <1>3, <1>4, <1>5 DEF r

LEMMA TailIds ==
  ASSUME NEW S, NEW q \in Seq(S), q # <<>>, Distinct(q)
  PROVE  /\ Tail(q) \in Seq(S) /\ Distinct(Tail(q))
         /\ Head(q) \in S /\ Head(q).id \in Ids(q)
         /\ Ids(Tail(q)) = Ids(q) \ {Head(q).id}
  <1> DEFINE r == Tail(q)
  <1>1. /\ r \in Seq(S)
        /\ DOMAIN r = 1 .. Len(q) - 1
        /\ \A i \in 1 .. Len(q) - 1 : r[i] = q[i + 1]
    OBVIOUS
  <1>2. /\ DOMAIN q = 1 .. Len(q) /\ Len(q) \in Nat \ {0}
        /\ Head(q) = q[1] /\ Head(q) \in S
    OBVIOUS
  <1> HIDE DEF r
  <1>3. Distinct(r)
    <2> SUFFICES ASSUME NEW i \in DOMAIN r, NEW j \in DOMAIN r, r[i].id = r[j].id PROVE i = j
      BY DEF Distinct
    <2>1. i + 1 \in DOMAIN q /\ j + 1 \in DOMAIN q /\ r[i] = q[i + 1] /\ r[j] = q[j + 1]
      BY <1>1, <1>2
    <2>2. i + 1 = j + 1
      BY <2>1 DEF Distinct
    <2> QED
      BY <1>1, <2>2
  <1>4. Head(q).id \in Ids(q)
    <2>1. 1 \in DOMAIN q
      BY <1>2
    <2> QED
      BY <1>2, <2>1 DEF Ids, ToSet
  <1>5. ASSUME NEW id \in Ids(r) PROVE id \in Ids(q) \ {Head(q).id}
    <2>1. PICK i \in DOMAIN r : id = r[i].id
      BY DEF Ids, ToSet
    <2>2. i + 1 \in DOMAIN q /\ i + 1 # 1 /\ 1 \in DOMAIN q /\ id = q[i + 1].id
      BY <1>1, <1>2, <2>1
    <2> QED
      BY <1>2, <2>2 DEF Ids, ToSet, Distinct
  <1>6. ASSUME NEW id \in Ids(q) \ {Head(q).id} PROVE id \in Ids(r)
    <2>1. PICK k \in DOMAIN q : id = q[k].id /\ k # 1
      BY <1>2 DEF Ids, ToSet
    <2>2. k - 1 \in DOMAIN r /\ id = r[k - 1].id
      BY <1>1, <1>2, <2>1
    <2> QED
      BY <2>2 DEF Ids, ToSet
  <1> QED
    BY <1>1, <1>2, <1>3, <1>4, <1>5, <1>6 DEF r

LEMMA AppendIds ==
  ASSUME NEW S, NEW q \in Seq(S), NEW e \in S
  PROVE  /\ Ids(Append(q, e)) = Ids(q) \cup {e.id}
         /\ (Distinct(q) /\ e.id \notin Ids(q)) => Distinct(Append(q, e))
  <1> DEFINE r == Append(q, e)
  <1>1. /\ DOMAIN r = 1 .. Len(q) + 1
        /\ r[Len(q) + 1] = e
        /\ \A i \in 1 .. Len(q) : r[i] = q[i]
        /\ DOMAIN q = 1 .. Len(q)
        /\ Len(q) \in Nat
    OBVIOUS
  <1> HIDE DEF r
  <1>2. ASSUME NEW id \in Ids(r) PROVE id \in Ids(q) \cup {e.id}
    BY <1>1 DEF Ids, ToSet
  <1>3. ASSUME NEW id \in Ids(q) PROVE id \in Ids(r)
    BY <1>1 DEF Ids, ToSet
  <1>4. e.id \in Ids(r)
    <2>1. Len(q) + 1 \in DOMAIN r
      BY <1>1
    <2> QED
      BY <1>1, <2>1 DEF Ids, ToSet
  <1>5. ASSUME Distinct(q), e.id \notin Ids(q) PROVE Distinct(r)
    <2> SUFFICES ASSUME NEW i \in DOMAIN r, NEW j \in DOMAIN r, r[i].id = r[j].id PROVE i = j
      BY DEF Distinct
    <2>1. \A k \in DOMAIN q : q[k].id # e.id
      BY <1>5 DEF Ids, ToSet
    <2> QED
      BY <1>1, <1>5, <2>1 DEF Distinct
  <1> QED
    BY <1>2, <1>3, <1>4, <1>5 DEF r

LEMMA ReplaceIds ==
  ASSUME NEW S, NEW q \in Seq(S), NEW at \in 1 .. Len(q), NEW e \in S, e.id = q[at].id
  PROVE  /\ ReplaceAt(q, at, e) \in Seq(S)
         /\ Ids(ReplaceAt(q, at, e)) = Ids(q)
         /\ Distinct(q) => Distinct(ReplaceAt(q, at, e))
  <1> DEFINE r == ReplaceAt(q, at, e)
  <1>1. /\ DOMAIN r = DOMAIN q
        /\ r[at] = e
        /\ \A i \in DOMAIN q : r[i].id = q[i].id
    BY DEF ReplaceAt
  <1>2. r \in Seq(S)
    BY DEF ReplaceAt
  <1> HIDE DEF r
  <1>3. Ids(r) = Ids(q)
    BY <1>1 DEF Ids, ToSet
  <1>4. Distinct(q) => Distinct(r)
    BY <1>1 DEF Distinct
  <1> QED
    BY <1>2, <1>3, <1>4 DEF r

-----------------------------------------------------------------------------
\* delete (pending-prompt-service.ts) removes the entry with the id and nothing else.
THEOREM DeleteIds ==
  ASSUME NEW Id, NEW Text, NEW q \in Seq(Entries(Id, Text)), NEW id, Distinct(q)
  PROVE  /\ Delete(q, id) \in Seq(Entries(Id, Text))
         /\ Distinct(Delete(q, id))
         /\ Ids(Delete(q, id)) = Ids(q) \ {id}
  <1>1. CASE id \in Ids(q)
    <2>1. /\ PositionOf(q, id) \in 1 .. Len(q)
          /\ q[PositionOf(q, id)].id = id
      BY <1>1, PositionFound
    <2>2. Delete(q, id) = RemoveAt(q, PositionOf(q, id))
      BY <1>1 DEF Delete
    <2> QED
      BY <2>1, <2>2, RemoveAtIds, RemoveAtElements
  <1>2. CASE id \notin Ids(q)
    BY <1>2 DEF Delete
  <1> QED
    BY <1>1, <1>2

\* update keeps the ids, whether it edits, promotes or demotes.
THEOREM UpdateIds ==
  ASSUME NEW Id, NEW Text, NEW q \in Seq(Entries(Id, Text)), NEW id \in Id, NEW text \in Text,
         NEW delivery \in Deliveries, Distinct(q)
  PROVE  /\ Update(q, id, text, delivery) \in Seq(Entries(Id, Text))
         /\ Distinct(Update(q, id, text, delivery))
         /\ Ids(Update(q, id, text, delivery)) = Ids(q)
  <1> DEFINE new == [id |-> id, text |-> text, delivery |-> delivery]
             at  == PositionOf(q, id)
  <1>1. new \in Entries(Id, Text) /\ new.id = id
    BY DEF Entries
  <1> DEFINE less == Delete(q, id)
  <1>6. less \in Seq(Entries(Id, Text)) /\ Distinct(less) /\ Ids(less) = Ids(q) \ {id}
    BY DeleteIds
  <1>2. CASE id \notin Ids(q)
    BY <1>2 DEF Update
  <1>3. CASE id \in Ids(q) /\ delivery = "steer"
    <2>1. Update(q, id, text, delivery) = Cons(new, less)
      BY <1>3 DEF Update
    <2> HIDE DEF less, new
    <2>2. Cons(new, less) \in Seq(Entries(Id, Text))
      BY <1>1, <1>6, ConsElements
    <2>3. Ids(Cons(new, less)) = Ids(less) \cup {new.id}
      BY <1>1, <1>6, ConsIds
    <2>4. Distinct(Cons(new, less))
      BY <1>1, <1>6, ConsIds
    <2> QED
      BY <1>1, <1>3, <1>6, <2>1, <2>2, <2>3, <2>4
  <1>4. CASE id \in Ids(q) /\ delivery # "steer" /\ q[at].delivery = "steer"
    <2>1. Update(q, id, text, delivery) = Append(less, new)
      BY <1>4 DEF Update
    <2> HIDE DEF less, new
    <2>2. Append(less, new) \in Seq(Entries(Id, Text))
      BY <1>1, <1>6
    <2>3. /\ Distinct(Append(less, new))
          /\ Ids(Append(less, new)) = Ids(less) \cup {new.id}
      BY <1>1, <1>6, AppendIds
    <2> QED
      BY <1>1, <1>4, <1>6, <2>1, <2>2, <2>3
  <1>5. CASE id \in Ids(q) /\ delivery # "steer" /\ q[at].delivery # "steer"
    <2>1. Update(q, id, text, delivery) = ReplaceAt(q, at, new)
      BY <1>5 DEF Update
    <2>2. at \in 1 .. Len(q) /\ q[at].id = id
      BY <1>5, PositionFound
    <2> QED
      BY <1>1, <2>1, <2>2, ReplaceIds
  <1> QED
    BY <1>2, <1>3, <1>4, <1>5

\* consumeSteer takes an entry that is in the queue, and only that one.
THEOREM ConsumeIds ==
  ASSUME NEW Id, NEW Text, NEW q \in Seq(Entries(Id, Text)), Distinct(q), HasSteer(q)
  PROVE  /\ ConsumeSteer(q) \in Seq(Entries(Id, Text))
         /\ Distinct(ConsumeSteer(q))
         /\ FirstSteer(q).id \in Ids(q)
         /\ Ids(ConsumeSteer(q)) = Ids(q) \ {FirstSteer(q).id}
  <1> DEFINE I == {i \in 1 .. Len(q) : q[i].delivery = "steer"}
  <1>1. I # {} /\ I \in SUBSET Nat
    BY DEF HasSteer, ToSet
  <1>2. FirstSteer(q) = q[Min(I)]
    BY <1>1 DEF FirstSteer, SelectInSeq
  <1>3. Min(I) \in 1 .. Len(q)
    <2>1. Min(I) \in I
      BY <1>1, MinIsMember
    <2> QED
      BY <2>1
  <1>4. FirstSteer(q).id \in Ids(q)
    <2> HIDE DEF I
    <2>1. FirstSteer(q) \in ToSet(q)
      BY <1>2, <1>3 DEF ToSet
    <2> QED
      BY <2>1 DEF Ids
  <1> QED
    BY <1>4, DeleteIds DEF ConsumeSteer

\* enqueue adds the new entry's id, or keeps the ids when it merges.
THEOREM EnqueueIds ==
  ASSUME NEW Id, NEW Text, NEW q \in Seq(Entries(Id, Text)), NEW new \in Entries(Id, Text),
         Distinct(q), new.id \notin Ids(q)
  PROVE  /\ Enqueue(q, new) \in Seq(Entries(Id, Text))
         /\ Distinct(Enqueue(q, new))
         /\ Ids(Enqueue(q, new)) = IF Queued(q, new.text) THEN Ids(q) ELSE Ids(q) \cup {new.id}
  <1> DEFINE I     == {i \in 1 .. Len(q) : q[i].text = new.text}
             at    == SelectInSeq(q, LAMBDA e : e.text = new.text)
             old   == IF at = 0 THEN new ELSE q[at]
             rest  == IF at = 0 THEN q ELSE RemoveAt(q, at)
             front == [old EXCEPT !.delivery = "steer"]
  <1>1. /\ old \in Entries(Id, Text)
        /\ rest \in Seq(Entries(Id, Text))
        /\ Distinct(rest)
        /\ old.id \notin Ids(rest)
        /\ Ids(rest) \cup {old.id} = IF Queued(q, new.text) THEN Ids(q) ELSE Ids(q) \cup {new.id}
    <2>1. CASE I = {}
      <3>1. at = 0
        BY <2>1 DEF SelectInSeq
      <3>2. ~Queued(q, new.text)
        BY <2>1 DEF Queued, ToSet
      <3> QED
        BY <3>1, <3>2
    <2>2. CASE I # {}
      <3>1. at = Min(I)
        BY <2>2 DEF SelectInSeq
      <3>2. Min(I) \in I
        <4>1. I \in SUBSET Nat
          OBVIOUS
        <4> QED
          BY <2>2, <4>1, MinIsMember
      <3>3. at \in 1 .. Len(q) /\ q[at].text = new.text
        BY <3>1, <3>2
      <3> HIDE DEF at
      <3>4. Queued(q, new.text) /\ q[at].id \in Ids(q)
        <4>1. q[at] \in ToSet(q)
          BY <3>3 DEF ToSet
        <4> QED
          BY <3>3, <4>1 DEF Queued, Ids
      <3>5. at # 0 /\ q[at] \in Entries(Id, Text)
        BY <3>3
      <3>6. /\ RemoveAt(q, at) \in Seq(Entries(Id, Text))
            /\ Distinct(RemoveAt(q, at))
            /\ Ids(RemoveAt(q, at)) = Ids(q) \ {q[at].id}
        BY <3>3, RemoveAtIds, RemoveAtElements
      <3> QED
        BY <3>4, <3>5, <3>6
    <2> QED
      BY <2>1, <2>2
  <1>2. front \in Entries(Id, Text) /\ front.id = old.id
    BY <1>1 DEF Entries, Deliveries
  <1>3. Enqueue(q, new) \in {Cons(front, rest), Append(rest, old)}
    BY DEF Enqueue
  <1> DEFINE ids == IF Queued(q, new.text) THEN Ids(q) ELSE Ids(q) \cup {new.id}
  <1> HIDE DEF old, rest, front, ids
  <1>4. LET r == Append(rest, old)
        IN  r \in Seq(Entries(Id, Text)) /\ Distinct(r) /\ Ids(r) = ids
    <2>1. Append(rest, old) \in Seq(Entries(Id, Text))
      BY <1>1
    <2>2. /\ Distinct(Append(rest, old))
          /\ Ids(Append(rest, old)) = Ids(rest) \cup {old.id}
      BY <1>1, AppendIds
    <2> QED
      BY <1>1, <2>1, <2>2 DEF ids
  <1>5. LET r == Cons(front, rest)
        IN  r \in Seq(Entries(Id, Text)) /\ Distinct(r) /\ Ids(r) = ids
    <2>1. Cons(front, rest) \in Seq(Entries(Id, Text))
      BY <1>1, <1>2, ConsElements
    <2>2. Ids(Cons(front, rest)) = Ids(rest) \cup {front.id}
      BY <1>1, <1>2, ConsIds
    <2>3. Distinct(Cons(front, rest))
      BY <1>1, <1>2, ConsIds
    <2> QED
      BY <1>1, <1>2, <2>1, <2>2, <2>3 DEF ids
  <1> QED
    BY <1>3, <1>4, <1>5 DEF ids
=============================================================================
