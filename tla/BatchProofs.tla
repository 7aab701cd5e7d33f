------------------------------ MODULE BatchProofs ------------------------------
(***************************************************************************)
(* Proofs about BatchRead, for every set of metrics, layout, address space, *)
(* gap and limit of a request.                                              *)
(***************************************************************************)
EXTENDS BatchRead, FiniteSetTheorems, SequenceTheorems, TLAPS

Answers == {None, Err} \cup Seq(0 .. AddrMax)
Types == TypeOK /\ results \in [Metrics -> Answers]

InRange(m, i) == i \in DOMAIN ranges /\ m \in ranges[i].members
Waiting(m) == m \in todo \/ m \in single \/ \E i \in DOMAIN ranges : m \in ranges[i].members

Later == {k \in {"input", "bit"} : kind = "holding" \/ (kind = "input" /\ k = "bit")}

\* Each metric of the current type is at exactly one place: still to be placed, in
\* one range, to be read singly, or answered.  None is lost, none is read twice.
PlaceInv ==
  /\ \A m \in Metrics : Waiting(m) => layout[m].kind = kind /\ results[m] = None
  /\ \A m \in Metrics : results[m] = None => Waiting(m) \/ layout[m].kind \in Later
  /\ \A m \in Metrics : layout[m].kind \in Later => results[m] = None
  /\ todo \cap single = {}
  /\ \A m \in todo \cup single : \A i \in DOMAIN ranges : m \notin ranges[i].members
  /\ \A i, j \in DOMAIN ranges : ranges[i].members \cap ranges[j].members # {} => i = j
  /\ kind \in {"bit", "done"} => ranges = <<>> /\ todo = {}
  /\ kind = "done" => single = {}

\* The metrics are placed in the order of their addresses.
OrderInv == \A i \in DOMAIN ranges : \A m \in todo : ranges[i].start <= layout[m].addr

IInv == Types /\ PlaceInv /\ OrderInv /\ RangesFit /\ MatchesIndividual /\ RequestBudget
-------------------------------------------------------------------------------
\* A metric's registers fit into the address space; their exclusive end is one
\* short if the last of them is the topmost register.
LEMMA LayoutFacts ==
  ASSUME TypeOK, NEW m \in Metrics
  PROVE  /\ layout[m].kind \in Kinds /\ layout[m].addr \in 0 .. AddrMax /\ layout[m].count \in 1 .. MaxRegs
         /\ layout[m].addr \in Int /\ layout[m].count \in Int /\ ItemEnd(m) \in Int
         /\ layout[m].addr + layout[m].count <= AddrMax + 1
         /\ layout[m].addr <= ItemEnd(m) /\ ItemEnd(m) \in 0 .. AddrMax
         /\ ItemEnd(m) = layout[m].addr + layout[m].count \/ (EndsAtTop(m) /\ ItemEnd(m) = AddrMax)
         /\ ItemEnd(m) <= layout[m].addr + layout[m].count
  <1>1. layout[m] \in Layouts
    BY DEF TypeOK
  <1>2. layout[m] \in [kind : Kinds, addr : 0 .. AddrMax, count : 1 .. MaxRegs]
    BY <1>1, BatchAssumption
  <1>3. layout[m].addr + layout[m].count <= AddrMax + 1
    BY <1>1, LayoutsFit
  <1> QED BY <1>2, <1>3, BatchAssumption DEF ItemEnd, SaturatingAdd, EndsAtTop

\* Registers that exist are read as their contents, neither None nor an error.
LEMMA RegistersFacts ==
  ASSUME NEW a \in Int, NEW n \in Int, a >= 0, n >= 1, a + n <= AddrMax + 1
  PROVE  Registers(a, n) \in Seq(0 .. AddrMax) /\ Registers(a, n) # None /\ Registers(a, n) # Err
  <1>1. Registers(a, n) \in [1 .. n -> 0 .. AddrMax]
    BY BatchAssumption DEF Registers
  <1>2. Registers(a, n) \in Seq(0 .. AddrMax)
    BY <1>1, SeqDef, n \in Nat
  <1>3. Registers(a, n)[1] = a /\ 1 \in DOMAIN Registers(a, n)
    BY DEF Registers
  <1>4. DOMAIN Err = {} /\ None[1] = -1
    BY DEF None, Err
  <1> QED BY <1>2, <1>3, <1>4

\* The middle of an answer is the answer to a request for the registers there.
LEMMA SliceFacts ==
  ASSUME NEW s \in Nat, NEW n \in Nat, NEW o \in Nat, NEW c \in Nat,
         c >= 1, o + c <= n, s + n <= AddrMax + 1
  PROVE  SubSeq(Registers(s, n), o + 1, o + c) = Registers(s + o, c)
  <1> DEFINE left == SubSeq(Registers(s, n), o + 1, o + c)
             right == Registers(s + o, c)
  <1>1. \A i \in 1 .. n : Registers(s, n)[i] = s + i - 1 /\ Registers(s, n)[i] \in 0 .. AddrMax
    BY BatchAssumption DEF Registers
  <1>2. \A i \in o + 1 .. o + c : Registers(s, n)[i] \in 0 .. AddrMax
    BY <1>1
  <1>3. /\ left \in Seq(0 .. AddrMax) /\ Len(left) = c
        /\ \A i \in 1 .. c : left[i] = Registers(s, n)[o + 1 + i - 1]
    BY <1>2, SubSeqProperties, o + 1 \in Int, o + c \in Int
  <1>4. \A i \in 1 .. c : left[i] = right[i]
    <2> SUFFICES ASSUME NEW i \in 1 .. c PROVE left[i] = right[i]
      OBVIOUS
    <2>1. right[i] = s + o + i - 1
      BY DEF Registers
    <2>2. o + 1 + i - 1 = o + i /\ o + i \in 1 .. n
      OBVIOUS
    <2>3. left[i] = Registers(s, n)[o + i]
      BY <1>3, <2>2
    <2>4. Registers(s, n)[o + i] = s + (o + i) - 1
      BY <1>1, <2>2
    <2> QED BY <2>1, <2>3, <2>4
  <1>5. right \in Seq(0 .. AddrMax) /\ Len(right) = c
    <2>1. right \in Seq(0 .. AddrMax)
      <3>1. s + o \in Int /\ c \in Int /\ s + o >= 0 /\ (s + o) + c <= AddrMax + 1
        BY BatchAssumption
      <3> QED BY <3>1, RegistersFacts
    <2>2. DOMAIN right = 1 .. c
      BY DEF Registers
    <2> QED BY <2>1, <2>2
  <1> QED BY <1>3, <1>4, <1>5, SeqEqual

\* What decode_metric takes out of the answer to a merged request is what a request
\* of its own would have returned.
LEMMA DecodeFacts ==
  ASSUME TypeOK, NEW m \in Metrics, NEW s \in 0 .. AddrMax, NEW n \in Int,
         s <= layout[m].addr, CanRead(s, n)
  PROVE  \/ Decode(m, s, n) = Err /\ s + n < layout[m].addr + layout[m].count
         \/ Decode(m, s, n) = Individual(m) /\ Individual(m) \in Seq(0 .. AddrMax)
              /\ Individual(m) # None
  <1> DEFINE a == layout[m].addr
             c == layout[m].count
             offset == a - s
  <1>1. /\ a \in Int /\ c \in Int /\ a >= 0 /\ c >= 1 /\ c <= MaxRegs /\ a + c <= AddrMax + 1
        /\ AddrMax \in Nat /\ MaxRegs \in Nat /\ s \in Int /\ offset \in Int /\ offset >= 0
    BY LayoutFacts, BatchAssumption
  <1>2. CASE offset + c > n
    BY <1>1, <1>2 DEF Decode
  <1>3. CASE offset + c <= n
    <2>1. CanRead(a, c)
      BY <1>1, <1>3 DEF CanRead
    <2>2. Individual(m) = Registers(a, c)
      BY <2>1 DEF Individual
    <2>3. Decode(m, s, n) = SubSeq(Registers(s, n), offset + 1, offset + c)
      <3>1. ~(offset < 0) /\ ~(offset + c > n)
        BY <1>1, <1>3 DEF CanRead
      <3> QED BY <3>1 DEF Decode
    <2>4. SubSeq(Registers(s, n), offset + 1, offset + c) = Registers(a, c)
      <3>1. n \in Nat /\ n >= 1 /\ s + n <= AddrMax + 1
        BY <1>1, <1>3 DEF CanRead
      <3>2. s \in Nat /\ offset \in Nat /\ c \in Nat /\ s + offset = a
        BY <1>1
      <3>3. SubSeq(Registers(s, n), offset + 1, offset + c) = Registers(s + offset, c)
        <4> HIDE DEF a, c, offset
        <4> QED BY <1>1, <1>3, <3>1, <3>2, SliceFacts
      <3> QED BY <3>2, <3>3
    <2> QED BY <1>1, <2>2, <2>3, <2>4, RegistersFacts
  <1> QED BY <1>1, <1>2, <1>3

\* A metric read alone yields its registers or an error.
LEMMA IndividualFacts ==
  ASSUME TypeOK, NEW m \in Metrics
  PROVE  Individual(m) \in Answers \ {None} /\ Err \in Answers \ {None}
  <1>1. Err # None
    BY DEF Err, None
  <1>2. /\ Registers(layout[m].addr, layout[m].count) \in Seq(0 .. AddrMax)
        /\ Registers(layout[m].addr, layout[m].count) # None
    BY LayoutFacts, RegistersFacts
  <1> QED BY <1>1, <1>2 DEF Individual, Answers

-------------------------------------------------------------------------------
\* Sets of metrics are finite, and so have a size.
LEMMA Sets ==
  ASSUME TypeOK, NEW T \in SUBSET Metrics
  PROVE  IsFiniteSet(T) /\ Cardinality(T) \in Nat
  BY BatchAssumption, FS_Subset, FS_CardinalityType

\* What a list of ranges is made of, and what its head is.
LEMMA RangeFacts ==
  ASSUME ranges \in Seq(MergedRange)
  PROVE  /\ Len(ranges) \in Nat /\ DOMAIN ranges = 1 .. Len(ranges)
         /\ \A i \in DOMAIN ranges : ranges[i] \in MergedRange
         /\ ranges # <<>> => /\ Len(ranges) >= 1 /\ Head(ranges) = ranges[1] /\ 1 \in DOMAIN ranges
                             /\ Last(ranges) = ranges[Len(ranges)] /\ Len(ranges) \in DOMAIN ranges
                             /\ Tail(ranges) \in Seq(MergedRange) /\ Len(Tail(ranges)) = Len(ranges) - 1
                             /\ DOMAIN Tail(ranges) = 1 .. Len(ranges) - 1
                             /\ \A i \in 1 .. Len(ranges) - 1 : Tail(ranges)[i] = ranges[i + 1]
         /\ ranges = <<>> => DOMAIN ranges = {}
  BY DEF Last

\* A range that a metric joins is still one legal request.
LEMMA ExtendFacts ==
  ASSUME TypeOK, NEW r \in MergedRange, NEW m \in Metrics, Fits(r, m),
         r.start <= layout[m].addr
  PROVE  /\ Extend(r, m) \in MergedRange
         /\ Extend(r, m).start = r.start /\ Extend(r, m).members = r.members \cup {m}
         /\ r.end <= Extend(r, m).end /\ ItemEnd(m) <= Extend(r, m).end
         /\ Extend(r, m).end \in {r.end, ItemEnd(m)}
         /\ r.end - r.start <= MaxRegs => Extend(r, m).end - r.start <= MaxRegs
  <1>1. r.start \in Int /\ r.end \in Int /\ r.end \in 0 .. AddrMax /\ r.members \in SUBSET Metrics
    BY BatchAssumption DEF MergedRange
  <1>2. ItemEnd(m) \in 0 .. AddrMax /\ ItemEnd(m) \in Int
    BY LayoutFacts
  <1>3. /\ Extend(r, m).start = r.start /\ Extend(r, m).end = MaxOf(r.end, ItemEnd(m))
        /\ Extend(r, m).members = r.members \cup {m}
    BY DEF Extend, MergedRange
  <1>6. MaxOf(r.end, ItemEnd(m)) \in 0 .. AddrMax /\ r.members \cup {m} \in SUBSET Metrics
    BY <1>1, <1>2 DEF MaxOf
  <1>7. Extend(r, m) \in MergedRange
    BY <1>6 DEF Extend, MergedRange
  <1>4. MaxOf(r.end, ItemEnd(m)) \in {r.end, ItemEnd(m)}
        /\ r.end <= MaxOf(r.end, ItemEnd(m)) /\ ItemEnd(m) <= MaxOf(r.end, ItemEnd(m))
    BY <1>1, <1>2 DEF MaxOf
  <1>5. ItemEnd(m) - r.start <= MaxRegs
    BY <1>1, <1>2, BatchAssumption DEF Fits, SaturatingSub
  <1> QED BY <1>1, <1>2, <1>3, <1>4, <1>5, <1>7

\* What one metric's placement does to the bookkeeping.
LEMMA PlacedBudget ==
  ASSUME TypeOK, RequestBudget, NEW m \in todo, todo' = todo \ {m},
         UNCHANGED <<input, kind, single, results, read_count, spent>>,
         Len(ranges) \in Nat, Len(ranges') \in {Len(ranges), Len(ranges) + 1}
  PROVE  RequestBudget'
  <1>1. Cardinality(todo') = Cardinality(todo) - 1 /\ Cardinality(todo) \in Nat
    BY Sets, FS_RemoveElement DEF TypeOK
  <1>2. OfKind("holding")' = OfKind("holding") /\ OfKind("input")' = OfKind("input")
    BY DEF OfKind, input
  <1>3. Cardinality(OfKind("holding")) \in Nat /\ Cardinality(OfKind("input")) \in Nat
    BY Sets DEF OfKind
  <1> QED BY <1>1, <1>2, <1>3 DEF RequestBudget, TypeOK

\* A metric joins the last range of coalesce (coalesce, first branch).
LEMMA MergeStep ==
  ASSUME IInv, NEW m \in Metrics, Merge(m) PROVE IInv'
  <1> DEFINE k == Len(ranges)
  <1> USE DEF IInv, input
  <1>1. /\ TypeOK /\ ranges \in Seq(MergedRange) /\ k \in DOMAIN ranges /\ ranges[k] \in MergedRange /\ Fits(ranges[k], m)
        /\ m \in todo /\ todo' = todo \ {m} /\ \A n \in todo : layout[m].addr <= layout[n].addr
        /\ ranges' = [ranges EXCEPT ![k] = Extend(ranges[k], m)]
        /\ UNCHANGED <<input, kind, single, results, read_count, spent>>
        /\ ranges[k].start <= layout[m].addr
    BY RangeFacts DEF Types, TypeOK, Merge, Lowest, OrderInv
  <1>2. /\ Extend(ranges[k], m) \in MergedRange
        /\ Extend(ranges[k], m).start = ranges[k].start /\ Extend(ranges[k], m).members = ranges[k].members \cup {m}
        /\ ranges[k].end <= Extend(ranges[k], m).end /\ ItemEnd(m) <= Extend(ranges[k], m).end
        /\ Extend(ranges[k], m).end \in {ranges[k].end, ItemEnd(m)}
        /\ Extend(ranges[k], m).end - ranges[k].start <= MaxRegs
    BY <1>1, ExtendFacts DEF RangesFit
  <1>3. /\ ranges' \in Seq(MergedRange) /\ DOMAIN ranges' = DOMAIN ranges /\ Len(ranges') = k
        /\ ranges'[k] = Extend(ranges[k], m)
        /\ \A i \in DOMAIN ranges \ {k} : ranges'[i] = ranges[i]
    BY <1>1, <1>2
  <1> HIDE DEF k
  <1>4. Types'
    BY <1>1, <1>3 DEF Types, TypeOK
  <1>5. \A i \in DOMAIN ranges : ranges'[i].start = ranges[i].start
          /\ ranges'[i].members = IF i = k THEN ranges[i].members \cup {m} ELSE ranges[i].members
    BY <1>2, <1>3
  <1>6. PlaceInv'
    <2>0. /\ m \in todo /\ todo' = todo \ {m} /\ single' = single /\ kind' = kind
          /\ k \in DOMAIN ranges /\ DOMAIN ranges' = DOMAIN ranges
      BY <1>1, <1>3
    <2>1. Later' = Later
      BY <2>0 DEF Later
    <2>5. \A n : \A i \in DOMAIN ranges : n \in ranges'[i].members <=> n \in ranges[i].members \/ (i = k /\ n = m)
      BY <1>5
    <2>6. \A n \in Metrics : Waiting(n)' <=> Waiting(n)
      BY <2>0, <2>5 DEF Waiting
    <2>2. \A n \in (todo \cup single)' : \A i \in DOMAIN ranges' : n \notin ranges'[i].members
      BY <2>0, <2>5 DEF PlaceInv
    <2>3. \A i, j \in DOMAIN ranges' : ranges'[i].members \cap ranges'[j].members # {} => i = j
      <3> SUFFICES ASSUME NEW i \in DOMAIN ranges, NEW j \in DOMAIN ranges,
                          NEW n, n \in ranges'[i].members, n \in ranges'[j].members
                   PROVE  i = j
        BY <2>0
      <3>1. \A e \in DOMAIN ranges : m \notin ranges[e].members
        BY <2>0 DEF PlaceInv
      <3>2. n \in ranges[i].members /\ n \in ranges[j].members => i = j
        BY DEF PlaceInv
      <3> QED BY <2>5, <3>1, <3>2
    <2>4. ~(kind \in {"bit", "done"})
      BY <1>1, RangeFacts DEF PlaceInv
    <2> QED BY <1>1, <2>1, <2>2, <2>3, <2>4, <2>6 DEF PlaceInv
  <1>7. OrderInv'
    BY <1>1, <1>3, <1>5 DEF OrderInv
  <1>8. RangesFit'
    <2> SUFFICES ASSUME NEW i \in DOMAIN ranges
                 PROVE  LET r == ranges'[i]
                        IN  /\ r.end - r.start <= MaxRegs
                            /\ \A n \in r.members : r.start <= layout[n].addr /\ ItemEnd(n) <= r.end
                            /\ \E n \in r.members : layout[n].addr = r.start
                            /\ \E n \in r.members : ItemEnd(n) = r.end
      BY <1>1, <1>3 DEF RangesFit, ItemEnd, SaturatingAdd
    <2>1. CASE i # k
      BY <1>3, <2>1 DEF RangesFit
    <2>2. CASE i = k
      <3>1. \A n \in ranges[k].members : ItemEnd(n) <= Extend(ranges[k], m).end
        <4>1. \A n \in ranges[k].members : n \in Metrics /\ ItemEnd(n) \in Int /\ ItemEnd(n) <= ranges[k].end
          BY <1>1, LayoutFacts DEF MergedRange, RangesFit
        <4>2. ranges[k].end \in Int /\ Extend(ranges[k], m).end \in Int
          BY <1>1, <1>2, BatchAssumption DEF MergedRange
        <4> QED BY <1>2, <4>1, <4>2
      <3>2. \E n \in ranges[k].members \cup {m} : ItemEnd(n) = Extend(ranges[k], m).end
        BY <1>1, <1>2 DEF RangesFit
      <3> QED BY <1>1, <1>2, <1>3, <2>2, <3>1, <3>2 DEF RangesFit
    <2> QED BY <2>1, <2>2
  <1>9. MatchesIndividual'
    BY <1>1 DEF MatchesIndividual, Individual, CanRead, EndsAtTop
  <1>10. RequestBudget'
    BY <1>1, <1>3, RangeFacts, PlacedBudget DEF k
  <1> QED BY <1>4, <1>6, <1>7, <1>8, <1>9, <1>10

\* A metric opens a range of its own (coalesce, second branch).
LEMMA OpenStep ==
  ASSUME IInv, NEW m \in Metrics, Open(m) PROVE IInv'
  <1> DEFINE k == Len(ranges)
             new == [start |-> layout[m].addr, end |-> ItemEnd(m), members |-> {m}]
  <1> USE DEF IInv, input
  <1>1. /\ TypeOK /\ ranges \in Seq(MergedRange) /\ k \in Nat /\ DOMAIN ranges = 1 .. k
        /\ m \in todo /\ todo' = todo \ {m} /\ \A n \in todo : layout[m].addr <= layout[n].addr
        /\ ranges' = Append(ranges, new)
        /\ UNCHANGED <<input, kind, single, results, read_count, spent>>
    BY RangeFacts DEF Types, TypeOK, Open, Lowest
  <1>2. /\ layout[m].addr \in 0 .. AddrMax /\ layout[m].addr \in Int /\ ItemEnd(m) \in 0 .. AddrMax
        /\ ItemEnd(m) \in Int /\ layout[m].addr <= ItemEnd(m) /\ ItemEnd(m) - layout[m].addr <= MaxRegs
    BY <1>1, LayoutFacts, BatchAssumption
  <1>3. new \in MergedRange
    BY <1>2 DEF MergedRange
  <1>4. /\ ranges' \in Seq(MergedRange) /\ DOMAIN ranges' = 1 .. k + 1 /\ Len(ranges') = k + 1
        /\ ranges'[k + 1] = new /\ \A i \in 1 .. k : ranges'[i] = ranges[i]
    BY <1>1, <1>3
  <1>5. new.start = layout[m].addr /\ new.end = ItemEnd(m) /\ new.members = {m}
    OBVIOUS
  <1> HIDE DEF k, new
  <1>6. Types'
    BY <1>1, <1>4 DEF Types, TypeOK
  <1>7. PlaceInv'
    <2>0. /\ m \in todo /\ todo' = todo \ {m} /\ single' = single /\ kind' = kind
          /\ k \in Nat /\ DOMAIN ranges = 1 .. k /\ DOMAIN ranges' = 1 .. k + 1
      BY <1>1, <1>4
    <2>1. Later' = Later
      BY <2>0 DEF Later
    <2>2. \A n : \A i \in 1 .. k : n \in ranges'[i].members <=> n \in ranges[i].members
      BY <1>4
    <2>3. ranges'[k + 1].members = {m}
      BY <1>4, <1>5
    <2>4. \A i \in 1 .. k + 1 : i \in 1 .. k \/ i = k + 1
      BY <2>0
    <2>5. \A n \in Metrics : Waiting(n)' <=> Waiting(n)
      BY <2>0, <2>2, <2>3, <2>4 DEF Waiting
    <2>6. \A e \in 1 .. k : m \notin ranges[e].members
      BY <2>0 DEF PlaceInv
    <2>7. \A n \in (todo \cup single)' : \A i \in DOMAIN ranges' : n \notin ranges'[i].members
      BY <2>0, <2>2, <2>3, <2>4 DEF PlaceInv
    <2>8. \A i, j \in DOMAIN ranges' : ranges'[i].members \cap ranges'[j].members # {} => i = j
      <3> SUFFICES ASSUME NEW i \in 1 .. k + 1, NEW j \in 1 .. k + 1,
                          NEW n, n \in ranges'[i].members, n \in ranges'[j].members
                   PROVE  i = j
        BY <2>0
      <3>1. i \in 1 .. k /\ j \in 1 .. k => i = j
        BY <2>0, <2>2 DEF PlaceInv
      <3> QED BY <2>2, <2>3, <2>4, <2>6, <3>1
    <2>9. ~(kind \in {"bit", "done"})
      BY <2>0 DEF PlaceInv
    <2> QED BY <1>1, <2>1, <2>5, <2>7, <2>8, <2>9 DEF PlaceInv
  <1>8. OrderInv'
    BY <1>1, <1>4, <1>5 DEF OrderInv
  <1>9. RangesFit'
    <2> SUFFICES ASSUME NEW i \in 1 .. k + 1
                 PROVE  LET r == ranges'[i]
                        IN  /\ r.end - r.start <= MaxRegs
                            /\ \A n \in r.members : r.start <= layout[n].addr /\ ItemEnd(n) <= r.end
                            /\ \E n \in r.members : layout[n].addr = r.start
                            /\ \E n \in r.members : ItemEnd(n) = r.end
      BY <1>1, <1>4 DEF RangesFit, ItemEnd, SaturatingAdd
    <2>1. CASE i \in 1 .. k
      BY <1>1, <1>4, <2>1 DEF RangesFit
    <2>2. CASE i = k + 1
      BY <1>2, <1>4, <1>5, <2>2
    <2> QED BY <1>1, <2>1, <2>2
  <1>10. MatchesIndividual'
    BY <1>1 DEF MatchesIndividual, Individual, CanRead, EndsAtTop
  <1>11. RequestBudget'
    BY <1>1, <1>4, PlacedBudget DEF k
  <1> QED BY <1>6, <1>7, <1>8, <1>9, <1>10, <1>11

\* More answers never break the first half of the budget.
LEMMA AnswersGrow ==
  ASSUME TypeOK, TypeOK', \A m \in Metrics : results[m] # None => results'[m] # None
  PROVE  LET answered == {m \in Metrics : results[m] # None}
         IN  Cardinality(answered) \in Nat /\ Cardinality(answered') \in Nat
               /\ Cardinality(answered) <= Cardinality(answered')
  <1> DEFINE answered == {m \in Metrics : results[m] # None}
             later == {m \in Metrics : results'[m] # None}
  <1>1. answered \in SUBSET later
    OBVIOUS
  <1>2. IsFiniteSet(later) /\ Cardinality(later) \in Nat /\ Cardinality(answered) \in Nat
    BY Sets
  <1> QED BY <1>1, <1>2, FS_Subset

\* The steps that take the first range away.
LEMMA FirstRange ==
  ASSUME IInv, ranges # <<>>, todo = {}, single = {}, ranges' = Tail(ranges),
         UNCHANGED <<input, kind, todo>>, read_count' = read_count + 1, spent' = spent + 1
  PROVE  /\ OrderInv' /\ RangesFit'
         /\ spent' \in 0 .. read_count' /\ read_count' \in Nat /\ ranges' \in Seq(MergedRange)
         /\ Head(ranges) = ranges[1] /\ 1 \in DOMAIN ranges /\ Head(ranges) \in MergedRange
         /\ read_count' - spent' = read_count - spent
         /\ spent' + Len(ranges') = spent + Len(ranges)
         /\ Len(ranges) \in Nat /\ Len(ranges) >= 1 /\ DOMAIN ranges = 1 .. Len(ranges)
         /\ DOMAIN ranges' = 1 .. Len(ranges) - 1
         /\ \A i \in 1 .. Len(ranges) - 1 : ranges'[i] = ranges[i + 1]
         /\ \A m \in Metrics : (\E i \in DOMAIN ranges : m \in ranges[i].members)
                                 <=> m \in ranges[1].members \/ \E i \in DOMAIN ranges' : m \in ranges'[i].members
         /\ \A m \in ranges[1].members : \A i \in DOMAIN ranges' : m \notin ranges'[i].members
         /\ \A i, j \in DOMAIN ranges' : ranges'[i].members \cap ranges'[j].members # {} => i = j
         /\ ranges[1].members \in SUBSET Metrics
         /\ kind \in {"holding", "input"}
  <1> USE DEF IInv, input
  <1>1. TypeOK /\ ranges \in Seq(MergedRange)
    BY DEF Types, TypeOK
  <1>2. /\ Head(ranges) = ranges[1] /\ 1 \in DOMAIN ranges /\ Head(ranges) \in MergedRange
        /\ Len(ranges) \in Nat /\ Len(ranges) >= 1 /\ DOMAIN ranges = 1 .. Len(ranges)
        /\ ranges' \in Seq(MergedRange) /\ Len(ranges') = Len(ranges) - 1
        /\ DOMAIN ranges' = 1 .. Len(ranges) - 1
        /\ \A i \in 1 .. Len(ranges) - 1 : ranges'[i] = ranges[i + 1]
    BY <1>1, RangeFacts
  <1>3. /\ spent' \in 0 .. read_count' /\ read_count' \in Nat
        /\ read_count' - spent' = read_count - spent /\ spent' + Len(ranges') = spent + Len(ranges)
    BY <1>1, <1>2 DEF TypeOK
  <1>4. \A i \in 1 .. Len(ranges) - 1 : i + 1 \in 1 .. Len(ranges) /\ i + 1 # 1
    BY <1>2
  <1>5. \A i \in 1 .. Len(ranges) : i = 1 \/ (i - 1 \in 1 .. Len(ranges) - 1 /\ ranges'[i - 1] = ranges[i])
    BY <1>2
  <1>6. OrderInv' /\ RangesFit'
    BY <1>2, <1>4 DEF OrderInv, RangesFit, ItemEnd, SaturatingAdd
  <1>7. \A m \in Metrics : (\E i \in DOMAIN ranges : m \in ranges[i].members)
                             <=> m \in ranges[1].members \/ \E i \in DOMAIN ranges' : m \in ranges'[i].members
    <2> TAKE m \in Metrics
    <2>1. ASSUME NEW i \in DOMAIN ranges, m \in ranges[i].members
          PROVE  m \in ranges[1].members \/ \E k \in DOMAIN ranges' : m \in ranges'[k].members
      BY <1>2, <1>5, <2>1
    <2>2. ASSUME NEW k \in DOMAIN ranges', m \in ranges'[k].members
          PROVE  \E i \in DOMAIN ranges : m \in ranges[i].members
      BY <1>2, <1>4, <2>2
    <2> QED BY <1>2, <2>1, <2>2
  <1>8. \A i, j \in DOMAIN ranges : \A m : m \in ranges[i].members /\ m \in ranges[j].members => i = j
    BY DEF PlaceInv
  <1>9. \A m \in ranges[1].members : \A i \in DOMAIN ranges' : m \notin ranges'[i].members
    BY <1>2, <1>4, <1>8
  <1>10. \A i, j \in DOMAIN ranges' : ranges'[i].members \cap ranges'[j].members # {} => i = j
    <2> SUFFICES ASSUME NEW i \in 1 .. Len(ranges) - 1, NEW j \in 1 .. Len(ranges) - 1,
                        NEW m, m \in ranges'[i].members, m \in ranges'[j].members
                 PROVE  i = j
      BY <1>2
    <2>1. i + 1 = j + 1
      BY <1>2, <1>4, <1>8
    <2> QED BY <2>1
  <1>11. kind \in {"holding", "input"}
    BY <1>1 DEF PlaceInv, TypeOK
  <1>12. ranges[1].members \in SUBSET Metrics
    BY <1>2 DEF MergedRange
  <1> QED BY <1>2, <1>3, <1>6, <1>7, <1>9, <1>10, <1>11, <1>12

\* The request for a range succeeds and its members are decoded.
LEMMA RangeOkStep ==
  ASSUME IInv, RangeOk PROVE IInv'
  <1> DEFINE r == ranges[1]
             D(m) == Decode(m, r.start, Count(r))
  <1> USE DEF IInv, input
  <1>1. /\ TypeOK /\ ranges # <<>> /\ todo = {} /\ single = {} /\ ranges' = Tail(ranges)
        /\ UNCHANGED <<input, kind, todo, single>> /\ read_count' = read_count + 1 /\ spent' = spent + 1
    BY DEF Types, RangeOk
  <1>2. /\ Head(ranges) = r /\ r \in MergedRange /\ r.members \in SUBSET Metrics /\ 1 \in DOMAIN ranges
        /\ OrderInv' /\ RangesFit' /\ kind \in {"holding", "input"}
        /\ ranges' \in Seq(MergedRange) /\ spent' \in 0 .. read_count' /\ read_count' \in Nat
    BY <1>1, FirstRange
  <1>3. /\ CanRead(r.start, Count(r))
        /\ results' = [m \in Metrics |-> IF m \in r.members THEN D(m) ELSE results[m]]
    BY <1>2 DEF RangeOk
  <1>4. ASSUME NEW m \in r.members
        PROVE  /\ D(m) \in Answers \ {None} /\ results[m] = None /\ layout[m].kind = kind
               /\ D(m) = Individual(m) \/ (D(m) = Err /\ EndsAtTop(m))
    <2>1. m \in Metrics /\ r.start \in 0 .. AddrMax /\ r.end \in 0 .. AddrMax
          /\ Count(r) = r.end - r.start /\ Count(r) \in Int /\ r.start \in Int /\ r.end \in Int
      BY <1>2, BatchAssumption DEF MergedRange, Count
    <2>2. r.start <= layout[m].addr /\ ItemEnd(m) <= r.end
      BY <1>2 DEF RangesFit
    <2>3. results[m] = None /\ layout[m].kind = kind
      BY <1>2, <2>1 DEF PlaceInv, Waiting
    <2>4. \/ D(m) = Err /\ r.start + Count(r) < layout[m].addr + layout[m].count
          \/ D(m) = Individual(m) /\ Individual(m) \in Seq(0 .. AddrMax) /\ Individual(m) # None
      BY <1>1, <1>3, <2>1, <2>2, DecodeFacts
    <2>5. D(m) = Err => EndsAtTop(m) \/ D(m) = Individual(m)
      BY <1>1, <2>1, <2>2, <2>4, LayoutFacts
    <2>6. Err \in Answers \ {None}
      BY <1>1, <2>1, IndividualFacts
    <2> QED BY <2>3, <2>4, <2>5, <2>6 DEF Answers
  <1>5. /\ results' \in [Metrics -> Answers] /\ \A m \in Metrics \ r.members : results'[m] = results[m]
        /\ \A m \in r.members : results'[m] = D(m)
    BY <1>2, <1>3, <1>4 DEF Types
  <1> HIDE DEF D
  <1>6. Types'
    BY <1>1, <1>2, <1>5 DEF Types, TypeOK
  <1>7. PlaceInv'
    <2>1. Later' = Later
      BY <1>1 DEF Later
    <2>2. \A m \in Metrics : Waiting(m)' <=> Waiting(m) /\ m \notin r.members
      BY <1>1, <1>2, FirstRange DEF Waiting
    <2>3. \A m \in Metrics : results'[m] = None <=> results[m] = None /\ m \notin r.members
      BY <1>4, <1>5
    <2>4. \A m \in Metrics : layout[m].kind \in Later => m \notin r.members
      BY <1>4 DEF Later
    <2>5. \A i, j \in DOMAIN ranges' : ranges'[i].members \cap ranges'[j].members # {} => i = j
      BY <1>1, FirstRange
    <2> QED BY <1>1, <1>2, <2>1, <2>2, <2>3, <2>4, <2>5 DEF PlaceInv
  <1>8. MatchesIndividual'
    <2> SUFFICES ASSUME NEW m \in Metrics, layout[m].kind # "unaddressed"
                 PROVE  results'[m] \in {None, Individual(m)} \cup (IF flaky \/ EndsAtTop(m) THEN {Err} ELSE {})
      BY <1>1 DEF MatchesIndividual, Individual, CanRead, EndsAtTop
    <2> QED BY <1>4, <1>5 DEF MatchesIndividual
  <1>9. RequestBudget'
    <2>1. \A m \in Metrics : results[m] # None => results'[m] # None
      BY <1>4, <1>5
    <2>2. /\ Cardinality({m \in Metrics : results[m] # None}) <= Cardinality({m \in Metrics : results'[m] # None})
          /\ Cardinality({m \in Metrics : results[m] # None}) \in Nat
          /\ Cardinality({m \in Metrics : results'[m] # None}) \in Nat
      BY <1>1, <1>6, <2>1, AnswersGrow DEF Types
    <2>3. read_count' - spent' = read_count - spent /\ spent' + Len(ranges') = spent + Len(ranges)
          /\ read_count \in Int /\ spent \in Int
      BY <1>1, FirstRange DEF TypeOK
    <2>4. OfKind("holding")' = OfKind("holding") /\ OfKind("input")' = OfKind("input")
      BY <1>1 DEF OfKind
    <2> QED BY <1>1, <2>2, <2>3, <2>4 DEF RequestBudget
  <1> QED BY <1>2, <1>6, <1>7, <1>8, <1>9

\* The request for a range fails and its members are to be read singly.
LEMMA RangeErrStep ==
  ASSUME IInv, RangeErr PROVE IInv'
  <1> DEFINE r == ranges[1]
  <1> USE DEF IInv, input
  <1>1. /\ TypeOK /\ ranges # <<>> /\ todo = {} /\ single = {} /\ ranges' = Tail(ranges)
        /\ single' = Head(ranges).members
        /\ UNCHANGED <<input, kind, todo, results>> /\ read_count' = read_count + 1 /\ spent' = spent + 1
    BY DEF Types, RangeErr
  <1>2. /\ Head(ranges) = r /\ r \in MergedRange /\ r.members \in SUBSET Metrics /\ 1 \in DOMAIN ranges
        /\ OrderInv' /\ RangesFit' /\ kind \in {"holding", "input"}
        /\ ranges' \in Seq(MergedRange) /\ spent' \in 0 .. read_count' /\ read_count' \in Nat
    BY <1>1, FirstRange
  <1>3. Types'
    BY <1>1, <1>2 DEF Types, TypeOK
  <1>4. PlaceInv'
    <2>1. Later' = Later
      BY <1>1 DEF Later
    <2>2. \A m \in Metrics : Waiting(m)' <=> Waiting(m)
      BY <1>1, <1>2, FirstRange DEF Waiting
    <2>3. \A i, j \in DOMAIN ranges' : ranges'[i].members \cap ranges'[j].members # {} => i = j
      BY <1>1, FirstRange
    <2>4. \A m \in single' : \A i \in DOMAIN ranges' : m \notin ranges'[i].members
      BY <1>1, <1>2, FirstRange
    <2> QED BY <1>1, <1>2, <2>1, <2>2, <2>3, <2>4 DEF PlaceInv
  <1>5. MatchesIndividual'
    BY <1>1 DEF MatchesIndividual, Individual, CanRead, EndsAtTop
  <1>6. RequestBudget'
    <2>1. read_count' - spent' = read_count - spent /\ spent' + Len(ranges') = spent + Len(ranges)
      BY <1>1, FirstRange DEF TypeOK
    <2>2. OfKind("holding")' = OfKind("holding") /\ OfKind("input")' = OfKind("input")
      BY <1>1 DEF OfKind
    <2> QED BY <1>1, <2>1, <2>2 DEF RequestBudget
  <1> QED BY <1>2, <1>3, <1>4, <1>5, <1>6

\* One member of a failed range, or one coil, is read by itself.
LEMMA ReadSingleStep ==
  ASSUME IInv, NEW m \in Metrics, ReadSingle(m) PROVE IInv'
  <1> USE DEF IInv, input
  <1>1. PICK answer \in {Individual(m)} \cup (IF flaky THEN {Err} ELSE {}) :
          results' = [results EXCEPT ![m] = answer]
    BY DEF ReadSingle
  <1>2. /\ TypeOK /\ m \in single /\ single' = single \ {m} /\ read_count' = read_count + 1
        /\ UNCHANGED <<input, kind, todo, ranges, spent>>
    BY DEF Types, ReadSingle
  <1>3. answer \in Answers \ {None}
    BY <1>2, IndividualFacts
  <1>4. /\ results' \in [Metrics -> Answers] /\ results'[m] = answer
        /\ \A n \in Metrics \ {m} : results'[n] = results[n]
    BY <1>1, <1>3 DEF Types
  <1>5. Types'
    BY <1>2, <1>4 DEF Types, TypeOK
  <1>6. layout[m].kind = kind /\ results[m] = None
    BY <1>2 DEF PlaceInv, Waiting
  <1>7. PlaceInv'
    <2>1. Later' = Later /\ kind \notin Later
      BY <1>2 DEF Later
    <2>2. \A n \in Metrics : Waiting(n)' <=> Waiting(n) /\ n # m
      BY <1>2 DEF Waiting, PlaceInv
    <2> QED BY <1>2, <1>3, <1>4, <1>6, <2>1, <2>2 DEF PlaceInv
  <1>8. OrderInv' /\ RangesFit'
    BY <1>2 DEF OrderInv, RangesFit, ItemEnd, SaturatingAdd
  <1>9. MatchesIndividual'
    <2> SUFFICES ASSUME NEW n \in Metrics, layout[n].kind # "unaddressed"
                 PROVE  results'[n] \in {None, Individual(n)} \cup (IF flaky \/ EndsAtTop(n) THEN {Err} ELSE {})
      BY <1>2 DEF MatchesIndividual, Individual, CanRead, EndsAtTop
    <2> QED BY <1>1, <1>4 DEF MatchesIndividual
  <1>10. RequestBudget'
    <2> DEFINE answered == {n \in Metrics : results[n] # None}
               later == {n \in Metrics : results'[n] # None}
    <2>1. later = answered \cup {m} /\ m \notin answered
      BY <1>3, <1>4, <1>6
    <2>2. Cardinality(later) = Cardinality(answered) + 1 /\ Cardinality(answered) \in Nat
      BY <1>2, <2>1, Sets, FS_AddElement
    <2>3. OfKind("holding")' = OfKind("holding") /\ OfKind("input")' = OfKind("input")
      BY <1>2 DEF OfKind
    <2>4. read_count \in Int /\ spent \in Int
      BY <1>2 DEF TypeOK
    <2> QED BY <1>2, <2>2, <2>3, <2>4 DEF RequestBudget
  <1> QED BY <1>5, <1>7, <1>8, <1>9, <1>10

\* The next register type is taken up.
LEMMA NextKindStep ==
  ASSUME IInv, NextKind PROVE IInv'
  <1> USE DEF IInv, input
  <1>1. /\ TypeOK /\ todo = {} /\ single = {} /\ ranges = <<>> /\ DOMAIN ranges = {}
        /\ UNCHANGED <<input, ranges, results, read_count, spent>>
        /\ todo' = IF kind = "holding" THEN OfKind("input") ELSE {}
        /\ single' = IF kind = "input" THEN OfKind("bit") ELSE {}
    BY RangeFacts DEF Types, TypeOK, NextKind
  <1>2. \/ kind = "holding" /\ kind' = "input"
        \/ kind = "input" /\ kind' = "bit"
        \/ kind = "bit" /\ kind' = "done"
    <2>1. kind \in {"holding", "input", "bit"}
      BY DEF Types, TypeOK, NextKind
    <2>2. kind' = CASE kind = "holding" -> "input"
                    [] kind = "input" -> "bit"
                    [] kind = "bit" -> "done"
      BY DEF NextKind
    <2> QED BY <2>1, <2>2
  <1>3. OfKind("input") \in SUBSET Metrics /\ OfKind("bit") \in SUBSET Metrics
        /\ \A m \in Metrics : \A k \in {"input", "bit"} : m \in OfKind(k) <=> layout[m].kind = k
    BY DEF OfKind
  <1>4. Types'
    BY <1>1, <1>2, <1>3 DEF Types, TypeOK
  <1>5. PlaceInv'
    <2>1. \A m \in Metrics : ~Waiting(m)
      BY <1>1 DEF Waiting
    <2>2. \A m \in Metrics : Waiting(m)' <=> m \in todo' \/ m \in single'
      BY <1>1 DEF Waiting
    <2>3. \A m \in Metrics : results[m] = None <=> layout[m].kind \in Later
      BY <2>1 DEF PlaceInv
    <2>4. \A m \in Metrics : Waiting(m)' <=> layout[m].kind = kind' /\ kind' \in {"input", "bit"}
      BY <1>1, <1>2, <1>3, <2>2
    <2>5. Later' = Later \ {kind'} /\ (kind' \in {"input", "bit"} => kind' \in Later)
          /\ (kind' \notin {"input", "bit"} => Later = {})
      BY <1>2 DEF Later
    <2>6. todo' \cap single' = {} /\ (kind' \in {"bit", "done"} => todo' = {}) /\ (kind' = "done" => single' = {})
      BY <1>1, <1>2
    <2> QED BY <1>1, <2>3, <2>4, <2>5, <2>6 DEF PlaceInv
  <1>6. OrderInv' /\ RangesFit'
    BY <1>1 DEF OrderInv, RangesFit
  <1>7. MatchesIndividual'
    BY <1>1 DEF MatchesIndividual, Individual, CanRead, EndsAtTop
  <1>8. RequestBudget'
    <2>1. OfKind("holding")' = OfKind("holding") /\ OfKind("input")' = OfKind("input")
      BY <1>1 DEF OfKind
    <2>2. Cardinality(OfKind("input")) \in Nat /\ Cardinality(OfKind("holding")) \in Nat /\ Cardinality({}) = 0
      BY <1>1, Sets, FS_EmptySet DEF OfKind
    <2>3. Len(ranges) = 0 /\ spent \in Int /\ Cardinality(todo) = 0
      BY <1>1, <2>2 DEF TypeOK
    <2> QED BY <1>1, <1>2, <2>1, <2>2, <2>3 DEF RequestBudget
  <1> QED BY <1>4, <1>5, <1>6, <1>7, <1>8

\* Before the first metric is placed the invariant holds.
LEMMA InitIInv == Init => IInv
  <1> SUFFICES ASSUME Init PROVE IInv
    OBVIOUS
  <1> USE DEF Init
  <1>1. ranges = <<>> /\ ranges \in Seq(MergedRange) /\ DOMAIN ranges = {} /\ Len(ranges) = 0
    OBVIOUS
  <1>2. Err # None /\ Err \in Answers /\ None \in Answers
    BY DEF Err, None, Answers
  <1>3. Types
    <2>1. results \in [Metrics -> Answers]
      BY <1>2
    <2>2. read_count \in Nat /\ spent \in 0 .. read_count /\ todo \subseteq Metrics /\ single \subseteq Metrics
      BY DEF OfKind
    <2> QED BY <1>1, <2>1, <2>2 DEF Types, TypeOK
  <1>4. PlaceInv
    <2>1. \A m \in Metrics : Waiting(m) <=> layout[m].kind = "holding"
      BY <1>1 DEF Waiting, OfKind
    <2>2. \A m \in Metrics : results[m] = None <=> layout[m].kind # "unaddressed"
      BY <1>2
    <2>3. \A m \in Metrics : layout[m].kind \in Kinds
      BY <1>3, LayoutFacts DEF Types
    <2> QED BY <1>1, <2>1, <2>2, <2>3 DEF PlaceInv, Later, Kinds
  <1>5. OrderInv /\ RangesFit
    BY <1>1 DEF OrderInv, RangesFit
  <1>6. MatchesIndividual
    BY DEF MatchesIndividual
  <1>7. RequestBudget
    <2>1. Cardinality(OfKind("holding")) \in Nat /\ Cardinality({m \in Metrics : results[m] # None}) \in Nat
      BY <1>3, Sets DEF OfKind, Types
    <2> QED BY <1>1, <2>1 DEF RequestBudget
  <1> QED BY <1>3, <1>4, <1>5, <1>6, <1>7 DEF IInv

-------------------------------------------------------------------------------
\* Every reachable state satisfies IInv: between coalesce and the requests each
\* metric is at one place, and the ranges start no later than what is still to come.
THEOREM InductiveInvariant == Spec => []IInv
  <1>1. IInv /\ [Next]_vars => IInv'
    <2> SUFFICES ASSUME IInv, [Next]_vars PROVE IInv'
      OBVIOUS
    <2>1. ASSUME NEW m \in Metrics, Merge(m) \/ Open(m) \/ ReadSingle(m) PROVE IInv'
      BY <2>1, MergeStep, OpenStep, ReadSingleStep
    <2>2. CASE UNCHANGED vars
      BY <2>2 DEF vars, input, IInv, Types, TypeOK, PlaceInv, Waiting, Later, OrderInv, RangesFit,
                  ItemEnd, SaturatingAdd, MatchesIndividual, Individual, CanRead, EndsAtTop,
                  RequestBudget, OfKind
    <2> QED BY <2>1, <2>2, RangeOkStep, RangeErrStep, NextKindStep DEF Next, Returned
  <1> QED BY <1>1, InitIInv, PTL DEF Spec

\* The variables keep their types.
THEOREM TypeCorrect == Spec => []TypeOK
  <1>1. IInv => TypeOK
    BY DEF IInv, Types
  <1> QED BY <1>1, InductiveInvariant, PTL

\* Whatever coalesce merges is one legal request that covers its members tightly.
THEOREM RangesAreRequests == Spec => []RangesFit
  <1>1. IInv => RangesFit
    BY DEF IInv
  <1> QED BY <1>1, InductiveInvariant, PTL

\* What a coalesced batch answers for a metric is what a request of its own would
\* have answered, whatever is merged, refused or lost on the way.
THEOREM BatchedIsIndividual == Spec => []MatchesIndividual
  <1>1. IInv => MatchesIndividual
    BY DEF IInv
  <1> QED BY <1>1, InductiveInvariant, PTL

\* batch_read_coalesced issues no more requests than one per range and one for each
\* member of a range that failed.
THEOREM BudgetKept == Spec => []RequestBudget
  <1>1. IInv => RequestBudget
    BY DEF IInv
  <1> QED BY <1>1, InductiveInvariant, PTL

\* A batch that returns has an answer for every metric: the "not processed" error
\* of the output loop is never used.
THEOREM NothingForgotten == Spec => [](kind = "done" => \A m \in Metrics : results[m] # None)
  <1>1. IInv => (kind = "done" => \A m \in Metrics : results[m] # None)
    <2> SUFFICES ASSUME IInv, kind = "done", NEW m \in Metrics PROVE results[m] # None
      OBVIOUS
    <2>1. ranges = <<>> /\ todo = {} /\ single = {} /\ DOMAIN ranges = {}
      BY RangeFacts DEF IInv, Types, TypeOK, PlaceInv
    <2> QED BY <2>1 DEF IInv, PlaceInv, Waiting, Later
  <1> QED BY <1>1, InductiveInvariant, PTL
-------------------------------------------------------------------------------
(***************************************************************************)
(* A batch read implements SingleReads.                                     *)
(***************************************************************************)
possible == [m \in Metrics |-> Possible(m)]

\* What reading a metric alone could give depends on the layout and the device only.
LEMMA PossibleKept == UNCHANGED input => UNCHANGED possible
  BY DEF input, possible, Possible, Individual, CanRead, EndsAtTop

\* The members of a range, of which there is one at least, have no answer yet, and
\* are registers.
LEMMA MembersOpen ==
  ASSUME IInv, NEW i \in DOMAIN ranges
  PROVE  /\ ranges[i].members \subseteq Call!Open /\ ranges[i].members # {}
         /\ \A m \in ranges[i].members : layout[m].kind = kind
         /\ kind \in {"holding", "input"}
  <1>1. ranges[i].members \subseteq Metrics /\ ranges[i].members # {}
    BY RangeFacts DEF IInv, Types, TypeOK, MergedRange, RangesFit
  <1>2. kind \in {"holding", "input"}
    BY RangeFacts DEF IInv, Types, TypeOK, PlaceInv
  <1> QED BY <1>1, <1>2 DEF IInv, PlaceInv, Waiting, Call!Open

\* The range that is read at once answers its members, and no one else's metric.
LEMMA RangeOkAnswers ==
  ASSUME IInv, IInv', RangeOk
  PROVE  Call!Answer
  <1> DEFINE M == ranges[1].members
  <1>1. /\ ranges # <<>> /\ ranges' = Tail(ranges) /\ todo = {} /\ single = {}
        /\ UNCHANGED <<input, kind, todo, single>>
        /\ read_count' = read_count + 1 /\ spent' = spent + 1
    BY DEF RangeOk
  <1>2. Head(ranges) = ranges[1] /\ 1 \in DOMAIN ranges
    BY <1>1, FirstRange
  <1>3. M \subseteq Call!Open /\ M # {} /\ M \subseteq Metrics
    BY <1>2, MembersOpen DEF Call!Open
  <1>4. \A m \in M : layout[m].kind = kind /\ kind \in {"holding", "input"}
    BY <1>2, MembersOpen
  <1>5. \A m \in Metrics \ M : results'[m] = results[m]
    BY <1>2 DEF RangeOk
  <1>6. ASSUME NEW m \in M PROVE results'[m] \in possible[m]
    <2>1. ~Waiting(m)'
      BY <1>1, <1>2, <1>3, FirstRange DEF Waiting
    <2>2. layout'[m].kind \notin Later' /\ layout'[m].kind # "unaddressed"
      BY <1>1, <1>4 DEF Later, input
    <2>3. results'[m] # None
      BY <1>3, <2>1, <2>2 DEF IInv, PlaceInv
    <2>4. results'[m] \in possible'[m]
      BY <1>3, <2>2, <2>3 DEF IInv, MatchesIndividual, possible, Possible
    <2> QED BY <1>1, <2>4, PossibleKept
  <1>7. kind # "done" /\ kind' = kind
    BY <1>1, <1>3, <1>4
  <1>8. DOMAIN results' = Metrics
    BY DEF IInv, Types, TypeOK
  <1> HIDE DEF M
  <1> QED BY <1>1, <1>3, <1>5, <1>6, <1>7, <1>8, PossibleKept DEF Call!Answer, possible

\* A single read answers its metric.
LEMMA SingleAnswers ==
  ASSUME IInv, IInv', NEW m \in Metrics, ReadSingle(m)
  PROVE  Call!Answer
  <1>1. /\ m \in single /\ single' = single \ {m}
        /\ UNCHANGED <<input, kind, todo, ranges>>
    BY DEF ReadSingle
  <1>2. layout[m].kind = kind /\ results[m] = None /\ kind \in {"holding", "input", "bit"}
    BY <1>1 DEF IInv, Types, TypeOK, PlaceInv, Waiting
  <1>3. \A n \in Metrics \ {m} : results'[n] = results[n]
    BY DEF ReadSingle, IInv, Types
  <1>4. ~Waiting(m)'
    BY <1>1 DEF Waiting, IInv, PlaceInv
  <1>5. layout'[m].kind \notin Later' /\ layout'[m].kind # "unaddressed"
    BY <1>1, <1>2 DEF Later, input
  <1>6. results'[m] # None
    BY <1>4, <1>5 DEF IInv, PlaceInv
  <1>7. results'[m] \in possible'[m]
    BY <1>5, <1>6 DEF IInv, MatchesIndividual, possible, Possible
  <1>8. DOMAIN results' = Metrics
    BY DEF IInv, Types, TypeOK
  <1>9. {m} \in SUBSET Call!Open /\ {m} # {}
    BY <1>2 DEF Call!Open
  <1>10. UNCHANGED possible /\ \A n \in {m} : results'[n] \in possible[n]
    BY <1>1, <1>7, PossibleKept
  <1> QED BY <1>1, <1>2, <1>3, <1>8, <1>9, <1>10 DEF Call!Answer, possible

\* When the coils are through, the call returns, and nothing is open.
LEMMA LastKindReturns ==
  ASSUME IInv, IInv', NextKind
  PROVE  Call!Return \/ UNCHANGED Call!callVars
  <1>1. UNCHANGED <<input, results>> /\ kind # "done" /\ todo = {} /\ single = {} /\ ranges = <<>>
    BY DEF NextKind
  <1>2. UNCHANGED possible
    BY <1>1, PossibleKept
  <1>3. CASE kind' = "done"
    <2>1. Later' = {}
      BY <1>3 DEF Later
    <2>2. \A m \in Metrics : ~Waiting(m)'
      BY <1>3, RangeFacts, <1>1 DEF IInv, Types, TypeOK, PlaceInv, Waiting, NextKind
    <2>3. \A m \in Metrics : results[m] # None
      BY <1>1, <2>1, <2>2 DEF IInv, PlaceInv
    <2> QED BY <1>1, <1>2, <1>3, <2>3 DEF Call!Return, Call!Open, possible
  <1>4. CASE kind' # "done"
    BY <1>1, <1>2, <1>4 DEF Call!callVars, possible
  <1> QED BY <1>3, <1>4

\* What is planned, merged or refused is not seen by the caller.
LEMMA PlansAreStutter ==
  ASSUME (\E m \in Metrics : Merge(m) \/ Open(m)) \/ RangeErr \/ UNCHANGED vars
  PROVE  UNCHANGED Call!callVars
  <1>1. UNCHANGED <<input, kind, results>>
    BY DEF Merge, Open, RangeErr, vars, input
  <1> QED BY <1>1, PossibleKept DEF Call!callVars, possible

\* For its caller batch_read_coalesced is a series of single reads: one answer per
\* metric, which a read of its own could have given, kept once given, and all of
\* them there on return.
THEOREM Refinement == Spec => ImplementsSingleReads
  <1>1. Init => Call!CallInit
    <2> SUFFICES ASSUME Init PROVE Call!CallInit
      OBVIOUS
    <2>1. \A m \in Metrics : results[m] = None \/ results[m] \in possible[m]
      BY DEF Init, possible, Possible
    <2> QED BY <2>1 DEF Init, Call!CallInit, possible
  <1>2. IInv /\ IInv' /\ [Next]_vars => [Call!CallNext]_(Call!callVars)
    <2> SUFFICES ASSUME IInv, IInv', [Next]_vars PROVE [Call!CallNext]_(Call!callVars)
      OBVIOUS
    <2>1. CASE \E m \in Metrics : ReadSingle(m)
      BY <2>1, SingleAnswers DEF Call!CallNext
    <2>2. CASE RangeOk
      BY <2>2, RangeOkAnswers DEF Call!CallNext
    <2>3. CASE NextKind
      BY <2>3, LastKindReturns DEF Call!CallNext
    <2> QED BY <2>1, <2>2, <2>3, PlansAreStutter DEF Next, Returned
  <1> QED BY <1>1, <1>2, InductiveInvariant, PTL DEF Spec, ImplementsSingleReads, Call!CallSpec
-------------------------------------------------------------------------------
(***************************************************************************)
(* A batch read ends: what is left to do shrinks with every step.           *)
(***************************************************************************)
Unanswered == {m \in Metrics : results[m] = None}
KindsLeft == CASE kind = "holding" -> 3 [] kind = "input" -> 2 [] kind = "bit" -> 1 [] kind = "done" -> 0
Inputs == IF kind = "holding" THEN Cardinality(OfKind("input")) ELSE 0

\* One for each answer that is missing and each range not yet read, two for each
\* metric not yet placed, whose type may not have been taken up, one for each type.
Work == Cardinality(Unanswered) + Len(ranges) + 2 * Cardinality(todo) + 2 * Inputs + KindsLeft

\* The parts of Work are numbers.
LEMMA WorkParts ==
  ASSUME TypeOK
  PROVE  /\ Cardinality(Unanswered) \in Nat /\ Len(ranges) \in Nat /\ Cardinality(todo) \in Nat
         /\ Cardinality(OfKind("input")) \in Nat /\ Inputs \in Nat /\ KindsLeft \in 0 .. 3
         /\ Work \in Nat
  <1>1. /\ Cardinality(Unanswered) \in Nat /\ Cardinality(todo) \in Nat
        /\ Cardinality(OfKind("input")) \in Nat
    BY Sets DEF Unanswered, OfKind, TypeOK
  <1>2. Len(ranges) \in Nat
    BY DEF TypeOK
  <1>3. KindsLeft \in 0 .. 3
    <2>1. kind \in {"holding", "input", "bit", "done"}
      BY DEF TypeOK
    <2> QED BY <2>1 DEF KindsLeft
  <1>4. Inputs \in Nat
    BY <1>1 DEF Inputs
  <1> QED BY <1>1, <1>2, <1>3, <1>4 DEF Work

\* A metric that is placed is one less to place, and opens one range at most.
LEMMA PlacingShrinks ==
  ASSUME TypeOK, TypeOK', NEW m \in Metrics, Merge(m) \/ Open(m)
  PROVE  Work' < Work
  <1>1. /\ m \in todo /\ todo' = todo \ {m} /\ UNCHANGED <<layout, kind, results>>
    BY DEF Merge, Open, Lowest, input
  <1>2. Cardinality(todo') = Cardinality(todo) - 1
    BY <1>1, Sets, FS_RemoveElement DEF TypeOK
  <1>3. Len(ranges') \in Nat /\ Len(ranges') <= Len(ranges) + 1
    <2>1. Len(ranges') \in Nat
      BY DEF TypeOK
    <2> QED BY <2>1, RangeFacts DEF Merge, Open, TypeOK
  <1>4. Unanswered' = Unanswered /\ Inputs' = Inputs /\ KindsLeft' = KindsLeft
    BY <1>1 DEF Unanswered, Inputs, OfKind, KindsLeft
  <1>5. Cardinality(Unanswered') = Cardinality(Unanswered)
    BY <1>4
  <1>6. /\ Cardinality(Unanswered) \in Int /\ Len(ranges) \in Int /\ Cardinality(todo) \in Int
        /\ Inputs \in Int /\ KindsLeft \in Int
    BY WorkParts
  <1> DEFINE u == Cardinality(Unanswered)
             r == Len(ranges)
             r1 == Len(ranges')
             t == Cardinality(todo)
             i == Inputs
             k == KindsLeft
  <1>7. Work' = u + r1 + 2 * (t - 1) + 2 * i + k /\ Work = u + r + 2 * t + 2 * i + k
    BY <1>2, <1>4, <1>5 DEF Work
  <1>8. u \in Int /\ r \in Int /\ r1 \in Int /\ t \in Int /\ i \in Int /\ k \in Int /\ r1 <= r + 1
    BY <1>3, <1>6
  <1> QED
    <2> HIDE DEF u, r, r1, t, i, k
    <2> QED BY <1>7, <1>8

\* A range is read once, and answers do not get less.
LEMMA RangeShrinks ==
  ASSUME IInv, IInv', RangeOk \/ RangeErr
  PROVE  Work' < Work
  <1>1. UNCHANGED <<layout, kind, todo>> /\ ranges # <<>> /\ ranges' = Tail(ranges)
    BY DEF RangeOk, RangeErr, input
  <1>2. Len(ranges') = Len(ranges) - 1
    BY <1>1, RangeFacts DEF IInv, Types, TypeOK
  <1>3. Unanswered' \subseteq Unanswered
    <2>1. CASE RangeErr
      BY <2>1 DEF RangeErr, Unanswered
    <2>2. CASE RangeOk
      <3>1. PICK M \in SUBSET Call!Open : \A m \in Metrics \ M : results'[m] = results[m]
        BY <2>2, RangeOkAnswers DEF Call!Answer
      <3> QED BY <3>1 DEF Unanswered, Call!Open
    <2> QED BY <2>1, <2>2
  <1>4. Cardinality(Unanswered') \in Int /\ Cardinality(Unanswered') <= Cardinality(Unanswered)
    <2>1. Unanswered \in SUBSET Metrics /\ Unanswered' \in SUBSET Metrics /\ TypeOK
      BY DEF Unanswered, IInv, Types
    <2>2. IsFiniteSet(Unanswered) /\ Cardinality(Unanswered') \in Nat
      BY <2>1, Sets
    <2> QED BY <1>3, <2>2, FS_Subset
  <1>5. Inputs' = Inputs /\ KindsLeft' = KindsLeft
    BY <1>1 DEF Inputs, OfKind, KindsLeft
  <1>6. /\ Cardinality(Unanswered) \in Int /\ Len(ranges) \in Int /\ Cardinality(todo) \in Int
        /\ Inputs \in Int /\ KindsLeft \in Int
    BY WorkParts DEF IInv, Types
  <1>7. Cardinality(todo') = Cardinality(todo)
    BY <1>1
  <1> DEFINE u == Cardinality(Unanswered)
             u1 == Cardinality(Unanswered')
             r == Len(ranges)
             t == Cardinality(todo)
             i == Inputs
             k == KindsLeft
  <1>8. Work' = u1 + (r - 1) + 2 * t + 2 * i + k /\ Work = u + r + 2 * t + 2 * i + k
    BY <1>2, <1>5, <1>7 DEF Work
  <1>9. u \in Int /\ u1 \in Int /\ r \in Int /\ t \in Int /\ i \in Int /\ k \in Int /\ u1 <= u
    BY <1>4, <1>6
  <1> QED
    <2> HIDE DEF u, u1, r, t, i, k
    <2> QED BY <1>8, <1>9

\* A single read answers one more metric.
LEMMA SingleShrinks ==
  ASSUME IInv, IInv', NEW m \in Metrics, ReadSingle(m)
  PROVE  Work' < Work
  <1>1. UNCHANGED <<layout, kind, todo, ranges>>
    BY DEF ReadSingle, input
  <1>2. PICK M \in SUBSET Call!Open :
          M # {} /\ (\A n \in M : results'[n] \in possible[n]) /\ \A n \in Metrics \ M : results'[n] = results[n]
    BY SingleAnswers DEF Call!Answer, possible
  <1>3. TypeOK /\ TypeOK' /\ results \in [Metrics -> Answers] /\ results' \in [Metrics -> Answers]
    BY DEF IInv, Types
  <1>4. m \in single
    BY DEF ReadSingle
  <1>5. results[m] = None /\ layout[m].kind = kind
    BY <1>4 DEF IInv, PlaceInv, Waiting
  <1>6. results'[m] # None
    <2>1. PICK answer \in {Individual(m), Err} : results' = [results EXCEPT ![m] = answer]
      BY DEF ReadSingle
    <2>2. answer # None
      BY <1>3, <2>1, IndividualFacts
    <2> QED BY <1>3, <2>1, <2>2
  <1>7. \A n \in Metrics : n # m => results'[n] = results[n]
    BY <1>3 DEF ReadSingle
  <1>8. m \in Unanswered /\ Unanswered' = Unanswered \ {m}
    BY <1>5, <1>6, <1>7 DEF Unanswered
  <1>9. Cardinality(Unanswered') = Cardinality(Unanswered) - 1
    <2>1. Unanswered \in SUBSET Metrics
      BY DEF Unanswered
    <2>2. IsFiniteSet(Unanswered)
      BY <1>3, <2>1, Sets
    <2> QED BY <1>8, <2>2, FS_RemoveElement
  <1>10. Inputs' = Inputs /\ KindsLeft' = KindsLeft
    BY <1>1 DEF Inputs, OfKind, KindsLeft
  <1>11. /\ Cardinality(Unanswered) \in Int /\ Len(ranges) \in Int /\ Cardinality(todo) \in Int
         /\ Inputs \in Int /\ KindsLeft \in Int
    BY <1>3, WorkParts
  <1>12. Cardinality(todo') = Cardinality(todo) /\ Len(ranges') = Len(ranges)
    BY <1>1
  <1> QED BY <1>9, <1>10, <1>11, <1>12 DEF Work

\* Going on to the next type takes up metrics that were counted already.
LEMMA NextKindShrinks ==
  ASSUME IInv, IInv', NextKind
  PROVE  Work' < Work
  <1>1. /\ UNCHANGED <<layout, ranges, results>> /\ todo = {}
        /\ todo' = IF kind = "holding" THEN OfKind("input") ELSE {}
        /\ kind \in {"holding", "input", "bit"}
    BY DEF NextKind, input, IInv, Types, TypeOK
  <1>2. /\ kind = "holding" => kind' = "input"
        /\ kind = "input" => kind' = "bit"
        /\ kind = "bit" => kind' = "done"
    <2>1. kind' = CASE kind = "holding" -> "input"
                    [] kind = "input" -> "bit"
                    [] kind = "bit" -> "done"
      BY DEF NextKind
    <2> QED BY <2>1
  <1>3. KindsLeft' = KindsLeft - 1 /\ KindsLeft \in Int
    BY <1>1, <1>2 DEF KindsLeft
  <1>4. /\ Cardinality(todo') \in Int /\ Inputs' \in Int
        /\ Cardinality(todo') + Inputs' = Cardinality(todo) + Inputs
    <2>1. Cardinality(todo) = 0 /\ Cardinality(OfKind("input")) \in Nat
      BY <1>1, FS_EmptySet, WorkParts DEF IInv, Types
    <2>2. Inputs' = 0
      BY <1>1, <1>2 DEF Inputs
    <2>3. CASE kind = "holding"
      BY <1>1, <2>1, <2>2, <2>3 DEF Inputs
    <2>4. CASE kind # "holding"
      BY <1>1, <2>1, <2>2, <2>4, FS_EmptySet DEF Inputs
    <2> QED BY <2>3, <2>4
  <1>5. Cardinality(Unanswered') = Cardinality(Unanswered) /\ Len(ranges') = Len(ranges)
    BY <1>1 DEF Unanswered
  <1>6. /\ Cardinality(Unanswered) \in Int /\ Len(ranges) \in Int /\ Cardinality(todo) \in Int
        /\ Inputs \in Int
    BY WorkParts DEF IInv, Types
  <1>7. \A u, r, t, i, k, t1, i1 \in Int :
          t1 + i1 = t + i => u + r + 2 * t1 + 2 * i1 + (k - 1) < u + r + 2 * t + 2 * i + k
    OBVIOUS
  <1> QED BY <1>3, <1>4, <1>5, <1>6, <1>7 DEF Work

\* With every step a batch read has less to do, so that it cannot go on for ever:
\* what AllAnswered adds is that it does not stop before.
THEOREM EveryStepCounts == Spec => [](Work \in Nat) /\ [][Work' < Work]_vars
  <1>1. IInv => Work \in Nat
    BY WorkParts DEF IInv, Types
  <1>2. IInv /\ IInv' /\ [Next]_vars => [Work' < Work]_vars
    <2> SUFFICES ASSUME IInv, IInv', Next, vars' # vars PROVE Work' < Work
      OBVIOUS
    <2>1. TypeOK /\ TypeOK'
      BY DEF IInv, Types
    <2>2. ASSUME NEW m \in Metrics, Merge(m) \/ Open(m) \/ ReadSingle(m) PROVE Work' < Work
      BY <2>1, <2>2, PlacingShrinks, SingleShrinks
    <2> QED BY <2>2, RangeShrinks, NextKindShrinks DEF Next, Returned
  <1> QED BY <1>1, <1>2, InductiveInvariant, PTL DEF Spec
===============================================================================
