------------------------------- MODULE BatchRead -------------------------------
(***************************************************************************)
(* One call of batch_read_coalesced (src/reader/modbus/batch.rs): the       *)
(* metrics of each register type are sorted by address and coalesced into   *)
(* ranges, every range is read with one request and split, and a range      *)
(* whose request fails is read again metric by metric.                      *)
(*                                                                          *)
(* One step is one iteration of coalesce or one request to the device.      *)
(* The contents of register a are abstracted to a itself, so a decoded      *)
(* value tells which registers it was taken from.  Metrics with the same    *)
(* address are placed, and the members of a range read again, in any order. *)
(***************************************************************************)
EXTENDS Integers, Sequences, FiniteSets

CONSTANTS
  Metrics,  \* the metrics handed to the reader
  Layouts,  \* what a metric may be configured as: [kind, addr, count]; kind "bit"
            \* is a coil or discrete input, "unaddressed" has no address
  BadSets,  \* which registers the device may refuse to read
  AddrMax,  \* u16::MAX, also the highest register address
  MaxGap,   \* MAX_COALESCE_GAP
  MaxRegs   \* MAX_REGISTERS_PER_READ

Kinds == {"holding", "input", "bit", "unaddressed"}

ASSUME BatchAssumption ==
  /\ IsFiniteSet(Metrics)
  /\ AddrMax \in Nat /\ MaxGap \in Nat /\ MaxRegs \in Nat
  /\ Layouts \subseteq [kind : Kinds, addr : 0 .. AddrMax, count : 1 .. MaxRegs]
  /\ BadSets \subseteq SUBSET (0 .. AddrMax)
\* Config::validate: address + register_count() <= 65536.
ASSUME LayoutsFit == \A l \in Layouts : l.addr + l.count <= AddrMax + 1

VARIABLES
  layout,     \* the configuration of each metric
  bad,        \* registers the device answers with an exception
  flaky,      \* requests may also fail at random
  kind,       \* the register type being handled, then "done"
  todo,       \* metrics of that type not yet placed in a range
  ranges,     \* the coalesced ranges not yet read
  single,     \* metrics still to be read one by one
  results,    \* the registers each metric was decoded from, or Err, or None
  read_count, \* requests issued
  spent       \* of these, requests for whole ranges

vars == <<layout, bad, flaky, kind, todo, ranges, single, results, read_count, spent>>
input == <<layout, bad, flaky>>

None == <<-1>>
Err == <<>>
OfKind(k) == {m \in Metrics : layout[m].kind = k}

Init ==
  /\ layout \in [Metrics -> Layouts]
  /\ bad \in BadSets
  /\ flaky \in BOOLEAN
  /\ kind = "holding" /\ todo = OfKind("holding")
  /\ ranges = <<>> /\ single = {}
  /\ results = [m \in Metrics |-> IF layout[m].kind = "unaddressed" THEN Err ELSE None]
  /\ read_count = 0 /\ spent = 0

-------------------------------------------------------------------------------
(***************************************************************************)
(* The device.  A request is granted when its count is accepted by          *)
(* validate_register_count and it touches no register that is missing or    *)
(* refused.                                                                 *)
(***************************************************************************)
CanRead(start, count) ==
  /\ count \in 1 .. MaxRegs
  /\ start + count - 1 <= AddrMax
  /\ \A a \in start .. start + count - 1 : a \notin bad

Registers(start, count) == [i \in 1 .. count |-> start + i - 1]

\* read_single of a metric whose request is granted.
Individual(m) ==
  IF CanRead(layout[m].addr, layout[m].count)
  THEN Registers(layout[m].addr, layout[m].count)
  ELSE Err

-------------------------------------------------------------------------------
(***************************************************************************)
(* coalesce.                                                                *)
(***************************************************************************)
SaturatingAdd(a, b) == IF a + b > AddrMax THEN AddrMax ELSE a + b
SaturatingSub(a, b) == IF a > b THEN a - b ELSE 0
MaxOf(a, b) == IF a > b THEN a ELSE b

ItemEnd(m) == SaturatingAdd(layout[m].addr, layout[m].count)

\* Whether the next metric joins the last range: the gap is small and the
\* merged range still fits in one request.
Fits(r, m) ==
  /\ SaturatingSub(layout[m].addr, r.end) <= MaxGap
  /\ SaturatingSub(ItemEnd(m), r.start) <= MaxRegs

ExtendToItem(r, m) ==                       \* Mutant: the end may move backwards.
  [r EXCEPT !.end = ItemEnd(m), !.members = @ \cup {m}]
Extend(r, m) ==
  [r EXCEPT !.end = MaxOf(@, ItemEnd(m)), !.members = @ \cup {m}]

Last(s) == s[Len(s)]

\* The next metric in address order.
Lowest(m) ==
  /\ m \in todo
  /\ \A n \in todo : layout[m].addr <= layout[n].addr

Merge(m) ==
  /\ Lowest(m)
  /\ ranges # <<>> /\ Fits(Last(ranges), m)
  /\ ranges' = [ranges EXCEPT ![Len(ranges)] = Extend(@, m)]
  /\ todo' = todo \ {m}
  /\ UNCHANGED <<input, kind, single, results, read_count, spent>>

Open(m) ==
  /\ Lowest(m)
  /\ ranges # <<>> => ~Fits(Last(ranges), m)
  /\ ranges' = Append(ranges, [start |-> layout[m].addr, end |-> ItemEnd(m), members |-> {m}])
  /\ todo' = todo \ {m}
  /\ UNCHANGED <<input, kind, single, results, read_count, spent>>

-------------------------------------------------------------------------------
(***************************************************************************)
(* The requests.                                                            *)
(***************************************************************************)
\* decode_metric: the registers of m in the answer to a request of count
\* registers from start on; Err when they are not all there.
DecodeFromStart(m, start, count) ==         \* Mutant: the offset is ignored.
  IF layout[m].count > count THEN Err ELSE SubSeq(Registers(start, count), 1, layout[m].count)
Decode(m, start, count) ==
  LET offset == layout[m].addr - start
  IN  IF offset < 0 \/ offset + layout[m].count > count
      THEN Err
      ELSE SubSeq(Registers(start, count), offset + 1, offset + layout[m].count)

Count(r) == r.end - r.start

\* All metrics of the type are in ranges: read the first range.
RangeOk ==
  /\ todo = {} /\ single = {} /\ ranges # <<>>
  /\ LET r == Head(ranges)
     IN  /\ CanRead(r.start, Count(r))
         /\ results' = [m \in Metrics |-> IF m \in r.members
                                          THEN Decode(m, r.start, Count(r))
                                          ELSE results[m]]
  /\ ranges' = Tail(ranges)
  /\ read_count' = read_count + 1 /\ spent' = spent + 1
  /\ UNCHANGED <<input, kind, todo, single>>

RangeErrDropped ==                          \* Mutant: no individual reads.
  /\ todo = {} /\ single = {} /\ ranges # <<>>
  /\ flaky \/ ~CanRead(Head(ranges).start, Count(Head(ranges)))
  /\ ranges' = Tail(ranges)
  /\ read_count' = read_count + 1 /\ spent' = spent + 1
  /\ UNCHANGED <<input, kind, todo, single, results>>
RangeErrAgain ==                            \* Mutant: all of the type are read again.
  /\ todo = {} /\ single = {} /\ ranges # <<>>
  /\ flaky \/ ~CanRead(Head(ranges).start, Count(Head(ranges)))
  /\ single' = OfKind(kind)
  /\ ranges' = Tail(ranges)
  /\ read_count' = read_count + 1 /\ spent' = spent + 1
  /\ UNCHANGED <<input, kind, todo, results>>
RangeErr ==
  /\ todo = {} /\ single = {} /\ ranges # <<>>
  /\ flaky \/ ~CanRead(Head(ranges).start, Count(Head(ranges)))
  /\ single' = Head(ranges).members
  /\ ranges' = Tail(ranges)
  /\ read_count' = read_count + 1 /\ spent' = spent + 1
  /\ UNCHANGED <<input, kind, todo, results>>

ReadSingleRetries(m) ==                     \* Mutant: a failed read is repeated.
  /\ m \in single
  /\ \E answer \in {Individual(m)} \cup (IF flaky THEN {Err} ELSE {}) :
       /\ results' = [results EXCEPT ![m] = answer]
       /\ single' = IF answer = Err THEN single ELSE single \ {m}
  /\ read_count' = read_count + 1
  /\ UNCHANGED <<input, kind, todo, ranges, spent>>
ReadSingle(m) ==
  /\ m \in single
  /\ \E answer \in {Individual(m)} \cup (IF flaky THEN {Err} ELSE {}) :
       results' = [results EXCEPT ![m] = answer]
  /\ single' = single \ {m}
  /\ read_count' = read_count + 1
  /\ UNCHANGED <<input, kind, todo, ranges, spent>>

\* From the holding registers to the input registers, then to the coils and
\* discrete inputs, which are never coalesced.
NextKind ==
  /\ todo = {} /\ single = {} /\ ranges = <<>> /\ kind # "done"
  /\ kind' = CASE kind = "holding" -> "input"
               [] kind = "input" -> "bit"
               [] kind = "bit" -> "done"
  /\ todo' = IF kind = "holding" THEN OfKind("input") ELSE {}
  /\ single' = IF kind = "input" THEN OfKind("bit") ELSE {}
  /\ UNCHANGED <<input, ranges, results, read_count, spent>>

Returned == kind = "done" /\ UNCHANGED vars

Next ==
  \/ \E m \in Metrics : Merge(m) \/ Open(m) \/ ReadSingle(m)
  \/ RangeOk \/ RangeErr \/ NextKind \/ Returned

Spec == Init /\ [][Next]_vars /\ WF_vars(Next)
-------------------------------------------------------------------------------
(***************************************************************************)
(* Properties.                                                              *)
(***************************************************************************)
MergedRange == [start : 0 .. AddrMax, end : 0 .. AddrMax, members : SUBSET Metrics]

TypeOK ==
  /\ layout \in [Metrics -> Layouts]
  /\ bad \in BadSets /\ flaky \in BOOLEAN
  /\ kind \in {"holding", "input", "bit", "done"}
  /\ todo \subseteq Metrics /\ single \subseteq Metrics
  /\ ranges \in Seq(MergedRange)
  /\ DOMAIN results = Metrics
  /\ read_count \in Nat /\ spent \in 0 .. read_count

\* Every merged range is one legal request (at most MAX_REGISTERS_PER_READ
\* registers) that covers all its members and nothing beyond the first and the
\* last of them.
RangesFit ==
  \A i \in DOMAIN ranges :
    LET r == ranges[i]
    IN  /\ r.end - r.start <= MaxRegs
        /\ \A m \in r.members : r.start <= layout[m].addr /\ ItemEnd(m) <= r.end
        /\ \E m \in r.members : layout[m].addr = r.start
        /\ \E m \in r.members : ItemEnd(m) = r.end

\* The exclusive end of a range saturates one short of the topmost register.
EndsAtTop(m) == layout[m].addr + layout[m].count = AddrMax + 1

\* A coalesced batch returns for each metric what reading it alone would return,
\* or an error where a request failed at random or the metric ends with the last
\* register of all, but never another metric's registers
\* (test_batch_read_values_match_individual).
MatchesIndividual ==
  \A m \in Metrics :
    layout[m].kind # "unaddressed" =>
      results[m] \in {None, Individual(m)} \cup (IF flaky \/ EndsAtTop(m) THEN {Err} ELSE {})

\* What reading the metric alone could give.
Possible(m) ==
  IF layout[m].kind = "unaddressed" THEN {Err}
  ELSE {Individual(m)} \cup (IF flaky \/ EndsAtTop(m) THEN {Err} ELSE {})

\* For its caller a coalesced batch is a series of single reads: every metric is
\* answered once, as it could have been alone, an answer is never taken back when
\* another range fails and is read again, and none is missing on return.
Call == INSTANCE SingleReads WITH
          NotYet <- None,
          possible <- [m \in Metrics |-> Possible(m)],
          answer <- results,
          returned <- kind = "done"
ImplementsSingleReads == Call!CallSpec

\* No metric costs more than its share of a range request and one request of its
\* own, however many requests fail.
RequestBudget ==
  /\ read_count - spent <= Cardinality({m \in Metrics : results[m] # None})
  /\ spent + Len(ranges) + Cardinality(todo) <=
       Cardinality(OfKind("holding")) +
       (IF kind = "holding" THEN 0 ELSE Cardinality(OfKind("input")))

\* The batch ends, and then every metric has an answer: the "not processed"
\* error of the output loop is never used.
AllAnswered == <>(kind = "done" /\ \A m \in Metrics : results[m] # None)
===============================================================================
