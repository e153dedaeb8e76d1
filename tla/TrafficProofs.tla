--------------------------- MODULE TrafficProofs ---------------------------
(***************************************************************************)
(* Theorems about Traffic, for any threads, endpoints, sizes, number of     *)
(* elements and capacity of the history.                                    *)
(*                                                                          *)
(* IInv is the inductive invariant.  InvCounted is a balance: what the      *)
(* calls returned is counted, dropped, or owed by a thread.  InvReach is    *)
(* another: of each flow, what its record would come to if the row of the   *)
(* walk and the element of the map were applied to it (Reach), summed over  *)
(* the flows, and the bytes the threads have yet to add, are no more than   *)
(* the totals.  It rests on what is known of a single flow (KeyOK): what    *)
(* the element, the row, the previous sample and the record say of it       *)
(* never goes backwards, because a thread inserts its flows with a time     *)
(* later than all that was seen of them (InvOlder).  InvSampled relates a   *)
(* record to the previous sample; with it, an increment that is not marked  *)
(* as a gap is what the sample adds to the total (UpdateSound).             *)
(*                                                                          *)
(* The flow lemmas speak of one element, row, previous value and record;    *)
(* the lemmas about steps reduce each action to them.                       *)
(***************************************************************************)
EXTENDS Traffic, Sums, SequenceTheorems

-----------------------------------------------------------------------------
(* The flow map.                                                             *)

Flows == [key: Keys \cup {None}, value: Values]
FlowMaps == [Elements -> Flows]

\* No two elements hold the same flow.
Unique(fl) == \A e, f \in Elements : fl[e].key # None /\ fl[e].key = fl[f].key => e = f

\* The value the map fl holds for the flow k.
ElementIn(fl, k) ==
    IF \E e \in Elements : fl[e].key = k
    THEN fl[CHOOSE e \in Elements : fl[e].key = k].value ELSE None

\* The fields of an element.
LEMMA FlowTypes ==
    ASSUME NEW fl \in FlowMaps, NEW e \in Elements
    PROVE  /\ fl[e] \in Flows /\ fl[e].key \in Keys \cup {None} /\ fl[e].value \in Values
           /\ fl[e] = [key |-> fl[e].key, value |-> fl[e].value]
           /\ fl[e].value.first \in Nat /\ fl[e].value.last \in Nat /\ fl[e].value.bytes \in Nat
<1>1. fl[e] \in Flows
  BY DEF FlowMaps
<1>2. fl[e].value \in Values /\ fl[e].key \in Keys \cup {None}
  BY <1>1 DEF Flows
<1>. QED
  BY <1>1, <1>2 DEF Flows, Values

\* The value of a flow is that of the element that holds it.
LEMMA ElementAt ==
    ASSUME NEW fl, Unique(fl), NEW e \in Elements, fl[e].key # None, NEW k, fl[e].key = k
    PROVE  ElementIn(fl, k) = fl[e].value
<1>. DEFINE c == CHOOSE f \in Elements : fl[f].key = k
<1>1. c \in Elements /\ fl[c].key = k
  OBVIOUS
<1>2. c = e
  BY <1>1 DEF Unique
<1>. QED
  BY <1>2 DEF ElementIn

\* A flow no element holds has no value.
LEMMA ElementNone ==
    ASSUME NEW fl, NEW k, \A e \in Elements : fl[e].key # k
    PROVE  ElementIn(fl, k) = None
BY DEF ElementIn

\* The value of a flow that has one.
LEMMA ElementType ==
    ASSUME NEW fl \in FlowMaps, NEW k
    PROVE  ElementIn(fl, k) \in Values \cup {None}
<1>1. CASE \E e \in Elements : fl[e].key = k
  <2>. DEFINE c == CHOOSE f \in Elements : fl[f].key = k
  <2>1. c \in Elements
    BY <1>1
  <2>2. fl[c].value \in Values
    BY <2>1, FlowTypes
  <2>. QED
    BY <1>1, <2>2 DEF ElementIn
<1>2. CASE ~\E e \in Elements : fl[e].key = k
  BY <1>2 DEF ElementIn
<1>. QED
  BY <1>1, <1>2

\* Maps whose elements hold the same flows or none: a flow keeps its value or
\* loses it, except at e.
LEMMA ElementKept ==
    ASSUME NEW fl, Unique(fl), NEW gl, Unique(gl), NEW k, k # None,
           \A e \in Elements : gl[e].key = k => fl[e].key = k /\ gl[e].value = fl[e].value
    PROVE  ElementIn(gl, k) \in {None, ElementIn(fl, k)}
<1>1. CASE \E e \in Elements : gl[e].key = k
  <2>1. PICK e \in Elements : gl[e].key = k
    BY <1>1
  <2>2. ElementIn(gl, k) = gl[e].value
    BY <2>1, ElementAt
  <2>3. ElementIn(fl, k) = fl[e].value
    BY <2>1, ElementAt
  <2>. QED
    BY <2>1, <2>2, <2>3
<1>2. CASE ~\E e \in Elements : gl[e].key = k
  BY <1>2, ElementNone
<1>. QED
  BY <1>1, <1>2

\* The map after an insertion at the element e, and after a deletion.
PlacedAt(fl, e, k, v) == [fl EXCEPT ![e] = [key |-> k, value |-> v]]
DeletedAt(fl, e) == [fl EXCEPT ![e].key = None]

\* An insertion: the flow has the new value, and others keep or lose theirs.
LEMMA InsertElement ==
    ASSUME NEW fl \in FlowMaps, Unique(fl), NEW k \in Keys, \A f \in Elements : fl[f].key # k,
           NEW e \in Elements, NEW v \in Values,
           NEW gl, gl = PlacedAt(fl, e, k, v)
    PROVE  /\ gl \in FlowMaps /\ Unique(gl) /\ ElementIn(gl, k) = v
           /\ \A j \in Keys : j # k => ElementIn(gl, j) \in {None, ElementIn(fl, j)}
           /\ \A f \in Elements : gl[f].key = k \/ gl[f].key = fl[f].key
<1>1. k # None
  BY NoneAssumption
<1>2. [key |-> k, value |-> v] \in Flows
  BY DEF Flows
<1>3. gl \in FlowMaps
  BY <1>2 DEF FlowMaps, PlacedAt
<1>4. gl[e].key = k /\ gl[e].value = v /\ \A f \in Elements : f # e => gl[f] = fl[f]
  BY DEF FlowMaps, PlacedAt
<1>5. Unique(gl)
  BY <1>4 DEF Unique
<1>6. ElementIn(gl, k) = v
  BY <1>1, <1>4, <1>5, ElementAt
<1>7. ASSUME NEW j \in Keys, j # k PROVE ElementIn(gl, j) \in {None, ElementIn(fl, j)}
  <2>1. j # None
    BY NoneAssumption
  <2>2. \A f \in Elements : gl[f].key = j => fl[f].key = j /\ gl[f].value = fl[f].value
    BY <1>4, <1>7
  <2>. QED
    BY <1>5, <2>1, <2>2, ElementKept
<1>8. \A f \in Elements : gl[f].key = k \/ gl[f].key = fl[f].key
  BY <1>4
<1>. QED
  BY <1>3, <1>5, <1>6, <1>7, <1>8

\* A deletion: every flow keeps its value or loses it.
LEMMA DeleteElement ==
    ASSUME NEW fl \in FlowMaps, Unique(fl), NEW e \in Elements,
           NEW gl, gl = DeletedAt(fl, e)
    PROVE  /\ gl \in FlowMaps /\ Unique(gl)
           /\ \A j \in Keys : ElementIn(gl, j) \in {None, ElementIn(fl, j)}
           /\ \A f \in Elements : gl[f].key = None \/ gl[f].key = fl[f].key
<1>1. fl[e] = [key |-> fl[e].key, value |-> fl[e].value] /\ fl[e].value \in Values
  BY FlowTypes
<1>2. gl[e] = [fl[e] EXCEPT !.key = None] /\ \A f \in Elements : f # e => gl[f] = fl[f]
  BY DEF FlowMaps, DeletedAt
<1>3. gl[e] = [key |-> None, value |-> fl[e].value]
  BY <1>1, <1>2
<1>4. gl[e] \in Flows
  BY <1>1, <1>3 DEF Flows
<1>5. gl \in FlowMaps
  <2>1. gl = [f \in Elements |-> gl[f]]
    BY DEF FlowMaps, DeletedAt
  <2>2. \A f \in Elements : gl[f] \in Flows
    BY <1>2, <1>4, FlowTypes
  <2>. QED
    BY <2>1, <2>2 DEF FlowMaps
<1>6. gl[e].key = None
  BY <1>3
<1>7. Unique(gl)
  <2>1. \A f \in Elements : f # e => gl[f].key = fl[f].key
    BY <1>2
  <2>. QED
    BY <1>6, <2>1, Zenon DEF Unique
<1>8. ASSUME NEW j \in Keys PROVE ElementIn(gl, j) \in {None, ElementIn(fl, j)}
  <2>1. j # None
    BY NoneAssumption
  <2>2. \A f \in Elements : gl[f].key = j => fl[f].key = j /\ gl[f].value = fl[f].value
    BY <1>2, <1>6, <2>1
  <2>. QED
    BY <1>7, <2>1, <2>2, ElementKept
<1>9. \A f \in Elements : gl[f].key = None \/ gl[f].key = fl[f].key
  BY <1>2, <1>6
<1>. QED
  BY <1>5, <1>7, <1>8, <1>9

\* v after an addition of n bytes at the time at.
Added(v, n, at) == [first |-> v.first, last |-> at, bytes |-> v.bytes + n]

\* The map after that addition through a pointer to the element e.
AddedAt(fl, e, n, at) == [fl EXCEPT ![e].value.bytes = @ + n, ![e].value.last = at]

\* The two fields of a value that traffic_counter_add sets.
LEMMA SetFields ==
    ASSUME NEW v \in Values, NEW m \in Nat, NEW at \in Nat
    PROVE  [[v EXCEPT !.bytes = m] EXCEPT !.last = at]
             = [first |-> v.first, last |-> at, bytes |-> m]
<1>. DEFINE a == [v EXCEPT !.bytes = m]
            b == [first |-> v.first, last |-> v.last, bytes |-> m]
            c == [first |-> v.first, last |-> at, bytes |-> m]
<1>1. a = b
  BY DEF Values
<1>2. [b EXCEPT !.last = at] = c
  OBVIOUS
<1>. QED
  BY <1>1, <1>2

\* An addition: it goes to the flow the element holds now, if any.
LEMMA AddElement ==
    ASSUME NEW fl \in FlowMaps, Unique(fl), NEW e \in Elements, NEW n \in Nat, NEW at \in Nat,
           NEW gl, gl = AddedAt(fl, e, n, at)
    PROVE  /\ gl \in FlowMaps /\ Unique(gl)
           /\ \A f \in Elements : gl[f].key = fl[f].key
           /\ \A j \in Keys : j # fl[e].key => ElementIn(gl, j) = ElementIn(fl, j)
           /\ fl[e].key # None =>
                 /\ ElementIn(fl, fl[e].key) = fl[e].value
                 /\ ElementIn(gl, fl[e].key) = Added(fl[e].value, n, at)
<1>1. /\ fl[e] = [key |-> fl[e].key, value |-> fl[e].value] /\ fl[e].value \in Values
      /\ fl[e].key \in Keys \cup {None}
      /\ fl[e].value.first \in Nat /\ fl[e].value.last \in Nat /\ fl[e].value.bytes \in Nat
  BY FlowTypes
<1>. DEFINE v == fl[e].value
            m == v.bytes + n
<1>2. m \in Nat
  BY <1>1
<1>3. /\ gl[e] = [fl[e] EXCEPT !.value.bytes = @ + n, !.value.last = at]
      /\ \A f \in Elements : f # e => gl[f] = fl[f]
  BY DEF FlowMaps, AddedAt
<1>4. gl[e] = [fl[e] EXCEPT !.value = [[v EXCEPT !.bytes = m] EXCEPT !.last = at]]
  BY <1>1, <1>3
<1>. HIDE DEF m
<1>5. v \in Values /\ v.first \in Nat
  BY <1>1
<1>. HIDE DEF v
<1>6. [[v EXCEPT !.bytes = m] EXCEPT !.last = at] = [first |-> v.first, last |-> at, bytes |-> m]
  BY <1>2, <1>5, SetFields
<1>7. gl[e] = [key |-> fl[e].key, value |-> [first |-> v.first, last |-> at, bytes |-> m]]
  BY <1>1, <1>4, <1>6
<1>8. gl[e].key = fl[e].key /\ gl[e].value = Added(v, n, at)
  <2>1. gl[e].key = fl[e].key /\ gl[e].value = [first |-> v.first, last |-> at, bytes |-> m]
    BY <1>7
  <2>2. Added(v, n, at) = [first |-> v.first, last |-> at, bytes |-> m]
    BY DEF Added, m
  <2>. QED
    BY <2>1, <2>2
<1>9. gl[e] \in Flows
  BY <1>1, <1>2, <1>5, <1>7 DEF Flows, Values
<1>10. gl \in FlowMaps
  <2>1. gl = [f \in Elements |-> gl[f]]
    BY DEF FlowMaps, AddedAt
  <2>2. \A f \in Elements : gl[f] \in Flows
    BY <1>3, <1>9, FlowTypes
  <2>. QED
    BY <2>1, <2>2 DEF FlowMaps
<1>11. \A f \in Elements : gl[f].key = fl[f].key
  BY <1>3, <1>8
<1>12. Unique(gl)
  BY <1>11 DEF Unique
<1>13. ASSUME NEW j \in Keys, j # fl[e].key PROVE ElementIn(gl, j) = ElementIn(fl, j)
  <2>1. j # None
    BY NoneAssumption
  <2>2. CASE \E f \in Elements : fl[f].key = j
    <3>1. PICK f \in Elements : fl[f].key = j
      BY <2>2
    <3>2. f # e /\ gl[f] = fl[f]
      BY <1>3, <1>13, <3>1
    <3>. QED
      <4>1. ElementIn(fl, j) = fl[f].value
        BY <2>1, <3>1, ElementAt
      <4>2. gl[f].key = j
        BY <3>1, <3>2
      <4>3. ElementIn(gl, j) = gl[f].value
        BY <1>12, <2>1, <4>2, ElementAt
      <4>. QED
        BY <3>2, <4>1, <4>3
  <2>3. CASE ~\E f \in Elements : fl[f].key = j
    <3>1. \A f \in Elements : fl[f].key # j
      BY <2>3
    <3>2. \A f \in Elements : gl[f].key # j
      BY <1>11, <3>1
    <3>3. ElementIn(fl, j) = None
      BY <3>1, ElementNone
    <3>4. ElementIn(gl, j) = None
      BY <3>2, ElementNone
    <3>. QED
      BY <3>3, <3>4
  <2>. QED
    BY <2>2, <2>3
<1>14. ASSUME fl[e].key # None
       PROVE  /\ ElementIn(fl, fl[e].key) = fl[e].value
              /\ ElementIn(gl, fl[e].key) = Added(fl[e].value, n, at)
  <2>0. v = fl[e].value
    BY DEF v
  <2>1. ElementIn(fl, fl[e].key) = fl[e].value
    BY <1>14, ElementAt
  <2>2. ElementIn(gl, fl[e].key) = gl[e].value
    BY <1>8, <1>12, <1>14, ElementAt
  <2>. QED
    BY <1>8, <2>0, <2>1, <2>2
<1>. QED
  BY <1>10, <1>11, <1>12, <1>13, <1>14

-----------------------------------------------------------------------------
(* The records of the history.                                               *)

\* A record that was made from a value: its total is its base and its counter.
Good(r) == r \in Records /\ r.generation >= 1 /\ r.total = r.base + r.counter

\* The increments shown explain the total.
Sound(r) == r.deltas <= r.total /\ (r.valid => r.deltas = r.total)

DeltaOr0(d) == IF d = None THEN 0 ELSE d

\* The fields of a value.
LEMMA ValueTypes ==
    ASSUME NEW v \in Values
    PROVE  v.first \in Nat /\ v.last \in Nat /\ v.bytes \in Nat /\ v # None
BY NoneAssumption DEF Values

\* The fields of a record.
LEMMA RecordTypes ==
    ASSUME NEW r \in Records
    PROVE  /\ r.total \in Nat /\ r.base \in Nat /\ r.counter \in Nat /\ r.generation \in Nat
           /\ r.deltas \in Nat /\ r.valid \in BOOLEAN /\ r # None
BY NoneAssumption DEF Records

\* traffic_history_update of a flow without a record.
LEMMA UpdateNone ==
    ASSUME NEW v \in Values, NEW d \in Nat \cup {None}, NEW u, u = Updated(None, v, d)
    PROVE  /\ u \in Records /\ u.total = v.bytes /\ u.base = 0 /\ u.counter = v.bytes
           /\ u.generation = v.first /\ u.deltas = DeltaOr0(d) /\ (u.valid <=> d # None)
<1>1. v.bytes \in Nat /\ v.first \in Nat
  BY ValueTypes
<1>. DEFINE b == v.bytes
            f == v.first
            valid == d # None
            w == [total |-> b, base |-> 0, counter |-> b, generation |-> f,
                  deltas |-> DeltaOr0(d), valid |-> valid]
<1>2. Rebase(NoRecord, v) = NoRecord
  BY DEF Rebase, NoRecord
<1>3. /\ NoRecord.generation = 0 /\ NoRecord.base = 0 /\ NoRecord.counter = 0
      /\ NoRecord.deltas = 0 /\ NoRecord.valid = TRUE
  BY DEF NoRecord
<1>4. (IF b > 0 THEN b ELSE 0) = b /\ (valid /\ b >= 0 <=> valid)
  BY <1>1
<1>5. DeltaOr0(d) \in Nat /\ 0 + (IF valid THEN d ELSE 0) = DeltaOr0(d) /\ 0 + b = b
  BY <1>1 DEF DeltaOr0
<1>6. u = [total |-> Total(0, IF b > 0 THEN b ELSE 0), base |-> 0,
           counter |-> IF b > 0 THEN b ELSE 0, generation |-> f,
           deltas |-> 0 + (IF valid /\ b >= 0 THEN d ELSE 0), valid |-> TRUE /\ valid /\ b >= 0]
  BY <1>2, <1>3 DEF Updated
<1>7. u = w
  BY <1>4, <1>5, <1>6 DEF Total
<1>8. w \in Records
  BY <1>1, <1>5 DEF Records
<1>9. valid \in BOOLEAN /\ (valid <=> d # None)
  OBVIOUS
<1>. HIDE DEF valid, b, f
<1>10. /\ u \in Records /\ u.total = b /\ u.base = 0 /\ u.counter = b /\ u.generation = f
       /\ u.deltas = DeltaOr0(d) /\ u.valid = valid
  BY <1>7, <1>8
<1>. QED
  BY <1>9, <1>10 DEF b, f

\* The record after an update of the generation it has or of a later one,
\* field by field.
Advanced(base, counter, r, v, d) ==
    LET c == IF v.bytes > counter THEN v.bytes ELSE counter
        ok == d # None /\ v.bytes >= counter
    IN  [total |-> base + c, base |-> base, counter |-> c, generation |-> v.first,
         deltas |-> r.deltas + (IF ok THEN d ELSE 0), valid |-> r.valid /\ ok]

Marked(u, r) ==
    /\ u \in Records /\ u.total = r.total /\ u.base = r.base /\ u.counter = r.counter
    /\ u.generation = r.generation /\ u.deltas = r.deltas /\ u.valid = FALSE

\* An older generation only marks the record.
LEMMA UpdateOlder ==
    ASSUME NEW r, Good(r), NEW v \in Values, NEW d, v.first < r.generation,
           NEW u, u = Updated(r, v, d)
    PROVE  Marked(u, r)
<1>1. r \in Records /\ r.generation \in Nat /\ r.generation >= 1 /\ v.first \in Nat /\ r # None
  BY RecordTypes, ValueTypes DEF Good
<1>2. Rebase(r, v).generation = r.generation
  BY <1>1 DEF Rebase, Records
<1>3. u = [r EXCEPT !.valid = FALSE]
  BY <1>1, <1>2 DEF Updated
<1>. QED
  BY <1>1, <1>3 DEF Records, Marked

\* An update of the generation the record has.
LEMMA UpdateSame ==
    ASSUME NEW r, Good(r), NEW v \in Values, NEW d, v.first = r.generation
    PROVE  Updated(r, v, d) = Advanced(r.base, r.counter, r, v, d)
<1>1. r \in Records /\ r.generation \in Nat /\ r.generation >= 1 /\ v.first \in Nat /\ r # None
  BY RecordTypes, ValueTypes DEF Good
<1>2. Rebase(r, v) = r
  BY DEF Rebase
<1>. QED
  BY <1>1, <1>2 DEF Updated, Advanced, Total

\* An update of a later generation starts from the total.
LEMMA UpdateLater ==
    ASSUME NEW r, Good(r), NEW v \in Values, NEW d, v.first > r.generation
    PROVE  Updated(r, v, d) = Advanced(r.total, 0, r, v, d)
<1>1. r \in Records /\ r.generation \in Nat /\ r.generation >= 1 /\ v.first \in Nat /\ r # None
  BY RecordTypes, ValueTypes DEF Good
<1>. DEFINE q == [r EXCEPT !.base = r.total, !.counter = 0]
<1>2. Rebase(r, v) = q
  BY <1>1 DEF Rebase
<1>3. q.base = r.total /\ q.counter = 0 /\ q.generation = r.generation /\ q.deltas = r.deltas
      /\ q.valid = r.valid
  BY <1>1 DEF Records
<1>. HIDE DEF q
<1>4. Updated(r, v, d) = Advanced(q.base, q.counter, q, v, d)
  BY <1>1, <1>2, <1>3 DEF Updated, Advanced, Total
<1>. QED
  BY <1>3, <1>4 DEF Advanced

AdvancedTo(u, base, counter, r, v, d) ==
    /\ u \in Records /\ u.base = base /\ u.generation = v.first
    /\ u.counter = (IF v.bytes > counter THEN v.bytes ELSE counter)
    /\ u.total = base + u.counter
    /\ d # None /\ v.bytes >= counter => u.deltas = r.deltas + d /\ (u.valid <=> r.valid)
    /\ ~(d # None /\ v.bytes >= counter) => u.deltas = r.deltas /\ u.valid = FALSE

\* The fields of Advanced.
LEMMA AdvancedFields ==
    ASSUME NEW base \in Nat, NEW counter \in Nat, NEW r \in Records, NEW v \in Values,
           NEW d \in Nat \cup {None}, NEW u, u = Advanced(base, counter, r, v, d)
    PROVE  AdvancedTo(u, base, counter, r, v, d)
<1>. DEFINE c == IF v.bytes > counter THEN v.bytes ELSE counter
            ok == d # None /\ v.bytes >= counter
            x == r.deltas + (IF ok THEN d ELSE 0)
            y == r.valid /\ ok
            z == base + c
<1>1. v.bytes \in Nat /\ v.first \in Nat /\ r.deltas \in Nat /\ r.valid \in BOOLEAN
  BY ValueTypes, RecordTypes
<1>2. c \in Nat /\ z \in Nat
  BY <1>1
<1>3. x \in Nat
  BY <1>1
<1>4. y \in BOOLEAN
  BY <1>1
<1>5. u = [total |-> z, base |-> base, counter |-> c, generation |-> v.first,
           deltas |-> x, valid |-> y]
  BY DEF Advanced
<1>6. ok => x = r.deltas + d /\ (y <=> r.valid)
  BY <1>1
<1>7. ~ok => x = r.deltas /\ y = FALSE
  BY <1>1
<1>8. ok <=> d # None /\ v.bytes >= counter
  OBVIOUS
<1>9. z = base + c /\ c = (IF v.bytes > counter THEN v.bytes ELSE counter)
  OBVIOUS
<1>. HIDE DEF c, ok, x, y, z
<1>10. /\ u \in Records /\ u.total = z /\ u.base = base /\ u.counter = c /\ u.generation = v.first
       /\ u.deltas = x /\ u.valid = y
  BY <1>1, <1>2, <1>3, <1>4, <1>5 DEF Records
<1>. QED
  BY <1>6, <1>7, <1>8, <1>9, <1>10 DEF AdvancedTo

\* What an update of r by v does to the fields the total is made of.
Shape(u, r, v) ==
    /\ Good(u)
    /\ r = None => /\ u.total = v.bytes /\ u.base = 0 /\ u.counter = v.bytes
                   /\ u.generation = v.first
    /\ r # None /\ v.first < r.generation =>
          /\ u.total = r.total /\ u.base = r.base /\ u.counter = r.counter
          /\ u.generation = r.generation
    /\ r # None /\ v.first = r.generation =>
          /\ u.base = r.base /\ u.generation = v.first
          /\ u.counter = IF v.bytes > r.counter THEN v.bytes ELSE r.counter
    /\ r # None /\ v.first > r.generation =>
          /\ u.base = r.total /\ u.counter = v.bytes /\ u.generation = v.first

GoodOr(r) == r = None \/ Good(r)
ValueOr(v) == v = None \/ (v \in Values /\ v.first >= 1)

\* Every update has this shape, whatever the increment shown for it.
LEMMA UpdateShape ==
    ASSUME NEW r, GoodOr(r), NEW v \in Values, v.first >= 1, NEW d \in Nat \cup {None}
    PROVE  Shape(Updated(r, v, d), r, v)
<1>. DEFINE u == Updated(r, v, d)
<1>1. v.first \in Nat /\ v.bytes \in Nat
  BY ValueTypes
<1>2. CASE r = None
  <2>1. /\ u \in Records /\ u.total = v.bytes /\ u.base = 0 /\ u.counter = v.bytes
        /\ u.generation = v.first
    BY <1>2, UpdateNone
  <2>. HIDE DEF u
  <2>2. Good(u)
    BY <1>1, <2>1 DEF Good
  <2>3. Shape(u, r, v)
    BY <1>2, <2>1, <2>2 DEF Shape
  <2>. QED
    BY <2>3 DEF u
<1>3. CASE r # None
  <2>1. Good(r) /\ r \in Records
    BY <1>3 DEF GoodOr, Good
  <2>2. r.generation \in Nat /\ r.base \in Nat /\ r.counter \in Nat /\ r.total \in Nat
    BY <2>1, RecordTypes
  <2>3. CASE v.first < r.generation
    <3>0. u = Updated(r, v, d)
      OBVIOUS
    <3>. HIDE DEF u
    <3>1. /\ u \in Records /\ u.total = r.total /\ u.base = r.base /\ u.counter = r.counter
          /\ u.generation = r.generation
      <4>1. Marked(u, r)
        BY <2>1, <2>3, <3>0, UpdateOlder
      <4>. QED
        BY <4>1 DEF Marked
    <3>2. Good(u)
      BY <2>1, <3>1 DEF Good
    <3>3. Shape(u, r, v)
      BY <1>1, <1>3, <2>2, <2>3, <3>1, <3>2 DEF Shape
    <3>. QED
      BY <3>3 DEF u
  <2>4. CASE v.first = r.generation
    <3>1. u = Advanced(r.base, r.counter, r, v, d)
      BY <2>1, <2>4, UpdateSame
    <3>. HIDE DEF u
    <3>2. /\ u \in Records /\ u.base = r.base /\ u.generation = v.first
          /\ u.counter = (IF v.bytes > r.counter THEN v.bytes ELSE r.counter)
          /\ u.total = r.base + u.counter
      <4>1. AdvancedTo(u, r.base, r.counter, r, v, d)
        BY <2>1, <2>2, <3>1, AdvancedFields
      <4>. QED
        BY <4>1 DEF AdvancedTo
    <3>3. Good(u)
      BY <3>2 DEF Good
    <3>4. Shape(u, r, v)
      BY <1>1, <1>3, <2>2, <2>4, <3>2, <3>3 DEF Shape
    <3>. QED
      BY <3>4 DEF u
  <2>5. CASE v.first > r.generation
    <3>1. u = Advanced(r.total, 0, r, v, d)
      BY <2>1, <2>5, UpdateLater
    <3>. HIDE DEF u
    <3>2. /\ u \in Records /\ u.base = r.total /\ u.generation = v.first
          /\ u.counter = (IF v.bytes > 0 THEN v.bytes ELSE 0)
          /\ u.total = r.total + u.counter
      <4>1. AdvancedTo(u, r.total, 0, r, v, d)
        BY <2>1, <2>2, <3>1, AdvancedFields
      <4>. QED
        BY <4>1 DEF AdvancedTo
    <3>3. u.counter = v.bytes
      BY <1>1, <3>2
    <3>4. Good(u)
      BY <3>2 DEF Good
    <3>5. Shape(u, r, v)
      BY <1>1, <1>3, <2>2, <2>5, <3>2, <3>3, <3>4 DEF Shape
    <3>. QED
      BY <3>5 DEF u
  <2>. QED
    BY <1>1, <2>2, <2>3, <2>4, <2>5
<1>. QED
  BY <1>2, <1>3

-----------------------------------------------------------------------------
(* What a record can come to.                                                *)

Apply(r, v) == IF v = None THEN r ELSE Updated(r, v, None)
TotalOf(r) == IF r = None THEN 0 ELSE r.total

\* The fields of a record that is good.
LEMMA GoodTypes ==
    ASSUME NEW r, Good(r)
    PROVE  /\ r.total \in Nat /\ r.base \in Nat /\ r.counter \in Nat /\ r.generation \in Nat
           /\ r.total = r.base + r.counter /\ r.generation >= 1 /\ r # None /\ TotalOf(r) = r.total
BY RecordTypes DEF Good, TotalOf

\* An update leaves a good record, and its total never falls.
LEMMA TotalGrows ==
    ASSUME NEW r, GoodOr(r), NEW v, ValueOr(v)
    PROVE  /\ GoodOr(Apply(r, v)) /\ TotalOf(r) \in Nat /\ TotalOf(Apply(r, v)) \in Nat
           /\ TotalOf(r) <= TotalOf(Apply(r, v))
<1>1. TotalOf(r) \in Nat
  BY GoodTypes DEF GoodOr, TotalOf
<1>2. CASE v = None
  BY <1>1, <1>2 DEF Apply
<1>3. CASE v # None
  <2>. DEFINE u == Updated(r, v, None)
  <2>1. v \in Values /\ v.first >= 1 /\ v.first \in Nat /\ v.bytes \in Nat
    BY <1>3, ValueTypes DEF ValueOr
  <2>2. Shape(u, r, v)
    BY <2>1, UpdateShape
  <2>3. Apply(r, v) = u
    BY <1>3 DEF Apply
  <2>. HIDE DEF u
  <2>4. Good(u)
    BY <2>2 DEF Shape
  <2>5. u.total \in Nat /\ TotalOf(u) = u.total /\ u.total = u.base + u.counter
    BY <2>4, GoodTypes
  <2>6. CASE r = None
    BY <2>3, <2>4, <2>5, <2>6 DEF GoodOr, TotalOf
  <2>7. CASE r # None
    <3>1. /\ r.total \in Nat /\ r.base \in Nat /\ r.counter \in Nat /\ r.generation \in Nat
          /\ r.total = r.base + r.counter /\ TotalOf(r) = r.total
      BY <2>7, GoodTypes DEF GoodOr
    <3>2. u.total >= r.total
      BY <2>1, <2>2, <2>5, <2>7, <3>1 DEF Shape
    <3>. QED
      BY <2>3, <2>4, <2>5, <3>1, <3>2 DEF GoodOr
  <2>. QED
    BY <2>6, <2>7
<1>. QED
  BY <1>2, <1>3

\* The total after an update, as a number.
LEMMA TotalIs ==
    ASSUME NEW r, GoodOr(r), NEW v \in Values, v.first >= 1
    PROVE  /\ r = None => TotalOf(Apply(r, v)) = v.bytes
           /\ r # None /\ v.first < r.generation => TotalOf(Apply(r, v)) = r.total
           /\ r # None /\ v.first = r.generation =>
                 TotalOf(Apply(r, v)) = r.base + (IF v.bytes > r.counter THEN v.bytes ELSE r.counter)
           /\ r # None /\ v.first > r.generation => TotalOf(Apply(r, v)) = r.total + v.bytes
<1>. DEFINE u == Updated(r, v, None)
<1>1. v # None
  BY ValueTypes
<1>2. Apply(r, v) = u
  BY <1>1 DEF Apply
<1>3. Shape(u, r, v)
  BY UpdateShape
<1>. HIDE DEF u
<1>4. TotalOf(u) = u.total /\ u.total = u.base + u.counter
  BY <1>3, GoodTypes DEF Shape
<1>. QED
  BY <1>2, <1>3, <1>4 DEF Shape

\* A value without bytes adds nothing.
LEMMA TotalFresh ==
    ASSUME NEW r, GoodOr(r), NEW v \in Values, v.first >= 1, v.bytes = 0
    PROVE  TotalOf(Apply(r, v)) = TotalOf(r)
<1>. DEFINE x == TotalOf(Apply(r, v))
<1>1. v.first \in Nat
  BY ValueTypes
<1>2. CASE r = None
  BY <1>2, TotalIs DEF TotalOf
<1>3. CASE r # None
  <2>1. /\ r.total \in Nat /\ r.base \in Nat /\ r.counter \in Nat /\ r.generation \in Nat
        /\ r.total = r.base + r.counter /\ TotalOf(r) = r.total
    BY <1>3, GoodTypes DEF GoodOr
  <2>2. /\ v.first < r.generation => x = r.total
        /\ v.first = r.generation => x = r.base + (IF 0 > r.counter THEN 0 ELSE r.counter)
        /\ v.first > r.generation => x = r.total + 0
    BY <1>3, TotalIs
  <2>. HIDE DEF x
  <2>3. x = r.total
    BY <1>1, <2>1, <2>2
  <2>. QED
    BY <2>1, <2>3 DEF x
<1>. QED
  BY <1>2, <1>3

\* n more bytes of a value add at most n to the total.
LEMMA TotalAdd ==
    ASSUME NEW r, GoodOr(r), NEW v \in Values, v.first >= 1, NEW n \in Nat, NEW at \in Nat
    PROVE  /\ Added(v, n, at) \in Values /\ Added(v, n, at).first = v.first
           /\ TotalOf(Apply(r, Added(v, n, at))) <= TotalOf(Apply(r, v)) + n
<1>. DEFINE w == Added(v, n, at)
            x == TotalOf(Apply(r, v))
            y == TotalOf(Apply(r, w))
<1>1. v.first \in Nat /\ v.bytes \in Nat
  BY ValueTypes
<1>2. w \in Values /\ w.first = v.first /\ w.bytes = v.bytes + n
  BY <1>1 DEF Added, Values
<1>3. CASE r = None
  <2>1. x = v.bytes /\ y = w.bytes
    BY <1>2, <1>3, TotalIs
  <2>. QED
    BY <1>1, <1>2, <2>1
<1>4. CASE r # None
  <2>1. /\ r.total \in Nat /\ r.base \in Nat /\ r.counter \in Nat /\ r.generation \in Nat
        /\ r.total = r.base + r.counter
    BY <1>4, GoodTypes DEF GoodOr
  <2>2. /\ v.first < r.generation => x = r.total
        /\ v.first = r.generation =>
              x = r.base + (IF v.bytes > r.counter THEN v.bytes ELSE r.counter)
        /\ v.first > r.generation => x = r.total + v.bytes
    BY <1>4, TotalIs
  <2>3. /\ w.first < r.generation => y = r.total
        /\ w.first = r.generation =>
              y = r.base + (IF w.bytes > r.counter THEN w.bytes ELSE r.counter)
        /\ w.first > r.generation => y = r.total + w.bytes
    BY <1>2, <1>4, TotalIs
  <2>. HIDE DEF x, y, w
  <2>4. y <= x + n
    BY <1>1, <1>2, <2>1, <2>2, <2>3
  <2>. QED
    BY <1>2, <2>4 DEF x, y, w
<1>. QED
  BY <1>3, <1>4

\* Applying a value again changes nothing more.
LEMMA TotalTwice ==
    ASSUME NEW r, GoodOr(r), NEW v \in Values, v.first >= 1, NEW u, Shape(u, r, v)
    PROVE  TotalOf(Apply(u, v)) = TotalOf(u)
<1>. DEFINE x == TotalOf(Apply(u, v))
<1>1. v.first \in Nat /\ v.bytes \in Nat
  BY ValueTypes
<1>2. Good(u) /\ GoodOr(u)
  BY DEF Shape, GoodOr
<1>3. /\ u.total \in Nat /\ u.base \in Nat /\ u.counter \in Nat /\ u.generation \in Nat
      /\ u.total = u.base + u.counter /\ u # None /\ TotalOf(u) = u.total
  BY <1>2, GoodTypes
<1>4. /\ v.first < u.generation => x = u.total
      /\ v.first = u.generation =>
            x = u.base + (IF v.bytes > u.counter THEN v.bytes ELSE u.counter)
      /\ v.first > u.generation => x = u.total + v.bytes
  BY <1>2, <1>3, TotalIs
<1>. HIDE DEF x
<1>5. x = u.total
  <2>1. CASE r = None
    BY <1>1, <1>3, <1>4, <2>1 DEF Shape
  <2>2. CASE r # None
    <3>1. r.generation \in Nat /\ r.counter \in Nat
      BY <2>2, GoodTypes DEF GoodOr
    <3>. QED
      BY <1>1, <1>3, <1>4, <2>2, <3>1 DEF Shape
  <2>. QED
    BY <2>1, <2>2
<1>. QED
  BY <1>3, <1>5 DEF x

\* Two updates of the same record by the same value leave the same to come.
LEMMA TotalSame ==
    ASSUME NEW r, GoodOr(r), NEW v \in Values, v.first >= 1, NEW u, Shape(u, r, v),
           NEW w, Shape(w, r, v), NEW x, ValueOr(x)
    PROVE  TotalOf(Apply(u, x)) = TotalOf(Apply(w, x))
<1>1. v.first \in Nat /\ v.bytes \in Nat
  BY ValueTypes
<1>2. Good(u) /\ GoodOr(u) /\ Good(w) /\ GoodOr(w)
  BY DEF Shape, GoodOr
<1>3. /\ u.total \in Nat /\ u.base \in Nat /\ u.counter \in Nat /\ u.generation \in Nat
      /\ u.total = u.base + u.counter /\ u # None /\ TotalOf(u) = u.total
  BY <1>2, GoodTypes
<1>4. /\ w.total \in Nat /\ w.base \in Nat /\ w.counter \in Nat /\ w.generation \in Nat
      /\ w.total = w.base + w.counter /\ w # None /\ TotalOf(w) = w.total
  BY <1>2, GoodTypes
<1>5. /\ u.total = w.total /\ u.base = w.base /\ u.counter = w.counter
      /\ u.generation = w.generation
  <2>1. CASE r = None
    BY <2>1 DEF Shape
  <2>2. CASE r # None
    <3>1. r.generation \in Nat
      BY <2>2, GoodTypes DEF GoodOr
    <3>. QED
      BY <1>1, <1>3, <1>4, <2>2, <3>1 DEF Shape
  <2>. QED
    BY <2>1, <2>2
<1>6. CASE x = None
  BY <1>3, <1>4, <1>5, <1>6 DEF Apply
<1>7. CASE x # None
  <2>1. x \in Values /\ x.first >= 1 /\ x.first \in Nat
    BY <1>7, ValueTypes DEF ValueOr
  <2>. DEFINE y == TotalOf(Apply(u, x))
              z == TotalOf(Apply(w, x))
  <2>2. /\ x.first < u.generation => y = u.total
        /\ x.first = u.generation =>
              y = u.base + (IF x.bytes > u.counter THEN x.bytes ELSE u.counter)
        /\ x.first > u.generation => y = u.total + x.bytes
    BY <1>2, <1>3, <2>1, TotalIs
  <2>3. /\ x.first < w.generation => z = w.total
        /\ x.first = w.generation =>
              z = w.base + (IF x.bytes > w.counter THEN x.bytes ELSE w.counter)
        /\ x.first > w.generation => z = w.total + x.bytes
    BY <1>2, <1>4, <2>1, TotalIs
  <2>. HIDE DEF y, z
  <2>4. y = z
    BY <1>3, <1>5, <2>1, <2>2, <2>3
  <2>. QED
    BY <2>4 DEF y, z
<1>. QED
  BY <1>6, <1>7

\* The most a record comes to when the row of the walk and the element are
\* both applied, or the element only.
Larger(a, b) == IF a >= b THEN a ELSE b
Reach(r, row, v) == Larger(TotalOf(Apply(r, v)), TotalOf(Apply(Apply(r, row), v)))

\* What a record can come to is a number, no less than its total.
LEMMA ReachType ==
    ASSUME NEW r, GoodOr(r), NEW row, ValueOr(row), NEW v, ValueOr(v)
    PROVE  Reach(r, row, v) \in Nat /\ TotalOf(r) <= Reach(r, row, v)
<1>1. GoodOr(Apply(r, row))
  BY TotalGrows
<1>2. /\ TotalOf(Apply(r, v)) \in Nat /\ TotalOf(Apply(Apply(r, row), v)) \in Nat
      /\ TotalOf(r) <= TotalOf(Apply(r, v)) /\ TotalOf(r) \in Nat
  BY <1>1, TotalGrows
<1>. QED
  BY <1>2 DEF Reach, Larger

\* The element goes.
LEMMA ReachDrop ==
    ASSUME NEW r, GoodOr(r), NEW row, ValueOr(row), NEW v, ValueOr(v)
    PROVE  Reach(r, row, None) <= Reach(r, row, v)
<1>. DEFINE q == Apply(r, row)
<1>1. GoodOr(q)
  BY TotalGrows
<1>2. Apply(r, None) = r /\ Apply(q, None) = q
  BY DEF Apply
<1>. HIDE DEF q
<1>3. /\ TotalOf(Apply(r, v)) \in Nat /\ TotalOf(r) <= TotalOf(Apply(r, v)) /\ TotalOf(r) \in Nat
  BY TotalGrows
<1>4. TotalOf(Apply(q, v)) \in Nat /\ TotalOf(q) <= TotalOf(Apply(q, v)) /\ TotalOf(q) \in Nat
  BY <1>1, TotalGrows
<1>5. /\ Reach(r, row, None) = Larger(TotalOf(r), TotalOf(q))
      /\ Reach(r, row, v) = Larger(TotalOf(Apply(r, v)), TotalOf(Apply(q, v)))
  BY <1>2 DEF Reach, q
<1>. QED
  BY <1>3, <1>4, <1>5 DEF Larger

\* A new element without bytes.
LEMMA ReachInsert ==
    ASSUME NEW r, GoodOr(r), NEW row, ValueOr(row), NEW v \in Values, v.first >= 1, v.bytes = 0
    PROVE  Reach(r, row, v) = Reach(r, row, None)
<1>. DEFINE q == Apply(r, row)
<1>1. GoodOr(q)
  BY TotalGrows
<1>2. Apply(r, None) = r /\ Apply(q, None) = q
  BY DEF Apply
<1>. HIDE DEF q
<1>3. TotalOf(Apply(r, v)) = TotalOf(r)
  BY TotalFresh
<1>4. TotalOf(Apply(q, v)) = TotalOf(q)
  BY <1>1, TotalFresh
<1>5. /\ Reach(r, row, None) = Larger(TotalOf(r), TotalOf(q))
      /\ Reach(r, row, v) = Larger(TotalOf(Apply(r, v)), TotalOf(Apply(q, v)))
  BY <1>2 DEF Reach, q
<1>. QED
  BY <1>3, <1>4, <1>5

\* n bytes are added to the element.
LEMMA ReachAdd ==
    ASSUME NEW r, GoodOr(r), NEW row, ValueOr(row), NEW v \in Values, v.first >= 1,
           NEW n \in Nat, NEW at \in Nat
    PROVE  Reach(r, row, Added(v, n, at)) <= Reach(r, row, v) + n
<1>. DEFINE q == Apply(r, row)
            w == Added(v, n, at)
<1>1. GoodOr(q)
  BY TotalGrows
<1>2. w \in Values /\ w.first = v.first
  BY TotalAdd
<1>3. TotalOf(Apply(r, w)) <= TotalOf(Apply(r, v)) + n
  BY TotalAdd
<1>. HIDE DEF q
<1>4. TotalOf(Apply(q, w)) <= TotalOf(Apply(q, v)) + n
  BY <1>1, TotalAdd
<1>. HIDE DEF w
<1>5. /\ Reach(r, row, w) = Larger(TotalOf(Apply(r, w)), TotalOf(Apply(q, w)))
      /\ Reach(r, row, v) = Larger(TotalOf(Apply(r, v)), TotalOf(Apply(q, v)))
  BY DEF Reach, q
<1>6. ValueOr(v) /\ ValueOr(w)
  BY <1>2 DEF ValueOr
<1>7. /\ TotalOf(Apply(r, w)) \in Nat /\ TotalOf(Apply(r, v)) \in Nat
      /\ TotalOf(Apply(q, w)) \in Nat /\ TotalOf(Apply(q, v)) \in Nat
  BY <1>1, <1>6, TotalGrows
<1>8. Reach(r, row, w) <= Reach(r, row, v) + n
  BY <1>3, <1>4, <1>5, <1>7 DEF Larger
<1>. QED
  BY <1>8 DEF w

\* The walk reads the element.
LEMMA ReachSee ==
    ASSUME NEW r, GoodOr(r), NEW row, ValueOr(row), NEW v \in Values, v.first >= 1
    PROVE  Reach(r, v, v) <= Reach(r, row, v)
<1>. DEFINE u == Updated(r, v, None)
<1>1. v # None
  BY ValueTypes
<1>2. Apply(r, v) = u
  BY <1>1 DEF Apply
<1>3. Shape(u, r, v)
  BY UpdateShape
<1>. HIDE DEF u
<1>4. TotalOf(Apply(u, v)) = TotalOf(u)
  BY <1>3, TotalTwice
<1>5. Reach(r, v, v) = TotalOf(u)
  BY <1>2, <1>4 DEF Reach, Larger
<1>6. GoodOr(Apply(r, row)) /\ ValueOr(v)
  BY TotalGrows DEF ValueOr
<1>7. TotalOf(u) \in Nat /\ TotalOf(Apply(Apply(r, row), v)) \in Nat
  BY <1>2, <1>6, TotalGrows
<1>8. Reach(r, row, v) = Larger(TotalOf(u), TotalOf(Apply(Apply(r, row), v)))
  BY <1>2 DEF Reach
<1>. QED
  BY <1>5, <1>7, <1>8 DEF Larger

\* The sample ends without the row.
LEMMA ReachSkip ==
    ASSUME NEW r, GoodOr(r), NEW row, ValueOr(row), NEW v, ValueOr(v)
    PROVE  Reach(r, None, v) <= Reach(r, row, v)
<1>1. Apply(r, None) = r /\ GoodOr(Apply(r, row))
  BY TotalGrows DEF Apply
<1>2. TotalOf(Apply(r, v)) \in Nat /\ TotalOf(Apply(Apply(r, row), v)) \in Nat
  BY <1>1, TotalGrows
<1>3. Reach(r, None, v) = TotalOf(Apply(r, v))
  BY <1>1 DEF Reach, Larger
<1>4. Reach(r, row, v) = Larger(TotalOf(Apply(r, v)), TotalOf(Apply(Apply(r, row), v)))
  BY DEF Reach
<1>. QED
  BY <1>2, <1>3, <1>4 DEF Larger

\* The sample ends with the row in the record.
LEMMA ReachKeep ==
    ASSUME NEW r, GoodOr(r), NEW row \in Values, row.first >= 1, NEW v, ValueOr(v),
           NEW d \in Nat \cup {None}
    PROVE  Reach(Updated(r, row, d), None, v) <= Reach(r, row, v)
<1>. DEFINE u == Updated(r, row, d)
            w == Updated(r, row, None)
<1>1. row # None /\ Apply(r, row) = w
  BY ValueTypes DEF Apply
<1>2. Shape(u, r, row) /\ Shape(w, r, row)
  BY UpdateShape
<1>. HIDE DEF u, w
<1>3. TotalOf(Apply(u, v)) = TotalOf(Apply(w, v))
  BY <1>2, TotalSame
<1>4. GoodOr(w)
  BY <1>2 DEF Shape, GoodOr
<1>5. TotalOf(Apply(r, v)) \in Nat /\ TotalOf(Apply(w, v)) \in Nat
  BY <1>4, TotalGrows
<1>6. Apply(u, None) = u
  BY DEF Apply
<1>7. Reach(u, None, v) = TotalOf(Apply(w, v))
  BY <1>3, <1>6 DEF Reach, Larger
<1>8. Reach(r, row, v) = Larger(TotalOf(Apply(r, v)), TotalOf(Apply(w, v)))
  BY <1>1 DEF Reach
<1>9. Reach(u, None, v) <= Reach(r, row, v)
  BY <1>5, <1>7, <1>8 DEF Larger
<1>. QED
  BY <1>9 DEF u

-----------------------------------------------------------------------------
(* One flow: el is its element, row what the walk saw, prev what the last    *)
(* sample saw, rec its record.                                               *)

\* v was made before n; a counter that was never added to is 0.
Past(n, v) ==
    v \in Values /\ v.first >= 1 /\ v.first < n /\ (v.last = 0 => v.bytes = 0)

\* v is a later generation, or has no fewer bytes.
NoLess(first, bytes, v) == first < v.first \/ (first = v.first /\ bytes <= v.bytes)

SeenAfter(prev, rec, v) ==
    /\ prev # None => NoLess(prev.first, prev.bytes, v)
    /\ rec # None => NoLess(rec.generation, rec.counter, v)

KeyOK(n, el, row, prev, rec) ==
    /\ el # None => Past(n, el) /\ SeenAfter(prev, rec, el)
    /\ row # None => Past(n, row) /\ SeenAfter(prev, rec, row)
    /\ el # None /\ row # None => NoLess(row.first, row.bytes, el)
    /\ prev # None => Past(n, prev)
    /\ rec # None => Good(rec) /\ Sound(rec) /\ rec.generation < n

\* All that was seen of the flow is older than at.
OlderThan(at, el, row, prev, rec) ==
    /\ el # None => el.first < at
    /\ row # None => row.first < at
    /\ prev # None => prev.first < at
    /\ rec # None => rec.generation < at

\* The record of a flow agrees with what the sample at the time rep saw of it.
Sampled(rep, prev, rec) ==
    /\ prev = None => rec.generation < rep
    /\ prev # None =>
          /\ prev.first >= rec.generation
          /\ prev.first > rec.generation => prev.bytes = 0
          /\ prev.first = rec.generation => prev.bytes = rec.counter

\* The fields of a value of the past.
LEMMA PastTypes ==
    ASSUME NEW n, NEW v, Past(n, v)
    PROVE  /\ v \in Values /\ v.first \in Nat /\ v.last \in Nat /\ v.bytes \in Nat
           /\ v # None /\ v.first >= 1 /\ ValueOr(v)
BY ValueTypes DEF Past, ValueOr

\* The types of what is known of a flow.
LEMMA KeyTypes ==
    ASSUME NEW n, NEW el, NEW row, NEW prev, NEW rec, KeyOK(n, el, row, prev, rec)
    PROVE  ValueOr(el) /\ ValueOr(row) /\ ValueOr(prev) /\ GoodOr(rec)
BY DEF KeyOK, Past, ValueOr, GoodOr

\* The clock goes on.
LEMMA KeyLater ==
    ASSUME NEW n \in Nat, NEW m \in Nat, n <= m, NEW el, NEW row, NEW prev, NEW rec,
           KeyOK(n, el, row, prev, rec)
    PROVE  KeyOK(m, el, row, prev, rec)
<1>1. ASSUME NEW v, Past(n, v) PROVE Past(m, v)
  <2>1. v.first \in Nat
    BY <1>1, PastTypes
  <2>. QED
    BY <1>1, <2>1 DEF Past
<1>2. rec # None => rec.generation < m
  <2>1. SUFFICES ASSUME rec # None PROVE rec.generation < m
    OBVIOUS
  <2>2. rec.generation \in Nat /\ rec.generation < n
    BY <2>1, GoodTypes DEF KeyOK
  <2>. QED
    BY <2>2
<1>. QED
  BY <1>1, <1>2 DEF KeyOK

\* The element goes.
LEMMA KeyDrop ==
    ASSUME NEW n, NEW el, NEW row, NEW prev, NEW rec, KeyOK(n, el, row, prev, rec)
    PROVE  KeyOK(n, None, row, prev, rec)
BY DEF KeyOK

\* A new element, younger than all that was seen.
LEMMA KeyInsert ==
    ASSUME NEW n \in Nat, NEW row, NEW prev, NEW rec, KeyOK(n, None, row, prev, rec),
           NEW at \in Nat, at >= 1, at < n, OlderThan(at, None, row, prev, rec),
           NEW v, v = [first |-> at, last |-> 0, bytes |-> 0]
    PROVE  KeyOK(n, v, row, prev, rec)
<1>1. v.first = at /\ v.last = 0 /\ v.bytes = 0 /\ v \in Values
  BY DEF Values
<1>2. Past(n, v)
  BY <1>1 DEF Past
<1>3. SeenAfter(prev, rec, v)
  BY <1>1 DEF OlderThan, SeenAfter, NoLess
<1>4. row # None => NoLess(row.first, row.bytes, v)
  BY <1>1 DEF OlderThan, NoLess
<1>. QED
  BY <1>2, <1>3, <1>4 DEF KeyOK

\* Bytes are added to the element.
LEMMA KeyAdd ==
    ASSUME NEW n \in Nat, NEW el \in Values, NEW row, NEW prev, NEW rec,
           KeyOK(n, el, row, prev, rec), NEW m \in Nat, NEW at \in Nat, at >= 1
    PROVE  KeyOK(n, Added(el, m, at), row, prev, rec)
<1>. DEFINE w == Added(el, m, at)
<1>1. el # None /\ el.first \in Nat /\ el.bytes \in Nat
  BY ValueTypes
<1>2. w \in Values /\ w.first = el.first /\ w.bytes = el.bytes + m /\ w.last = at
  BY <1>1 DEF Added, Values
<1>. HIDE DEF w
<1>3. Past(n, w)
  BY <1>1, <1>2 DEF Past, KeyOK
<1>4. ASSUME NEW f, NEW b \in Nat, NoLess(f, b, el) PROVE NoLess(f, b, w)
  BY <1>1, <1>2, <1>4 DEF NoLess
<1>5. /\ prev # None => prev.bytes \in Nat
      /\ row # None => row.bytes \in Nat
      /\ rec # None => rec.counter \in Nat
  BY PastTypes, GoodTypes DEF KeyOK
<1>6. SeenAfter(prev, rec, w)
  BY <1>1, <1>4, <1>5 DEF SeenAfter, KeyOK
<1>7. row # None => NoLess(row.first, row.bytes, w)
  BY <1>1, <1>4, <1>5 DEF KeyOK
<1>8. KeyOK(n, w, row, prev, rec)
  BY <1>3, <1>6, <1>7 DEF KeyOK
<1>. QED
  BY <1>8 DEF w

\* The walk reads the element.
LEMMA KeySee ==
    ASSUME NEW n \in Nat, NEW el \in Values, NEW row, NEW prev, NEW rec,
           KeyOK(n, el, row, prev, rec)
    PROVE  /\ KeyOK(n, el, Newer(row, el), prev, rec)
           /\ Newer(row, el) \in {row, el} /\ Newer(row, el) # None
<1>1. el # None /\ el.first \in Nat /\ el.bytes \in Nat
  BY ValueTypes
<1>2. Newer(row, el) \in {row, el} /\ Newer(row, el) # None
  BY <1>1 DEF Newer
<1>3. NoLess(el.first, el.bytes, el)
  BY <1>1 DEF NoLess
<1>4. KeyOK(n, el, el, prev, rec)
  BY <1>1, <1>3 DEF KeyOK
<1>. QED
  BY <1>2, <1>4

\* The sample ends: its row is the previous one now.
LEMMA KeyMove ==
    ASSUME NEW n, NEW el, NEW row, NEW prev, NEW rec, KeyOK(n, el, row, prev, rec)
    PROVE  KeyOK(n, el, None, row, rec)
BY DEF KeyOK, SeenAfter

\* A new walk has no rows.
LEMMA KeyForget ==
    ASSUME NEW n, NEW el, NEW row, NEW prev, NEW rec, KeyOK(n, el, row, prev, rec)
    PROVE  KeyOK(n, el, None, prev, rec)
BY DEF KeyOK

\* The sample ends without a row worth showing.
LEMMA SampledSkip ==
    ASSUME NEW n, NEW el, NEW row, NEW prev, NEW rec, KeyOK(n, el, row, prev, rec),
           rec # None, row = None \/ row.last = 0, NEW time, rec.generation < time
    PROVE  Sampled(time, row, rec)
<1>1. CASE row = None
  BY <1>1 DEF Sampled
<1>2. CASE row # None
  <2>1. Past(n, row) /\ NoLess(rec.generation, rec.counter, row) /\ Good(rec)
    BY <1>2 DEF KeyOK, SeenAfter
  <2>2. row.first \in Nat /\ row.bytes \in Nat /\ rec.generation \in Nat /\ rec.counter \in Nat
    BY <2>1, PastTypes, GoodTypes
  <2>3. row.bytes = 0
    BY <1>2, <2>1 DEF Past
  <2>. QED
    BY <1>2, <2>1, <2>2, <2>3 DEF Sampled, NoLess
<1>. QED
  BY <1>1, <1>2

\* What traffic_sample_deltas returns.
LEMMA DeltaIs ==
    ASSUME NEW v \in Values, NEW prev \in Values \cup {None}
    PROVE  /\ Delta(v, prev) \in Nat \cup {None}
           /\ prev # None /\ v.first = prev.first /\ Delta(v, prev) # None =>
                 Delta(v, prev) = v.bytes - prev.bytes
           /\ ~(prev # None /\ v.first = prev.first) /\ Delta(v, prev) # None =>
                 Delta(v, prev) = v.bytes /\ v.first >= report
<1>1. v.bytes \in Nat /\ (prev # None => prev.bytes \in Nat)
  BY ValueTypes
<1>. QED
  BY <1>1 DEF Delta

\* u is the record of a flow whose last sample was row.
RecordOf(u, row) ==
    Good(u) /\ Sound(u) /\ u.generation = row.first /\ u.counter = row.bytes

\* The heart of the increments: what a sample adds to them is what it adds to
\* the total, unless it is marked as a gap.
LEMMA UpdateSound ==
    ASSUME NEW n, NEW el, NEW row \in Values, NEW prev, NEW rec, KeyOK(n, el, row, prev, rec),
           rec # None => Sampled(report, prev, rec),
           rec = None /\ prev # None => prev.bytes = 0, report \in Nat
    PROVE  RecordOf(Updated(rec, row, Delta(row, prev)), row)
<1>. DEFINE d == Delta(row, prev)
            u == Updated(rec, row, d)
<1>1. /\ row.first \in Nat /\ row.bytes \in Nat /\ row # None /\ row.first >= 1
      /\ (prev # None => prev \in Values) /\ (rec # None => Good(rec) /\ Sound(rec))
      /\ (prev # None => NoLess(prev.first, prev.bytes, row))
      /\ (rec # None => NoLess(rec.generation, rec.counter, row))
  BY ValueTypes DEF KeyOK, Past, SeenAfter
<1>2. prev # None => prev.first \in Nat /\ prev.bytes \in Nat
  BY <1>1, ValueTypes
<1>3. /\ d \in Nat \cup {None}
      /\ prev # None /\ row.first = prev.first /\ d # None => d = row.bytes - prev.bytes
      /\ ~(prev # None /\ row.first = prev.first) /\ d # None => d = row.bytes /\ row.first >= report
  BY <1>1, DeltaIs
<1>4. u = Updated(rec, row, d)
  OBVIOUS
<1>. HIDE DEF d, u
<1>5. CASE rec = None
  <2>1. /\ u \in Records /\ u.total = row.bytes /\ u.base = 0 /\ u.counter = row.bytes
        /\ u.generation = row.first /\ u.deltas = DeltaOr0(d) /\ (u.valid <=> d # None)
    BY <1>3, <1>4, <1>5, UpdateNone
  <2>2. d # None => d = row.bytes
    BY <1>1, <1>2, <1>3, <1>5
  <2>3. Good(u)
    BY <1>1, <2>1 DEF Good
  <2>4. Sound(u)
    BY <1>1, <2>1, <2>2 DEF Sound, DeltaOr0
  <2>. QED
    BY <2>1, <2>3, <2>4 DEF RecordOf, u, d
<1>6. CASE rec # None
  <2>1. rec \in Records /\ Good(rec) /\ Sound(rec) /\ Sampled(report, prev, rec)
    BY <1>1, <1>6 DEF Good
  <2>2. /\ rec.total \in Nat /\ rec.base \in Nat /\ rec.counter \in Nat /\ rec.generation \in Nat
        /\ rec.total = rec.base + rec.counter /\ rec.deltas \in Nat
    BY <2>1, GoodTypes, RecordTypes
  <2>3. rec.generation < row.first \/ (rec.generation = row.first /\ rec.counter <= row.bytes)
    BY <1>1, <1>6 DEF NoLess
  <2>4. prev # None => prev.first < row.first \/ (prev.first = row.first /\ prev.bytes <= row.bytes)
    BY <1>1 DEF NoLess
  <2>5. CASE rec.generation = row.first
    <3>1. u = Advanced(rec.base, rec.counter, rec, row, d)
      BY <1>4, <2>1, <2>5, UpdateSame
    <3>2. AdvancedTo(u, rec.base, rec.counter, rec, row, d)
      BY <1>3, <2>1, <2>2, <3>1, AdvancedFields
    <3>3. row.bytes >= rec.counter
      BY <1>1, <2>2, <2>3, <2>5
    <3>4. /\ u \in Records /\ u.generation = row.first /\ u.base = rec.base
          /\ u.total = rec.base + u.counter
          /\ u.counter = (IF row.bytes > rec.counter THEN row.bytes ELSE rec.counter)
      BY <3>2 DEF AdvancedTo
    <3>5. u.counter = row.bytes
      BY <1>1, <2>2, <3>3, <3>4
    <3>6. d # None => d = row.bytes - rec.counter
      <4>1. SUFFICES ASSUME d # None PROVE d = row.bytes - rec.counter
        OBVIOUS
      <4>2. prev # None
        BY <1>1, <1>3, <2>1, <2>2, <2>5, <4>1 DEF Sampled
      <4>3. prev.first = row.first
        BY <1>1, <1>2, <2>1, <2>2, <2>4, <2>5, <4>2 DEF Sampled
      <4>4. prev.bytes = rec.counter
        BY <2>1, <2>5, <4>2, <4>3 DEF Sampled
      <4>. QED
        BY <1>3, <4>1, <4>2, <4>3, <4>4
    <3>7. d # None => u.deltas = rec.deltas + d /\ (u.valid <=> rec.valid)
      BY <3>2, <3>3 DEF AdvancedTo
    <3>8. d = None => u.deltas = rec.deltas /\ u.valid = FALSE
      BY <3>2 DEF AdvancedTo
    <3>9. Good(u)
      BY <1>1, <3>4 DEF Good
    <3>10. Sound(u)
      <4>1. CASE d = None
        <5>1. u.deltas = rec.deltas /\ ~u.valid
          BY <3>8, <4>1
        <5>2. rec.deltas <= rec.total
          BY <2>1 DEF Sound
        <5>. QED
          BY <1>1, <2>2, <3>3, <3>4, <3>5, <5>1, <5>2 DEF Sound
      <4>2. CASE d # None
        <5>1. d \in Nat /\ u.deltas = rec.deltas + d /\ (u.valid <=> rec.valid)
              /\ d = row.bytes - rec.counter
          BY <1>3, <3>6, <3>7, <4>2
        <5>2. rec.deltas <= rec.total /\ (rec.valid => rec.deltas = rec.total)
          BY <2>1 DEF Sound
        <5>3. u.total = rec.base + row.bytes
          BY <3>4, <3>5
        <5>4. u.deltas <= u.total
          BY <1>1, <2>2, <5>1, <5>2, <5>3
        <5>5. rec.valid => u.deltas = u.total
          BY <1>1, <2>2, <5>1, <5>2, <5>3
        <5>. QED
          BY <5>1, <5>4, <5>5 DEF Sound
      <4>. QED
        BY <4>1, <4>2
    <3>. QED
      BY <3>4, <3>5, <3>9, <3>10 DEF RecordOf, u, d
  <2>6. CASE rec.generation < row.first
    <3>1. u = Advanced(rec.total, 0, rec, row, d)
      BY <1>1, <1>4, <2>1, <2>2, <2>6, UpdateLater
    <3>2. AdvancedTo(u, rec.total, 0, rec, row, d)
      BY <1>3, <2>1, <2>2, <3>1, AdvancedFields
    <3>3. /\ u \in Records /\ u.generation = row.first /\ u.base = rec.total
          /\ u.total = rec.total + u.counter
          /\ u.counter = (IF row.bytes > 0 THEN row.bytes ELSE 0)
      BY <3>2 DEF AdvancedTo
    <3>4. u.counter = row.bytes /\ row.bytes >= 0
      BY <1>1, <3>3
    <3>5. d # None => d = row.bytes
      <4>1. SUFFICES ASSUME d # None PROVE d = row.bytes
        OBVIOUS
      <4>2. CASE prev # None /\ row.first = prev.first
        <5>1. prev.bytes = 0
          BY <1>2, <2>1, <2>2, <2>6, <4>2 DEF Sampled
        <5>. QED
          BY <1>1, <1>3, <4>1, <4>2, <5>1
      <4>3. CASE ~(prev # None /\ row.first = prev.first)
        BY <1>3, <4>1, <4>3
      <4>. QED
        BY <4>2, <4>3
    <3>6. d # None => u.deltas = rec.deltas + d /\ (u.valid <=> rec.valid)
      BY <3>2, <3>4 DEF AdvancedTo
    <3>7. d = None => u.deltas = rec.deltas /\ u.valid = FALSE
      BY <3>2 DEF AdvancedTo
    <3>8. Good(u)
      BY <1>1, <3>3 DEF Good
    <3>9. Sound(u)
      <4>1. CASE d = None
        <5>1. u.deltas = rec.deltas /\ ~u.valid
          BY <3>7, <4>1
        <5>2. rec.deltas <= rec.total
          BY <2>1 DEF Sound
        <5>. QED
          BY <1>1, <2>2, <3>3, <3>4, <5>1, <5>2 DEF Sound
      <4>2. CASE d # None
        <5>1. d \in Nat /\ u.deltas = rec.deltas + d /\ (u.valid <=> rec.valid) /\ d = row.bytes
          BY <1>3, <3>5, <3>6, <4>2
        <5>2. rec.deltas <= rec.total /\ (rec.valid => rec.deltas = rec.total)
          BY <2>1 DEF Sound
        <5>3. u.total = rec.total + row.bytes
          BY <3>3, <3>4
        <5>4. u.deltas <= u.total
          BY <1>1, <2>2, <5>1, <5>2, <5>3
        <5>5. rec.valid => u.deltas = u.total
          BY <1>1, <2>2, <5>1, <5>2, <5>3
        <5>. QED
          BY <5>1, <5>4, <5>5 DEF Sound
      <4>. QED
        BY <4>1, <4>2
    <3>. QED
      BY <3>3, <3>4, <3>8, <3>9 DEF RecordOf, u, d
  <2>. QED
    BY <2>3, <2>5, <2>6
<1>. QED
  BY <1>5, <1>6

\* The sample ends with the row in the record.
LEMMA KeySample ==
    ASSUME NEW n, NEW el, NEW row \in Values, NEW prev, NEW rec, KeyOK(n, el, row, prev, rec),
           NEW u, RecordOf(u, row), NEW time
    PROVE  KeyOK(n, el, None, row, u) /\ Sampled(time, row, u)
<1>1. row # None /\ row.first \in Nat /\ row.bytes \in Nat
  BY ValueTypes
<1>2. el # None => SeenAfter(row, u, el)
  BY <1>1 DEF KeyOK, RecordOf, SeenAfter
<1>3. Past(n, row) /\ row.first < n /\ Good(u) /\ Sound(u) /\ u.generation = row.first
  BY <1>1 DEF KeyOK, Past, RecordOf
<1>4. KeyOK(n, el, None, row, u)
  BY <1>2, <1>3 DEF KeyOK
<1>5. Sampled(time, row, u)
  BY <1>1 DEF Sampled, RecordOf
<1>. QED
  BY <1>4, <1>5

-----------------------------------------------------------------------------
(* The inductive invariant.                                                  *)

\* The bytes a thread has yet to account: in the totals, in the process, and
\* in a flow.
OwedIn(o) == IF o = <<>> THEN 0 ELSE o[1].size
LateIn(a) == IF a # None /\ a.step = "process" THEN a.size ELSE 0
UnaddedIn(a) == IF a = None THEN 0 ELSE a.size

Owed(t) == OwedIn(owed[t])
Late(t) == LateIn(acct[t])
Unadded(t) == UnaddedIn(acct[t])

OwedBytes == SumFunctionOnSet([t \in Threads |-> Owed(t)], Threads)
LateBytes == SumFunctionOnSet([t \in Threads |-> Late(t)], Threads)
UnaddedBytes == SumFunctionOnSet([t \in Threads |-> Unadded(t)], Threads)
ProcessBytes == IF process = None THEN 0 ELSE process

\* The types; a thread owes at most one I/O, also after a mapped send.
Typed == TypeOK /\ \A t \in Threads : Len(owed[t]) <= 1

\* Every byte a call returned is counted, dropped, or owed by one thread.
InvCounted ==
    /\ totals + dropped.total + OwedBytes = moved
    /\ ProcessBytes + dropped.process + OwedBytes + LateBytes = moved

\* A thread accounts its own flows, and only it inserts them.
InvThreads ==
    \A t \in Threads :
        /\ owed[t] # <<>> => owed[t][1].key[1] = t
        /\ acct[t] # None =>
              /\ acct[t].key[1] = t
              /\ acct[t].step = "add" => acct[t].element \in Elements
              /\ acct[t].step = "newflow" =>
                    \A e \in Elements : flows[e].key # acct[t].key

InvNow ==
    /\ now >= 1
    /\ \A t \in Threads : acct[t] # None => acct[t].at >= 1 /\ acct[t].at < now

\* What the map holds of a flow, and what the walk saw of it.
Element(k) == ElementIn(flows, k)
Row(k) == IF walk = None THEN None ELSE walk.rows[k]

InvKeys == \A k \in Keys : KeyOK(now, Element(k), Row(k), previous[k], history[k])

\* A flow that its thread is about to look up or insert was only seen in older
\* generations.
InvOlder ==
    \A t \in Threads : acct[t] # None /\ acct[t].step # "add" =>
        \A k \in Keys : k[1] = t =>
            OlderThan(acct[t].at, Element(k), Row(k), previous[k], history[k])

InvSampled ==
    \A k \in Keys :
        /\ history[k] # None => Sampled(report, previous[k], history[k])
        /\ history[k] # None /\ walk # None => history[k].generation < walk.time
        /\ history[k] = None /\ previous[k] # None /\ previous[k].bytes > 0 =>
              Cardinality(Known) = HistoryCapacity

\* What is shown, and what the maps and the running probes can still add to
\* it, was accounted in the totals.
ReachOf(k) == Reach(history[k], Row(k), Element(k))
ReachBytes == SumFunctionOnSet([k \in Keys |-> ReachOf(k)], Keys)
InvReach == ReachBytes + UnaddedBytes <= totals

IInv ==
    /\ Typed /\ InvCounted /\ InvThreads /\ InvNow /\ Unique(flows)
    /\ InvKeys /\ InvOlder /\ InvSampled /\ InvReach

-----------------------------------------------------------------------------
(* Types.                                                                    *)

Ios == [key: Keys, size: Sizes]

\* There are finitely many flows.
LEMMA FiniteKeys == IsFiniteSet(Keys) /\ IsFiniteSet(Threads)
<1>1. IsFiniteSet(Threads) /\ IsFiniteSet(Endpoints)
  BY TrafficAssumption
<1>2. IsFiniteSet(Endpoints \cup {Unknown})
  BY <1>1, FS_AddElement
<1>. QED
  BY <1>1, <1>2, FS_Product DEF Keys

\* The fields of an I/O.
LEMMA IoTypes ==
    ASSUME NEW io \in Ios
    PROVE  io.key \in Keys /\ io.size \in Sizes /\ io.size \in Nat
BY TrafficAssumption DEF Ios

\* The fields of an account under way.
LEMMA AccountTypes ==
    ASSUME NEW a \in Accounts
    PROVE  /\ a.key \in Keys /\ a.size \in Sizes /\ a.size \in Nat /\ a.at \in Nat /\ a # None
           /\ a.step \in {"process", "flow", "newflow", "add"}
           /\ a.element \in Elements \cup {None}
           /\ a = [key |-> a.key, size |-> a.size, at |-> a.at,
                   element |-> a.element, step |-> a.step]
BY TrafficAssumption, NoneAssumption DEF Accounts

\* A sequence of at most one I/O.
LEMMA OneIo ==
    ASSUME NEW s \in Seq(Ios), Len(s) <= 1, s # <<>>
    PROVE  s[1] \in Ios /\ Tail(s) = <<>> /\ Head(s) = s[1]
<1>1. Len(s) \in Nat /\ Len(s) # 0
  BY EmptySeq
<1>2. Len(s) = 1
  BY <1>1
<1>3. s[1] \in Ios /\ Head(s) = s[1]
  BY <1>2
<1>4. Tail(s) \in Seq(Ios) /\ Len(Tail(s)) = 0
  BY <1>2, HeadTailProperties
<1>5. Tail(s) = <<>>
  BY <1>4, EmptySeq
<1>. QED
  BY <1>3, <1>5

\* What a thread is at, in a state with the types.
LEMMA ThreadTypes ==
    ASSUME Typed, NEW t \in Threads
    PROVE  /\ owed[t] \in Seq(Ios) /\ Len(owed[t]) <= 1
           /\ acct[t] # None => acct[t] \in Accounts
           /\ owed[t] # <<>> =>
                 owed[t][1] \in Ios /\ Tail(owed[t]) = <<>> /\ Head(owed[t]) = owed[t][1]
<1>1. /\ owed \in [Threads -> Seq(Ios)] /\ Len(owed[t]) <= 1
      /\ acct \in [Threads -> Accounts \cup {None}]
  BY DEF Typed, TypeOK, Ios
<1>2. owed[t] \in Seq(Ios) /\ (acct[t] # None => acct[t] \in Accounts)
  BY <1>1
<1>3. ASSUME owed[t] # <<>>
      PROVE  owed[t][1] \in Ios /\ Tail(owed[t]) = <<>> /\ Head(owed[t]) = owed[t][1]
  BY <1>1, <1>2, <1>3, OneIo
<1>. QED
  BY <1>1, <1>2, <1>3

\* Numbers of bytes.
LEMMA OwedType ==
    ASSUME NEW o \in Seq(Ios), Len(o) <= 1, NEW a \in Accounts \cup {None}
    PROVE  OwedIn(o) \in Nat /\ LateIn(a) \in Nat /\ UnaddedIn(a) \in Nat
<1>1. o # <<>> => o[1].size \in Nat
  BY OneIo, IoTypes
<1>2. a # None => a.size \in Nat
  BY AccountTypes
<1>. QED
  BY <1>1, <1>2 DEF OwedIn, LateIn, UnaddedIn

\* A sum over the threads, when only t changes.
LEMMA ThreadChange ==
    ASSUME NEW f, NEW g, NEW t \in Threads, \A s \in Threads : f[s] \in Nat /\ g[s] \in Nat,
           \A s \in Threads : s # t => g[s] = f[s]
    PROVE  /\ SumFunctionOnSet(f, Threads) \in Nat /\ SumFunctionOnSet(g, Threads) \in Nat
           /\ SumFunctionOnSet(g, Threads) = SumFunctionOnSet(f, Threads) + (g[t] - f[t])
<1>1. \A s \in Threads : f[s] \in Int /\ g[s] \in Int
  OBVIOUS
<1>2. \A s \in Threads \ {t} : g[s] = f[s]
  OBVIOUS
<1>3. SumFunctionOnSet(g, Threads) = SumFunctionOnSet(f, Threads) + (g[t] - f[t])
  BY <1>1, <1>2, FiniteKeys, SumChange
<1>4. SumFunctionOnSet(g, Threads) \in Nat /\ SumFunctionOnSet(f, Threads) \in Nat
  BY FiniteKeys, SumType
<1>. QED
  BY <1>3, <1>4

\* The bytes owed, when only the thread t changes.
LEMMA OwedChange ==
    ASSUME Typed, Typed', NEW t \in Threads, \A s \in Threads : s # t => owed'[s] = owed[s]
    PROVE  OwedBytes \in Nat /\ OwedBytes' \in Nat /\ OwedBytes' = OwedBytes + (Owed(t)' - Owed(t))
<1>. DEFINE f == [s \in Threads |-> OwedIn(owed[s])]
            g == [s \in Threads |-> OwedIn(owed'[s])]
<1>1. \A s \in Threads : f[s] \in Nat
  BY OwedType DEF Typed, TypeOK, Ios
<1>2. \A s \in Threads : g[s] \in Nat
  BY OwedType DEF Typed, TypeOK, Ios
<1>3. \A s \in Threads : s # t => g[s] = f[s]
  OBVIOUS
<1>4. OwedBytes = SumFunctionOnSet(f, Threads) /\ OwedBytes' = SumFunctionOnSet(g, Threads)
  BY DEF OwedBytes, Owed
<1>5. g[t] = Owed(t)' /\ f[t] = Owed(t)
  BY DEF Owed
<1>. HIDE DEF f, g
<1>. QED
  BY <1>1, <1>2, <1>3, <1>4, <1>5, ThreadChange

\* The bytes late and not yet added, when only the thread t changes.
LEMMA AcctChange ==
    ASSUME Typed, Typed', NEW t \in Threads, \A s \in Threads : s # t => acct'[s] = acct[s]
    PROVE  /\ LateBytes \in Nat /\ LateBytes' \in Nat
           /\ LateBytes' = LateBytes + (Late(t)' - Late(t))
           /\ UnaddedBytes \in Nat /\ UnaddedBytes' \in Nat
           /\ UnaddedBytes' = UnaddedBytes + (Unadded(t)' - Unadded(t))
<1>. DEFINE f == [s \in Threads |-> LateIn(acct[s])]
            g == [s \in Threads |-> LateIn(acct'[s])]
            h == [s \in Threads |-> UnaddedIn(acct[s])]
            k == [s \in Threads |-> UnaddedIn(acct'[s])]
<1>1. <<>> \in Seq(Ios) /\ Len(<<>>) <= 1
  OBVIOUS
<1>2. \A s \in Threads : acct[s] \in Accounts \cup {None} /\ acct'[s] \in Accounts \cup {None}
  BY DEF Typed, TypeOK
<1>3. \A s \in Threads : f[s] \in Nat /\ g[s] \in Nat
  BY <1>1, <1>2, OwedType
<1>4. \A s \in Threads : h[s] \in Nat /\ k[s] \in Nat
  BY <1>1, <1>2, OwedType
<1>5. /\ \A s \in Threads : s # t => g[s] = f[s]
      /\ \A s \in Threads : s # t => k[s] = h[s]
  OBVIOUS
<1>6. LateBytes = SumFunctionOnSet(f, Threads) /\ LateBytes' = SumFunctionOnSet(g, Threads)
  BY DEF LateBytes, Late
<1>7. UnaddedBytes = SumFunctionOnSet(h, Threads) /\ UnaddedBytes' = SumFunctionOnSet(k, Threads)
  BY DEF UnaddedBytes, Unadded
<1>8. g[t] = Late(t)' /\ f[t] = Late(t) /\ k[t] = Unadded(t)' /\ h[t] = Unadded(t)
  BY DEF Late, Unadded
<1>. HIDE DEF f, g, h, k
<1>9. LateBytes \in Nat /\ LateBytes' \in Nat /\ LateBytes' = LateBytes + (Late(t)' - Late(t))
  <2>1. /\ SumFunctionOnSet(f, Threads) \in Nat /\ SumFunctionOnSet(g, Threads) \in Nat
        /\ SumFunctionOnSet(g, Threads) = SumFunctionOnSet(f, Threads) + (g[t] - f[t])
    BY <1>3, <1>5, ThreadChange
  <2>. QED
    BY <1>6, <1>8, <2>1
<1>10. /\ UnaddedBytes \in Nat /\ UnaddedBytes' \in Nat
       /\ UnaddedBytes' = UnaddedBytes + (Unadded(t)' - Unadded(t))
  <2>1. /\ SumFunctionOnSet(h, Threads) \in Nat /\ SumFunctionOnSet(k, Threads) \in Nat
        /\ SumFunctionOnSet(k, Threads) = SumFunctionOnSet(h, Threads) + (k[t] - h[t])
    BY <1>4, <1>5, ThreadChange
  <2>. QED
    BY <1>7, <1>8, <2>1
<1>. QED
  BY <1>9, <1>10

\* A call on a socket leaves its thread one I/O to account, unless it returned
\* nothing or traffic_inflight was full: the inner probes of a mapped send see
\* the wrong family.
LEMMA CallOwes ==
    ASSUME Typed, NEW t \in Threads, NEW sock \in Ops, NEW mapped \in BOOLEAN,
           NEW e \in Endpoints \cup {Unknown}, NEW full \in BOOLEAN, NEW size \in Sizes,
           SocketCall(t, sock, mapped, e, full, size)
    PROVE  /\ owed' \in [Threads -> Seq(Ios)] /\ Len(owed'[t]) <= 1
           /\ \A s \in Threads : s # t => owed'[s] = owed[s]
           /\ owed'[t] # <<>> => owed'[t][1].key[1] = t
           /\ full => OwedIn(owed'[t]) = 0
           /\ ~full => OwedIn(owed'[t]) = size
<1>. DEFINE empty == [o \in Ops |-> None]
            outer == TrafficEnter(empty, sock, sock)
            entered == IF mapped THEN TrafficEnter(outer, "udp4", sock) ELSE outer
            i == TrafficEndpoints(IF full THEN empty ELSE entered, sock, e)
            counted == (IF mapped THEN Returned(i, "udp4") ELSE <<>>) \o Returned(i, sock)
            new == IF size > 0
                   THEN [n \in DOMAIN counted |-> [key |-> <<t, counted[n]>>, size |-> size]]
                   ELSE <<>>
<1>1. /\ mapped => sock = "udp6"
      /\ owed' = [owed EXCEPT ![t] = new]
  BY DEF SocketCall
<1>2. e # None /\ Unknown # None
  BY NoneAssumption
<1>3. outer = [empty EXCEPT ![sock] = Unknown]
  BY DEF TrafficEnter, FamilyMatches
<1>4. entered = outer
  BY <1>1 DEF TrafficEnter, FamilyMatches
<1>5. full => i = empty
  BY DEF TrafficEndpoints
<1>6. ~full => i = [empty EXCEPT ![sock] = e]
  <2>1. outer[sock] = Unknown /\ [outer EXCEPT ![sock] = e] = [empty EXCEPT ![sock] = e]
    BY <1>3
  <2>. HIDE DEF outer, entered
  <2>. QED
    BY <1>2, <1>4, <2>1 DEF TrafficEndpoints
<1>7. mapped => i["udp4"] = None
  BY <1>1, <1>5, <1>6 DEF Ops
<1>8. i[sock] = IF full THEN None ELSE e
  BY <1>5, <1>6
<1>. HIDE DEF i
<1>9. (IF mapped THEN Returned(i, "udp4") ELSE <<>>) = <<>>
  BY <1>7 DEF Returned
<1>10. Returned(i, sock) = IF full THEN <<>> ELSE <<e>>
  BY <1>2, <1>8 DEF Returned
<1>11. counted = IF full THEN <<>> ELSE <<e>>
  <2>1. <<>> \o <<>> = <<>> /\ <<>> \o <<e>> = <<e>>
    OBVIOUS
  <2>. QED
    BY <1>9, <1>10, <2>1
<1>. HIDE DEF counted
<1>12. size \in Nat /\ <<t, e>> \in Keys
  BY TrafficAssumption DEF Keys
<1>13. full \/ size = 0 => new = <<>>
  <2>1. ASSUME full
        PROVE  [n \in DOMAIN counted |-> [key |-> <<t, counted[n]>>, size |-> size]] = <<>>
    BY <1>11, <2>1
  <2>. QED
    BY <1>12, <2>1
<1>14. ~full /\ size > 0 => new = <<[key |-> <<t, e>>, size |-> size]>>
  <2>1. ASSUME ~full
        PROVE  [n \in DOMAIN counted |-> [key |-> <<t, counted[n]>>, size |-> size]]
                 = <<[key |-> <<t, e>>, size |-> size]>>
    BY <1>11, <2>1
  <2>. QED
    BY <2>1
<1>15. [key |-> <<t, e>>, size |-> size] \in Ios
  BY <1>12 DEF Ios
<1>. HIDE DEF new
<1>16. /\ new \in Seq(Ios) /\ Len(new) <= 1
       /\ (full => OwedIn(new) = 0) /\ (~full => OwedIn(new) = size)
       /\ new # <<>> => new[1].key[1] = t
  <2>1. CASE full \/ size = 0
    <3>1. new = <<>>
      BY <1>13, <2>1
    <3>2. <<>> \in Seq(Ios) /\ Len(<<>>) = 0
      BY EmptySeq
    <3>. QED
      BY <2>1, <3>1, <3>2 DEF OwedIn
  <2>2. CASE ~full /\ size > 0
    <3>. DEFINE io == [key |-> <<t, e>>, size |-> size]
    <3>1. io.size = size /\ io.key[1] = t /\ io \in Ios
      BY <1>15
    <3>2. new = <<io>>
      BY <1>14, <2>2
    <3>. HIDE DEF io
    <3>3. <<io>> \in Seq(Ios) /\ Len(<<io>>) = 1 /\ <<io>>[1] = io /\ <<io>> # <<>>
      BY <3>1
    <3>. QED
      BY <2>2, <3>1, <3>2, <3>3 DEF OwedIn
  <2>. QED
    BY <1>12, <2>1, <2>2
<1>17. owed \in [Threads -> Seq(Ios)]
  BY DEF Typed, TypeOK, Ios
<1>18. owed'[t] = new /\ \A s \in Threads : s # t => owed'[s] = owed[s]
  BY <1>1, <1>17
<1>19. owed' \in [Threads -> Seq(Ios)]
  BY <1>1, <1>16, <1>17
<1>. QED
  BY <1>16, <1>18, <1>19

\* A socket call keeps the types.
LEMMA SocketCallTypes ==
    ASSUME Typed, NEW t \in Threads, NEW sock \in Ops, NEW mapped \in BOOLEAN,
           NEW e \in Endpoints \cup {Unknown}, NEW full \in BOOLEAN, NEW size \in Sizes,
           SocketCall(t, sock, mapped, e, full, size)
    PROVE  Typed'
<1>1. /\ owed' \in [Threads -> Seq(Ios)] /\ \A s \in Threads : Len(owed'[s]) <= 1
  <2>1. /\ owed' \in [Threads -> Seq(Ios)] /\ Len(owed'[t]) <= 1
        /\ \A s \in Threads : s # t => owed'[s] = owed[s]
    BY CallOwes
  <2>. QED
    BY <2>1 DEF Typed, TypeOK
<1>2. /\ ios < MaxIo /\ ios' = ios + 1 /\ moved' = moved + size
      /\ dropped' = IF full THEN [dropped EXCEPT !.total = @ + size, !.process = @ + size]
                            ELSE dropped
      /\ UNCHANGED <<now, acct, totals, process, flows, sampler>>
  BY DEF SocketCall
<1>3. size \in Nat /\ MaxIo \in Nat
  BY TrafficAssumption
<1>4. ios' \in 0..MaxIo /\ moved' \in Nat
  BY <1>2, <1>3 DEF Typed, TypeOK
<1>5. dropped' \in [total: Nat, process: Nat]
  <2>. DEFINE x == dropped.total + size
              y == dropped.process + size
  <2>1. dropped \in [total: Nat, process: Nat] /\ x \in Nat /\ y \in Nat
    BY <1>3 DEF Typed, TypeOK
  <2>2. dropped' = IF full THEN [dropped EXCEPT !.total = x, !.process = y] ELSE dropped
    BY <1>2
  <2>. HIDE DEF x, y
  <2>. QED
    BY <2>1, <2>2
<1>. QED
  BY <1>1, <1>2, <1>4, <1>5 DEF Typed, TypeOK, Ios, sampler, Known

\* An account under way, and at another step.
LEMMA ContinueTypes ==
    ASSUME Typed, NEW t \in Threads, acct[t] # None,
           NEW step \in {"process", "flow", "newflow", "add"}, NEW e \in Elements \cup {None},
           Continue(t, step, e)
    PROVE  /\ acct' \in [Threads -> Accounts \cup {None}]
           /\ \A s \in Threads : s # t => acct'[s] = acct[s]
           /\ acct'[t] # None /\ acct'[t].step = step /\ acct'[t].element = e
           /\ acct'[t].key = acct[t].key /\ acct'[t].size = acct[t].size /\ acct'[t].at = acct[t].at
<1>1. acct \in [Threads -> Accounts \cup {None}]
  BY DEF Typed, TypeOK
<1>. DEFINE a == acct[t]
            b == [key |-> a.key, size |-> a.size, at |-> a.at, element |-> e, step |-> step]
<1>2. a \in Accounts
  BY <1>1
<1>3. acct' = [acct EXCEPT ![t].step = step, ![t].element = e]
  BY DEF Continue
<1>4. acct'[t] = [[a EXCEPT !.step = step] EXCEPT !.element = e]
  BY <1>1, <1>3
<1>5. acct'[t] = b
  <2>1. a = [key |-> a.key, size |-> a.size, at |-> a.at, element |-> a.element, step |-> a.step]
    BY <1>2, AccountTypes
  <2>2. [a EXCEPT !.step = step]
          = [key |-> a.key, size |-> a.size, at |-> a.at, element |-> a.element, step |-> step]
    BY <2>1
  <2>. QED
    BY <1>4, <2>2
<1>6. b \in Accounts
  BY <1>2, AccountTypes DEF Accounts
<1>7. b # None
  BY <1>6, AccountTypes
<1>8. \A s \in Threads : s # t => acct'[s] = acct[s]
  BY <1>1, <1>3
<1>9. acct' \in [Threads -> Accounts \cup {None}]
  <2>1. acct' = [s \in Threads |-> acct'[s]]
    BY <1>1, <1>3
  <2>2. \A s \in Threads : acct'[s] \in Accounts \cup {None}
    BY <1>1, <1>5, <1>6, <1>8
  <2>. QED
    BY <2>1, <2>2
<1>. QED
  BY <1>5, <1>7, <1>8, <1>9

\* The end of an account.
LEMMA DoneTypes ==
    ASSUME Typed, NEW t \in Threads, acct' = [acct EXCEPT ![t] = None]
    PROVE  /\ acct' \in [Threads -> Accounts \cup {None}] /\ acct'[t] = None
           /\ \A s \in Threads : s # t => acct'[s] = acct[s]
BY DEF Typed, TypeOK

\* traffic_account takes the I/O of its thread.
LEMMA AccountTakes ==
    ASSUME Typed, NEW t \in Threads, TrafficAccount(t)
    PROVE  /\ owed[t] # <<>> /\ owed[t][1] \in Ios /\ acct[t] = None
           /\ totals' = totals + owed[t][1].size
           /\ process' = IF process = None THEN None ELSE process + owed[t][1].size
           /\ acct' \in [Threads -> Accounts \cup {None}]
           /\ \A s \in Threads : s # t => acct'[s] = acct[s] /\ owed'[s] = owed[s]
           /\ acct'[t] # None /\ acct'[t].key = owed[t][1].key /\ acct'[t].size = owed[t][1].size
           /\ acct'[t].at = now
           /\ acct'[t].step = (IF process = None THEN "process" ELSE "flow")
           /\ owed' \in [Threads -> Seq(Ios)] /\ owed'[t] = <<>> /\ now' = now + 1
<1>1. owed[t] # <<>> /\ acct[t] = None
  BY DEF TrafficAccount
<1>2. owed[t][1] \in Ios /\ Tail(owed[t]) = <<>> /\ Head(owed[t]) = owed[t][1]
  BY <1>1, ThreadTypes
<1>. DEFINE io == owed[t][1]
            a == [key |-> io.key, size |-> io.size, at |-> now, element |-> None,
                  step |-> IF process = None THEN "process" ELSE "flow"]
<1>3. /\ acct \in [Threads -> Accounts \cup {None}]
      /\ owed \in [Threads -> Seq(Ios)] /\ now \in Nat
  BY DEF Typed, TypeOK, Ios
<1>4. /\ totals' = totals + io.size
      /\ process' = IF process = None THEN None ELSE process + io.size
      /\ acct' = [acct EXCEPT ![t] = a]
      /\ owed' = [owed EXCEPT ![t] = Tail(owed[t])] /\ now' = now + 1
  BY <1>2, <1>3 DEF TrafficAccount
<1>5. owed' = [owed EXCEPT ![t] = <<>>]
  BY <1>2, <1>4
<1>6. io.key \in Keys /\ io.size \in Sizes
  BY <1>2, IoTypes
<1>. HIDE DEF io
<1>7. a \in Accounts
  BY <1>3, <1>6 DEF Accounts
<1>8. a # None
  BY <1>7, AccountTypes
<1>9. a.key = io.key /\ a.size = io.size /\ a.at = now
      /\ a.step = (IF process = None THEN "process" ELSE "flow")
  OBVIOUS
<1>. HIDE DEF a
<1>10. /\ acct' \in [Threads -> Accounts \cup {None}] /\ acct'[t] = a
       /\ \A s \in Threads : s # t => acct'[s] = acct[s]
  BY <1>3, <1>4, <1>7
<1>11. <<>> \in Seq(Ios)
  BY EmptySeq
<1>12. /\ owed' \in [Threads -> Seq(Ios)] /\ owed'[t] = <<>>
       /\ \A s \in Threads : s # t => owed'[s] = owed[s]
  BY <1>3, <1>5, <1>11
<1>. QED
  BY <1>1, <1>2, <1>4, <1>8, <1>9, <1>10, <1>12 DEF io

\* traffic_account keeps the types.
LEMMA AccountStepTypes ==
    ASSUME Typed, NEW t \in Threads, TrafficAccount(t)
    PROVE  Typed'
<1>1. owed[t][1].size \in Nat
  BY AccountTakes, IoTypes
<1>2. totals' \in Nat /\ process' \in Nat \cup {None} /\ now' \in Nat
  <2>1. totals' = totals + owed[t][1].size /\ now' = now + 1
        /\ process' = IF process = None THEN None ELSE process + owed[t][1].size
    BY AccountTakes
  <2>2. totals \in Nat /\ now \in Nat /\ process \in Nat \cup {None}
    BY DEF Typed, TypeOK
  <2>. QED
    BY <1>1, <2>1, <2>2
<1>3. acct' \in [Threads -> Accounts \cup {None}] /\ owed' \in [Threads -> Seq(Ios)]
  BY AccountTakes
<1>4. \A s \in Threads : Len(owed'[s]) <= 1
  <2>1. owed'[t] = <<>> /\ \A s \in Threads : s # t => owed'[s] = owed[s]
    BY AccountTakes
  <2>2. Len(<<>>) <= 1
    BY EmptySeq
  <2>. QED
    BY <2>1, <2>2 DEF Typed, TypeOK
<1>5. UNCHANGED <<flows, ios, moved, dropped, sampler>>
  BY DEF TrafficAccount
<1>. QED
  BY <1>2, <1>3, <1>4, <1>5 DEF Typed, TypeOK, Ios, sampler, Known

\* The insertion of the process, which may fail.
LEMMA InsertTakes ==
    ASSUME Typed, NEW t \in Threads, InsertProcess(t)
    PROVE  /\ acct[t] # None /\ acct[t].step = "process" /\ Continue(t, "flow", None)
           /\ acct[t].size \in Nat
           /\ \/ dropped' = dropped /\ process' \in Nat /\ process' = ProcessBytes + acct[t].size
              \/ /\ process' = process /\ process = None
                 /\ dropped' \in [total: Nat, process: Nat] /\ dropped'.total = dropped.total
                 /\ dropped'.process = dropped.process + acct[t].size
<1>1. acct[t] # None /\ acct[t].step = "process" /\ Continue(t, "flow", None)
  BY DEF InsertProcess
<1>2. acct[t].size \in Nat
  BY <1>1, ThreadTypes, AccountTypes
<1>3. PICK value \in Inserted(process) :
          \/ value # None /\ process' = value + acct[t].size /\ UNCHANGED dropped
          \/ /\ value = None /\ UNCHANGED process
             /\ dropped' = [dropped EXCEPT !.process = @ + acct[t].size]
  BY DEF InsertProcess
<1>4. process \in Nat \cup {None} /\ dropped \in [total: Nat, process: Nat]
  BY DEF Typed, TypeOK
<1>5. value # None => value = ProcessBytes /\ value \in Nat
  BY <1>3, <1>4 DEF Inserted, ProcessBytes
<1>6. value = None => process = None
  BY <1>3, <1>4 DEF Inserted
<1>7. CASE value # None /\ process' = value + acct[t].size /\ UNCHANGED dropped
  BY <1>1, <1>2, <1>5, <1>7
<1>8. CASE /\ value = None /\ UNCHANGED process
           /\ dropped' = [dropped EXCEPT !.process = @ + acct[t].size]
  <2>. DEFINE x == dropped.process + acct[t].size
  <2>1. x \in Nat /\ dropped' = [dropped EXCEPT !.process = x]
    BY <1>2, <1>4, <1>8
  <2>. HIDE DEF x
  <2>2. /\ dropped' \in [total: Nat, process: Nat]
        /\ dropped'.total = dropped.total /\ dropped'.process = x
    BY <1>4, <2>1
  <2>. QED
    BY <1>1, <1>2, <1>6, <1>8, <2>2 DEF x
<1>. QED
  BY <1>3, <1>7, <1>8

\* The insertion of the process keeps the types.
LEMMA InsertProcessTypes ==
    ASSUME Typed, NEW t \in Threads, InsertProcess(t)
    PROVE  Typed'
<1>1. acct' \in [Threads -> Accounts \cup {None}]
  BY InsertTakes, ContinueTypes
<1>2. process' \in Nat \cup {None} /\ dropped' \in [total: Nat, process: Nat]
  <2>1. dropped \in [total: Nat, process: Nat]
    BY DEF Typed, TypeOK
  <2>. QED
    BY <2>1, InsertTakes
<1>3. UNCHANGED <<now, owed, totals, flows, ios, moved, sampler>>
  BY DEF InsertProcess
<1>. QED
  BY <1>1, <1>2, <1>3 DEF Typed, TypeOK, sampler, Known

\* The lookup of the flow keeps the types.
LEMMA AccountFlowTypes ==
    ASSUME Typed, NEW t \in Threads, AccountFlow(t)
    PROVE  Typed'
<1>1. acct' \in [Threads -> Accounts \cup {None}]
  <2>1. acct[t] # None
    BY DEF AccountFlow
  <2>2. \/ \E e \in Elements : Continue(t, "add", e)
        \/ Continue(t, "newflow", None)
    BY DEF AccountFlow, Holding
  <2>. QED
    BY <2>1, <2>2, ContinueTypes
<1>2. UNCHANGED <<now, owed, totals, process, flows, ios, moved, dropped, sampler>>
  BY DEF AccountFlow
<1>. QED
  BY <1>1, <1>2 DEF Typed, TypeOK, sampler, Known

-----------------------------------------------------------------------------
(* What the steps do to the flow map.                                        *)

Fresh(at) == [first |-> at, last |-> 0, bytes |-> 0]

\* The flow k has the value v now, and other flows kept or lost theirs.
Placed(k, v) ==
    /\ flows' \in FlowMaps /\ Unique(flows') /\ ElementIn(flows', k) = v
    /\ \A j \in Keys : j # k => ElementIn(flows', j) \in {None, ElementIn(flows, j)}
    /\ \A f \in Elements : flows'[f].key = k \/ flows'[f].key = flows[f].key

\* The insertion of a flow gives up, or places it without bytes where there
\* was none.
LEMMA InsertView ==
    ASSUME IInv, NEW t \in Threads, InsertFlow(t)
    PROVE  /\ acct[t] # None /\ acct[t].step = "newflow" /\ acct[t] \in Accounts
           /\ \/ acct' = [acct EXCEPT ![t] = None] /\ flows' = flows
              \/ /\ \E e \in Elements : Continue(t, "add", e)
                 /\ ElementIn(flows, acct[t].key) = None
                 /\ Placed(acct[t].key, Fresh(acct[t].at))
<1>1. acct[t] # None /\ acct[t].step = "newflow"
  BY DEF InsertFlow
<1>2. acct[t] \in Accounts /\ acct[t].key \in Keys /\ acct[t].at \in Nat
  BY <1>1, ThreadTypes, AccountTypes DEF IInv
<1>. DEFINE k == acct[t].key
            v == Fresh(acct[t].at)
<1>3. CASE acct' = [acct EXCEPT ![t] = None] /\ flows' = flows
  BY <1>1, <1>2, <1>3
<1>4. CASE \E e \in FreshElements :
             flows' = [flows EXCEPT ![e] = [key |-> k, value |-> v]] /\ Continue(t, "add", e)
  <2>1. PICK e \in FreshElements :
             flows' = [flows EXCEPT ![e] = [key |-> k, value |-> v]] /\ Continue(t, "add", e)
    BY <1>4
  <2>2. e \in Elements
    BY <2>1 DEF FreshElements, Holding
  <2>3. flows \in FlowMaps /\ Unique(flows)
    BY DEF IInv, Typed, TypeOK, FlowMaps, Flows
  <2>4. \A f \in Elements : flows[f].key # k
    BY <1>1 DEF IInv, InvThreads
  <2>5. v \in Values
    BY <1>2 DEF Fresh, Values
  <2>. HIDE DEF k, v
  <2>6. k \in Keys
    BY <1>2 DEF k
  <2>7. Placed(k, v)
    <3>1. flows' = PlacedAt(flows, e, k, v)
      BY <2>1 DEF PlacedAt
    <3>. QED
      BY <2>2, <2>3, <2>4, <2>5, <2>6, <3>1, InsertElement DEF Placed
  <2>8. ElementIn(flows, k) = None
    BY <2>4, ElementNone
  <2>. QED
    BY <1>1, <1>2, <2>1, <2>2, <2>7, <2>8 DEF k, v
<1>. QED
  BY <1>3, <1>4 DEF InsertFlow, Fresh

\* n bytes were added to the flow k, if there is one.
AddedTo(k, n, at) ==
    /\ flows' \in FlowMaps /\ Unique(flows')
    /\ \A f \in Elements : flows'[f].key = flows[f].key
    /\ \A j \in Keys : j # k => ElementIn(flows', j) = ElementIn(flows, j)
    /\ k # None => /\ k \in Keys /\ ElementIn(flows, k) \in Values
                   /\ ElementIn(flows', k) = Added(ElementIn(flows, k), n, at)

\* The addition goes to whatever flow the element holds by now.
LEMMA AddView ==
    ASSUME IInv, NEW t \in Threads, AddFlow(t)
    PROVE  /\ acct[t] # None /\ acct[t].step = "add" /\ acct[t] \in Accounts
           /\ acct' = [acct EXCEPT ![t] = None]
           /\ \E k \in Keys \cup {None} : AddedTo(k, acct[t].size, acct[t].at)
<1>1. acct[t] # None /\ acct[t].step = "add" /\ acct' = [acct EXCEPT ![t] = None]
  BY DEF AddFlow
<1>2. /\ acct[t] \in Accounts /\ acct[t].size \in Nat /\ acct[t].at \in Nat
      /\ acct[t].element \in Elements
  BY <1>1, ThreadTypes, AccountTypes DEF IInv, InvThreads
<1>. DEFINE e == acct[t].element
            n == acct[t].size
            at == acct[t].at
            k == flows[e].key
<1>3. flows \in FlowMaps /\ Unique(flows)
  BY DEF IInv, Typed, TypeOK, FlowMaps, Flows
<1>4. flows' = AddedAt(flows, e, n, at)
  BY DEF AddFlow, AddedAt
<1>. HIDE DEF e, n, at
<1>5. e \in Elements /\ n \in Nat /\ at \in Nat
  BY <1>2 DEF e, n, at
<1>6. /\ flows' \in FlowMaps /\ Unique(flows')
      /\ \A f \in Elements : flows'[f].key = flows[f].key
      /\ \A j \in Keys : j # k => ElementIn(flows', j) = ElementIn(flows, j)
      /\ k # None => /\ ElementIn(flows, k) = flows[e].value
                     /\ ElementIn(flows', k) = Added(flows[e].value, n, at)
  BY <1>3, <1>4, <1>5, AddElement
<1>7. k \in Keys \cup {None} /\ flows[e].value \in Values
  BY <1>3, <1>5, FlowTypes
<1>8. AddedTo(k, n, at)
  BY <1>6, <1>7 DEF AddedTo
<1>. QED
  BY <1>1, <1>2, <1>7, <1>8 DEF n, at

\* Every flow kept or lost its value.
Thinned ==
    /\ flows' \in FlowMaps /\ Unique(flows')
    /\ \A j \in Keys : ElementIn(flows', j) \in {None, ElementIn(flows, j)}
    /\ \A f \in Elements : flows'[f].key = None \/ flows'[f].key = flows[f].key

\* A deletion only takes flows away.
LEMMA DeleteView ==
    ASSUME IInv, NEW e \in Elements, DeleteFlow(e)
    PROVE  Thinned
<1>1. flows \in FlowMaps /\ Unique(flows)
  BY DEF IInv, Typed, TypeOK, FlowMaps, Flows
<1>2. flows' = DeletedAt(flows, e)
  BY DEF DeleteFlow, DeletedAt
<1>. QED
  BY <1>1, <1>2, DeleteElement DEF Thinned

\* A walk, its parts, and the walk after a change of its marks.
LEMMA WalkTypes ==
    ASSUME Typed, walk # None
    PROVE  /\ walk \in Walks /\ walk.time \in Nat /\ walk.todo \subseteq Elements
           /\ walk.rows \in [Keys -> Values \cup {None}] /\ walk.shaken \in BOOLEAN
           /\ walk = [time |-> walk.time, todo |-> walk.todo, rows |-> walk.rows,
                      shaken |-> walk.shaken]
<1>1. walk \in Walks
  BY DEF Typed, TypeOK
<1>. QED
  BY <1>1 DEF Walks

\* A walk made of parts.
LEMMA WalkMade ==
    ASSUME NEW time \in Nat, NEW todo \in SUBSET Elements,
           NEW rows \in [Keys -> Values \cup {None}], NEW shaken \in BOOLEAN,
           NEW w, w = [time |-> time, todo |-> todo, rows |-> rows, shaken |-> shaken]
    PROVE  w \in Walks /\ w # None /\ w.time = time /\ w.rows = rows
<1>1. w \in Walks
  BY DEF Walks
<1>. QED
  BY <1>1, NoneAssumption

\* The walk has the same rows.
SameRows ==
    /\ walk' \in Walks \cup {None} /\ (walk' = None <=> walk = None)
    /\ walk # None => walk'.time = walk.time
    /\ \A k \in Keys : Row(k)' = Row(k)

\* A walk that is told of a deletion, or that starts over.
LEMMA MarkView ==
    ASSUME Typed, walk # None, NEW todo \in SUBSET Elements, NEW shaken \in BOOLEAN,
           walk' = [time |-> walk.time, todo |-> todo, rows |-> walk.rows, shaken |-> shaken]
    PROVE  SameRows
<1>1. walk' \in Walks /\ walk' # None /\ walk'.time = walk.time /\ walk'.rows = walk.rows
  BY WalkTypes, WalkMade
<1>. QED
  BY <1>1 DEF SameRows, Row

\* A deletion leaves the rows of the walk alone.
LEMMA DeleteRows ==
    ASSUME Typed, NEW e \in Elements, DeleteFlow(e)
    PROVE  SameRows
<1>1. walk' = IF walk = None THEN None ELSE [walk EXCEPT !.shaken = TRUE]
  BY DEF DeleteFlow
<1>2. CASE walk = None
  BY <1>1, <1>2 DEF SameRows, Row
<1>3. CASE walk # None
  <2>1. walk' = [time |-> walk.time, todo |-> walk.todo, rows |-> walk.rows, shaken |-> TRUE]
    BY <1>1, <1>3, WalkTypes
  <2>. QED
    BY <1>3, <2>1, WalkTypes, MarkView
<1>. QED
  BY <1>2, <1>3

\* A walk that starts over keeps its rows.
LEMMA RestartRows ==
    ASSUME Typed, SampleRestart
    PROVE  SameRows
<1>1. walk # None /\ walk' = [walk EXCEPT !.todo = Elements, !.shaken = FALSE]
  BY DEF SampleRestart
<1>2. walk' = [time |-> walk.time, todo |-> Elements, rows |-> walk.rows, shaken |-> FALSE]
  BY <1>1, WalkTypes
<1>. QED
  BY <1>1, <1>2, MarkView

\* traffic_collect_flow_sample reads one element into the row of its flow.
LEMMA RowView ==
    ASSUME IInv, NEW e \in Elements, SampleRow(e)
    PROVE  /\ walk # None /\ walk' \in Walks /\ walk' # None /\ walk'.time = walk.time
           /\ \A k \in Keys :
                 \/ Row(k)' = Row(k)
                 \/ Element(k) \in Values /\ Row(k)' = Newer(Row(k), Element(k))
<1>. DEFINE f == flows[e]
            rows == IF f.key = None THEN walk.rows
                    ELSE [walk.rows EXCEPT ![f.key] = Newer(walk.rows[f.key], f.value)]
            todo == walk.todo \ {e}
<1>1. Typed /\ walk # None /\ flows \in FlowMaps /\ Unique(flows)
  BY DEF SampleRow, IInv, Typed, TypeOK, FlowMaps, Flows
<1>2. /\ walk.time \in Nat /\ walk.todo \subseteq Elements
      /\ walk.rows \in [Keys -> Values \cup {None}] /\ walk.shaken \in BOOLEAN
      /\ walk = [time |-> walk.time, todo |-> walk.todo, rows |-> walk.rows,
                 shaken |-> walk.shaken]
  BY <1>1, WalkTypes
<1>3. f.key \in Keys \cup {None} /\ f.value \in Values
  BY <1>1, FlowTypes
<1>4. walk' = [walk EXCEPT !.todo = todo, !.rows = rows]
  BY DEF SampleRow, Collected
<1>5. f.key # None => Element(f.key) = f.value
  BY <1>1, ElementAt DEF Element
<1>6. \A k \in Keys : rows[k] = walk.rows[k]
                      \/ (Element(k) \in Values /\ rows[k] = Newer(walk.rows[k], Element(k)))
  BY <1>2, <1>3, <1>5
<1>7. f.key # None => Newer(walk.rows[f.key], f.value) \in Values \cup {None}
  BY <1>2, <1>3 DEF Newer
<1>8. rows \in [Keys -> Values \cup {None}]
  BY <1>2, <1>3, <1>7
<1>9. todo \in SUBSET Elements
  BY <1>2
<1>. HIDE DEF rows, todo
<1>10. walk' = [time |-> walk.time, todo |-> todo, rows |-> rows, shaken |-> walk.shaken]
  BY <1>2, <1>4
<1>11. walk' \in Walks /\ walk' # None /\ walk'.time = walk.time /\ walk'.rows = rows
  BY <1>2, <1>8, <1>9, <1>10, WalkMade
<1>. QED
  BY <1>1, <1>6, <1>11 DEF Row

\* traffic_sample_display begins with the time and no rows.
LEMMA BeginView ==
    ASSUME Typed, SampleBegin
    PROVE  /\ walk = None /\ walk' \in Walks /\ walk' # None /\ walk'.time = now
           /\ \A k \in Keys : Row(k)' = Row(k) /\ Row(k) = None
           /\ now' = now + 1 /\ samples' \in 0..MaxSamples
<1>1. /\ walk = None /\ now' = now + 1 /\ samples < MaxSamples /\ samples' = samples + 1
      /\ walk' = [time |-> now, todo |-> Elements, rows |-> NoRows, shaken |-> FALSE]
  BY DEF SampleBegin
<1>2. now \in Nat /\ samples \in 0..MaxSamples /\ MaxSamples \in Nat
  BY TrafficAssumption DEF Typed, TypeOK
<1>3. NoRows \in [Keys -> Values \cup {None}] /\ \A k \in Keys : NoRows[k] = None
  BY DEF NoRows
<1>4. walk' \in Walks /\ walk' # None /\ walk'.time = now /\ walk'.rows = NoRows
  <2>1. walk' \in Walks
    BY <1>1, <1>2, <1>3 DEF Walks
  <2>. QED
    BY <1>1, <2>1, NoneAssumption
<1>5. samples' \in 0..MaxSamples
  BY <1>1, <1>2
<1>. QED
  BY <1>1, <1>3, <1>4, <1>5 DEF Row

\* The smaller of two numbers.
LEMMA MinOfTwo ==
    ASSUME NEW a \in Nat, NEW b \in Nat
    PROVE  Min({a, b}) = (IF a <= b THEN a ELSE b)
<1>. DEFINE m == CHOOSE x \in {a, b} : \A y \in {a, b} : x <= y
<1>1. \E x \in {a, b} : \A y \in {a, b} : x <= y
  <2>1. CASE a <= b
    BY <2>1
  <2>2. CASE b <= a
    BY <2>2
  <2>. QED
    BY <2>1, <2>2
<1>2. m \in {a, b} /\ \A y \in {a, b} : m <= y
  BY <1>1, Zenon
<1>. HIDE DEF m
<1>3. m = IF a <= b THEN a ELSE b
  BY <1>2
<1>. QED
  BY <1>3 DEF Min, m

\* The flows whose row goes into the history.
Into(kept) == kept \cup (Shown \cap Known)

\* What traffic_history does at the end of a sample: kept are the flows that get
\* a record.
Recorded(kept) ==
    /\ kept \subseteq Shown \ Known
    /\ \A k \in Keys :
          history'[k] = IF k \in Into(kept)
                        THEN Updated(history[k], walk.rows[k], Delta(walk.rows[k], previous[k]))
                        ELSE history[k]
    /\ history' \in [Keys -> Records \cup {None}]
    /\ \A k \in Keys : k \in Into(kept) => history'[k] \in Records /\ history'[k] # None
    /\ Cardinality(Known') <= HistoryCapacity
    /\ kept # Shown \ Known => Cardinality(Known') = HistoryCapacity
    /\ Cardinality(Known) = HistoryCapacity => kept = {} /\ Cardinality(Known') = HistoryCapacity

\* The end of a sample records some flows, within the capacity.
LEMMA EndView ==
    ASSUME IInv, SampleEnd
    PROVE  /\ walk # None /\ walk' = None /\ previous' = walk.rows /\ report' = walk.time
           /\ \E kept : Recorded(kept)
<1>1. /\ walk # None /\ walk' = None /\ previous' = walk.rows /\ report' = walk.time
  BY DEF SampleEnd
<1>2. PICK kept \in SUBSET (Shown \ Known) :
          /\ Cardinality(kept) = Min({Cardinality(Shown \ Known), Room})
          /\ history' = [k \in Keys |->
                IF k \in kept \cup (Shown \cap Known)
                THEN Updated(history[k], walk.rows[k], Delta(walk.rows[k], previous[k]))
                ELSE history[k]]
  BY DEF SampleEnd
<1>3. Typed /\ InvKeys
  BY DEF IInv
<1>4. /\ walk.rows \in [Keys -> Values \cup {None}]
      /\ previous \in [Keys -> Values \cup {None}] /\ history \in [Keys -> Records \cup {None}]
  BY <1>1, <1>3, WalkTypes DEF Typed, TypeOK
<1>5. ASSUME NEW k \in Keys, k \in Into(kept)
      PROVE  Updated(history[k], walk.rows[k], Delta(walk.rows[k], previous[k])) \in Records
  <2>. DEFINE row == walk.rows[k]
              d == Delta(row, previous[k])
  <2>1. row \in Values
    BY <1>2, <1>4, <1>5 DEF Into, Shown
  <2>2. d \in Nat \cup {None}
    BY <1>4, <2>1, DeltaIs
  <2>3. Row(k) = row
    BY <1>1 DEF Row
  <2>4. ValueOr(row) /\ GoodOr(history[k])
    BY <1>3, <2>3, KeyTypes DEF InvKeys
  <2>5. row.first >= 1
    BY <2>1, <2>4, ValueTypes DEF ValueOr
  <2>. HIDE DEF row, d
  <2>6. Shape(Updated(history[k], row, d), history[k], row)
    BY <2>1, <2>2, <2>4, <2>5, UpdateShape
  <2>. QED
    BY <2>6 DEF Shape, Good, row, d
<1>6. \A k \in Keys :
          history'[k] = IF k \in Into(kept)
                        THEN Updated(history[k], walk.rows[k], Delta(walk.rows[k], previous[k]))
                        ELSE history[k]
  BY <1>2 DEF Into
<1>7. \A k \in Keys : k \in Into(kept) => history'[k] \in Records /\ history'[k] # None
  BY <1>5, <1>6, NoneAssumption
<1>8. history' \in [Keys -> Records \cup {None}]
  <2>1. history' = [k \in Keys |-> history'[k]]
    BY <1>2
  <2>2. \A k \in Keys : history'[k] \in Records \cup {None}
    BY <1>4, <1>6, <1>7
  <2>. QED
    BY <2>1, <2>2
<1>9. Known' = Known \cup kept
  <2>1. Known' = {k \in Keys : history'[k] # None}
    BY DEF Known
  <2>2. Known = {k \in Keys : history[k] # None} /\ kept \subseteq Keys
    BY <1>2 DEF Known, Shown
  <2>3. ASSUME NEW k \in Keys PROVE history'[k] # None <=> k \in Known \/ k \in kept
    <3>1. CASE k \in Into(kept)
      BY <1>7, <3>1 DEF Into
    <3>2. CASE k \notin Into(kept)
      BY <1>6, <2>2, <3>2 DEF Into
    <3>. QED
      BY <3>1, <3>2
  <2>. QED
    BY <2>1, <2>2, <2>3
<1>10. /\ IsFiniteSet(Known) /\ IsFiniteSet(Shown \ Known) /\ IsFiniteSet(kept)
  BY <1>2, FiniteKeys, FS_Subset DEF Known, Shown
<1>. DEFINE n == Cardinality(Known)
            m == Cardinality(Shown \ Known)
            j == Cardinality(kept)
<1>11. n \in Nat /\ m \in Nat /\ j \in Nat /\ HistoryCapacity \in Nat /\ n <= HistoryCapacity
  BY <1>3, <1>10, FS_CardinalityType, TrafficAssumption DEF Typed, TypeOK
<1>12. Known \cap kept = {}
  BY <1>2
<1>13. Cardinality(Known') = n + j
  <2>1. Cardinality(Known \cup kept) = n + j - Cardinality(Known \cap kept)
    BY <1>10, FS_Union
  <2>2. Cardinality({}) = 0
    BY FS_EmptySet
  <2>. HIDE DEF n, j
  <2>. QED
    BY <1>9, <1>11, <1>12, <2>1, <2>2
<1>14. Room \in Nat /\ Room = HistoryCapacity - n
  BY <1>11 DEF Room
<1>15. j = IF m <= Room THEN m ELSE Room
  BY <1>2, <1>11, <1>14, MinOfTwo
<1>16. kept # Shown \ Known => j < m
  <2>1. kept \subseteq Shown \ Known
    BY <1>2
  <2>. HIDE DEF j, m
  <2>2. kept # Shown \ Known => Cardinality(kept) < Cardinality(Shown \ Known)
    BY <1>10, <2>1, FS_Subset, FS_CardinalityType
  <2>. QED
    BY <2>2 DEF j, m
<1>17. j = 0 => kept = {}
  BY <1>10, FS_EmptySet
<1>. HIDE DEF n, m, j
<1>18. /\ n + j <= HistoryCapacity
       /\ kept # Shown \ Known => n + j = HistoryCapacity
       /\ n = HistoryCapacity => j = 0 /\ n + j = HistoryCapacity
  BY <1>11, <1>14, <1>15, <1>16
<1>19. /\ Cardinality(Known') <= HistoryCapacity
       /\ kept # Shown \ Known => Cardinality(Known') = HistoryCapacity
       /\ Cardinality(Known) = HistoryCapacity => kept = {} /\ Cardinality(Known') = HistoryCapacity
  BY <1>13, <1>17, <1>18 DEF n
<1>20. Recorded(kept)
  BY <1>2, <1>6, <1>7, <1>8, <1>19 DEF Recorded
<1>. QED
  BY <1>1, <1>20


\* The insertion of a flow.
LEMMA InsertFlowTypes ==
    ASSUME IInv, NEW t \in Threads, InsertFlow(t)
    PROVE  Typed'
<1>1. Typed
  BY DEF IInv
<1>2. acct' \in [Threads -> Accounts \cup {None}] /\ flows' \in FlowMaps
  <2>1. acct[t] # None
    BY InsertView
  <2>2. CASE acct' = [acct EXCEPT ![t] = None] /\ flows' = flows
    BY <1>1, <2>2, DoneTypes DEF Typed, TypeOK, FlowMaps, Flows
  <2>3. CASE /\ \E e \in Elements : Continue(t, "add", e)
             /\ Placed(acct[t].key, Fresh(acct[t].at))
    <3>1. flows' \in FlowMaps
      BY <2>3 DEF Placed
    <3>. QED
      BY <1>1, <2>1, <2>3, <3>1, ContinueTypes
  <2>. QED
    BY <2>2, <2>3, InsertView
<1>3. UNCHANGED <<now, owed, totals, process, ios, moved, dropped, sampler>>
  BY DEF InsertFlow
<1>. QED
  BY <1>1, <1>2, <1>3 DEF Typed, TypeOK, sampler, Known, FlowMaps, Flows

\* The addition to a flow.
LEMMA AddFlowTypes ==
    ASSUME IInv, NEW t \in Threads, AddFlow(t)
    PROVE  Typed'
<1>1. Typed
  BY DEF IInv
<1>2. acct' \in [Threads -> Accounts \cup {None}]
  BY <1>1, AddView, DoneTypes
<1>3. flows' \in FlowMaps
  BY AddView DEF AddedTo
<1>4. UNCHANGED <<now, owed, totals, process, ios, moved, dropped, sampler>>
  BY DEF AddFlow
<1>. QED
  BY <1>1, <1>2, <1>3, <1>4 DEF Typed, TypeOK, sampler, Known, FlowMaps, Flows

\* A flow goes.
LEMMA DeleteFlowTypes ==
    ASSUME IInv, NEW e \in Elements, DeleteFlow(e)
    PROVE  Typed'
<1>1. Typed
  BY DEF IInv
<1>2. flows' \in FlowMaps
  BY DeleteView DEF Thinned
<1>3. walk' \in Walks \cup {None}
  BY <1>1, DeleteRows DEF SameRows
<1>4. UNCHANGED <<now, owed, acct, totals, process, ios, moved, dropped,
                  report, previous, history, samples>>
  BY DEF DeleteFlow
<1>. QED
  BY <1>1, <1>2, <1>3, <1>4 DEF Typed, TypeOK, Known, FlowMaps, Flows

\* The steps of the sampler.
LEMMA SamplerTypes ==
    ASSUME IInv, SampleBegin \/ SampleRestart \/ (\E e \in Elements : SampleRow(e))
    PROVE  Typed'
<1>1. Typed
  BY DEF IInv
<1>2. CASE SampleBegin
  <2>1. walk' \in Walks /\ now' = now + 1 /\ samples' \in 0..MaxSamples
    BY <1>1, <1>2, BeginView
  <2>2. UNCHANGED <<kernel, report, previous, history>>
    BY <1>2 DEF SampleBegin
  <2>3. now' \in Nat /\ walk' \in Walks \cup {None}
    BY <1>1, <2>1 DEF Typed, TypeOK
  <2>. QED
    BY <1>1, <2>1, <2>2, <2>3 DEF Typed, TypeOK, Known, kernel
<1>3. CASE SampleRestart
  <2>1. walk' \in Walks \cup {None}
    BY <1>1, <1>3, RestartRows DEF SameRows
  <2>2. UNCHANGED <<now, kernel, report, previous, history, samples>>
    BY <1>3 DEF SampleRestart
  <2>. QED
    BY <1>1, <2>1, <2>2 DEF Typed, TypeOK, Known, kernel
<1>4. CASE \E e \in Elements : SampleRow(e)
  <2>1. walk' \in Walks
    BY <1>4, RowView
  <2>2. UNCHANGED <<now, kernel, report, previous, history, samples>>
    BY <1>4 DEF SampleRow
  <2>. QED
    BY <1>1, <2>1, <2>2 DEF Typed, TypeOK, Known, kernel
<1>. QED
  BY <1>2, <1>3, <1>4

\* The end of a sample.
LEMMA EndTypes ==
    ASSUME IInv, SampleEnd
    PROVE  Typed'
<1>1. Typed
  BY DEF IInv
<1>2. walk # None /\ walk' = None /\ previous' = walk.rows /\ report' = walk.time
  BY EndView
<1>3. walk.rows \in [Keys -> Values \cup {None}] /\ walk.time \in Nat
  BY <1>1, <1>2, WalkTypes
<1>4. /\ history' \in [Keys -> Records \cup {None}]
      /\ Cardinality(Known') <= HistoryCapacity
  BY EndView DEF Recorded
<1>5. Cardinality(Known)' <= HistoryCapacity
  BY <1>4
<1>6. UNCHANGED <<now, kernel, samples>>
  BY DEF SampleEnd
<1>. QED
  BY <1>1, <1>2, <1>3, <1>4, <1>5, <1>6 DEF Typed, TypeOK, kernel

\* Every step keeps the types.
LEMMA TypeStep ==
    ASSUME IInv, [Next]_vars
    PROVE  Typed'
<1>1. Typed
  BY DEF IInv
<1>2. CASE UNCHANGED vars
  BY <1>1, <1>2 DEF Typed, TypeOK, vars, kernel, sampler, Known
<1>3. CASE \E t \in Threads : \E sock \in Ops, mapped \in BOOLEAN, e \in Endpoints \cup {Unknown},
              full \in BOOLEAN, size \in Sizes : SocketCall(t, sock, mapped, e, full, size)
  BY <1>1, <1>3, SocketCallTypes
<1>4. CASE \E t \in Threads : TrafficAccount(t)
  BY <1>1, <1>4, AccountStepTypes
<1>5. CASE \E t \in Threads : InsertProcess(t)
  BY <1>1, <1>5, InsertProcessTypes
<1>6. CASE \E t \in Threads : AccountFlow(t)
  BY <1>1, <1>6, AccountFlowTypes
<1>7. CASE \E t \in Threads : InsertFlow(t) \/ AddFlow(t)
  BY <1>7, InsertFlowTypes, AddFlowTypes
<1>8. CASE \E e \in Elements : DeleteFlow(e)
  BY <1>8, DeleteFlowTypes
<1>9. CASE SampleBegin \/ SampleRestart \/ (\E e \in Elements : SampleRow(e))
  BY <1>9, SamplerTypes
<1>10. CASE SampleEnd
  BY <1>10, EndTypes
<1>. QED
  BY <1>2, <1>3, <1>4, <1>5, <1>6, <1>7, <1>8, <1>9, <1>10 DEF Next

-----------------------------------------------------------------------------
(* Every byte is counted.                                                    *)

\* The numbers InvCounted is about.
LEMMA CountTypes ==
    ASSUME Typed
    PROVE  /\ totals \in Nat /\ moved \in Nat /\ dropped.total \in Nat /\ dropped.process \in Nat
           /\ ProcessBytes \in Nat
<1>1. /\ totals \in Nat /\ moved \in Nat /\ process \in Nat \cup {None}
      /\ dropped \in [total: Nat, process: Nat]
  BY DEF Typed, TypeOK
<1>. QED
  BY <1>1 DEF ProcessBytes

\* A socket call: the thread owes what it returned, or it is dropped.
LEMMA CallCounts ==
    ASSUME Typed, Typed', InvCounted, NEW t \in Threads, NEW sock \in Ops, NEW mapped \in BOOLEAN,
           NEW e \in Endpoints \cup {Unknown}, NEW full \in BOOLEAN, NEW size \in Sizes,
           SocketCall(t, sock, mapped, e, full, size)
    PROVE  InvCounted'
<1>1. /\ owed[t] = <<>> /\ moved' = moved + size /\ UNCHANGED <<acct, totals, process>>
      /\ dropped' = IF full THEN [dropped EXCEPT !.total = @ + size, !.process = @ + size]
                            ELSE dropped
  BY DEF SocketCall
<1>2. size \in Nat
  BY TrafficAssumption
<1>3. /\ \A s \in Threads : s # t => owed'[s] = owed[s]
      /\ full => OwedIn(owed'[t]) = 0
      /\ ~full => OwedIn(owed'[t]) = size
  BY CallOwes
<1>4. OwedBytes \in Nat /\ OwedBytes' \in Nat /\ OwedBytes' = OwedBytes + (Owed(t)' - Owed(t))
  BY <1>3, OwedChange
<1>5. Owed(t) = 0 /\ (full => Owed(t)' = 0) /\ (~full => Owed(t)' = size)
  BY <1>1, <1>3 DEF Owed, OwedIn
<1>6. LateBytes' = LateBytes /\ ProcessBytes' = ProcessBytes
  BY <1>1 DEF LateBytes, Late, ProcessBytes
<1>7. LateBytes \in Nat
  BY AcctChange, <1>1
<1>8. /\ full => dropped'.total = dropped.total + size /\ dropped'.process = dropped.process + size
      /\ ~full => dropped' = dropped
  <2>1. dropped \in [total: Nat, process: Nat]
    BY DEF Typed, TypeOK
  <2>. QED
    BY <1>1, <2>1
<1>. HIDE DEF InvCounted
<1>9. totals' + dropped'.total + OwedBytes' = moved'
  <2>1. totals + dropped.total + OwedBytes = moved
    BY DEF InvCounted
  <2>. QED
    BY <1>1, <1>2, <1>4, <1>5, <1>8, <2>1, CountTypes, SMTT(40)
<1>10. ProcessBytes' + dropped'.process + OwedBytes' + LateBytes' = moved'
  <2>1. ProcessBytes + dropped.process + OwedBytes + LateBytes = moved
    BY DEF InvCounted
  <2>2. CASE full
    <3>1. OwedBytes' = OwedBytes /\ dropped'.process = dropped.process + size
      BY <1>4, <1>5, <1>8, <2>2
    <3>. QED
      BY <1>1, <1>2, <1>4, <1>6, <1>7, <2>1, <3>1, CountTypes, SMTT(40)
  <2>3. CASE ~full
    <3>1. OwedBytes' = OwedBytes + size /\ dropped'.process = dropped.process
      BY <1>2, <1>4, <1>5, <1>8, <2>3
    <3>. QED
      BY <1>1, <1>2, <1>4, <1>6, <1>7, <2>1, <3>1, CountTypes, SMTT(40)
  <2>. QED
    BY <2>2, <2>3
<1>. QED
  BY <1>9, <1>10 DEF InvCounted

\* traffic_account: what the thread owed is in the totals, and in the process
\* or late for it.
LEMMA AccountCounts ==
    ASSUME Typed, Typed', InvCounted, NEW t \in Threads, TrafficAccount(t)
    PROVE  InvCounted'
<1>. DEFINE size == owed[t][1].size
<1>1. UNCHANGED <<moved, dropped>>
  BY DEF TrafficAccount
<1>2. /\ owed[t] # <<>> /\ acct[t] = None /\ owed'[t] = <<>>
      /\ totals' = totals + size
      /\ process' = IF process = None THEN None ELSE process + size
      /\ \A s \in Threads : s # t => acct'[s] = acct[s] /\ owed'[s] = owed[s]
      /\ acct'[t] # None /\ acct'[t].size = size
      /\ acct'[t].step = (IF process = None THEN "process" ELSE "flow")
  BY AccountTakes
<1>3. size \in Nat
  BY AccountTakes, IoTypes
<1>4. OwedBytes \in Nat /\ OwedBytes' \in Nat /\ OwedBytes' = OwedBytes + (Owed(t)' - Owed(t))
  BY <1>2, OwedChange
<1>5. LateBytes \in Nat /\ LateBytes' \in Nat /\ LateBytes' = LateBytes + (Late(t)' - Late(t))
  BY <1>2, AcctChange
<1>6. Owed(t)' = 0 /\ Owed(t) = size
  BY <1>2 DEF Owed, OwedIn
<1>7. Late(t) = 0 /\ Late(t)' = IF process = None THEN size ELSE 0
  BY <1>2 DEF Late, LateIn
<1>8. ProcessBytes' = IF process = None THEN 0 ELSE process + size
  <2>1. process # None => process \in Nat
    BY DEF Typed, TypeOK
  <2>2. process # None => process + size # None
    BY <1>3, <2>1, NoneAssumption
  <2>. QED
    BY <1>2, <2>2 DEF ProcessBytes
<1>. HIDE DEF size
<1>9. totals + dropped.total + OwedBytes = moved
      /\ ProcessBytes + dropped.process + OwedBytes + LateBytes = moved
  BY DEF InvCounted
<1>10. totals' + dropped'.total + OwedBytes' = moved'
  BY <1>1, <1>2, <1>3, <1>4, <1>6, <1>9, CountTypes, SMTT(40)
<1>11. ProcessBytes' + dropped'.process + OwedBytes' + LateBytes' = moved'
  <2>1. CASE process = None
    <3>1. ProcessBytes = 0 /\ ProcessBytes' = 0 /\ Late(t)' = size
      BY <1>7, <1>8, <2>1 DEF ProcessBytes
    <3>. QED
      BY <1>1, <1>3, <1>4, <1>5, <1>6, <1>7, <1>9, <3>1, CountTypes
  <2>2. CASE process # None
    <3>1. ProcessBytes = process /\ ProcessBytes' = process + size /\ Late(t)' = 0
      BY <1>7, <1>8, <2>2 DEF ProcessBytes
    <3>. QED
      BY <1>1, <1>3, <1>4, <1>5, <1>6, <1>7, <1>9, <3>1, CountTypes
  <2>. QED
    BY <2>1, <2>2
<1>. QED
  BY <1>10, <1>11 DEF InvCounted

\* The insertion of the process: what was late for it is in it, or dropped.
LEMMA InsertCounts ==
    ASSUME Typed, Typed', InvCounted, NEW t \in Threads, InsertProcess(t)
    PROVE  InvCounted'
<1>. DEFINE size == acct[t].size
<1>1. UNCHANGED <<owed, totals, moved>>
  BY DEF InsertProcess
<1>2. /\ acct[t] # None /\ acct[t].step = "process" /\ Continue(t, "flow", None) /\ size \in Nat
      /\ \/ dropped' = dropped /\ process' \in Nat /\ process' = ProcessBytes + size
         \/ /\ process' = process /\ process = None
            /\ dropped'.total = dropped.total /\ dropped'.process = dropped.process + size
  BY InsertTakes
<1>3. /\ \A s \in Threads : s # t => acct'[s] = acct[s]
      /\ acct'[t] # None /\ acct'[t].step = "flow"
  BY <1>2, ContinueTypes
<1>4. OwedBytes' = OwedBytes
  BY <1>1 DEF OwedBytes, Owed
<1>5. OwedBytes \in Nat
  BY <1>1, OwedChange
<1>6. LateBytes \in Nat /\ LateBytes' \in Nat /\ LateBytes' = LateBytes + (Late(t)' - Late(t))
  BY <1>3, AcctChange
<1>7. Late(t) = size /\ Late(t)' = 0
  BY <1>2, <1>3 DEF Late, LateIn
<1>. HIDE DEF size
<1>8. /\ totals + dropped.total + OwedBytes = moved
      /\ ProcessBytes + dropped.process + OwedBytes + LateBytes = moved
  BY DEF InvCounted
<1>9. CASE dropped' = dropped /\ process' \in Nat /\ process' = ProcessBytes + size
  <2>1. ProcessBytes' = ProcessBytes + size
    BY <1>9, NoneAssumption DEF ProcessBytes
  <2>2. ProcessBytes' + dropped'.process + OwedBytes' + LateBytes' = moved'
    BY <1>1, <1>2, <1>4, <1>5, <1>6, <1>7, <1>8, <1>9, <2>1, CountTypes
  <2>. QED
    BY <1>1, <1>4, <1>8, <1>9, <2>2 DEF InvCounted
<1>10. CASE /\ process' = process /\ process = None
            /\ dropped'.total = dropped.total /\ dropped'.process = dropped.process + size
  <2>1. ProcessBytes' = ProcessBytes
    BY <1>10 DEF ProcessBytes
  <2>2. ProcessBytes' + dropped'.process + OwedBytes' + LateBytes' = moved'
    BY <1>1, <1>2, <1>4, <1>5, <1>6, <1>7, <1>8, <1>10, <2>1, CountTypes
  <2>. QED
    BY <1>1, <1>4, <1>8, <1>10, <2>2 DEF InvCounted
<1>. QED
  BY <1>2, <1>9, <1>10

\* A step of the flow map: nothing is late before it or after it.
LEMMA FlowCounts ==
    ASSUME Typed, Typed', InvCounted, NEW t \in Threads,
           UNCHANGED <<owed, totals, moved, dropped, process>>,
           \A s \in Threads : s # t => acct'[s] = acct[s],
           acct[t] # None /\ acct[t].step # "process",
           acct'[t] = None \/ acct'[t].step # "process"
    PROVE  InvCounted'
<1>1. OwedBytes' = OwedBytes /\ ProcessBytes' = ProcessBytes
  BY DEF OwedBytes, Owed, ProcessBytes
<1>2. LateBytes \in Nat /\ LateBytes' \in Nat /\ LateBytes' = LateBytes + (Late(t)' - Late(t))
  BY AcctChange
<1>3. Late(t) = 0 /\ Late(t)' = 0
  BY DEF Late, LateIn
<1>4. LateBytes' = LateBytes
  BY <1>2, <1>3
<1>. QED
  BY <1>1, <1>4 DEF InvCounted

\* What the three steps of the flow map do to the account of their thread.
LEMMA FlowSteps ==
    ASSUME IInv, NEW t \in Threads, AccountFlow(t) \/ InsertFlow(t) \/ AddFlow(t)
    PROVE  /\ UNCHANGED <<owed, totals, moved, dropped, process, now, sampler>>
           /\ \A s \in Threads : s # t => acct'[s] = acct[s]
           /\ acct[t] # None /\ acct[t].step # "process"
           /\ \/ acct'[t] = None
              \/ /\ acct'[t] # None /\ acct'[t].step \in {"newflow", "add"}
                 /\ acct'[t].key = acct[t].key /\ acct'[t].size = acct[t].size
                 /\ acct'[t].at = acct[t].at
                 /\ acct'[t].step = "add" => acct'[t].element \in Elements
<1>1. Typed
  BY DEF IInv
<1>2. CASE AccountFlow(t)
  <2>1. acct[t] # None /\ acct[t].step = "flow"
        /\ UNCHANGED <<owed, totals, moved, dropped, process, now, sampler>>
    BY <1>2 DEF AccountFlow
  <2>2. CASE \E e \in Elements : Continue(t, "add", e)
    BY <1>1, <2>1, <2>2, ContinueTypes
  <2>3. CASE Continue(t, "newflow", None)
    BY <1>1, <2>1, <2>3, ContinueTypes
  <2>. QED
    BY <1>2, <2>2, <2>3 DEF AccountFlow, Holding
<1>3. CASE InsertFlow(t)
  <2>1. acct[t] # None /\ acct[t].step = "newflow"
        /\ UNCHANGED <<owed, totals, moved, dropped, process, now, sampler>>
    BY <1>3 DEF InsertFlow
  <2>2. CASE \E e \in Elements : Continue(t, "add", e)
    BY <1>1, <2>1, <2>2, ContinueTypes
  <2>3. CASE acct' = [acct EXCEPT ![t] = None]
    BY <1>1, <2>1, <2>3, DoneTypes
  <2>. QED
    BY <1>3, <2>2, <2>3, InsertView
<1>4. CASE AddFlow(t)
  <2>1. acct[t] # None /\ acct[t].step = "add" /\ acct' = [acct EXCEPT ![t] = None]
        /\ UNCHANGED <<owed, totals, moved, dropped, process, now, sampler>>
    BY <1>4 DEF AddFlow
  <2>. QED
    BY <1>1, <2>1, DoneTypes
<1>. QED
  BY <1>2, <1>3, <1>4

\* Every step keeps every byte counted.
LEMMA CountedStep ==
    ASSUME IInv, [Next]_vars
    PROVE  InvCounted'
<1>1. Typed /\ InvCounted /\ Typed'
  BY TypeStep DEF IInv
<1>2. CASE UNCHANGED <<owed, acct, totals, process, moved, dropped>>
  BY <1>1, <1>2 DEF InvCounted, OwedBytes, Owed, LateBytes, Late, ProcessBytes
<1>3. CASE \E t \in Threads : \E sock \in Ops, mapped \in BOOLEAN, e \in Endpoints \cup {Unknown},
              full \in BOOLEAN, size \in Sizes : SocketCall(t, sock, mapped, e, full, size)
  BY <1>1, <1>3, CallCounts
<1>4. CASE \E t \in Threads : TrafficAccount(t)
  BY <1>1, <1>4, AccountCounts
<1>5. CASE \E t \in Threads : InsertProcess(t)
  BY <1>1, <1>5, InsertCounts
<1>6. CASE \E t \in Threads : AccountFlow(t) \/ InsertFlow(t) \/ AddFlow(t)
  <2>1. PICK t \in Threads : AccountFlow(t) \/ InsertFlow(t) \/ AddFlow(t)
    BY <1>6
  <2>2. /\ UNCHANGED <<owed, totals, moved, dropped, process>>
        /\ \A s \in Threads : s # t => acct'[s] = acct[s]
        /\ acct[t] # None /\ acct[t].step # "process"
        /\ acct'[t] = None \/ acct'[t].step # "process"
    BY <2>1, FlowSteps
  <2>. QED
    BY <1>1, <2>1, <2>2, FlowCounts
<1>7. CASE UNCHANGED vars
  BY <1>2, <1>7 DEF vars, kernel
<1>8. CASE \E e \in Elements : DeleteFlow(e)
  BY <1>2, <1>8 DEF DeleteFlow
<1>9. CASE SampleBegin \/ SampleRestart \/ SampleEnd \/ (\E e \in Elements : SampleRow(e))
  BY <1>2, <1>9 DEF SampleBegin, SampleRestart, SampleEnd, SampleRow, kernel
<1>. QED
  BY <1>3, <1>4, <1>5, <1>6, <1>7, <1>8, <1>9 DEF Next

-----------------------------------------------------------------------------
(* The threads.                                                              *)

\* The parts of InvThreads and InvNow about one thread.
ThreadOK(t, o, a, fl) ==
    /\ o # <<>> => o[1].key[1] = t
    /\ a # None =>
          /\ a.key[1] = t
          /\ a.step = "add" => a.element \in Elements
          /\ a.step = "newflow" => \A e \in Elements : fl[e].key # a.key

\* No key of the map is new in the other threads' eyes.
LEMMA ThreadsKeep ==
    ASSUME InvThreads, NEW t \in Threads, ThreadOK(t, owed'[t], acct'[t], flows'),
           \A s \in Threads : s # t => owed'[s] = owed[s] /\ acct'[s] = acct[s],
           \A f \in Elements : flows'[f].key = flows[f].key \/ flows'[f].key[1] = t
    PROVE  InvThreads'
<1>1. ASSUME NEW s \in Threads PROVE ThreadOK(s, owed'[s], acct'[s], flows')
  <2>1. CASE s = t
    BY <2>1
  <2>2. CASE s # t
    <3>1. ThreadOK(s, owed[s], acct[s], flows)
      BY DEF InvThreads, ThreadOK
    <3>2. owed'[s] = owed[s] /\ acct'[s] = acct[s]
      BY <2>2
    <3>3. ASSUME acct[s] # None, acct[s].step = "newflow", NEW f \in Elements
          PROVE  flows'[f].key # acct[s].key
      <4>1. flows[f].key # acct[s].key /\ acct[s].key[1] = s
        BY <3>1, <3>3 DEF ThreadOK
      <4>. QED
        BY <2>2, <4>1
    <3>. QED
      BY <3>1, <3>2, <3>3 DEF ThreadOK
  <2>. QED
    BY <2>1, <2>2
<1>. QED
  BY <1>1 DEF InvThreads, ThreadOK

\* Every step keeps what is said of the threads.
LEMMA ThreadsStep ==
    ASSUME IInv, [Next]_vars
    PROVE  InvThreads'
<1>1. Typed /\ InvThreads /\ flows \in FlowMaps
  BY DEF IInv, Typed, TypeOK, FlowMaps, Flows
<1>2. \A t \in Threads : ThreadOK(t, owed[t], acct[t], flows)
  BY <1>1 DEF InvThreads, ThreadOK
<1>3. CASE UNCHANGED <<owed, acct, flows>>
  BY <1>1, <1>3 DEF InvThreads
<1>4. CASE \E t \in Threads : \E sock \in Ops, mapped \in BOOLEAN, e \in Endpoints \cup {Unknown},
              full \in BOOLEAN, size \in Sizes : SocketCall(t, sock, mapped, e, full, size)
  <2>1. PICK t \in Threads, sock \in Ops, mapped \in BOOLEAN, e \in Endpoints \cup {Unknown},
              full \in BOOLEAN, size \in Sizes : SocketCall(t, sock, mapped, e, full, size)
    BY <1>4
  <2>2. /\ \A s \in Threads : s # t => owed'[s] = owed[s]
        /\ owed'[t] # <<>> => owed'[t][1].key[1] = t
    BY <1>1, <2>1, CallOwes
  <2>3. UNCHANGED <<acct, flows>>
    BY <2>1 DEF SocketCall
  <2>4. ThreadOK(t, owed'[t], acct'[t], flows')
    BY <1>2, <2>2, <2>3 DEF ThreadOK
  <2>. QED
    BY <1>1, <2>2, <2>3, <2>4, ThreadsKeep
<1>5. CASE \E t \in Threads : TrafficAccount(t)
  <2>1. PICK t \in Threads : TrafficAccount(t)
    BY <1>5
  <2>2. /\ owed[t] # <<>> /\ owed'[t] = <<>>
        /\ \A s \in Threads : s # t => acct'[s] = acct[s] /\ owed'[s] = owed[s]
        /\ acct'[t].key = owed[t][1].key /\ acct'[t].step \in {"process", "flow"}
    BY <1>1, <2>1, AccountTakes
  <2>3. flows' = flows
    BY <2>1 DEF TrafficAccount
  <2>4. ThreadOK(t, owed'[t], acct'[t], flows')
    BY <1>2, <2>2 DEF ThreadOK
  <2>. QED
    BY <1>1, <2>2, <2>3, <2>4, ThreadsKeep
<1>6. CASE \E t \in Threads : InsertProcess(t)
  <2>1. PICK t \in Threads : InsertProcess(t)
    BY <1>6
  <2>2. acct[t] # None /\ Continue(t, "flow", None)
    BY <1>1, <2>1, InsertTakes
  <2>3. /\ \A s \in Threads : s # t => acct'[s] = acct[s]
        /\ acct'[t].step = "flow" /\ acct'[t].key = acct[t].key
    BY <1>1, <2>2, ContinueTypes
  <2>4. UNCHANGED <<owed, flows>>
    BY <2>1 DEF InsertProcess
  <2>5. ThreadOK(t, owed'[t], acct'[t], flows')
    BY <1>2, <2>2, <2>3, <2>4 DEF ThreadOK
  <2>. QED
    BY <1>1, <2>3, <2>4, <2>5, ThreadsKeep
<1>7. CASE \E t \in Threads : AccountFlow(t) \/ InsertFlow(t) \/ AddFlow(t)
  <2>1. PICK t \in Threads : AccountFlow(t) \/ InsertFlow(t) \/ AddFlow(t)
    BY <1>7
  <2>2. /\ owed' = owed /\ \A s \in Threads : s # t => acct'[s] = acct[s]
        /\ acct[t] # None
        /\ \/ acct'[t] = None
           \/ /\ acct'[t] # None /\ acct'[t].step \in {"newflow", "add"}
              /\ acct'[t].key = acct[t].key
              /\ acct'[t].step = "add" => acct'[t].element \in Elements
    BY <2>1, FlowSteps
  <2>3. acct[t].key[1] = t
    BY <1>2, <2>2 DEF ThreadOK
  <2>4. \A f \in Elements : flows'[f].key = flows[f].key \/ flows'[f].key[1] = t
    <3>1. CASE AccountFlow(t)
      BY <3>1 DEF AccountFlow
    <3>2. CASE InsertFlow(t)
      BY <2>3, <3>2, InsertView DEF Placed
    <3>3. CASE AddFlow(t)
      BY <3>3, AddView DEF AddedTo
    <3>. QED
      BY <2>1, <3>1, <3>2, <3>3
  <2>5. ASSUME acct'[t] # None, acct'[t].step = "newflow"
        PROVE  \A e \in Elements : flows'[e].key # acct'[t].key
    <3>1. CASE AccountFlow(t)
      <4>1. flows' = flows
        BY <3>1 DEF AccountFlow
      <4>2. CASE \E e \in Elements : Continue(t, "add", e)
        <5>1. acct'[t].step = "add"
          BY <1>1, <2>2, <4>2, ContinueTypes
        <5>. QED
          BY <2>5, <5>1
      <4>3. CASE Holding(acct[t].key) = {}
        BY <2>2, <2>5, <4>1, <4>3 DEF Holding
      <4>. QED
        BY <3>1, <4>2, <4>3 DEF AccountFlow, Holding
    <3>2. CASE InsertFlow(t)
      <4>1. CASE acct' = [acct EXCEPT ![t] = None]
        BY <1>1, <2>5, <4>1, DoneTypes
      <4>2. CASE \E e \in Elements : Continue(t, "add", e)
        <5>1. acct'[t].step = "add"
          BY <1>1, <2>2, <4>2, ContinueTypes
        <5>. QED
          BY <2>5, <5>1
      <4>. QED
        BY <3>2, <4>1, <4>2, InsertView
    <3>3. CASE AddFlow(t)
      BY <1>1, <2>5, <3>3, AddView, DoneTypes
    <3>. QED
      BY <2>1, <3>1, <3>2, <3>3
  <2>6. ThreadOK(t, owed'[t], acct'[t], flows')
    BY <1>2, <2>2, <2>3, <2>5 DEF ThreadOK
  <2>. QED
    BY <1>1, <2>2, <2>4, <2>6, ThreadsKeep
<1>8. CASE \E e \in Elements : DeleteFlow(e)
  <2>1. Thinned
    BY <1>8, DeleteView
  <2>2. UNCHANGED <<owed, acct>>
    BY <1>8 DEF DeleteFlow
  <2>3. ASSUME NEW s \in Threads, acct[s] # None, acct[s].step = "newflow", NEW e \in Elements
        PROVE  flows'[e].key # acct[s].key
    <3>1. acct[s].key \in Keys
      BY <1>1, <2>3, ThreadTypes, AccountTypes
    <3>2. acct[s].key # None
      BY <3>1, NoneAssumption
    <3>3. flows[e].key # acct[s].key
      BY <1>2, <2>3 DEF ThreadOK
    <3>. QED
      BY <2>1, <3>2, <3>3 DEF Thinned
  <2>. QED
    BY <1>1, <2>2, <2>3 DEF InvThreads
<1>9. CASE UNCHANGED vars
  BY <1>3, <1>9 DEF vars, kernel
<1>10. CASE SampleBegin \/ SampleRestart \/ SampleEnd \/ (\E e \in Elements : SampleRow(e))
  BY <1>3, <1>10 DEF SampleBegin, SampleRestart, SampleEnd, SampleRow, kernel
<1>. QED
  BY <1>4, <1>5, <1>6, <1>7, <1>8, <1>9, <1>10 DEF Next

\* Every step leaves a flow in one element only.
LEMMA UniqueStep ==
    ASSUME IInv, [Next]_vars
    PROVE  Unique(flows')
<1>1. Unique(flows)
  BY DEF IInv
<1>2. CASE flows' = flows
  BY <1>1, <1>2
<1>3. CASE \E t \in Threads : InsertFlow(t)
  <2>1. PICK t \in Threads : InsertFlow(t)
    BY <1>3
  <2>. QED
    BY <1>2, <2>1, InsertView DEF Placed
<1>4. CASE \E t \in Threads : AddFlow(t)
  BY <1>4, AddView DEF AddedTo
<1>5. CASE \E e \in Elements : DeleteFlow(e)
  BY <1>5, DeleteView DEF Thinned
<1>6. CASE \E t \in Threads : \E sock \in Ops, mapped \in BOOLEAN, e \in Endpoints \cup {Unknown},
              full \in BOOLEAN, size \in Sizes : SocketCall(t, sock, mapped, e, full, size)
  BY <1>2, <1>6 DEF SocketCall
<1>9. CASE \E t \in Threads : TrafficAccount(t) \/ InsertProcess(t) \/ AccountFlow(t)
  BY <1>2, <1>9 DEF TrafficAccount, InsertProcess, AccountFlow
<1>7. CASE UNCHANGED vars
  BY <1>2, <1>7 DEF vars, kernel
<1>8. CASE SampleBegin \/ SampleRestart \/ SampleEnd \/ (\E e \in Elements : SampleRow(e))
  BY <1>2, <1>8 DEF SampleBegin, SampleRestart, SampleEnd, SampleRow, kernel
<1>. QED
  BY <1>3, <1>4, <1>5, <1>6, <1>7, <1>8, <1>9 DEF Next

\* An account is begun at a time that is past from then on.
LEMMA NowStep ==
    ASSUME IInv, [Next]_vars
    PROVE  InvNow'
<1>1. Typed /\ InvNow /\ now \in Nat
  BY DEF IInv, Typed, TypeOK
<1>2. \A t \in Threads : acct[t] # None => acct[t].at \in Nat
  BY <1>1, ThreadTypes, AccountTypes
<1>3. CASE acct' = acct /\ now' \in {now, now + 1}
  BY <1>1, <1>2, <1>3 DEF InvNow
<1>4. CASE \E t \in Threads : TrafficAccount(t)
  <2>1. PICK t \in Threads : TrafficAccount(t)
    BY <1>4
  <2>2. /\ now' = now + 1 /\ acct'[t].at = now
        /\ \A s \in Threads : s # t => acct'[s] = acct[s]
    BY <1>1, <2>1, AccountTakes
  <2>. QED
    BY <1>1, <1>2, <2>2 DEF InvNow
<1>5. CASE \E t \in Threads : InsertProcess(t) \/ AccountFlow(t) \/ InsertFlow(t) \/ AddFlow(t)
  <2>1. PICK t \in Threads : InsertProcess(t) \/ AccountFlow(t) \/ InsertFlow(t) \/ AddFlow(t)
    BY <1>5
  <2>2. /\ now' = now /\ acct[t] # None /\ (acct'[t] = None \/ acct'[t].at = acct[t].at)
        /\ \A s \in Threads : s # t => acct'[s] = acct[s]
    <3>1. CASE InsertProcess(t)
      <4>1. now' = now
        BY <3>1 DEF InsertProcess
      <4>2. acct[t] # None /\ Continue(t, "flow", None)
        BY <1>1, <3>1, InsertTakes
      <4>. QED
        BY <1>1, <4>1, <4>2, ContinueTypes
    <3>2. CASE AccountFlow(t) \/ InsertFlow(t) \/ AddFlow(t)
      BY <3>2, FlowSteps
    <3>. QED
      BY <2>1, <3>1, <3>2
  <2>. QED
    BY <1>1, <2>2 DEF InvNow
<1>6. CASE \E t \in Threads : \E sock \in Ops, mapped \in BOOLEAN, e \in Endpoints \cup {Unknown},
              full \in BOOLEAN, size \in Sizes : SocketCall(t, sock, mapped, e, full, size)
  BY <1>3, <1>6 DEF SocketCall
<1>7. CASE UNCHANGED vars
  BY <1>3, <1>7 DEF vars, kernel
<1>8. CASE \E e \in Elements : DeleteFlow(e)
  BY <1>3, <1>8 DEF DeleteFlow
<1>9. CASE SampleBegin \/ SampleRestart \/ SampleEnd \/ (\E e \in Elements : SampleRow(e))
  BY <1>3, <1>9 DEF SampleBegin, SampleRestart, SampleEnd, SampleRow, kernel
<1>. QED
  BY <1>4, <1>5, <1>6, <1>7, <1>8, <1>9 DEF Next

-----------------------------------------------------------------------------
(* The end of a sample.                                                      *)

\* The generation of a record is one that was seen.
GenerationSeen(u, row, rec) ==
    \/ rec # None /\ u.generation = rec.generation
    \/ row # None /\ u.generation = row.first

\* What the end of a sample leaves of one flow.
Ended(k, u) ==
    /\ KeyOK(now, Element(k), None, walk.rows[k], u)
    /\ u # None =>
          Sampled(walk.time, walk.rows[k], u) /\ GenerationSeen(u, walk.rows[k], history[k])
    /\ u = None => history[k] = None
    /\ u = None /\ walk.rows[k] # None /\ walk.rows[k].bytes > 0 =>
          Cardinality(Known') = HistoryCapacity

\* A flow whose row goes into the history: it has no record and lost no bytes
\* to a full history, or its record agrees with the previous sample.
LEMMA EndInto ==
    ASSUME IInv, walk # None, NEW kept, Recorded(kept), NEW k \in Keys, k \in Into(kept)
    PROVE  Ended(k, history'[k])
<1>. DEFINE row == walk.rows[k]
            prev == previous[k]
            rec == history[k]
            u == Updated(rec, row, Delta(row, prev))
<1>1. Typed /\ InvKeys /\ InvSampled
  BY DEF IInv
<1>2. history'[k] = u /\ kept \subseteq Shown \ Known
  BY DEF Recorded
<1>3. walk.rows \in [Keys -> Values \cup {None}] /\ report \in Nat
  BY <1>1, WalkTypes DEF Typed, TypeOK
<1>4. row \in Values /\ row # None
  BY <1>2, <1>3, NoneAssumption DEF Into, Shown
<1>5. KeyOK(now, Element(k), row, prev, rec)
  BY <1>1 DEF InvKeys, Row
<1>6. rec # None => Sampled(report, prev, rec)
  BY <1>1 DEF InvSampled
<1>7. ASSUME rec = None, prev # None PROVE prev.bytes = 0
  <2>1. k \in kept
    BY <1>7 DEF Into, Known
  <2>2. Cardinality(Known) # HistoryCapacity
    BY <2>1 DEF Recorded
  <2>3. ~(prev.bytes > 0)
    BY <1>1, <1>7, <2>2 DEF InvSampled
  <2>4. prev.bytes \in Nat
    BY <1>5, <1>7, PastTypes DEF KeyOK
  <2>. QED
    BY <2>3, <2>4
<1>. HIDE DEF row, prev, rec
<1>8. RecordOf(u, row)
  BY <1>3, <1>4, <1>5, <1>6, <1>7, UpdateSound
<1>. HIDE DEF u
<1>9. KeyOK(now, Element(k), None, row, u) /\ Sampled(walk.time, row, u)
  BY <1>4, <1>5, <1>8, KeySample
<1>10. u # None /\ u.generation = row.first
  BY <1>8, RecordTypes DEF RecordOf, Good
<1>11. KeyOK(now, Element(k), None, walk.rows[k], u) /\ Sampled(walk.time, walk.rows[k], u)
       /\ GenerationSeen(u, walk.rows[k], history[k])
  BY <1>4, <1>9, <1>10 DEF row, GenerationSeen
<1>. QED
  BY <1>2, <1>10, <1>11 DEF Ended

\* A flow whose row does not: it has none worth showing, or the history is full.
LEMMA EndSkip ==
    ASSUME IInv, walk # None, NEW kept, Recorded(kept), NEW k \in Keys, k \notin Into(kept)
    PROVE  Ended(k, history'[k])
<1>. DEFINE row == walk.rows[k]
            prev == previous[k]
            rec == history[k]
<1>1. Typed /\ InvKeys /\ InvSampled
  BY DEF IInv
<1>2. history'[k] = rec
  BY DEF Recorded
<1>3. KeyOK(now, Element(k), row, prev, rec)
  BY <1>1 DEF InvKeys, Row
<1>4. rec # None => rec.generation < walk.time
  BY <1>1 DEF InvSampled
<1>5. rec # None => row = None \/ row.last = 0
  BY DEF Into, Shown, Known
<1>6. ASSUME rec = None, row # None, row.bytes > 0
      PROVE  Cardinality(Known') = HistoryCapacity
  <2>1. row.last # 0
    <3>1. Past(now, row)
      BY <1>3, <1>6 DEF KeyOK
    <3>. QED
      BY <1>6, <3>1 DEF Past
  <2>2. k \in Shown \ Known /\ k \notin kept
    BY <1>6, <2>1 DEF Into, Shown, Known
  <2>. QED
    BY <2>2 DEF Recorded
<1>. HIDE DEF row, prev, rec
<1>7. KeyOK(now, Element(k), None, row, rec)
  BY <1>3, KeyMove
<1>8. rec # None => Sampled(walk.time, row, rec)
  BY <1>3, <1>4, <1>5, SampledSkip
<1>9. rec # None => GenerationSeen(rec, row, rec)
  BY DEF GenerationSeen
<1>. QED
  BY <1>2, <1>6, <1>7, <1>8, <1>9 DEF Ended, row, rec

\* So much for every flow.
LEMMA EndKeys ==
    ASSUME IInv, SampleEnd
    PROVE  /\ walk # None /\ walk' = None /\ now' = now /\ acct' = acct /\ flows' = flows
           /\ report' = walk.time
           /\ \A k \in Keys : previous'[k] = walk.rows[k] /\ Ended(k, history'[k])
<1>1. walk # None /\ walk' = None /\ previous' = walk.rows /\ report' = walk.time
  BY EndView
<1>2. PICK kept : Recorded(kept)
  BY EndView
<1>3. now' = now /\ acct' = acct /\ flows' = flows
  BY DEF SampleEnd, kernel
<1>4. \A k \in Keys : Ended(k, history'[k])
  BY <1>1, <1>2, EndInto, EndSkip
<1>. QED
  BY <1>1, <1>3, <1>4

-----------------------------------------------------------------------------
(* What is known of each flow.                                               *)

\* A step that leaves the sampler and what the map holds alone.
LEMMA KeysStay ==
    ASSUME Typed, Typed', InvKeys, now <= now', UNCHANGED <<flows, previous, history>>,
           \A k \in Keys : Row(k)' = Row(k)
    PROVE  InvKeys'
<1>1. now \in Nat /\ now' \in Nat
  BY DEF Typed, TypeOK
<1>2. ASSUME NEW k \in Keys
      PROVE  KeyOK(now', ElementIn(flows', k), Row(k)', previous'[k], history'[k])
  <2>1. KeyOK(now, ElementIn(flows, k), Row(k), previous[k], history[k])
    BY DEF InvKeys, Element
  <2>2. KeyOK(now', ElementIn(flows, k), Row(k), previous[k], history[k])
    BY <1>1, <2>1, KeyLater
  <2>. QED
    BY <2>2
<1>. QED
  BY <1>2 DEF InvKeys, Element

\* A step in which flows only go.
LEMMA KeysThin ==
    ASSUME InvKeys, now' = now, UNCHANGED <<previous, history>>, Thinned,
           \A k \in Keys : Row(k)' = Row(k)
    PROVE  InvKeys'
<1>1. ASSUME NEW k \in Keys
      PROVE  KeyOK(now', ElementIn(flows', k), Row(k)', previous'[k], history'[k])
  <2>1. KeyOK(now, ElementIn(flows, k), Row(k), previous[k], history[k])
    BY DEF InvKeys, Element
  <2>2. KeyOK(now, None, Row(k), previous[k], history[k])
    BY <2>1, KeyDrop
  <2>3. ElementIn(flows', k) \in {None, ElementIn(flows, k)}
    BY DEF Thinned
  <2>4. KeyOK(now, ElementIn(flows', k), Row(k), previous[k], history[k])
    BY <2>1, <2>2, <2>3
  <2>. QED
    BY <2>4
<1>. QED
  BY <1>1 DEF InvKeys, Element

\* A flow is inserted: its thread found it gone, so all that was seen of it is
\* older.
LEMMA KeysInsert ==
    ASSUME IInv, NEW t \in Threads, InsertFlow(t)
    PROVE  InvKeys'
<1>1. Typed /\ InvKeys /\ InvOlder /\ InvNow /\ InvThreads /\ now \in Nat
  BY DEF IInv, Typed, TypeOK
<1>2. UNCHANGED <<now, walk, previous, history>>
  BY DEF InsertFlow, sampler
<1>3. \A k \in Keys : Row(k)' = Row(k)
  BY <1>2 DEF Row
<1>4. acct[t] # None /\ acct[t].step = "newflow" /\ acct[t] \in Accounts
  BY InsertView
<1>. DEFINE j == acct[t].key
            at == acct[t].at
<1>5. j \in Keys /\ j[1] = t /\ at \in Nat /\ at >= 1 /\ at < now
  BY <1>1, <1>4, AccountTypes DEF InvThreads, InvNow
<1>6. CASE flows' = flows
  BY <1>1, <1>2, <1>3, <1>6 DEF InvKeys, Element
<1>7. CASE ElementIn(flows, j) = None /\ Placed(j, Fresh(at))
  <2>1. OlderThan(at, None, Row(j), previous[j], history[j])
    BY <1>1, <1>4, <1>5, <1>7 DEF InvOlder, OlderThan, Element
  <2>. HIDE DEF j, at
  <2>2. ASSUME NEW k \in Keys
        PROVE  KeyOK(now, ElementIn(flows', k), Row(k), previous[k], history[k])
    <3>1. KeyOK(now, ElementIn(flows, k), Row(k), previous[k], history[k])
      BY <1>1 DEF InvKeys, Element
    <3>2. KeyOK(now, None, Row(k), previous[k], history[k])
      BY <3>1, KeyDrop
    <3>3. CASE k = j
      <4>1. ElementIn(flows', k) = Fresh(at)
        BY <1>7, <3>3 DEF Placed
      <4>2. KeyOK(now, None, Row(j), previous[j], history[j])
        BY <3>2, <3>3
      <4>3. KeyOK(now, Fresh(at), Row(j), previous[j], history[j])
        BY <1>1, <1>5, <2>1, <4>2, KeyInsert DEF Fresh
      <4>. QED
        BY <3>3, <4>1, <4>3
    <3>4. CASE k # j
      <4>1. ElementIn(flows', k) \in {None, ElementIn(flows, k)}
        BY <1>7, <3>4 DEF Placed
      <4>. QED
        BY <3>1, <3>2, <4>1
    <3>. QED
      BY <3>3, <3>4
  <2>. QED
    BY <1>2, <1>3, <2>2 DEF InvKeys, Element
<1>. QED
  BY <1>6, <1>7, InsertView

\* Bytes are added to a flow.
LEMMA KeysAdd ==
    ASSUME IInv, NEW t \in Threads, AddFlow(t)
    PROVE  InvKeys'
<1>1. Typed /\ InvKeys /\ InvNow /\ now \in Nat
  BY DEF IInv, Typed, TypeOK
<1>2. UNCHANGED <<now, walk, previous, history>>
  BY DEF AddFlow, sampler
<1>3. \A k \in Keys : Row(k)' = Row(k)
  BY <1>2 DEF Row
<1>4. acct[t] # None /\ acct[t] \in Accounts
  BY AddView
<1>. DEFINE n == acct[t].size
            at == acct[t].at
<1>5. n \in Nat /\ at \in Nat /\ at >= 1
  BY <1>1, <1>4, AccountTypes DEF InvNow
<1>6. PICK j \in Keys \cup {None} : AddedTo(j, n, at)
  BY AddView
<1>. HIDE DEF n, at
<1>7. ASSUME NEW k \in Keys
      PROVE  KeyOK(now, ElementIn(flows', k), Row(k), previous[k], history[k])
  <2>1. KeyOK(now, ElementIn(flows, k), Row(k), previous[k], history[k])
    BY <1>1 DEF InvKeys, Element
  <2>2. CASE k = j
    <3>1. ElementIn(flows, k) \in Values /\ ElementIn(flows', k) = Added(ElementIn(flows, k), n, at)
      BY <1>6, <2>2, NoneAssumption DEF AddedTo
    <3>2. KeyOK(now, Added(ElementIn(flows, k), n, at), Row(k), previous[k], history[k])
      BY <1>1, <1>5, <2>1, <3>1, KeyAdd
    <3>. QED
      BY <3>1, <3>2
  <2>3. CASE k # j
    <3>1. ElementIn(flows', k) = ElementIn(flows, k)
      BY <1>6, <2>3 DEF AddedTo
    <3>. QED
      BY <2>1, <3>1
  <2>. QED
    BY <2>2, <2>3
<1>. QED
  BY <1>2, <1>3, <1>7 DEF InvKeys, Element

\* The walk reads an element.
LEMMA KeysRow ==
    ASSUME IInv, NEW e \in Elements, SampleRow(e)
    PROVE  InvKeys'
<1>1. InvKeys /\ now \in Nat
  BY DEF IInv, Typed, TypeOK
<1>2. UNCHANGED <<now, flows, previous, history>>
  BY DEF SampleRow, kernel
<1>3. ASSUME NEW k \in Keys
      PROVE  KeyOK(now, ElementIn(flows, k), Row(k)', previous[k], history[k])
  <2>1. KeyOK(now, ElementIn(flows, k), Row(k), previous[k], history[k])
    BY <1>1 DEF InvKeys, Element
  <2>2. CASE Row(k)' = Row(k)
    BY <2>1, <2>2
  <2>3. CASE ElementIn(flows, k) \in Values /\ Row(k)' = Newer(Row(k), ElementIn(flows, k))
    <3>1. KeyOK(now, ElementIn(flows, k), Newer(Row(k), ElementIn(flows, k)),
                previous[k], history[k])
      BY <1>1, <2>1, <2>3, KeySee
    <3>. QED
      BY <2>3, <3>1
  <2>. QED
    BY <2>2, <2>3, RowView DEF Element
<1>. QED
  BY <1>2, <1>3 DEF InvKeys, Element

\* The sample ends.
LEMMA KeysEnd ==
    ASSUME IInv, SampleEnd
    PROVE  InvKeys'
<1>1. walk # None /\ walk' = None /\ now' = now /\ flows' = flows
      /\ \A k \in Keys : previous'[k] = walk.rows[k] /\ Ended(k, history'[k])
  BY EndKeys
<1>2. ASSUME NEW k \in Keys
      PROVE  KeyOK(now', ElementIn(flows', k), Row(k)', previous'[k], history'[k])
  <2>1. Row(k)' = None /\ previous'[k] = walk.rows[k]
    BY <1>1 DEF Row
  <2>2. KeyOK(now, ElementIn(flows, k), None, walk.rows[k], history'[k])
    BY <1>1 DEF Ended, Element
  <2>. QED
    BY <1>1, <2>1, <2>2
<1>. QED
  BY <1>2 DEF InvKeys, Element

\* Every step keeps what is known of each flow.
LEMMA KeysStep ==
    ASSUME IInv, [Next]_vars
    PROVE  InvKeys'
<1>1. Typed /\ InvKeys /\ Typed' /\ now \in Nat
  BY TypeStep DEF IInv, Typed, TypeOK
<1>2. CASE now' \in {now, now + 1} /\ UNCHANGED <<flows, walk, previous, history>>
  <2>1. \A k \in Keys : Row(k)' = Row(k)
    BY <1>2 DEF Row
  <2>. QED
    BY <1>1, <1>2, <2>1, KeysStay
<1>3. CASE \E t \in Threads : \E sock \in Ops, mapped \in BOOLEAN, e \in Endpoints \cup {Unknown},
              full \in BOOLEAN, size \in Sizes : SocketCall(t, sock, mapped, e, full, size)
  BY <1>2, <1>3 DEF SocketCall, sampler
<1>4. CASE \E t \in Threads : TrafficAccount(t) \/ InsertProcess(t) \/ AccountFlow(t)
  BY <1>2, <1>4 DEF TrafficAccount, InsertProcess, AccountFlow, sampler
<1>5. CASE \E t \in Threads : InsertFlow(t)
  BY <1>5, KeysInsert
<1>6. CASE \E t \in Threads : AddFlow(t)
  BY <1>6, KeysAdd
<1>7. CASE \E e \in Elements : DeleteFlow(e)
  <2>1. Thinned /\ SameRows
    BY <1>1, <1>7, DeleteView, DeleteRows
  <2>2. now' = now /\ UNCHANGED <<previous, history>>
    BY <1>7 DEF DeleteFlow
  <2>. QED
    BY <1>1, <2>1, <2>2, KeysThin DEF SameRows
<1>8. CASE \E e \in Elements : SampleRow(e)
  BY <1>8, KeysRow
<1>9. CASE SampleBegin
  <2>1. now' = now + 1 /\ \A k \in Keys : Row(k)' = Row(k)
    BY <1>1, <1>9, BeginView
  <2>2. UNCHANGED <<flows, previous, history>>
    BY <1>9 DEF SampleBegin, kernel
  <2>. QED
    BY <1>1, <2>1, <2>2, KeysStay
<1>10. CASE SampleRestart
  <2>1. \A k \in Keys : Row(k)' = Row(k)
    BY <1>1, <1>10, RestartRows DEF SameRows
  <2>2. now' = now /\ UNCHANGED <<flows, previous, history>>
    BY <1>10 DEF SampleRestart, kernel
  <2>. QED
    BY <1>1, <2>1, <2>2, KeysStay
<1>11. CASE SampleEnd
  BY <1>11, KeysEnd
<1>12. CASE UNCHANGED vars
  BY <1>2, <1>12 DEF vars, kernel, sampler
<1>. QED
  BY <1>3, <1>4, <1>5, <1>6, <1>7, <1>8, <1>9, <1>10, <1>11, <1>12 DEF Next

-----------------------------------------------------------------------------
(* What a thread is about to look up is older than its account.              *)

\* The account of s goes on, or is as it was, and has not found its flow.
Searching(s) ==
    /\ acct'[s] # None /\ acct'[s].step # "add"
    /\ acct[s] # None /\ acct[s].step # "add" /\ acct'[s].at = acct[s].at

KeyOlder(s, k) == OlderThan(acct[s].at, Element(k), Row(k), previous[k], history[k])

\* An argument by threads and flows.
LEMMA OlderKeep ==
    ASSUME InvOlder,
           \A s \in Threads : acct'[s] # None /\ acct'[s].step # "add" => Searching(s),
           \A s \in Threads, k \in Keys : Searching(s) /\ k[1] = s /\ KeyOlder(s, k) =>
              OlderThan(acct[s].at, ElementIn(flows', k), Row(k)', previous'[k], history'[k])
    PROVE  InvOlder'
<1>1. ASSUME NEW s \in Threads, acct'[s] # None, acct'[s].step # "add", NEW k \in Keys, k[1] = s
      PROVE  OlderThan(acct'[s].at, ElementIn(flows', k), Row(k)', previous'[k], history'[k])
  <2>1. Searching(s) /\ acct'[s].at = acct[s].at
    BY <1>1 DEF Searching
  <2>2. KeyOlder(s, k)
    BY <1>1, <2>1 DEF InvOlder, KeyOlder, Searching
  <2>3. OlderThan(acct[s].at, ElementIn(flows', k), Row(k)', previous'[k], history'[k])
    BY <1>1, <2>1, <2>2
  <2>. QED
    BY <2>1, <2>3
<1>. QED
  BY <1>1 DEF InvOlder, Element

\* A step that changes nothing of the flows, and no account but to go on.
LEMMA OlderStay ==
    ASSUME InvOlder, flows' = flows, UNCHANGED <<previous, history>>,
           \A k \in Keys : Row(k)' = Row(k),
           \A s \in Threads : acct'[s] # None /\ acct'[s].step # "add" => Searching(s)
    PROVE  InvOlder'
<1>1. ASSUME NEW s \in Threads, NEW k \in Keys, KeyOlder(s, k)
      PROVE  OlderThan(acct[s].at, ElementIn(flows', k), Row(k)', previous'[k], history'[k])
  BY <1>1 DEF KeyOlder, Element
<1>. QED
  BY <1>1, OlderKeep

\* traffic_account begins at the present time.
LEMMA OlderAccount ==
    ASSUME IInv, NEW t \in Threads, TrafficAccount(t)
    PROVE  InvOlder'
<1>1. Typed /\ InvOlder /\ InvKeys
  BY DEF IInv
<1>2. acct'[t].at = now /\ \A s \in Threads : s # t => acct'[s] = acct[s]
  BY <1>1, AccountTakes
<1>3. UNCHANGED <<flows, walk, previous, history>>
  BY DEF TrafficAccount, sampler
<1>4. \A k \in Keys : Row(k)' = Row(k)
  BY <1>3 DEF Row
<1>5. ASSUME NEW s \in Threads, acct'[s] # None, acct'[s].step # "add", NEW k \in Keys, k[1] = s
      PROVE  OlderThan(acct'[s].at, ElementIn(flows, k), Row(k), previous[k], history[k])
  <2>1. CASE s = t
    <3>1. KeyOK(now, ElementIn(flows, k), Row(k), previous[k], history[k])
      BY <1>1 DEF InvKeys, Element
    <3>2. OlderThan(now, ElementIn(flows, k), Row(k), previous[k], history[k])
      BY <3>1 DEF KeyOK, Past, OlderThan
    <3>. QED
      BY <1>2, <2>1, <3>2
  <2>2. CASE s # t
    BY <1>1, <1>2, <1>5, <2>2 DEF InvOlder, Element
  <2>. QED
    BY <2>1, <2>2
<1>. QED
  BY <1>3, <1>4, <1>5 DEF InvOlder, Element

\* The insertion of a flow ends the search of its thread.
LEMMA OlderInsert ==
    ASSUME IInv, NEW t \in Threads, InsertFlow(t)
    PROVE  InvOlder'
<1>1. Typed /\ InvOlder /\ InvThreads
  BY DEF IInv
<1>2. acct[t] # None /\ acct[t].key[1] = t
  BY <1>1, InsertView DEF InvThreads
<1>3. UNCHANGED <<walk, previous, history>>
  BY DEF InsertFlow, sampler
<1>4. \A k \in Keys : Row(k)' = Row(k)
  BY <1>3 DEF Row
<1>5. (acct'[t] = None \/ acct'[t].step = "add") /\ \A s \in Threads : s # t => acct'[s] = acct[s]
  <2>1. CASE acct' = [acct EXCEPT ![t] = None]
    BY <1>1, <2>1, DoneTypes
  <2>2. CASE \E e \in Elements : Continue(t, "add", e)
    BY <1>1, <1>2, <2>2, ContinueTypes
  <2>. QED
    BY <2>1, <2>2, InsertView
<1>6. \A s \in Threads : acct'[s] # None /\ acct'[s].step # "add" => Searching(s) /\ s # t
  BY <1>5 DEF Searching
<1>7. \A k \in Keys : k[1] # t => ElementIn(flows', k) \in {None, ElementIn(flows, k)}
  BY <1>2, InsertView DEF Placed
<1>8. ASSUME NEW s \in Threads, NEW k \in Keys, Searching(s), k[1] = s, KeyOlder(s, k)
      PROVE  OlderThan(acct[s].at, ElementIn(flows', k), Row(k)', previous'[k], history'[k])
  <2>1. s # t
    BY <1>6, <1>8 DEF Searching
  <2>2. ElementIn(flows', k) \in {None, ElementIn(flows, k)}
    BY <1>7, <1>8, <2>1
  <2>. QED
    BY <1>3, <1>4, <1>8, <2>2 DEF KeyOlder, OlderThan, Element
<1>. QED
  BY <1>1, <1>6, <1>8, OlderKeep

\* An addition changes no generation.
LEMMA OlderAdd ==
    ASSUME IInv, NEW t \in Threads, AddFlow(t)
    PROVE  InvOlder'
<1>1. Typed /\ InvOlder
  BY DEF IInv
<1>2. acct'[t] = None /\ \A s \in Threads : s # t => acct'[s] = acct[s]
  BY <1>1, AddView, DoneTypes
<1>3. UNCHANGED <<walk, previous, history>>
  BY DEF AddFlow, sampler
<1>4. \A k \in Keys : Row(k)' = Row(k)
  BY <1>3 DEF Row
<1>5. PICK j \in Keys \cup {None} : AddedTo(j, acct[t].size, acct[t].at)
  BY AddView
<1>6. ASSUME NEW k \in Keys
      PROVE  \/ ElementIn(flows', k) = ElementIn(flows, k)
             \/ /\ ElementIn(flows, k) # None
                /\ ElementIn(flows', k).first = ElementIn(flows, k).first
  <2>1. CASE k = j
    <3>1. ElementIn(flows, k) \in Values
          /\ ElementIn(flows', k) = Added(ElementIn(flows, k), acct[t].size, acct[t].at)
      BY <1>5, <2>1, NoneAssumption DEF AddedTo
    <3>. QED
      BY <3>1, ValueTypes DEF Added
  <2>2. CASE k # j
    BY <1>5, <2>2 DEF AddedTo
  <2>. QED
    BY <2>1, <2>2
<1>7. \A s \in Threads : acct'[s] # None /\ acct'[s].step # "add" => Searching(s)
  BY <1>2 DEF Searching
<1>8. ASSUME NEW s \in Threads, NEW k \in Keys, KeyOlder(s, k)
      PROVE  OlderThan(acct[s].at, ElementIn(flows', k), Row(k)', previous'[k], history'[k])
  BY <1>3, <1>4, <1>6, <1>8 DEF KeyOlder, OlderThan, Element
<1>. QED
  BY <1>1, <1>7, <1>8, OlderKeep

\* A deletion, a row that is read, and the end of a sample show no generation
\* that was not seen.
LEMMA OlderSample ==
    ASSUME IInv, SampleEnd \/ (\E e \in Elements : DeleteFlow(e) \/ SampleRow(e))
    PROVE  InvOlder'
<1>1. Typed /\ InvOlder /\ InvKeys /\ now \in Nat
  BY DEF IInv, Typed, TypeOK
<1>2. acct' = acct
  BY DEF SampleEnd, DeleteFlow, SampleRow, kernel
<1>3. \A s \in Threads : acct'[s] # None /\ acct'[s].step # "add" => Searching(s)
  BY <1>2 DEF Searching
<1>4. ASSUME NEW s \in Threads, NEW k \in Keys, KeyOlder(s, k)
      PROVE  OlderThan(acct[s].at, ElementIn(flows', k), Row(k)', previous'[k], history'[k])
  <2>1. OlderThan(acct[s].at, ElementIn(flows, k), Row(k), previous[k], history[k])
    BY <1>4 DEF KeyOlder, Element
  <2>2. CASE SampleEnd
    <3>1. /\ walk # None /\ walk' = None /\ flows' = flows
          /\ previous'[k] = walk.rows[k] /\ Ended(k, history'[k])
      BY <2>2, EndKeys
    <3>2. Row(k)' = None /\ Row(k) = walk.rows[k]
      BY <3>1 DEF Row
    <3>3. history'[k] # None => GenerationSeen(history'[k], walk.rows[k], history[k])
      BY <3>1 DEF Ended
    <3>. QED
      BY <2>1, <3>1, <3>2, <3>3 DEF OlderThan, GenerationSeen
  <2>3. CASE \E e \in Elements : DeleteFlow(e)
    <3>1. Thinned /\ SameRows
      BY <1>1, <2>3, DeleteView, DeleteRows
    <3>2. UNCHANGED <<previous, history>>
      BY <2>3 DEF DeleteFlow
    <3>. QED
      BY <2>1, <3>1, <3>2 DEF Thinned, SameRows, OlderThan
  <2>4. CASE \E e \in Elements : SampleRow(e)
    <3>1. flows' = flows /\ UNCHANGED <<previous, history>>
      BY <2>4 DEF SampleRow, kernel
    <3>2. \/ Row(k)' = Row(k)
          \/ Element(k) \in Values /\ Row(k)' = Newer(Row(k), Element(k))
      BY <2>4, RowView
    <3>3. Row(k)' = Row(k) \/ (Row(k)' = Element(k) /\ Element(k) # None)
      BY <3>2, ValueTypes DEF Newer
    <3>. QED
      BY <2>1, <3>1, <3>3 DEF OlderThan, Element
  <2>. QED
    BY <2>2, <2>3, <2>4
<1>. QED
  BY <1>1, <1>3, <1>4, OlderKeep

\* Every step keeps InvOlder.
LEMMA OlderStep ==
    ASSUME IInv, [Next]_vars
    PROVE  InvOlder'
<1>1. Typed /\ InvOlder
  BY DEF IInv
<1>2. CASE UNCHANGED <<acct, flows, previous, history>> /\ \A k \in Keys : Row(k)' = Row(k)
  <2>1. \A s \in Threads : acct'[s] # None /\ acct'[s].step # "add" => Searching(s)
    BY <1>2 DEF Searching
  <2>. QED
    BY <1>1, <1>2, <2>1, OlderStay
<1>3. CASE \E t \in Threads : \E sock \in Ops, mapped \in BOOLEAN, e \in Endpoints \cup {Unknown},
              full \in BOOLEAN, size \in Sizes : SocketCall(t, sock, mapped, e, full, size)
  BY <1>2, <1>3 DEF SocketCall, sampler, Row
<1>4. CASE \E t \in Threads : TrafficAccount(t)
  BY <1>4, OlderAccount
<1>5. CASE \E t \in Threads : InsertProcess(t) \/ AccountFlow(t)
  <2>1. PICK t \in Threads : InsertProcess(t) \/ AccountFlow(t)
    BY <1>5
  <2>2. UNCHANGED <<flows, walk, previous, history>>
    BY <2>1 DEF InsertProcess, AccountFlow, sampler
  <2>3. \A k \in Keys : Row(k)' = Row(k)
    BY <2>2 DEF Row
  <2>4. acct[t] # None /\ acct[t].step # "add"
    BY <2>1 DEF InsertProcess, AccountFlow
  <2>5. \/ Continue(t, "flow", None) \/ Continue(t, "newflow", None)
        \/ \E e \in Elements : Continue(t, "add", e)
    BY <2>1 DEF InsertProcess, AccountFlow, Holding
  <2>6. acct'[t].at = acct[t].at /\ \A s \in Threads : s # t => acct'[s] = acct[s]
    BY <1>1, <2>4, <2>5, ContinueTypes
  <2>7. \A s \in Threads : acct'[s] # None /\ acct'[s].step # "add" => Searching(s)
    BY <2>4, <2>6 DEF Searching
  <2>. QED
    BY <1>1, <2>2, <2>3, <2>7, OlderStay
<1>6. CASE \E t \in Threads : InsertFlow(t) \/ AddFlow(t)
  BY <1>6, OlderInsert, OlderAdd
<1>7. CASE SampleEnd \/ (\E e \in Elements : DeleteFlow(e) \/ SampleRow(e))
  BY <1>7, OlderSample
<1>8. CASE SampleBegin
  <2>1. \A k \in Keys : Row(k)' = Row(k)
    BY <1>1, <1>8, BeginView
  <2>. QED
    BY <1>2, <1>8, <2>1 DEF SampleBegin, kernel
<1>9. CASE SampleRestart
  <2>1. \A k \in Keys : Row(k)' = Row(k)
    BY <1>1, <1>9, RestartRows DEF SameRows
  <2>. QED
    BY <1>2, <1>9, <2>1 DEF SampleRestart, kernel
<1>10. CASE UNCHANGED vars
  BY <1>2, <1>10 DEF vars, kernel, sampler, Row
<1>. QED
  BY <1>3, <1>4, <1>5, <1>6, <1>7, <1>8, <1>9, <1>10 DEF Next

\* Every step keeps the records in agreement with the last sample.
LEMMA SampledStep ==
    ASSUME IInv, [Next]_vars
    PROVE  InvSampled'
<1>1. Typed /\ InvSampled /\ InvKeys
  BY DEF IInv
<1>2. CASE /\ UNCHANGED <<report, previous, history>>
           /\ (walk' = None \/ (walk # None /\ walk'.time = walk.time))
  BY <1>1, <1>2 DEF InvSampled, Known
<1>3. CASE \E t \in Threads : \E sock \in Ops, mapped \in BOOLEAN, e \in Endpoints \cup {Unknown},
              full \in BOOLEAN, size \in Sizes : SocketCall(t, sock, mapped, e, full, size)
  BY <1>2, <1>3 DEF SocketCall, sampler
<1>4. CASE \E t \in Threads : TrafficAccount(t) \/ InsertProcess(t) \/ AccountFlow(t)
                              \/ InsertFlow(t) \/ AddFlow(t)
  BY <1>2, <1>4 DEF TrafficAccount, InsertProcess, AccountFlow, InsertFlow, AddFlow, sampler
<1>5. CASE \E e \in Elements : DeleteFlow(e)
  <2>1. SameRows
    BY <1>1, <1>5, DeleteRows
  <2>2. UNCHANGED <<report, previous, history>>
    BY <1>5 DEF DeleteFlow
  <2>. QED
    BY <1>2, <2>1, <2>2 DEF SameRows
<1>6. CASE \E e \in Elements : SampleRow(e)
  <2>1. walk # None /\ walk'.time = walk.time
    BY <1>6, RowView
  <2>2. UNCHANGED <<report, previous, history>>
    BY <1>6 DEF SampleRow
  <2>. QED
    BY <1>2, <2>1, <2>2
<1>7. CASE SampleRestart
  <2>1. SameRows
    BY <1>1, <1>7, RestartRows
  <2>2. UNCHANGED <<report, previous, history>>
    BY <1>7 DEF SampleRestart
  <2>. QED
    BY <1>2, <2>1, <2>2 DEF SameRows
<1>8. CASE SampleBegin
  <2>1. walk'.time = now /\ UNCHANGED <<report, previous, history>>
    BY <1>1, <1>8, BeginView DEF SampleBegin
  <2>2. \A k \in Keys : history[k] # None => history[k].generation < now
    BY <1>1 DEF InvKeys, KeyOK
  <2>. QED
    BY <1>1, <2>1, <2>2 DEF InvSampled, Known
<1>9. CASE SampleEnd
  <2>1. /\ walk' = None /\ report' = walk.time
        /\ \A k \in Keys : previous'[k] = walk.rows[k] /\ Ended(k, history'[k])
    BY <1>9, EndKeys
  <2>. QED
    BY <2>1 DEF InvSampled, Ended
<1>10. CASE UNCHANGED vars
  BY <1>2, <1>10 DEF vars, sampler
<1>. QED
  BY <1>3, <1>4, <1>5, <1>6, <1>7, <1>8, <1>9, <1>10 DEF Next

-----------------------------------------------------------------------------
(* The history stays within reach of the totals.                             *)

\* What a flow can come to is a number, and what is shown of it is no more.
LEMMA KeyReach ==
    ASSUME NEW n, NEW el, NEW row, NEW prev, NEW rec, KeyOK(n, el, row, prev, rec)
    PROVE  /\ Reach(rec, row, el) \in Nat /\ TotalOf(rec) \in Nat
           /\ TotalOf(rec) <= Reach(rec, row, el)
<1>1. ValueOr(el) /\ ValueOr(row) /\ GoodOr(rec)
  BY KeyTypes
<1>2. TotalOf(rec) \in Nat
  BY <1>1, GoodTypes DEF GoodOr, TotalOf
<1>. QED
  BY <1>1, <1>2, ReachType

\* At most n bytes come within reach, those of the flow j.
LEMMA ReachOne ==
    ASSUME InvKeys, InvKeys', NEW j \in Keys, NEW n \in Nat,
           Reach(history'[j], Row(j)', ElementIn(flows', j)) <= ReachOf(j) + n,
           \A k \in Keys : k # j =>
              Reach(history'[k], Row(k)', ElementIn(flows', k)) <= ReachOf(k)
    PROVE  ReachBytes \in Nat /\ ReachBytes' \in Nat /\ ReachBytes' <= ReachBytes + n
<1>. DEFINE f == [k \in Keys |-> ReachOf(k)]
            g == [k \in Keys |-> Reach(history'[k], Row(k)', ElementIn(flows', k))]
            h == [k \in Keys |-> IF k = j THEN ReachOf(j) + n ELSE ReachOf(k)]
<1>1. \A k \in Keys : ReachOf(k) \in Nat
  BY KeyReach DEF InvKeys, ReachOf
<1>2. \A k \in Keys : Reach(history'[k], Row(k)', ElementIn(flows', k)) \in Nat
  BY KeyReach DEF InvKeys, Element
<1>3. \A k \in Keys : f[k] \in Nat /\ g[k] \in Nat /\ h[k] \in Nat /\ g[k] <= h[k]
  BY <1>1, <1>2
<1>4. f[j] = ReachOf(j) /\ h[j] = ReachOf(j) + n /\ \A k \in Keys \ {j} : h[k] = f[k]
  OBVIOUS
<1>5. ReachBytes = SumFunctionOnSet(f, Keys) /\ ReachBytes' = SumFunctionOnSet(g, Keys)
  BY DEF ReachBytes, ReachOf, Element
<1>. HIDE DEF f, g, h
<1>6. IsFiniteSet(Keys)
  BY FiniteKeys
<1>7. \A k \in Keys : f[k] \in Int /\ g[k] \in Int /\ h[k] \in Int
  BY <1>3
<1>8. SumFunctionOnSet(f, Keys) \in Nat /\ SumFunctionOnSet(g, Keys) \in Nat
  BY <1>3, <1>6, SumType
<1>9. SumFunctionOnSet(h, Keys) = SumFunctionOnSet(f, Keys) + (h[j] - f[j])
  BY <1>4, <1>6, <1>7, SumChange
<1>10. SumFunctionOnSet(g, Keys) <= SumFunctionOnSet(h, Keys)
  BY <1>3, <1>6, <1>7, SumMonotone
<1>11. ReachOf(j) \in Nat
  BY <1>1
<1>. QED
  BY <1>4, <1>5, <1>8, <1>9, <1>10, <1>11

\* Nothing more comes within reach.
LEMMA ReachLess ==
    ASSUME InvKeys, InvKeys',
           \A k \in Keys : Reach(history'[k], Row(k)', ElementIn(flows', k)) <= ReachOf(k)
    PROVE  ReachBytes \in Nat /\ ReachBytes' \in Nat /\ ReachBytes' <= ReachBytes
<1>. DEFINE f == [k \in Keys |-> ReachOf(k)]
            g == [k \in Keys |-> Reach(history'[k], Row(k)', ElementIn(flows', k))]
<1>1. \A k \in Keys : ReachOf(k) \in Nat
  BY KeyReach DEF InvKeys, ReachOf
<1>2. \A k \in Keys : Reach(history'[k], Row(k)', ElementIn(flows', k)) \in Nat
  BY KeyReach DEF InvKeys, Element
<1>3. \A k \in Keys : f[k] \in Nat /\ g[k] \in Nat /\ g[k] <= f[k]
  BY <1>1, <1>2
<1>4. ReachBytes = SumFunctionOnSet(f, Keys) /\ ReachBytes' = SumFunctionOnSet(g, Keys)
  BY DEF ReachBytes, ReachOf, Element
<1>. HIDE DEF f, g
<1>5. SumFunctionOnSet(f, Keys) \in Nat /\ SumFunctionOnSet(g, Keys) \in Nat
  BY <1>3, FiniteKeys, SumType
<1>6. SumFunctionOnSet(g, Keys) <= SumFunctionOnSet(f, Keys)
  <2>1. \A k \in Keys : g[k] \in Int /\ f[k] \in Int /\ g[k] <= f[k]
    BY <1>3
  <2>. QED
    BY <2>1, FiniteKeys, SumMonotone
<1>. QED
  BY <1>4, <1>5, <1>6

\* Nothing of the flows changes.
LEMMA ReachSame ==
    ASSUME InvKeys, InvKeys', UNCHANGED <<flows, history>>, \A k \in Keys : Row(k)' = Row(k)
    PROVE  ReachBytes \in Nat /\ ReachBytes' \in Nat /\ ReachBytes' <= ReachBytes
<1>1. \A k \in Keys : ReachOf(k) \in Nat
  BY KeyReach DEF InvKeys, ReachOf
<1>2. \A k \in Keys : Reach(history'[k], Row(k)', ElementIn(flows', k)) = ReachOf(k)
  BY DEF ReachOf, Element
<1>3. \A k \in Keys : Reach(history'[k], Row(k)', ElementIn(flows', k)) <= ReachOf(k)
  BY <1>1, <1>2
<1>. QED
  BY <1>3, ReachLess

\* The insertion of a flow: it has no bytes, and another may go.
LEMMA ReachInsertFlow ==
    ASSUME IInv, InvKeys', NEW t \in Threads, InsertFlow(t)
    PROVE  ReachBytes \in Nat /\ ReachBytes' \in Nat /\ ReachBytes' <= ReachBytes
<1>1. Typed /\ InvKeys
  BY DEF IInv
<1>2. UNCHANGED <<walk, previous, history>>
  BY DEF InsertFlow, sampler
<1>3. \A k \in Keys : Row(k)' = Row(k)
  BY <1>2 DEF Row
<1>4. CASE flows' = flows
  BY <1>1, <1>2, <1>3, <1>4, ReachSame
<1>5. CASE /\ ElementIn(flows, acct[t].key) = None
           /\ Placed(acct[t].key, Fresh(acct[t].at))
  <2>. DEFINE j == acct[t].key
              v == Fresh(acct[t].at)
  <2>1. ElementIn(flows, j) = None /\ Placed(j, v)
    BY <1>5
  <2>2. v \in Values /\ v.first >= 1 /\ v.bytes = 0
    <3>1. acct[t].at \in Nat /\ acct[t].at >= 1
      BY <1>1, InsertView, AccountTypes DEF IInv, InvNow
    <3>. QED
      BY <3>1 DEF Fresh, Values
  <2>. HIDE DEF j, v
  <2>3. ASSUME NEW k \in Keys
        PROVE  Reach(history[k], Row(k), ElementIn(flows', k)) <= ReachOf(k)
    <3>1. KeyOK(now, ElementIn(flows, k), Row(k), previous[k], history[k])
      BY <1>1 DEF InvKeys, Element
    <3>2. ValueOr(ElementIn(flows, k)) /\ ValueOr(Row(k)) /\ GoodOr(history[k])
      BY <3>1, KeyTypes
    <3>3. Reach(history[k], Row(k), ElementIn(flows, k)) \in Nat
      BY <3>1, KeyReach
    <3>4. ReachOf(k) = Reach(history[k], Row(k), ElementIn(flows, k))
      BY DEF ReachOf, Element
    <3>5. Reach(history[k], Row(k), None) <= Reach(history[k], Row(k), ElementIn(flows, k))
      BY <3>2, ReachDrop
    <3>6. CASE k = j
      <4>1. ElementIn(flows', k) = v
        BY <2>1, <3>6 DEF Placed
      <4>2. Reach(history[k], Row(k), v) = Reach(history[k], Row(k), None)
        BY <2>2, <3>2, ReachInsert
      <4>. QED
        BY <3>4, <3>5, <4>1, <4>2
    <3>7. CASE k # j
      <4>1. ElementIn(flows', k) = None \/ ElementIn(flows', k) = ElementIn(flows, k)
        BY <2>1, <3>7 DEF Placed
      <4>. QED
        BY <3>3, <3>4, <3>5, <4>1
    <3>. QED
      BY <3>6, <3>7
  <2>4. \A k \in Keys : Reach(history'[k], Row(k)', ElementIn(flows', k)) <= ReachOf(k)
    BY <1>2, <1>3, <2>3
  <2>. QED
    BY <1>1, <2>4, ReachLess
<1>. QED
  BY <1>4, <1>5, InsertView

\* The addition to a flow: at most the bytes that are added.
LEMMA ReachAddFlow ==
    ASSUME IInv, InvKeys', NEW t \in Threads, AddFlow(t)
    PROVE  ReachBytes \in Nat /\ ReachBytes' \in Nat /\ ReachBytes' <= ReachBytes + acct[t].size
<1>1. Typed /\ InvKeys
  BY DEF IInv
<1>2. UNCHANGED <<walk, previous, history>>
  BY DEF AddFlow, sampler
<1>3. \A k \in Keys : Row(k)' = Row(k)
  BY <1>2 DEF Row
<1>. DEFINE n == acct[t].size
            at == acct[t].at
<1>4. n \in Nat /\ at \in Nat
  BY AddView, AccountTypes
<1>5. PICK j \in Keys \cup {None} : AddedTo(j, n, at)
  BY AddView
<1>. HIDE DEF n, at
<1>6. ASSUME NEW k \in Keys
      PROVE  /\ ReachOf(k) \in Nat
             /\ k # j => Reach(history'[k], Row(k)', ElementIn(flows', k)) <= ReachOf(k)
             /\ k = j => Reach(history'[k], Row(k)', ElementIn(flows', k)) <= ReachOf(k) + n
  <2>1. KeyOK(now, ElementIn(flows, k), Row(k), previous[k], history[k])
    BY <1>1 DEF InvKeys, Element
  <2>2. ValueOr(ElementIn(flows, k)) /\ ValueOr(Row(k)) /\ GoodOr(history[k])
    BY <2>1, KeyTypes
  <2>3. Reach(history[k], Row(k), ElementIn(flows, k)) \in Nat
    BY <2>1, KeyReach
  <2>4. ReachOf(k) = Reach(history[k], Row(k), ElementIn(flows, k))
    BY DEF ReachOf, Element
  <2>5. CASE k = j
    <3>1. ElementIn(flows, k) \in Values /\ ElementIn(flows', k) = Added(ElementIn(flows, k), n, at)
      BY <1>5, <2>5, NoneAssumption DEF AddedTo
    <3>2. ElementIn(flows, k).first >= 1
      BY <2>2, <3>1, ValueTypes DEF ValueOr
    <3>3. Reach(history[k], Row(k), Added(ElementIn(flows, k), n, at))
            <= Reach(history[k], Row(k), ElementIn(flows, k)) + n
      BY <1>4, <2>2, <3>1, <3>2, ReachAdd
    <3>. QED
      BY <1>2, <1>3, <2>3, <2>4, <2>5, <3>1, <3>3
  <2>6. CASE k # j
    <3>1. ElementIn(flows', k) = ElementIn(flows, k)
      BY <1>5, <2>6 DEF AddedTo
    <3>. QED
      BY <1>2, <1>3, <2>3, <2>4, <2>6, <3>1
  <2>. QED
    BY <2>5, <2>6
<1>7. CASE j \in Keys
  <2>1. ReachBytes \in Nat /\ ReachBytes' \in Nat /\ ReachBytes' <= ReachBytes + n
    BY <1>1, <1>4, <1>6, <1>7, ReachOne
  <2>. QED
    BY <2>1 DEF n
<1>8. CASE j \notin Keys
  <2>1. \A k \in Keys : Reach(history'[k], Row(k)', ElementIn(flows', k)) <= ReachOf(k)
    BY <1>6, <1>8
  <2>2. ReachBytes \in Nat /\ ReachBytes' \in Nat /\ ReachBytes' <= ReachBytes
    BY <1>1, <2>1, ReachLess
  <2>. QED
    BY <1>4, <2>2 DEF n
<1>. QED
  BY <1>7, <1>8

\* A deletion, a row that is read, and the end of a sample.
LEMMA ReachSampler ==
    ASSUME IInv, InvKeys', SampleEnd \/ (\E e \in Elements : DeleteFlow(e) \/ SampleRow(e))
    PROVE  ReachBytes \in Nat /\ ReachBytes' \in Nat /\ ReachBytes' <= ReachBytes
<1>1. Typed /\ InvKeys
  BY DEF IInv
<1>2. ASSUME NEW k \in Keys
      PROVE  Reach(history'[k], Row(k)', ElementIn(flows', k)) <= ReachOf(k)
  <2>1. KeyOK(now, ElementIn(flows, k), Row(k), previous[k], history[k])
    BY <1>1 DEF InvKeys, Element
  <2>2. ValueOr(ElementIn(flows, k)) /\ ValueOr(Row(k)) /\ GoodOr(history[k])
    BY <2>1, KeyTypes
  <2>3. Reach(history[k], Row(k), ElementIn(flows, k)) \in Nat
    BY <2>1, KeyReach
  <2>4. ReachOf(k) = Reach(history[k], Row(k), ElementIn(flows, k))
    BY DEF ReachOf, Element
  <2>5. CASE \E e \in Elements : DeleteFlow(e)
    <3>1. /\ Row(k)' = Row(k)
          /\ (ElementIn(flows', k) = None \/ ElementIn(flows', k) = ElementIn(flows, k))
      BY <1>1, <2>5, DeleteView, DeleteRows DEF Thinned, SameRows
    <3>2. history' = history
      BY <2>5 DEF DeleteFlow
    <3>3. Reach(history[k], Row(k), None) <= Reach(history[k], Row(k), ElementIn(flows, k))
      BY <2>2, ReachDrop
    <3>. QED
      BY <2>3, <2>4, <3>1, <3>2, <3>3
  <2>6. CASE \E e \in Elements : SampleRow(e)
    <3>. DEFINE v == ElementIn(flows, k)
    <3>1. flows' = flows /\ history' = history
      BY <2>6 DEF SampleRow, kernel
    <3>2. \/ Row(k)' = Row(k)
          \/ v \in Values /\ Row(k)' = Newer(Row(k), v)
      BY <2>6, RowView DEF Element
    <3>. HIDE DEF v
    <3>3. Row(k)' = Row(k) \/ (v \in Values /\ Row(k)' = v)
      BY <3>2 DEF Newer
    <3>4. CASE Row(k)' = Row(k)
      BY <2>3, <2>4, <3>1, <3>4
    <3>5. CASE v \in Values /\ Row(k)' = v
      <4>1. v.first >= 1
        BY <2>2, <3>5, ValueTypes DEF ValueOr, v
      <4>2. Reach(history[k], v, v) <= Reach(history[k], Row(k), v)
        BY <2>2, <3>5, <4>1, ReachSee
      <4>. QED
        BY <2>4, <3>1, <3>5, <4>2 DEF v
    <3>. QED
      BY <3>3, <3>4, <3>5
  <2>7. CASE SampleEnd
    <3>. DEFINE v == ElementIn(flows, k)
                row == walk.rows[k]
                rec == history[k]
                d == Delta(row, previous[k])
    <3>1. walk # None /\ walk' = None /\ flows' = flows
      BY <2>7, EndKeys
    <3>2. PICK kept : Recorded(kept)
      BY <2>7, EndView
    <3>3. Row(k)' = None /\ Row(k) = row
      BY <3>1 DEF Row
    <3>4. CASE k \in Into(kept)
      <4>1. history'[k] = Updated(rec, row, d)
        BY <3>2, <3>4 DEF Recorded
      <4>2. row \in Values
        <5>1. walk.rows \in [Keys -> Values \cup {None}] /\ kept \subseteq Shown \ Known
          BY <1>1, <3>1, <3>2, WalkTypes DEF Recorded
        <5>. QED
          BY <3>4, <5>1 DEF Into, Shown
      <4>3. d \in Nat \cup {None}
        BY <1>1, <4>2, DeltaIs DEF Typed, TypeOK
      <4>4. ValueOr(v) /\ ValueOr(row) /\ GoodOr(rec)
        BY <2>2, <3>3
      <4>. HIDE DEF v, row, rec, d
      <4>5. row.first >= 1
        BY <4>2, <4>4, ValueTypes DEF ValueOr
      <4>6. Reach(Updated(rec, row, d), None, v) <= Reach(rec, row, v)
        BY <4>2, <4>3, <4>4, <4>5, ReachKeep
      <4>. QED
        BY <2>4, <3>1, <3>3, <4>1, <4>6 DEF v, rec
    <3>5. CASE k \notin Into(kept)
      <4>1. history'[k] = rec
        BY <3>2, <3>5 DEF Recorded
      <4>2. Reach(rec, None, v) <= Reach(rec, Row(k), v)
        BY <2>2, ReachSkip
      <4>. QED
        BY <2>4, <3>1, <3>3, <4>1, <4>2
    <3>. QED
      BY <3>4, <3>5
  <2>. QED
    BY <2>5, <2>6, <2>7
<1>. QED
  BY <1>1, <1>2, ReachLess

\* The bytes under way are a number.
LEMMA UnaddedType ==
    ASSUME Typed
    PROVE  UnaddedBytes \in Nat
<1>. DEFINE f == [s \in Threads |-> UnaddedIn(acct[s])]
<1>1. <<>> \in Seq(Ios) /\ Len(<<>>) <= 1
  OBVIOUS
<1>2. \A s \in Threads : acct[s] \in Accounts \cup {None}
  BY DEF Typed, TypeOK
<1>3. \A s \in Threads : f[s] \in Nat
  BY <1>1, <1>2, OwedType
<1>4. UnaddedBytes = SumFunctionOnSet(f, Threads)
  BY DEF UnaddedBytes, Unadded
<1>. HIDE DEF f
<1>. QED
  BY <1>3, <1>4, FiniteKeys, SumType

\* Every step keeps what is within reach below the totals.
LEMMA ReachStep ==
    ASSUME IInv, [Next]_vars
    PROVE  InvReach'
<1>1. Typed /\ InvReach /\ InvKeys /\ InvKeys' /\ Typed' /\ totals \in Nat
  BY TypeStep, KeysStep DEF IInv, Typed, TypeOK
<1>2. UnaddedBytes \in Nat
  BY <1>1, UnaddedType
<1>3. ReachBytes + UnaddedBytes <= totals
  BY <1>1 DEF InvReach
<1>4. CASE /\ ReachBytes \in Nat /\ ReachBytes' \in Nat /\ ReachBytes' <= ReachBytes
           /\ acct' = acct /\ totals' = totals
  <2>1. UnaddedBytes' = UnaddedBytes
    BY <1>4 DEF UnaddedBytes, Unadded
  <2>2. /\ ReachBytes \in Nat /\ ReachBytes' \in Nat /\ ReachBytes' <= ReachBytes
        /\ totals' = totals
    BY <1>4
  <2>3. totals \in Nat
    BY <1>1
  <2>4. ReachBytes' + UnaddedBytes <= totals
    <3>. DEFINE a == ReachBytes
                b == ReachBytes'
                c == UnaddedBytes
                d == totals
    <3>1. a \in Nat /\ b \in Nat /\ b <= a
      BY <2>2
    <3>2. c \in Nat /\ d \in Nat /\ a + c <= d
      BY <1>2, <1>3, <2>3
    <3>. HIDE DEF a, b, c, d
    <3>3. b + c <= d
      BY <3>1, <3>2
    <3>. QED
      BY <3>3 DEF b, c, d
  <2>. QED
    BY <2>1, <2>2, <2>4 DEF InvReach
<1>5. CASE UNCHANGED <<acct, totals, flows, history>> /\ \A k \in Keys : Row(k)' = Row(k)
  BY <1>1, <1>4, <1>5, ReachSame
<1>6. CASE \E t \in Threads : \E sock \in Ops, mapped \in BOOLEAN, e \in Endpoints \cup {Unknown},
              full \in BOOLEAN, size \in Sizes : SocketCall(t, sock, mapped, e, full, size)
  BY <1>5, <1>6 DEF SocketCall, sampler, Row
<1>7. CASE \E t \in Threads : TrafficAccount(t)
  <2>1. PICK t \in Threads : TrafficAccount(t)
    BY <1>7
  <2>. DEFINE size == owed[t][1].size
  <2>2. /\ acct[t] = None /\ totals' = totals + size /\ acct'[t] # None /\ acct'[t].size = size
        /\ \A s \in Threads : s # t => acct'[s] = acct[s]
    BY <1>1, <2>1, AccountTakes
  <2>3. size \in Nat
    BY <1>1, <2>1, AccountTakes, IoTypes
  <2>4. UnaddedBytes' \in Nat /\ UnaddedBytes' = UnaddedBytes + (Unadded(t)' - Unadded(t))
    BY <1>1, <2>2, AcctChange
  <2>5. Unadded(t) = 0 /\ Unadded(t)' = size
    BY <2>2 DEF Unadded, UnaddedIn
  <2>6. ReachBytes \in Nat /\ ReachBytes' \in Nat /\ ReachBytes' <= ReachBytes
    <3>1. UNCHANGED <<flows, history, walk>>
      BY <2>1 DEF TrafficAccount, sampler
    <3>2. \A k \in Keys : Row(k)' = Row(k)
      BY <3>1 DEF Row
    <3>. QED
      BY <1>1, <3>1, <3>2, ReachSame
  <2>. HIDE DEF size
  <2>7. ReachBytes' + UnaddedBytes' <= totals'
    BY <1>1, <1>2, <1>3, <2>2, <2>3, <2>4, <2>5, <2>6
  <2>. QED
    BY <2>7 DEF InvReach
<1>8. CASE \E t \in Threads : InsertProcess(t) \/ AccountFlow(t) \/ InsertFlow(t)
  <2>1. PICK t \in Threads : InsertProcess(t) \/ AccountFlow(t) \/ InsertFlow(t)
    BY <1>8
  <2>2. /\ totals' = totals /\ acct[t] # None
        /\ \A s \in Threads : s # t => acct'[s] = acct[s]
        /\ acct'[t] = None \/ (acct'[t] # None /\ acct'[t].size = acct[t].size)
    <3>1. CASE InsertProcess(t)
      <4>1. totals' = totals
        BY <3>1 DEF InsertProcess
      <4>2. acct[t] # None /\ Continue(t, "flow", None)
        BY <1>1, <3>1, InsertTakes
      <4>. QED
        BY <1>1, <4>1, <4>2, ContinueTypes
    <3>2. CASE AccountFlow(t) \/ InsertFlow(t)
      BY <3>2, FlowSteps
    <3>. QED
      BY <2>1, <3>1, <3>2
  <2>3. UnaddedBytes' \in Nat /\ UnaddedBytes' = UnaddedBytes + (Unadded(t)' - Unadded(t))
    BY <1>1, <2>2, AcctChange
  <2>4. acct[t].size \in Nat
    BY <1>1, <2>2, ThreadTypes, AccountTypes
  <2>5. Unadded(t) = acct[t].size /\ (Unadded(t)' = 0 \/ Unadded(t)' = acct[t].size)
    BY <2>2 DEF Unadded, UnaddedIn
  <2>6. ReachBytes \in Nat /\ ReachBytes' \in Nat /\ ReachBytes' <= ReachBytes
    <3>1. CASE InsertProcess(t) \/ AccountFlow(t)
      <4>1. UNCHANGED <<flows, history, walk>>
        BY <3>1 DEF InsertProcess, AccountFlow, sampler
      <4>2. \A k \in Keys : Row(k)' = Row(k)
        BY <4>1 DEF Row
      <4>. QED
        BY <1>1, <4>1, <4>2, ReachSame
    <3>2. CASE InsertFlow(t)
      BY <1>1, <3>2, ReachInsertFlow
    <3>. QED
      BY <2>1, <3>1, <3>2
  <2>7. ReachBytes' + UnaddedBytes' <= totals'
    BY <1>1, <1>2, <1>3, <2>2, <2>3, <2>4, <2>5, <2>6
  <2>. QED
    BY <2>7 DEF InvReach
<1>9. CASE \E t \in Threads : AddFlow(t)
  <2>1. PICK t \in Threads : AddFlow(t)
    BY <1>9
  <2>2. acct[t] # None /\ acct'[t] = None /\ \A s \in Threads : s # t => acct'[s] = acct[s]
    BY <1>1, <2>1, AddView, DoneTypes
  <2>3. totals' = totals
    BY <2>1 DEF AddFlow
  <2>4. UnaddedBytes' \in Nat /\ UnaddedBytes' = UnaddedBytes + (Unadded(t)' - Unadded(t))
    BY <1>1, <2>2, AcctChange
  <2>5. acct[t].size \in Nat
    BY <1>1, <2>2, ThreadTypes, AccountTypes
  <2>6. Unadded(t) = acct[t].size /\ Unadded(t)' = 0
    BY <2>2 DEF Unadded, UnaddedIn
  <2>7. ReachBytes \in Nat /\ ReachBytes' \in Nat /\ ReachBytes' <= ReachBytes + acct[t].size
    BY <1>1, <2>1, ReachAddFlow
  <2>8. ReachBytes' + UnaddedBytes' <= totals'
    BY <1>1, <1>2, <1>3, <2>3, <2>4, <2>5, <2>6, <2>7
  <2>. QED
    BY <2>8 DEF InvReach
<1>10. CASE SampleEnd \/ (\E e \in Elements : DeleteFlow(e) \/ SampleRow(e))
  <2>1. acct' = acct /\ totals' = totals
    BY <1>10 DEF SampleEnd, DeleteFlow, SampleRow, kernel
  <2>2. ReachBytes \in Nat /\ ReachBytes' \in Nat /\ ReachBytes' <= ReachBytes
    BY <1>1, <1>10, ReachSampler
  <2>. QED
    BY <1>4, <2>1, <2>2
<1>11. CASE SampleBegin
  <2>1. \A k \in Keys : Row(k)' = Row(k)
    BY <1>1, <1>11, BeginView
  <2>. QED
    BY <1>5, <1>11, <2>1 DEF SampleBegin, kernel
<1>12. CASE SampleRestart
  <2>1. \A k \in Keys : Row(k)' = Row(k)
    BY <1>1, <1>12, RestartRows DEF SameRows
  <2>. QED
    BY <1>5, <1>12, <2>1 DEF SampleRestart, kernel
<1>13. CASE UNCHANGED vars
  BY <1>5, <1>13 DEF vars, kernel, sampler, Row
<1>. QED
  BY <1>6, <1>7, <1>8, <1>9, <1>10, <1>11, <1>12, <1>13 DEF Next

-----------------------------------------------------------------------------
(* The theorems.                                                             *)

\* The invariant holds at first.
LEMMA InitIInv ==
    ASSUME Init
    PROVE  IInv
<1>. DEFINE zero == [first |-> 0, last |-> 0, bytes |-> 0]
<1>1. /\ now = 1 /\ totals = 0 /\ process = None /\ ios = 0 /\ moved = 0
      /\ owed = [t \in Threads |-> <<>>] /\ acct = [t \in Threads |-> None]
      /\ flows = [e \in Elements |-> [key |-> None, value |-> zero]]
      /\ dropped = [total |-> 0, process |-> 0]
      /\ walk = None /\ report = 1 /\ samples = 0
      /\ previous = [k \in Keys |-> None] /\ history = [k \in Keys |-> None]
  BY DEF Init
<1>2. /\ \A t \in Threads : owed[t] = <<>> /\ acct[t] = None
      /\ \A e \in Elements : flows[e].key = None
      /\ \A k \in Keys : previous[k] = None /\ history[k] = None
  BY <1>1
<1>3. <<>> \in Seq(Ios) /\ Len(<<>>) = 0
  BY EmptySeq
<1>4. Typed
  <2>1. zero \in Values
    BY DEF Values
  <2>2. flows \in FlowMaps
    BY <1>1, <2>1 DEF FlowMaps, Flows
  <2>3. Known = {}
    BY <1>2 DEF Known
  <2>4. Cardinality(Known) <= HistoryCapacity
    BY <2>3, FS_EmptySet, TrafficAssumption
  <2>5. /\ owed \in [Threads -> Seq(Ios)] /\ \A t \in Threads : Len(owed[t]) <= 1
        /\ acct \in [Threads -> Accounts \cup {None}]
    BY <1>1, <1>2, <1>3
  <2>6. /\ now \in Nat /\ totals \in Nat /\ moved \in Nat /\ ios \in 0..MaxIo
        /\ process \in Nat \cup {None} /\ dropped \in [total: Nat, process: Nat]
        /\ walk \in Walks \cup {None} /\ report \in Nat /\ samples \in 0..MaxSamples
    BY <1>1, TrafficAssumption
  <2>7. /\ previous \in [Keys -> Values \cup {None}] /\ history \in [Keys -> Records \cup {None}]
    BY <1>1
  <2>. QED
    BY <2>2, <2>4, <2>5, <2>6, <2>7 DEF Typed, TypeOK, FlowMaps, Flows, Ios
<1>5. OwedBytes = 0 /\ LateBytes = 0 /\ UnaddedBytes = 0
  <2>. DEFINE f == [t \in Threads |-> Owed(t)]
              g == [t \in Threads |-> Late(t)]
              h == [t \in Threads |-> Unadded(t)]
  <2>1. \A t \in Threads : f[t] = 0 /\ g[t] = 0 /\ h[t] = 0
    BY <1>2 DEF Owed, Late, Unadded, OwedIn, LateIn, UnaddedIn
  <2>. HIDE DEF f, g, h
  <2>2. SumFunctionOnSet(f, Threads) = 0 /\ SumFunctionOnSet(g, Threads) = 0
        /\ SumFunctionOnSet(h, Threads) = 0
    BY <2>1, FiniteKeys, SumZero
  <2>. QED
    BY <2>2 DEF f, g, h, OwedBytes, LateBytes, UnaddedBytes
<1>6. InvCounted
  BY <1>1, <1>5 DEF InvCounted, ProcessBytes
<1>7. InvThreads /\ InvNow /\ InvOlder
  BY <1>1, <1>2 DEF InvThreads, InvNow, InvOlder
<1>8. Unique(flows)
  BY <1>2 DEF Unique
<1>9. \A k \in Keys : Element(k) = None /\ Row(k) = None
  <2>1. \A k \in Keys : k # None
    BY NoneAssumption
  <2>2. \A k \in Keys : ElementIn(flows, k) = None
    BY <1>2, <2>1, ElementNone
  <2>. QED
    BY <1>1, <2>2 DEF Element, Row
<1>10. InvKeys
  BY <1>2, <1>9 DEF InvKeys, KeyOK
<1>11. InvSampled
  BY <1>2 DEF InvSampled
<1>12. InvReach
  <2>. DEFINE f == [k \in Keys |-> ReachOf(k)]
  <2>1. \A k \in Keys : ReachOf(k) = 0
    BY <1>2, <1>9 DEF ReachOf, Reach, Larger, Apply, TotalOf
  <2>2. \A k \in Keys : f[k] = 0
    BY <2>1
  <2>. HIDE DEF f
  <2>3. SumFunctionOnSet(f, Keys) = 0
    BY <2>2, FiniteKeys, SumZero
  <2>4. ReachBytes = 0
    BY <2>3 DEF f, ReachBytes
  <2>. QED
    BY <1>1, <1>5, <2>4 DEF InvReach
<1>. QED
  BY <1>4, <1>6, <1>7, <1>8, <1>10, <1>11, <1>12 DEF IInv

\* Every step keeps the invariant.
LEMMA NextIInv ==
    ASSUME IInv, [Next]_vars
    PROVE  IInv'
<1>1. Typed' /\ InvCounted' /\ InvThreads' /\ InvNow'
  BY TypeStep, CountedStep, ThreadsStep, NowStep
<1>2. Unique(flows)'
  <2>1. Unique(flows')
    BY UniqueStep
  <2>. QED
    BY <2>1 DEF Unique
<1>3. InvKeys' /\ InvOlder' /\ InvSampled' /\ InvReach'
  BY KeysStep, OlderStep, SampledStep, ReachStep
<1>. QED
  BY <1>1, <1>2, <1>3 DEF IInv

\* The invariant holds always.
THEOREM SpecIInv == Spec => []IInv
<1>1. Init => IInv
  BY InitIInv
<1>2. IInv /\ [Next]_vars => IInv'
  BY NextIInv
<1>. QED
  BY <1>1, <1>2, PTL DEF Spec

\* Type correctness of the maps, the probes and the sampler; the history of
\* traffic_history.c keeps within its capacity.
THEOREM TypeCorrect == Spec => []TypeOK
<1>1. IInv => TypeOK
  BY DEF IInv, Typed
<1>. QED
  BY <1>1, SpecIInv, PTL

\* traffic_account counts every byte a socket call returned once, in the totals
\* and in its process, whatever the threads interleave and even where an
\* insertion loses to another or fails.
THEOREM IoCountedOnce == Spec => []EveryIoCountedOnce
<1>1. ASSUME IInv PROVE EveryIoCountedOnce
  <2>. SUFFICES ASSUME \A t \in Threads : owed[t] = <<>> /\ acct[t] = None
                PROVE  /\ totals + dropped.total = moved
                       /\ ProcessBytes + dropped.process = moved
    BY DEF EveryIoCountedOnce, ProcessBytes
  <2>1. Typed /\ InvCounted
    BY <1>1 DEF IInv
  <2>2. OwedBytes = 0 /\ LateBytes = 0
    <3>. DEFINE f == [t \in Threads |-> Owed(t)]
                g == [t \in Threads |-> Late(t)]
    <3>1. \A t \in Threads : f[t] = 0 /\ g[t] = 0
      BY DEF Owed, Late, OwedIn, LateIn
    <3>. HIDE DEF f, g
    <3>2. SumFunctionOnSet(f, Threads) = 0 /\ SumFunctionOnSet(g, Threads) = 0
      BY <3>1, FiniteKeys, SumZero
    <3>. QED
      BY <3>2 DEF f, g, OwedBytes, LateBytes
  <2>3. /\ totals + dropped.total + 0 = moved
        /\ ProcessBytes + dropped.process + 0 + 0 = moved
    BY <2>1, <2>2 DEF InvCounted
  <2>. QED
    BY <2>1, <2>3, CountTypes
<1>. QED
  BY <1>1, SpecIInv, PTL

\* The totals traffic_history shows never add up to more than traffic_account
\* counted, although elements of the flow map are reused under a pointer, flows
\* are created again, and a walk reads a flow more than once.
THEOREM NeverOverstates == Spec => []HistoryNeverOverstates
<1>1. ASSUME IInv PROVE HistoryNeverOverstates
  <2>. DEFINE f == [k \in Keys |-> Bytes(k)]
              g == [k \in Keys |-> ReachOf(k)]
  <2>1. Typed /\ InvKeys /\ InvReach
    BY <1>1 DEF IInv
  <2>2. ASSUME NEW k \in Keys PROVE Bytes(k) \in Nat /\ ReachOf(k) \in Nat /\ Bytes(k) <= ReachOf(k)
    <3>1. KeyOK(now, Element(k), Row(k), previous[k], history[k])
      BY <2>1 DEF InvKeys
    <3>2. Bytes(k) = TotalOf(history[k])
      BY DEF Bytes, TotalOf
    <3>. QED
      BY <3>1, <3>2, KeyReach DEF ReachOf
  <2>3. \A k \in Keys : f[k] \in Nat /\ g[k] \in Nat /\ f[k] <= g[k]
    BY <2>2
  <2>4. SumFunction(f) = SumFunctionOnSet(f, Keys)
    BY DEF SumFunction, SumFunctionOnSet
  <2>5. ReachBytes = SumFunctionOnSet(g, Keys)
    BY DEF ReachBytes
  <2>. HIDE DEF f, g
  <2>6. SumFunctionOnSet(f, Keys) \in Nat /\ SumFunctionOnSet(g, Keys) \in Nat
    BY <2>3, FiniteKeys, SumType
  <2>7. SumFunctionOnSet(f, Keys) <= SumFunctionOnSet(g, Keys)
    <3>1. \A k \in Keys : f[k] \in Int /\ g[k] \in Int /\ f[k] <= g[k]
      BY <2>3
    <3>. QED
      BY <3>1, FiniteKeys, SumMonotone
  <2>8. UnaddedBytes \in Nat
    BY <2>1, UnaddedType
  <2>9. ReachBytes + UnaddedBytes <= totals /\ totals \in Nat
    BY <2>1 DEF InvReach, Typed, TypeOK
  <2>10. SumFunction(f) <= totals
    BY <2>4, <2>5, <2>6, <2>7, <2>8, <2>9
  <2>. QED
    BY <2>10 DEF HistoryNeverOverstates, f
<1>. QED
  BY <1>1, SpecIInv, PTL

\* The increments traffic_sample_deltas shows for a flow never add up to more
\* than its total, and to exactly that as long as none was marked as a gap.
THEOREM TotalsExplained == Spec => []DeltasExplainTotals
<1>1. ASSUME IInv PROVE DeltasExplainTotals
  <2>1. ASSUME NEW k \in Known PROVE Sound(history[k])
    <3>1. k \in Keys /\ history[k] # None
      BY DEF Known
    <3>. QED
      BY <1>1, <3>1 DEF IInv, InvKeys, KeyOK
  <2>. QED
    BY <2>1 DEF DeltasExplainTotals, Sound
<1>. QED
  BY <1>1, SpecIInv, PTL
=============================================================================
