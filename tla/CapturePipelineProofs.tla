----------------------- MODULE CapturePipelineProofs -----------------------
(* Theorems about CapturePipeline, for any number of CPUs, any ring size and *)
(* any number of outputs: types, the drain at the end of a queued capture,   *)
(* the final count, and where every output is and what explains a gap.       *)
(*                                                                           *)
(* Nothing here follows from the last step of trace_poll.  InvControl says   *)
(* what its places imply; InvDrained and InvLate that a ring read after the  *)
(* gate was closed holds nothing older, and of each CPU one event at most;   *)
(* InvCount bounds every copy of event_count by the outputs already counted; *)
(* InvPlaces and InvStream are the accounts of all CPUs and of each.         *)
EXTENDS CapturePipeline, Sums, SequenceTheorems

Before == {"setup", "queue", "start"}
Closing == {"lookup", "update", "stop", "stop_queue", "join"}
After == {"returned", "done"}

\* The sizes tried for a ring, as PageAssumption has them.
Halvings == CHOOSE P \in SUBSET (MinPages..DefaultPages) :
    DefaultPages \in P /\ \A p \in P \ {MinPages} : p \div 2 \in P

InvBounds ==
    /\ pages \in Halvings
    /\ Started <= MaxOutputs
    /\ \A c \in CPU : klost[c] <= outputs[c]

\* What the places of trace_poll imply.
InvControl ==
    /\ capture_async = open
    /\ capture_async => mode = "capture" /\ pc \notin {"setup", "queue", "free"} \cup After
    /\ mode = "capture" /\ pc \in {"start", "poll", "after", "read"} => capture_async
    /\ pc = "queue" => mode = "capture"
    /\ pc \in Closing => capture_async
    /\ pc # "read" => cur = NoCpu /\ todo = {}
    /\ draining =>
          mode = "capture" /\ pc \in {"read", "stop", "stop_queue", "join", "free"} \cup After
    /\ mode = "capture" /\ pc \in {"stop", "stop_queue", "join", "free"} => draining
    /\ rc # "none" => pc \in After
    /\ rc = "ok" => err \notin Errors /\ (mode = "capture" => draining)
    /\ ended => draining /\ pc \in {"stop_queue", "join", "free"} \cup After
    /\ unsent # 0 => pc \in After

\* Nothing happens before the gate is opened.
InvBefore ==
    /\ pc \in Before => /\ ~ready
                        /\ \A c \in CPU : prog[c] = "idle" /\ ring[c] = <<>>
    /\ pc \in {"setup", "queue"} => accepted = <<>> /\ refused = Q!Nothing

\* A ring holds records made after the gate was closed only when it is, and
\* of the one program that may then still be past it.
InvLate ==
    \A c \in CPU :
        /\ ready \/ prog[c] = "gated" => \A i \in DOMAIN ring[c] : ~ring[c][i].late
        /\ \A i, j \in DOMAIN ring[c] :
              /\ ring[c][i].late /\ ring[c][i].lost = 0
              /\ ring[c][j].late /\ ring[c][j].lost = 0
              => i = j

\* In the final drain a ring already taken holds only late records behind
\* the part taken.
InvDrained ==
    draining /\ err \notin Errors =>
        /\ ~ready
        /\ \A c \in CPU \ todo : \A i \in DOMAIN ring[c] :
              (cur = c => i > snap) => ring[c][i].late

\* Which of the ways to the trace is used.
InvModes ==
    /\ mode = "capture" => discarded = 0 /\ direct = <<>>
    /\ mode # "capture" => accepted = <<>> /\ refused = Q!Nothing
    /\ discarded # 0 => stop
    /\ ended /\ pc \in {"free"} \cup After => exported = accepted
    /\ mode = "terminal" /\ (\E j \in DOMAIN direct : direct[j].lost > 0) => stop

\* The outputs whose program has written the count.
Counted == [c \in CPU |-> outputs[c] - (IF prog[c] \in {"read", "write"} THEN 1 ELSE 0)]
InvCount ==
    /\ \A c \in CPU : Counted[c] >= 0
    /\ event_count <= SumFunction(Counted)
    /\ saved <= SumFunction(Counted)
    /\ final <= SumFunction(Counted)
    /\ \A c \in CPU : prog[c] = "write" => tmp[c] <= SumFunction(Counted)

\* The account of all CPUs.
InvPlaces == EveryOutputIsSomewhere

\* What records p + 1 to k of r stand for, and what the records of CPU c
\* among the first k of s do.
Run(r, p, k) == SumFunctionOnSet(Weights(r), p + 1 .. k)
Share(s, c, k) == SumFunctionOnSet(Weights(s), {j \in 1..k : s[j].cpu = c})

\* How far the reader is in the ring of c, and the outputs of c it has passed.
From(c) == IF cur = c THEN pos ELSE 0
Passed(c) == outputs[c] - klost[c] - Run(ring[c], From(c), Len(ring[c]))

\* The account of one CPU, while its ring is open.
InvStream ==
    pc \notin After => \A c \in CPU :
        /\ \A k \in From(c) + 1 .. Len(ring[c]) :
              /\ ring[c][k].cpu = c
              /\ ring[c][k].lost = 0 =>
                    ring[c][k].seq - 1 = Passed(c) + Run(ring[c], From(c), k - 1)
        /\ mode # "capture" /\ ~stop => Passed(c) = Share(direct, c, Len(direct))
        /\ mode = "capture" =>
              Passed(c) - Share(accepted, c, Len(accepted)) \in 0..refused.events + refused.lost

IInv ==
    /\ TypeOK /\ InvBounds
    /\ InvControl /\ InvBefore /\ InvLate /\ InvDrained /\ InvModes
    /\ InvCount /\ InvPlaces /\ InvStream /\ GapsExplained

---------------------------------------------------------------------------
(* Records and what they stand for *)

\* What a record of trace_poll stands for, and the types of its fields.
LEMMA StandsType ==
    ASSUME NEW m \in Messages
    PROVE  Stands(m) \in Nat \ {0} /\ m.lost \in 0..MaxOutputs /\ m.late \in BOOLEAN
           /\ m.cpu \in CPU /\ m.seq \in 0..MaxOutputs
BY SlotAssumption DEF Stands, Messages

\* The weights of a sequence of records, one for each of them.
LEMMA WeightsType ==
    ASSUME NEW s \in Seq(Messages)
    PROVE  /\ DOMAIN Weights(s) = 1..Len(s) /\ DOMAIN s = 1..Len(s) /\ Len(s) \in Nat
           /\ \A i \in 1..Len(s) : /\ s[i] \in Messages
                                   /\ Weights(s)[i] = Stands(s[i])
                                   /\ Weights(s)[i] \in Nat
                                   /\ Weights(s)[i] \in Int
<1>1. DOMAIN s = 1..Len(s) /\ Len(s) \in Nat /\ \A i \in 1..Len(s) : s[i] \in Messages
  BY ElementOfSeq
<1>2. \A m \in Messages : Stands(m) \in Nat
  BY StandsType
<1>. QED
  BY <1>1, <1>2 DEF Weights

\* A run of records stands for a natural number of outputs.
LEMMA RunType ==
    ASSUME NEW s \in Seq(Messages), NEW p \in Nat, NEW k \in Int, k <= Len(s)
    PROVE  Run(s, p, k) \in Nat
<1>1. IsFiniteSet(p + 1 .. k)
  BY FS_Interval
<1>2. \A i \in p + 1 .. k : Weights(s)[i] \in Nat
  BY WeightsType
<1>. QED
  BY <1>1, <1>2, SumType DEF Run

\* An empty run stands for nothing.
LEMMA RunEmpty ==
    ASSUME NEW s, NEW p \in Nat, NEW k \in Int, k <= p
    PROVE  Run(s, p, k) = 0
<1>1. p + 1 .. k = {}
  OBVIOUS
<1>. QED
  BY <1>1, SumEmpty DEF Run

\* A run is all but its last record, and that record.
LEMMA RunLast ==
    ASSUME NEW s \in Seq(Messages), NEW p \in Nat, NEW k \in Nat, p < k, k <= Len(s)
    PROVE  Run(s, p, k) = Run(s, p, k - 1) + Stands(s[k])
<1>. DEFINE I == p + 1 .. k - 1
<1>1. IsFiniteSet(I)
  BY FS_Interval
<1>2. k \notin I /\ I \cup {k} = p + 1 .. k
  OBVIOUS
<1>3. \A i \in I \cup {k} : Weights(s)[i] \in Int
  BY WeightsType
<1>4. Weights(s)[k] = Stands(s[k])
  BY WeightsType
<1>. HIDE DEF I
<1>5. SumFunctionOnSet(Weights(s), I \cup {k}) = SumFunctionOnSet(Weights(s), I) + Weights(s)[k]
  BY <1>1, <1>2, <1>3, SumAdd
<1>. QED
  BY <1>2, <1>4, <1>5 DEF Run, I

\* A run is its first record, and the rest.
LEMMA RunFirst ==
    ASSUME NEW s \in Seq(Messages), NEW p \in Nat, NEW k \in Nat, p < k, k <= Len(s)
    PROVE  Run(s, p, k) = Stands(s[p + 1]) + Run(s, p + 1, k)
<1>. DEFINE I == p + 1 .. k
            q == p + 1
<1>1. IsFiniteSet(I)
  BY FS_Interval
<1>2. q \in I /\ I \ {q} = q + 1 .. k
  OBVIOUS
<1>3. \A i \in I : Weights(s)[i] \in Int
  BY WeightsType
<1>4. Weights(s)[q] = Stands(s[q])
  BY WeightsType
<1>. HIDE DEF I, q
<1>5. SumFunctionOnSet(Weights(s), I) = Weights(s)[q] + SumFunctionOnSet(Weights(s), I \ {q})
  BY <1>1, <1>2, <1>3, SumRemove
<1>. QED
  BY <1>2, <1>4, <1>5 DEF Run, I, q

\* Two sequences that agree as far as they are summed.
LEMMA RunAgrees ==
    ASSUME NEW s \in Seq(Messages), NEW t \in Seq(Messages), NEW p \in Nat, NEW k \in Int,
           k <= Len(s), k <= Len(t), \A i \in p + 1 .. k : s[i] = t[i]
    PROVE  Run(s, p, k) = Run(t, p, k)
<1>1. IsFiniteSet(p + 1 .. k)
  BY FS_Interval
<1>2. \A i \in p + 1 .. k : Weights(s)[i] = Weights(t)[i]
  BY WeightsType
<1>. QED
  BY <1>1, <1>2, SumAgrees DEF Run

\* Dropping the first p records.
LEMMA DropProperties ==
    ASSUME NEW s \in Seq(Messages), NEW p \in Nat, p <= Len(s)
    PROVE  /\ SubSeq(s, p + 1, Len(s)) \in Seq(Messages)
           /\ Len(SubSeq(s, p + 1, Len(s))) = Len(s) - p
           /\ \A i \in 1..Len(s) - p : SubSeq(s, p + 1, Len(s))[i] = s[p + i]
<1>1. Len(s) \in Nat /\ \A i \in p + 1 .. Len(s) : s[i] \in Messages
  BY ElementOfSeq
<1>. QED
  BY <1>1, SubSeqProperties

\* A run behind dropped records is the same run of the whole sequence.
LEMMA RunDrop ==
    ASSUME NEW s \in Seq(Messages), NEW p \in Nat, p <= Len(s),
           NEW k \in Int, -1 <= k, k <= Len(s) - p
    PROVE  Run(SubSeq(s, p + 1, Len(s)), 0, k) = Run(s, p, p + k)
<1>. DEFINE d == SubSeq(s, p + 1, Len(s))
            h == [i \in 1..k |-> p + i]
<1>1. d \in Seq(Messages) /\ Len(d) = Len(s) - p /\ \A i \in 1..Len(s) - p : d[i] = s[p + i]
  BY DropProperties
<1>. HIDE DEF d
<1>2. IsFiniteSet(1..k) /\ IsFiniteSet(p + 1 .. p + k)
  BY FS_Interval
<1>3. {h[x] : x \in 1..k} = p + 1 .. p + k
  <2>1. \A y \in p + 1 .. p + k : y - p \in 1..k /\ y = p + (y - p)
    OBVIOUS
  <2>. QED
    BY <2>1
<1>4. \A x \in 1..k : Weights(d)[x] \in Int /\ Weights(s)[h[x]] = Weights(d)[x]
  <2>1. \A x \in 1..k : p + x \in 1..Len(s) /\ x \in 1..Len(d)
    BY <1>1, WeightsType
  <2>. QED
    BY <1>1, <2>1, WeightsType
<1>5. \A x, y \in 1..k : h[x] = h[y] => x = y
  OBVIOUS
<1>6. SumFunctionOnSet(Weights(s), p + 1 .. p + k) = SumFunctionOnSet(Weights(d), 1..k)
  <2>. DEFINE I == 1..k
              H == {h[x] : x \in I}
              v == Weights(d)
              w == Weights(s)
  <2>1. /\ IsFiniteSet(I) /\ IsFiniteSet(H)
        /\ \A x \in I : v[x] \in Int /\ w[h[x]] = v[x]
        /\ \A x, y \in I : h[x] = h[y] => x = y
    BY <1>2, <1>3, <1>4, <1>5
  <2>2. H = p + 1 .. p + k
    BY <1>3
  <2>. HIDE DEF h, I, v, w
  <2>3. SumFunctionOnSet(w, H) = SumFunctionOnSet(v, I)
    BY <2>1, SumReindex
  <2>. QED
    BY <2>2, <2>3 DEF I, v, w
<1>7. 0 + 1 .. k = 1..k
  OBVIOUS
<1>. QED
  BY <1>6, <1>7 DEF Run, d

\* The weight of a sequence is the run of all its records.
LEMMA WeightIsRun ==
    ASSUME NEW s \in Seq(Messages)
    PROVE  Weight(s) = Run(s, 0, Len(s))
<1>1. DOMAIN Weights(s) = 0 + 1 .. Len(s)
  BY WeightsType
<1>. QED
  BY <1>1 DEF Weight, SumFunction, Run

\* No records stand for no outputs.
LEMMA WeightEmpty == Weight(<<>>) = 0
<1>1. <<>> \in Seq(Messages) /\ Len(<<>>) = 0
  BY EmptySeq
<1>2. Weight(<<>>) = Run(<<>>, 0, 0)
  BY <1>1, WeightIsRun
<1>3. Run(<<>>, 0, 0) = 0
  BY RunEmpty
<1>. QED
  BY <1>2, <1>3

\* Appending a record adds what it stands for.
LEMMA WeightAppend ==
    ASSUME NEW s \in Seq(Messages), NEW m \in Messages
    PROVE  /\ Append(s, m) \in Seq(Messages)
           /\ Weight(Append(s, m)) = Weight(s) + Stands(m)
<1>. DEFINE a == Append(s, m)
            n == Len(s) + 1
<1>1. a \in Seq(Messages) /\ Len(a) = n /\ Len(s) \in Nat
        /\ (\A i \in 1..Len(s) : a[i] = s[i]) /\ a[n] = m
  BY AppendProperties, LenProperties
<1>. HIDE DEF a
<1>2. n \in Nat /\ 0 < n /\ n - 1 = Len(s)
  BY <1>1
<1>. HIDE DEF n
<1>3. Run(a, 0, n) = Run(a, 0, n - 1) + Stands(m)
  BY <1>1, <1>2, RunLast
<1>4. Run(a, 0, Len(s)) = Run(s, 0, Len(s))
  <2>1. \A i \in 0 + 1 .. Len(s) : a[i] = s[i]
    BY <1>1
  <2>2. Len(s) <= Len(a)
    BY <1>1, <1>2
  <2>. QED
    BY <1>1, <2>1, <2>2, RunAgrees
<1>5. Weight(a) = Run(a, 0, n) /\ Weight(s) = Run(s, 0, Len(s))
  BY <1>1, WeightIsRun
<1>. QED
  BY <1>1, <1>2, <1>3, <1>4, <1>5 DEF a

\* What is left of a ring after its first p records.
LEMMA WeightDrop ==
    ASSUME NEW s \in Seq(Messages), NEW p \in Nat, p <= Len(s)
    PROVE  Weight(SubSeq(s, p + 1, Len(s))) = Run(s, p, Len(s))
<1>1. SubSeq(s, p + 1, Len(s)) \in Seq(Messages) /\ Len(SubSeq(s, p + 1, Len(s))) = Len(s) - p
        /\ Len(s) \in Nat
  BY DropProperties, LenProperties
<1>2. Run(SubSeq(s, p + 1, Len(s)), 0, Len(s) - p) = Run(s, p, p + (Len(s) - p))
  BY <1>1, RunDrop
<1>3. p + (Len(s) - p) = Len(s)
  BY <1>1
<1>. QED
  BY <1>1, <1>2, <1>3, WeightIsRun

\* The records of one CPU in a stream.
LEMMA ShareType ==
    ASSUME NEW s \in Seq(Messages), NEW c, NEW k \in Int, k <= Len(s)
    PROVE  Share(s, c, k) \in Nat
<1>1. IsFiniteSet(1..k)
  BY FS_Interval
<1>2. IsFiniteSet({j \in 1..k : s[j].cpu = c})
  BY <1>1, FS_Subset
<1>3. \A i \in {j \in 1..k : s[j].cpu = c} : Weights(s)[i] \in Nat
  BY WeightsType
<1>. QED
  BY <1>2, <1>3, SumType DEF Share

\* Streams that agree as far as they are read have the same share of a CPU.
LEMMA ShareAgrees ==
    ASSUME NEW s \in Seq(Messages), NEW t \in Seq(Messages), NEW c, NEW k \in Int,
           k <= Len(s), k <= Len(t), \A i \in 1..k : s[i] = t[i]
    PROVE  Share(s, c, k) = Share(t, c, k)
<1>. DEFINE J == {j \in 1..k : s[j].cpu = c}
<1>1. IsFiniteSet(1..k)
  BY FS_Interval
<1>2. IsFiniteSet(J) /\ J = {j \in 1..k : t[j].cpu = c}
  BY <1>1, FS_Subset
<1>3. \A i \in J : Weights(s)[i] = Weights(t)[i]
  BY WeightsType
<1>. HIDE DEF J
<1>4. SumFunctionOnSet(Weights(s), J) = SumFunctionOnSet(Weights(t), J)
  BY <1>2, <1>3, SumAgrees
<1>. QED
  BY <1>2, <1>4 DEF Share, J

\* Appending a record changes the share of its own CPU only.
LEMMA ShareAppend ==
    ASSUME NEW s \in Seq(Messages), NEW m \in Messages, NEW c
    PROVE  /\ \A k \in 0..Len(s) : Share(Append(s, m), c, k) = Share(s, c, k)
           /\ Share(Append(s, m), c, Len(Append(s, m)))
                = Share(s, c, Len(s)) + (IF m.cpu = c THEN Stands(m) ELSE 0)
<1>. DEFINE a == Append(s, m)
            n == Len(s) + 1
            J == {j \in 1..Len(s) : a[j].cpu = c}
<1>1. a \in Seq(Messages) /\ Len(a) = n /\ Len(s) \in Nat
        /\ (\A i \in 1..Len(s) : a[i] = s[i]) /\ a[n] = m
  BY AppendProperties, LenProperties
<1>. HIDE DEF a
<1>2. \A k \in 0..Len(s) : Share(a, c, k) = Share(s, c, k)
  BY <1>1, ShareAgrees
<1>3. IsFiniteSet(1..Len(s)) /\ n \notin 1..Len(s)
  BY <1>1, FS_Interval
<1>4. IsFiniteSet(J) /\ n \notin J
  BY <1>3, FS_Subset
<1>5. \A i \in J \cup {n} : Weights(a)[i] \in Int
  BY <1>1, WeightsType
<1>6. Weights(a)[n] = Stands(m)
  BY <1>1, WeightsType
<1>7. SumFunctionOnSet(Weights(a), J) = Share(s, c, Len(s))
  BY <1>1, <1>2 DEF Share
<1>8. CASE m.cpu = c
  <2>1. {j \in 1..n : a[j].cpu = c} = J \cup {n}
    BY <1>1, <1>8
  <2>. HIDE DEF J
  <2>2. SumFunctionOnSet(Weights(a), J \cup {n}) = SumFunctionOnSet(Weights(a), J) + Weights(a)[n]
    BY <1>4, <1>5, SumAdd
  <2>. QED
    BY <1>1, <1>2, <1>6, <1>7, <1>8, <2>1, <2>2 DEF Share, a
<1>9. CASE m.cpu # c
  <2>1. {j \in 1..n : a[j].cpu = c} = J
    BY <1>1, <1>9
  <2>2. Share(s, c, Len(s)) \in Nat
    BY <1>1, ShareType
  <2>. HIDE DEF J
  <2>. QED
    BY <1>1, <1>2, <1>7, <1>9, <2>1, <2>2 DEF Share, a
<1>. QED
  BY <1>8, <1>9

---------------------------------------------------------------------------
(* What an output does *)

Gated == [c \in CPU |-> outputs[c] + (IF prog[c] = "gated" THEN 1 ELSE 0)]

\* The bound of the model counts an output from the gate on.
LEMMA StartedIsSum ==
    TypeOK => /\ Started = SumFunctionOnSet(Gated, CPU)
              /\ \A c \in CPU : Gated[c] \in Nat /\ Gated[c] \in Int
BY DEF TypeOK, Started, Gated, SumFunction

\* What TypeOK says of the rings and the reader.
LEMMA RingTypes ==
    TypeOK => /\ \A c \in CPU : /\ ring[c] \in Seq(Messages) /\ Len(ring[c]) \in Nat
                                /\ DOMAIN ring[c] = 1..Len(ring[c])
                                /\ \A i \in 1..Len(ring[c]) : ring[c][i] \in Messages
              /\ pos \in Nat /\ snap \in Nat /\ pos <= snap
              /\ cur # NoCpu => cur \in CPU /\ snap <= Len(ring[cur])
<1>1. TypeOK => \A c \in CPU : ring[c] \in Seq(Messages)
  BY DEF TypeOK
<1>2. \A s \in Seq(Messages) : /\ Len(s) \in Nat /\ DOMAIN s = 1..Len(s)
                               /\ \A i \in 1..Len(s) : s[i] \in Messages
  BY LenProperties, ElementOfSeq
<1>3. TypeOK => /\ pos \in Nat /\ snap \in Nat /\ pos <= snap
                /\ cur # NoCpu => cur \in CPU /\ snap <= Len(ring[cur])
  BY DEF TypeOK
<1>. QED
  BY <1>1, <1>2, <1>3

\* The concatenation of two sequences of records.
LEMMA Extended ==
    ASSUME NEW s \in Seq(Messages), NEW t \in Seq(Messages)
    PROVE  /\ s \o t \in Seq(Messages)
           /\ Len(s \o t) = Len(s) + Len(t)
           /\ \A i \in 1..Len(s) + Len(t) :
                 (s \o t)[i] = IF i <= Len(s) THEN s[i] ELSE t[i - Len(s)]
BY ConcatProperties

\* The record of an output, the loss written with it, and the three outcomes.
Event(c) == [cpu |-> c, seq |-> outputs[c] + 1, lost |-> 0, late |-> ~ready]
Loss(c) == [cpu |-> c, seq |-> 0, lost |-> klost[c], late |-> ~ready]
Unsent(c) == ~RingsOpen /\ unsent' = unsent + 1 /\ UNCHANGED <<ring, klost>>
Fits(c, n) ==
    /\ RingsOpen /\ UNCHANGED unsent
    /\ klost' = [klost EXCEPT ![c] = 0]
    /\ ring' = [ring EXCEPT ![c] = ring'[c]]
    /\ ring'[c] \in Seq(Messages)
    /\ \A i \in 1..n : ring'[c][i] = ring[c][i]
    /\ \/ klost[c] = 0 /\ Len(ring'[c]) = n + 1 /\ ring'[c][n + 1] = Event(c)
       \/ /\ klost[c] > 0 /\ Len(ring'[c]) = n + 2
          /\ ring'[c][n + 1] = Loss(c) /\ ring'[c][n + 2] = Event(c)
Overflows(c) ==
    /\ RingsOpen /\ UNCHANGED <<ring, unsent>>
    /\ klost' = [klost EXCEPT ![c] = @ + 1]

\* bpf_perf_event_output has three outcomes: no ring, written, or counted as lost.
LEMMA OutputEffect ==
    ASSUME TypeOK, InvBounds, NEW c \in CPU, Output(c)
    PROVE  /\ outputs[c] + 1 \in 0..MaxOutputs
           /\ Event(c) \in Messages /\ Loss(c) \in Messages /\ Len(ring[c]) \in Nat
           /\ prog[c] = "gated"
           /\ prog' = [prog EXCEPT ![c] = "read"] /\ outputs' = [outputs EXCEPT ![c] = @ + 1]
           /\ UNCHANGED <<event_count, tmp>>
           /\ Unsent(c) \/ Fits(c, Len(ring[c])) \/ Overflows(c)
<1>. DEFINE event == Event(c)
            loss == Loss(c)
            n == Len(ring[c])
<1>1. outputs[c] + 1 \in 0..MaxOutputs
  <2>1. Gated[c] = outputs[c] + 1
    BY DEF Output, Gated
  <2>2. Gated[c] <= Started
    BY CpuAssumption, StartedIsSum, SumAtLeast
  <2>3. Started \in Nat
    BY CpuAssumption, StartedIsSum, SumType
  <2>. QED
    BY <2>1, <2>2, <2>3, SlotAssumption DEF InvBounds, TypeOK
<1>2. klost[c] \in 0..MaxOutputs
  BY <1>1, SlotAssumption, SMTT(40) DEF InvBounds, TypeOK
<1>3. event \in Messages /\ loss \in Messages
  BY <1>1, <1>2, SlotAssumption DEF Messages, TypeOK, Event, Loss
<1>4. ring[c] \in Seq(Messages) /\ n \in Nat
  BY DEF TypeOK
<1>. DEFINE new == IF klost[c] > 0 THEN <<loss, event>> ELSE <<event>>
            r == ring[c] \o new
<1>5. \/ ~RingsOpen /\ unsent' = unsent + 1 /\ UNCHANGED <<ring, klost>>
      \/ /\ RingsOpen /\ UNCHANGED unsent /\ klost' = [klost EXCEPT ![c] = 0]
         /\ ring' = [ring EXCEPT ![c] = r]
      \/ /\ RingsOpen /\ UNCHANGED <<ring, unsent>>
         /\ klost' = [klost EXCEPT ![c] = @ + 1]
  BY DEF Output, Event, Loss
<1>. HIDE DEF event, loss, n
<1>6. /\ r \in Seq(Messages)
      /\ \A i \in 1..n : r[i] = ring[c][i]
      /\ \/ klost[c] = 0 /\ Len(r) = n + 1 /\ r[n + 1] = event
         \/ klost[c] > 0 /\ Len(r) = n + 2 /\ r[n + 1] = loss /\ r[n + 2] = event
  <2>1. CASE klost[c] > 0
    <3>1. new = <<loss, event>>
      BY <2>1
    <3>2. new \in Seq(Messages) /\ Len(new) = 2 /\ new[1] = loss /\ new[2] = event
      BY <1>3, <3>1
    <3>. HIDE DEF new
    <3>3. r \in Seq(Messages) /\ Len(r) = n + 2
            /\ \A i \in 1..n + 2 : r[i] = IF i <= n THEN ring[c][i] ELSE new[i - n]
      <4>. DEFINE q == ring[c]
      <4>1. q \in Seq(Messages) /\ n = Len(q)
        BY <1>4 DEF n
      <4>. HIDE DEF q
      <4>2. /\ q \o new \in Seq(Messages) /\ Len(q \o new) = Len(q) + Len(new)
            /\ \A i \in 1..Len(q) + Len(new) :
                  (q \o new)[i] = IF i <= Len(q) THEN q[i] ELSE new[i - Len(q)]
        BY <3>2, <4>1, Extended
      <4>. QED
        BY <3>2, <4>1, <4>2 DEF q
    <3>4. r[n + 1] = loss /\ r[n + 2] = event /\ \A i \in 1..n : r[i] = ring[c][i]
      <4>. HIDE DEF r
      <4>1. (n + 1) - n = 1 /\ (n + 2) - n = 2 /\ n + 1 \in 1..n + 1 /\ ~(n + 1 <= n)
              /\ n + 1 \in 1..n + 2 /\ n + 2 \in 1..n + 2 /\ ~(n + 2 <= n)
        BY <1>4
      <4>2. \A i \in 1..n : i \in 1..n + 1 /\ i \in 1..n + 2 /\ i <= n
        BY <1>4
      <4>. QED
        BY <3>2, <3>3, <4>1, <4>2
    <3>. QED
      BY <2>1, <3>3, <3>4
  <2>2. CASE ~(klost[c] > 0)
    <3>1. new = <<event>> /\ klost[c] = 0
      BY <1>2, <2>2
    <3>2. new \in Seq(Messages) /\ Len(new) = 1 /\ new[1] = event
      BY <1>3, <3>1
    <3>. HIDE DEF new
    <3>3. r \in Seq(Messages) /\ Len(r) = n + 1
            /\ \A i \in 1..n + 1 : r[i] = IF i <= n THEN ring[c][i] ELSE new[i - n]
      <4>. DEFINE q == ring[c]
      <4>1. q \in Seq(Messages) /\ n = Len(q)
        BY <1>4 DEF n
      <4>. HIDE DEF q
      <4>2. /\ q \o new \in Seq(Messages) /\ Len(q \o new) = Len(q) + Len(new)
            /\ \A i \in 1..Len(q) + Len(new) :
                  (q \o new)[i] = IF i <= Len(q) THEN q[i] ELSE new[i - Len(q)]
        BY <3>2, <4>1, Extended
      <4>. QED
        BY <3>2, <4>1, <4>2 DEF q
    <3>4. r[n + 1] = event /\ \A i \in 1..n : r[i] = ring[c][i]
      <4>. HIDE DEF r
      <4>1. (n + 1) - n = 1 /\ (n + 2) - n = 2 /\ n + 1 \in 1..n + 1 /\ ~(n + 1 <= n)
              /\ n + 1 \in 1..n + 2 /\ n + 2 \in 1..n + 2 /\ ~(n + 2 <= n)
        BY <1>4
      <4>2. \A i \in 1..n : i \in 1..n + 1 /\ i \in 1..n + 2 /\ i <= n
        BY <1>4
      <4>. QED
        BY <3>2, <3>3, <4>1, <4>2
    <3>. QED
      BY <3>1, <3>3, <3>4
  <2>. QED
    BY <2>1, <2>2
<1>. HIDE DEF r
<1>7. ASSUME ring' = [ring EXCEPT ![c] = r]
      PROVE  ring'[c] = r
  BY <1>7 DEF TypeOK
<1>8. Unsent(c) \/ Fits(c, n) \/ Overflows(c)
  BY <1>5, <1>6, <1>7 DEF Unsent, Fits, Overflows, event, loss
<1>9. /\ prog[c] = "gated" /\ prog' = [prog EXCEPT ![c] = "read"]
      /\ outputs' = [outputs EXCEPT ![c] = @ + 1] /\ UNCHANGED <<event_count, tmp>>
  BY DEF Output
<1>. QED
  BY <1>1, <1>3, <1>4, <1>8, <1>9 DEF event, loss, n

---------------------------------------------------------------------------
(* Types *)

\* Steps that leave the programs, the rings and the exported records alone.
ControlStep ==
    \/ SetupRings \/ SetupRetry \/ SetupFails
    \/ PollIdle \/ PollData \/ PollFails \/ AfterPoll \/ ReadReturns
    \/ DisableLookup \/ DisableFails \/ StopChild \/ StopQueue \/ FreeRings \/ FinishTrace
    \/ Signal \/ Deadline

\* What a step of trace_poll outside the reader leaves alone.
LEMMA ControlFrame ==
    ControlStep => UNCHANGED <<mode, bpf, export>>
BY DEF ControlStep, SetupRings, SetupRetry, SetupFails, PollIdle, PollData, PollFails, AfterPoll,
       ReadReturns, DisableLookup, DisableFails, StopChild, StopQueue, FreeRings, FinishTrace,
       Signal, Deadline, Consume, bpf, export, queue, control, reader

\* Halving leads from DefaultPages to MinPages and not past it.
LEMMA HalvingStep ==
    /\ Halvings \subseteq MinPages..DefaultPages /\ DefaultPages \in Halvings
    /\ \A p \in Halvings \ {MinPages} : p \div 2 \in Halvings
BY PageAssumption, Zenon DEF Halvings

\* Control steps keep the types.
LEMMA ControlTypes ==
    ASSUME TypeOK, InvBounds, InvControl, ControlStep
    PROVE  TypeOK' /\ pages' \in Halvings
<1>1. /\ UNCHANGED <<mode, ready, event_count, prog, tmp, ring, klost, outputs, unsent>>
      /\ UNCHANGED <<open, accepted, exported, refused, reported, direct, discarded>>
  BY ControlFrame DEF bpf, export, queue
<1>2. CASE SetupRings
  BY <1>1, <1>2, HalvingStep DEF SetupRings, TypeOK, InvBounds, InvControl, control, reader
<1>3. CASE SetupRetry
  BY <1>1, <1>3, HalvingStep, PageAssumption DEF SetupRetry, MayRetry, TypeOK, InvBounds,
                                                 InvControl, control, reader
<1>4. CASE SetupFails
  BY <1>1, <1>4 DEF SetupFails, TypeOK, InvBounds, InvControl, control, reader
<1>5. CASE PollIdle
  BY <1>1, <1>5 DEF PollIdle, TypeOK, InvBounds, InvControl, control, reader
<1>6. CASE PollData
  BY <1>1, <1>6 DEF PollData, TypeOK, InvBounds, InvControl, control, reader
<1>7. CASE PollFails
  BY <1>1, <1>7 DEF PollFails, AfterLoop, Errors, TypeOK, InvBounds, InvControl, control, reader
<1>8. CASE AfterPoll
  BY <1>1, <1>8 DEF AfterPoll, AfterLoop, TypeOK, InvBounds, InvControl, control, reader
<1>9. CASE ReadReturns
  BY <1>1, <1>9 DEF ReadReturns, TypeOK, InvBounds, InvControl, control, reader
<1>10. CASE DisableLookup
  BY <1>1, <1>10 DEF DisableLookup, TypeOK, InvBounds, InvControl, control, reader
<1>11. CASE DisableFails
  BY <1>1, <1>11 DEF DisableFails, Consume, Keeps, Errors, TypeOK, InvBounds, InvControl, control,
                     reader
<1>12. CASE StopChild
  BY <1>1, <1>12 DEF StopChild, TypeOK, InvBounds, InvControl, control, reader
<1>13. CASE StopQueue
  BY <1>1, <1>13 DEF StopQueue, TypeOK, InvBounds, InvControl, control, reader
<1>14. CASE FreeRings
  BY <1>1, <1>14 DEF FreeRings, Errors, TypeOK, InvBounds, InvControl, control, reader
<1>15. CASE FinishTrace
  BY <1>1, <1>15 DEF FinishTrace, TypeOK, InvBounds, InvControl, control, reader
<1>16. CASE Signal
  BY <1>1, <1>16 DEF Signal, TypeOK, InvBounds, InvControl, control, reader
<1>17. CASE Deadline
  BY <1>1, <1>17 DEF Deadline, TypeOK, InvBounds, InvControl, control, reader
<1>. QED
  BY <1>2, <1>3, <1>4, <1>5, <1>6, <1>7, <1>8, <1>9, <1>10, <1>11, <1>12, <1>13, <1>14, <1>15,
     <1>16, <1>17
    DEF ControlStep

\* What the callback of a record does, in the four cases.
LEMMA ReadEffect ==
    ASSUME TypeOK, ReadRecord, NEW m, m = ring[cur][pos + 1]
    PROVE  /\ cur \in CPU /\ m \in Messages /\ pos' = pos + 1
           /\ pos \in Nat /\ pos + 1 \in 1..Len(ring[cur]) /\ pos + 1 \in 0..snap
           /\ UNCHANGED <<mode, bpf, expired, pc, control, todo, cur, snap, draining>>
           /\ UNCHANGED <<open, exported, reported>>
           /\ \/ /\ capture_async /\ open /\ accepted' = Append(accepted, m)
                 /\ UNCHANGED <<stop, refused, direct, discarded>>
              \/ /\ capture_async /\ open /\ refused' = Q!AddRefusal(refused, m)
                 /\ UNCHANGED <<stop, accepted, direct, discarded>>
              \/ /\ ~capture_async /\ direct' = Append(direct, m)
                 /\ IF m.lost > 0 THEN stop' = (stop \/ ~Perfetto) ELSE ~stop /\ stop' = stop
                 /\ UNCHANGED <<accepted, refused, discarded>>
              \/ /\ ~capture_async /\ stop /\ m.lost = 0 /\ discarded' = discarded + 1
                 /\ UNCHANGED <<stop, accepted, refused, direct>>
<1>1. cur \in CPU /\ pos \in Nat /\ pos + 1 \in 1..Len(ring[cur]) /\ pos + 1 \in 0..snap
        /\ ring[cur] \in Seq(Messages)
  BY RingTypes DEF ReadRecord
<1>2. m \in Messages
  BY <1>1, ElementOfSeq
<1>3. m.lost \in Nat
  BY <1>2, StandsType
<1>4. /\ pos' = pos + 1
      /\ UNCHANGED <<mode, bpf, expired, pc, control, todo, cur, snap, draining>>
  BY DEF ReadRecord
<1>5. IF m.lost > 0 THEN TraceOnLost(m) /\ UNCHANGED discarded
                    ELSE PollHandlerWrap(m) /\ UNCHANGED stop
  BY DEF ReadRecord
<1>6. CASE capture_async
  BY <1>1, <1>2, <1>4, <1>5, <1>6 DEF TraceOnLost, PollHandlerWrap, Q!Accept, Q!Refuse
<1>7. CASE ~capture_async
  BY <1>1, <1>2, <1>3, <1>4, <1>5, <1>7 DEF TraceOnLost, PollHandlerWrap, queue
<1>. QED
  BY <1>6, <1>7

\* A refusal adds to the refused counts what the record stands for.
LEMMA RefusalType ==
    ASSUME NEW r \in [events : Nat, lost : Nat], NEW m \in Messages
    PROVE  /\ Q!AddRefusal(r, m) \in [events : Nat, lost : Nat]
           /\ Q!AddRefusal(r, m).events + Q!AddRefusal(r, m).lost
                = r.events + r.lost + Stands(m)
<1>1. m.lost \in Nat
  BY StandsType
<1>. QED
  BY <1>1 DEF Q!AddRefusal, Stands

\* Started changes by what one CPU adds to it.
LEMMA StartedChange ==
    ASSUME TypeOK, TypeOK', NEW c \in CPU, \A d \in CPU \ {c} : Gated'[d] = Gated[d]
    PROVE  Started' = Started + (Gated'[c] - Gated[c]) /\ Started \in Nat
<1>1. \A d \in CPU : Gated[d] \in Int /\ Gated'[d] \in Int /\ Gated[d] \in Nat
  <2>1. /\ outputs \in [CPU -> 0..MaxOutputs] /\ outputs' \in [CPU -> 0..MaxOutputs]
    BY DEF TypeOK
  <2>. QED
    BY <2>1 DEF Gated
<1>2. Started = SumFunctionOnSet(Gated, CPU) /\ Started' = SumFunctionOnSet(Gated', CPU)
  BY DEF Started, Gated, SumFunction
<1>3. SumFunctionOnSet(Gated', CPU) = SumFunctionOnSet(Gated, CPU) + (Gated'[c] - Gated[c])
  BY <1>1, CpuAssumption, SumChange
<1>4. SumFunctionOnSet(Gated, CPU) \in Nat
  BY <1>1, CpuAssumption, SumType
<1>. QED
  BY <1>2, <1>3, <1>4

\* The BPF programs keep the types and the bounds.
LEMMA ProgramTypes ==
    ASSUME TypeOK, InvBounds, NEW c \in CPU,
           Enter(c) \/ Output(c) \/ CountRead(c) \/ CountWrite(c)
    PROVE  TypeOK' /\ InvBounds'
<1>0. /\ UNCHANGED <<mode, ready, stop, expired, pc, pages, err, rc, saved>>
      /\ UNCHANGED <<capture_async, queue_stopping, ended, final>>
      /\ UNCHANGED <<todo, cur, snap, pos, draining>>
      /\ UNCHANGED <<open, accepted, exported, refused, reported, direct, discarded>>
  BY DEF Enter, Output, CountRead, CountWrite, control, reader, export, queue
<1>1. CASE Enter(c)
  <2>1. TypeOK'
    BY <1>0, <1>1, SMTT(40) DEF Enter, TypeOK
  <2>2. Gated'[c] = Gated[c] + 1 /\ \A d \in CPU \ {c} : Gated'[d] = Gated[d]
    BY <1>1 DEF Enter, Gated, TypeOK
  <2>3. Gated[c] \in Int
    BY StartedIsSum
  <2>4. Started' = Started + 1 /\ Started \in Nat
    BY <2>1, <2>2, <2>3, StartedChange
  <2>5. Started < MaxOutputs /\ UNCHANGED <<klost, outputs>>
    BY <1>1 DEF Enter
  <2>. QED
    BY <1>0, <2>1, <2>4, <2>5, SlotAssumption DEF InvBounds
<1>2. CASE Output(c)
  <2>. DEFINE n == Len(ring[c])
  <2>1. outputs[c] + 1 \in 0..MaxOutputs /\ n \in Nat /\ (Unsent(c) \/ Fits(c, n) \/ Overflows(c))
    BY <1>2, OutputEffect
  <2>2. /\ prog' = [prog EXCEPT ![c] = "read"] /\ outputs' = [outputs EXCEPT ![c] = @ + 1]
        /\ UNCHANGED <<event_count, tmp>> /\ prog[c] = "gated"
    BY <1>2 DEF Output
  <2>3. ring' \in [CPU -> Seq(Messages)] /\ \A d \in CPU : Len(ring'[d]) >= Len(ring[d])
    <3>1. \A d \in CPU : Len(ring[d]) \in Nat
      BY RingTypes
    <3>2. CASE UNCHANGED ring
      BY <3>1, <3>2 DEF TypeOK
    <3>3. CASE Fits(c, n)
      <4>1. ring'[c] \in Seq(Messages) /\ Len(ring'[c]) >= n
        BY <2>1, <3>3 DEF Fits
      <4>2. \A d \in CPU \ {c} : ring'[d] = ring[d]
        BY <3>3 DEF Fits, TypeOK
      <4>. QED
        <5>1. ring \in [CPU -> Seq(Messages)] /\ ring' = [ring EXCEPT ![c] = ring'[c]]
          BY <3>3 DEF Fits, TypeOK
        <5>2. \A q : q = ring'[c] => [ring EXCEPT ![c] = q] \in [CPU -> Seq(Messages)]
          BY <4>1, <5>1
        <5>3. ring' \in [CPU -> Seq(Messages)]
          BY <5>1, <5>2, Zenon
        <5>4. \A d \in CPU : Len(ring'[d]) >= Len(ring[d])
          BY <3>1, <4>1, <4>2
        <5>. QED
          BY <5>3, <5>4
    <3>. QED
      BY <2>1, <3>2, <3>3 DEF Unsent, Overflows
  <2>4. unsent' \in Nat /\ klost' \in [CPU -> Nat]
    <3>1. unsent \in Nat /\ klost \in [CPU -> Nat]
      BY DEF TypeOK
    <3>. QED
      BY <2>1, <3>1 DEF Unsent, Fits, Overflows
  <2>5. outputs' \in [CPU -> 0..MaxOutputs] /\ prog' \in [CPU -> {"idle", "gated", "read", "write"}]
    BY <2>1, <2>2 DEF TypeOK
  <2>6. cur # NoCpu => snap <= Len(ring'[cur])
    <3>1. \A d \in CPU : Len(ring[d]) \in Nat /\ Len(ring'[d]) \in Nat
      BY <2>3, RingTypes, LenProperties
    <3>. QED
      BY <2>3, <3>1, RingTypes
  <2>7. TypeOK'
    <3>1. event_count' \in Nat /\ tmp' \in [CPU -> Nat]
      BY <2>2 DEF TypeOK
    <3>2. cur' # NoCpu => snap' <= Len(ring'[cur'])
      BY <1>0, <2>6
    <3>. QED
      BY <1>0, <2>3, <2>4, <2>5, <3>1, <3>2, SMTT(40) DEF TypeOK
  <2>8. \A d \in CPU : Gated'[d] = Gated[d]
    <3>1. outputs \in [CPU -> 0..MaxOutputs] /\ prog \in [CPU -> {"idle", "gated", "read", "write"}]
      BY DEF TypeOK
    <3>2. \A d \in CPU \ {c} : prog'[d] = prog[d] /\ outputs'[d] = outputs[d]
      BY <2>2, <3>1
    <3>3. prog'[c] = "read" /\ outputs'[c] = outputs[c] + 1
      BY <2>2, <3>1
    <3>. QED
      BY <2>2, <3>1, <3>2, <3>3 DEF Gated
  <2>9. Started' = Started
    <3>1. Gated[c] \in Int
      BY StartedIsSum
    <3>. QED
      BY <2>7, <2>8, <3>1, StartedChange
  <2>10. \A d \in CPU : klost'[d] <= outputs'[d]
    <3>1. outputs \in [CPU -> 0..MaxOutputs] /\ klost \in [CPU -> Nat]
      BY DEF TypeOK
    <3>. QED
      BY <2>1, <2>2, <3>1 DEF InvBounds, Unsent, Fits, Overflows
  <2>. QED
    BY <1>0, <2>7, <2>9, <2>10 DEF InvBounds
<1>3. CASE CountRead(c) \/ CountWrite(c)
  <2>1. TypeOK'
    <3>1. CASE CountRead(c)
      BY <1>0, <3>1, SMTT(40) DEF CountRead, TypeOK
    <3>2. CASE CountWrite(c)
      BY <1>0, <3>2, SMTT(40) DEF CountWrite, TypeOK
    <3>. QED
      BY <1>3, <3>1, <3>2
  <2>2. \A d \in CPU : Gated'[d] = Gated[d]
    BY <1>3 DEF CountRead, CountWrite, Gated, TypeOK
  <2>3. Started' = Started
    <3>1. Gated[c] \in Int
      BY StartedIsSum
    <3>. QED
      BY <2>1, <2>2, <3>1, StartedChange
  <2>4. UNCHANGED <<klost, outputs>>
    BY <1>3 DEF CountRead, CountWrite
  <2>. QED
    BY <1>0, <2>1, <2>3, <2>4 DEF InvBounds
<1>. QED
  BY <1>1, <1>2, <1>3

\* The bounds do not depend on the other variables.
LEMMA BoundsFrame ==
    ASSUME InvBounds, pages' \in Halvings, UNCHANGED <<prog, klost, outputs>>
    PROVE  InvBounds'
BY DEF InvBounds, Started

\* The reader, the queue and the gate keep the types and the bounds.
LEMMA OtherTypes ==
    ASSUME TypeOK, InvBounds, InvControl,
           \/ StartQueue \/ TraceReady \/ \E c \in CPU : ReadRing(c)
           \/ ReadRecord \/ ReadDone \/ ReadFails
           \/ DisableUpdate \/ JoinQueue \/ ExporterDeliver \/ ExporterReport
    PROVE  TypeOK' /\ InvBounds'
<1>0. /\ UNCHANGED <<mode, expired, prog, tmp, klost, outputs, unsent>>
      /\ UNCHANGED <<pages, saved, ended, final, queue_stopping>>
  BY DEF StartQueue, TraceReady, ReadRing, ReadRecord, ReadDone, ReadFails,
         DisableUpdate, JoinQueue, ExporterDeliver, ExporterReport, OnlyQueue, bpf, control
<1>1. InvBounds'
  BY <1>0, BoundsFrame DEF InvBounds
<1>2. CASE StartQueue
  <2>1. /\ UNCHANGED <<ready, event_count, ring, stop, err>>
        /\ UNCHANGED <<todo, cur, snap, pos, draining, direct, discarded>>
    BY <1>2 DEF StartQueue, bpf, reader
  <2>2. /\ accepted' = <<>> /\ exported' = <<>> /\ open' \in BOOLEAN
        /\ refused' = Q!Nothing /\ reported' = Q!Nothing
    BY <1>2 DEF StartQueue, Q!Open
  <2>3. accepted' \in Seq(Messages) /\ exported' \in Seq(Messages)
    BY <2>2
  <2>4. /\ refused' \in [events : Nat, lost : Nat] /\ reported' \in [events : Nat, lost : Nat]
    BY <2>2 DEF Q!Nothing
  <2>5. capture_async' \in BOOLEAN /\ pc' \in {"start", "returned"} /\ rc' \in {rc, "queue"}
    BY <1>2 DEF StartQueue, TypeOK
  <2>. QED
    BY <1>0, <1>1, <2>1, <2>2, <2>3, <2>4, <2>5, SMTT(40) DEF TypeOK
<1>3. CASE TraceReady
  BY <1>0, <1>1, <1>3 DEF TraceReady, TypeOK, control, reader, export, queue
<1>4. CASE \E c \in CPU : ReadRing(c)
  <2>1. PICK c \in CPU : ReadRing(c)
    BY <1>4
  <2>2. Len(ring[c]) \in Nat
    BY LenProperties DEF TypeOK
  <2>. QED
    BY <1>0, <1>1, <2>1, <2>2, SMTT(40) DEF ReadRing, TypeOK, bpf, control, export, queue
<1>5. CASE ReadRecord
  <2>. DEFINE m == ring[cur][pos + 1]
  <2>1. /\ m \in Messages /\ pos' = pos + 1 /\ pos + 1 \in 0..snap
        /\ UNCHANGED <<ready, event_count, ring, pc, err, rc, capture_async>>
        /\ UNCHANGED <<todo, cur, snap, draining, open, exported, reported>>
    BY <1>5, ReadEffect DEF bpf, control
  <2>2. /\ accepted' = accepted \/ accepted' = Append(accepted, m)
        /\ direct' = direct \/ direct' = Append(direct, m)
        /\ refused' = refused \/ refused' = Q!AddRefusal(refused, m)
        /\ discarded' = discarded \/ discarded' = discarded + 1
        /\ stop' \in BOOLEAN
    <3>1. stop \in BOOLEAN
      BY DEF TypeOK
    <3>. QED
      BY <1>5, <3>1, ReadEffect
  <2>. HIDE DEF m
  <2>a. /\ accepted \in Seq(Messages) /\ direct \in Seq(Messages) /\ discarded \in Nat
        /\ refused \in [events : Nat, lost : Nat]
    BY DEF TypeOK
  <2>3. accepted' \in Seq(Messages) /\ direct' \in Seq(Messages)
    BY <2>1, <2>2, <2>a, WeightAppend
  <2>4. refused' \in [events : Nat, lost : Nat] /\ discarded' \in Nat
    <3>1. Q!AddRefusal(refused, m) \in [events : Nat, lost : Nat]
      BY <2>1, <2>a, RefusalType
    <3>. QED
      BY <2>2, <2>a, <3>1
  <2>. QED
    BY <1>0, <1>1, <2>1, <2>2, <2>3, <2>4, SMTT(40) DEF TypeOK
<1>6. CASE ReadDone \/ ReadFails
  <2>1. /\ cur \in CPU /\ pos \in Nat /\ pos <= Len(ring[cur]) /\ ring[cur] \in Seq(Messages)
    BY <1>6, RingTypes DEF ReadDone, ReadFails
  <2>2. SubSeq(ring[cur], pos + 1, Len(ring[cur])) \in Seq(Messages)
    BY <2>1, DropProperties
  <2>3. ring' \in [CPU -> Seq(Messages)]
    BY <1>6, <2>1, <2>2 DEF ReadDone, ReadFails, AdvanceTail, TypeOK
  <2>4. CASE ReadDone
    BY <1>0, <1>1, <2>3, <2>4, SMTT(40) DEF ReadDone, TypeOK, control, export, queue
  <2>5. CASE ReadFails
    <3>1. /\ todo' = {} /\ cur' = NoCpu /\ snap' = 0 /\ pos' = 0
          /\ UNCHANGED <<ready, event_count, stop, rc, capture_async, draining>>
          /\ UNCHANGED <<open, accepted, exported, refused, reported, direct, discarded>>
      BY <2>5 DEF ReadFails, export, queue
    <3>2. pc' \in {"stop", "lookup", "free"} /\ err' \in {"poll", "drain", err}
      BY <2>5 DEF ReadFails, AfterLoop
    <3>3. err' \in {"none", "some", "EINTR"} \cup Errors
      BY <3>2 DEF TypeOK, Errors
    <3>. QED
      BY <1>0, <1>1, <2>3, <3>1, <3>2, <3>3, SMTT(40) DEF TypeOK
  <2>. QED
    BY <1>6, <2>4, <2>5
<1>7. CASE DisableUpdate
  <2>1. /\ event_count' = saved /\ pc' = "read" /\ todo' = CPU
        /\ UNCHANGED <<ring, stop, err, rc, capture_async, cur, snap, pos>>
        /\ UNCHANGED <<open, accepted, exported, refused, reported, direct, discarded>>
    BY <1>7 DEF DisableUpdate, Consume, control, export, queue
  <2>2. ready' \in BOOLEAN /\ draining' \in BOOLEAN
    BY <1>7 DEF DisableUpdate, Consume
  <2>. QED
    BY <1>0, <1>1, <2>1, <2>2, SMTT(40) DEF TypeOK
<1>8. CASE JoinQueue
  <2>1. /\ UNCHANGED <<ready, event_count, ring, stop, err, rc>>
        /\ UNCHANGED <<todo, cur, snap, pos, draining, direct, discarded>>
        /\ UNCHANGED <<accepted, exported, refused, reported>> /\ pc' = "free"
    BY <1>8 DEF JoinQueue, Q!Close, bpf, reader
  <2>2. open' \in BOOLEAN /\ capture_async' \in BOOLEAN
    BY <1>8 DEF JoinQueue, Q!Close
  <2>. QED
    BY <1>0, <1>1, <2>1, <2>2, SMTT(40) DEF TypeOK
<1>9. CASE ExporterDeliver
  <2>1. Len(exported) \in Nat /\ Len(accepted) \in Nat
    BY LenProperties DEF TypeOK
  <2>2. Len(exported) + 1 \in 1..Len(accepted)
    BY <1>9, <2>1 DEF ExporterDeliver, Q!Deliver
  <2>3. accepted[Len(exported) + 1] \in Messages
    BY <2>2, ElementOfSeq DEF TypeOK
  <2>4. exported' \in Seq(Messages)
    BY <1>9, <2>3, AppendProperties DEF ExporterDeliver, Q!Deliver, TypeOK
  <2>. QED
    BY <1>0, <1>1, <1>9, <2>4
       DEF ExporterDeliver, Q!Deliver, OnlyQueue, TypeOK, bpf, control, reader
<1>10. CASE ExporterReport
  BY <1>0, <1>1, <1>10, SMTT(40)
     DEF ExporterReport, Q!ReportLost, Q!ReportEvents, OnlyQueue, TypeOK, bpf, control, reader
<1>. QED
  BY <1>2, <1>3, <1>4, <1>5, <1>6, <1>7, <1>8, <1>9, <1>10

\* Every step keeps the types and the bounds.
LEMMA TypeStep ==
    ASSUME TypeOK, InvBounds, InvControl, [Next]_vars
    PROVE  TypeOK' /\ InvBounds'
<1>1. CASE ControlStep
  <2>1. TypeOK' /\ pages' \in Halvings
    BY <1>1, ControlTypes
  <2>2. UNCHANGED <<prog, klost, outputs>>
    BY <1>1, ControlFrame DEF bpf
  <2>. QED
    BY <2>1, <2>2, BoundsFrame
<1>2. CASE UNCHANGED vars
  <2>1. UNCHANGED <<prog, klost, outputs>> /\ pages' \in Halvings
    BY <1>2 DEF vars, bpf, control, InvBounds
  <2>2. TypeOK'
    BY <1>2 DEF vars, bpf, control, reader, export, queue, TypeOK
  <2>. QED
    BY <2>1, <2>2, BoundsFrame
<1>. QED
  BY <1>1, <1>2, ProgramTypes, OtherTypes
     DEF Next, Programs, PollThread, Exporter, ControlStep

---------------------------------------------------------------------------
(* What the places of trace_poll imply *)

\* Every step keeps what the places of trace_poll imply.
LEMMA ControlInv ==
    ASSUME TypeOK, InvControl, InvBefore, [Next]_vars
    PROVE  InvControl'
<1>1. CASE SetupRings
  BY <1>1 DEF SetupRings, bpf, control, reader, export, queue, InvControl, After, Closing, Errors,
              TypeOK
<1>2. CASE SetupRetry
  BY <1>2 DEF SetupRetry, bpf, control, reader, export, queue, InvControl, After, Closing, Errors,
              TypeOK
<1>3. CASE SetupFails
  BY <1>3 DEF SetupFails, bpf, control, reader, export, queue, InvControl, After, Closing, Errors,
              TypeOK
<1>4. CASE StartQueue
  BY <1>4 DEF StartQueue, Q!Open, bpf, control, reader, export, queue, InvControl, After, Closing,
              Errors, TypeOK
<1>5. CASE TraceReady
  BY <1>5 DEF TraceReady, bpf, control, reader, export, queue, InvControl, After, Closing, Errors,
              TypeOK
<1>6. CASE PollIdle
  BY <1>6 DEF PollIdle, bpf, control, reader, export, queue, InvControl, After, Closing, Errors,
              TypeOK
<1>7. CASE PollData
  BY <1>7 DEF PollData, bpf, control, reader, export, queue, InvControl, After, Closing, Errors,
              TypeOK
<1>8. CASE PollFails
  BY <1>8 DEF PollFails, AfterLoop, bpf, control, reader, export, queue, InvControl, After,
              Closing, Errors, TypeOK
<1>9. CASE AfterPoll
  BY <1>9 DEF AfterPoll, AfterLoop, bpf, control, reader, export, queue, InvControl, After,
              Closing, Errors, TypeOK
<1>10. CASE ReadRecord
  BY <1>10, ReadEffect DEF bpf, control, reader, export, queue, InvControl, After, Closing, Errors,
                           TypeOK
<1>11. CASE ReadDone
  BY <1>11 DEF ReadDone, bpf, control, reader, export, queue, InvControl, After, Closing, Errors,
               TypeOK
<1>12. CASE ReadFails
  BY <1>12 DEF ReadFails, AfterLoop, Keeps, bpf, control, reader, export, queue, InvControl, After,
               Closing, Errors, TypeOK
<1>13. CASE ReadReturns
  BY <1>13 DEF ReadReturns, bpf, control, reader, export, queue, InvControl, After, Closing,
               Errors, TypeOK
<1>14. CASE DisableLookup
  BY <1>14 DEF DisableLookup, bpf, control, reader, export, queue, InvControl, After, Closing,
               Errors, TypeOK
<1>15. CASE DisableUpdate
  BY <1>15 DEF DisableUpdate, Consume, bpf, control, reader, export, queue, InvControl, After,
               Closing, Errors, TypeOK
<1>16. CASE DisableFails
  BY <1>16 DEF DisableFails, Consume, Keeps, bpf, control, reader, export, queue, InvControl,
               After, Closing, Errors, TypeOK
<1>17. CASE StopChild
  BY <1>17 DEF StopChild, bpf, control, reader, export, queue, InvControl, After, Closing, Errors,
               TypeOK
<1>18. CASE StopQueue
  BY <1>18 DEF StopQueue, bpf, control, reader, export, queue, InvControl, After, Closing, Errors,
               TypeOK
<1>19. CASE JoinQueue
  BY <1>19 DEF JoinQueue, Q!Close, bpf, control, reader, export, queue, InvControl, After, Closing,
               Errors, TypeOK
<1>20. CASE FreeRings
  BY <1>20 DEF FreeRings, bpf, control, reader, export, queue, InvControl, After, Closing, Errors,
               TypeOK
<1>21. CASE FinishTrace
  BY <1>21 DEF FinishTrace, bpf, control, reader, export, queue, InvControl, After, Closing,
               Errors, TypeOK
<1>22. CASE Signal
  BY <1>22 DEF Signal, bpf, control, reader, export, queue, InvControl, After, Closing, Errors,
               TypeOK
<1>23. CASE Deadline
  BY <1>23 DEF Deadline, bpf, control, reader, export, queue, InvControl, After, Closing, Errors,
               TypeOK
<1>24. CASE ExporterDeliver
  BY <1>24 DEF ExporterDeliver, Q!Deliver, OnlyQueue, bpf, control, reader, export, queue,
               InvControl, After, Closing, Errors, TypeOK
<1>25. CASE ExporterReport
  BY <1>25 DEF ExporterReport, Q!ReportLost, Q!ReportEvents, OnlyQueue, bpf, control, reader,
               export, queue, InvControl, After, Closing, Errors, TypeOK
<1>26. CASE \E c \in CPU : ReadRing(c)
  BY <1>26 DEF ReadRing, bpf, control, reader, export, queue, InvControl, After, Closing, Errors,
               TypeOK
<1>27. CASE Programs
  <2>1. PICK c \in CPU : Enter(c) \/ Output(c) \/ CountRead(c) \/ CountWrite(c)
    BY <1>27 DEF Programs
  <2>1a. UNCHANGED <<mode, pc, err, rc, capture_async, ended, todo, cur, draining, open>>
    BY <2>1 DEF Enter, Output, CountRead, CountWrite, control, reader, export, queue
  <2>2. unsent' # 0 => unsent # 0 \/ pc \in After
    <3>1. pc \in {"setup", "queue"} => prog[c] # "gated"
      BY DEF InvBefore, Before
    <3>2. unsent' # unsent => ~RingsOpen /\ prog[c] = "gated"
      BY <2>1 DEF Enter, Output, CountRead, CountWrite
    <3>. QED
      BY <3>1, <3>2 DEF RingsOpen, After
  <2>. QED
    BY <2>1a, <2>2 DEF InvControl
<1>28. CASE UNCHANGED vars
  BY <1>28 DEF vars, bpf, control, reader, export, queue, InvControl, After, Closing, Errors, TypeOK
<1>. QED
  BY <1>1, <1>2, <1>3, <1>4, <1>5, <1>6, <1>7, <1>8, <1>9, <1>10, <1>11, <1>12, <1>13, <1>14,
     <1>15, <1>16, <1>17, <1>18, <1>19, <1>20, <1>21, <1>22, <1>23, <1>24, <1>25, <1>26, <1>27,
     <1>28
     DEF Next, PollThread, Exporter

\* Nothing happens before the gate is opened.
LEMMA BeforeInv ==
    ASSUME TypeOK, InvControl, InvBefore, [Next]_vars
    PROVE  InvBefore'
<1>1. CASE SetupRings
  BY <1>1 DEF SetupRings, bpf, control, reader, export, queue, InvBefore, InvControl, Before, TypeOK
<1>2. CASE SetupRetry
  BY <1>2 DEF SetupRetry, bpf, control, reader, export, queue, InvBefore, InvControl, Before, TypeOK
<1>3. CASE SetupFails
  BY <1>3 DEF SetupFails, bpf, control, reader, export, queue, InvBefore, InvControl, Before, TypeOK
<1>4. CASE StartQueue
  <2>1. pc = "queue" /\ (pc' = "start" \/ pc' = "returned") /\ UNCHANGED <<ready, prog, ring>>
    BY <1>4 DEF StartQueue, bpf
  <2>. QED
    BY <2>1 DEF InvBefore, Before
<1>5. CASE TraceReady
  BY <1>5 DEF TraceReady, bpf, control, reader, export, queue, InvBefore, InvControl, Before, TypeOK
<1>6. CASE PollIdle
  BY <1>6 DEF PollIdle, bpf, control, reader, export, queue, InvBefore, InvControl, Before, TypeOK
<1>7. CASE PollData
  BY <1>7 DEF PollData, bpf, control, reader, export, queue, InvBefore, InvControl, Before, TypeOK
<1>8. CASE PollFails
  BY <1>8 DEF PollFails, AfterLoop, bpf, control, reader, export, queue, InvBefore, InvControl,
              Before, TypeOK
<1>9. CASE AfterPoll
  BY <1>9 DEF AfterPoll, AfterLoop, bpf, control, reader, export, queue, InvBefore, InvControl,
              Before, TypeOK
<1>10. CASE ReadRecord
  <2>1. pc = "read" /\ pc' = pc
    BY <1>10 DEF ReadRecord
  <2>. QED
    BY <2>1 DEF InvBefore, Before
<1>11. CASE ReadDone
  BY <1>11 DEF ReadDone, bpf, control, reader, export, queue, InvBefore, InvControl, Before, TypeOK
<1>12. CASE ReadFails
  BY <1>12 DEF ReadFails, AfterLoop, Keeps, bpf, control, reader, export, queue, InvBefore,
               InvControl, Before, TypeOK
<1>13. CASE ReadReturns
  BY <1>13 DEF ReadReturns, bpf, control, reader, export, queue, InvBefore, InvControl, Before,
               TypeOK
<1>14. CASE DisableLookup
  BY <1>14 DEF DisableLookup, bpf, control, reader, export, queue, InvBefore, InvControl, Before,
               TypeOK
<1>15. CASE DisableUpdate
  BY <1>15 DEF DisableUpdate, Consume, bpf, control, reader, export, queue, InvBefore, InvControl,
               Before, TypeOK
<1>16. CASE DisableFails
  BY <1>16 DEF DisableFails, Consume, Keeps, bpf, control, reader, export, queue, InvBefore,
               InvControl, Before, TypeOK
<1>17. CASE StopChild
  BY <1>17 DEF StopChild, bpf, control, reader, export, queue, InvBefore, InvControl, Before, TypeOK
<1>18. CASE StopQueue
  BY <1>18 DEF StopQueue, bpf, control, reader, export, queue, InvBefore, InvControl, Before, TypeOK
<1>19. CASE JoinQueue
  BY <1>19 DEF JoinQueue, Q!Close, bpf, control, reader, export, queue, InvBefore, InvControl,
               Before, TypeOK
<1>20. CASE FreeRings
  BY <1>20 DEF FreeRings, bpf, control, reader, export, queue, InvBefore, InvControl, Before, TypeOK
<1>21. CASE FinishTrace
  BY <1>21 DEF FinishTrace, bpf, control, reader, export, queue, InvBefore, InvControl, Before,
               TypeOK
<1>22. CASE Signal
  BY <1>22 DEF Signal, bpf, control, reader, export, queue, InvBefore, InvControl, Before, TypeOK
<1>23. CASE Deadline
  BY <1>23 DEF Deadline, bpf, control, reader, export, queue, InvBefore, InvControl, Before, TypeOK
<1>24. CASE ExporterDeliver
  <2>1. open /\ UNCHANGED <<pc, ready, prog, ring, accepted, refused>>
    BY <1>24 DEF ExporterDeliver, Q!Deliver, OnlyQueue, bpf
  <2>. QED
    BY <2>1 DEF InvBefore
<1>25. CASE ExporterReport
  <2>1. open /\ UNCHANGED <<pc, ready, prog, ring, accepted, refused>>
    BY <1>25 DEF ExporterReport, Q!ReportLost, Q!ReportEvents, OnlyQueue, bpf
  <2>. QED
    BY <2>1 DEF InvBefore
<1>26. CASE \E c \in CPU : ReadRing(c)
  BY <1>26 DEF ReadRing, bpf, control, reader, export, queue, InvBefore, InvControl, Before, TypeOK
<1>27. CASE Programs
  <2>1. PICK c \in CPU : Enter(c) \/ Output(c) \/ CountRead(c) \/ CountWrite(c)
    BY <1>27 DEF Programs
  <2>2. UNCHANGED <<pc, ready, accepted, refused>>
    BY <2>1 DEF Enter, Output, CountRead, CountWrite, export, queue
  <2>3. pc \notin Before
    BY <2>1 DEF InvBefore, Enter, Output, CountRead, CountWrite
  <2>. QED
    BY <2>2, <2>3 DEF InvBefore, Before
<1>28. CASE UNCHANGED vars
  BY <1>28 DEF vars, bpf, control, reader, export, queue, InvBefore, InvControl, Before, TypeOK
<1>. QED
  BY <1>1, <1>2, <1>3, <1>4, <1>5, <1>6, <1>7, <1>8, <1>9, <1>10, <1>11, <1>12, <1>13, <1>14,
     <1>15, <1>16, <1>17, <1>18, <1>19, <1>20, <1>21, <1>22, <1>23, <1>24, <1>25, <1>26, <1>27,
     <1>28
     DEF Next, PollThread, Exporter

\* A capture uses one of the ways to the trace.
LEMMA ModesInv ==
    ASSUME TypeOK, InvControl, InvBefore, InvModes, [Next]_vars
    PROVE  InvModes'
<1>1. CASE SetupRings
  BY <1>1 DEF SetupRings, bpf, control, reader, export, queue, InvModes, InvControl, InvBefore,
              After, Closing, TypeOK
<1>2. CASE SetupRetry
  BY <1>2 DEF SetupRetry, bpf, control, reader, export, queue, InvModes, InvControl, InvBefore,
              After, Closing, TypeOK
<1>3. CASE SetupFails
  BY <1>3 DEF SetupFails, bpf, control, reader, export, queue, InvModes, InvControl, InvBefore,
              After, Closing, TypeOK
<1>4. CASE StartQueue
  <2>1. /\ pc = "queue" /\ (pc' = "start" \/ pc' = "returned") /\ UNCHANGED <<mode, stop, ended, direct, discarded>>
        /\ accepted' = <<>> /\ refused' = Q!Nothing
    BY <1>4 DEF StartQueue, Q!Open
  <2>. QED
    BY <2>1 DEF InvModes, InvControl, After
<1>5. CASE TraceReady
  BY <1>5 DEF TraceReady, bpf, control, reader, export, queue, InvModes, InvControl, InvBefore,
              After, Closing, TypeOK
<1>6. CASE PollIdle
  BY <1>6 DEF PollIdle, bpf, control, reader, export, queue, InvModes, InvControl, InvBefore,
              After, Closing, TypeOK
<1>7. CASE PollData
  BY <1>7 DEF PollData, bpf, control, reader, export, queue, InvModes, InvControl, InvBefore,
              After, Closing, TypeOK
<1>8. CASE PollFails
  BY <1>8 DEF PollFails, AfterLoop, bpf, control, reader, export, queue, InvModes, InvControl,
              InvBefore, After, Closing, TypeOK
<1>9. CASE AfterPoll
  BY <1>9 DEF AfterPoll, AfterLoop, bpf, control, reader, export, queue, InvModes, InvControl,
              InvBefore, After, Closing, TypeOK
<1>10. CASE ReadRecord
  <2>. DEFINE m == ring[cur][pos + 1]
  <2>1. /\ pc = "read" /\ m \in Messages /\ UNCHANGED <<mode, pc, ended, exported>>
        /\ \/ /\ capture_async
              /\ UNCHANGED <<stop, direct, discarded>>
           \/ /\ ~capture_async /\ direct' = Append(direct, m)
              /\ IF m.lost > 0 THEN stop' = (stop \/ ~Perfetto) ELSE ~stop /\ stop' = stop
              /\ UNCHANGED <<accepted, refused, discarded>>
           \/ /\ ~capture_async /\ stop /\ discarded' = discarded + 1
              /\ UNCHANGED <<stop, accepted, refused, direct>>
    BY <1>10, ReadEffect DEF ReadRecord, control
  <2>2. mode = "capture" <=> capture_async
    BY <2>1 DEF InvControl
  <2>3. CASE capture_async
    BY <2>1, <2>2, <2>3 DEF InvModes, After
  <2>4. CASE /\ ~capture_async /\ direct' = Append(direct, m)
             /\ IF m.lost > 0 THEN stop' = (stop \/ ~Perfetto) ELSE ~stop /\ stop' = stop
             /\ UNCHANGED <<accepted, refused, discarded>>
    <3>. HIDE DEF m
    <3>1. direct \in Seq(Messages) /\ DOMAIN direct = 1..Len(direct) /\ Len(direct) \in Nat
      BY LenProperties DEF TypeOK
    <3>2. \A j \in DOMAIN direct' : (j \in DOMAIN direct /\ direct'[j] = direct[j]) \/ direct'[j] = m
      <4>1. /\ Append(direct, m) \in Seq(Messages) /\ Len(Append(direct, m)) = Len(direct) + 1
            /\ \A j \in 1..Len(direct) + 1 : Append(direct, m)[j] = IF j <= Len(direct) THEN direct[j] ELSE m
        BY <2>1, <3>1, AppendProperties
      <4>2. direct' = Append(direct, m)
        BY <2>4
      <4>3. DOMAIN direct' = 1..Len(direct) + 1
        BY <4>1, <4>2, LenProperties
      <4>. QED
        BY <3>1, <4>1, <4>2, <4>3
    <3>3. stop => stop'
      BY <2>4
    <3>4. mode = "terminal" /\ m.lost > 0 => stop'
      BY <2>1, <2>4 DEF Perfetto
    <3>5. mode = "terminal" /\ (\E j \in DOMAIN direct' : direct'[j].lost > 0) => stop'
      BY <3>2, <3>3, <3>4 DEF InvModes
    <3>. QED
      BY <2>1, <2>2, <2>4, <3>3, <3>5 DEF InvModes, After
  <2>5. CASE /\ ~capture_async /\ stop /\ discarded' = discarded + 1
             /\ UNCHANGED <<stop, accepted, refused, direct>>
    BY <2>1, <2>2, <2>5 DEF InvModes, After
  <2>. QED
    BY <2>1, <2>3, <2>4, <2>5
<1>11. CASE ReadDone
  BY <1>11 DEF ReadDone, bpf, control, reader, export, queue, InvModes, InvControl, InvBefore,
               After, Closing, TypeOK
<1>12. CASE ReadFails
  BY <1>12 DEF ReadFails, AfterLoop, Keeps, bpf, control, reader, export, queue, InvModes,
               InvControl, InvBefore, After, Closing, TypeOK
<1>13. CASE ReadReturns
  BY <1>13 DEF ReadReturns, bpf, control, reader, export, queue, InvModes, InvControl, InvBefore,
               After, Closing, TypeOK
<1>14. CASE DisableLookup
  BY <1>14 DEF DisableLookup, bpf, control, reader, export, queue, InvModes, InvControl, InvBefore,
               After, Closing, TypeOK
<1>15. CASE DisableUpdate
  BY <1>15 DEF DisableUpdate, Consume, bpf, control, reader, export, queue, InvModes, InvControl,
               InvBefore, After, Closing, TypeOK
<1>16. CASE DisableFails
  BY <1>16 DEF DisableFails, Consume, Keeps, bpf, control, reader, export, queue, InvModes,
               InvControl, InvBefore, After, Closing, TypeOK
<1>17. CASE StopChild
  BY <1>17 DEF StopChild, bpf, control, reader, export, queue, InvModes, InvControl, InvBefore,
               After, Closing, TypeOK
<1>18. CASE StopQueue
  BY <1>18 DEF StopQueue, bpf, control, reader, export, queue, InvModes, InvControl, InvBefore,
               After, Closing, TypeOK
<1>19. CASE JoinQueue
  BY <1>19 DEF JoinQueue, Q!Close, bpf, control, reader, export, queue, InvModes, InvControl,
               InvBefore, After, Closing, TypeOK
<1>20. CASE FreeRings
  BY <1>20 DEF FreeRings, bpf, control, reader, export, queue, InvModes, InvControl, InvBefore,
               After, Closing, TypeOK
<1>21. CASE FinishTrace
  BY <1>21 DEF FinishTrace, bpf, control, reader, export, queue, InvModes, InvControl, InvBefore,
               After, Closing, TypeOK
<1>22. CASE Signal
  BY <1>22 DEF Signal, bpf, control, reader, export, queue, InvModes, InvControl, InvBefore, After,
               Closing, TypeOK
<1>23. CASE Deadline
  BY <1>23 DEF Deadline, bpf, control, reader, export, queue, InvModes, InvControl, InvBefore,
               After, Closing, TypeOK
<1>24. CASE ExporterDeliver
  <2>1. open /\ UNCHANGED <<mode, pc, stop, ended, direct, discarded, accepted, refused>>
    BY <1>24 DEF ExporterDeliver, Q!Deliver, OnlyQueue, control
  <2>. QED
    BY <2>1 DEF InvModes, InvControl
<1>25. CASE ExporterReport
  <2>1. UNCHANGED <<mode, pc, stop, ended, direct, discarded, accepted, exported, refused>>
    BY <1>25 DEF ExporterReport, Q!ReportLost, Q!ReportEvents, OnlyQueue, control
  <2>. QED
    BY <2>1 DEF InvModes
<1>26. CASE \E c \in CPU : ReadRing(c)
  BY <1>26 DEF ReadRing, bpf, control, reader, export, queue, InvModes, InvControl, InvBefore,
               After, Closing, TypeOK
<1>27. CASE Programs
  <2>1. PICK c \in CPU : Enter(c) \/ Output(c) \/ CountRead(c) \/ CountWrite(c)
    BY <1>27 DEF Programs
  <2>2. UNCHANGED <<mode, pc, stop, ended, direct, discarded, accepted, exported, refused>>
    BY <2>1 DEF Enter, Output, CountRead, CountWrite, control, export, queue
  <2>. QED
    BY <2>2 DEF InvModes
<1>28. CASE UNCHANGED vars
  BY <1>28 DEF vars, bpf, control, reader, export, queue, InvModes, InvControl, InvBefore, After,
               Closing, TypeOK
<1>. QED
  BY <1>1, <1>2, <1>3, <1>4, <1>5, <1>6, <1>7, <1>8, <1>9, <1>10, <1>11, <1>12, <1>13, <1>14,
     <1>15, <1>16, <1>17, <1>18, <1>19, <1>20, <1>21, <1>22, <1>23, <1>24, <1>25, <1>26, <1>27,
     <1>28
     DEF Next, PollThread, Exporter

---------------------------------------------------------------------------
(* The final drain *)

\* Steps that leave the programs and the rings alone.
AwayStep ==
    \/ ControlStep \/ StartQueue \/ \E c \in CPU : ReadRing(c)
    \/ ReadRecord \/ JoinQueue \/ ExporterDeliver \/ ExporterReport
    \/ UNCHANGED vars

\* An AwayStep changes nothing of the BPF side.
LEMMA AwayFrame ==
    AwayStep => UNCHANGED <<mode, bpf>>
<1>1. ControlStep => UNCHANGED <<mode, bpf>>
  BY ControlFrame
<1>. QED
  BY <1>1 DEF AwayStep, StartQueue, ReadRing, ReadRecord, JoinQueue, ExporterDeliver,
              ExporterReport, OnlyQueue, vars

\* The steps, by what they do to programs and rings.
LEMMA StepCases ==
    ASSUME [Next]_vars
    PROVE  \/ \E c \in CPU : Enter(c) \/ Output(c) \/ CountRead(c) \/ CountWrite(c)
           \/ TraceReady \/ DisableUpdate \/ ReadDone \/ ReadFails
           \/ AwayStep
BY DEF Next, Programs, PollThread, Exporter, ControlStep, AwayStep

\* Giving the records read back to the kernel.
LEMMA AdvanceEffect ==
    ASSUME TypeOK, ReadDone \/ ReadFails
    PROVE  /\ cur \in CPU /\ pos \in Nat /\ pos <= Len(ring[cur]) /\ Len(ring[cur]) \in Nat
           /\ \A d \in CPU \ {cur} : ring'[d] = ring[d]
           /\ ring'[cur] = SubSeq(ring[cur], pos + 1, Len(ring[cur]))
           /\ ring'[cur] \in Seq(Messages)
           /\ Len(ring'[cur]) = Len(ring[cur]) - pos
           /\ DOMAIN ring'[cur] = 1..Len(ring[cur]) - pos
           /\ \A i \in 1..Len(ring[cur]) - pos : ring'[cur][i] = ring[cur][pos + i]
           /\ cur' = NoCpu /\ snap' = 0 /\ pos' = 0
           /\ UNCHANGED <<mode, ready, event_count, prog, tmp, klost, outputs, unsent, export>>
<1>1. cur \in CPU /\ pos \in Nat /\ pos <= Len(ring[cur]) /\ ring[cur] \in Seq(Messages)
        /\ Len(ring[cur]) \in Nat
  BY RingTypes DEF ReadDone, ReadFails
<1>2. ring' = [ring EXCEPT ![cur] = SubSeq(ring[cur], pos + 1, Len(ring[cur]))]
  BY DEF ReadDone, ReadFails, AdvanceTail
<1>3. ring'[cur] = SubSeq(ring[cur], pos + 1, Len(ring[cur]))
        /\ \A d \in CPU \ {cur} : ring'[d] = ring[d]
  BY <1>1, <1>2 DEF TypeOK
<1>4. /\ ring'[cur] \in Seq(Messages) /\ Len(ring'[cur]) = Len(ring[cur]) - pos
      /\ \A i \in 1..Len(ring[cur]) - pos : ring'[cur][i] = ring[cur][pos + i]
  BY <1>1, <1>3, DropProperties
<1>5. DOMAIN ring'[cur] = 1..Len(ring[cur]) - pos
  BY <1>4, LenProperties
<1>6. /\ cur' = NoCpu /\ snap' = 0 /\ pos' = 0
      /\ UNCHANGED <<mode, ready, event_count, prog, tmp, klost, outputs, unsent, export>>
  BY DEF ReadDone, ReadFails
<1>. QED
  BY <1>1, <1>3, <1>4, <1>5, <1>6

\* A closed gate lets at most one more event into each ring.
LEMMA LateInv ==
    ASSUME TypeOK, InvBounds, InvBefore, InvLate, [Next]_vars
    PROVE  InvLate'
<1>1. ASSUME NEW c \in CPU, Enter(c) PROVE InvLate'
  <2>1. ready /\ UNCHANGED <<ready, ring>>
    BY <1>1 DEF Enter
  <2>. QED
    BY <2>1 DEF InvLate
<1>2. ASSUME NEW c \in CPU, Output(c) PROVE InvLate'
  <2>. DEFINE n == Len(ring[c])
  <2>1. /\ n \in Nat /\ (Unsent(c) \/ Fits(c, n) \/ Overflows(c))
        /\ prog[c] = "gated" /\ prog' = [prog EXCEPT ![c] = "read"]
    BY <1>2, OutputEffect
  <2>2. ready' = ready
    BY <1>2 DEF Output
  <2>3. prog'[c] = "read" /\ \A d \in CPU \ {c} : prog'[d] = prog[d]
    BY <2>1 DEF TypeOK
  <2>4. CASE UNCHANGED ring
    BY <2>2, <2>3, <2>4 DEF InvLate
  <2>5. CASE Fits(c, n)
    <3>1. \A d \in CPU \ {c} : ring'[d] = ring[d]
      BY <2>5 DEF Fits, TypeOK
    <3>2. DOMAIN ring[c] = 1..n /\ \A i \in 1..n : ~ring[c][i].late
      BY <2>1, RingTypes DEF InvLate
    <3>3. (ready => ~Event(c).late /\ ~Loss(c).late) /\ Loss(c).lost = klost[c]
      BY DEF Event, Loss
    <3>4. \A i \in DOMAIN ring'[c] :
             /\ i <= n => ~ring'[c][i].late
             /\ ready => ~ring'[c][i].late
             /\ i < Len(ring'[c]) /\ i > n => ring'[c][i].lost # 0
             /\ i \in Nat /\ i <= Len(ring'[c]) /\ Len(ring'[c]) \in Nat
      <4>1. DOMAIN ring'[c] = 1..Len(ring'[c])
        BY <2>5, LenProperties DEF Fits
      <4>2. Len(ring'[c]) \in Nat /\ Len(ring'[c]) > n
        BY <2>1, <2>5 DEF Fits
      <4>3. ASSUME NEW i \in DOMAIN ring'[c], i <= n
            PROVE  ~ring'[c][i].late
        BY <2>1, <2>5, <3>2, <4>1, <4>3 DEF Fits
      <4>4. ASSUME NEW i \in DOMAIN ring'[c], i > n
            PROVE  /\ ring'[c][i] = Event(c) \/ ring'[c][i] = Loss(c)
                   /\ i < Len(ring'[c]) => klost[c] # 0 /\ ring'[c][i] = Loss(c)
        <5>1. CASE klost[c] = 0 /\ Len(ring'[c]) = n + 1 /\ ring'[c][n + 1] = Event(c)
          <6>1. i = n + 1
            BY <2>1, <4>1, <4>4, <5>1
          <6>. QED
            BY <2>1, <5>1, <6>1
        <5>2. CASE /\ klost[c] > 0 /\ Len(ring'[c]) = n + 2
                   /\ ring'[c][n + 1] = Loss(c) /\ ring'[c][n + 2] = Event(c)
          <6>1. i = n + 1 \/ i = n + 2
            BY <2>1, <4>1, <4>4, <5>2
          <6>2. klost[c] # 0
            BY <5>2 DEF TypeOK
          <6>. QED
            BY <2>1, <5>2, <6>1, <6>2
        <5>. QED
          BY <2>5, <5>1, <5>2 DEF Fits
      <4>5. \A i \in DOMAIN ring'[c] : i \in Nat /\ i <= Len(ring'[c])
        BY <4>1, <4>2
      <4>6. \A i \in DOMAIN ring'[c] : i <= n \/ i > n
        BY <2>1, <4>5
      <4>7. \A i \in DOMAIN ring'[c] : ready => ~ring'[c][i].late
        BY <3>3, <4>3, <4>4, <4>6
      <4>8. \A i \in DOMAIN ring'[c] : i < Len(ring'[c]) /\ i > n => ring'[c][i].lost # 0
        BY <3>3, <4>4
      <4>. QED
        BY <4>2, <4>3, <4>5, <4>7, <4>8
    <3>5. \A i, j \in DOMAIN ring'[c] :
             /\ ring'[c][i].late /\ ring'[c][i].lost = 0
             /\ ring'[c][j].late /\ ring'[c][j].lost = 0
             => i = j
      <4>1. \A i \in DOMAIN ring'[c] :
               ring'[c][i].late /\ ring'[c][i].lost = 0 => i = Len(ring'[c])
        BY <2>1, <3>4
      <4>. QED
        BY <4>1
    <3>. QED
      BY <2>2, <2>3, <3>1, <3>4, <3>5 DEF InvLate
  <2>. QED
    BY <2>1, <2>4, <2>5 DEF Unsent, Overflows
<1>3. ASSUME NEW c \in CPU, CountRead(c) \/ CountWrite(c) PROVE InvLate'
  <2>1. UNCHANGED <<ready, ring>>
    BY <1>3 DEF CountRead, CountWrite
  <2>2. \A d \in CPU : prog'[d] = "gated" => prog[d] = "gated"
    BY <1>3 DEF CountRead, CountWrite, TypeOK
  <2>. QED
    BY <2>1, <2>2 DEF InvLate
<1>4. CASE TraceReady
  <2>1. \A c \in CPU : DOMAIN ring'[c] = {}
    BY <1>4 DEF TraceReady, InvBefore, Before
  <2>. QED
    BY <2>1 DEF InvLate
<1>5. CASE DisableUpdate
  <2>1. UNCHANGED <<prog, ring>> /\ ~ready'
    BY <1>5 DEF DisableUpdate
  <2>. QED
    BY <2>1 DEF InvLate
<1>6. CASE ReadDone \/ ReadFails
  <2>. DEFINE n == Len(ring[cur]) - pos
  <2>1. /\ cur \in CPU /\ pos \in Nat /\ n \in Nat
        /\ \A d \in CPU \ {cur} : ring'[d] = ring[d]
        /\ DOMAIN ring'[cur] = 1..n /\ \A i \in 1..n : ring'[cur][i] = ring[cur][pos + i]
        /\ UNCHANGED <<ready, prog>>
    BY <1>6, AdvanceEffect
  <2>2. \A i \in 1..n : pos + i \in DOMAIN ring[cur]
    BY <2>1, RingTypes
  <2>3. \A i \in DOMAIN ring'[cur] : pos + i \in DOMAIN ring[cur] /\ ring'[cur][i] = ring[cur][pos + i]
    BY <2>1, <2>2
  <2>4. \A i, j \in DOMAIN ring'[cur] : pos + i = pos + j => i = j
    BY <2>1
  <2>5. ASSUME NEW c \in CPU
        PROVE /\ ready' \/ prog'[c] = "gated" => \A i \in DOMAIN ring'[c] : ~ring'[c][i].late
              /\ \A i, j \in DOMAIN ring'[c] :
                    /\ ring'[c][i].late /\ ring'[c][i].lost = 0
                    /\ ring'[c][j].late /\ ring'[c][j].lost = 0
                    => i = j
    <3>1. CASE c = cur
      <4>. HIDE DEF n
      <4>1. ASSUME ready' \/ prog'[c] = "gated", NEW i \in DOMAIN ring'[c]
            PROVE  ~ring'[c][i].late
        BY <2>1, <2>3, <3>1, <4>1 DEF InvLate
      <4>2. ASSUME NEW i \in DOMAIN ring'[c], NEW j \in DOMAIN ring'[c],
                   ring'[c][i].late, ring'[c][i].lost = 0,
                   ring'[c][j].late, ring'[c][j].lost = 0
            PROVE  i = j
        <5>. DEFINE a == pos + i
                    b == pos + j
        <5>2. a \in DOMAIN ring[cur] /\ ring'[c][i] = ring[cur][a]
          BY <2>3, <3>1
        <5>3. b \in DOMAIN ring[cur] /\ ring'[c][j] = ring[cur][b]
          BY <2>3, <3>1
        <5>. HIDE DEF a, b
        <5>4. a = b
          BY <2>1, <4>2, <5>2, <5>3 DEF InvLate
        <5>1. pos + i = pos + j
          BY <5>4 DEF a, b
        <5>. QED
          BY <2>4, <3>1, <5>1
      <4>. QED
        BY <4>1, <4>2
    <3>2. CASE c # cur
      BY <2>1, <2>5, <3>2 DEF InvLate
    <3>. QED
      BY <3>1, <3>2
  <2>. QED
    BY <2>5 DEF InvLate
<1>7. CASE AwayStep
  <2>1. UNCHANGED <<ready, prog, ring>>
    BY <1>7, AwayFrame DEF bpf
  <2>. QED
    BY <2>1 DEF InvLate
<1>. QED
  BY <1>1, <1>2, <1>3, <1>4, <1>5, <1>6, <1>7, StepCases

\* A ring taken by the final drain holds only late records behind the part taken.
LEMMA DrainedInv ==
    ASSUME TypeOK, InvBounds, InvControl, InvDrained, [Next]_vars
    PROVE  InvDrained'
<1>1. ASSUME NEW c \in CPU, Output(c) PROVE InvDrained'
  <2>. DEFINE n == Len(ring[c])
  <2>1. n \in Nat /\ (Unsent(c) \/ Fits(c, n) \/ Overflows(c))
    BY <1>1, OutputEffect
  <2>2. UNCHANGED <<ready, draining, err, todo, cur, snap>>
    BY <1>1 DEF Output, control, reader
  <2>3. CASE UNCHANGED ring
    BY <2>2, <2>3 DEF InvDrained
  <2>4. CASE Fits(c, n)
    <3>1. \A d \in CPU \ {c} : ring'[d] = ring[d]
      BY <2>4 DEF Fits, TypeOK
    <3>2. DOMAIN ring[c] = 1..n /\ n \in Nat
      BY RingTypes
    <3>3. ~ready => \A i \in DOMAIN ring'[c] :
             ring'[c][i].late \/ (i \in DOMAIN ring[c] /\ ring'[c][i] = ring[c][i])
      <4>1. DOMAIN ring'[c] = 1..Len(ring'[c])
        BY <2>4, LenProperties DEF Fits
      <4>2. ~ready => Event(c).late /\ Loss(c).late
        BY DEF Event, Loss
      <4>3. CASE klost[c] = 0 /\ Len(ring'[c]) = n + 1 /\ ring'[c][n + 1] = Event(c)
        BY <2>4, <3>2, <4>1, <4>2, <4>3 DEF Fits
      <4>4. CASE /\ klost[c] > 0 /\ Len(ring'[c]) = n + 2
                 /\ ring'[c][n + 1] = Loss(c) /\ ring'[c][n + 2] = Event(c)
        BY <2>4, <3>2, <4>1, <4>2, <4>4 DEF Fits
      <4>. QED
        BY <2>4, <4>3, <4>4 DEF Fits
    <3>. QED
      BY <2>2, <3>1, <3>3 DEF InvDrained
  <2>. QED
    BY <2>1, <2>3, <2>4 DEF Unsent, Overflows
<1>2. ASSUME NEW c \in CPU, Enter(c) \/ CountRead(c) \/ CountWrite(c) PROVE InvDrained'
  <2>1. UNCHANGED <<ready, ring, draining, err, todo, cur, snap>>
    BY <1>2 DEF Enter, CountRead, CountWrite, control, reader
  <2>. QED
    BY <2>1 DEF InvDrained
<1>3. CASE TraceReady
  <2>1. ~draining'
    BY <1>3 DEF TraceReady, InvControl, reader, After
  <2>. QED
    BY <2>1 DEF InvDrained
<1>4. CASE DisableUpdate
  <2>1. ~ready' /\ todo' = CPU
    BY <1>4 DEF DisableUpdate, Consume
  <2>. QED
    BY <2>1 DEF InvDrained
<1>5. CASE ReadDone
  <2>. DEFINE n == Len(ring[cur]) - pos
  <2>1. /\ cur \in CPU /\ pos \in Nat /\ n \in Nat
        /\ \A d \in CPU \ {cur} : ring'[d] = ring[d]
        /\ DOMAIN ring'[cur] = 1..n /\ \A i \in 1..n : ring'[cur][i] = ring[cur][pos + i]
        /\ UNCHANGED <<ready, prog>>
    BY <1>5, AdvanceEffect, SMTT(40)
  <2>2. pos = snap /\ UNCHANGED <<draining, err, todo>>
    BY <1>5 DEF ReadDone, control
  <2>3. \A i \in DOMAIN ring'[cur] : /\ pos + i \in DOMAIN ring[cur] /\ pos + i > snap
                                     /\ ring'[cur][i] = ring[cur][pos + i]
    BY <2>1, <2>2, RingTypes
  <2>4. ASSUME draining, err \notin Errors, NEW c \in CPU \ todo, NEW i \in DOMAIN ring'[c]
        PROVE  ring'[c][i].late
    <3>1. CASE c = cur
      <4>. HIDE DEF n
      <4>1. pos + i \in DOMAIN ring[cur] /\ pos + i > snap /\ ring'[cur][i] = ring[cur][pos + i]
        BY <2>3, <2>4, <3>1
      <4>. QED
        BY <2>4, <3>1, <4>1 DEF InvDrained
    <3>2. CASE c # cur
      BY <2>1, <2>4, <3>2 DEF InvDrained
    <3>. QED
      BY <3>1, <3>2
  <2>. QED
    BY <2>1, <2>2, <2>4 DEF InvDrained
<1>6. CASE ReadFails
  <2>1. ~draining' \/ err' \in Errors
    BY <1>6 DEF ReadFails, Keeps, Errors, TypeOK
  <2>. QED
    BY <2>1 DEF InvDrained
<1>7. CASE \E c \in CPU : ReadRing(c)
  <2>1. PICK c \in CPU : ReadRing(c)
    BY <1>7
  <2>2. /\ cur = NoCpu /\ todo' = todo \ {c} /\ cur' = c /\ snap' = Len(ring[c])
        /\ UNCHANGED <<ready, ring, draining, err>>
    BY <2>1 DEF ReadRing, bpf, control
  <2>3. \A i \in DOMAIN ring[c] : ~(i > snap')
    BY <2>2, RingTypes
  <2>4. \A d \in CPU : cur # d
    BY <2>2, CpuAssumption
  <2>. QED
    BY <2>2, <2>3, <2>4 DEF InvDrained
<1>8. CASE StartQueue \/ ReadRecord \/ JoinQueue \/ ExporterDeliver \/ ExporterReport \/ UNCHANGED vars
  <2>1. UNCHANGED <<ready, ring, draining, err, todo, cur, snap>>
    BY <1>8 DEF StartQueue, ReadRecord, JoinQueue, ExporterDeliver, ExporterReport, OnlyQueue,
                vars, bpf, control, reader
  <2>. QED
    BY <2>1 DEF InvDrained
<1>9. CASE ControlStep
  <2>1. UNCHANGED <<ready, ring>>
    BY <1>9, ControlFrame DEF bpf
  <2>2. CASE DisableFails
    <3>1. err' \in Errors
      BY <2>2 DEF DisableFails, Keeps, Errors, TypeOK
    <3>. QED
      BY <3>1 DEF InvDrained
  <2>3. CASE PollIdle \/ PollData \/ PollFails
    <3>1. ~draining'
      BY <2>3 DEF PollIdle, PollData, PollFails, InvControl, reader, After
    <3>. QED
      BY <3>1 DEF InvDrained
  <2>4. CASE ControlStep /\ ~DisableFails /\ ~PollIdle /\ ~PollData /\ ~PollFails
    <3>1. UNCHANGED <<draining, err, todo, cur, snap>>
      BY <2>4 DEF ControlStep, SetupRings, SetupRetry, SetupFails, AfterPoll, ReadReturns,
                  DisableLookup, StopChild, StopQueue, FreeRings, FinishTrace, Signal, Deadline,
                  control, reader
    <3>. QED
      BY <2>1, <3>1 DEF InvDrained
  <2>. QED
    BY <1>9, <2>2, <2>3, <2>4
<1>. QED
  BY <1>1, <1>2, <1>3, <1>4, <1>5, <1>6, <1>7, <1>8, <1>9, StepCases DEF AwayStep

---------------------------------------------------------------------------
(* The count *)

Total == SumFunctionOnSet(Counted, CPU)

\* The total of the outputs counted is a number.
LEMMA CountedTypes ==
    ASSUME TypeOK
    PROVE  /\ SumFunction(Counted) = Total /\ Total \in Int
           /\ \A c \in CPU : Counted[c] \in Int
<1>1. \A c \in CPU : outputs[c] \in Nat
  BY SlotAssumption DEF TypeOK
<1>2. DOMAIN Counted = CPU /\ \A c \in CPU : Counted[c] \in Int
  BY <1>1 DEF Counted
<1>3. Total \in Int
  BY <1>2, CpuAssumption, SumType DEF Total
<1>. QED
  BY <1>2, <1>3 DEF SumFunction, Total

\* InvCount with the total as a number.
Bounded(total) ==
    /\ \A c \in CPU : Counted[c] >= 0
    /\ event_count <= total /\ saved <= total /\ final <= total
    /\ \A c \in CPU : prog[c] = "write" => tmp[c] <= total

\* No copy of event_count exceeds the outputs counted: lost updates only lower it.
LEMMA CountInv ==
    ASSUME TypeOK, TypeOK', InvBounds, InvCount, [Next]_vars
    PROVE  InvCount'
<1>1. SumFunction(Counted) = Total /\ Total \in Int /\ \A c \in CPU : Counted[c] \in Int
  BY CountedTypes
<1>2. Bounded(Total)
  BY <1>1 DEF InvCount, Bounded
<1>3. SumFunction(Counted') = Total'
  BY DEF Counted, Total, SumFunction
<1>4. SUFFICES Bounded(Total)'
  BY <1>3 DEF InvCount, Bounded
<1>5. \A c \in CPU : Counted'[c] \in Int /\ outputs[c] \in Nat /\ outputs'[c] \in Nat
  <2>1. \A c \in CPU : outputs[c] \in Nat /\ outputs'[c] \in Nat
    BY SlotAssumption DEF TypeOK
  <2>. QED
    BY <2>1 DEF Counted
<1>6. ASSUME \A c \in CPU : Counted'[c] = Counted[c]
      PROVE  Total' = Total
  BY <1>6, CpuAssumption, SumAgrees DEF Total
<1>7. ASSUME NEW c \in CPU, Enter(c) \/ Output(c) PROVE Bounded(Total)'
  <2>1. /\ UNCHANGED <<event_count, saved, final, tmp>>
        /\ \/ prog[c] = "idle" /\ prog' = [prog EXCEPT ![c] = "gated"] /\ UNCHANGED outputs
           \/ /\ prog[c] = "gated" /\ prog' = [prog EXCEPT ![c] = "read"]
              /\ outputs' = [outputs EXCEPT ![c] = @ + 1]
    BY <1>7 DEF Enter, Output, control
  <2>2. prog \in [CPU -> {"idle", "gated", "read", "write"}] /\ outputs \in [CPU -> 0..MaxOutputs]
    BY DEF TypeOK
  <2>3. \A d \in CPU \ {c} : prog'[d] = prog[d] /\ outputs'[d] = outputs[d]
    BY <2>1, <2>2
  <2>4. \/ prog[c] = "idle" /\ prog'[c] = "gated" /\ outputs'[c] = outputs[c]
        \/ prog[c] = "gated" /\ prog'[c] = "read" /\ outputs'[c] = outputs[c] + 1
    BY <2>1, <2>2
  <2>5. Counted'[c] = Counted[c] /\ \A d \in CPU \ {c} : Counted'[d] = Counted[d]
    BY <1>5, <2>3, <2>4 DEF Counted
  <2>6. Total' = Total
    BY <1>6, <2>5
  <2>. QED
    BY <1>2, <2>1, <2>3, <2>4, <2>5, <2>6 DEF Bounded
<1>8. ASSUME NEW c \in CPU, CountRead(c) PROVE Bounded(Total)'
  <2>1. /\ UNCHANGED <<event_count, saved, final, outputs>> /\ prog[c] = "read"
        /\ prog' = [prog EXCEPT ![c] = "write"] /\ tmp' = [tmp EXCEPT ![c] = event_count]
    BY <1>8 DEF CountRead, control
  <2>2. prog \in [CPU -> {"idle", "gated", "read", "write"}] /\ tmp \in [CPU -> Nat]
    BY DEF TypeOK
  <2>3. /\ \A d \in CPU \ {c} : prog'[d] = prog[d] /\ tmp'[d] = tmp[d]
        /\ prog'[c] = "write" /\ tmp'[c] = event_count
    BY <2>1, <2>2
  <2>4. \A d \in CPU : Counted'[d] = Counted[d]
    BY <2>1, <2>3 DEF Counted
  <2>5. Total' = Total
    BY <1>6, <2>4
  <2>. QED
    BY <1>2, <2>1, <2>3, <2>4, <2>5 DEF Bounded
<1>9. ASSUME NEW c \in CPU, CountWrite(c) PROVE Bounded(Total)'
  <2>1. /\ UNCHANGED <<saved, final, outputs, tmp>> /\ prog[c] = "write"
        /\ prog' = [prog EXCEPT ![c] = "idle"] /\ event_count' = tmp[c] + 1
    BY <1>9 DEF CountWrite, control
  <2>2. /\ prog \in [CPU -> {"idle", "gated", "read", "write"}] /\ tmp \in [CPU -> Nat]
        /\ event_count \in Nat /\ saved \in Nat /\ final \in Nat
    BY DEF TypeOK
  <2>3. prog'[c] = "idle" /\ \A d \in CPU \ {c} : prog'[d] = prog[d]
    BY <2>1, <2>2
  <2>4. Counted'[c] = Counted[c] + 1 /\ \A d \in CPU \ {c} : Counted'[d] = Counted[d]
    BY <1>5, <2>1, <2>3 DEF Counted
  <2>5. Total' = Total + 1
    <3>1. SumFunctionOnSet(Counted', CPU)
            = SumFunctionOnSet(Counted, CPU) + (Counted'[c] - Counted[c])
      BY <1>1, <1>5, <2>4, CpuAssumption, SumChange
    <3>2. Counted[c] \in Int
      BY <1>1
    <3>. QED
      BY <1>1, <2>4, <3>1, <3>2 DEF Total
  <2>6. \A d \in CPU : Counted'[d] >= 0
    BY <1>1, <1>2, <2>4 DEF Bounded
  <2>7. tmp[c] <= Total /\ tmp[c] \in Nat
    BY <1>2, <2>1, <2>2 DEF Bounded
  <2>8. \A d \in CPU : prog'[d] = "write" => tmp'[d] <= Total + 1
    BY <1>1, <1>2, <2>1, <2>2, <2>3 DEF Bounded
  <2>9. event_count' <= Total + 1 /\ saved' <= Total + 1 /\ final' <= Total + 1
    BY <1>1, <1>2, <2>1, <2>2, <2>7 DEF Bounded
  <2>. QED
    BY <2>5, <2>6, <2>8, <2>9 DEF Bounded
<1>10. CASE UNCHANGED <<prog, outputs, tmp>> /\ (event_count' = event_count \/ event_count' = saved)
            /\ (saved' = saved \/ saved' = event_count) /\ (final' = final \/ final' = event_count)
  <2>1. \A c \in CPU : Counted'[c] = Counted[c]
    BY <1>10 DEF Counted
  <2>2. Total' = Total
    BY <1>6, <2>1
  <2>. QED
    BY <1>2, <1>10, <2>1, <2>2 DEF Bounded
<1>11. CASE TraceReady \/ DisableUpdate \/ ReadDone \/ ReadFails
  BY <1>10, <1>11 DEF TraceReady, DisableUpdate, ReadDone, ReadFails, control
<1>12. CASE AwayStep
  <2>1. UNCHANGED <<prog, outputs, tmp, event_count>>
    BY <1>12, AwayFrame DEF bpf
  <2>2. /\ saved' = saved \/ saved' = event_count
        /\ final' = final \/ final' = event_count
    <3>1. CASE ControlStep
      BY <3>1 DEF ControlStep, SetupRings, SetupRetry, SetupFails, PollIdle, PollData, PollFails,
                  AfterPoll, ReadReturns, DisableLookup, DisableFails, StopChild, StopQueue,
                  FreeRings, FinishTrace, Signal, Deadline, control
    <3>2. CASE ~ControlStep
      BY <1>12, <3>2 DEF AwayStep, StartQueue, ReadRing, ReadRecord, JoinQueue, ExporterDeliver,
                         ExporterReport, OnlyQueue, vars, control
    <3>. QED
      BY <3>1, <3>2
  <2>. QED
    BY <1>10, <2>1, <2>2
<1>. QED
  BY <1>7, <1>8, <1>9, <1>11, <1>12, StepCases

---------------------------------------------------------------------------
(* Where every output is *)

\* The unread outputs of CPU c, and those that wait for a reader.
Left(c) == Run(ring[c], From(c), Len(ring[c]))
Pending == [c \in CPU |-> Weight(Unread(c)) + klost[c]]

PendingTrue ==
    \A c \in CPU :
        /\ From(c) \in Nat /\ From(c) <= Len(ring[c]) /\ Left(c) \in Nat
        /\ klost[c] \in Nat /\ Pending[c] = Left(c) + klost[c]

\* The outputs waiting at a CPU are its unread records and its pending loss.
LEMMA PendingIs == TypeOK => PendingTrue
<1>. SUFFICES ASSUME TypeOK, NEW c \in CPU
              PROVE  /\ From(c) \in Nat /\ From(c) <= Len(ring[c]) /\ Left(c) \in Nat
                     /\ klost[c] \in Nat /\ Pending[c] = Left(c) + klost[c]
  BY DEF PendingTrue
<1>1. From(c) \in Nat /\ From(c) <= Len(ring[c]) /\ ring[c] \in Seq(Messages) /\ Len(ring[c]) \in Nat
  BY RingTypes, CpuAssumption DEF From
<1>2. Left(c) \in Nat
  <2>. DEFINE q == ring[c]
              k == Len(q)
              p == From(c)
  <2>1. q \in Seq(Messages) /\ p \in Nat /\ k \in Int /\ k <= Len(q)
    BY <1>1
  <2>. HIDE DEF q, k, p
  <2>2. Run(q, p, k) \in Nat
    BY <2>1, RunType
  <2>. QED
    BY <2>2 DEF Left, q, k, p
<1>3. Weight(Unread(c)) = Left(c)
  <2>1. CASE cur = c
    BY <1>1, <2>1, WeightDrop DEF Unread, From, Left
  <2>2. CASE cur # c
    BY <1>1, <2>2, WeightIsRun DEF Unread, From, Left
  <2>. QED
    BY <2>1, <2>2
<1>4. klost[c] \in Nat
  BY DEF TypeOK
<1>. QED
  BY <1>1, <1>2, <1>3, <1>4 DEF Pending

\* A change at one CPU changes the sum by as much.
LEMMA PendingChange ==
    ASSUME PendingTrue, PendingTrue', NEW c \in CPU, \A d \in CPU \ {c} : Pending'[d] = Pending[d]
    PROVE  /\ SumFunction(Pending') = SumFunction(Pending) + (Pending'[c] - Pending[c])
           /\ SumFunction(Pending) \in Nat
<1>1. \A d \in CPU : Pending[d] \in Nat /\ Pending'[d] \in Nat /\ Pending[d] \in Int /\ Pending'[d] \in Int
  <2>1. \A d \in CPU : Left(d) \in Nat /\ klost[d] \in Nat /\ Pending[d] = Left(d) + klost[d]
    BY DEF PendingTrue
  <2>2. \A d \in CPU : Left(d)' \in Nat /\ klost'[d] \in Nat /\ Pending'[d] = Left(d)' + klost'[d]
    BY DEF PendingTrue
  <2>. HIDE DEF Pending
  <2>3. \A x, y \in Nat : x + y \in Nat /\ x + y \in Int
    OBVIOUS
  <2>. QED
    BY <2>1, <2>2, <2>3
<1>2. SumFunction(Pending) = SumFunctionOnSet(Pending, CPU)
  BY DEF Pending, SumFunction
<1>3. SumFunction(Pending') = SumFunctionOnSet(Pending', CPU)
  BY DEF Pending, SumFunction
<1>4. SumFunctionOnSet(Pending', CPU) = SumFunctionOnSet(Pending, CPU) + (Pending'[c] - Pending[c])
  BY <1>1, CpuAssumption, SumChange
<1>5. SumFunctionOnSet(Pending, CPU) \in Nat
  BY <1>1, CpuAssumption, SumType
<1>. QED
  BY <1>2, <1>3, <1>4, <1>5

\* The sum stays when no CPU changes.
LEMMA PendingSame ==
    ASSUME \A d \in CPU : Pending'[d] = Pending[d]
    PROVE  SumFunction(Pending') = SumFunction(Pending)
<1>1. SumFunction(Pending) = SumFunctionOnSet(Pending, CPU)
  BY DEF Pending, SumFunction
<1>2. SumFunction(Pending') = SumFunctionOnSet(Pending', CPU)
  BY DEF Pending, SumFunction
<1>. QED
  BY <1>1, <1>2, CpuAssumption, SumAgrees

\* What is unread of a ring after an output that fits.
LEMMA FitsRun ==
    ASSUME NEW c \in CPU, NEW n \in Nat, n = Len(ring[c]), ring[c] \in Seq(Messages),
           klost[c] \in Nat, Event(c) \in Messages, Loss(c) \in Messages,
           Fits(c, n), NEW p \in Nat, p <= n
    PROVE  /\ \A k \in 0..n : Run(ring'[c], p, k) = Run(ring[c], p, k)
           /\ klost[c] > 0 => Run(ring'[c], p, n + 1) = Run(ring[c], p, n) + klost[c]
           /\ Run(ring'[c], p, Len(ring'[c])) = Run(ring[c], p, n) + klost[c] + 1
<1>. DEFINE r == ring'[c]
            q == ring[c]
<1>1. r \in Seq(Messages) /\ \A i \in 1..n : r[i] = q[i]
  BY DEF Fits
<1>2. \/ klost[c] = 0 /\ Len(r) = n + 1 /\ r[n + 1] = Event(c)
      \/ klost[c] > 0 /\ Len(r) = n + 2 /\ r[n + 1] = Loss(c) /\ r[n + 2] = Event(c)
  BY DEF Fits
<1>3. Stands(Event(c)) = 1 /\ (klost[c] > 0 => Stands(Loss(c)) = klost[c])
  BY DEF Stands, Event, Loss
<1>. HIDE DEF r, q
<1>4. \A k \in 0..n : Run(r, p, k) = Run(q, p, k)
  <2>. SUFFICES ASSUME NEW k \in 0..n PROVE Run(r, p, k) = Run(q, p, k)
    OBVIOUS
  <2>1. k \in Int /\ k <= Len(r) /\ k <= Len(q) /\ \A i \in p + 1 .. k : r[i] = q[i]
    BY <1>1, <1>2 DEF q
  <2>. QED
    BY <1>1, <2>1, RunAgrees DEF q
<1>5. Run(r, p, n) = Run(q, p, n) /\ Run(q, p, n) \in Nat
  <2>1. n \in 0..n /\ n \in Int /\ n <= Len(q) /\ q \in Seq(Messages)
    BY DEF q
  <2>2. Run(q, p, n) \in Nat
    BY <2>1, RunType
  <2>. QED
    BY <1>4, <2>1, <2>2
<1>6. CASE klost[c] = 0 /\ Len(r) = n + 1 /\ r[n + 1] = Event(c)
  <2>1. Run(r, p, n + 1) = Run(r, p, (n + 1) - 1) + Stands(r[n + 1])
    BY <1>1, <1>6, RunLast
  <2>2. (n + 1) - 1 = n
    OBVIOUS
  <2>. QED
    BY <1>3, <1>4, <1>5, <1>6, <2>1, <2>2 DEF r, q
<1>7. CASE klost[c] > 0 /\ Len(r) = n + 2 /\ r[n + 1] = Loss(c) /\ r[n + 2] = Event(c)
  <2>0. n + 1 \in Nat /\ p < n + 1 /\ n + 1 <= Len(r)
    BY <1>7
  <2>1. Run(r, p, n + 1) = Run(r, p, (n + 1) - 1) + Stands(r[n + 1])
    BY <1>1, <2>0, RunLast
  <2>2. Run(r, p, n + 2) = Run(r, p, (n + 2) - 1) + Stands(r[n + 2])
    BY <1>1, <1>7, RunLast
  <2>3. (n + 1) - 1 = n /\ (n + 2) - 1 = n + 1
    OBVIOUS
  <2>. QED
    BY <1>3, <1>4, <1>5, <1>7, <2>1, <2>2, <2>3 DEF r, q
<1>. QED
  BY <1>2, <1>6, <1>7

\* The steps of the reader that only change how its position is written.
LEMMA ReaderKeeps ==
    ASSUME TypeOK, ReadDone \/ ReadFails \/ (\E c \in CPU : ReadRing(c)), NEW d \in CPU
    PROVE  /\ Left(d)' = Left(d)
           /\ From(d)' = 0 /\ Len(ring'[d]) = Len(ring[d]) - From(d)
           /\ \A k \in 1..Len(ring'[d]) : ring'[d][k] = ring[d][From(d) + k]
           /\ \A k \in 0..Len(ring'[d]) : Run(ring'[d], 0, k) = Run(ring[d], From(d), From(d) + k)
<1>0. PendingTrue /\ ring[d] \in Seq(Messages) /\ Len(ring[d]) \in Nat
  BY PendingIs, RingTypes
<1>1. CASE ReadDone \/ ReadFails
  <2>1. /\ cur \in CPU /\ pos \in Nat /\ pos <= Len(ring[cur]) /\ cur' = NoCpu
        /\ ring'[cur] = SubSeq(ring[cur], pos + 1, Len(ring[cur]))
        /\ Len(ring'[cur]) = Len(ring[cur]) - pos
        /\ \A i \in 1..Len(ring[cur]) - pos : ring'[cur][i] = ring[cur][pos + i]
        /\ d # cur => ring'[d] = ring[d]
    BY <1>1, AdvanceEffect
  <2>2. From(d)' = 0
    BY <2>1, CpuAssumption DEF From
  <2>3. CASE d = cur
    <3>. DEFINE q == ring[d]
                r == ring'[d]
                n == Len(q) - pos
    <3>1. /\ From(d) = pos /\ pos \in Nat /\ pos <= Len(q) /\ q \in Seq(Messages) /\ Len(q) \in Nat
          /\ r = SubSeq(q, pos + 1, Len(q)) /\ Len(r) = n
          /\ \A i \in 1..n : r[i] = q[pos + i]
      BY <1>0, <2>1, <2>3 DEF From
    <3>. HIDE DEF q, r
    <3>2. \A k \in 0..n : Run(r, 0, k) = Run(q, pos, pos + k)
      <4>. SUFFICES ASSUME NEW k \in 0..n PROVE Run(r, 0, k) = Run(q, pos, pos + k)
        OBVIOUS
      <4>1. k \in Int /\ -1 <= k /\ k <= Len(q) - pos
        BY <3>1
      <4>. QED
        BY <3>1, <4>1, RunDrop
    <3>3. pos + n = Len(q) /\ n \in 0..n
      BY <3>1
    <3>. HIDE DEF n
    <3>4. Run(r, 0, n) = Run(q, pos, Len(q))
      BY <3>2, <3>3
    <3>5. Left(d)' = Run(r, 0, n) /\ Left(d) = Run(q, pos, Len(q))
      BY <2>2, <3>1 DEF Left, r, q
    <3>. QED
      BY <2>2, <3>1, <3>2, <3>4, <3>5 DEF q, r, n
  <2>4. CASE d # cur
    <3>1. From(d) = 0 /\ ring'[d] = ring[d]
      BY <2>1, <2>4 DEF From
    <3>. QED
      BY <1>0, <2>2, <3>1 DEF Left
  <2>. QED
    BY <2>3, <2>4
<1>2. CASE \E c \in CPU : ReadRing(c)
  <2>1. cur = NoCpu /\ pos' = 0 /\ ring' = ring
    BY <1>2 DEF ReadRing, bpf
  <2>2. From(d) = 0 /\ From(d)' = 0
    BY <2>1, CpuAssumption DEF From
  <2>. QED
    BY <1>0, <2>1, <2>2 DEF Left
<1>. QED
  BY <1>1, <1>2

\* Reading a record moves what it stands for.
LEMMA ReadMoves ==
    ASSUME TypeOK, ReadRecord, NEW c \in CPU, c = cur, NEW m, m = ring[c][pos + 1]
    PROVE  /\ From(c) = pos /\ From(c)' = pos + 1 /\ ring' = ring
           /\ pos \in Nat /\ pos + 1 \in 1..Len(ring[c]) /\ m \in Messages
           /\ \A k \in pos + 1 .. Len(ring[c]) :
                 Run(ring[c], pos, k) = Stands(m) + Run(ring[c], pos + 1, k)
           /\ Left(c) = Stands(m) + Left(c)'
           /\ \A d \in CPU \ {c} : From(d)' = From(d) /\ Left(d)' = Left(d)
<1>1. /\ pos' = pos + 1 /\ pos \in Nat /\ pos + 1 \in 1..Len(ring[c]) /\ m \in Messages
      /\ cur' = cur /\ ring' = ring
  BY ReadEffect DEF bpf
<1>2. ring[c] \in Seq(Messages) /\ Len(ring[c]) \in Nat
  BY <1>1, RingTypes
<1>3. From(c) = pos /\ From(c)' = pos + 1
  BY <1>1 DEF From
<1>4. \A k \in pos + 1 .. Len(ring[c]) :
         Run(ring[c], pos, k) = Stands(m) + Run(ring[c], pos + 1, k)
  BY <1>1, <1>2, RunFirst
<1>5. Left(c) = Stands(m) + Left(c)'
  <2>1. Left(c) = Run(ring[c], pos, Len(ring[c]))
    BY <1>3 DEF Left
  <2>2. Left(c)' = Run(ring[c], pos + 1, Len(ring[c]))
    BY <1>1, <1>3 DEF Left
  <2>3. Len(ring[c]) \in pos + 1 .. Len(ring[c])
    BY <1>1, <1>2
  <2>. QED
    BY <1>4, <2>1, <2>2, <2>3
<1>6. \A d \in CPU \ {c} : From(d)' = From(d) /\ Left(d)' = Left(d)
  BY <1>1 DEF From, Left
<1>. QED
  BY <1>1, <1>3, <1>4, <1>5, <1>6

\* The steps that move no output.
Still == UNCHANGED <<ring, klost, outputs, unsent, cur, pos, accepted, refused, direct, discarded>>

\* Only an output and the reader move outputs from place to place.
LEMMA OtherSteps ==
    ASSUME TypeOK, InvBefore, [Next]_vars
    PROVE  \/ \E c \in CPU : Output(c)
           \/ ReadRecord
           \/ ReadDone \/ ReadFails \/ \E c \in CPU : ReadRing(c)
           \/ Still
<1>1. ASSUME NEW c \in CPU, Enter(c) \/ CountRead(c) \/ CountWrite(c)
      PROVE  Still
  BY <1>1 DEF Enter, CountRead, CountWrite, reader, export, queue, Still
<1>2. CASE TraceReady \/ DisableUpdate
  BY <1>2 DEF TraceReady, DisableUpdate, Consume, reader, export, queue, Still
<1>3. CASE ControlStep
  <2>1. UNCHANGED <<bpf, export>>
    BY <1>3, ControlFrame
  <2>2. UNCHANGED <<cur, pos>>
    BY <1>3 DEF ControlStep, SetupRings, SetupRetry, SetupFails, PollIdle, PollData, PollFails,
                AfterPoll, ReadReturns, DisableLookup, DisableFails, StopChild, StopQueue,
                FreeRings, FinishTrace, Signal, Deadline, Consume, reader
  <2>. QED
    BY <2>1, <2>2 DEF bpf, export, queue, Still
<1>4. CASE StartQueue
  <2>1. accepted = <<>> /\ refused = Q!Nothing
    BY <1>4 DEF StartQueue, InvBefore
  <2>. QED
    BY <1>4, <2>1 DEF StartQueue, Q!Open, bpf, reader, Still
<1>5. CASE JoinQueue \/ ExporterDeliver \/ ExporterReport \/ UNCHANGED vars
  BY <1>5 DEF JoinQueue, ExporterDeliver, ExporterReport, OnlyQueue, Q!Close, Q!Deliver,
              Q!ReportLost, Q!ReportEvents, vars, bpf, reader, export, queue, Still
<1>. QED
  BY <1>1, <1>2, <1>3, <1>4, <1>5, StepCases DEF AwayStep

\* The places as numbers.
Made == SumFunctionOnSet(outputs, CPU)
Dropped == refused.events + refused.lost
Held == SumFunction(Pending)
PlacesTrue ==
    /\ Made \in Nat /\ Dropped \in Nat /\ Held \in Nat
    /\ Weight(accepted) \in Nat /\ Weight(direct) \in Nat /\ discarded \in Nat /\ unsent \in Nat
    /\ InvPlaces <=>
          Made = Weight(accepted) + Dropped + Weight(direct) + discarded + Held + unsent

\* A sequence of records stands for a natural number of outputs.
LEMMA WeightType ==
    ASSUME NEW s \in Seq(Messages)
    PROVE  Weight(s) \in Nat
<1>. DEFINE k == Len(s)
<1>1. k \in Nat /\ k \in Int /\ k <= Len(s)
  BY LenProperties
<1>. HIDE DEF k
<1>2. Run(s, 0, k) \in Nat
  BY <1>1, RunType
<1>. QED
  BY <1>2, WeightIsRun DEF k

\* InvPlaces as an equation between numbers.
LEMMA PlacesAre == TypeOK => PlacesTrue
<1>. SUFFICES ASSUME TypeOK PROVE PlacesTrue
  OBVIOUS
<1>1. \A c \in CPU : outputs[c] \in Nat
  BY SlotAssumption DEF TypeOK
<1>2. DOMAIN outputs = CPU
  BY DEF TypeOK
<1>3. Made \in Nat /\ SumFunction(outputs) = Made
  BY <1>1, <1>2, CpuAssumption, SumType DEF Made, SumFunction
<1>4. refused.events \in Nat /\ refused.lost \in Nat /\ discarded \in Nat /\ unsent \in Nat
        /\ accepted \in Seq(Messages) /\ direct \in Seq(Messages)
  BY DEF TypeOK
<1>5. Weight(accepted) \in Nat /\ Weight(direct) \in Nat
  BY <1>4, WeightType
<1>6. Held \in Nat
  <2>1. \A c \in CPU : Pending[c] \in Nat
    <3>1. \A c \in CPU : Left(c) \in Nat /\ klost[c] \in Nat /\ Pending[c] = Left(c) + klost[c]
      BY PendingIs DEF PendingTrue
    <3>. HIDE DEF Pending
    <3>2. \A x, y \in Nat : x + y \in Nat
      OBVIOUS
    <3>. QED
      BY <3>1, <3>2
  <2>2. Held = SumFunctionOnSet(Pending, CPU)
    BY DEF Held, Pending, SumFunction
  <2>. QED
    BY <2>1, <2>2, CpuAssumption, SumType
<1>7. InvPlaces <=>
         Made = Weight(accepted) + refused.events + refused.lost + Weight(direct) + discarded
                + Held + unsent
  BY <1>3 DEF InvPlaces, EveryOutputIsSomewhere, Held, Pending
<1>. QED
  <2>1. Dropped \in Nat
    BY <1>4 DEF Dropped
  <2>2. Weight(accepted) + refused.events + refused.lost = Weight(accepted) + Dropped
    BY <1>4, <1>5 DEF Dropped
  <2>. QED
    BY <1>3, <1>4, <1>5, <1>6, <1>7, <2>1, <2>2 DEF PlacesTrue

\* Every step moves an output from one place to exactly one other.
LEMMA PlacesInv ==
    ASSUME TypeOK, TypeOK', InvBounds, InvBefore, InvPlaces, [Next]_vars
    PROVE  InvPlaces'
<1>1. PendingTrue /\ PlacesTrue
  BY PendingIs, PlacesAre
<1>2. PendingTrue' /\ PlacesTrue'
  <2>1. TypeOK' => PendingTrue'
    BY PendingIs, PTL
  <2>2. TypeOK' => PlacesTrue'
    BY PlacesAre, PTL
  <2>. QED
    BY <2>1, <2>2
<1>3. /\ Made \in Nat /\ Dropped \in Nat /\ Held \in Nat
      /\ Weight(accepted) \in Nat /\ Weight(direct) \in Nat /\ discarded \in Nat /\ unsent \in Nat
      /\ Made = Weight(accepted) + Dropped + Weight(direct) + discarded + Held + unsent
  BY <1>1 DEF PlacesTrue
<1>4. SUFFICES Made' = Weight(accepted)' + Dropped' + Weight(direct)' + discarded' + Held' + unsent'
  BY <1>2 DEF PlacesTrue
<1>5. ASSUME NEW c \in CPU, Output(c)
      PROVE  Made' = Weight(accepted)' + Dropped' + Weight(direct)' + discarded' + Held' + unsent'
  <2>. DEFINE n == Len(ring[c])
  <2>1. UNCHANGED <<accepted, refused, direct, discarded, cur, pos>>
    BY <1>5 DEF Output, reader, export, queue
  <2>2. /\ Weight(accepted)' = Weight(accepted) /\ Weight(direct)' = Weight(direct)
        /\ Dropped' = Dropped /\ discarded' = discarded
    BY <2>1 DEF Dropped
  <2>3. /\ n \in Nat /\ (Unsent(c) \/ Fits(c, n) \/ Overflows(c))
        /\ Event(c) \in Messages /\ Loss(c) \in Messages
        /\ outputs' = [outputs EXCEPT ![c] = @ + 1]
    BY <1>5, OutputEffect
  <2>4. Made' = Made + 1
    <3>1. /\ outputs'[c] = outputs[c] + 1 /\ \A d \in CPU \ {c} : outputs'[d] = outputs[d]
          /\ \A d \in CPU : outputs[d] \in Int /\ outputs'[d] \in Int
      BY <2>3, SlotAssumption DEF TypeOK
    <3>2. SumFunctionOnSet(outputs', CPU) = SumFunctionOnSet(outputs, CPU) + (outputs'[c] - outputs[c])
      BY <3>1, CpuAssumption, SumChange
    <3>3. outputs[c] \in Int
      BY <3>1
    <3>. QED
      BY <1>3, <3>1, <3>2, <3>3 DEF Made
  <2>5. \A d \in CPU : From(d)' = From(d)
    BY <2>1 DEF From
  <2>6. CASE Unsent(c)
    <3>1. unsent' = unsent + 1 /\ UNCHANGED <<ring, klost>>
      BY <2>6 DEF Unsent
    <3>2. \A d \in CPU : Pending'[d] = Pending[d]
      BY <2>1, <3>1 DEF Pending, Unread
    <3>3. Held' = Held
      BY <3>2, PendingSame DEF Held
    <3>. QED
      BY <1>3, <2>2, <2>4, <3>1, <3>3
  <2>7. ASSUME unsent' = unsent, Pending'[c] = Pending[c] + 1,
               \A d \in CPU \ {c} : Pending'[d] = Pending[d]
        PROVE  Made' = Weight(accepted)' + Dropped' + Weight(direct)' + discarded' + Held' + unsent'
    <3>1. Held' = Held + (Pending'[c] - Pending[c])
      BY <1>1, <1>2, <2>7, PendingChange DEF Held
    <3>2. Pending[c] \in Nat
      <4>1. Left(c) \in Nat /\ klost[c] \in Nat /\ Pending[c] = Left(c) + klost[c]
        BY <1>1 DEF PendingTrue
      <4>. HIDE DEF Pending
      <4>. QED
        BY <4>1
    <3>3. Held' = Held + 1
      BY <1>3, <2>7, <3>1, <3>2
    <3>. QED
      BY <1>3, <2>2, <2>4, <2>7, <3>3
  <2>8. CASE Fits(c, n)
    <3>1. unsent' = unsent /\ klost' = [klost EXCEPT ![c] = 0] /\ ring' = [ring EXCEPT ![c] = ring'[c]]
      BY <2>8 DEF Fits
    <3>2. klost'[c] = 0 /\ \A d \in CPU \ {c} : klost'[d] = klost[d] /\ ring'[d] = ring[d]
      BY <3>1 DEF TypeOK
    <3>3. \A d \in CPU \ {c} : Pending'[d] = Pending[d]
      BY <2>1, <3>2 DEF Pending, Unread
    <3>4. /\ From(c) \in Nat /\ From(c) <= n /\ ring[c] \in Seq(Messages) /\ klost[c] \in Nat
          /\ Left(c) \in Nat /\ Pending[c] = Left(c) + klost[c] /\ Pending'[c] = Left(c)' + klost'[c]
      BY <1>1, <1>2, RingTypes DEF PendingTrue
    <3>5. Left(c)' = Left(c) + klost[c] + 1
      <4>1. Run(ring'[c], From(c), Len(ring'[c])) = Run(ring[c], From(c), n) + klost[c] + 1
        BY <2>3, <2>8, <3>4, FitsRun
      <4>2. Left(c)' = Run(ring'[c], From(c), Len(ring'[c]))
        BY <2>5 DEF Left
      <4>. QED
        BY <4>1, <4>2 DEF Left
    <3>. HIDE DEF Pending
    <3>6. Pending'[c] = Pending[c] + 1
      BY <3>2, <3>4, <3>5
    <3>. QED
      BY <2>7, <3>1, <3>3, <3>6
  <2>9. CASE Overflows(c)
    <3>1. UNCHANGED <<ring, unsent>> /\ klost' = [klost EXCEPT ![c] = @ + 1]
      BY <2>9 DEF Overflows
    <3>2. klost'[c] = klost[c] + 1 /\ \A d \in CPU \ {c} : klost'[d] = klost[d]
      BY <3>1 DEF TypeOK
    <3>3. \A d \in CPU \ {c} : Pending'[d] = Pending[d]
      BY <2>1, <3>1, <3>2 DEF Pending, Unread
    <3>4. /\ klost[c] \in Nat /\ Left(c) \in Nat
          /\ Pending[c] = Left(c) + klost[c] /\ Pending'[c] = Left(c)' + klost'[c]
      BY <1>1, <1>2 DEF PendingTrue
    <3>5. Left(c)' = Left(c)
      BY <2>5, <3>1 DEF Left
    <3>. HIDE DEF Pending
    <3>6. Pending'[c] = Pending[c] + 1
      BY <3>2, <3>4, <3>5
    <3>. QED
      BY <2>7, <3>1, <3>3, <3>6
  <2>. QED
    BY <2>3, <2>6, <2>8, <2>9
<1>6. CASE ReadRecord
  <2>0. PICK c \in CPU : c = cur
    BY <1>6, ReadEffect
  <2>. DEFINE m == ring[c][pos + 1]
              w == Stands(m)
  <2>1. /\ m \in Messages
        /\ UNCHANGED bpf
        /\ \/ accepted' = Append(accepted, m) /\ UNCHANGED <<refused, direct, discarded>>
           \/ refused' = Q!AddRefusal(refused, m) /\ UNCHANGED <<accepted, direct, discarded>>
           \/ direct' = Append(direct, m) /\ UNCHANGED <<accepted, refused, discarded>>
           \/ discarded' = discarded + 1 /\ m.lost = 0 /\ UNCHANGED <<accepted, refused, direct>>
    BY <1>6, <2>0, ReadEffect
  <2>2. Left(c) = w + Left(c)' /\ \A d \in CPU \ {c} : Left(d)' = Left(d)
    BY <1>6, <2>0, ReadMoves
  <2>3. w \in Nat /\ (m.lost = 0 => w = 1)
    BY <2>1, StandsType DEF Stands
  <2>. HIDE DEF m, w
  <2>4. UNCHANGED <<klost, outputs, unsent>>
    BY <2>1 DEF bpf
  <2>5. Held = w + Held'
    <3>1. \A d \in CPU : /\ Left(d) \in Nat /\ klost[d] \in Nat /\ Pending[d] = Left(d) + klost[d]
                         /\ Left(d)' \in Nat /\ Pending'[d] = Left(d)' + klost'[d]
      BY <1>1, <1>2 DEF PendingTrue
    <3>. HIDE DEF Pending
    <3>2. \A d \in CPU \ {c} : Pending'[d] = Pending[d]
      BY <2>2, <2>4, <3>1
    <3>3. Pending[c] = w + Pending'[c] /\ Pending[c] \in Nat /\ Pending'[c] \in Nat
      <4>. DEFINE x == Left(c)
                  y == Left(c)'
                  k == klost[c]
      <4>1. /\ x \in Nat /\ y \in Nat /\ k \in Nat /\ x = w + y
            /\ Pending[c] = x + k /\ Pending'[c] = y + k
        BY <2>1, <2>2, <2>4, <3>1
      <4>. HIDE DEF x, y, k
      <4>. QED
        BY <2>3, <4>1
    <3>4. Held' = Held + (Pending'[c] - Pending[c])
      BY <1>1, <1>2, <2>1, <3>2, PendingChange DEF Held
    <3>. QED
      BY <1>3, <2>3, <3>3, <3>4
  <2>6. Made' = Made /\ unsent' = unsent /\ Held' \in Nat
    BY <1>2, <2>4 DEF Made, PlacesTrue
  <2>7. accepted \in Seq(Messages) /\ direct \in Seq(Messages) /\ refused \in [events : Nat, lost : Nat]
    BY DEF TypeOK
  <2>8. CASE accepted' = Append(accepted, m) /\ UNCHANGED <<refused, direct, discarded>>
    <3>1. Weight(accepted)' = Weight(accepted) + w
      BY <2>1, <2>7, <2>8, WeightAppend DEF w
    <3>2. Weight(direct)' = Weight(direct) /\ Dropped' = Dropped /\ discarded' = discarded
      BY <2>8 DEF Dropped
    <3>. QED
      BY <1>3, <2>3, <2>5, <2>6, <3>1, <3>2
  <2>9. CASE refused' = Q!AddRefusal(refused, m) /\ UNCHANGED <<accepted, direct, discarded>>
    <3>1. Dropped' = Dropped + w
      BY <2>1, <2>7, <2>9, RefusalType DEF w, Dropped
    <3>2. Weight(direct)' = Weight(direct) /\ Weight(accepted)' = Weight(accepted)
            /\ discarded' = discarded
      BY <2>9
    <3>. QED
      BY <1>3, <2>3, <2>5, <2>6, <3>1, <3>2
  <2>10. CASE direct' = Append(direct, m) /\ UNCHANGED <<accepted, refused, discarded>>
    <3>1. Weight(direct)' = Weight(direct) + w
      BY <2>1, <2>7, <2>10, WeightAppend DEF w
    <3>2. Weight(accepted)' = Weight(accepted) /\ Dropped' = Dropped /\ discarded' = discarded
      BY <2>10 DEF Dropped
    <3>. QED
      BY <1>3, <2>3, <2>5, <2>6, <3>1, <3>2
  <2>11. CASE discarded' = discarded + 1 /\ m.lost = 0 /\ UNCHANGED <<accepted, refused, direct>>
    <3>1. Weight(accepted)' = Weight(accepted) /\ Weight(direct)' = Weight(direct) /\ Dropped' = Dropped
      BY <2>11 DEF Dropped
    <3>. QED
      BY <1>3, <2>3, <2>5, <2>6, <2>11, <3>1
  <2>. QED
    BY <2>1, <2>8, <2>9, <2>10, <2>11
<1>7. CASE ReadDone \/ ReadFails \/ \E c \in CPU : ReadRing(c)
  <2>1. UNCHANGED <<klost, outputs, unsent, accepted, refused, direct, discarded>>
    BY <1>7 DEF ReadDone, ReadFails, ReadRing, bpf, export, queue
  <2>2. \A d \in CPU : Left(d)' = Left(d)
    BY <1>7, ReaderKeeps
  <2>3. \A d \in CPU : Pending'[d] = Pending[d]
    <3>1. \A d \in CPU : Pending[d] = Left(d) + klost[d] /\ Pending'[d] = Left(d)' + klost'[d]
      BY <1>1, <1>2 DEF PendingTrue
    <3>. HIDE DEF Pending
    <3>. QED
      BY <2>1, <2>2, <3>1
  <2>4. Held' = Held
    BY <2>3, PendingSame DEF Held
  <2>. QED
    BY <1>3, <2>1, <2>4 DEF Made, Dropped
<1>8. CASE Still
  <2>1. \A d \in CPU : Pending'[d] = Pending[d]
    BY <1>8 DEF Pending, Unread, Still
  <2>2. Held' = Held
    BY <2>1, PendingSame DEF Held
  <2>. QED
    BY <1>3, <1>8, <2>2 DEF Made, Dropped, Still
<1>. QED
  BY <1>5, <1>6, <1>7, <1>8, OtherSteps

---------------------------------------------------------------------------
(* The stream of each CPU *)

\* The records of CPU c behind the reader come next, and what it has passed
\* is in the trace or was refused.
InOrder(c) ==
    \A k \in From(c) + 1 .. Len(ring[c]) :
        /\ ring[c][k].cpu = c
        /\ ring[c][k].lost = 0 =>
              ring[c][k].seq - 1 = Passed(c) + Run(ring[c], From(c), k - 1)
Recorded(c) ==
    /\ mode # "capture" /\ ~stop => Passed(c) = Share(direct, c, Len(direct))
    /\ mode = "capture" =>
          Passed(c) - Share(accepted, c, Len(accepted)) \in 0..refused.events + refused.lost

\* InvStream, CPU by CPU.
LEMMA StreamIs ==
    InvStream <=> (pc \notin After => \A c \in CPU : InOrder(c) /\ Recorded(c))
BY DEF InvStream, InOrder, Recorded

\* The outputs the reader has passed: all but the waiting ones.
LEMMA PassedIs ==
    ASSUME TypeOK, NEW c \in CPU
    PROVE  /\ Passed(c) = outputs[c] - klost[c] - Left(c)
           /\ Passed(c) \in Int /\ outputs[c] \in Nat /\ klost[c] \in Nat /\ Left(c) \in Nat
           /\ From(c) \in Nat /\ From(c) <= Len(ring[c])
<1>1. /\ From(c) \in Nat /\ From(c) <= Len(ring[c]) /\ Left(c) \in Nat /\ klost[c] \in Nat
  BY PendingIs DEF PendingTrue
<1>2. outputs[c] \in Nat
  BY SlotAssumption DEF TypeOK
<1>3. Passed(c) = outputs[c] - klost[c] - Left(c)
  BY DEF Passed, Left
<1>. QED
  BY <1>1, <1>2, <1>3

\* The mode stays, a stop request is never taken back, and trace_poll returns once.
LEMMA Irrevocable ==
    ASSUME [Next]_vars
    PROVE  mode' = mode /\ (stop => stop') /\ (pc' \notin After => pc \notin After)
<1>1. ASSUME NEW c \in CPU, Enter(c) \/ Output(c) \/ CountRead(c) \/ CountWrite(c)
      PROVE  UNCHANGED <<mode, stop, pc>>
  BY <1>1 DEF Enter, Output, CountRead, CountWrite
<1>2. CASE TraceReady \/ DisableUpdate \/ ReadDone \/ ReadFails
  BY <1>2 DEF TraceReady, DisableUpdate, ReadDone, ReadFails, After
<1>3. CASE ControlStep
  BY <1>3 DEF ControlStep, SetupRings, SetupRetry, SetupFails, PollIdle, PollData, PollFails,
              AfterPoll, ReadReturns, DisableLookup, DisableFails, StopChild, StopQueue,
              FreeRings, FinishTrace, Signal, Deadline, After
<1>4. CASE ReadRecord
  BY <1>4 DEF ReadRecord, TraceOnLost, PollHandlerWrap
<1>5. CASE StartQueue \/ (\E c \in CPU : ReadRing(c)) \/ JoinQueue \/ ExporterDeliver
              \/ ExporterReport \/ UNCHANGED vars
  BY <1>5 DEF StartQueue, ReadRing, JoinQueue, ExporterDeliver, ExporterReport, OnlyQueue, vars,
              After
<1>. QED
  BY <1>1, <1>2, <1>3, <1>4, <1>5, StepCases DEF AwayStep

\* An output enlarges what the reader has still to pass by one record.
LEMMA OutputStream ==
    ASSUME TypeOK, TypeOK', InvBounds, InvBefore, NEW c \in CPU, Output(c), pc \notin After,
           NEW d \in CPU, InOrder(d)
    PROVE  InOrder(d)' /\ Passed(d)' = Passed(d)
<1>. DEFINE n == Len(ring[c])
<1>1. /\ n \in Nat /\ (Unsent(c) \/ Fits(c, n) \/ Overflows(c))
      /\ Event(c) \in Messages /\ Loss(c) \in Messages
      /\ outputs' = [outputs EXCEPT ![c] = @ + 1] /\ prog[c] = "gated"
  BY OutputEffect
<1>2. UNCHANGED <<cur, pos>>
  BY DEF Output, reader
<1>3. From(d)' = From(d)
  BY <1>2 DEF From
<1>4. outputs'[c] = outputs[c] + 1 /\ \A e \in CPU \ {c} : outputs'[e] = outputs[e]
  BY <1>1 DEF TypeOK
<1>5. /\ Passed(d) = outputs[d] - klost[d] - Left(d)
      /\ Passed(d) \in Int /\ outputs[d] \in Nat /\ klost[d] \in Nat /\ Left(d) \in Nat
      /\ From(d) \in Nat /\ From(d) <= Len(ring[d])
  BY PassedIs
<1>6. Passed(d)' = outputs'[d] - klost'[d] - Left(d)'
  BY DEF Passed, Left
<1>7. ~Unsent(c)
  BY <1>1 DEF Unsent, RingsOpen, InvBefore, After, Before
<1>8. ASSUME UNCHANGED <<ring[d], outputs[d], klost[d]>>
      PROVE  InOrder(d)' /\ Passed(d)' = Passed(d)
  <2>1. Left(d)' = Left(d)
    BY <1>3, <1>8 DEF Left
  <2>2. Passed(d)' = Passed(d)
    BY <1>5, <1>6, <1>8, <2>1
  <2>. QED
    BY <1>3, <1>8, <2>2 DEF InOrder
<1>9. CASE d # c
  <2>1. UNCHANGED <<ring[d], klost[d]>>
    BY <1>1, <1>7, <1>9 DEF Fits, Overflows, TypeOK
  <2>. QED
    BY <1>4, <1>8, <1>9, <2>1
<1>10. CASE d = c /\ Overflows(c)
  <2>1. UNCHANGED ring /\ klost'[c] = klost[c] + 1
    BY <1>10 DEF Overflows, TypeOK
  <2>2. Left(d)' = Left(d)
    BY <1>3, <2>1 DEF Left
  <2>3. Passed(d)' = Passed(d)
    <3>. DEFINE o == outputs[c]
                x == klost[c]
                y == Left(c)
    <3>1. o \in Nat /\ x \in Nat /\ y \in Nat /\ Passed(c) = o - x - y
            /\ Passed(c)' = (o + 1) - (x + 1) - y
      BY <1>4, <1>5, <1>6, <1>10, <2>1, <2>2
    <3>. HIDE DEF o, x, y
    <3>. QED
      BY <1>10, <3>1
  <2>. QED
    BY <1>3, <2>1, <2>3 DEF InOrder
<1>11. CASE d = c /\ Fits(c, n)
  <2>. DEFINE q == ring[c]
              r == ring'[c]
              p == From(c)
              x == klost[c]
  <2>1. klost'[c] = 0
    BY <1>11 DEF Fits, TypeOK
  <2>2. q \in Seq(Messages)
    BY RingTypes
  <2>3. /\ \A k \in 0..n : Run(r, p, k) = Run(q, p, k)
        /\ x > 0 => Run(r, p, n + 1) = Run(q, p, n) + x
        /\ Run(r, p, Len(r)) = Run(q, p, n) + x + 1
    BY <1>1, <1>5, <1>11, <2>2, FitsRun
  <2>4. Left(c) = Run(q, p, n) /\ Left(c)' = Run(r, p, Len(r))
    BY <1>3, <1>11 DEF Left
  <2>5. Passed(c)' = Passed(c) /\ outputs[c] = Passed(c) + Run(q, p, n) + x
    <3>. DEFINE o == outputs[c]
                y == Run(q, p, n)
    <3>1. o \in Nat /\ x \in Nat /\ y \in Nat /\ Passed(c) = o - x - y
            /\ Passed(c)' = (o + 1) - 0 - (y + x + 1)
      BY <1>4, <1>5, <1>6, <1>11, <2>1, <2>3, <2>4
    <3>. HIDE DEF o, x, y
    <3>2. Passed(c)' = Passed(c) /\ o = Passed(c) + y + x
      BY <3>1
    <3>. QED
      BY <3>2 DEF o, y
  <2>6. /\ \A i \in 1..n : r[i] = q[i]
        /\ \/ x = 0 /\ Len(r) = n + 1 /\ r[n + 1] = Event(c)
           \/ x > 0 /\ Len(r) = n + 2 /\ r[n + 1] = Loss(c) /\ r[n + 2] = Event(c)
    BY <1>11 DEF Fits
  <2>7. Event(c).cpu = c /\ Event(c).seq = outputs[c] + 1 /\ Loss(c).cpu = c /\ Loss(c).lost = x
    BY DEF Event, Loss
  <2>8. /\ p \in Nat /\ p <= n /\ x \in Nat /\ outputs[c] \in Nat /\ Passed(c) \in Int
        /\ Run(q, p, n) \in Nat
    BY <1>5, <1>11, <2>4
  <2>9. ASSUME NEW k \in p + 1 .. Len(r)
        PROVE  r[k].cpu = c /\ (r[k].lost = 0 => r[k].seq - 1 = Passed(c) + Run(r, p, k - 1))
    <3>1. CASE k <= n
      <4>1. k \in p + 1 .. n /\ k \in 1..n /\ k - 1 \in 0..n
        BY <1>1, <2>8, <3>1
      <4>2. q[k].cpu = c /\ (q[k].lost = 0 => q[k].seq - 1 = Passed(c) + Run(q, p, k - 1))
        BY <1>11, <4>1 DEF InOrder
      <4>. QED
        BY <2>3, <2>6, <4>1, <4>2
    <3>. HIDE DEF n, q, r, p, x
    <3>2. CASE k = n + 1 /\ x = 0
      <4>1. k - 1 = n /\ n \in 0..n
        BY <1>1, <3>2
      <4>2. r[k] = Event(c)
        BY <2>6, <3>2
      <4>3. Run(r, p, k - 1) = Run(q, p, n)
        BY <2>3, <4>1
      <4>4. Event(c).seq - 1 = Passed(c) + Run(q, p, n)
        BY <2>5, <2>7, <2>8, <3>2
      <4>. QED
        BY <2>7, <4>2, <4>3, <4>4
    <3>3. CASE k = n + 1 /\ x > 0
      <4>1. r[k] = Loss(c) /\ Loss(c).lost # 0
        BY <2>6, <2>7, <2>8, <3>3
      <4>. QED
        BY <2>7, <4>1
    <3>4. CASE k = n + 2 /\ x > 0
      <4>1. k - 1 = n + 1
        BY <1>1, <3>4
      <4>2. r[k] = Event(c)
        BY <2>6, <2>8, <3>4
      <4>3. Run(r, p, k - 1) = Run(q, p, n) + x
        BY <2>3, <3>4, <4>1
      <4>4. Event(c).seq - 1 = Passed(c) + (Run(q, p, n) + x)
        BY <2>5, <2>7, <2>8
      <4>. QED
        BY <2>7, <4>2, <4>3, <4>4
    <3>5. k <= n \/ (k = n + 1 /\ x = 0) \/ (k = n + 1 /\ x > 0) \/ (k = n + 2 /\ x > 0)
      BY <1>1, <2>6, <2>8, <2>9
    <3>. QED
      BY <3>1, <3>2, <3>3, <3>4, <3>5
  <2>. QED
    BY <1>3, <1>11, <2>5, <2>9 DEF InOrder
<1>. QED
  BY <1>1, <1>7, <1>9, <1>10, <1>11

\* The reader moves on by one record.
LEMMA ReadStream ==
    ASSUME TypeOK, TypeOK', ReadRecord, NEW c \in CPU, c = cur,
           NEW m, m = ring[c][pos + 1], \A d \in CPU : InOrder(d)
    PROVE  /\ \A d \in CPU : InOrder(d)'
           /\ Passed(c)' = Passed(c) + Stands(m) /\ Passed(c) \in Int
           /\ \A d \in CPU \ {c} : Passed(d)' = Passed(d)
           /\ m \in Messages /\ m.cpu = c
           /\ m.lost = 0 => m.seq - 1 = Passed(c)
<1>1. /\ From(c) = pos /\ From(c)' = pos + 1 /\ ring' = ring
      /\ pos \in Nat /\ pos + 1 \in 1..Len(ring[c]) /\ m \in Messages
      /\ \A k \in pos + 1 .. Len(ring[c]) :
            Run(ring[c], pos, k) = Stands(m) + Run(ring[c], pos + 1, k)
      /\ Left(c) = Stands(m) + Left(c)'
      /\ \A d \in CPU \ {c} : From(d)' = From(d) /\ Left(d)' = Left(d)
  BY ReadMoves
<1>2. UNCHANGED <<klost, outputs>>
  BY DEF ReadRecord, bpf
<1>3. \A d \in CPU : /\ Passed(d) = outputs[d] - klost[d] - Left(d) /\ Passed(d) \in Int
                     /\ outputs[d] \in Nat /\ klost[d] \in Nat /\ Left(d) \in Nat
                     /\ From(d) \in Nat /\ From(d) <= Len(ring[d])
  BY PassedIs
<1>4. \A d \in CPU : Passed(d)' = outputs'[d] - klost'[d] - Left(d)'
  BY DEF Passed, Left
<1>5. PendingTrue'
  BY PendingIs, PTL
<1>6. Left(c)' \in Nat
  BY <1>5 DEF PendingTrue
<1>7. Stands(m) \in Nat
  BY <1>1, StandsType
<1>8. Passed(c)' = Passed(c) + Stands(m)
  <2>. DEFINE x == Left(c)'
              y == Left(c)
              w == Stands(m)
  <2>1. x \in Nat /\ y \in Nat /\ w \in Nat /\ y = w + x /\ outputs[c] \in Nat /\ klost[c] \in Nat
    BY <1>1, <1>3, <1>6, <1>7
  <2>2. Passed(c)' = outputs[c] - klost[c] - x /\ Passed(c) = outputs[c] - klost[c] - y
    BY <1>2, <1>3, <1>4
  <2>. HIDE DEF x, y, w
  <2>3. Passed(c)' = Passed(c) + w
    BY <2>1, <2>2
  <2>. QED
    BY <2>3 DEF w
<1>9. \A d \in CPU \ {c} : Passed(d)' = Passed(d)
  BY <1>1, <1>2, <1>3, <1>4
<1>10. m.cpu = c /\ (m.lost = 0 => m.seq - 1 = Passed(c))
  <2>1. pos + 1 \in From(c) + 1 .. Len(ring[c])
    BY <1>1
  <2>2. m.cpu = c /\ (m.lost = 0 => m.seq - 1 = Passed(c) + Run(ring[c], From(c), (pos + 1) - 1))
    BY <2>1 DEF InOrder
  <2>3. (pos + 1) - 1 = pos
    BY <1>1
  <2>4. Run(ring[c], From(c), pos) = 0
    BY <1>1, RunEmpty
  <2>. QED
    BY <1>3, <2>2, <2>3, <2>4
<1>11. InOrder(c)'
  <2>1. ASSUME NEW k \in (pos + 1) + 1 .. Len(ring[c]), ring[c][k].lost = 0
        PROVE  ring[c][k].seq - 1 = (Passed(c) + Stands(m)) + Run(ring[c], pos + 1, k - 1)
    <3>1. k \in pos + 1 .. Len(ring[c]) /\ k - 1 \in pos + 1 .. Len(ring[c])
            /\ k - 1 \in Int /\ k - 1 <= Len(ring[c])
      BY <1>1, RingTypes
    <3>2. ring[c][k].seq - 1 = Passed(c) + Run(ring[c], pos, k - 1)
      BY <1>1, <2>1, <3>1 DEF InOrder
    <3>3. Run(ring[c], pos, k - 1) = Stands(m) + Run(ring[c], pos + 1, k - 1)
      BY <1>1, <3>1
    <3>4. Run(ring[c], pos + 1, k - 1) \in Nat
      <4>. DEFINE q == ring[c]
                  p == pos + 1
                  j == k - 1
      <4>1. q \in Seq(Messages) /\ p \in Nat /\ j \in Int /\ j <= Len(q)
        BY <1>1, <3>1, RingTypes
      <4>. HIDE DEF q, p, j
      <4>2. Run(q, p, j) \in Nat
        BY <4>1, RunType
      <4>. QED
        BY <4>2 DEF q, p, j
    <3>. QED
      BY <1>3, <1>7, <3>2, <3>3, <3>4
  <2>2. \A k \in (pos + 1) + 1 .. Len(ring[c]) : ring[c][k].cpu = c
    <3>1. \A k \in (pos + 1) + 1 .. Len(ring[c]) : k \in pos + 1 .. Len(ring[c])
      BY <1>1
    <3>. QED
      BY <1>1, <3>1 DEF InOrder
  <2>. QED
    BY <1>1, <1>8, <2>1, <2>2 DEF InOrder
<1>12. \A d \in CPU \ {c} : InOrder(d)'
  BY <1>1, <1>9 DEF InOrder
<1>. QED
  BY <1>1, <1>3, <1>8, <1>9, <1>10, <1>11, <1>12

\* A callback queues, refuses, exports or discards the record.
LEMMA DroppedGrows ==
    ASSUME TypeOK, ReadRecord, NEW c \in CPU, c = cur, NEW m, m = ring[c][pos + 1]
    PROVE  \/ /\ capture_async /\ UNCHANGED <<direct, refused>>
              /\ accepted' = Append(accepted, m)
           \/ /\ capture_async /\ UNCHANGED <<direct, accepted>>
              /\ Dropped' = Dropped + Stands(m) /\ Stands(m) \in Nat /\ Dropped \in Nat
           \/ /\ ~capture_async /\ UNCHANGED <<accepted, refused>>
              /\ direct' = Append(direct, m) /\ (m.lost > 0 \/ ~stop)
           \/ ~capture_async /\ stop /\ UNCHANGED <<accepted, refused, direct>>
<1>1. /\ m \in Messages
      /\ \/ capture_async /\ accepted' = Append(accepted, m) /\ UNCHANGED <<refused, direct>>
         \/ capture_async /\ refused' = Q!AddRefusal(refused, m) /\ UNCHANGED <<accepted, direct>>
         \/ /\ ~capture_async /\ direct' = Append(direct, m) /\ UNCHANGED <<accepted, refused>>
            /\ m.lost > 0 \/ ~stop
         \/ ~capture_async /\ stop /\ UNCHANGED <<accepted, refused, direct>>
  BY ReadEffect
<1>2. CASE capture_async /\ refused' = Q!AddRefusal(refused, m) /\ UNCHANGED <<accepted, direct>>
  <2>1. refused \in [events : Nat, lost : Nat] /\ refused.events \in Nat /\ refused.lost \in Nat
    BY DEF TypeOK
  <2>2. Dropped' = Dropped + Stands(m) /\ Stands(m) \in Nat /\ Dropped \in Nat
    BY <1>1, <1>2, <2>1, RefusalType, StandsType DEF Dropped
  <2>. QED
    BY <1>2, <2>2
<1>. QED
  BY <1>1, <1>2

\* The shares of a CPU are numbers.
LEMMA ShareTypes ==
    ASSUME TypeOK, NEW c \in CPU
    PROVE  Share(direct, c, Len(direct)) \in Nat /\ Share(accepted, c, Len(accepted)) \in Nat
<1>1. ASSUME NEW s \in Seq(Messages) PROVE Share(s, c, Len(s)) \in Nat
  <2>. DEFINE k == Len(s)
  <2>1. k \in Int /\ k <= Len(s)
    BY LenProperties
  <2>. HIDE DEF k
  <2>2. Share(s, c, k) \in Nat
    BY <2>1, ShareType
  <2>. QED
    BY <2>2 DEF k
<1>2. direct \in Seq(Messages) /\ accepted \in Seq(Messages)
  BY DEF TypeOK
<1>. QED
  BY <1>1, <1>2

\* Every step keeps the account of each CPU.
LEMMA StreamInv ==
    ASSUME TypeOK, TypeOK', InvBounds, InvControl, InvBefore, InvStream, [Next]_vars
    PROVE  InvStream'
<1>1. SUFFICES ASSUME pc' \notin After PROVE \A d \in CPU : InOrder(d)' /\ Recorded(d)'
  <2>1. InvStream' <=> (pc' \notin After => \A d \in CPU : InOrder(d)' /\ Recorded(d)')
    BY DEF InvStream, InOrder, Recorded
  <2>. QED
    BY <2>1
<1>2. mode' = mode /\ (stop => stop') /\ pc \notin After
  BY <1>1, Irrevocable
<1>3. \A d \in CPU : InOrder(d) /\ Recorded(d)
  BY <1>2, StreamIs
<1>4. ASSUME NEW d \in CPU, Passed(d)' = Passed(d), UNCHANGED <<direct, accepted, refused>>
      PROVE  Recorded(d)'
  BY <1>2, <1>3, <1>4 DEF Recorded
<1>5. ASSUME NEW c \in CPU, Output(c) PROVE \A d \in CPU : InOrder(d)' /\ Recorded(d)'
  <2>1. \A d \in CPU : InOrder(d)' /\ Passed(d)' = Passed(d)
    BY <1>2, <1>3, <1>5, OutputStream
  <2>2. UNCHANGED <<direct, accepted, refused>>
    BY <1>5 DEF Output, export, queue
  <2>. QED
    BY <1>4, <2>1, <2>2
<1>6. CASE ReadRecord
  <2>1. PICK c \in CPU : c = cur
    BY <1>6, ReadEffect
  <2>. DEFINE m == ring[c][pos + 1]
              w == Stands(m)
  <2>2. /\ \A d \in CPU : InOrder(d)'
        /\ Passed(c)' = Passed(c) + w
        /\ \A d \in CPU \ {c} : Passed(d)' = Passed(d)
        /\ m \in Messages /\ m.cpu = c
    BY <1>3, <1>6, <2>1, ReadStream
  <2>3. \/ capture_async /\ UNCHANGED <<direct, refused>> /\ accepted' = Append(accepted, m)
        \/ /\ capture_async /\ UNCHANGED <<direct, accepted>>
           /\ Dropped' = Dropped + w /\ w \in Nat /\ Dropped \in Nat
        \/ ~capture_async /\ UNCHANGED <<accepted, refused>> /\ direct' = Append(direct, m)
        \/ ~capture_async /\ stop /\ UNCHANGED <<accepted, refused, direct>>
    BY <1>6, <2>1, DroppedGrows
  <2>4. (mode = "capture" => capture_async) /\ (capture_async => mode = "capture")
    BY <1>6 DEF ReadRecord, InvControl
  <2>5. w \in Nat
    BY <2>2, StandsType
  <2>6. \A d \in CPU : Passed(d) \in Int
    BY PassedIs
  <2>7. direct \in Seq(Messages) /\ accepted \in Seq(Messages)
    BY DEF TypeOK
  <2>. HIDE DEF m, w
  <2>8. ASSUME NEW d \in CPU PROVE Recorded(d)'
    <3>. DEFINE a == Share(accepted, d, Len(accepted))
                b == Share(direct, d, Len(direct))
                x == IF d = c THEN w ELSE 0
    <3>1. a \in Nat /\ b \in Nat /\ x \in Nat /\ Passed(d) \in Int /\ Passed(d)' = Passed(d) + x
      BY <2>2, <2>5, <2>6, ShareTypes
    <3>2. /\ mode # "capture" /\ ~stop => Passed(d) = b
          /\ mode = "capture" => Passed(d) - a \in 0..Dropped
      BY <1>3 DEF Recorded, Dropped
    <3>3. SUFFICES /\ mode # "capture" /\ ~stop => Passed(d)' = Share(direct', d, Len(direct'))
                   /\ mode = "capture" =>
                         Passed(d)' - Share(accepted', d, Len(accepted')) \in 0..Dropped'
      BY <1>2 DEF Recorded, Dropped
    <3>4. Dropped \in Nat
      BY PlacesAre DEF PlacesTrue
    <3>. HIDE DEF a, b, x
    <3>5. CASE capture_async /\ UNCHANGED <<direct, refused>> /\ accepted' = Append(accepted, m)
      <4>1. Share(accepted', d, Len(accepted')) = a + x
        BY <2>2, <2>7, <3>5, ShareAppend DEF a, x, w
      <4>2. Dropped' = Dropped
        BY <3>5 DEF Dropped
      <4>. QED
        BY <2>4, <3>1, <3>2, <3>4, <3>5, <4>1, <4>2
    <3>6. CASE /\ capture_async /\ UNCHANGED <<direct, accepted>>
               /\ Dropped' = Dropped + w /\ w \in Nat /\ Dropped \in Nat
      <4>1. Share(accepted', d, Len(accepted')) = a /\ x <= w
        BY <2>5, <3>6 DEF a, x
      <4>. QED
        BY <2>4, <3>1, <3>2, <3>6, <4>1
    <3>7. CASE ~capture_async /\ UNCHANGED <<accepted, refused>> /\ direct' = Append(direct, m)
      <4>1. Share(direct', d, Len(direct')) = b + x
        BY <2>2, <2>7, <3>7, ShareAppend DEF b, x, w
      <4>. QED
        BY <2>4, <3>1, <3>2, <3>7, <4>1
    <3>8. CASE ~capture_async /\ stop /\ UNCHANGED <<accepted, refused, direct>>
      BY <2>4, <3>8
    <3>. QED
      BY <2>3, <3>5, <3>6, <3>7, <3>8
  <2>. QED
    BY <2>2, <2>8
<1>7. CASE ReadDone \/ ReadFails \/ \E c \in CPU : ReadRing(c)
  <2>1. UNCHANGED <<klost, outputs, accepted, refused, direct>>
    BY <1>7 DEF ReadDone, ReadFails, ReadRing, bpf, export, queue
  <2>2. ASSUME NEW d \in CPU PROVE InOrder(d)' /\ Passed(d)' = Passed(d)
    <3>1. /\ Left(d)' = Left(d)
          /\ From(d)' = 0 /\ Len(ring'[d]) = Len(ring[d]) - From(d)
          /\ \A k \in 1..Len(ring'[d]) : ring'[d][k] = ring[d][From(d) + k]
          /\ \A k \in 0..Len(ring'[d]) : Run(ring'[d], 0, k) = Run(ring[d], From(d), From(d) + k)
      BY <1>7, ReaderKeeps
    <3>2. Passed(d)' = Passed(d)
      BY <2>1, <3>1 DEF Passed, Left
    <3>. DEFINE p == From(d)
                q == ring[d]
                r == ring'[d]
    <3>3. p \in Nat /\ p <= Len(q) /\ Len(q) \in Nat
      BY PassedIs, RingTypes
    <3>4. \A k \in p + 1 .. Len(q) :
             /\ q[k].cpu = d
             /\ q[k].lost = 0 => q[k].seq - 1 = Passed(d) + Run(q, p, k - 1)
      BY <1>3 DEF InOrder
    <3>. HIDE DEF p, q, r
    <3>5. ASSUME NEW k \in 1..Len(r)
          PROVE  r[k].cpu = d /\ (r[k].lost = 0 => r[k].seq - 1 = Passed(d) + Run(r, 0, k - 1))
      <4>1. p + k \in p + 1 .. Len(q) /\ (p + k) - 1 = p + (k - 1) /\ k - 1 \in 0..Len(r)
        BY <3>1, <3>3 DEF p, q, r
      <4>2. r[k] = q[p + k]
        BY <3>1 DEF p, q, r
      <4>3. Run(r, 0, k - 1) = Run(q, p, p + (k - 1))
        BY <3>1, <4>1 DEF p, q, r
      <4>4. q[p + k].cpu = d
              /\ (q[p + k].lost = 0 => q[p + k].seq - 1 = Passed(d) + Run(q, p, (p + k) - 1))
        BY <3>4, <4>1
      <4>. QED
        BY <4>1, <4>2, <4>3, <4>4
    <3>6. 0 + 1 .. Len(r) = 1..Len(r)
      OBVIOUS
    <3>. QED
      BY <3>1, <3>2, <3>5, <3>6 DEF InOrder, r
  <2>. QED
    BY <1>4, <2>1, <2>2
<1>8. CASE Still
  <2>1. ASSUME NEW d \in CPU PROVE InOrder(d)' /\ Passed(d)' = Passed(d)
    <3>1. From(d)' = From(d) /\ Passed(d)' = Passed(d)
      BY <1>8 DEF Still, From, Passed
    <3>. QED
      BY <1>3, <1>8, <3>1 DEF Still, InOrder
  <2>2. UNCHANGED <<direct, accepted, refused>>
    BY <1>8 DEF Still
  <2>. QED
    BY <1>4, <2>1, <2>2
<1>. QED
  BY <1>5, <1>6, <1>7, <1>8, OtherSteps

---------------------------------------------------------------------------
(* Gaps *)

\* A gap in terms of the share of the CPU.
LEMMA GapIsShare ==
    ASSUME NEW s, NEW i
    PROVE  Gap(s, i) = s[i].seq - 1 - Share(s, s[i].cpu, i - 1)
BY DEF Gap, Share

\* Appending a record leaves the gaps before it, and makes its own.
LEMMA GapAppend ==
    ASSUME NEW s \in Seq(Messages), NEW m \in Messages
    PROVE  LET a == Append(s, m)
               n == Len(s)
           IN  /\ DOMAIN a = 1..n + 1 /\ DOMAIN s = 1..n /\ n \in Nat /\ a[n + 1] = m
               /\ \A i \in 1..n : a[i] = s[i] /\ Gap(a, i) = Gap(s, i)
               /\ Gap(a, n + 1) = m.seq - 1 - Share(s, m.cpu, n)
<1>. DEFINE a == Append(s, m)
            n == Len(s)
<1>1. /\ a \in Seq(Messages) /\ Len(a) = n + 1 /\ n \in Nat
      /\ (\A i \in 1..n : a[i] = s[i]) /\ a[n + 1] = m
      /\ DOMAIN a = 1..Len(a) /\ DOMAIN s = 1..n
  BY AppendProperties, LenProperties
<1>2. \A c : \A k \in 0..n : Share(a, c, k) = Share(s, c, k)
  BY ShareAppend
<1>. HIDE DEF a, n
<1>3. \A i \in 1..n : Gap(a, i) = Gap(s, i)
  <2>. SUFFICES ASSUME NEW i \in 1..n PROVE Gap(a, i) = Gap(s, i)
    OBVIOUS
  <2>1. i - 1 \in 0..n /\ a[i] = s[i]
    BY <1>1
  <2>. QED
    BY <1>2, <2>1, GapIsShare
<1>4. Gap(a, n + 1) = m.seq - 1 - Share(s, m.cpu, n)
  <2>1. (n + 1) - 1 = n /\ n \in 0..n
    BY <1>1
  <2>. QED
    BY <1>1, <1>2, <2>1, GapIsShare
<1>. QED
  BY <1>1, <1>3, <1>4 DEF a, n

\* Every step keeps the gaps explained.
LEMMA GapsInv ==
    ASSUME TypeOK, TypeOK', InvBefore, InvControl, InvModes, InvStream, GapsExplained, [Next]_vars
    PROVE  GapsExplained'
<1>1. mode' = mode
  BY Irrevocable
<1>2. /\ \A i \in DOMAIN direct : direct[i].lost = 0 =>
            /\ Gap(direct, i) = 0
            /\ mode = "terminal" => \A j \in 1..i - 1 : direct[j].lost = 0
      /\ \A i \in DOMAIN accepted : accepted[i].lost = 0 => Gap(accepted, i) \in 0..Dropped
  BY DEF GapsExplained, Dropped
<1>3. SUFFICES
        /\ \A i \in DOMAIN direct' : direct'[i].lost = 0 =>
              /\ Gap(direct', i) = 0
              /\ mode = "terminal" => \A j \in 1..i - 1 : direct'[j].lost = 0
        /\ \A i \in DOMAIN accepted' : accepted'[i].lost = 0 => Gap(accepted', i) \in 0..Dropped'
  BY <1>1 DEF GapsExplained, Dropped
<1>4. CASE UNCHANGED <<direct, accepted, refused>>
  <2>1. Dropped' = Dropped
    BY <1>4 DEF Dropped
  <2>. QED
    BY <1>2, <1>4, <2>1
<1>5. CASE ReadRecord
  <2>1. PICK c \in CPU : c = cur
    BY <1>5, ReadEffect
  <2>. DEFINE m == ring[c][pos + 1]
  <2>2. pc \notin After /\ \A d \in CPU : InOrder(d) /\ Recorded(d)
    BY <1>5, StreamIs DEF ReadRecord, After
  <2>3. m \in Messages /\ m.cpu = c /\ (m.lost = 0 => m.seq - 1 = Passed(c)) /\ Passed(c) \in Int
    BY <1>5, <2>1, <2>2, ReadStream
  <2>4. \/ capture_async /\ UNCHANGED <<direct, refused>> /\ accepted' = Append(accepted, m)
        \/ /\ capture_async /\ UNCHANGED <<direct, accepted>>
           /\ Dropped' = Dropped + Stands(m) /\ Stands(m) \in Nat /\ Dropped \in Nat
        \/ /\ ~capture_async /\ UNCHANGED <<accepted, refused>>
           /\ direct' = Append(direct, m) /\ (m.lost > 0 \/ ~stop)
        \/ ~capture_async /\ stop /\ UNCHANGED <<accepted, refused, direct>>
    BY <1>5, <2>1, DroppedGrows
  <2>5. (mode = "capture" => capture_async) /\ (capture_async => mode = "capture")
    BY <1>5 DEF ReadRecord, InvControl
  <2>6. direct \in Seq(Messages) /\ accepted \in Seq(Messages)
    BY DEF TypeOK
  <2>. HIDE DEF m
  <2>7. CASE capture_async /\ UNCHANGED <<direct, refused>> /\ accepted' = Append(accepted, m)
    <3>. DEFINE n == Len(accepted)
    <3>1. /\ DOMAIN accepted' = 1..n + 1 /\ DOMAIN accepted = 1..n /\ n \in Nat
          /\ accepted'[n + 1] = m
          /\ \A i \in 1..n : accepted'[i] = accepted[i] /\ Gap(accepted', i) = Gap(accepted, i)
          /\ Gap(accepted', n + 1) = m.seq - 1 - Share(accepted, m.cpu, n)
      BY <2>3, <2>6, <2>7, GapAppend
    <3>2. Dropped' = Dropped
      BY <2>7 DEF Dropped
    <3>3. Passed(c) - Share(accepted, c, n) \in 0..Dropped
      BY <2>2, <2>5, <2>7 DEF Recorded, Dropped
    <3>4. m.lost = 0 => Gap(accepted', n + 1) \in 0..Dropped'
      BY <2>3, <3>1, <3>2, <3>3
    <3>. HIDE DEF n
    <3>5. \A i \in DOMAIN accepted' : i \in 1..n \/ i = n + 1
      BY <3>1
    <3>6. \A i \in DOMAIN accepted' : accepted'[i].lost = 0 => Gap(accepted', i) \in 0..Dropped'
      BY <1>2, <3>1, <3>2, <3>4, <3>5
    <3>. QED
      BY <1>2, <2>7, <3>6
  <2>8. CASE /\ capture_async /\ UNCHANGED <<direct, accepted>>
             /\ Dropped' = Dropped + Stands(m) /\ Stands(m) \in Nat /\ Dropped \in Nat
    <3>1. \A x \in 0..Dropped : x \in 0..Dropped'
      BY <2>8
    <3>. QED
      BY <1>2, <2>8, <3>1
  <2>9. CASE /\ ~capture_async /\ UNCHANGED <<accepted, refused>>
             /\ direct' = Append(direct, m) /\ (m.lost > 0 \/ ~stop)
    <3>. DEFINE n == Len(direct)
    <3>1. /\ DOMAIN direct' = 1..n + 1 /\ DOMAIN direct = 1..n /\ n \in Nat
          /\ direct'[n + 1] = m
          /\ \A i \in 1..n : direct'[i] = direct[i] /\ Gap(direct', i) = Gap(direct, i)
          /\ Gap(direct', n + 1) = m.seq - 1 - Share(direct, m.cpu, n)
      BY <2>3, <2>6, <2>9, GapAppend
    <3>2. Dropped' = Dropped
      BY <2>9 DEF Dropped
    <3>3. ~stop => Passed(c) = Share(direct, c, n)
      BY <2>2, <2>5, <2>9 DEF Recorded
    <3>4. m.lost = 0 => ~stop
      BY <2>9
    <3>5. \A j \in 1..n : direct[j].lost \in Nat
      BY <2>6, <3>1, StandsType, ElementOfSeq
    <3>6. mode = "terminal" /\ ~stop => \A j \in 1..n : direct[j].lost = 0
      BY <3>1, <3>5 DEF InvModes
    <3>7. m.lost = 0 => Gap(direct', n + 1) = 0
      BY <2>3, <3>1, <3>3, <3>4
    <3>. HIDE DEF n
    <3>8. ASSUME NEW i \in DOMAIN direct', direct'[i].lost = 0
          PROVE  /\ Gap(direct', i) = 0
                 /\ mode = "terminal" => \A j \in 1..i - 1 : direct'[j].lost = 0
      <4>1. CASE i \in 1..n
        <5>1. \A j \in 1..i - 1 : j \in 1..n
          BY <3>1, <4>1
        <5>. QED
          BY <1>2, <3>1, <3>8, <4>1, <5>1
      <4>2. CASE i = n + 1
        <5>1. \A j \in 1..i - 1 : j \in 1..n
          BY <3>1, <4>2
        <5>. QED
          BY <3>1, <3>4, <3>6, <3>7, <3>8, <4>2, <5>1
      <4>3. i \in 1..n \/ i = n + 1
        BY <3>1, <3>8
      <4>. QED
        BY <4>1, <4>2, <4>3
    <3>. QED
      BY <1>2, <2>9, <3>2, <3>8
  <2>10. CASE ~capture_async /\ stop /\ UNCHANGED <<accepted, refused, direct>>
    BY <1>4, <2>10
  <2>. QED
    BY <2>4, <2>7, <2>8, <2>9, <2>10
<1>6. ASSUME NEW c \in CPU, Output(c) PROVE UNCHANGED <<direct, accepted, refused>>
  BY <1>6 DEF Output, export, queue
<1>7. CASE ReadDone \/ ReadFails \/ \E c \in CPU : ReadRing(c)
  BY <1>4, <1>7 DEF ReadDone, ReadFails, ReadRing, bpf, export, queue
<1>8. CASE Still
  BY <1>4, <1>8 DEF Still
<1>. QED
  BY <1>4, <1>5, <1>6, <1>7, <1>8, OtherSteps

---------------------------------------------------------------------------
(* The theorems *)

\* The invariant holds initially.
LEMMA InitInv ==
    ASSUME Init PROVE IInv
<1>1. /\ mode \in Modes /\ ready = FALSE /\ event_count = 0 /\ stop = FALSE /\ expired = FALSE
      /\ prog = [c \in CPU |-> "idle"] /\ tmp = [c \in CPU |-> 0]
      /\ ring = [c \in CPU |-> <<>>] /\ klost = [c \in CPU |-> 0]
      /\ pc = "setup" /\ pages = DefaultPages /\ err = "none" /\ rc = "none"
      /\ todo = {} /\ cur = NoCpu /\ snap = 0 /\ pos = 0 /\ draining = FALSE /\ saved = 0
      /\ capture_async = FALSE /\ queue_stopping = FALSE /\ ended = FALSE
      /\ direct = <<>> /\ final = 0
      /\ open = FALSE /\ accepted = <<>> /\ exported = <<>>
      /\ refused = [events |-> 0, lost |-> 0] /\ reported = [events |-> 0, lost |-> 0]
      /\ outputs = [c \in CPU |-> 0] /\ unsent = 0 /\ discarded = 0
  BY DEF Init, Q!LQInit, Q!Nothing
<1>2. <<>> \in Seq(Messages) /\ Len(<<>>) = 0
  BY EmptySeq
<1>3. TypeOK
  <2>1. DefaultPages \in MinPages..DefaultPages /\ 0 \in 0..MaxOutputs /\ 0 \in 0..0
    BY PageAssumption, SlotAssumption
  <2>2. ring \in [CPU -> Seq(Messages)]
    BY <1>1, <1>2
  <2>. QED
    BY <1>1, <1>2, <2>1, <2>2 DEF TypeOK
<1>4. \A c \in CPU : outputs[c] = 0 /\ klost[c] = 0 /\ prog[c] = "idle" /\ ring[c] = <<>>
  BY <1>1
<1>5. InvBounds
  <2>1. \A c \in CPU : Gated[c] = 0
    BY <1>4 DEF Gated
  <2>2. Started = SumFunctionOnSet(Gated, CPU)
    BY <1>3, StartedIsSum
  <2>3. Started = 0
    BY <2>1, <2>2, CpuAssumption, SumZero
  <2>4. pages \in Halvings
    BY <1>1, HalvingStep
  <2>. QED
    BY <1>4, <2>3, <2>4, SlotAssumption DEF InvBounds
<1>6. InvControl
  BY <1>1 DEF InvControl, Closing, After
<1>7. InvBefore
  BY <1>1, <1>4 DEF InvBefore, Before, Q!Nothing
<1>8. InvLate /\ InvDrained
  BY <1>1, <1>4 DEF InvLate, InvDrained
<1>9. InvModes
  BY <1>1 DEF InvModes, After, Q!Nothing
<1>10. InvCount
  <2>1. \A c \in CPU : Counted[c] = 0
    BY <1>4 DEF Counted
  <2>2. SumFunction(Counted) = SumFunctionOnSet(Counted, CPU)
    BY DEF Counted, SumFunction
  <2>3. SumFunction(Counted) = 0
    BY <2>1, <2>2, CpuAssumption, SumZero
  <2>. QED
    BY <1>1, <1>4, <2>1, <2>3 DEF InvCount
<1>11. \A c \in CPU : From(c) = 0 /\ Left(c) = 0
  <2>1. \A c \in CPU : From(c) = 0
    BY <1>1, CpuAssumption DEF From
  <2>2. Run(<<>>, 0, 0) = 0
    BY RunEmpty
  <2>. QED
    BY <1>2, <1>4, <2>1, <2>2 DEF Left
<1>12. InvPlaces
  <2>1. PlacesTrue /\ PendingTrue
    BY <1>3, PlacesAre, PendingIs
  <2>2. Made = 0
    BY <1>4, CpuAssumption, SumZero DEF Made
  <2>3. Held = 0
    <3>1. \A c \in CPU : Pending[c] = 0
      <4>1. \A c \in CPU : Pending[c] = Left(c) + klost[c]
        BY <2>1 DEF PendingTrue
      <4>. HIDE DEF Pending
      <4>. QED
        BY <1>4, <1>11, <4>1
    <3>2. Held = SumFunctionOnSet(Pending, CPU)
      BY DEF Held, Pending, SumFunction
    <3>. QED
      BY <3>1, <3>2, CpuAssumption, SumZero
  <2>4. Weight(accepted) = 0 /\ Weight(direct) = 0
    BY <1>1, WeightEmpty
  <2>5. Dropped = 0
    BY <1>1 DEF Dropped
  <2>. QED
    BY <1>1, <2>1, <2>2, <2>3, <2>4, <2>5 DEF PlacesTrue
<1>13. InvStream
  <2>1. ASSUME NEW c \in CPU PROVE InOrder(c) /\ Recorded(c)
    <3>1. Passed(c) = 0
      BY <1>3, <1>4, <1>11, PassedIs
    <3>2. Share(<<>>, c, 0) = 0
      <4>1. {j \in 1..0 : <<>>[j].cpu = c} = {}
        OBVIOUS
      <4>. QED
        BY <4>1, SumEmpty DEF Share
    <3>3. Recorded(c)
      BY <1>1, <1>2, <3>1, <3>2 DEF Recorded
    <3>4. InOrder(c)
      BY <1>2, <1>4, <1>11 DEF InOrder
    <3>. QED
      BY <3>3, <3>4
  <2>. QED
    BY <2>1, StreamIs
<1>14. GapsExplained
  BY <1>1 DEF GapsExplained
<1>. QED
  BY <1>3, <1>5, <1>6, <1>7, <1>8, <1>9, <1>10, <1>12, <1>13, <1>14 DEF IInv

\* The invariant holds throughout a capture.
THEOREM Invariance == Spec => []IInv
<1>1. Init => IInv
  BY InitInv
<1>2. ASSUME IInv, [Next]_vars PROVE IInv'
  <2>1. /\ TypeOK /\ InvBounds /\ InvControl /\ InvBefore /\ InvLate /\ InvDrained /\ InvModes
        /\ InvCount /\ InvPlaces /\ InvStream /\ GapsExplained
    BY <1>2 DEF IInv
  <2>2. TypeOK' /\ InvBounds'
    BY <1>2, <2>1, TypeStep
  <2>3. InvControl' /\ InvBefore' /\ InvModes'
    BY <1>2, <2>1, <2>2, ControlInv, BeforeInv, ModesInv
  <2>4. InvLate' /\ InvDrained'
    BY <1>2, <2>1, <2>2, LateInv, DrainedInv
  <2>5. InvCount' /\ InvPlaces'
    BY <1>2, <2>1, <2>2, CountInv, PlacesInv
  <2>6. InvStream' /\ GapsExplained'
    BY <1>2, <2>1, <2>2, StreamInv, GapsInv
  <2>. QED
    BY <2>2, <2>3, <2>4, <2>5, <2>6 DEF IInv
<1>. QED
  BY <1>1, <1>2, PTL DEF Spec

\* Types: a retried ring allocation stays above the floor and libbpf's
\* reader within the part of a ring it took a snapshot of, for every number
\* of CPUs and every size of the rings.
THEOREM TypeCorrectness == Spec => []TypeOK
<1>1. IInv => TypeOK
  BY DEF IInv
<1>. QED
  BY <1>1, Invariance, PTL

\* A queued capture that ends without an error has left behind nothing that
\* was output before trace_disable_capture closed the gate.
THEOREM DrainCorrect == Spec => []DrainComplete
<1>1. IInv => DrainComplete
  <2>. SUFFICES ASSUME IInv PROVE DrainComplete
    OBVIOUS
  <2>1. TypeOK /\ InvControl /\ InvLate /\ InvDrained /\ InvModes
    BY DEF IInv
  <2>2. SuccessMeansDrained
    BY <2>1 DEF SuccessMeansDrained, InvControl, InvDrained, After
  <2>3. ASSUME pc \in {"free", "returned", "done"}, mode = "capture", ended, err \notin Errors
        PROVE  /\ discarded = 0 /\ exported = accepted
               /\ \A c \in CPU : /\ \A i \in DOMAIN ring[c] : ring[c][i].late
                                 /\ \A i, j \in DOMAIN ring[c] :
                                       ring[c][i].lost = 0 /\ ring[c][j].lost = 0 => i = j
    <3>1. discarded = 0 /\ exported = accepted
      BY <2>1, <2>3 DEF InvModes, After
    <3>2. draining /\ cur = NoCpu /\ todo = {}
      BY <2>1, <2>3 DEF InvControl
    <3>3. \A c \in CPU : \A i \in DOMAIN ring[c] : ring[c][i].late
      BY <2>1, <2>3, <3>2, CpuAssumption DEF InvDrained
    <3>. QED
      BY <2>1, <3>1, <3>3 DEF InvLate
  <2>. QED
    BY <2>2, <2>3 DEF DrainComplete
<1>. QED
  BY <1>1, Invariance, PTL

\* The count in trace_end never exceeds the outputs made, however the CPUs
\* and trace_disable_capture overwrite each other's event_count.
THEOREM CountCorrect == Spec => []CountNeverOverstates
<1>1. IInv => CountNeverOverstates
  <2>. SUFFICES ASSUME IInv PROVE CountNeverOverstates
    OBVIOUS
  <2>1. TypeOK /\ InvCount
    BY DEF IInv
  <2>2. final <= Total /\ Total \in Int /\ final \in Int
    BY <2>1, CountedTypes DEF InvCount, TypeOK
  <2>3. \A c \in CPU : outputs[c] \in Nat
    BY <2>1, SlotAssumption DEF TypeOK
  <2>4. \A c \in CPU : Counted[c] \in Int /\ outputs[c] \in Int /\ Counted[c] <= outputs[c]
    BY <2>3 DEF Counted
  <2>5. Total <= Made
    BY <2>4, CpuAssumption, SumMonotone DEF Total, Made
  <2>6. DOMAIN outputs = CPU
    BY <2>1 DEF TypeOK
  <2>7. SumFunction(outputs) = Made /\ Made \in Nat
    BY <2>1, <2>6, PlacesAre DEF SumFunction, Made, PlacesTrue
  <2>. QED
    BY <2>2, <2>5, <2>7 DEF CountNeverOverstates
<1>. QED
  BY <1>1, Invariance, PTL

\* Every output of every CPU is in exactly one place: exported, queued,
\* refused, discarded, in a ring, in a ring's loss count, or unsent.
THEOREM PlacesCorrect == Spec => []EveryOutputIsSomewhere
<1>1. IInv => EveryOutputIsSomewhere
  BY DEF IInv, InvPlaces
<1>. QED
  BY <1>1, Invariance, PTL

\* The events of a CPU reach the trace in order, and a gap in front of one
\* is explained by the losses exported before it and what the queue refused.
THEOREM GapsCorrect == Spec => []GapsExplained
<1>1. IInv => GapsExplained
  BY DEF IInv
<1>. QED
  BY <1>1, Invariance, PTL
===========================================================================
