----------------------------- MODULE RxContext -----------------------------
(***************************************************************************)
(* src/rx_context.h and its gate in src/perfetto_export.c: RX events whose *)
(* socket is not known yet wait in a bounded list, sorted by event time,   *)
(* until an event of the same skb (address and allocation generation)      *)
(* brings direct evidence of the target's socket.  Events of different     *)
(* CPUs arrive out of time order.  rx_context_lock makes every call one    *)
(* step.                                                                   *)
(*                                                                         *)
(* The list is a sequence; tail is the entry the C tail pointer names, so  *)
(* that a stale tail has the effect it has in C.  size is the allocation   *)
(* of an entry; the bytes of the owner table are taken off MaxBytes.       *)
(***************************************************************************)
EXTENDS Integers, Sequences, FiniteSets, FiniteSetsExt, SequencesExt

CONSTANTS
    Keys,          \* skb addresses; 0 is no address
    Generations,   \* allocation generations; 0 is unknown
    Times,         \* event times
    Sizes,         \* allocation sizes
    Slots,         \* RX_CONTEXT_OWNER_SLOTS
    Hash,          \* [Keys \X Generations -> 0..Slots-1]
    MaxEvents,     \* RX_CONTEXT_MAX_EVENTS
    MaxBytes,      \* RX_CONTEXT_MAX_BYTES less the owner table
    Window,        \* RX_CONTEXT_WINDOW_NS
    MaxFeeds       \* bound: events fed

ASSUME KeyAssumption == Keys \subseteq Nat /\ Generations \subseteq Nat
ASSUME TimeAssumption == Times \subseteq Nat /\ Window \in Nat
ASSUME SlotAssumption == Slots \in Nat \ {0} /\ Hash \in [Keys \X Generations -> 0..Slots - 1]
ASSUME SizeAssumption == Sizes \subseteq Nat \ {0}
ASSUME CapAssumption == MaxEvents \in Nat \ {0} /\ MaxBytes \in Nat /\ MaxFeeds \in Nat

VARIABLES
    ctx,        \* struct rx_context
    broken,     \* a NULL or freed entry was dereferenced
    open,       \* the export files are open
    \* history: the events fed, how many of them were pending, the direct
    \* evidence among them, and the calls of the exporter: pairs of an event
    \* and the owner applied to it, and their number
    feeds, quarantined, evidence, emitted, emissions

history == <<feeds, quarantined, evidence, emitted, emissions>>
vars == <<ctx, broken, open, history>>

\* An event: its number, the skb it belongs to, its time, and its size.
Events == [id : 1..MaxFeeds, key : Keys, gen : Generations, ts : Times, size : Sizes]

NoEntry == 0     \* a NULL tail
NoOwner == [id |-> NoEntry, key |-> 0, gen |-> 0, ts |-> 0]
OwnerOf(e) == [id |-> e.id, key |-> e.key, gen |-> e.gen, ts |-> e.ts]

Init ==
    /\ ctx = [list |-> <<>>, tail |-> NoEntry, owners |-> [s \in 0..Slots - 1 |-> NoOwner],
              count |-> 0, bytes |-> 0, watermark |-> 0,
              replayed |-> 0, expired |-> 0, capacity_dropped |-> 0, unresolved |-> 0]
    /\ broken = FALSE /\ open = TRUE
    /\ feeds = 0 /\ quarantined = 0
    /\ evidence = {} /\ emitted = {} /\ emissions = 0

---------------------------------------------------------------------------
(* rx_context_remove, rx_context_expire, rx_context_matches *)

BytesOf(s) == SumFunction([i \in DOMAIN s |-> s[i].size])

\* Mutant: an entry is taken off the count when it is unlinked and when it
\* is freed.
BugRemoveTwice(c, gone, left) ==
    [c EXCEPT !.list = left,
              !.count = @ - 2 * Len(gone),
              !.bytes = @ - BytesOf(gone),
              !.tail = IF gone # <<>> /\ left = <<>> THEN NoEntry ELSE @]

\* Removing the entries gone, which leaves the list left.
RemoveAll(c, gone, left) ==
    [c EXCEPT !.list = left,
              !.count = @ - Len(gone),
              !.bytes = @ - BytesOf(gone),
              !.tail = IF gone # <<>> /\ left = <<>> THEN NoEntry ELSE @]

RemoveHeads(c, k) ==
    RemoveAll(c, SubSeq(c.list, 1, k), SubSeq(c.list, k + 1, Len(c.list)))

Watermark(c, ts) == IF ts > c.watermark THEN ts ELSE c.watermark

Stale(e, watermark) == watermark >= e.ts /\ watermark - e.ts > Window

\* Expiry stops at the first entry that is not stale.
Expire(c, ts) ==
    LET w == Watermark(c, ts)
        k == Max({j \in 0..Len(c.list) : \A i \in 1..j : Stale(c.list[i], w)})
    IN  [RemoveHeads(c, k) EXCEPT !.watermark = w, !.expired = @ + k]

\* Mutant: the generation is not compared.
BugMatches(e, owner) ==
    owner.key = e.key /\ owner.ts >= e.ts /\ owner.ts - e.ts <= Window

Matches(e, owner) ==
    /\ owner.key = e.key /\ owner.gen = e.gen
    /\ owner.ts >= e.ts /\ owner.ts - e.ts <= Window

\* A skb is identified by its address and a known generation.
Identified(e) == e.key # 0 /\ e.gen # 0

SlotOf(e) == Hash[<<e.key, e.gen>>]

---------------------------------------------------------------------------
(* The two branches of rx_context_feed that use the owner table.  c is the *)
(* context after rx_context_expire.                                        *)

\* Evidence is kept in its slot unless the same skb has a newer one there.
Remember(c, e) ==
    LET old == c.owners[SlotOf(e)]
    IN  IF old.key # e.key \/ old.gen # e.gen \/ old.ts <= e.ts
        THEN OwnerOf(e) ELSE old

\* Mutant: the tail is left where it was.
BugRebuildTail(c, left) == c.tail

\* The walk over the list recomputes the tail.
RebuildTail(c, left) == IF left = <<>> THEN NoEntry ELSE left[Len(left)].id

\* The exporter is called for the events es, completed with owner.
Emit(es, owner) ==
    /\ emitted' = emitted \cup {<<es[i], owner>> : i \in DOMAIN es}
    /\ emissions' = emissions + Len(es)

NoEmit == UNCHANGED <<emitted, emissions>>

\* The entries of s at some positions, in the order of the list.
Entries(s, at) ==
    [n \in 1..Cardinality(at) |-> s[CHOOSE i \in at : Cardinality({j \in at : j <= i}) = n]]

\* The positions of the entries that e is evidence for.
MatchedBy(c, e) == {i \in DOMAIN c.list : Matches(c.list[i], OwnerOf(e))}

\* Mutants: a replayed entry stays in the list; the walk ends at the first
\* match.
BugKeepReplayed(c, e) ==
    LET matching == Entries(c.list, MatchedBy(c, e))
    IN  /\ ctx' = [c EXCEPT !.owners[SlotOf(e)] = Remember(c, e),
                            !.replayed = @ + Len(matching)]
        /\ Emit(matching, OwnerOf(e))
BugFirstMatch(c, e) ==
    LET at == MatchedBy(c, e)
        matching == IF at = {} THEN <<>> ELSE <<c.list[Min(at)]>>
        left == IF at = {} THEN c.list ELSE RemoveAt(c.list, Min(at))
    IN  /\ ctx' = [RemoveAll(c, matching, left) EXCEPT
                     !.tail = RebuildTail(c, left),
                     !.owners[SlotOf(e)] = Remember(c, e),
                     !.replayed = @ + Len(matching)]
        /\ Emit(matching, OwnerOf(e))

\* Evidence releases every entry it matches.
FeedEvidence(c, e) ==
    LET matching == Entries(c.list, MatchedBy(c, e))
        left == Entries(c.list, DOMAIN c.list \ MatchedBy(c, e))
    IN  /\ ctx' = [RemoveAll(c, matching, left) EXCEPT
                     !.tail = RebuildTail(c, left),
                     !.owners[SlotOf(e)] = Remember(c, e),
                     !.replayed = @ + Len(matching)]
        /\ Emit(matching, OwnerOf(e))

Drop(c) == [c EXCEPT !.capacity_dropped = @ + 1]

HasRoom(count, bytes, e) == count < MaxEvents /\ bytes + e.size <= MaxBytes

\* Evictions from the head until e fits.  None fits: the loop runs off the
\* end of the list.
Evict(c, e) ==
    {k \in 0..Len(c.list) : LET d == RemoveHeads(c, k) IN HasRoom(d.count, d.bytes, e)}

\* The position of the entry the tail pointer names; 0 if it is not linked.
TailAt(c) == LET at == {i \in DOMAIN c.list : c.list[i].id = c.tail}
             IN  IF at = {} THEN 0 ELSE Max(at)

\* The tail pointer names an entry that is not in the list.
Dangling(c) == c.tail # NoEntry /\ TailAt(c) = 0

\* Appended at the tail, or linked before the first later entry.
Insert(c, e) ==
    LET linked ==
            IF c.tail = NoEntry THEN <<e>>
            ELSE IF c.list[TailAt(c)].ts <= e.ts
            THEN Append(SubSeq(c.list, 1, TailAt(c)), e)
            ELSE LET k == Max({j \in 0..Len(c.list) :
                                 \A i \in 1..j : c.list[i].ts <= e.ts})
                 IN  InsertAt(c.list, k + 1, e)
        atTail == c.tail = NoEntry \/ c.list[TailAt(c)].ts <= e.ts
    IN  [c EXCEPT !.list = linked, !.count = @ + 1, !.bytes = @ + e.size,
                  !.tail = IF atTail THEN e.id ELSE @]

Oversized(e) == e.size > MaxBytes

FeedPending(c, e) ==
    \/ /\ Stale(e, c.watermark)
       /\ ctx' = [c EXCEPT !.expired = @ + 1]
       /\ NoEmit /\ UNCHANGED broken
    \/ /\ ~Stale(e, c.watermark)      \* Oversized(e), or malloc failed
       /\ ctx' = Drop(c)
       /\ NoEmit /\ UNCHANGED broken
    \/ /\ ~Stale(e, c.watermark) /\ ~Oversized(e)
       /\ Matches(e, c.owners[SlotOf(e)])
       /\ ctx' = [c EXCEPT !.replayed = @ + 1]
       /\ Emit(<<e>>, c.owners[SlotOf(e)]) /\ UNCHANGED broken
    \/ /\ ~Stale(e, c.watermark) /\ ~Oversized(e)
       /\ ~Matches(e, c.owners[SlotOf(e)])
       /\ LET evicted(k) == [RemoveHeads(c, k) EXCEPT !.capacity_dropped = @ + k]
          IN  IF Evict(c, e) = {} \/ Dangling(evicted(Min(Evict(c, e))))
              THEN broken' = TRUE /\ UNCHANGED ctx
              ELSE ctx' = Insert(evicted(Min(Evict(c, e))), e) /\ UNCHANGED broken
       /\ NoEmit

---------------------------------------------------------------------------
(* The callers.  perfetto_export_event, with --rx-context and a UID filter, *)
(* feeds the events that are pending or carry direct evidence of the target *)
(* user.  Evidence of another user is discarded, and all other events pass  *)
(* without touching the context: stuttering steps.                          *)

\* rx_context_feed of an event without an owner.
FeedUnowned(e) ==
    /\ open /\ ~broken /\ feeds < MaxFeeds
    /\ feeds' = e.id /\ quarantined' = quarantined + 1
    /\ LET c == Expire(ctx, e.ts)
       IN  IF Identified(e)
           THEN FeedPending(c, e)
           ELSE /\ ctx' = [c EXCEPT !.unresolved = @ + 1]
                /\ NoEmit /\ UNCHANGED broken
    /\ UNCHANGED <<open, evidence>>

\* rx_context_feed of an event of the target.  It is exported in any case,
\* which is not recorded here; it is evidence if it names a socket.
FeedOwned(e, socket) ==
    /\ open /\ ~broken /\ feeds < MaxFeeds
    /\ feeds' = e.id
    /\ LET c == Expire(ctx, e.ts)
       IN  IF Identified(e) /\ socket
           THEN /\ FeedEvidence(c, e)
                /\ evidence' = evidence \cup {OwnerOf(e)}
           ELSE ctx' = c /\ NoEmit /\ UNCHANGED evidence
    /\ UNCHANGED <<broken, open, quarantined>>

\* perfetto_export_tick: the clock is not behind any event already fed.
PerfettoExportTick(now) ==
    /\ open /\ ~broken
    /\ now > ctx.watermark
    /\ ctx' = Expire(ctx, now)
    /\ UNCHANGED <<broken, open, history>>

\* perfetto_export_close: rx_context_finish, then the counters are written.
PerfettoExportClose ==
    /\ open /\ ~broken
    /\ ctx' = [RemoveHeads(ctx, Len(ctx.list)) EXCEPT
                 !.unresolved = @ + Len(ctx.list),
                 !.owners = [s \in 0..Slots - 1 |-> NoOwner]]
    /\ open' = FALSE
    /\ UNCHANGED <<broken, history>>

Next ==
    \/ \E e \in {x \in Events : x.id = feeds + 1} : FeedUnowned(e)
    \/ \E e \in {x \in Events : x.id = feeds + 1 /\ x.size = Min(Sizes)}, socket \in BOOLEAN :
          FeedOwned(e, socket)
    \/ \E now \in Times : PerfettoExportTick(now)
    \/ PerfettoExportClose

Spec == Init /\ [][Next]_vars

---------------------------------------------------------------------------
(* Properties *)

Owners == [id : 0..MaxFeeds, key : Keys \cup {0}, gen : Generations \cup {0}, ts : Times \cup {0}]

\* Types.  The counters of the context never become negative.
TypeOK ==
    /\ ctx \in [list : Seq(Events), tail : 0..MaxFeeds, owners : [0..Slots - 1 -> Owners],
                count : Nat, bytes : Nat, watermark : Nat,
                replayed : Nat, expired : Nat, capacity_dropped : Nat, unresolved : Nat]
    /\ broken \in BOOLEAN /\ open \in BOOLEAN
    /\ feeds \in 0..MaxFeeds /\ quarantined \in 0..feeds /\ emissions \in Nat
    /\ evidence \subseteq Owners /\ emitted \subseteq Events \X Owners

\* The list survives out of order arrival, eviction and replay: it stays in
\* time order, the tail pointer names its last entry, the counters that
\* bound memory are exact and within both limits, and no eviction takes from
\* an empty list nor is a freed tail written through.  Therefore expiry, which
\* looks at the head only, misses no entry that is older than the window.
ListIntact ==
    /\ \A i, j \in DOMAIN ctx.list : i < j => ctx.list[i].ts <= ctx.list[j].ts
    /\ ctx.tail = IF ctx.list = <<>> THEN NoEntry ELSE ctx.list[Len(ctx.list)].id
    /\ ctx.count = Len(ctx.list) /\ ctx.count <= MaxEvents
    /\ ctx.bytes = BytesOf(ctx.list) /\ ctx.bytes <= MaxBytes
    /\ ~broken
    /\ \A i \in DOMAIN ctx.list :
          ctx.watermark >= ctx.list[i].ts /\ ctx.watermark - ctx.list[i].ts <= Window

\* Every event fed as pending is replayed, expired, dropped for capacity,
\* unresolved or still held: the four counters written at the end add up.  No
\* event is written twice, and none that is written is held.
PendingAccounted ==
    /\ quarantined = ctx.replayed + ctx.expired + ctx.capacity_dropped + ctx.unresolved
                     + Len(ctx.list)
    /\ Cardinality({pair[1].id : pair \in emitted}) = emissions
    /\ \A pair \in emitted, i \in DOMAIN ctx.list : pair[1].id # ctx.list[i].id

\* A pending event is only released by direct evidence of the same skb and
\* generation, not older than it and within the window, however the slots
\* of the owner table collide and in whatever order events arrive.
ReleasedByEvidence ==
    \A pair \in emitted :
        LET e == pair[1]
            owner == pair[2]
        IN  /\ owner \in evidence
            /\ owner.key = e.key /\ owner.gen = e.gen /\ Identified(e)
            /\ owner.ts >= e.ts /\ owner.ts - e.ts <= Window

\* No entry waits for evidence the table already has.
NoneWaitsInVain ==
    \A i \in DOMAIN ctx.list :
        ~Matches(ctx.list[i], ctx.owners[SlotOf(ctx.list[i])])
===========================================================================
