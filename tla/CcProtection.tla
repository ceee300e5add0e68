---------------------------- MODULE CcProtection ----------------------------
(***************************************************************************)
(* The request limits of the data plane (src/node/data/cc_protection.h):   *)
(* every worker counts and limits its own requests in a ring of time       *)
(* buckets, reports the counts to the control loop, which adds them up and *)
(* publishes who is blocked everywhere (run_cc in data_plane.h, report_cc  *)
(* in data_worker.h).                                                      *)
(*                                                                         *)
(* One clock, in ticks.  All keys have the same limits.                    *)
(***************************************************************************)
EXTENDS Naturals, Sequences, FiniteSets, FiniteSetsExt, Functions

CONSTANTS
  Workers, Keys,
  Window, Buckets,        \* window_ms_, bucket_count
  Requests, Mitigation,   \* requests_, mitigation_ms_
  Capacity,               \* entries of the aggregator; of a worker: WorkerCapacity
  WorkerCapacity,
  Reports, Commands,      \* capacities of the two channels
  MaxTime, MaxRequests,   \* bounds: the clock, requests
  None

CcAssumption ==
  /\ {Window, Buckets, Requests, Mitigation, Capacity, WorkerCapacity, Reports, Commands} \subseteq Nat \ {0}
  /\ MaxTime \in Nat /\ MaxRequests \in Nat

VARIABLES
  now,
  entry,      \* entries_ of each worker, by key
  disp,       \* dispositions_ of each worker
  reports,    \* cc_reports_
  agg,        \* the aggregator's entries, by key
  saturated,  \* saturated_until_
  sequences,  \* the last batch merged of each worker; sent: of each worker
  sent,
  previous,   \* what run_cc takes for published
  commands,   \* snapshots in the workers' request channels
  retry,      \* history: the last snapshot was refused by a worker
  dropped,    \* history: until when counts that found no entry could matter
  counted,    \* history: requests counted, by worker, key and tick
  allowed,    \* history: requests allowed, likewise
  told        \* history: by key, requests the aggregator knows of, and knew of at its last mitigation

vars == <<now, entry, disp, reports, agg, saturated, sequences, sent, previous, commands, retry, dropped, counted, allowed, told>>

Width == (Window + Buckets - 1) \div Buckets

\* buckets_: one more than the window has parts.
Ring == Buckets + 1

\* live: until the bucket's end leaves the window.
Live(slot, t) == (slot + 1) * Width + Window > t

NoBucket == [slot |-> 0, count |-> 0]
NoEntry == [known |-> FALSE, ring |-> [i \in 0..(Ring - 1) |-> NoBucket], last |-> 0, until |-> 0, dirty |-> FALSE]
NoTotal == [known |-> FALSE, until |-> 0, changed |-> FALSE,
            ring |-> [i \in 0..(Ring - 1) |-> [slot |-> 0, total |-> 0, of |-> [w \in Workers |-> 0]]]]
NoDisposition == [saturated |-> 0, until |-> [k \in Keys |-> 0]]
NoHits == [w \in Workers |-> [k \in Keys |-> [t \in 0..MaxTime |-> 0]]]

Init ==
  /\ now = 0 /\ entry = [w \in Workers |-> [k \in Keys |-> NoEntry]] /\ disp = [w \in Workers |-> NoDisposition]
  /\ reports = <<>> /\ agg = [k \in Keys |-> NoTotal] /\ saturated = 0
  /\ sequences = [w \in Workers |-> 0] /\ sent = [w \in Workers |-> 0]
  /\ previous = None /\ commands = [w \in Workers |-> <<>>] /\ retry = FALSE /\ dropped = 0
  /\ counted = NoHits /\ allowed = NoHits /\ told = [k \in Keys |-> [known |-> 0, charged |-> 0]]

Total(f, S) == FoldFunctionOnSet(+, 0, f, S)
Asked == Total([w \in Workers |-> Total([k \in Keys |-> Total(counted[w][k], 0..MaxTime)], Keys)], Workers)

\* Requests the ring still knows of.
LiveCount(ring, t) == Total([i \in DOMAIN ring |-> IF Live(ring[i].slot, t) THEN ring[i].count ELSE 0], DOMAIN ring)

(* -- cc_worker ---------------------------------------------------------- *)

\* The ring with one more request in the bucket of this tick.
Counted(ring) ==
  LET slot == now \div Width  i == slot % Ring IN
  [ring EXCEPT ![i] = IF @.slot = slot THEN [@ EXCEPT !.count = @ + 1] ELSE [slot |-> slot, count |-> 1]]

\* check: a request that no disposition stops.
Check(w, k) ==
  /\ Asked < MaxRequests
  /\ disp[w].saturated <= now /\ disp[w].until[k] <= now
  /\ entry[w][k].known \/ Cardinality({j \in Keys : entry[w][j].known}) < WorkerCapacity
  /\ LET e == entry[w][k]  ring == Counted(e.ring) IN
     IF e.until > now
     THEN UNCHANGED <<entry, counted, allowed>>
     ELSE LET over == LiveCount(ring, now) > Requests IN
          /\ entry' = [entry EXCEPT ![w][k] = [known |-> TRUE, ring |-> ring, last |-> now, dirty |-> TRUE,
                                               until |-> IF over THEN now + Mitigation ELSE e.until]]
          /\ counted' = [counted EXCEPT ![w][k][now] = @ + 1]
          /\ allowed' = IF over THEN allowed ELSE [allowed EXCEPT ![w][k][now] = @ + 1]
  /\ UNCHANGED <<now, disp, reports, agg, saturated, sequences, sent, previous, commands, retry, dropped, told>>

\* report: entries that no longer matter go.
Kept(e) == IF ~e.dirty /\ e.until <= now /\ now >= e.last + Window + Width THEN NoEntry ELSE e

\* report: every live bucket of the entries that changed, with its whole count.
Counts(es) ==
  {[key |-> k, slot |-> es[k].ring[i].slot, count |-> es[k].ring[i].count] :
     <<k, i>> \in {p \in Keys \X (0..(Ring - 1)) : LET b == es[p[1]].ring[p[2]] IN
                                                  es[p[1]].dirty /\ b.count > 0 /\ Live(b.slot, now)}}

\* Mutant: acknowledged whether the channel took the batch or not.
AcknowledgedAlways(accepted) == TRUE

\* report_cc: acknowledge only what the channel accepted.
Acknowledged(accepted) == accepted

\* report_cc: one turn.
ReportCc(w) ==
  LET es == [k \in Keys |-> Kept(entry[w][k])]  counts == Counts(es)
      accepted == counts = {} \/ Len(reports) < Reports IN
  /\ sent' = [sent EXCEPT ![w] = @ + 1]
  /\ reports' = IF counts # {} /\ accepted
                THEN Append(reports, [worker |-> w, sequence |-> sent[w] + 1, at |-> now, counts |-> counts]) ELSE reports
  /\ entry' = [entry EXCEPT ![w] = IF Acknowledged(accepted) THEN [k \in Keys |-> [es[k] EXCEPT !.dirty = FALSE]] ELSE es]
  /\ entry[w] # entry'[w] \/ reports' # reports
  /\ UNCHANGED <<now, disp, agg, saturated, sequences, previous, commands, retry, dropped, counted, allowed, told>>

(* -- cc_aggregator ------------------------------------------------------ *)

\* merge: what a source has counted since it last said so.
Increase(b, w, c) == IF c.count > b.of[w] THEN c.count - b.of[w] ELSE 0

\* merge: one count into its bucket, which may have held an older slot.
MergedBucket(b, w, c) ==
  LET fresh == IF b.slot = c.slot THEN b ELSE [slot |-> c.slot, total |-> 0, of |-> [v \in Workers |-> 0]] IN
  [fresh EXCEPT !.total = @ + Increase(fresh, w, c), !.of[w] = IF c.count > @ THEN c.count ELSE @]

\* merge: the counts of one key.
MergedEntry(e, w, cs) ==
  LET of(i) == {c \in cs : c.slot % Ring = i}
      ring == [i \in DOMAIN e.ring |-> IF of(i) = {} THEN e.ring[i] ELSE MergedBucket(e.ring[i], w, CHOOSE c \in of(i) : TRUE)] IN
  [e EXCEPT !.known = TRUE, !.ring = ring, !.changed = @ \/ ring # e.ring]

Known(e) == Total([i \in DOMAIN e.ring |-> e.ring[i].total], DOMAIN e.ring)

\* merge: counts that are still live; a new key only while there is room.
Merge ==
  /\ reports # <<>> /\ reports' = Tail(reports)
  /\ LET b == Head(reports)
         live == {c \in b.counts : Live(c.slot, now)}
         held == {k \in Keys : agg[k].known}
         unknown == {c.key : c \in live} \ held IN
     IF b.sequence <= sequences[b.worker] THEN UNCHANGED <<agg, saturated, sequences, dropped, told>>
     ELSE \E new \in SUBSET unknown :
            /\ Cardinality(held \cup new) <= Capacity
            /\ new = unknown \/ Cardinality(held \cup new) = Capacity
            /\ sequences' = [sequences EXCEPT ![b.worker] = b.sequence]
            /\ agg' = [k \in Keys |-> LET cs == {c \in live : c.key = k} IN
                       IF cs = {} \/ k \in unknown \ new THEN agg[k] ELSE MergedEntry(agg[k], b.worker, cs)]
            /\ saturated' = IF new = unknown THEN saturated ELSE now + Window
            /\ told' = [k \in Keys |-> [told[k] EXCEPT !.known = @ + Known(agg'[k]) - Known([agg[k] EXCEPT !.ring =
                          [i \in DOMAIN @ |-> IF @[i].slot = agg'[k].ring[i].slot THEN @[i] ELSE NoTotal.ring[i]]])]]
            /\ dropped' = IF new = unknown THEN dropped ELSE now + Window + Width
  /\ UNCHANGED <<now, entry, disp, sent, previous, commands, retry, counted, allowed>>

Sum(e) == Total([i \in DOMAIN e.ring |-> IF Live(e.ring[i].slot, now) THEN e.ring[i].total ELSE 0], DOMAIN e.ring)

\* snapshot: only counts that came in since the last one block.
Blocks(e) == e.changed /\ Sum(e) > Requests /\ e.until <= now

\* snapshot: one entry, cleared of what is over.
Settled(e) ==
  LET until == IF Blocks(e) THEN now + Mitigation ELSE e.until
      ring == [i \in DOMAIN e.ring |-> IF Live(e.ring[i].slot, now) THEN e.ring[i] ELSE NoTotal.ring[i]] IN
  IF ~e.known \/ (Sum(e) = 0 /\ until <= now) THEN NoTotal
  ELSE [e EXCEPT !.until = until, !.changed = FALSE, !.ring = ring]

\* run_cc: published once every worker took it; else the next turn sends it again.
Published(taken) == taken = Workers

\* run_cc: a snapshot, and the workers told of it when it differs.
Snapshot ==
  /\ agg' = [k \in Keys |-> Settled(agg[k])]
  /\ LET shot == [saturated |-> IF saturated > now THEN saturated ELSE 0,
                  until |-> [k \in Keys |-> IF agg'[k].until > now THEN agg'[k].until ELSE 0]]
         taken == {w \in Workers : Len(commands[w]) < Commands} IN
     /\ told' = [k \in Keys |-> IF agg'[k].until > agg[k].until THEN [told[k] EXCEPT !.charged = told[k].known] ELSE told[k]]
     /\ IF shot = previous
        THEN retry' = FALSE /\ agg' # agg /\ UNCHANGED <<commands, previous>>
        ELSE /\ commands' = [w \in Workers |-> IF w \in taken THEN Append(commands[w], shot) ELSE commands[w]]
             /\ previous' = IF Published(taken) THEN shot ELSE previous
             /\ retry' = (taken # Workers)
  /\ UNCHANGED <<now, entry, disp, reports, saturated, sequences, sent, dropped, counted, allowed>>

\* publish: in the order of the channel, so never an older one.
Publish(w) ==
  /\ commands[w] # <<>>
  /\ disp' = [disp EXCEPT ![w] = Head(commands[w])]
  /\ commands' = [commands EXCEPT ![w] = Tail(@)]
  /\ UNCHANGED <<now, entry, reports, agg, saturated, sequences, sent, previous, retry, dropped, counted, allowed, told>>

Tick ==
  /\ now < MaxTime /\ now' = now + 1
  /\ UNCHANGED <<entry, disp, reports, agg, saturated, sequences, sent, previous, commands, retry, dropped, counted, allowed, told>>

Next ==
  \/ \E w \in Workers : ReportCc(w) \/ Publish(w) \/ \E k \in Keys : Check(w, k)
  \/ Merge \/ Snapshot \/ Tick

Spec == Init /\ [][Next]_vars

(* -- Properties --------------------------------------------------------- *)

\* Requests of a bucket, by the history.
InSlot(h, slot) == Total(h, {t \in 0..MaxTime : t \div Width = slot})

(* "rounding never drops recent requests": whatever the phase of the       *)
(* buckets, one worker never lets more than the limit through in any       *)
(* stretch of the window's length.                                         *)
WindowLimit ==
  \A w \in Workers, k \in Keys : Total(allowed[w][k], {t \in 0..now : t + Window > now}) <= Requests

(* "Per-source absolute bucket counts make retries idempotent": what the   *)
(* control loop adds up is never more than what was counted, and all of it *)
(* once nothing is left to report, refused batches, lost entries and       *)
(* reused buckets included.                                                *)
AddsUp ==
  \A k \in Keys, slot \in 0..(now \div Width) :
    LET all == Total([w \in Workers |-> InSlot(counted[w][k], slot)], Workers)
        b == agg[k].ring[slot % Ring]
        sum == IF b.slot = slot THEN b.total ELSE 0 IN
    Live(slot, now) =>
      /\ sum <= all
      /\ (reports = <<>> /\ (\A w \in Workers : ~entry[w][k].dirty) /\ dropped <= now) => sum = all

(* Workers agree on who is blocked once the channels are empty and no      *)
(* refused snapshot waits for its repetition.                              *)
Agreement ==
  (previous # None /\ ~retry /\ \A w \in Workers : commands[w] = <<>>) =>
    \A w \in Workers : /\ (disp[w].saturated > now) = (previous.saturated > now)
                       /\ \A k \in Keys : (disp[w].until[k] > now) = (previous.until[k] > now)

(* "Do not renew a mitigation just because the same counters were resent": *)
(* one that the control loop begins is caused by a request it did not know *)
(* of when it began the one before.                                        *)
RenewsForNews ==
  \A k \in Keys : agg'[k].until > agg[k].until => told[k].known > told[k].charged

=============================================================================
