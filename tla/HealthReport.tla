---------------------------- MODULE HealthReport ----------------------------
(***************************************************************************)
(* The health the node reports for one origin: every data worker keeps its *)
(* own, and origin_health_snapshot::merge (src/node/data/origin_health.h)  *)
(* folds them, one snapshot after the other, into what the control channel *)
(* sends.                                                                  *)
(***************************************************************************)
EXTENDS Naturals, Sequences, FiniteSets, SequencesExt

CONSTANTS
  Times,       \* checked_at_unix_millis_; 0 is never
  Latencies,   \* latency_millis_
  Errors,      \* last_error_, as ranks of their order; 0 is none
  MaxWorkers   \* bound: data workers

ReportAssumption == Times \cup Latencies \cup Errors \subseteq Nat /\ 0 \in Times /\ 0 \in Errors /\ MaxWorkers \in Nat

VARIABLES seen, merged

vars == <<seen, merged>>

\* Requests change healthy alone, probes all of it; a probe under the threshold leaves healthy as it is.
Entries ==
  {e \in [healthy : BOOLEAN, at : Times, latency : Latencies, error : Errors] :
     e.at = 0 => e.latency = 0 /\ e.error = 0}

Absent == [healthy |-> TRUE, at |-> 0, latency |-> 0, error |-> 0]

Init == seen = <<>> /\ merged = Absent

\* std::tie(checked_at, last_error, latency), compared.
Later(v, w) ==
  \/ v.at > w.at
  \/ v.at = w.at /\ v.error > w.error
  \/ v.at = w.at /\ v.error = w.error /\ v.latency > w.latency

\* merge: the first unhealthy one, or a later one of the same health.
Replaces(v, w) == (w.healthy /\ ~v.healthy) \/ (w.healthy = v.healthy /\ Later(v, w))

Unknown(v, w) == w.at = 0 \/ v.at = 0

\* merge: one more worker's entry.
Merged(w, v) ==
  LET healthy == w.healthy /\ v.healthy
      next == [(IF Replaces(v, w) THEN v ELSE w) EXCEPT !.healthy = healthy] IN
  IF healthy /\ Unknown(v, w) THEN Absent ELSE next

Arrive ==
  /\ Len(seen) < MaxWorkers
  /\ \E v \in Entries :
       /\ seen' = Append(seen, v)
       /\ merged' = IF seen = <<>> THEN v ELSE Merged(merged, v)

Next == Arrive

Spec == Init /\ [][Next]_vars

\* reports: the status word.
Status(e) == IF ~e.healthy THEN "unhealthy" ELSE IF e.at = 0 THEN "unknown" ELSE "healthy"

(* -- Properties --------------------------------------------------------- *)

(* "deterministic tie-break independent of arrival": the report is the one *)
(* that any other order of the same workers' snapshots gives.              *)
ArrivalOrderFree ==
  \A k \in 1..(Len(seen) - 1) :
    LET swapped == [seen EXCEPT ![k] = seen[k + 1], ![k + 1] = seen[k]] IN
    merged = FoldLeft(Merged, swapped[1], Tail(swapped))

(* "an unhealthy worker makes the origin unhealthy; an unprobed healthy    *)
(* worker keeps it unknown", and an unhealthy report carries the latest    *)
(* unhealthy observation.                                                  *)
Conservative ==
  seen # <<>> =>
    LET all == Range(seen)  bad == {e \in all : ~e.healthy} IN
    /\ Status(merged) = IF bad # {} THEN "unhealthy" ELSE IF \E e \in all : e.at = 0 THEN "unknown" ELSE "healthy"
    /\ bad # {} => merged \in bad /\ \A e \in bad : ~Later(e, merged)
=============================================================================
