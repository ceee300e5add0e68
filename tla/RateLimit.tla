------------------------------ MODULE RateLimit ------------------------------
(***************************************************************************)
(* The shared request budgets in Redis                                     *)
(* (src/service/features/rate_limit/store.h): token buckets that one       *)
(* script checks and consumes together, and the callers that wait for them *)
(* (acquire).                                                              *)
(*                                                                         *)
(* Tokens are counted in parts of one window: a token of bucket b is       *)
(* Period[b] parts, and Capacity[b] parts come back with every tick, so    *)
(* that the script's division is exact.                                    *)
(***************************************************************************)
EXTENDS Integers

CONSTANTS
  Buckets,
  Capacity,   \* capacity_, by bucket
  Period,     \* window_, by bucket
  Callers,
  Uses,       \* the buckets a caller's request counts against
  MaxWait,    \* max_wait of acquire
  MaxTime,    \* bound: the clock
  MaxBack,    \* bound: steps back of the Redis clock
  MaxLost     \* bound: replies lost

ASSUME RateAssumption ==
  /\ Capacity \in [Buckets -> Nat \ {0}] /\ Period \in [Buckets -> Nat \ {0}]
  /\ Uses \in [Callers -> SUBSET Buckets]
  /\ MaxWait \in Nat \ {0} /\ MaxTime \in Nat /\ MaxBack \in Nat /\ MaxLost \in Nat

VARIABLES
  now,      \* Redis TIME
  steady,   \* the callers' steady clock
  bucket,   \* the hashes: tokens, at and the time the key expires
  caller,   \* what each acquire is doing
  back, lost,
  base,     \* history: where a stretch of time under observation begins
  granted   \* history: tokens taken in that stretch, by bucket

vars == <<now, steady, bucket, caller, back, lost, base, granted>>

Full(b) == Capacity[b] * Period[b]

Idle == [pc |-> "idle", until |-> 0, deadline |-> 0, quiet |-> FALSE]

Init ==
  /\ now = 0 /\ steady = 0 /\ back = 0 /\ lost = 0
  /\ bucket = [b \in Buckets |-> [tokens |-> 0, at |-> 0, expires |-> 0]]
  /\ caller = [c \in Callers |-> Idle]
  /\ base = 0 /\ granted = [b \in Buckets |-> 0]

(* -- The script --------------------------------------------------------- *)

\* math.min(capacity, ...)
Capped(b, tokens) == IF tokens < Full(b) THEN tokens ELSE Full(b)

\* Redis drops a key at its time.
Stored(b) == now < bucket[b].expires

Elapsed(b) == IF now > bucket[b].at THEN now - bucket[b].at ELSE 0

\* The tokens of a bucket at this moment; a key that is gone counts as full.
Level(b) == IF Stored(b) THEN Capped(b, bucket[b].tokens + Elapsed(b) * Capacity[b]) ELSE Full(b)

\* math.ceil((1 - tokens) * window / capacity)
Retry(b) == (Period[b] - Level(b) + Capacity[b] - 1) \div Capacity[b]

Short(S) == {b \in S : Level(b) < Period[b]}

\* Mutant: every bucket that has a token gives it, whatever the others say.
TakesWhatIsThere(S) == S \ Short(S)

\* All of the buckets or none.
Takes(S) == IF Short(S) = {} THEN S ELSE {}

\* Mutant: the lifetime does not wait for the last tick of the refill.
LifetimeShort(b) == Period[b] - 1

\* PEXPIRE window + 1
Lifetime(b) == Period[b] + 1

Later(b) == IF now > bucket[b].at THEN now ELSE bucket[b].at

\* HSET and PEXPIRE for the buckets taken from.
Consume(S) ==
  /\ bucket' = [b \in Buckets |-> IF b \notin Takes(S) THEN bucket[b]
                ELSE [tokens |-> Level(b) - Period[b], at |-> IF Stored(b) THEN Later(b) ELSE now, expires |-> now + Lifetime(b)]]
  /\ granted' = [b \in Buckets |-> IF b \in Takes(S) THEN granted[b] + 1 ELSE granted[b]]

\* The wait the script answers with.
RetryAfter(S, r) == /\ \E b \in Short(S) : r = Retry(b)
                    /\ \A b \in Short(S) : Retry(b) <= r

(* -- acquire ------------------------------------------------------------ *)

\* Whoever waits is no longer alone once somebody takes a token.
Disturbed(S) == [c \in Callers |-> IF Takes(S) \cap Uses[c] = {} THEN caller[c] ELSE [caller[c] EXCEPT !.quiet = FALSE]]

Acquire(c) ==
  /\ caller[c].pc = "idle" /\ Uses[c] # {}
  /\ caller' = [caller EXCEPT ![c] = [Idle EXCEPT !.pc = "trying", !.deadline = steady + MaxWait]]
  /\ UNCHANGED <<now, steady, bucket, back, lost, base, granted>>

\* One turn: taken, or wait as long as the script says if there is time for it.
TryConsume(c) ==
  /\ caller[c].pc = "trying" /\ caller[c].deadline > steady
  /\ Consume(Uses[c])
  /\ \/ /\ Short(Uses[c]) = {}
        /\ caller' = [Disturbed(Uses[c]) EXCEPT ![c] = Idle]
     \/ \E r \in 1..MaxWait :
          /\ RetryAfter(Uses[c], r) /\ r < caller[c].deadline - steady
          /\ caller' = [caller EXCEPT ![c] = [@ EXCEPT !.pc = "waiting", !.until = steady + r, !.quiet = TRUE]]
     \/ \E b \in Short(Uses[c]) :
          Retry(b) >= caller[c].deadline - steady /\ caller' = [caller EXCEPT ![c] = Idle]
  /\ UNCHANGED <<now, steady, back, lost, base>>

\* The reply is lost: the tokens are gone, and the caller is refused.
LoseReply(c) ==
  /\ caller[c].pc = "trying" /\ caller[c].deadline > steady /\ lost < MaxLost /\ lost' = lost + 1
  /\ Consume(Uses[c])
  /\ caller' = [Disturbed(Uses[c]) EXCEPT ![c] = Idle]
  /\ UNCHANGED <<now, steady, back, base>>

Exhausted(c) ==
  /\ caller[c].pc = "trying" /\ caller[c].deadline <= steady
  /\ caller' = [caller EXCEPT ![c] = Idle]
  /\ UNCHANGED <<now, steady, bucket, back, lost, base, granted>>

\* The caller is stopped, or Redis is out of reach: nothing was consumed.
GiveUp(c) ==
  /\ caller[c].pc # "idle"
  /\ caller' = [caller EXCEPT ![c] = Idle]
  /\ UNCHANGED <<now, steady, bucket, back, lost, base, granted>>

Wake(c) ==
  /\ caller[c].pc = "waiting" /\ caller[c].until <= steady
  /\ caller' = [caller EXCEPT ![c].pc = "trying"]
  /\ UNCHANGED <<now, steady, bucket, back, lost, base, granted>>

(* -- Time --------------------------------------------------------------- *)

Tick ==
  /\ steady < MaxTime /\ steady' = steady + 1 /\ now' = now + 1
  /\ UNCHANGED <<bucket, caller, back, lost, base, granted>>

\* The wall clock of Redis is set back.
StepBack ==
  /\ back < MaxBack /\ back' = back + 1 /\ now > 0 /\ now' = now - 1
  /\ caller' = [c \in Callers |-> [caller[c] EXCEPT !.quiet = FALSE]]
  /\ UNCHANGED <<steady, bucket, lost, base, granted>>

\* The stretch under observation begins now.
Observe ==
  /\ base' = now /\ granted' = [b \in Buckets |-> 0] /\ granted # granted'
  /\ UNCHANGED <<now, steady, bucket, caller, back, lost>>

Next ==
  \/ \E c \in Callers : Acquire(c) \/ TryConsume(c) \/ LoseReply(c) \/ Exhausted(c) \/ GiveUp(c) \/ Wake(c)
  \/ Tick \/ StepBack \/ Observe

Spec == Init /\ [][Next]_vars

(* -- Properties --------------------------------------------------------- *)

TypeOK ==
  /\ now \in Nat /\ steady \in Nat /\ back \in Nat /\ lost \in Nat /\ base \in Nat
  /\ bucket \in [Buckets -> [tokens : Nat, at : Nat, expires : Nat]]
  /\ granted \in [Buckets -> Nat]
  /\ caller \in [Callers -> [pc : {"idle", "trying", "waiting"}, until : Nat, deadline : Nat, quiet : BOOLEAN]]

(* In any stretch of time a bucket gives no more than its capacity and     *)
(* what came back in that stretch, keys that expired and replies that were *)
(* lost included.                                                          *)
Budget == \A b \in Buckets : granted[b] * Period[b] <= Full(b) + (now - base) * Capacity[b]

(* "a denied account never consumes the global budget": a request that is  *)
(* refused leaves every bucket as it was, and one that is not takes from   *)
(* all of its buckets.                                                     *)
AllOrNone ==
  [][\A c \in Callers : (caller[c].pc = "trying" /\ caller'[c].pc # "trying") =>
       \/ \A b \in Uses[c] : granted'[b] = granted[b] + 1 /\ caller'[c].pc = "idle"
       \/ bucket' = bucket /\ granted' = granted]_vars

(* The wait the script answers with is long enough: a caller that nobody   *)
(* else took a token from finds one when it wakes.                         *)
WaitSuffices == \A c \in Callers : caller[c].quiet /\ caller[c].until <= steady => Short(Uses[c]) = {}

(* "Idle keys expire after a full refill."                                 *)
ExpiresFull == \A b \in Buckets : (bucket[b].expires > 0 /\ ~Stored(b)) =>
                 bucket[b].tokens + Elapsed(b) * Capacity[b] >= Full(b)
=============================================================================
