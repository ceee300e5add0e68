----------------------------- MODULE RedisProofs -----------------------------
(***************************************************************************)
(* Three components that live in Redis and above it.                       *)
(*                                                                         *)
(* The budget of RateLimit for every set of buckets, every capacity and    *)
(* every window, as long as the clock of Redis does not go back: the parts *)
(* a bucket has given since any moment, and those it still holds, are at   *)
(* most its capacity and what came back since.                             *)
(*                                                                         *)
(* The live views of SnapshotReads for every set of workers and            *)
(* connections and every number of changes and patches: what a flight, a   *)
(* result, a cached entry or a view may still lack is what the version of  *)
(* the shared read, the generation of the scope, the mailbox or the gate   *)
(* says it lacks.                                                          *)
(*                                                                         *)
(* The notifications of NotificationStream for every set of web workers,   *)
(* events and streams and every cap on a stream, a claim and a read: an    *)
(* event that went to Redis is on its way to every open subscription that  *)
(* does not know of it, because its fence outlives every second claim and  *)
(* the cursor of a reader and the count of what it saw agree.              *)
(***************************************************************************)
EXTENDS RateLimit, SnapshotReads, NotificationStream, TLAPS


\* What a stored bucket looks like: refilled by the time its key expires.
BucketInv ==
  \A b \in Buckets : /\ bucket[b].at <= now /\ bucket[b].tokens <= Full(b)
                     /\ bucket[b].expires = 0 \/ bucket[b].expires = bucket[b].at + Period[b] + 1

\* Given and still there.
LevelInv ==
  \A b \in Buckets : granted[b] * Period[b] + Level(b) <= Full(b) + (now - base) * Capacity[b]

Inv == TypeOK /\ back = 0 /\ base <= now /\ BucketInv /\ LevelInv

\* Products of naturals, which the counts of tokens are made of.
LEMMA NatTimes == \A x, y \in Nat : x * y \in Nat
  OBVIOUS

LEMMA NextTimes == \A x, y \in Nat : (x + 1) * y = x * y + y
  OBVIOUS

LEMMA TimesMonotone == \A x, y, z \in Nat : x <= y => x * z <= y * z
  OBVIOUS

\* The constants, bucket by bucket.
LEMMA Constants ==
  ASSUME NEW b \in Buckets
  PROVE  Capacity[b] \in Nat /\ Capacity[b] > 0 /\ Period[b] \in Nat /\ Period[b] > 0 /\ Full(b) \in Nat
  BY RateAssumption, NatTimes DEF Full

\* The parts of a bucket are a number between nothing and its capacity.
LEMMA LevelRange ==
  ASSUME TypeOK, BucketInv, NEW b \in Buckets
  PROVE  Level(b) \in Nat /\ Level(b) <= Full(b)
  <1>1. /\ bucket[b].tokens \in Nat /\ bucket[b].at \in Nat /\ now \in Nat
    BY DEF TypeOK
  <1>2. Elapsed(b) \in Nat
    BY <1>1 DEF Elapsed
  <1>3. Elapsed(b) * Capacity[b] \in Nat
    BY <1>2, Constants, NatTimes
  <1> QED BY <1>1, <1>3, Constants DEF Level, Capped

\* Nothing taken yet: every bucket is full.
LEMMA InitInv == MaxBack = 0 /\ Init => Inv
  <1> SUFFICES ASSUME Init PROVE Inv
    OBVIOUS
  <1>1. TypeOK
    BY DEF Init, TypeOK, Idle
  <1>2. BucketInv
    <2> SUFFICES ASSUME NEW b \in Buckets
                 PROVE /\ bucket[b].at <= now /\ bucket[b].tokens <= Full(b)
                       /\ bucket[b].expires = 0
      BY DEF BucketInv
    <2>1. bucket[b] = [tokens |-> 0, at |-> 0, expires |-> 0] /\ now = 0
      BY DEF Init
    <2>2. bucket[b].at = 0 /\ bucket[b].tokens = 0 /\ bucket[b].expires = 0
      BY <2>1
    <2>3. Full(b) \in Nat
      BY Constants
    <2> QED BY <2>1, <2>2, <2>3
  <1>3. ASSUME NEW b \in Buckets
        PROVE granted[b] * Period[b] + Level(b) <= Full(b) + (now - base) * Capacity[b]
    <2>1. granted[b] = 0 /\ now = 0 /\ base = 0 /\ Level(b) <= Full(b) /\ Level(b) \in Nat
      BY <1>1, <1>2, LevelRange DEF Init
    <2> QED BY <2>1, Constants
  <1> QED BY <1>1, <1>2, <1>3 DEF Inv, LevelInv, Init

\* One consumption: what is given is what the buckets lose.
LEMMA ConsumeInv ==
  ASSUME Inv, NEW S \in SUBSET Buckets, Consume(S), now' = now, base' = base
  PROVE  /\ bucket' \in [Buckets -> [tokens : Nat, at : Nat, expires : Nat]]
         /\ granted' \in [Buckets -> Nat] /\ BucketInv' /\ LevelInv'
  <1> USE DEF Inv
  <1>1. ASSUME NEW b \in Takes(S) PROVE b \in Buckets /\ Level(b) >= Period[b]
    BY <1>1, LevelRange, Constants DEF Takes, Short
  <1>2. ASSUME NEW b \in Buckets, b \notin Takes(S)
        PROVE bucket'[b] = bucket[b] /\ granted'[b] = granted[b]
    BY <1>2 DEF Consume
  <1>3. ASSUME NEW b \in Buckets, b \in Takes(S)
        PROVE /\ bucket'[b] = [tokens |-> Level(b) - Period[b], at |-> now, expires |-> now + Period[b] + 1]
              /\ granted'[b] = granted[b] + 1
    <2>1. bucket[b].at <= now /\ bucket[b].at \in Nat /\ now \in Nat
      BY DEF BucketInv, TypeOK
    <2>2. Later(b) = now
      BY <2>1 DEF Later
    <2>3. now + Lifetime(b) = now + Period[b] + 1
      BY <2>1, Constants DEF Lifetime
    <2> QED BY <1>3, <2>2, <2>3 DEF Consume
  <1>3f. ASSUME NEW b \in Buckets, b \in Takes(S)
         PROVE /\ bucket'[b].tokens = Level(b) - Period[b]
               /\ bucket'[b].at = now /\ bucket'[b].expires = now + Period[b] + 1
    <2>1. bucket'[b] = [tokens |-> Level(b) - Period[b], at |-> now, expires |-> now + Period[b] + 1]
      BY <1>3, <1>3f
    <2> QED BY <2>1
  <1>4. ASSUME NEW b \in Buckets PROVE bucket'[b] \in [tokens : Nat, at : Nat, expires : Nat] /\ granted'[b] \in Nat
    <2>1. CASE b \notin Takes(S)
      BY <2>1, <1>2 DEF TypeOK
    <2>2. CASE b \in Takes(S)
      <3>1. Level(b) - Period[b] \in Nat /\ now \in Nat /\ now + Period[b] + 1 \in Nat /\ granted[b] \in Nat
        BY <2>2, <1>1, LevelRange, Constants DEF TypeOK
      <3>2. [tokens |-> Level(b) - Period[b], at |-> now, expires |-> now + Period[b] + 1]
              \in [tokens : Nat, at : Nat, expires : Nat]
        BY <3>1
      <3>3. granted[b] + 1 \in Nat
        BY <3>1
      <3> QED BY <2>2, <1>3, <3>2, <3>3
    <2> QED BY <2>1, <2>2
  <1>5. bucket' \in [Buckets -> [tokens : Nat, at : Nat, expires : Nat]] /\ granted' \in [Buckets -> Nat]
    BY <1>4 DEF Consume
  <1>6. BucketInv'
    <2> SUFFICES ASSUME NEW b \in Buckets
                 PROVE /\ bucket'[b].at <= now /\ bucket'[b].tokens <= Full(b)
                       /\ bucket'[b].expires = 0 \/ bucket'[b].expires = bucket'[b].at + Period[b] + 1
      BY DEF BucketInv, Full
    <2>1. CASE b \notin Takes(S)
      BY <2>1, <1>2 DEF BucketInv
    <2>2. CASE b \in Takes(S)
      <3>1. Level(b) - Period[b] <= Full(b) /\ now <= now
        BY LevelRange, Constants DEF TypeOK
      <3> QED BY <2>2, <1>3f, <3>1
    <2> QED BY <2>1, <2>2
  <1>7. LevelInv'
    <2> SUFFICES ASSUME NEW b \in Buckets
                 PROVE granted'[b] * Period[b] + Level(b)' <= Full(b) + (now - base) * Capacity[b]
      BY DEF LevelInv, Full
    <2>0. granted[b] * Period[b] + Level(b) <= Full(b) + (now - base) * Capacity[b]
      BY DEF LevelInv
    <2>1. CASE b \notin Takes(S)
      <3>1. Level(b)' = Level(b)
        BY <2>1, <1>2 DEF Level, Stored, Capped, Elapsed, Full
      <3> QED BY <2>0, <2>1, <1>2, <3>1
    <2>2. CASE b \in Takes(S)
      <3>1. Level(b) \in Nat /\ Level(b) <= Full(b) /\ Level(b) >= Period[b] /\ now \in Nat /\ granted[b] \in Nat
        BY <2>2, <1>1, LevelRange DEF TypeOK
      <3>2. Stored(b)' /\ Elapsed(b)' = 0
        BY <2>2, <1>3f, <3>1, Constants DEF Stored, Elapsed
      <3>3. Level(b)' = Level(b) - Period[b]
        <4>1. bucket'[b].tokens + 0 * Capacity[b] = Level(b) - Period[b]
          BY <2>2, <1>3f, <3>1, Constants
        <4>2. Level(b) - Period[b] < Full(b)
          BY <3>1, Constants
        <4> QED BY <3>2, <4>1, <4>2 DEF Level, Capped, Full
      <3>4. granted'[b] * Period[b] = granted[b] * Period[b] + Period[b]
        BY <2>2, <1>3, <3>1, NextTimes, Constants
      <3>5. granted[b] * Period[b] \in Nat /\ (now - base) * Capacity[b] \in Nat
        <4>1. now - base \in Nat
          BY DEF TypeOK
        <4> QED BY <3>1, <4>1, NatTimes, Constants
      <3> QED BY <2>0, <3>1, <3>3, <3>4, <3>5, Constants
    <2> QED BY <2>1, <2>2
  <1> QED BY <1>5, <1>6, <1>7

\* A tick brings back at most the capacity's parts, whether the key is there or goes.
LEMMA TickInv == Inv /\ Tick => BucketInv' /\ LevelInv'
  <1> SUFFICES ASSUME Inv, Tick PROVE BucketInv' /\ LevelInv'
    OBVIOUS
  <1> USE DEF Inv
  <1>0. now \in Nat /\ now' = now + 1 /\ bucket' = bucket /\ granted' = granted /\ base' = base /\ base \in Nat
    BY DEF Tick, TypeOK
  <1>1. BucketInv'
    BY <1>0, Constants DEF BucketInv, TypeOK, Full
  <1>2. ASSUME NEW b \in Buckets
        PROVE granted[b] * Period[b] + Level(b)' <= Full(b) + (now + 1 - base) * Capacity[b]
    <2>1. granted[b] * Period[b] + Level(b) <= Full(b) + (now - base) * Capacity[b]
      BY DEF LevelInv
    <2>2. (now + 1 - base) * Capacity[b] = (now - base) * Capacity[b] + Capacity[b]
      <3>1. now - base \in Nat /\ now + 1 - base = (now - base) + 1
        BY <1>0
      <3> QED BY <3>1, NextTimes, Constants
    <2>3. Level(b)' <= Level(b) + Capacity[b]
      <3>0. /\ bucket[b].at \in Nat /\ bucket[b].tokens \in Nat /\ bucket[b].expires \in Nat
            /\ bucket[b].at <= now /\ bucket[b].tokens <= Full(b)
            /\ bucket[b].expires = 0 \/ bucket[b].expires = bucket[b].at + Period[b] + 1
        BY DEF TypeOK, BucketInv
      <3>1. Elapsed(b) = now - bucket[b].at /\ Elapsed(b)' = Elapsed(b) + 1 /\ Elapsed(b) \in Nat
        BY <1>0, <3>0 DEF Elapsed
      <3>2. /\ Elapsed(b) * Capacity[b] \in Nat
            /\ (Elapsed(b) + 1) * Capacity[b] = Elapsed(b) * Capacity[b] + Capacity[b]
        BY <3>1, NatTimes, NextTimes, Constants
      <3>3. CASE Stored(b)'
        <4>1. Stored(b)
          BY <3>3, <1>0, <3>0 DEF Stored
        <4>2. Level(b) = Capped(b, bucket[b].tokens + Elapsed(b) * Capacity[b])
          BY <4>1 DEF Level
        <4>3. Level(b)' = Capped(b, bucket[b].tokens + (Elapsed(b) + 1) * Capacity[b])
          BY <3>3, <3>1, <1>0 DEF Level, Capped, Full
        <4> QED BY <4>2, <4>3, <3>0, <3>2, Constants DEF Capped
      <3>4. CASE ~Stored(b)'
        <4>1. Level(b)' = Full(b)
          BY <3>4 DEF Level, Full
        <4>2. CASE ~Stored(b)
          BY <4>1, <4>2, Constants DEF Level
        <4>3. CASE Stored(b)
          <5>1. Elapsed(b) = Period[b]
            BY <4>3, <3>4, <3>0, <3>1, <1>0, Constants DEF Stored
          <5>2. Elapsed(b) * Capacity[b] = Full(b)
            BY <5>1, Constants DEF Full
          <5>3. Level(b) = Full(b)
            BY <4>3, <5>2, <3>0, Constants DEF Level, Capped
          <5> QED BY <4>1, <5>3, Constants
        <4> QED BY <4>2, <4>3
      <3> QED BY <3>3, <3>4
    <2>4. Level(b) \in Nat /\ Level(b)' \in Nat
      <3>2. bucket[b].at \in Nat /\ bucket[b].tokens \in Nat
        BY DEF TypeOK
      <3>3. Elapsed(b)' \in Nat
        BY <3>2, <1>0 DEF Elapsed
      <3>4. Elapsed(b)' * Capacity[b] \in Nat
        BY <3>3, NatTimes, Constants
      <3>5. Level(b)' \in Nat
        BY <1>0, <3>2, <3>4, Constants DEF Level, Capped, Full
      <3> QED BY <3>5, LevelRange
    <2>5. granted[b] * Period[b] \in Nat /\ (now - base) * Capacity[b] \in Nat
      <3>1. granted[b] \in Nat /\ now - base \in Nat
        BY <1>0 DEF TypeOK
      <3> QED BY <3>1, NatTimes, Constants
    <2> QED BY <2>1, <2>2, <2>3, <2>4, <2>5, Constants
  <1>3. LevelInv'
    BY <1>0, <1>2 DEF LevelInv, Full
  <1> QED BY <1>1, <1>3

\* A new stretch: nothing given yet.
LEMMA ObserveInv == Inv /\ Observe => LevelInv'
  <1> SUFFICES ASSUME Inv, Observe, NEW b \in Buckets
               PROVE granted'[b] * Period[b] + Level(b)' <= Full(b) + (now' - base') * Capacity[b]
    BY DEF LevelInv, Full
  <1>1. Level(b)' = Level(b)
    BY DEF Observe, Level, Stored, Capped, Elapsed, Full
  <1>2. Level(b) \in Nat /\ Level(b) <= Full(b) /\ now \in Nat
    BY LevelRange DEF Inv, TypeOK
  <1>3. granted'[b] = 0 /\ now' - base' = 0
    BY <1>2 DEF Observe
  <1> QED BY <1>1, <1>2, <1>3, Constants

\* The callers' records.
CallerType == [pc : {"idle", "trying", "waiting"}, until : Nat, deadline : Nat, quiet : BOOLEAN]

\* A caller that asks for nothing.
LEMMA IdleType == Idle \in CallerType
  BY DEF Idle, CallerType

\* Whoever waits keeps a record of its type.
LEMMA DisturbedType ==
  ASSUME TypeOK, NEW S PROVE Disturbed(S) \in [Callers -> CallerType]
  <1> SUFFICES ASSUME NEW c \in Callers PROVE [caller[c] EXCEPT !.quiet = FALSE] \in CallerType
    BY DEF Disturbed, TypeOK, CallerType
  <1> QED BY DEF TypeOK, CallerType

\* Steps that leave the buckets and the clock alone.
LEMMA SameLevel ==
  ASSUME Inv, UNCHANGED <<now, bucket, back, base, granted>>, TypeOK'
  PROVE  Inv'
  BY DEF Inv, BucketInv, LevelInv, Level, Stored, Capped, Elapsed, Full

\* Every step keeps the invariant while the clock does not go back.
LEMMA NextInv ==
  ASSUME MaxBack = 0, Inv, [Next]_vars
  PROVE  Inv'
  <1>0. TypeOK /\ steady \in Nat /\ MaxWait \in Nat /\ caller \in [Callers -> CallerType]
    BY RateAssumption DEF Inv, TypeOK, CallerType
  <1>1. ASSUME NEW c \in Callers, Acquire(c) PROVE Inv'
    <2>0. steady + MaxWait \in Nat
      BY <1>0
    <2>1. [Idle EXCEPT !.pc = "trying", !.deadline = steady + MaxWait] \in CallerType
      BY <2>0, IdleType DEF CallerType
    <2>2. TypeOK'
      BY <1>0, <1>1, <2>1 DEF Acquire, TypeOK, CallerType
    <2> QED BY <1>1, <2>2, SameLevel DEF Acquire
  <1>2. ASSUME NEW c \in Callers, Consume(Uses[c]), UNCHANGED <<now, steady, back, base>>,
               lost' \in Nat, caller' \in [Callers -> CallerType]
        PROVE Inv'
    <2>1. Uses[c] \in SUBSET Buckets
      BY RateAssumption
    <2>2. /\ bucket' \in [Buckets -> [tokens : Nat, at : Nat, expires : Nat]]
          /\ granted' \in [Buckets -> Nat] /\ BucketInv' /\ LevelInv'
      BY <1>2, <2>1, ConsumeInv
    <2>3. TypeOK'
      BY <1>0, <1>2, <2>2 DEF TypeOK, CallerType
    <2> QED BY <1>2, <2>2, <2>3 DEF Inv
  <1>3. ASSUME NEW c \in Callers, TryConsume(c) PROVE Inv'
    <2>1. CASE caller' = [Disturbed(Uses[c]) EXCEPT ![c] = Idle]
      <3>1. caller' \in [Callers -> CallerType]
        BY <1>0, <2>1, IdleType, DisturbedType
      <3> QED BY <1>0, <1>2, <1>3, <3>1 DEF TryConsume, TypeOK
    <2>2. CASE \E r \in 1..MaxWait :
                 caller' = [caller EXCEPT ![c] = [@ EXCEPT !.pc = "waiting", !.until = steady + r, !.quiet = TRUE]]
      <3>1. PICK r \in 1..MaxWait :
              caller' = [caller EXCEPT ![c] = [@ EXCEPT !.pc = "waiting", !.until = steady + r, !.quiet = TRUE]]
        BY <2>2
      <3>2. steady + r \in Nat
        BY <1>0
      <3>3. [caller[c] EXCEPT !.pc = "waiting", !.until = steady + r, !.quiet = TRUE] \in CallerType
        BY <1>0, <3>2 DEF CallerType
      <3>4. caller' \in [Callers -> CallerType]
        BY <1>0, <3>1, <3>3
      <3> QED BY <1>0, <1>2, <1>3, <3>4 DEF TryConsume, TypeOK
    <2>3. CASE caller' = [caller EXCEPT ![c] = Idle]
      <3>1. caller' \in [Callers -> CallerType]
        BY <1>0, <2>3, IdleType
      <3> QED BY <1>0, <1>2, <1>3, <3>1 DEF TryConsume, TypeOK
    <2> QED BY <1>3, <2>1, <2>2, <2>3 DEF TryConsume
  <1>4. ASSUME NEW c \in Callers, LoseReply(c) PROVE Inv'
    <2>1. caller' \in [Callers -> CallerType]
      BY <1>0, <1>4, IdleType, DisturbedType DEF LoseReply
    <2>2. lost' \in Nat
      BY <1>0, <1>4 DEF LoseReply, TypeOK
    <2> QED BY <1>2, <1>4, <2>1, <2>2 DEF LoseReply
  <1>5. ASSUME NEW c \in Callers, Exhausted(c) \/ GiveUp(c) PROVE Inv'
    <2>1. TypeOK'
      BY <1>0, <1>5, IdleType DEF Exhausted, GiveUp, TypeOK, CallerType
    <2> QED BY <1>5, <2>1, SameLevel DEF Exhausted, GiveUp
  <1>6. ASSUME NEW c \in Callers, Wake(c) PROVE Inv'
    <2>1. [caller[c] EXCEPT !.pc = "trying"] \in CallerType
      BY <1>0 DEF CallerType
    <2>2. TypeOK'
      BY <1>0, <1>6, <2>1 DEF Wake, TypeOK, CallerType
    <2> QED BY <1>6, <2>2, SameLevel DEF Wake
  <1>7. CASE Tick
    <2>1. TypeOK' /\ back' = 0 /\ base' <= now'
      BY <1>7 DEF Tick, TypeOK, Inv
    <2> QED BY <1>7, <2>1, TickInv DEF Inv
  <1>8. CASE StepBack
    BY <1>8 DEF StepBack, Inv
  <1>9. CASE Observe
    <2>1. TypeOK' /\ back' = 0 /\ base' <= now' /\ BucketInv'
      BY <1>9 DEF Observe, TypeOK, Inv, BucketInv, Full
    <2> QED BY <1>9, <2>1, ObserveInv DEF Inv
  <1>10. CASE UNCHANGED vars
    <2>1. TypeOK'
      BY <1>0, <1>10 DEF TypeOK, vars
    <2> QED BY <1>10, <2>1, SameLevel DEF vars
  <1> QED BY <1>1, <1>3, <1>4, <1>5, <1>6, <1>7, <1>8, <1>9, <1>10 DEF Next

\* The budget follows from what is taken and left together.
LEMMA InvBudget == Inv => Budget
  <1> SUFFICES ASSUME Inv, NEW b \in Buckets
               PROVE granted[b] * Period[b] <= Full(b) + (now - base) * Capacity[b]
    BY DEF Budget
  <1>1. granted[b] * Period[b] + Level(b) <= Full(b) + (now - base) * Capacity[b]
    BY DEF Inv, LevelInv
  <1>2. Level(b) \in Nat /\ granted[b] * Period[b] \in Nat
    BY LevelRange, NatTimes, Constants DEF Inv, TypeOK
  <1>3. Full(b) \in Nat /\ (now - base) * Capacity[b] \in Nat
    <2>1. now - base \in Nat
      BY DEF Inv, TypeOK
    <2> QED BY <2>1, NatTimes, Constants
  <1> QED BY <1>1, <1>2, <1>3

\* Every key fills up before it expires, so a key that is gone held nothing back.
LEMMA InvExpires == Inv => ExpiresFull
  <1> SUFFICES ASSUME Inv, NEW b \in Buckets, bucket[b].expires > 0, ~Stored(b)
               PROVE bucket[b].tokens + Elapsed(b) * Capacity[b] >= Full(b)
    BY DEF ExpiresFull
  <1>1. /\ bucket[b].at \in Nat /\ bucket[b].tokens \in Nat /\ bucket[b].expires \in Nat /\ now \in Nat
        /\ bucket[b].expires = bucket[b].at + Period[b] + 1
    BY DEF Inv, BucketInv, TypeOK
  <1>2. Elapsed(b) \in Nat /\ Period[b] <= Elapsed(b)
    BY <1>1, Constants DEF Stored, Elapsed
  <1>3. Period[b] * Capacity[b] <= Elapsed(b) * Capacity[b]
    BY <1>2, TimesMonotone, Constants
  <1>4. Full(b) = Period[b] * Capacity[b] /\ Full(b) \in Nat /\ Elapsed(b) * Capacity[b] \in Nat
    BY <1>2, NatTimes, Constants DEF Full
  <1> QED BY <1>1, <1>3, <1>4

(* While the clock of Redis does not go back, the buckets, the callers and *)
(* the clocks keep their types: no bucket is ever overdrawn.               *)
THEOREM RateTypes == MaxBack = 0 => (Spec => []TypeOK)
  <1> SUFFICES ASSUME MaxBack = 0 PROVE Spec => []TypeOK
    OBVIOUS
  <1>1. Init => Inv
    BY InitInv
  <1>2. Inv /\ [Next]_vars => Inv'
    BY NextInv
  <1>3. Inv => TypeOK
    BY DEF Inv
  <1> QED BY <1>1, <1>2, <1>3, PTL DEF Spec

(* While the clock of Redis does not go back, no stretch of time sees more *)
(* taken from a bucket than its capacity and what came back meanwhile,     *)
(* whatever the capacities and windows, however many callers there are and *)
(* whichever replies are lost.                                             *)
THEOREM BudgetHolds == MaxBack = 0 => (Spec => []Budget)
  <1> SUFFICES ASSUME MaxBack = 0 PROVE Spec => []Budget
    OBVIOUS
  <1>1. Init => Inv
    BY InitInv
  <1>2. Inv /\ [Next]_vars => Inv'
    BY NextInv
  <1>3. Inv => Budget
    BY InvBudget
  <1> QED BY <1>1, <1>2, <1>3, PTL DEF Spec

(* "Idle keys expire after a full refill" holds whenever the clock of      *)
(* Redis does not go back.                                                 *)
THEOREM KeysExpireFull == MaxBack = 0 => (Spec => []ExpiresFull)
  <1> SUFFICES ASSUME MaxBack = 0 PROVE Spec => []ExpiresFull
    OBVIOUS
  <1>1. Init => Inv
    BY InitInv
  <1>2. Inv /\ [Next]_vars => Inv'
    BY NextInv
  <1>3. Inv => ExpiresFull
    BY InvExpires
  <1> QED BY <1>1, <1>2, <1>3, PTL DEF Spec

(* -- All of the buckets or none ------------------------------------------ *)

\* What a step back of the clock of Redis leaves true, too.
Shapes ==
  /\ caller \in [Callers -> CallerType] /\ steady \in Nat
  /\ bucket = [b \in Buckets |-> bucket[b]] /\ granted = [b \in Buckets |-> granted[b]]

\* Losing its quiet changes nothing else of a caller.
LEMMA QuietType ==
  ASSUME Shapes, NEW c \in Callers
  PROVE  /\ [caller[c] EXCEPT !.quiet = FALSE] \in CallerType
         /\ [caller[c] EXCEPT !.quiet = FALSE].pc = caller[c].pc
  BY DEF Shapes, CallerType

\* Nor does a consumption by somebody else.
LEMMA DisturbedKeeps ==
  ASSUME Shapes, NEW S
  PROVE  /\ Disturbed(S) \in [Callers -> CallerType]
         /\ \A c \in Callers : Disturbed(S)[c].pc = caller[c].pc
  <1>1. \A c \in Callers : caller[c] \in CallerType
    BY DEF Shapes
  <1>2. \A c \in Callers : /\ Disturbed(S)[c] \in CallerType
                           /\ Disturbed(S)[c].pc = caller[c].pc
    BY <1>1, QuietType DEF Disturbed
  <1> QED BY <1>2 DEF Disturbed

\* The script writes every bucket's record.
LEMMA ConsumeShapes ==
  ASSUME NEW S, Consume(S)
  PROVE  bucket' = [b \in Buckets |-> bucket'[b]] /\ granted' = [b \in Buckets |-> granted'[b]]
  BY DEF Consume

\* Nothing is taken when a bucket is short, one token each otherwise.
LEMMA ConsumeAll ==
  ASSUME NEW S \in SUBSET Buckets, Consume(S), Short(S) = {}
  PROVE  \A b \in S : granted'[b] = granted[b] + 1
  BY DEF Consume, Takes

\* A short bucket keeps the others as they are.
LEMMA ConsumeNone ==
  ASSUME Shapes, NEW S, Consume(S), Short(S) # {}
  PROVE  bucket' = bucket /\ granted' = granted
  <1>1. Takes(S) = {}
    BY DEF Takes
  <1> QED BY <1>1 DEF Consume, Shapes

\* The state of one caller after a step of its own.
Answered(c) == \/ (\A b \in Uses[c] : granted'[b] = granted[b] + 1) /\ caller'[c].pc = "idle"
               \/ bucket' = bucket /\ granted' = granted

\* A step of c: its shapes, what the others see, and what it took.
StepOf(c) == /\ Shapes' /\ \A d \in Callers \ {c} : caller'[d].pc = caller[d].pc
             /\ caller[c].pc = "trying" => Answered(c)

\* A turn of c that asks the buckets.
LEMMA TurnShapes ==
  ASSUME Shapes, NEW c \in Callers, TryConsume(c) \/ LoseReply(c)
  PROVE  StepOf(c)
  <1>0. Uses[c] \in SUBSET Buckets /\ MaxWait \in Nat /\ caller[c] \in CallerType /\ Consume(Uses[c])
    BY RateAssumption DEF Shapes, TryConsume, LoseReply
  <1>1. steady' \in Nat /\ bucket' = [b \in Buckets |-> bucket'[b]] /\ granted' = [b \in Buckets |-> granted'[b]]
    <2>1. steady' = steady
      BY DEF TryConsume, LoseReply
    <2> QED BY <1>0, <2>1, ConsumeShapes DEF Shapes
  <1>2. CASE caller' = [Disturbed(Uses[c]) EXCEPT ![c] = Idle]
    <2>1. /\ Disturbed(Uses[c]) \in [Callers -> CallerType]
          /\ \A d \in Callers : Disturbed(Uses[c])[d].pc = caller[d].pc
      BY DisturbedKeeps
    <2>2. /\ caller' \in [Callers -> CallerType] /\ caller'[c].pc = "idle"
          /\ \A d \in Callers \ {c} : caller'[d].pc = caller[d].pc
      BY <1>2, <2>1, IdleType DEF Idle
    <2>3. Answered(c)
      BY <1>0, <2>2, ConsumeAll, ConsumeNone DEF Answered
    <2> QED BY <1>1, <2>2, <2>3 DEF Shapes, StepOf
  <1>3. ASSUME NEW r \in 1..MaxWait, RetryAfter(Uses[c], r),
               caller' = [caller EXCEPT ![c] = [@ EXCEPT !.pc = "waiting", !.until = steady + r, !.quiet = TRUE]]
        PROVE StepOf(c)
    <2>1. steady + r \in Nat
      BY <1>0 DEF Shapes
    <2>2. [caller[c] EXCEPT !.pc = "waiting", !.until = steady + r, !.quiet = TRUE] \in CallerType
      BY <1>0, <2>1 DEF CallerType
    <2>3. /\ caller' \in [Callers -> CallerType]
          /\ \A d \in Callers \ {c} : caller'[d].pc = caller[d].pc
      BY <1>3, <2>2 DEF Shapes
    <2>4. Short(Uses[c]) # {}
      BY <1>3 DEF RetryAfter
    <2>5. Answered(c)
      BY <1>0, <2>4, ConsumeNone DEF Answered
    <2> QED BY <1>1, <2>3, <2>5 DEF Shapes, StepOf
  <1>4. CASE Short(Uses[c]) # {} /\ caller' = [caller EXCEPT ![c] = Idle]
    <2>1. /\ caller' \in [Callers -> CallerType]
          /\ \A d \in Callers \ {c} : caller'[d].pc = caller[d].pc
      BY <1>4, IdleType DEF Shapes
    <2>2. Answered(c)
      BY <1>0, <1>4, ConsumeNone DEF Answered
    <2> QED BY <1>1, <2>1, <2>2 DEF Shapes, StepOf
  <1> QED BY <1>2, <1>3, <1>4 DEF TryConsume, LoseReply

\* A step of c that asks no bucket.
LEMMA OtherShapes ==
  ASSUME Shapes, NEW c \in Callers, Acquire(c) \/ Exhausted(c) \/ GiveUp(c) \/ Wake(c)
  PROVE  StepOf(c)
  <1>0. MaxWait \in Nat /\ caller[c] \in CallerType
    BY RateAssumption DEF Shapes
  <1>1. UNCHANGED <<steady, bucket, granted>>
    BY DEF Acquire, Exhausted, GiveUp, Wake
  <1>2. PICK k \in CallerType : caller' = [caller EXCEPT ![c] = k]
    <2>1. CASE Acquire(c)
      <3>1. steady + MaxWait \in Nat
        BY <1>0 DEF Shapes
      <3>2. [Idle EXCEPT !.pc = "trying", !.deadline = steady + MaxWait] \in CallerType
        BY <3>1, IdleType DEF CallerType
      <3> QED BY <2>1, <3>2 DEF Acquire
    <2>2. CASE Exhausted(c) \/ GiveUp(c)
      BY <2>2, IdleType DEF Exhausted, GiveUp
    <2>3. CASE Wake(c)
      <3>1. [caller[c] EXCEPT !.pc = "trying"] \in CallerType
        BY <1>0 DEF CallerType
      <3> QED BY <2>3, <3>1 DEF Wake
    <2> QED BY <2>1, <2>2, <2>3
  <1>3. /\ caller' \in [Callers -> CallerType]
        /\ \A d \in Callers \ {c} : caller'[d].pc = caller[d].pc
    BY <1>2 DEF Shapes
  <1> QED BY <1>1, <1>3 DEF Shapes, StepOf, Answered

\* Every step, with what a caller's turn that ends has taken.
LEMMA ShapesStep ==
  ASSUME Shapes, [Next]_vars
  PROVE  Shapes' /\ \A c \in Callers : (caller[c].pc = "trying" /\ caller'[c].pc # "trying") => Answered(c)
  <1>1. ASSUME NEW d \in Callers, StepOf(d)
        PROVE Shapes' /\ \A c \in Callers : (caller[c].pc = "trying" /\ caller'[c].pc # "trying") => Answered(c)
    BY <1>1 DEF StepOf
  <1>2. CASE Tick \/ Observe \/ UNCHANGED vars
    <2>1. caller' = caller /\ bucket' = bucket /\ steady' \in Nat
      BY <1>2 DEF Tick, Observe, vars, Shapes
    <2>2. granted' = [b \in Buckets |-> granted'[b]]
      BY <1>2 DEF Tick, Observe, vars, Shapes
    <2> QED BY <2>1, <2>2 DEF Shapes
  <1>3. CASE StepBack
    <2>1. UNCHANGED <<bucket, granted, steady>>
      BY <1>3 DEF StepBack
    <2>2. caller' = [c \in Callers |-> [caller[c] EXCEPT !.quiet = FALSE]]
      BY <1>3 DEF StepBack
    <2>3. caller' \in [Callers -> CallerType]
      BY <2>2, QuietType
    <2> QED BY <2>1, <2>3 DEF Shapes, Answered
  <1> QED BY <1>1, <1>2, <1>3, TurnShapes, OtherShapes DEF Next

(* "a denied account never consumes the global budget": a caller's turn    *)
(* takes a token of each of its buckets or changes none, whatever the      *)
(* number of buckets and of callers, also when a reply is lost or the      *)
(* clock of Redis goes back.                                               *)
THEOREM AllBucketsOrNone == Spec => AllOrNone
  <1>1. Init => Shapes
    BY IdleType DEF Init, Shapes
  <1>2. Shapes /\ [Next]_vars => Shapes'
    BY ShapesStep
  <1>3. Shapes /\ [Next]_vars =>
          [\A c \in Callers : (caller[c].pc = "trying" /\ caller'[c].pc # "trying") =>
             \/ \A b \in Uses[c] : granted'[b] = granted[b] + 1 /\ caller'[c].pc = "idle"
             \/ bucket' = bucket /\ granted' = granted]_vars
    <2> SUFFICES ASSUME Shapes, [Next]_vars, NEW c \in Callers, caller[c].pc = "trying", caller'[c].pc # "trying"
                 PROVE \/ \A b \in Uses[c] : granted'[b] = granted[b] + 1 /\ caller'[c].pc = "idle"
                       \/ bucket' = bucket /\ granted' = granted
      OBVIOUS
    <2>1. Answered(c)
      BY ShapesStep
    <2> QED BY <2>1 DEF Answered
  <1> QED BY <1>1, <1>2, <1>3, PTL DEF Spec, AllOrNone

(* -- The wait the script answers with ------------------------------------ *)

\* How long a caller still sleeps.
Left(c) == IF caller[c].until > steady THEN caller[c].until - steady ELSE 0

\* By the time a caller that is still alone wakes, each of its buckets has
\* what it lacks.
WaitInv ==
  \A c \in Callers : caller[c].quiet =>
    \A b \in Uses[c] : Level(b) + Left(c) * Capacity[b] >= Period[b]

\* Rounding up: so many ticks bring back at least what is missing.
LEMMA RoundedUp ==
  ASSUME NEW m \in Int, NEW k \in Nat, k > 0
  PROVE  /\ (m + k - 1) \div k \in Int
         /\ ((m + k - 1) \div k) * k >= m
  <1> DEFINE x == m + k - 1
             q == x \div k
             r == x % k
  <1>1. x \in Int /\ q \in Int /\ r \in 0..(k - 1) /\ x = k * q + r
    OBVIOUS
  <1>2. k * q >= m
    BY <1>1
  <1>3. k * q = q * k
    BY <1>1
  <1> QED BY <1>1, <1>2, <1>3

\* A bucket that is full has a token.
LEMMA FullHasToken == \A b \in Buckets : Full(b) >= Period[b]
  <1> SUFFICES ASSUME NEW b \in Buckets PROVE Full(b) >= Period[b]
    OBVIOUS
  <1>1. 1 * Period[b] <= Capacity[b] * Period[b]
    BY Constants, TimesMonotone
  <1> QED BY <1>1, Constants DEF Full

\* The wait of one bucket is enough for that bucket, a longer one is, too.
LEMMA RetryIsEnough ==
  ASSUME Inv, NEW b \in Buckets, NEW r \in Nat, Retry(b) <= r
  PROVE  Level(b) + r * Capacity[b] >= Period[b]
  <1>1. Level(b) \in Nat /\ Capacity[b] \in Nat /\ Capacity[b] > 0 /\ Period[b] \in Nat
    BY LevelRange, Constants DEF Inv
  <1> DEFINE m == Period[b] - Level(b)
             k == Capacity[b]
             q == (m + k - 1) \div k
  <1>2. m \in Int /\ k \in Nat /\ k > 0
    BY <1>1
  <1>3. q \in Int /\ q * k >= m
    <2> HIDE DEF m, k
    <2> QED BY <1>2, RoundedUp
  <1>4. q = Retry(b)
    BY <1>1 DEF Retry
  <1>5. q * k <= r * k
    <2>1. CASE q \in Nat
      BY <2>1, <1>2, <1>4, TimesMonotone
    <2>2. CASE q < 0
      <3>1. (0 - q) \in Nat
        BY <2>2, <1>3
      <3>2. (0 - q) * k \in Nat /\ r * k \in Nat
        BY <3>1, <1>2, NatTimes
      <3>3. q * k = 0 - (0 - q) * k
        BY <1>2, <1>3
      <3>4. q * k <= 0
        BY <3>2, <3>3, <1>2, <1>3
      <3> QED BY <3>2, <3>4, <1>2, <1>3
    <2> QED BY <2>1, <2>2, <1>3
  <1>6. q * k \in Int /\ r * k \in Int
    BY <1>2, <1>3
  <1>7. r * k >= m
    BY <1>3, <1>5, <1>6, <1>2
  <1> QED BY <1>1, <1>6, <1>7

\* A caller left alone sleeps as long as before.
LEMMA SameLeft ==
  ASSUME NEW c \in Callers, caller'[c] = caller[c], steady' = steady
  PROVE  Left(c)' = Left(c)
  BY DEF Left

\* Nobody waits at the start.
LEMMA InitWait == Init => WaitInv
  <1> SUFFICES ASSUME Init, NEW c \in Callers PROVE ~caller[c].quiet
    BY DEF WaitInv
  <1>1. caller[c] = Idle
    BY DEF Init
  <1> QED BY <1>1 DEF Idle

\* A step that changes neither clocks nor buckets, and leaves or wakes callers.
LEMMA SameWait ==
  ASSUME Inv, WaitInv, UNCHANGED <<now, steady, bucket>>,
         \A c \in Callers : caller'[c].quiet => caller[c].quiet /\ caller'[c].until = caller[c].until
  PROVE  WaitInv'
  <1> SUFFICES ASSUME NEW c \in Callers, caller'[c].quiet, NEW b \in Uses[c]
               PROVE (Level(b) + Left(c) * Capacity[b] >= Period[b])'
    BY DEF WaitInv
  <1>1. Level(b)' = Level(b) /\ Left(c)' = Left(c)
    BY DEF Level, Stored, Capped, Elapsed, Full, Left
  <1>2. Level(b) + Left(c) * Capacity[b] >= Period[b]
    BY DEF WaitInv
  <1> QED BY <1>1, <1>2

\* A bucket nobody took from is as it was.
LEMMA UntakenLevel ==
  ASSUME NEW S, Consume(S), now' = now, NEW b \in Buckets, b \notin Takes(S)
  PROVE  Level(b)' = Level(b)
  <1>1. bucket'[b] = bucket[b]
    BY DEF Consume
  <1> QED BY <1>1 DEF Level, Stored, Capped, Elapsed, Full

\* Whoever shares a bucket that was taken from is no longer alone.
LEMMA TakenWait ==
  ASSUME Inv, WaitInv, NEW c \in Callers, Consume(Uses[c]), UNCHANGED <<now, steady>>,
         caller' = [Disturbed(Uses[c]) EXCEPT ![c] = Idle]
  PROVE  WaitInv'
  <1> SUFFICES ASSUME NEW d \in Callers, caller'[d].quiet, NEW b \in Uses[d]
               PROVE (Level(b) + Left(d) * Capacity[b] >= Period[b])'
    BY DEF WaitInv
  <1>0. b \in Buckets
    BY RateAssumption
  <1>1. d # c
    BY DEF Disturbed, Idle
  <1>2. caller'[d] = Disturbed(Uses[c])[d]
    BY <1>1 DEF Disturbed
  <1>3. Takes(Uses[c]) \cap Uses[d] = {} /\ caller'[d] = caller[d]
    <2>1. CASE Takes(Uses[c]) \cap Uses[d] = {}
      BY <2>1, <1>2 DEF Disturbed
    <2>2. CASE Takes(Uses[c]) \cap Uses[d] # {}
      <3>1. caller'[d] = [caller[d] EXCEPT !.quiet = FALSE]
        BY <2>2, <1>2 DEF Disturbed
      <3>2. caller[d] \in CallerType
        BY DEF Inv, TypeOK, CallerType
      <3>3. caller'[d].quiet = FALSE
        BY <3>1, <3>2 DEF CallerType
      <3> QED BY <3>3
    <2> QED BY <2>1, <2>2
  <1>4. Level(b)' = Level(b)
    BY <1>0, <1>3, UntakenLevel
  <1>5. Left(d)' = Left(d)
    BY <1>3 DEF Left
  <1>6. Level(b) + Left(d) * Capacity[b] >= Period[b]
    BY <1>3 DEF WaitInv
  <1> QED BY <1>4, <1>5, <1>6

\* A refused caller sleeps as long as its worst bucket needs.
LEMMA RefusedWait ==
  ASSUME Inv, WaitInv, NEW c \in Callers, Consume(Uses[c]), UNCHANGED <<now, steady>>,
         NEW r \in 1..MaxWait, RetryAfter(Uses[c], r),
         caller' = [caller EXCEPT ![c] = [@ EXCEPT !.pc = "waiting", !.until = steady + r, !.quiet = TRUE]]
  PROVE  WaitInv'
  <1>0. r \in Nat /\ r > 0 /\ steady \in Nat
    BY RateAssumption DEF Inv, TypeOK
  <1>1. Takes(Uses[c]) = {}
    BY DEF RetryAfter, Takes
  <1> SUFFICES ASSUME NEW d \in Callers, caller'[d].quiet, NEW b \in Uses[d]
               PROVE (Level(b) + Left(d) * Capacity[b] >= Period[b])'
    BY DEF WaitInv
  <1>2. b \in Buckets
    BY RateAssumption
  <1>3. Level(b)' = Level(b)
    BY <1>1, <1>2, UntakenLevel
  <1>4. CASE d # c
    <2>1. caller'[d] = caller[d]
      BY <1>4
    <2>2. Left(d)' = Left(d) /\ caller[d].quiet
      <3>1. steady' = steady
        OBVIOUS
      <3> QED BY <2>1, <3>1, SameLeft
    <2>3. Level(b) + Left(d) * Capacity[b] >= Period[b]
      BY <2>2 DEF WaitInv
    <2> QED BY <2>2, <2>3, <1>3
  <1>5. CASE d = c
    <2>1. caller \in [Callers -> CallerType]
      BY DEF Inv, TypeOK, CallerType
    <2>2. caller'[c].until = steady + r
      BY <2>1 DEF CallerType
    <2>3. Left(c)' = r
      BY <2>2, <1>0 DEF Left
    <2>4. Level(b) + r * Capacity[b] >= Period[b]
      <3>1. CASE b \in Short(Uses[c])
        BY <3>1, <1>0, <1>2, RetryIsEnough DEF RetryAfter
      <3>2. CASE b \notin Short(Uses[c])
        <4>1. ~(Level(b) < Period[b])
          BY <3>2, <1>5 DEF Short
        <4>2. Level(b) \in Nat /\ Period[b] \in Nat /\ r * Capacity[b] \in Nat
          BY <1>0, <1>2, LevelRange, Constants, NatTimes DEF Inv
        <4> QED BY <4>1, <4>2
      <3> QED BY <3>1, <3>2
    <2> QED BY <2>3, <2>4, <1>3, <1>5
  <1> QED BY <1>4, <1>5

\* A tick brings back the capacity's parts, or the bucket is full.
LEMMA TickRefills ==
  ASSUME Inv, Tick, NEW b \in Buckets
  PROVE  Level(b)' \in Nat /\ (Level(b)' = Full(b) \/ Level(b)' >= Level(b) + Capacity[b])
  <1>0. now \in Nat /\ now' = now + 1 /\ bucket' = bucket
    BY DEF Tick, Inv, TypeOK
  <1>1. /\ bucket[b].at \in Nat /\ bucket[b].tokens \in Nat /\ bucket[b].expires \in Nat
        /\ bucket[b].at <= now
    BY DEF Inv, TypeOK, BucketInv
  <1>2. Elapsed(b)' = Elapsed(b) + 1 /\ Elapsed(b) \in Nat
    BY <1>0, <1>1 DEF Elapsed
  <1>3. /\ Elapsed(b) * Capacity[b] \in Nat
        /\ (Elapsed(b) + 1) * Capacity[b] = Elapsed(b) * Capacity[b] + Capacity[b]
    BY <1>2, NatTimes, NextTimes, Constants
  <1>4. CASE Stored(b)'
    <2>1. Stored(b)
      BY <1>4, <1>0, <1>1 DEF Stored
    <2>2. Level(b) = Capped(b, bucket[b].tokens + Elapsed(b) * Capacity[b])
      BY <2>1 DEF Level
    <2>3. Level(b)' = Capped(b, bucket[b].tokens + (Elapsed(b) + 1) * Capacity[b])
      BY <1>4, <1>2, <1>0 DEF Level, Capped, Full
    <2> QED BY <2>2, <2>3, <1>1, <1>3, Constants DEF Capped
  <1>5. CASE ~Stored(b)'
    <2>1. Level(b)' = Full(b)
      BY <1>5 DEF Level, Full
    <2> QED BY <2>1, Constants
  <1> QED BY <1>4, <1>5

\* What a tick takes from the wait it gives to the buckets.
LEMMA TickWait == Inv /\ WaitInv /\ Tick => WaitInv'
  <1> SUFFICES ASSUME Inv, WaitInv, Tick, NEW c \in Callers, caller'[c].quiet, NEW b \in Uses[c]
               PROVE (Level(b) + Left(c) * Capacity[b] >= Period[b])'
    BY DEF WaitInv
  <1>0. b \in Buckets /\ caller' = caller /\ steady' = steady + 1 /\ steady \in Nat
    BY RateAssumption DEF Tick, Inv, TypeOK
  <1>1. caller[c] \in CallerType
    BY DEF Inv, TypeOK, CallerType
  <1>2. caller[c].until \in Nat
    BY <1>1 DEF CallerType
  <1>3. Left(c) \in Nat /\ Left(c)' \in Nat /\ (Left(c) = 0 \/ Left(c) = Left(c)' + 1)
    BY <1>0, <1>2 DEF Left
  <1>4. Level(b) + Left(c) * Capacity[b] >= Period[b]
    BY <1>0 DEF WaitInv
  <1>5. /\ Level(b) \in Nat /\ Level(b)' \in Nat /\ Capacity[b] \in Nat /\ Period[b] \in Nat
        /\ Level(b)' = Full(b) \/ Level(b)' >= Level(b) + Capacity[b]
        /\ Full(b) >= Period[b]
    BY <1>0, LevelRange, TickRefills, Constants, FullHasToken DEF Inv
  <1>6. Left(c) * Capacity[b] \in Nat /\ Left(c)' * Capacity[b] \in Nat
    BY <1>3, <1>5, NatTimes
  <1>7. CASE Level(b)' = Full(b)
    BY <1>7, <1>5, <1>6
  <1>8. CASE Level(b)' >= Level(b) + Capacity[b]
    <2>1. CASE Left(c) = 0
      <3>1. Left(c) * Capacity[b] = 0
        BY <2>1, <1>5
      <3> QED BY <3>1, <1>4, <1>5, <1>6, <1>8
    <2>2. CASE Left(c) = Left(c)' + 1
      <3>1. Left(c) * Capacity[b] = Left(c)' * Capacity[b] + Capacity[b]
        BY <2>2, <1>3, <1>5, NextTimes
      <3> QED BY <3>1, <1>4, <1>5, <1>6, <1>8
    <2> QED BY <2>1, <2>2, <1>3
  <1> QED BY <1>7, <1>8, <1>5

\* Every step keeps the promise of the wait.
LEMMA NextWait ==
  ASSUME MaxBack = 0, Inv, WaitInv, [Next]_vars
  PROVE  WaitInv'
  <1>0. caller \in [Callers -> CallerType]
    BY DEF Inv, TypeOK, CallerType
  <1>1. ASSUME NEW c \in Callers, Acquire(c) PROVE WaitInv'
    <2>1. \A d \in Callers : caller'[d].quiet => caller[d].quiet /\ caller'[d].until = caller[d].until
      BY <1>0, <1>1 DEF Acquire, Idle
    <2> QED BY <1>1, <2>1, SameWait DEF Acquire
  <1>2. ASSUME NEW c \in Callers, caller' = [caller EXCEPT ![c] = Idle]
        PROVE \A d \in Callers : caller'[d].quiet => caller[d].quiet /\ caller'[d].until = caller[d].until
    BY <1>0, <1>2 DEF Idle
  <1>3. ASSUME NEW c \in Callers, TryConsume(c) PROVE WaitInv'
    <2>0. Consume(Uses[c]) /\ UNCHANGED <<now, steady>>
      BY <1>3 DEF TryConsume
    <2>1. CASE caller' = [Disturbed(Uses[c]) EXCEPT ![c] = Idle]
      BY <2>0, <2>1, TakenWait
    <2>2. CASE \E r \in 1..MaxWait : RetryAfter(Uses[c], r) /\
                 caller' = [caller EXCEPT ![c] = [@ EXCEPT !.pc = "waiting", !.until = steady + r, !.quiet = TRUE]]
      BY <2>0, <2>2, RefusedWait
    <2>3. CASE Short(Uses[c]) # {} /\ caller' = [caller EXCEPT ![c] = Idle]
      <3>1. Takes(Uses[c]) = {}
        BY <2>3 DEF Takes
      <3>2. bucket' = bucket
        <4>1. bucket' = [b \in Buckets |-> bucket[b]]
          BY <2>0, <3>1 DEF Consume
        <4> QED BY <4>1 DEF Inv, TypeOK
      <3> QED BY <2>0, <2>3, <3>2, <1>2, SameWait
    <2> QED BY <1>3, <2>1, <2>2, <2>3 DEF TryConsume
  <1>4. ASSUME NEW c \in Callers, LoseReply(c) PROVE WaitInv'
    BY <1>4, TakenWait DEF LoseReply
  <1>5. ASSUME NEW c \in Callers, Exhausted(c) \/ GiveUp(c) PROVE WaitInv'
    BY <1>2, <1>5, SameWait DEF Exhausted, GiveUp
  <1>6. ASSUME NEW c \in Callers, Wake(c) PROVE WaitInv'
    <2>1. caller' = [caller EXCEPT ![c].pc = "trying"]
      BY <1>6 DEF Wake
    <2>2. \A d \in Callers : caller'[d].quiet => caller[d].quiet /\ caller'[d].until = caller[d].until
      BY <1>0, <2>1 DEF CallerType
    <2> QED BY <1>6, <2>2, SameWait DEF Wake
  <1>7. CASE Tick
    BY <1>7, TickWait
  <1>8. CASE StepBack
    BY <1>8 DEF StepBack, Inv
  <1>9. CASE Observe \/ UNCHANGED vars
    BY <1>9, SameWait DEF Observe, vars
  <1> QED BY <1>1, <1>3, <1>4, <1>5, <1>6, <1>7, <1>8, <1>9 DEF Next

(* While the clock of Redis does not go back, the wait the script answers  *)
(* with is long enough, however many buckets of whatever capacities and    *)
(* windows a request counts against: a caller that slept it, and from      *)
(* whose buckets nobody took meanwhile, is not refused again.              *)
THEOREM WaitIsLongEnough == MaxBack = 0 => (Spec => []WaitSuffices)
  <1> SUFFICES ASSUME MaxBack = 0 PROVE Spec => []WaitSuffices
    OBVIOUS
  <1>1. Init => Inv /\ WaitInv
    BY InitInv, InitWait
  <1>2. Inv /\ WaitInv /\ [Next]_vars => Inv' /\ WaitInv'
    BY NextInv, NextWait
  <1>3. Inv /\ WaitInv => WaitSuffices
    <2> SUFFICES ASSUME Inv, WaitInv, NEW c \in Callers, caller[c].quiet, caller[c].until <= steady,
                        NEW b \in Uses[c]
                 PROVE ~(Level(b) < Period[b])
      BY DEF WaitSuffices, Short
    <2>1. b \in Buckets
      BY RateAssumption
    <2>2. caller[c] \in CallerType /\ steady \in Nat
      BY DEF Inv, TypeOK, CallerType
    <2>3. caller[c].until \in Nat
      BY <2>2 DEF CallerType
    <2>4. Left(c) = 0
      BY <2>2, <2>3 DEF Left
    <2>5. Level(b) \in Nat /\ Period[b] \in Nat /\ Capacity[b] \in Nat
      BY <2>1, LevelRange, Constants DEF Inv
    <2>6. Level(b) + 0 * Capacity[b] >= Period[b]
      BY <2>4 DEF WaitInv
    <2> QED BY <2>5, <2>6
  <1> QED BY <1>1, <1>2, <1>3, PTL DEF Spec

(***************************************************************************)
(* The live views.                                                         *)
(***************************************************************************)
Value == [db : Nat, patch : Nat, failure : BOOLEAN, none : BOOLEAN]
Result == [snapshot : Value, version : Nat, epoch : Nat, sent : BOOLEAN]
ReadEntry == [version : Nat, epoch : Nat, loading : BOOLEAN, flight : Nat, waiters : SUBSET Conns]
Deadline == {"none", "set", "old"}
Box == [snapshot : BOOLEAN, patch : Nat, refresh : Deadline]
ConnPcs == {"closed", "read", "lookup", "fetch", "store", "complete", "await", "write", "idle"}
Connection == [pc : ConnPcs, joined : Nat, minimum : Nat, version : Nat, epoch : Nat, flight : Nat,
               generation : Nat, value : Value, inbox : Result, patch : Nat, timer : Deadline]
Count == [change : Nat, patch : Nat]
Gates == {"none", "quiet", "shut", "deferred", "due"}

ReadsTypes ==
  /\ db \in Count /\ published \in Nat
  /\ delivered \in [Workers -> Count]
  /\ cache \in [value : Value, generation : Nat, scope : Nat, sequence : Nat]
  /\ entry \in [Workers -> ReadEntry]
  /\ gate \in [Workers -> Gates]
  /\ mailbox \in [Conns -> Box]
  /\ conn \in [Conns -> Connection]
  /\ view \in [Conns -> Value]
  /\ used \in [closes : Nat, faults : Nat, recoveries : Nat]

(* What was committed, published and delivered.                            *)
InOrder ==
  /\ published <= db.change /\ db.patch <= MaxPatches
  /\ \A w \in Workers : delivered[w].change <= published /\ delivered[w].patch <= db.patch

Owing(g) == g \in {"deferred", "due"}

(* A snapshot labelled with the version and the epoch its read began with  *)
(* has every change delivered, unless it was invalidated since or a        *)
(* deferred delivery is owed, and every patch up to that epoch.            *)
Carries(s, version, epoch, e, g, d) ==
  \/ s.failure \/ version # e.version
  \/ (s.db >= d.change \/ Owing(g)) /\ s.patch + e.epoch >= d.patch + epoch

(* What is shown, or about to be, lacks only what the mailbox brings.      *)
Shows(s, box, g, d) ==
  \/ s.failure \/ box.snapshot
  \/ (s.db >= d.change \/ Owing(g)) /\ (s.patch >= d.patch \/ box.patch >= d.patch)

Flights == {"lookup", "fetch", "store", "complete"}
Reading == Flights \cup {"read", "await"}

StreamOK(k, e, g, d, box, v) ==
  /\ k.version <= e.version /\ k.epoch <= e.epoch /\ k.inbox.version <= e.version
  /\ k.pc \in {"store", "complete"} => Carries(k.value, k.version, k.epoch, e, g, d)
  /\ Carries(k.inbox.snapshot, k.inbox.version, k.inbox.epoch, e, g, d)
  /\ k.pc \in Reading => box.snapshot \/ box.patch >= d.patch \/ e.epoch = k.minimum
  /\ k.pc = "write" => Shows(k.value, box, g, d)
  /\ k.pc = "idle" => Shows(v, box, g, d)

StreamsOK ==
  \A c \in Conns : Open(c) =>
    StreamOK(conn[c], entry[WorkerOf[c]], gate[WorkerOf[c]], delivered[WorkerOf[c]], mailbox[c], view[c])

(* The fence of the Redis cache.                                           *)
CacheOK ==
  /\ cache.scope <= cache.sequence /\ cache.generation <= cache.sequence
  /\ ~Cacheable => cache.scope = 0
  /\ CachedIsCurrent
  /\ \A c \in Conns :
       /\ conn[c].generation <= cache.sequence
       /\ conn[c].generation # 0 \/ conn[c].pc \in {"lookup", "store"} => Cacheable
       /\ conn[c].pc = "store" /\ cache.scope # 0 /\ conn[c].generation = cache.scope => conn[c].value.db >= published

(* One flight of a worker at a time, by one of the connections it serves.  *)
FlightsOK ==
  /\ \A c \in Conns :
       /\ conn[c].flight # 0 <=> conn[c].pc \in Flights
       /\ conn[c].pc \in Flights =>
            /\ entry[WorkerOf[c]].loading /\ conn[c].flight = entry[WorkerOf[c]].flight
            /\ c \in entry[WorkerOf[c]].waiters
       /\ conn[c].pc = "await" /\ ~conn[c].inbox.sent => c \in entry[WorkerOf[c]].waiters
  /\ \A c, o \in Conns : conn[c].pc \in Flights /\ conn[o].pc \in Flights /\ WorkerOf[c] = WorkerOf[o] => c = o
  /\ \A w \in Workers :
       /\ entry[w].waiters \subseteq OpenOn(w)
       /\ entry[w].waiters # {} => entry[w].loading
       /\ entry[w].loading => \E c \in OpenOn(w) : conn[c].pc \in Flights

GatesOK == \A w \in Workers : gate[w] # "none" => OpenOn(w) # {}

ReadsInv == ReadsTypes /\ InOrder /\ StreamsOK /\ CacheOK /\ FlightsOK /\ GatesOK
(***************************************************************************)
(* Values.                                                                 *)
(***************************************************************************)
LEMMA ReadValues ==
  /\ None \in Value /\ Failed \in Value /\ NoResult \in Result /\ Nothing \in Result
  /\ NewEntry \in ReadEntry /\ EmptyMailbox \in Box /\ Closed \in Connection
  /\ None.failure /\ Failed.failure /\ NoResult.snapshot = None /\ Nothing.snapshot = None
  /\ NoResult.version = 0 /\ Nothing.version = 0 /\ Nothing.sent /\ ~NoResult.sent
  /\ Closed.pc = "closed" /\ Closed.inbox = NoResult /\ Closed.version = 0 /\ Closed.epoch = 0
  /\ Closed.flight = 0 /\ Closed.generation = 0 /\ None.none
  BY DEF None, Failed, Value, NoResult, Nothing, Result, NewEntry, ReadEntry, EmptyMailbox, Box, Closed,
         Connection, ConnPcs, Deadline

LEMMA SnapshotValue ==
  ASSUME NEW n \in Nat, NEW p \in Nat
  PROVE  /\ Snapshot(n, p) \in Value /\ ~Snapshot(n, p).failure
         /\ Snapshot(n, p).db = n /\ Snapshot(n, p).patch = p
  BY DEF Snapshot, Value

LEMMA LargerOf ==
  ASSUME NEW a \in Nat, NEW b \in Nat
  PROVE  Larger(a, b) \in Nat /\ Larger(a, b) >= a /\ Larger(a, b) >= b
  BY DEF Larger

(* Whether a stream is in order depends on the version and the epoch of    *)
(* the shared read only.                                                   *)
LEMMA SameRead ==
  ASSUME NEW k, NEW e, NEW f, NEW gt, NEW d, NEW box, NEW v,
         StreamOK(k, e, gt, d, box, v), f.version = e.version, f.epoch = e.epoch
  PROVE  StreamOK(k, f, gt, d, box, v)
  BY DEF StreamOK, Carries

(* A result that a flight sends.                                           *)
LEMMA ResultArrives ==
  ASSUME NEW k \in Connection, NEW e \in ReadEntry, NEW gt \in Gates, NEW d \in Count, NEW box \in Box,
         NEW v \in Value, NEW r \in Result,
         StreamOK(k, e, gt, d, box, v), r.version <= e.version,
         Carries(r.snapshot, r.version, r.epoch, e, gt, d)
  PROVE  StreamOK([k EXCEPT !.inbox = r], e, gt, d, box, v)
  BY DEF StreamOK, Connection

(* An invalidation: whatever the read brings is stale from now on, and the *)
(* mailbox asks for another.                                               *)
LEMMA StreamInvalidated ==
  ASSUME NEW k \in Connection, NEW e \in ReadEntry, NEW f \in ReadEntry, NEW gt \in Gates, NEW d \in Count,
         NEW g \in Count, NEW box \in Box, NEW mark \in Box, NEW v \in Value, NEW still \in Gates,
         StreamOK(k, e, gt, d, box, v), f.version = e.version + 1, f.epoch = e.epoch,
         mark.snapshot
  PROVE  StreamOK(k, f, still, g, mark, v)
<1>1. e.version \in Nat /\ k.version \in Nat /\ k.inbox.version \in Nat /\ e.epoch \in Nat
      /\ k.epoch \in Nat
  BY DEF ReadEntry, Connection, Result
<1>2. k.version <= e.version /\ k.inbox.version <= e.version /\ k.epoch <= e.epoch
  BY DEF StreamOK
<1>3. k.version # f.version /\ k.inbox.version # f.version /\ k.version <= f.version /\ k.inbox.version <= f.version
  BY <1>1, <1>2
<1> QED
  BY <1>1, <1>2, <1>3 DEF StreamOK, Carries, Shows

(* A deferred delivery: the views may stay behind.                         *)
LEMMA StreamDeferred ==
  ASSUME NEW k \in Connection, NEW e \in ReadEntry, NEW gt \in Gates, NEW d \in Count,
         NEW g \in Count, NEW box \in Box, NEW mark \in Box, NEW v \in Value, NEW still \in Gates,
         StreamOK(k, e, gt, d, box, v), g.patch = d.patch, Owing(still),
         mark.snapshot = box.snapshot, mark.patch = box.patch
  PROVE  StreamOK(k, e, still, g, mark, v)
  BY DEF StreamOK, Carries, Shows, Count, Box, ReadEntry, Connection, Value

(* A patch: the epoch advances with it and it lands in the mailbox.        *)
LEMMA StreamPatched ==
  ASSUME NEW k \in Connection, NEW e \in ReadEntry, NEW f \in ReadEntry, NEW gt \in Gates, NEW d \in Count,
         NEW g \in Count, NEW box \in Box, NEW mark \in Box, NEW v \in Value,
         StreamOK(k, e, gt, d, box, v), f.version = e.version, f.epoch = e.epoch + 1,
         g.change = d.change, g.patch = d.patch + 1,
         mark.snapshot = box.snapshot, mark.patch = d.patch + 1
  PROVE  StreamOK(k, f, gt, g, mark, v)
<1>1. /\ e.version \in Nat /\ e.epoch \in Nat /\ k.epoch \in Nat /\ k.version \in Nat /\ d.patch \in Nat
      /\ d.change \in Nat /\ k.inbox \in Result /\ k.value \in Value
  BY DEF ReadEntry, Connection, Count
<1>2. k.inbox.version \in Nat /\ k.inbox.epoch \in Nat /\ k.inbox.snapshot \in Value
  BY <1>1 DEF Result
<1>3. ASSUME NEW s \in Value, NEW m \in Nat, NEW n \in Nat, Carries(s, m, n, e, gt, d)
      PROVE  Carries(s, m, n, f, gt, g)
  <2>1. s.patch \in Nat /\ s.db \in Nat
    BY DEF Value
  <2> QED
    BY <1>1, <1>3, <2>1 DEF Carries
<1>4. mark.patch >= g.patch
  BY <1>1
<1>5. ASSUME NEW s, Shows(s, box, gt, d)
      PROVE  Shows(s, mark, gt, g)
  BY <1>4, <1>5 DEF Shows
<1> QED
  BY <1>1, <1>2, <1>3, <1>4, <1>5 DEF StreamOK
(***************************************************************************)
(* What a step leaves alone.                                               *)
(***************************************************************************)
(* The read and the fields of the delivery of one worker.                  *)
LEMMA ReadTypes ==
  ASSUME ReadsInv
  PROVE  /\ \A w \in Workers : /\ entry[w] \in ReadEntry /\ delivered[w] \in Count /\ gate[w] \in Gates
                               /\ delivered[w].change <= published /\ delivered[w].patch <= db.patch
         /\ \A c \in Conns : /\ WorkerOf[c] \in Workers /\ conn[c] \in Connection /\ mailbox[c] \in Box
                             /\ view[c] \in Value
  BY SnapshotAssumption DEF ReadsInv, ReadsTypes, InOrder

(* A step in which every connection keeps flying, waiting or neither.      *)
LEMMA FlightsFrame ==
  ASSUME ReadsInv,
         \A w \in Workers : /\ entry'[w].waiters = entry[w].waiters /\ entry'[w].loading = entry[w].loading
                            /\ entry'[w].flight = entry[w].flight,
         \A c \in Conns : /\ conn'[c].pc \in Flights <=> conn[c].pc \in Flights
                          /\ conn'[c].flight = conn[c].flight
                          /\ conn'[c].pc = "closed" <=> conn[c].pc = "closed"
                          /\ conn'[c].pc = "await" /\ ~conn'[c].inbox.sent => conn[c].pc = "await" /\ ~conn[c].inbox.sent
  PROVE  FlightsOK' /\ \A w \in Workers : OpenOn(w)' = OpenOn(w)
<1>1. \A w \in Workers : OpenOn(w)' = OpenOn(w)
  BY DEF OpenOn, Open
<1>2. \A c \in Conns : WorkerOf[c] \in Workers
  BY SnapshotAssumption
<1>3. FlightsOK
  BY DEF ReadsInv
<1>4. \A c \in Conns :
       /\ conn'[c].flight # 0 <=> conn'[c].pc \in Flights
       /\ conn'[c].pc \in Flights =>
            /\ entry'[WorkerOf[c]].loading /\ conn'[c].flight = entry'[WorkerOf[c]].flight
            /\ c \in entry'[WorkerOf[c]].waiters
       /\ conn'[c].pc = "await" /\ ~conn'[c].inbox.sent => c \in entry'[WorkerOf[c]].waiters
  BY <1>2, <1>3 DEF FlightsOK
<1>5. \A c, o \in Conns : conn'[c].pc \in Flights /\ conn'[o].pc \in Flights /\ WorkerOf[c] = WorkerOf[o] => c = o
  BY <1>3 DEF FlightsOK
<1>6. ASSUME NEW w \in Workers
      PROVE  /\ entry'[w].waiters \subseteq OpenOn(w)'
             /\ entry'[w].waiters # {} => entry'[w].loading
             /\ entry'[w].loading => \E c \in OpenOn(w)' : conn'[c].pc \in Flights
  BY <1>1, <1>3 DEF FlightsOK, OpenOn
<1> QED
  BY <1>1, <1>4, <1>5, <1>6 DEF FlightsOK

(* A step that leaves the Redis cache alone.                               *)
LEMMA CacheFrame ==
  ASSUME ReadsInv, cache' = cache, published' = published,
         \A c \in Conns : /\ conn'[c].generation = conn[c].generation
                          /\ conn'[c].pc \in {"lookup", "store"} => conn'[c].pc = conn[c].pc
                          /\ conn'[c].pc = "store" => conn'[c].value = conn[c].value
  PROVE  CacheOK'
  BY DEF ReadsInv, CacheOK, CachedIsCurrent

(* A step of one connection on its own.                                    *)
LEMMA StreamsFrame ==
  ASSUME ReadsInv, NEW c \in Conns, delivered' = delivered,
         \A w \in Workers : entry'[w].version = entry[w].version /\ entry'[w].epoch = entry[w].epoch,
         \A w \in Workers : gate'[w] = gate[w],
         \A o \in Conns \ {c} : conn'[o] = conn[o] /\ mailbox'[o] = mailbox[o] /\ view'[o] = view[o],
         Open(c)' => StreamOK(conn'[c], entry[WorkerOf[c]], gate[WorkerOf[c]], delivered[WorkerOf[c]], mailbox'[c], view'[c])
  PROVE  StreamsOK'
<1> SUFFICES ASSUME NEW o \in Conns, Open(o)'
             PROVE  StreamOK(conn'[o], entry'[WorkerOf[o]], gate'[WorkerOf[o]], delivered[WorkerOf[o]], mailbox'[o], view'[o])
  BY DEF StreamsOK
<1>1. WorkerOf[o] \in Workers
  BY SnapshotAssumption
<1>2. StreamOK(conn'[o], entry[WorkerOf[o]], gate[WorkerOf[o]], delivered[WorkerOf[o]], mailbox'[o], view'[o])
  <2>1. CASE o = c
    BY <2>1
  <2>2. CASE o # c
    BY <2>2 DEF ReadsInv, StreamsOK, Open
  <2> QED
    BY <2>1, <2>2
<1> QED
  BY <1>1, <1>2, SameRead

LEMMA SettledFrame ==
  ASSUME ReadsInv, published' = published, db' = db, delivered' = delivered
  PROVE  InOrder'
  BY DEF ReadsInv, InOrder
LEMMA ReadsStarts ==
  ASSUME ReadsInit
  PROVE  ReadsInv
<1> USE ReadValues, SnapshotAssumption
<1>1. ReadsTypes
  BY DEF ReadsInit, ReadsTypes, Count, Gates
<1>2. \A c \in Conns : conn[c] = Closed /\ ~Open(c)
  BY DEF ReadsInit, Open
<1>3. InOrder
  BY DEF ReadsInit, InOrder
<1>4. StreamsOK
  BY <1>2 DEF StreamsOK
<1>5. CacheOK
  BY <1>2 DEF CacheOK, CachedIsCurrent, ReadsInit
<1>6. FlightsOK
  BY <1>2 DEF FlightsOK, ReadsInit, Flights, NewEntry
<1>7. GatesOK
  BY DEF GatesOK, ReadsInit
<1> QED
  BY <1>1, <1>3, <1>4, <1>5, <1>6, <1>7 DEF ReadsInv

(***************************************************************************)
(* The database, the publication and the cache.                            *)
(***************************************************************************)
LEMMA CommitsKeep ==
  ASSUME ReadsInv, CommitChange \/ CommitPatch
  PROVE  ReadsInv'
<1> USE SnapshotAssumption
<1>1. ReadsTypes' /\ InOrder'
  BY DEF CommitChange, CommitPatch, ReadsInv, ReadsTypes, InOrder, Count
<1>2. UNCHANGED <<published, delivered, cache, entry, gate, mailbox, conn, view, used>>
  BY DEF CommitChange, CommitPatch
<1>3. StreamsOK' /\ CacheOK' /\ FlightsOK' /\ GatesOK'
  BY <1>2 DEF ReadsInv, StreamsOK, CacheOK, CachedIsCurrent, FlightsOK, GatesOK, OpenOn, Open
<1> QED
  BY <1>1, <1>3 DEF ReadsInv

(* Everything but the cache, the publications and the spent budgets stays. *)
LEMMA CacheSteps ==
  ASSUME ReadsInv, UNCHANGED <<db, delivered, entry, gate, mailbox, conn, view>>
  PROVE  StreamsOK' /\ FlightsOK' /\ GatesOK'
  BY DEF ReadsInv, StreamsOK, FlightsOK, GatesOK, OpenOn, Open

CacheEntry == [value : Value, generation : Nat, scope : Nat, sequence : Nat]

(* The new generation of a scope is one that no entry and no query holds.  *)
LEMMA NewGeneration ==
  ASSUME NEW k \in CacheEntry, k.scope <= k.sequence, k.generation <= k.sequence
  PROVE  /\ Invalidated(k) \in CacheEntry
         /\ Invalidated(k).value = k.value /\ Invalidated(k).generation = k.generation
         /\ Invalidated(k).scope = k.sequence + 1 /\ Invalidated(k).sequence = k.sequence + 1
<1>1. k.sequence \in Nat
  BY DEF CacheEntry
<1>2. PICK n \in Nat : n = k.sequence + 1
  BY <1>1
<1>3. [k EXCEPT !.scope = n, !.sequence = n] = Invalidated(k)
  BY <1>2 DEF Invalidated, CacheEntry
<1>4. /\ [k EXCEPT !.scope = n, !.sequence = n] \in CacheEntry
      /\ [k EXCEPT !.scope = n, !.sequence = n].value = k.value
      /\ [k EXCEPT !.scope = n, !.sequence = n].generation = k.generation
      /\ [k EXCEPT !.scope = n, !.sequence = n].scope = n
      /\ [k EXCEPT !.scope = n, !.sequence = n].sequence = n
  BY DEF CacheEntry
<1> QED
  BY <1>2, <1>3, <1>4

LEMMA CacheTyped ==
  ASSUME ReadsInv
  PROVE  /\ cache \in CacheEntry /\ cache.scope <= cache.sequence /\ cache.generation <= cache.sequence
         /\ published \in Nat /\ db.change \in Nat /\ db.patch \in Nat /\ published <= db.change
         /\ \A c \in Conns : conn[c].generation \in Nat /\ conn[c].generation <= cache.sequence
  BY DEF ReadsInv, ReadsTypes, CacheEntry, CacheOK, InOrder, Count, Connection

(* The invalidated scope has no entry and no query may store under it.     *)
LEMMA ScopeInvalidated ==
  ASSUME ReadsInv, Cacheable, cache' = Invalidated(cache), UNCHANGED conn
  PROVE  CacheOK' /\ cache' \in CacheEntry
<1>1. cache' \in CacheEntry /\ cache'.scope = cache.sequence + 1 /\ cache'.sequence = cache.sequence + 1
      /\ cache'.generation = cache.generation /\ cache.sequence \in Nat /\ cache.generation \in Nat
  BY CacheTyped, NewGeneration DEF CacheEntry
<1>2. cache'.generation # cache'.scope /\ cache'.generation <= cache'.sequence /\ cache'.scope <= cache'.sequence
  BY <1>1, CacheTyped
<1>3. \A c \in Conns : conn'[c].generation <= cache'.sequence /\ conn'[c].generation # cache'.scope
  BY <1>1, CacheTyped
<1> QED
  BY <1>1, <1>2, <1>3 DEF CacheOK, CachedIsCurrent

LEMMA PublishChangeKeeps ==
  ASSUME ReadsInv, PublishChange
  PROVE  ReadsInv'
<1>1. UNCHANGED <<db, delivered, entry, gate, mailbox, conn, view, used>> /\ published' = published + 1
      /\ published < db.change
  BY DEF PublishChange
<1>2. StreamsOK' /\ FlightsOK' /\ GatesOK'
  BY <1>1, CacheSteps
<1>3. InOrder' /\ published' \in Nat
  <2>1. published' \in Nat /\ published' <= db.change /\ published <= published'
    BY <1>1, CacheTyped
  <2>2. \A w \in Workers : delivered[w].change \in Nat
    BY ReadTypes DEF Count
  <2> QED
    BY <1>1, <2>1, <2>2, CacheTyped DEF ReadsInv, InOrder
<1>4. CacheOK' /\ cache' \in CacheEntry
  <2>1. CASE Cacheable
    BY <1>1, <2>1, ScopeInvalidated DEF PublishChange
  <2>2. CASE ~Cacheable
    BY <1>1, <2>2, CacheTyped DEF PublishChange, ReadsInv, CacheOK, CachedIsCurrent
  <2> QED
    BY <2>1, <2>2
<1>5. ReadsTypes'
  BY <1>1, <1>3, <1>4 DEF ReadsInv, ReadsTypes, CacheEntry
<1> QED
  BY <1>2, <1>3, <1>4, <1>5 DEF ReadsInv

LEMMA UsedTyped ==
  ASSUME ReadsInv, MayFail
  PROVE  used' \in [closes : Nat, faults : Nat, recoveries : Nat]
  BY DEF MayFail, ReadsInv, ReadsTypes

LEMMA EvictionsKeep ==
  ASSUME ReadsInv, EvictScope \/ ExpireEntry
  PROVE  ReadsInv'
<1>1. UNCHANGED <<db, published, delivered, entry, gate, mailbox, conn, view>>
  BY DEF EvictScope, ExpireEntry
<1>2. used' \in [closes : Nat, faults : Nat, recoveries : Nat]
  BY UsedTyped DEF EvictScope, ExpireEntry, ReadsInv, ReadsTypes
<1>3. cache' \in CacheEntry /\ cache'.sequence = cache.sequence /\ cache'.generation = cache.generation
      /\ (cache'.scope = 0 \/ (cache'.scope = cache.scope /\ cache'.value.none))
  BY CacheTyped, ReadValues DEF EvictScope, ExpireEntry, CacheEntry
<1>4. CacheOK'
  BY <1>1, <1>3, CacheTyped DEF ReadsInv, CacheOK, CachedIsCurrent, CacheEntry
<1>5. ReadsTypes' /\ InOrder'
  BY <1>1, <1>2, <1>3 DEF ReadsInv, ReadsTypes, InOrder, CacheEntry
<1> QED
  BY <1>1, <1>4, <1>5, CacheSteps DEF ReadsInv

LEMMA IntervalKeeps ==
  ASSUME ReadsInv, NEW w \in Workers, IntervalPasses(w)
  PROVE  ReadsInv'
<1>1. UNCHANGED <<db, published, delivered, cache, entry, mailbox, conn, view, used>>
  BY DEF IntervalPasses
<1>2. gate' \in [Workers -> Gates] /\ \A x \in Workers : /\ gate'[x] # "none" => gate[x] # "none"
                                                         /\ gate'[x] \in {"deferred", "due"} <=> gate[x] \in {"deferred", "due"}
  BY DEF IntervalPasses, ReadsInv, ReadsTypes, Gates
<1>3. \A x \in Workers : Owing(gate'[x]) <=> Owing(gate[x])
  BY <1>2 DEF Owing
<1>4. StreamsOK'
  BY <1>1, <1>3, SnapshotAssumption DEF ReadsInv, StreamsOK, StreamOK, Carries, Shows, Open
<1>5. CacheOK' /\ FlightsOK' /\ GatesOK'
  BY <1>1, <1>2 DEF ReadsInv, CacheOK, CachedIsCurrent, FlightsOK, GatesOK, OpenOn, Open
<1>6. ReadsTypes' /\ InOrder'
  BY <1>1, <1>2 DEF ReadsInv, ReadsTypes, InOrder
<1> QED
  BY <1>4, <1>5, <1>6 DEF ReadsInv
(***************************************************************************)
(* The hub of a worker.                                                    *)
(***************************************************************************)
(* A new version or epoch of a shared read.                                *)
LEMMA EntryCounts ==
  ASSUME NEW e \in ReadEntry, NEW n \in Nat
  PROVE  /\ [e EXCEPT !.version = n] \in ReadEntry /\ [e EXCEPT !.epoch = n] \in ReadEntry
         /\ [e EXCEPT !.version = n].version = n /\ [e EXCEPT !.version = n].epoch = e.epoch
         /\ [e EXCEPT !.epoch = n].epoch = n /\ [e EXCEPT !.epoch = n].version = e.version
         /\ [e EXCEPT !.version = n].waiters = e.waiters /\ [e EXCEPT !.epoch = n].waiters = e.waiters
         /\ [e EXCEPT !.version = n].loading = e.loading /\ [e EXCEPT !.epoch = n].loading = e.loading
         /\ [e EXCEPT !.version = n].flight = e.flight /\ [e EXCEPT !.epoch = n].flight = e.flight
  BY DEF ReadEntry

LEMMA BoxFields ==
  ASSUME NEW box \in Box, NEW n \in Nat
  PROVE  /\ [box EXCEPT !.snapshot = TRUE] \in Box /\ [box EXCEPT !.snapshot = TRUE].snapshot
         /\ [box EXCEPT !.patch = n] \in Box
         /\ [box EXCEPT !.patch = n].snapshot = box.snapshot /\ [box EXCEPT !.patch = n].patch = n
  BY DEF Box

LEMMA BoxDeadline ==
  ASSUME NEW box \in Box, NEW t \in Deadline
  PROVE  /\ [box EXCEPT !.refresh = t] \in Box /\ [box EXCEPT !.refresh = t].refresh = t
         /\ [box EXCEPT !.refresh = t].snapshot = box.snapshot /\ [box EXCEPT !.refresh = t].patch = box.patch
  BY DEF Box

LEMMA EarlierOf ==
  ASSUME NEW a \in Deadline, NEW b \in Deadline
  PROVE  Earlier(a, b) \in Deadline /\ Aged(a) \in Deadline
  BY DEF Earlier, Aged, Deadline

LEMMA OpenOnWorker ==
  ASSUME ReadsInv, NEW w \in Workers, NEW c \in Conns
  PROVE  c \in OpenOn(w) <=> WorkerOf[c] = w /\ Open(c)
  BY DEF OpenOn

(* The entry of one worker.                                                *)
LEMMA EntryUpdated ==
  ASSUME ReadsInv, NEW w \in Workers, NEW f \in ReadEntry, entry' = [entry EXCEPT ![w] = f]
  PROVE  /\ entry' \in [Workers -> ReadEntry] /\ entry'[w] = f
         /\ \A x \in Workers \ {w} : entry'[x] = entry[x]
  BY DEF ReadsInv, ReadsTypes

LEMMA MarkedBoxes ==
  ASSUME ReadsInv, NEW w \in Workers, mailbox' = Marked(w, mailbox)
  PROVE  /\ mailbox' \in [Conns -> Box]
         /\ \A c \in Conns : mailbox'[c] = IF WorkerOf[c] = w /\ Open(c) THEN [mailbox[c] EXCEPT !.snapshot = TRUE] ELSE mailbox[c]
<1>1. \A c \in Conns : mailbox[c] \in Box /\ [mailbox[c] EXCEPT !.snapshot = TRUE] \in Box
  BY ReadTypes, BoxFields, 0 \in Nat
<1> QED
  BY <1>1 DEF Marked, OpenOn

(* The invalidated read of a worker.                                       *)
LEMMA NextVersion ==
  ASSUME ReadsInv, NEW w \in Workers, NEW on \in BOOLEAN,
         entry' = [entry EXCEPT ![w].version = IF on THEN @ + 1 ELSE @]
  PROVE  /\ entry' \in [Workers -> ReadEntry]
         /\ \A x \in Workers : entry'[x] \in ReadEntry /\ entry'[x].epoch = entry[x].epoch
              /\ entry'[x].waiters = entry[x].waiters /\ entry'[x].loading = entry[x].loading
              /\ entry'[x].flight = entry[x].flight
         /\ \A x \in Workers \ {w} : entry'[x] = entry[x]
         /\ entry'[w].version = IF on THEN entry[w].version + 1 ELSE entry[w].version
<1>1. entry[w] \in ReadEntry /\ entry[w].version \in Nat
  BY ReadTypes DEF ReadEntry
<1>2. PICK n \in Nat : n = IF on THEN entry[w].version + 1 ELSE entry[w].version
  BY <1>1
<1>3. PICK f \in ReadEntry : f = [entry[w] EXCEPT !.version = n]
  BY <1>1, EntryCounts
<1>4. entry' = [entry EXCEPT ![w] = f]
  BY <1>2, <1>3
<1>5. f.version = n /\ f.epoch = entry[w].epoch /\ f.waiters = entry[w].waiters /\ f.loading = entry[w].loading
      /\ f.flight = entry[w].flight
  BY <1>1, <1>3, EntryCounts
<1> QED
  BY <1>2, <1>4, <1>5, EntryUpdated, ReadTypes

LEMMA NextEpoch ==
  ASSUME ReadsInv, NEW w \in Workers, NEW on \in BOOLEAN,
         entry' = [entry EXCEPT ![w].epoch = IF on THEN @ + 1 ELSE @]
  PROVE  /\ entry' \in [Workers -> ReadEntry]
         /\ \A x \in Workers : entry'[x] \in ReadEntry /\ entry'[x].version = entry[x].version
              /\ entry'[x].waiters = entry[x].waiters /\ entry'[x].loading = entry[x].loading
              /\ entry'[x].flight = entry[x].flight
         /\ \A x \in Workers \ {w} : entry'[x] = entry[x]
         /\ entry'[w].epoch = IF on THEN entry[w].epoch + 1 ELSE entry[w].epoch
<1>1. entry[w] \in ReadEntry /\ entry[w].epoch \in Nat
  BY ReadTypes DEF ReadEntry
<1>2. PICK n \in Nat : n = IF on THEN entry[w].epoch + 1 ELSE entry[w].epoch
  BY <1>1
<1>3. PICK f \in ReadEntry : f = [entry[w] EXCEPT !.epoch = n]
  BY <1>1, EntryCounts
<1>4. entry' = [entry EXCEPT ![w] = f]
  BY <1>2, <1>3
<1>5. f.epoch = n /\ f.version = entry[w].version /\ f.waiters = entry[w].waiters /\ f.loading = entry[w].loading
      /\ f.flight = entry[w].flight
  BY <1>1, <1>3, EntryCounts
<1> QED
  BY <1>2, <1>4, <1>5, EntryUpdated, ReadTypes

(* hub::deliver, whatever was delivered and whatever became of the gate.   *)
LEMMA HubKeeps ==
  ASSUME ReadsInv, NEW w \in Workers, HubDelivers(w), UNCHANGED <<conn, view>>,
         delivered' \in [Workers -> Count], gate' \in [Workers -> Gates],
         \A x \in Workers \ {w} : delivered'[x] = delivered[x] /\ gate'[x] = gate[x]
  PROVE  /\ StreamsOK' /\ FlightsOK' /\ entry' \in [Workers -> ReadEntry] /\ mailbox' \in [Conns -> Box]
         /\ \A x \in Workers : OpenOn(x)' = OpenOn(x)
<1>1. entry' = [entry EXCEPT ![w].version = IF OpenOn(w) # {} THEN @ + 1 ELSE @] /\ mailbox' = Marked(w, mailbox)
  BY DEF HubDelivers
<1>2. (OpenOn(w) # {}) \in BOOLEAN
  OBVIOUS
<1>3. /\ entry' \in [Workers -> ReadEntry]
      /\ \A x \in Workers : entry'[x] \in ReadEntry /\ entry'[x].epoch = entry[x].epoch
           /\ entry'[x].waiters = entry[x].waiters /\ entry'[x].loading = entry[x].loading
           /\ entry'[x].flight = entry[x].flight
      /\ \A x \in Workers \ {w} : entry'[x] = entry[x]
      /\ entry'[w].version = IF OpenOn(w) # {} THEN entry[w].version + 1 ELSE entry[w].version
  BY <1>1, <1>2, NextVersion
<1>4. FlightsOK' /\ \A x \in Workers : OpenOn(x)' = OpenOn(x)
  BY <1>3, FlightsFrame
<1>5. ASSUME NEW c \in Conns, Open(c)'
      PROVE  StreamOK(conn[c], entry'[WorkerOf[c]], gate'[WorkerOf[c]], delivered'[WorkerOf[c]], mailbox'[c], view[c])
  <2>1. Open(c) /\ WorkerOf[c] \in Workers
    BY <1>5, SnapshotAssumption DEF Open
  <2>2. StreamOK(conn[c], entry[WorkerOf[c]], gate[WorkerOf[c]], delivered[WorkerOf[c]], mailbox[c], view[c])
    BY <2>1 DEF ReadsInv, StreamsOK
  <2>3. mailbox' \in [Conns -> Box]
    BY <1>1, MarkedBoxes
  <2>4. CASE WorkerOf[c] # w
    <3>1. mailbox'[c] = mailbox[c]
      BY <1>1, <2>4, MarkedBoxes
    <3>2. gate'[WorkerOf[c]] = gate[WorkerOf[c]] /\ delivered'[WorkerOf[c]] = delivered[WorkerOf[c]]
          /\ entry'[WorkerOf[c]] = entry[WorkerOf[c]]
      BY <1>3, <2>1, <2>4
    <3> QED
      BY <2>2, <3>1, <3>2
  <2>5. CASE WorkerOf[c] = w
    <3>1. mailbox'[c] = [mailbox[c] EXCEPT !.snapshot = TRUE]
      BY <1>1, <2>1, <2>5, MarkedBoxes
    <3>2. entry'[w].version = entry[w].version + 1 /\ entry'[w].epoch = entry[w].epoch
      BY <1>3, <2>1, <2>5, OpenOnWorker
    <3>4. /\ conn[c] \in Connection /\ entry[w] \in ReadEntry /\ entry'[w] \in ReadEntry /\ gate[w] \in Gates
          /\ gate'[w] \in Gates /\ delivered[w] \in Count /\ delivered'[w] \in Count /\ mailbox[c] \in Box
          /\ mailbox'[c] \in Box /\ view[c] \in Value
      BY <1>3, <2>3, ReadTypes
    <3>5. mailbox'[c].snapshot
      BY <3>1, <3>4, BoxFields, 0 \in Nat
    <3>6. StreamOK(conn[c], entry[w], gate[w], delivered[w], mailbox[c], view[c])
      BY <2>2, <2>5
    <3>7. StreamOK(conn[c], entry'[w], gate'[w], delivered'[w], mailbox'[c], view[c])
      BY <3>2, <3>4, <3>5, <3>6, StreamInvalidated
    <3> QED
      BY <2>5, <3>7
  <2> QED
    BY <2>4, <2>5
<1> QED
  BY <1>1, <1>3, <1>4, <1>5, MarkedBoxes DEF StreamsOK
(* A delivered change is one more of the worker.                           *)
LEMMA ChangeCounted ==
  ASSUME ReadsInv, NEW w \in Workers, delivered[w].change < published,
         delivered' = [delivered EXCEPT ![w].change = @ + 1], UNCHANGED <<db, published>>
  PROVE  /\ delivered' \in [Workers -> Count] /\ InOrder'
         /\ \A x \in Workers \ {w} : delivered'[x] = delivered[x]
         /\ delivered'[w].patch = delivered[w].patch
<1>1. delivered[w] \in Count /\ delivered[w].change \in Nat /\ delivered[w].patch \in Nat
  BY ReadTypes DEF Count
<1>2. PICK n \in Nat : n = delivered[w].change + 1
  BY <1>1
<1>3. PICK g \in Count : g = [delivered[w] EXCEPT !.change = n]
  BY <1>1 DEF Count
<1>4. delivered' = [delivered EXCEPT ![w] = g] /\ g.change = n /\ g.patch = delivered[w].patch
  BY <1>1, <1>2, <1>3 DEF Count
<1>5. /\ delivered' \in [Workers -> Count] /\ delivered'[w] = g
      /\ \A x \in Workers \ {w} : delivered'[x] = delivered[x]
  BY <1>4 DEF ReadsInv, ReadsTypes
<1>6. n <= published
  BY <1>1, <1>2, CacheTyped
<1> QED
  BY <1>4, <1>5, <1>6 DEF ReadsInv, InOrder

LEMMA PatchCounted ==
  ASSUME ReadsInv, NEW w \in Workers, delivered[w].patch < db.patch,
         delivered' = [delivered EXCEPT ![w].patch = @ + 1], UNCHANGED <<db, published>>
  PROVE  /\ delivered' \in [Workers -> Count] /\ InOrder'
         /\ \A x \in Workers \ {w} : delivered'[x] = delivered[x]
         /\ delivered'[w].change = delivered[w].change /\ delivered'[w].patch = delivered[w].patch + 1
<1>1. delivered[w] \in Count /\ delivered[w].change \in Nat /\ delivered[w].patch \in Nat
  BY ReadTypes DEF Count
<1>2. PICK n \in Nat : n = delivered[w].patch + 1
  BY <1>1
<1>3. PICK g \in Count : g = [delivered[w] EXCEPT !.patch = n]
  BY <1>1 DEF Count
<1>4. delivered' = [delivered EXCEPT ![w] = g] /\ g.patch = n /\ g.change = delivered[w].change
  BY <1>1, <1>2, <1>3 DEF Count
<1>5. /\ delivered' \in [Workers -> Count] /\ delivered'[w] = g
      /\ \A x \in Workers \ {w} : delivered'[x] = delivered[x]
  BY <1>4 DEF ReadsInv, ReadsTypes
<1>6. n <= db.patch
  BY <1>1, <1>2, CacheTyped
<1> QED
  BY <1>2, <1>4, <1>5, <1>6 DEF ReadsInv, InOrder

(* Gates are kept while their worker has a subscriber.                     *)
LEMMA GatesFrame ==
  ASSUME ReadsInv, NEW w \in Workers, \A x \in Workers : OpenOn(x)' = OpenOn(x),
         \A x \in Workers \ {w} : gate'[x] = gate[x],
         gate'[w] # "none" => gate[w] # "none" \/ OpenOn(w) # {}
  PROVE  GatesOK'
  BY DEF ReadsInv, GatesOK

(* What a step of the hub leaves alone.                                    *)
LEMMA HubFrame ==
  ASSUME ReadsInv, InOrder', StreamsOK', FlightsOK', GatesOK', UNCHANGED <<db, published, cache, conn, view, used>>,
         entry' \in [Workers -> ReadEntry], mailbox' \in [Conns -> Box], gate' \in [Workers -> Gates],
         delivered' \in [Workers -> Count]
  PROVE  ReadsInv'
<1>1. CacheOK'
  BY CacheFrame
<1>2. ReadsTypes'
  BY DEF ReadsInv, ReadsTypes
<1> QED
  BY <1>1, <1>2 DEF ReadsInv

(* publish_coalesced with a delivery still to be released: the views may   *)
(* stay behind until then.                                                 *)
LEMMA DeferralKeeps ==
  ASSUME ReadsInv, NEW w \in Workers, UNCHANGED <<conn, view, entry>>,
         delivered' \in [Workers -> Count], gate' \in [Workers -> Gates], mailbox' \in [Conns -> Box],
         \A x \in Workers \ {w} : delivered'[x] = delivered[x] /\ gate'[x] = gate[x],
         delivered'[w].patch = delivered[w].patch, Owing(gate'[w]),
         \A c \in Conns : WorkerOf[c] # w => mailbox'[c] = mailbox[c],
         \A c \in Conns : WorkerOf[c] = w /\ Open(c) =>
           mailbox'[c].snapshot = mailbox[c].snapshot /\ mailbox'[c].patch = mailbox[c].patch
  PROVE  StreamsOK'
<1> SUFFICES ASSUME NEW c \in Conns, Open(c)'
             PROVE  StreamOK(conn[c], entry[WorkerOf[c]], gate'[WorkerOf[c]], delivered'[WorkerOf[c]], mailbox'[c], view[c])
  BY DEF StreamsOK
<1>1. Open(c) /\ WorkerOf[c] \in Workers
  BY SnapshotAssumption DEF Open
<1>2. StreamOK(conn[c], entry[WorkerOf[c]], gate[WorkerOf[c]], delivered[WorkerOf[c]], mailbox[c], view[c])
  BY <1>1 DEF ReadsInv, StreamsOK
<1>3. CASE WorkerOf[c] # w
  BY <1>1, <1>2, <1>3
<1>4. CASE WorkerOf[c] = w
  <2>1. /\ conn[c] \in Connection /\ entry[w] \in ReadEntry /\ gate[w] \in Gates
        /\ gate'[w] \in Gates /\ delivered[w] \in Count /\ delivered'[w] \in Count /\ mailbox[c] \in Box
        /\ mailbox'[c] \in Box /\ view[c] \in Value
    BY ReadTypes
  <2>2. mailbox'[c].snapshot = mailbox[c].snapshot /\ mailbox'[c].patch = mailbox[c].patch
    BY <1>1, <1>4
  <2>3. StreamOK(conn[c], entry[w], gate[w], delivered[w], mailbox[c], view[c])
    BY <1>2, <1>4
  <2>4. StreamOK(conn[c], entry[w], gate'[w], delivered'[w], mailbox'[c], view[c])
    BY <2>1, <2>2, <2>3, StreamDeferred
  <2> QED
    BY <1>4, <2>4
<1> QED
  BY <1>3, <1>4

LEMMA DeliverChangeKeeps ==
  ASSUME ReadsInv, NEW w \in Workers, DeliverChange(w)
  PROVE  ReadsInv'
<1>1. /\ delivered[w].change < published /\ delivered' = [delivered EXCEPT ![w].change = @ + 1]
      /\ UNCHANGED <<db, published, cache, conn, view, used>>
  BY DEF DeliverChange
<1>2. /\ delivered' \in [Workers -> Count] /\ InOrder'
      /\ \A x \in Workers \ {w} : delivered'[x] = delivered[x]
      /\ delivered'[w].patch = delivered[w].patch
  BY <1>1, ChangeCounted
<1>3. gate \in [Workers -> Gates] /\ mailbox \in [Conns -> Box] /\ entry \in [Workers -> ReadEntry]
  BY DEF ReadsInv, ReadsTypes
<1>4. ASSUME HubDelivers(w), gate' \in [Workers -> Gates], \A x \in Workers \ {w} : gate'[x] = gate[x],
             gate'[w] # "none" => gate[w] # "none" \/ OpenOn(w) # {}
      PROVE  ReadsInv'
  <2>1. /\ StreamsOK' /\ FlightsOK' /\ entry' \in [Workers -> ReadEntry] /\ mailbox' \in [Conns -> Box]
        /\ \A x \in Workers : OpenOn(x)' = OpenOn(x)
    BY <1>1, <1>2, <1>4, HubKeeps
  <2>2. GatesOK'
    BY <1>4, <2>1, GatesFrame
  <2> QED
    BY <1>1, <1>2, <1>4, <2>1, <2>2, HubFrame
<1>5. ASSUME UNCHANGED entry, gate' \in [Workers -> Gates], mailbox' \in [Conns -> Box], StreamsOK',
             \A x \in Workers \ {w} : gate'[x] = gate[x],
             gate'[w] # "none" => gate[w] # "none" \/ OpenOn(w) # {}
      PROVE  ReadsInv'
  <2>1. FlightsOK' /\ \A x \in Workers : OpenOn(x)' = OpenOn(x)
    BY <1>1, <1>5, FlightsFrame
  <2>2. GatesOK'
    BY <1>5, <2>1, GatesFrame
  <2> QED
    BY <1>1, <1>2, <1>3, <1>5, <2>1, <2>2, HubFrame
<1>6. CASE ~Coalesced
  BY <1>3, <1>4, <1>6 DEF DeliverChange
<1>7. CASE Coalesced
  <2>1. CASE OpenOn(w) = {} /\ gate' = [gate EXCEPT ![w] = "none"] /\ UNCHANGED <<entry, mailbox>>
    <3>1. gate' \in [Workers -> Gates] /\ gate'[w] = "none" /\ \A x \in Workers \ {w} : gate'[x] = gate[x]
      BY <1>3, <2>1 DEF Gates
    <3>2. \A c \in Conns : Open(c) => WorkerOf[c] # w /\ WorkerOf[c] \in Workers
      BY <2>1, SnapshotAssumption DEF OpenOn
    <3>3. StreamsOK'
      BY <1>1, <1>2, <2>1, <3>1, <3>2 DEF ReadsInv, StreamsOK, Open
    <3> QED
      BY <1>3, <1>5, <2>1, <3>1, <3>3
  <2>2. CASE OpenOn(w) # {} /\ gate[w] \in {"none", "quiet"} /\ gate' = [gate EXCEPT ![w] = "shut"] /\ HubDelivers(w)
    <3>1. gate' \in [Workers -> Gates] /\ gate'[w] = "shut" /\ \A x \in Workers \ {w} : gate'[x] = gate[x]
      BY <1>3, <2>2 DEF Gates
    <3> QED
      BY <1>4, <2>2, <3>1
  <2>3. CASE /\ OpenOn(w) # {} /\ gate[w] = "shut" /\ gate' = [gate EXCEPT ![w] = "deferred"] /\ UNCHANGED entry
             /\ mailbox' = [c \in Conns |-> IF c \in OpenOn(w) THEN [mailbox[c] EXCEPT !.refresh = Earlier(@, "set")] ELSE mailbox[c]]
    <3>1. gate' \in [Workers -> Gates] /\ gate'[w] = "deferred" /\ \A x \in Workers \ {w} : gate'[x] = gate[x]
      BY <1>3, <2>3 DEF Gates
    <3> DEFINE told(c) == [mailbox[c] EXCEPT !.refresh = Earlier(mailbox[c].refresh, "set")]
    <3>2. ASSUME NEW c \in Conns
          PROVE  /\ mailbox[c] \in Box /\ told(c) \in Box
                 /\ told(c).snapshot = mailbox[c].snapshot /\ told(c).patch = mailbox[c].patch
      <4>1. mailbox[c] \in Box /\ Earlier(mailbox[c].refresh, "set") \in Deadline
        BY <1>3, EarlierOf DEF Box, Deadline
      <4> QED
        BY <4>1, BoxDeadline
    <3>3. /\ mailbox' \in [Conns -> Box]
          /\ \A c \in Conns : WorkerOf[c] # w => mailbox'[c] = mailbox[c]
          /\ \A c \in Conns : WorkerOf[c] = w /\ Open(c) => mailbox'[c] = told(c)
      <4>1. mailbox' = [c \in Conns |-> IF c \in OpenOn(w) THEN told(c) ELSE mailbox[c]]
        BY <2>3
      <4> HIDE DEF told
      <4> QED
        BY <3>2, <4>1, OpenOnWorker
    <3> HIDE DEF told
    <3>4. Owing(gate'[w])
      BY <3>1 DEF Owing
    <3>5. StreamsOK'
      <4>1. \A c \in Conns : WorkerOf[c] = w /\ Open(c) =>
              mailbox'[c].snapshot = mailbox[c].snapshot /\ mailbox'[c].patch = mailbox[c].patch
        BY <3>2, <3>3
      <4> QED
        BY <1>1, <1>2, <2>3, <3>1, <3>3, <3>4, <4>1, DeferralKeeps
    <3> QED
      BY <1>5, <2>3, <3>1, <3>3, <3>5
  <2>4. CASE OpenOn(w) # {} /\ gate[w] \in {"deferred", "due"} /\ UNCHANGED <<gate, entry, mailbox>>
    <3>1. Owing(gate[w])
      BY <2>4 DEF Owing
    <3>2. StreamsOK'
      BY <1>1, <1>2, <1>3, <2>4, <3>1, DeferralKeeps
    <3> QED
      BY <1>3, <1>5, <2>4, <3>2
  <2> QED
    BY <1>7, <2>1, <2>2, <2>3, <2>4 DEF DeliverChange, PublishCoalesced
<1> QED
  BY <1>6, <1>7
LEMMA DeliverPatchKeeps ==
  ASSUME ReadsInv, NEW w \in Workers, DeliverPatch(w)
  PROVE  ReadsInv'
<1>1. /\ delivered[w].patch < db.patch /\ delivered' = [delivered EXCEPT ![w].patch = @ + 1]
      /\ entry' = [entry EXCEPT ![w].epoch = IF OpenOn(w) # {} THEN @ + 1 ELSE @]
      /\ mailbox' = [c \in Conns |-> IF c \in OpenOn(w) THEN [mailbox[c] EXCEPT !.patch = delivered[w].patch + 1] ELSE mailbox[c]]
      /\ UNCHANGED <<db, published, cache, gate, conn, view, used>>
  BY DEF DeliverPatch
<1>2. /\ delivered' \in [Workers -> Count] /\ InOrder'
      /\ \A x \in Workers \ {w} : delivered'[x] = delivered[x]
      /\ delivered'[w].change = delivered[w].change /\ delivered'[w].patch = delivered[w].patch + 1
  BY <1>1, PatchCounted
<1>3. (OpenOn(w) # {}) \in BOOLEAN
  OBVIOUS
<1>4. /\ entry' \in [Workers -> ReadEntry]
      /\ \A x \in Workers : entry'[x] \in ReadEntry /\ entry'[x].version = entry[x].version
           /\ entry'[x].waiters = entry[x].waiters /\ entry'[x].loading = entry[x].loading
           /\ entry'[x].flight = entry[x].flight
      /\ \A x \in Workers \ {w} : entry'[x] = entry[x]
      /\ entry'[w].epoch = IF OpenOn(w) # {} THEN entry[w].epoch + 1 ELSE entry[w].epoch
  BY <1>1, <1>3, NextEpoch
<1>5. FlightsOK' /\ \A x \in Workers : OpenOn(x)' = OpenOn(x)
  BY <1>1, <1>4, FlightsFrame
<1>6. GatesOK'
  BY <1>1, <1>5, GatesFrame
<1>7. PICK n \in Nat : n = delivered[w].patch + 1
  BY ReadTypes DEF Count
<1>8. \A c \in Conns : /\ mailbox[c] \in Box /\ [mailbox[c] EXCEPT !.patch = n] \in Box
                       /\ [mailbox[c] EXCEPT !.patch = n].snapshot = mailbox[c].snapshot
                       /\ [mailbox[c] EXCEPT !.patch = n].patch = n
  BY ReadTypes, BoxFields
<1>9. /\ mailbox' \in [Conns -> Box]
      /\ \A c \in Conns : WorkerOf[c] # w => mailbox'[c] = mailbox[c]
      /\ \A c \in Conns : WorkerOf[c] = w /\ Open(c) => mailbox'[c] = [mailbox[c] EXCEPT !.patch = n]
  <2>1. mailbox' = [c \in Conns |-> IF c \in OpenOn(w) THEN [mailbox[c] EXCEPT !.patch = n] ELSE mailbox[c]]
    BY <1>1, <1>7
  <2> QED
    BY <1>8, <2>1, OpenOnWorker
<1>10. ASSUME NEW c \in Conns, Open(c)'
       PROVE  StreamOK(conn[c], entry'[WorkerOf[c]], gate[WorkerOf[c]], delivered'[WorkerOf[c]], mailbox'[c], view[c])
  <2>1. Open(c) /\ WorkerOf[c] \in Workers
    BY <1>1, <1>10, SnapshotAssumption DEF Open
  <2>2. StreamOK(conn[c], entry[WorkerOf[c]], gate[WorkerOf[c]], delivered[WorkerOf[c]], mailbox[c], view[c])
    BY <2>1 DEF ReadsInv, StreamsOK
  <2>3. CASE WorkerOf[c] # w
    BY <1>2, <1>4, <1>9, <2>1, <2>2, <2>3
  <2>4. CASE WorkerOf[c] = w
    <3>1. mailbox'[c].snapshot = mailbox[c].snapshot /\ mailbox'[c].patch = delivered[w].patch + 1
      BY <1>7, <1>8, <1>9, <2>1, <2>4
    <3>2. entry'[w].epoch = entry[w].epoch + 1 /\ entry'[w].version = entry[w].version
      BY <1>4, <2>1, <2>4, OpenOnWorker
    <3>3. /\ conn[c] \in Connection /\ entry[w] \in ReadEntry /\ entry'[w] \in ReadEntry /\ gate[w] \in Gates
          /\ delivered[w] \in Count /\ delivered'[w] \in Count /\ mailbox[c] \in Box
          /\ mailbox'[c] \in Box /\ view[c] \in Value
      BY <1>2, <1>4, <1>9, ReadTypes
    <3>4. StreamOK(conn[c], entry[w], gate[w], delivered[w], mailbox[c], view[c])
      BY <2>2, <2>4
    <3>5. StreamOK(conn[c], entry'[w], gate[w], delivered'[w], mailbox'[c], view[c])
      BY <1>2, <3>1, <3>2, <3>3, <3>4, StreamPatched, SMTT(30)
    <3> QED
      BY <2>4, <3>5
  <2> QED
    BY <2>3, <2>4
<1>11. StreamsOK'
  BY <1>1, <1>10 DEF StreamsOK
<1>12. gate' \in [Workers -> Gates]
  BY <1>1 DEF ReadsInv, ReadsTypes
<1> QED
  BY <1>1, <1>2, <1>4, <1>5, <1>6, <1>9, <1>11, <1>12, HubFrame

LEMMA RecoverScopesKeeps ==
  ASSUME ReadsInv, NEW w \in Workers, RecoverScopes(w)
  PROVE  ReadsInv'
<1>1. /\ used' = [used EXCEPT !.recoveries = @ + 1]
      /\ cache' = IF Cacheable THEN Invalidated(cache) ELSE cache
      /\ UNCHANGED <<db, published, delivered, entry, gate, mailbox, conn, view>>
  BY DEF RecoverScopes
<1>2. CacheOK' /\ cache' \in CacheEntry
  <2>1. CASE Cacheable
    BY <1>1, <2>1, ScopeInvalidated
  <2>2. CASE ~Cacheable
    BY <1>1, <2>2, CacheTyped, CacheFrame
  <2> QED
    BY <2>1, <2>2
<1>3. ReadsTypes'
  BY <1>1, <1>2 DEF ReadsInv, ReadsTypes, CacheEntry
<1> QED
  BY <1>1, <1>2, <1>3, CacheSteps, SettledFrame DEF ReadsInv

LEMMA RecoverHubKeeps ==
  ASSUME ReadsInv, NEW w \in Workers, RecoverHub(w)
  PROVE  ReadsInv'
<1>1. /\ delivered' = [delivered EXCEPT ![w] = [change |-> published, patch |-> db.patch]]
      /\ HubDelivers(w)
      /\ UNCHANGED <<db, published, cache, gate, conn, view, used>>
  BY DEF RecoverHub
<1>2. PICK g \in Count : g = [change |-> published, patch |-> db.patch]
  BY CacheTyped DEF Count
<1>3. /\ delivered' \in [Workers -> Count] /\ delivered'[w] = g
      /\ \A x \in Workers \ {w} : delivered'[x] = delivered[x]
  BY <1>1, <1>2 DEF ReadsInv, ReadsTypes
<1>4. g.change = published /\ g.patch = db.patch
  BY <1>2
<1>5. InOrder'
  BY <1>1, <1>3, <1>4, CacheTyped DEF ReadsInv, InOrder
<1>6. gate' \in [Workers -> Gates]
  BY <1>1 DEF ReadsInv, ReadsTypes
<1>7. /\ StreamsOK' /\ FlightsOK' /\ entry' \in [Workers -> ReadEntry] /\ mailbox' \in [Conns -> Box]
      /\ \A x \in Workers : OpenOn(x)' = OpenOn(x)
  BY <1>1, <1>3, <1>6, HubKeeps
<1>8. GatesOK'
  BY <1>1, <1>7, GatesFrame
<1> QED
  BY <1>1, <1>3, <1>5, <1>6, <1>7, <1>8, HubFrame
(***************************************************************************)
(* A connection on its own.                                                *)
(***************************************************************************)
(* A step of one connection that neither starts nor ends a flight.         *)
LEMMA OwnStep ==
  ASSUME ReadsInv, NEW c \in Conns,
         conn' \in [Conns -> Connection], mailbox' \in [Conns -> Box], view' \in [Conns -> Value],
         \A o \in Conns \ {c} : conn'[o] = conn[o] /\ mailbox'[o] = mailbox[o] /\ view'[o] = view[o],
         UNCHANGED <<db, published, delivered, entry, gate>>,
         used' \in [closes : Nat, faults : Nat, recoveries : Nat], cache' \in CacheEntry, CacheOK',
         conn[c].pc # "closed", conn'[c].pc # "closed", conn'[c].pc \in Flights <=> conn[c].pc \in Flights,
         conn'[c].flight = conn[c].flight,
         conn'[c].pc = "await" /\ ~conn'[c].inbox.sent => conn[c].pc = "await" /\ ~conn[c].inbox.sent,
         StreamOK(conn'[c], entry[WorkerOf[c]], gate[WorkerOf[c]], delivered[WorkerOf[c]], mailbox'[c], view'[c])
  PROVE  ReadsInv'
<1>2. \A o \in Conns : /\ conn'[o].pc \in Flights <=> conn[o].pc \in Flights
                       /\ conn'[o].flight = conn[o].flight
                       /\ conn'[o].pc = "closed" <=> conn[o].pc = "closed"
                       /\ conn'[o].pc = "await" /\ ~conn'[o].inbox.sent => conn[o].pc = "await" /\ ~conn[o].inbox.sent
  OBVIOUS
<1>3. FlightsOK' /\ \A w \in Workers : OpenOn(w)' = OpenOn(w)
  BY <1>2, FlightsFrame
<1>4. GatesOK'
  BY <1>3 DEF ReadsInv, GatesOK
<1>5. StreamsOK'
  BY StreamsFrame
<1>6. InOrder'
  BY SettledFrame
<1>7. ReadsTypes'
  BY DEF ReadsInv, ReadsTypes, CacheEntry
<1> QED
  BY <1>3, <1>4, <1>5, <1>6, <1>7 DEF ReadsInv

(* The same, outside of the cache.                                         *)
LEMMA OwnCache ==
  ASSUME ReadsInv, NEW c \in Conns, NEW k \in Connection, conn' = [conn EXCEPT ![c] = k],
         UNCHANGED <<cache, published>>, k.generation = conn[c].generation, k.pc \notin {"lookup", "store"}
  PROVE  CacheOK' /\ cache' \in CacheEntry
<1>1. conn'[c] = k /\ \A o \in Conns \ {c} : conn'[o] = conn[o]
  BY DEF ReadsInv, ReadsTypes
<1> QED
  BY <1>1, CacheFrame, CacheTyped

LEMMA OwnState ==
  ASSUME ReadsInv, NEW c \in Conns
  PROVE  /\ conn[c] \in Connection /\ mailbox[c] \in Box /\ view[c] \in Value /\ WorkerOf[c] \in Workers
         /\ mailbox = [mailbox EXCEPT ![c] = mailbox[c]] /\ view = [view EXCEPT ![c] = view[c]]
         /\ entry[WorkerOf[c]] \in ReadEntry /\ gate[WorkerOf[c]] \in Gates /\ delivered[WorkerOf[c]] \in Count
         /\ used \in [closes : Nat, faults : Nat, recoveries : Nat]
         /\ Open(c) => StreamOK(conn[c], entry[WorkerOf[c]], gate[WorkerOf[c]], delivered[WorkerOf[c]], mailbox[c], view[c])
  BY SnapshotAssumption DEF ReadsInv, ReadsTypes, StreamsOK

(* A step that touches neither the mailbox nor the view.                   *)
LEMMA QuietStep ==
  ASSUME ReadsInv, NEW c \in Conns, NEW k \in Connection,
         conn' = [conn EXCEPT ![c] = k], UNCHANGED <<db, published, delivered, entry, gate, mailbox, view>>,
         used' \in [closes : Nat, faults : Nat, recoveries : Nat], cache' \in CacheEntry, CacheOK',
         conn[c].pc # "closed", k.pc # "closed", k.pc \in Flights <=> conn[c].pc \in Flights,
         k.flight = conn[c].flight,
         k.pc = "await" /\ ~k.inbox.sent => conn[c].pc = "await" /\ ~conn[c].inbox.sent,
         StreamOK(k, entry[WorkerOf[c]], gate[WorkerOf[c]], delivered[WorkerOf[c]], mailbox[c], view[c])
  PROVE  ReadsInv'
<1>1. conn'[c] = k /\ conn' \in [Conns -> Connection] /\ \A o \in Conns \ {c} : conn'[o] = conn[o]
  BY DEF ReadsInv, ReadsTypes
<1>2. mailbox' \in [Conns -> Box] /\ view' \in [Conns -> Value]
  BY DEF ReadsInv, ReadsTypes
<1> QED
  BY <1>1, <1>2, OwnStep

LEMMA LookupFailsKeeps ==
  ASSUME ReadsInv, NEW c \in Conns, LookupFails(c)
  PROVE  ReadsInv'
<1> DEFINE k == [conn[c] EXCEPT !.pc = "fetch"]
<1>1. /\ conn[c].pc = "lookup" /\ MayFail /\ conn' = [conn EXCEPT ![c] = k]
      /\ UNCHANGED <<db, published, delivered, cache, entry, gate, mailbox, view>>
  BY DEF LookupFails, SetConn
<1>2. k \in Connection /\ k.pc = "fetch" /\ k.generation = conn[c].generation /\ k.flight = conn[c].flight
  BY OwnState DEF Connection, ConnPcs
<1>3. StreamOK(k, entry[WorkerOf[c]], gate[WorkerOf[c]], delivered[WorkerOf[c]], mailbox[c], view[c])
  <2>1. /\ k.version = conn[c].version /\ k.epoch = conn[c].epoch /\ k.inbox = conn[c].inbox
        /\ k.minimum = conn[c].minimum
    BY OwnState DEF Connection
  <2>2. StreamOK(conn[c], entry[WorkerOf[c]], gate[WorkerOf[c]], delivered[WorkerOf[c]], mailbox[c], view[c])
    BY <1>1, OwnState DEF Open
  <2> HIDE DEF k
  <2> QED
    BY <1>1, <1>2, <2>1, <2>2 DEF StreamOK, Reading, Flights
<1>4. used' \in [closes : Nat, faults : Nat, recoveries : Nat]
  BY <1>1, UsedTyped
<1> HIDE DEF k
<1>5. CacheOK' /\ cache' \in CacheEntry
  BY <1>1, <1>2, OwnCache
<1>6. k.pc \in Flights /\ conn[c].pc \in Flights
  BY <1>1, <1>2 DEF Flights
<1> QED
  BY <1>1, <1>2, <1>3, <1>4, <1>5, <1>6, QuietStep

LEMMA StoreFailsKeeps ==
  ASSUME ReadsInv, NEW c \in Conns, StoreFails(c)
  PROVE  ReadsInv'
<1> DEFINE k == [conn[c] EXCEPT !.pc = "complete"]
<1>1. /\ conn[c].pc = "store" /\ MayFail /\ conn' = [conn EXCEPT ![c] = k]
      /\ UNCHANGED <<db, published, delivered, cache, entry, gate, mailbox, view>>
  BY DEF StoreFails, SetConn
<1>2. k \in Connection /\ k.pc = "complete" /\ k.generation = conn[c].generation /\ k.flight = conn[c].flight
  BY OwnState DEF Connection, ConnPcs
<1>3. StreamOK(k, entry[WorkerOf[c]], gate[WorkerOf[c]], delivered[WorkerOf[c]], mailbox[c], view[c])
  <2>1. /\ k.version = conn[c].version /\ k.epoch = conn[c].epoch /\ k.inbox = conn[c].inbox
        /\ k.minimum = conn[c].minimum /\ k.value = conn[c].value
    BY OwnState DEF Connection
  <2>2. StreamOK(conn[c], entry[WorkerOf[c]], gate[WorkerOf[c]], delivered[WorkerOf[c]], mailbox[c], view[c])
    BY <1>1, OwnState DEF Open
  <2> HIDE DEF k
  <2> QED
    BY <1>1, <1>2, <2>1, <2>2 DEF StreamOK, Reading, Flights
<1>4. used' \in [closes : Nat, faults : Nat, recoveries : Nat]
  BY <1>1, UsedTyped
<1> HIDE DEF k
<1>5. CacheOK' /\ cache' \in CacheEntry
  BY <1>1, <1>2, OwnCache
<1>6. k.pc \in Flights /\ conn[c].pc \in Flights
  BY <1>1, <1>2 DEF Flights
<1> QED
  BY <1>1, <1>2, <1>3, <1>4, <1>5, <1>6, QuietStep
LEMMA JoinRefusedKeeps ==
  ASSUME ReadsInv, NEW c \in Conns, JoinRefused(c)
  PROVE  ReadsInv'
<1> DEFINE k == [conn[c] EXCEPT !.pc = "write", !.value = Failed]
<1>1. /\ conn[c].pc = "read" /\ MayFail /\ conn' = [conn EXCEPT ![c] = k]
      /\ UNCHANGED <<db, published, delivered, cache, entry, gate, mailbox, view>>
  BY DEF JoinRefused, SetConn
<1>2. k \in Connection /\ k.pc = "write" /\ k.value = Failed /\ k.generation = conn[c].generation /\ k.flight = conn[c].flight
      /\ k.version = conn[c].version /\ k.epoch = conn[c].epoch /\ k.inbox = conn[c].inbox
  <2>1. PICK f \in Value : f = Failed
    BY ReadValues
  <2> QED
    BY <2>1, OwnState DEF Connection, ConnPcs
<1> HIDE DEF k
<1>3. StreamOK(k, entry[WorkerOf[c]], gate[WorkerOf[c]], delivered[WorkerOf[c]], mailbox[c], view[c])
  <2>1. StreamOK(conn[c], entry[WorkerOf[c]], gate[WorkerOf[c]], delivered[WorkerOf[c]], mailbox[c], view[c])
    BY <1>1, OwnState DEF Open
  <2> QED
    BY <1>2, <2>1, ReadValues DEF StreamOK, Reading, Flights, Shows
<1>4. used' \in [closes : Nat, faults : Nat, recoveries : Nat]
  BY <1>1, UsedTyped
<1>5. CacheOK' /\ cache' \in CacheEntry
  BY <1>1, <1>2, OwnCache
<1>6. k.pc \notin Flights /\ conn[c].pc \notin Flights
  BY <1>1, <1>2 DEF Flights
<1> QED
  BY <1>1, <1>2, <1>3, <1>4, <1>5, <1>6, QuietStep

(* What a query begun with the version and the epoch of its flight reads.  *)
LEMMA FreshCarries ==
  ASSUME NEW s \in Value, NEW e \in ReadEntry, NEW gt \in Gates, NEW d \in Count, NEW version \in Nat, NEW epoch \in Nat,
         s.failure \/ (s.db >= d.change /\ s.patch >= d.patch), epoch <= e.epoch
  PROVE  Carries(s, version, epoch, e, gt, d)
<1>1. s.db \in Nat /\ s.patch \in Nat /\ e.epoch \in Nat /\ d.patch \in Nat
  BY DEF Value, ReadEntry, Count
<1>2. CASE s.failure
  BY <1>2 DEF Carries
<1>3. CASE s.db >= d.change /\ s.patch >= d.patch
  <2>1. s.patch + e.epoch >= d.patch + epoch
    BY <1>1, <1>3
  <2> QED
    BY <1>3, <2>1 DEF Carries
<1> QED
  BY <1>2, <1>3

(* A flight that got its value.                                            *)
LEMMA StreamReads ==
  ASSUME NEW k \in Connection, NEW h \in Connection, NEW e \in ReadEntry, NEW gt \in Gates, NEW d \in Count,
         NEW box \in Box, NEW v \in Value,
         StreamOK(k, e, gt, d, box, v), k.pc \in Flights, h.pc \in {"store", "complete"},
         h.version = k.version, h.epoch = k.epoch, h.inbox = k.inbox, h.minimum = k.minimum,
         h.value.failure \/ (h.value.db >= d.change /\ h.value.patch >= d.patch)
  PROVE  StreamOK(h, e, gt, d, box, v)
<1>1. h.value \in Value /\ h.version \in Nat /\ h.epoch \in Nat
  BY DEF Connection
<1>2. h.epoch <= e.epoch
  BY DEF StreamOK
<1>3. Carries(h.value, h.version, h.epoch, e, gt, d)
  BY <1>1, <1>2, FreshCarries
<1> QED
  BY <1>3 DEF StreamOK, Reading, Flights

LEMMA FetchKeeps ==
  ASSUME ReadsInv, NEW c \in Conns, Fetch(c)
  PROVE  ReadsInv'
<1>1. conn[c].pc = "fetch" /\ UNCHANGED <<db, published, delivered, cache, entry, gate, mailbox, view>>
  BY DEF Fetch
<1>2. StreamOK(conn[c], entry[WorkerOf[c]], gate[WorkerOf[c]], delivered[WorkerOf[c]], mailbox[c], view[c])
  BY <1>1, OwnState DEF Open
<1>3. conn[c].pc \in Flights
  BY <1>1 DEF Flights
<1>4. CASE conn' = [conn EXCEPT ![c] = [conn[c] EXCEPT !.value = Snapshot(db.change, db.patch),
                         !.pc = IF @ = "fetch" /\ conn[c].generation # 0 THEN "store" ELSE "complete"]] /\ UNCHANGED used
  <2>1. PICK s \in Value : s = Snapshot(db.change, db.patch)
    BY CacheTyped, SnapshotValue
  <2>2. s.db = db.change /\ s.patch = db.patch
    BY <2>1, CacheTyped, SnapshotValue
  <2>3. PICK p \in {"store", "complete"} : p = IF conn[c].generation # 0 THEN "store" ELSE "complete"
    OBVIOUS
  <2> DEFINE k == [conn[c] EXCEPT !.value = s, !.pc = p]
  <2>4. conn' = [conn EXCEPT ![c] = k]
    BY <1>1, <1>4, <2>1, <2>3
  <2>5. /\ k \in Connection /\ k.pc = p /\ k.value = s /\ k.generation = conn[c].generation /\ k.flight = conn[c].flight
        /\ k.version = conn[c].version /\ k.epoch = conn[c].epoch /\ k.inbox = conn[c].inbox
        /\ k.minimum = conn[c].minimum
    BY OwnState DEF Connection, ConnPcs
  <2> HIDE DEF k
  <2>6. k.value.db >= delivered[WorkerOf[c]].change /\ k.value.patch >= delivered[WorkerOf[c]].patch
    <3>1. delivered[WorkerOf[c]].change \in Nat /\ delivered[WorkerOf[c]].patch \in Nat
          /\ delivered[WorkerOf[c]].change <= published /\ delivered[WorkerOf[c]].patch <= db.patch
      BY ReadTypes, OwnState DEF Count
    <3> QED
      BY <2>2, <2>5, <3>1, CacheTyped
  <2>7. StreamOK(k, entry[WorkerOf[c]], gate[WorkerOf[c]], delivered[WorkerOf[c]], mailbox[c], view[c])
    <3>1. /\ conn[c] \in Connection /\ mailbox[c] \in Box /\ view[c] \in Value
          /\ entry[WorkerOf[c]] \in ReadEntry /\ gate[WorkerOf[c]] \in Gates /\ delivered[WorkerOf[c]] \in Count
      BY OwnState
    <3> QED
      BY <1>2, <1>3, <2>3, <2>5, <2>6, <3>1, StreamReads
  <2>8. conn'[c] = k /\ \A o \in Conns \ {c} : conn'[o] = conn[o]
    BY <2>4 DEF ReadsInv, ReadsTypes
  <2>9. CacheOK' /\ cache' \in CacheEntry
    <3>1. p = "store" => Cacheable /\ k.value.db >= published
      <4>1. p = "store" => conn[c].generation # 0
        BY <2>3
      <4>2. conn[c].generation # 0 => Cacheable
        BY <1>1, CacheTyped DEF ReadsInv, CacheOK
      <4> QED
        BY <2>2, <2>5, <4>1, <4>2, CacheTyped
    <3> QED
      BY <1>1, <2>5, <2>8, <3>1, <2>3, CacheTyped DEF ReadsInv, CacheOK, CachedIsCurrent
  <2>10. used' \in [closes : Nat, faults : Nat, recoveries : Nat]
    BY <1>4, OwnState
  <2>11. k.pc \in Flights /\ k.pc # "closed" /\ k.pc # "await"
    BY <2>3, <2>5 DEF Flights
  <2> QED
    BY <1>1, <1>3, <2>4, <2>5, <2>7, <2>9, <2>10, <2>11, QuietStep
<1>5. CASE conn' = [conn EXCEPT ![c] = [conn[c] EXCEPT !.value = Failed, !.pc = "complete"]] /\ MayFail
  <2> DEFINE k == [conn[c] EXCEPT !.value = Failed, !.pc = "complete"]
  <2>1. /\ k \in Connection /\ k.pc = "complete" /\ k.value = Failed /\ k.generation = conn[c].generation
        /\ k.version = conn[c].version /\ k.epoch = conn[c].epoch /\ k.inbox = conn[c].inbox
        /\ k.minimum = conn[c].minimum /\ k.flight = conn[c].flight
    BY OwnState, ReadValues DEF Connection, ConnPcs
  <2>2. conn' = [conn EXCEPT ![c] = k]
    BY <1>5
  <2> HIDE DEF k
  <2>3. StreamOK(k, entry[WorkerOf[c]], gate[WorkerOf[c]], delivered[WorkerOf[c]], mailbox[c], view[c])
    <3>1. /\ conn[c] \in Connection /\ mailbox[c] \in Box /\ view[c] \in Value
          /\ entry[WorkerOf[c]] \in ReadEntry /\ gate[WorkerOf[c]] \in Gates /\ delivered[WorkerOf[c]] \in Count
      BY OwnState
    <3>2. k.value.failure
      BY <2>1, ReadValues
    <3> QED
      BY <1>2, <1>3, <2>1, <3>1, <3>2, StreamReads
  <2>4. CacheOK' /\ cache' \in CacheEntry
    BY <1>1, <2>1, <2>2, OwnCache
  <2>5. used' \in [closes : Nat, faults : Nat, recoveries : Nat]
    BY <1>5, UsedTyped
  <2>6. k.pc \in Flights
    BY <2>1 DEF Flights
  <2> QED
    BY <1>1, <1>3, <2>1, <2>2, <2>3, <2>4, <2>5, <2>6, QuietStep
<1> QED
  BY <1>4, <1>5 DEF Fetch, SetConn
(* redis_snapshot_cache::read: a hit has every published change, and a     *)
(* cached projection has no patches.                                       *)
LEMMA LookupKeeps ==
  ASSUME ReadsInv, NEW c \in Conns, Lookup(c)
  PROVE  ReadsInv'
<1>1. conn[c].pc = "lookup" /\ UNCHANGED <<db, published, delivered, entry, gate, mailbox, view, used>>
  BY DEF Lookup
<1>2. StreamOK(conn[c], entry[WorkerOf[c]], gate[WorkerOf[c]], delivered[WorkerOf[c]], mailbox[c], view[c])
  BY <1>1, OwnState DEF Open
<1>3. conn[c].pc \in Flights /\ Cacheable
  BY <1>1 DEF Flights, ReadsInv, CacheOK
<1>4. PICK k \in CacheEntry : k = IF cache.scope = 0 THEN Invalidated(cache) ELSE cache
  BY CacheTyped, NewGeneration
<1>5. /\ k.scope \in Nat /\ k.scope <= k.sequence /\ k.generation <= k.sequence /\ cache.sequence <= k.sequence
      /\ k.scope # 0 /\ k.generation = cache.generation /\ k.value = cache.value
      /\ k.generation = k.scope => k = cache
      /\ \A o \in Conns : conn[o].generation = k.scope => k = cache
      /\ \A o \in Conns : conn[o].generation <= k.sequence
  <2>1. CASE cache.scope = 0
    BY <1>4, <2>1, CacheTyped, NewGeneration DEF CacheEntry
  <2>2. CASE cache.scope # 0
    BY <1>4, <2>2, CacheTyped DEF CacheEntry
  <2> QED
    BY <2>1, <2>2
<1>6. CASE ~k.value.none /\ k.generation = k.scope
  <2> DEFINE h == [conn[c] EXCEPT !.pc = "complete", !.value = k.value]
  <2>1. cache' = k /\ conn' = [conn EXCEPT ![c] = h]
    BY <1>4, <1>6 DEF Lookup, SetConn
  <2>2. k = cache /\ k.value \in Value
    BY <1>5, <1>6 DEF CacheEntry
  <2>3. /\ h \in Connection /\ h.pc = "complete" /\ h.value = cache.value /\ h.generation = conn[c].generation
        /\ h.version = conn[c].version /\ h.epoch = conn[c].epoch /\ h.inbox = conn[c].inbox
        /\ h.minimum = conn[c].minimum /\ h.flight = conn[c].flight
    BY <2>2, OwnState DEF Connection, ConnPcs
  <2> HIDE DEF h
  <2>4. h.value.db >= published
    BY <1>5, <1>6, <2>2, <2>3 DEF ReadsInv, CacheOK, CachedIsCurrent
  <2>5. h.value.db >= delivered[WorkerOf[c]].change /\ h.value.patch >= delivered[WorkerOf[c]].patch
    <3>1. delivered[WorkerOf[c]].change \in Nat /\ delivered[WorkerOf[c]].patch \in Nat
          /\ delivered[WorkerOf[c]].change <= published /\ delivered[WorkerOf[c]].patch <= db.patch
      BY ReadTypes, OwnState DEF Count
    <3>2. db.patch <= 0
      BY <1>3, SnapshotAssumption DEF ReadsInv, InOrder
    <3>3. h.value.db \in Nat /\ h.value.patch \in Nat
      BY <2>2, <2>3 DEF Value
    <3>4. delivered[WorkerOf[c]].patch = 0
      BY <3>1, <3>2, CacheTyped
    <3> QED
      BY <2>4, <3>1, <3>3, <3>4, CacheTyped
  <2>6. StreamOK(h, entry[WorkerOf[c]], gate[WorkerOf[c]], delivered[WorkerOf[c]], mailbox[c], view[c])
    <3>1. /\ conn[c] \in Connection /\ mailbox[c] \in Box /\ view[c] \in Value
          /\ entry[WorkerOf[c]] \in ReadEntry /\ gate[WorkerOf[c]] \in Gates /\ delivered[WorkerOf[c]] \in Count
      BY OwnState
    <3> QED
      BY <1>2, <1>3, <2>3, <2>5, <3>1, StreamReads
  <2>7. CacheOK' /\ cache' \in CacheEntry
    BY <1>1, <2>1, <2>2, <2>3, OwnCache
  <2>8. used' \in [closes : Nat, faults : Nat, recoveries : Nat]
    BY <1>1, OwnState
  <2>9. h.pc \in Flights
    BY <2>3 DEF Flights
  <2> QED
    BY <1>1, <1>3, <2>1, <2>3, <2>6, <2>7, <2>8, <2>9, QuietStep
<1>7. CASE ~(~k.value.none /\ k.generation = k.scope)
  <2> DEFINE h == [conn[c] EXCEPT !.pc = "fetch", !.generation = k.scope]
  <2>1. cache' = [k EXCEPT !.value = None] /\ conn' = [conn EXCEPT ![c] = h]
    BY <1>4, <1>7 DEF Lookup, SetConn
  <2>2. /\ h \in Connection /\ h.pc = "fetch" /\ h.generation = k.scope
        /\ h.version = conn[c].version /\ h.epoch = conn[c].epoch /\ h.inbox = conn[c].inbox
        /\ h.minimum = conn[c].minimum /\ h.flight = conn[c].flight
    BY <1>5, OwnState DEF Connection, ConnPcs
  <2> HIDE DEF h
  <2>3. StreamOK(h, entry[WorkerOf[c]], gate[WorkerOf[c]], delivered[WorkerOf[c]], mailbox[c], view[c])
    BY <1>1, <1>2, <2>2 DEF StreamOK, Reading, Flights
  <2>4. /\ cache' \in CacheEntry /\ cache'.value.none /\ cache'.scope = k.scope /\ cache'.sequence = k.sequence
        /\ cache'.generation = k.generation
    BY <2>1, ReadValues DEF CacheEntry
  <2>5. conn'[c] = h /\ \A o \in Conns \ {c} : conn'[o] = conn[o]
    BY <2>1 DEF ReadsInv, ReadsTypes
  <2>6. CacheOK'
    <3>1. \A o \in Conns : conn'[o].pc = "store" /\ cache'.scope # 0 /\ conn'[o].generation = cache'.scope => conn'[o].value.db >= published
      BY <1>5, <2>2, <2>4, <2>5 DEF ReadsInv, CacheOK
    <3>2. \A o \in Conns : conn'[o].generation <= cache'.sequence
      BY <1>5, <2>2, <2>4, <2>5
    <3> QED
      BY <1>1, <1>3, <1>5, <2>4, <3>1, <3>2 DEF CacheOK, CachedIsCurrent
  <2>7. used' \in [closes : Nat, faults : Nat, recoveries : Nat]
    BY <1>1, OwnState
  <2>8. h.pc \in Flights
    BY <2>2 DEF Flights
  <2> QED
    BY <1>1, <1>3, <2>1, <2>2, <2>3, <2>4, <2>6, <2>7, <2>8, QuietStep
<1> QED
  BY <1>6, <1>7

(* lease::current: a result that began after the connection's read did has *)
(* every patch the mailbox does not bring.                                 *)
LEMMA CurrentShows ==
  ASSUME NEW s \in Value, NEW version \in Nat, NEW epoch \in Nat, NEW minimum \in Nat, NEW e \in ReadEntry,
         NEW gt \in Gates, NEW d \in Count, NEW box \in Box,
         Carries(s, version, epoch, e, gt, d), version = e.version, epoch >= minimum,
         box.snapshot \/ box.patch >= d.patch \/ e.epoch = minimum
  PROVE  Shows(s, box, gt, d)
<1>1. s.db \in Nat /\ s.patch \in Nat /\ e.epoch \in Nat /\ d.patch \in Nat /\ box.patch \in Nat
  BY DEF Value, ReadEntry, Count, Box
<1> QED
  BY <1>1 DEF Carries, Shows

LEMMA ReceiveKeeps ==
  ASSUME ReadsInv, NEW c \in Conns, Receive(c)
  PROVE  ReadsInv'
<1> DEFINE r == conn[c].inbox
<1>1. /\ conn[c].pc = "await" /\ r.sent
      /\ UNCHANGED <<db, published, delivered, cache, entry, gate, mailbox, view, used>>
  BY DEF Receive
<1>2. StreamOK(conn[c], entry[WorkerOf[c]], gate[WorkerOf[c]], delivered[WorkerOf[c]], mailbox[c], view[c])
  BY <1>1, OwnState DEF Open
<1>3. /\ r \in Result /\ r.snapshot \in Value /\ r.version \in Nat /\ r.epoch \in Nat
      /\ conn[c].joined \in Nat /\ conn[c].minimum \in Nat
  BY OwnState DEF Connection, Result
<1>4. used' \in [closes : Nat, faults : Nat, recoveries : Nat]
  BY <1>1, OwnState
<1>5. /\ conn[c] \in Connection /\ mailbox[c] \in Box /\ view[c] \in Value
      /\ entry[WorkerOf[c]] \in ReadEntry /\ gate[WorkerOf[c]] \in Gates /\ delivered[WorkerOf[c]] \in Count
  BY OwnState
<1>6. conn[c].pc \notin Flights
  BY <1>1 DEF Flights
<1>7. Carries(NoResult.snapshot, NoResult.version, NoResult.epoch, entry[WorkerOf[c]], gate[WorkerOf[c]], delivered[WorkerOf[c]])
      /\ NoResult.version <= entry[WorkerOf[c]].version
  BY <1>5, ReadValues DEF Carries, ReadEntry
<1>8. CASE Current(c, r)
  <2> DEFINE k == [conn[c] EXCEPT !.pc = "write", !.value = r.snapshot, !.inbox = NoResult]
  <2>1. conn' = [conn EXCEPT ![c] = k]
    BY <1>8 DEF Receive, SetConn
  <2>2. /\ k \in Connection /\ k.pc = "write" /\ k.value = r.snapshot /\ k.generation = conn[c].generation
        /\ k.version = conn[c].version /\ k.epoch = conn[c].epoch /\ k.inbox = NoResult
        /\ k.flight = conn[c].flight
    BY <1>3, OwnState, ReadValues DEF Connection, ConnPcs
  <2>3. Shows(r.snapshot, mailbox[c], gate[WorkerOf[c]], delivered[WorkerOf[c]])
    <3>1. r.version = entry[WorkerOf[c]].version /\ r.epoch >= Larger(conn[c].joined, conn[c].minimum)
      BY <1>8 DEF Current
    <3>2. r.epoch >= conn[c].minimum
      <4>1. PICK n \in Nat : n = Larger(conn[c].joined, conn[c].minimum) /\ n >= conn[c].minimum
        BY <1>3, LargerOf
      <4>2. r.epoch >= n
        BY <3>1, <4>1
      <4> HIDE DEF r
      <4> QED
        BY <1>3, <4>1, <4>2
    <3>3. Carries(r.snapshot, r.version, r.epoch, entry[WorkerOf[c]], gate[WorkerOf[c]], delivered[WorkerOf[c]])
          /\ (mailbox[c].snapshot \/ mailbox[c].patch >= delivered[WorkerOf[c]].patch \/ entry[WorkerOf[c]].epoch = conn[c].minimum)
      BY <1>1, <1>2 DEF StreamOK, Reading
    <3> HIDE DEF r
    <3> QED
      BY <1>3, <1>5, <3>1, <3>2, <3>3, CurrentShows
  <2> HIDE DEF k, r
  <2>4. StreamOK(k, entry[WorkerOf[c]], gate[WorkerOf[c]], delivered[WorkerOf[c]], mailbox[c], view[c])
    BY <1>2, <1>7, <2>2, <2>3 DEF StreamOK, Reading, Flights
  <2>5. CacheOK' /\ cache' \in CacheEntry
    BY <1>1, <2>1, <2>2, OwnCache
  <2>6. k.pc \notin Flights
    BY <2>2 DEF Flights
  <2> QED
    BY <1>1, <1>4, <1>6, <2>1, <2>2, <2>4, <2>5, <2>6, QuietStep
<1>9. CASE ~Current(c, r)
  <2> DEFINE k == [conn[c] EXCEPT !.pc = "read", !.inbox = NoResult]
  <2>1. conn' = [conn EXCEPT ![c] = k]
    BY <1>9 DEF Receive, SetConn
  <2>2. /\ k \in Connection /\ k.pc = "read" /\ k.generation = conn[c].generation /\ k.minimum = conn[c].minimum
        /\ k.version = conn[c].version /\ k.epoch = conn[c].epoch /\ k.inbox = NoResult
        /\ k.flight = conn[c].flight
    BY <1>3, OwnState, ReadValues DEF Connection, ConnPcs
  <2> HIDE DEF k, r
  <2>3. StreamOK(k, entry[WorkerOf[c]], gate[WorkerOf[c]], delivered[WorkerOf[c]], mailbox[c], view[c])
    BY <1>1, <1>2, <1>7, <2>2 DEF StreamOK, Reading, Flights
  <2>4. CacheOK' /\ cache' \in CacheEntry
    BY <1>1, <2>1, <2>2, OwnCache
  <2>5. k.pc \notin Flights
    BY <2>2 DEF Flights
  <2> QED
    BY <1>1, <1>4, <1>6, <2>1, <2>2, <2>3, <2>4, <2>5, QuietStep
<1> QED
  BY <1>8, <1>9
LEMMA WriteKeeps ==
  ASSUME ReadsInv, NEW c \in Conns, Write(c)
  PROVE  ReadsInv'
<1> DEFINE k == [conn[c] EXCEPT !.pc = "idle", !.value = None, !.patch = 0]
           s == conn[c].value
<1>1. /\ conn[c].pc = "write" /\ conn' = [conn EXCEPT ![c] = k]
      /\ view' = [view EXCEPT ![c] = IF s.failure THEN Failed ELSE Snapshot(s.db, Larger(s.patch, conn[c].patch))]
      /\ UNCHANGED <<db, published, delivered, cache, entry, gate, mailbox, used>>
  BY DEF Write, SetConn
<1>2. StreamOK(conn[c], entry[WorkerOf[c]], gate[WorkerOf[c]], delivered[WorkerOf[c]], mailbox[c], view[c])
  BY <1>1, OwnState DEF Open
<1>3. s \in Value /\ s.db \in Nat /\ s.patch \in Nat /\ conn[c].patch \in Nat
  BY OwnState DEF Connection, Value
<1>4. PICK p \in Nat : p = Larger(s.patch, conn[c].patch) /\ p >= s.patch
  BY <1>3, LargerOf
<1>5. PICK v \in Value : v = IF s.failure THEN Failed ELSE Snapshot(s.db, p)
  BY <1>3, ReadValues, SnapshotValue
<1>6. v.failure \/ (~s.failure /\ v.db = s.db /\ v.patch >= s.patch)
  BY <1>3, <1>4, <1>5, ReadValues, SnapshotValue
<1>7. Shows(s, mailbox[c], gate[WorkerOf[c]], delivered[WorkerOf[c]])
  BY <1>1, <1>2 DEF StreamOK
<1>8. v.db \in Nat /\ v.patch \in Nat /\ delivered[WorkerOf[c]].patch \in Nat /\ delivered[WorkerOf[c]].change \in Nat
  BY OwnState DEF Value, Count
<1>9. Shows(v, mailbox[c], gate[WorkerOf[c]], delivered[WorkerOf[c]])
  <2> HIDE DEF s
  <2> QED
    BY <1>3, <1>6, <1>7, <1>8 DEF Shows
<1>10. /\ k \in Connection /\ k.pc = "idle" /\ k.generation = conn[c].generation
       /\ k.version = conn[c].version /\ k.epoch = conn[c].epoch /\ k.inbox = conn[c].inbox
       /\ k.flight = conn[c].flight
  BY OwnState, ReadValues DEF Connection, ConnPcs
<1> HIDE DEF k
<1>11. StreamOK(k, entry[WorkerOf[c]], gate[WorkerOf[c]], delivered[WorkerOf[c]], mailbox[c], v)
  BY <1>2, <1>9, <1>10 DEF StreamOK, Reading, Flights
<1>12. CacheOK' /\ cache' \in CacheEntry
  BY <1>1, <1>10, OwnCache
<1>13. k.pc \notin Flights /\ conn[c].pc \notin Flights
  BY <1>1, <1>10 DEF Flights
<1>14. /\ conn' \in [Conns -> Connection] /\ conn'[c] = k /\ \A o \in Conns \ {c} : conn'[o] = conn[o]
       /\ mailbox' \in [Conns -> Box] /\ used' \in [closes : Nat, faults : Nat, recoveries : Nat]
  BY <1>1, <1>10 DEF ReadsInv, ReadsTypes
<1>15. view' \in [Conns -> Value] /\ view'[c] = v /\ \A o \in Conns \ {c} : view'[o] = view[o]
  <2>1. view' = [view EXCEPT ![c] = v]
    BY <1>1, <1>4, <1>5
  <2> QED
    BY <2>1 DEF ReadsInv, ReadsTypes
<1> QED
  BY <1>1, <1>10, <1>11, <1>12, <1>13, <1>14, <1>15, OwnStep

(* What the loop takes over from a drained mailbox.                        *)
LEMMA StreamDrained ==
  ASSUME NEW k \in Connection, NEW h \in Connection, NEW e \in ReadEntry, NEW gt \in Gates, NEW d \in Count,
         NEW box \in Box, NEW v \in Value, NEW u \in Value,
         StreamOK(k, e, gt, d, box, v), k.pc = "idle", h.pc = IF box.snapshot THEN "read" ELSE "idle",
         h.version = k.version, h.epoch = k.epoch, h.inbox = k.inbox, h.minimum = e.epoch,
         v.failure => u.failure, ~box.snapshot /\ ~v.failure => u.db = v.db /\ u.patch >= v.patch /\ u.patch >= box.patch
  PROVE  StreamOK(h, e, gt, d, EmptyMailbox, u)
<1>1. CASE box.snapshot
  BY <1>1 DEF StreamOK, Reading, Flights
<1>2. CASE ~box.snapshot
  <2>1. h.pc = "idle" /\ Shows(v, box, gt, d)
    BY <1>2 DEF StreamOK
  <2>2. /\ u.db \in Nat /\ u.patch \in Nat /\ v.patch \in Nat /\ d.patch \in Nat /\ box.patch \in Nat
        /\ u.failure \in BOOLEAN /\ v.failure \in BOOLEAN
    BY DEF Value, Count, Box
  <2>3. Shows(u, EmptyMailbox, gt, d) \/ v.failure
    BY <1>2, <2>1, <2>2 DEF Shows
  <2> QED
    BY <1>2, <2>1, <2>3 DEF StreamOK, Reading, Flights, Shows
<1> QED
  BY <1>1, <1>2
LEMMA PatchedViewOf ==
  ASSUME ReadsInv, NEW c \in Conns, NEW box \in Box
  PROVE  /\ PatchedView(c, box) \in [Conns -> Value]
         /\ \A o \in Conns \ {c} : PatchedView(c, box)[o] = view[o]
         /\ view[c].failure => PatchedView(c, box)[c].failure
         /\ ~box.snapshot /\ ~view[c].failure =>
              /\ PatchedView(c, box)[c].db = view[c].db
              /\ PatchedView(c, box)[c].patch >= view[c].patch /\ PatchedView(c, box)[c].patch >= box.patch
<1>1. view \in [Conns -> Value] /\ view[c] \in Value /\ view[c].patch \in Nat /\ box.patch \in Nat
  BY DEF ReadsInv, ReadsTypes, Value, Box
<1>2. CASE ~box.snapshot /\ box.patch # 0 /\ ~view[c].failure
  <2>1. PICK n \in Nat : n = Larger(view[c].patch, box.patch) /\ n >= view[c].patch /\ n >= box.patch
    BY <1>1, LargerOf
  <2>2. PICK u \in Value : u = [view[c] EXCEPT !.patch = n]
    BY <1>1 DEF Value
  <2>3. u.patch = n /\ u.db = view[c].db
    BY <1>1, <2>2 DEF Value
  <2>4. PatchedView(c, box) = [view EXCEPT ![c] = u]
    BY <1>2, <2>1, <2>2 DEF PatchedView
  <2>5. [view EXCEPT ![c] = u] \in [Conns -> Value] /\ [view EXCEPT ![c] = u][c] = u
        /\ \A o \in Conns \ {c} : [view EXCEPT ![c] = u][o] = view[o]
    BY <1>1
  <2> QED
    BY <1>2, <2>1, <2>3, <2>4, <2>5
<1>3. CASE ~(~box.snapshot /\ box.patch # 0 /\ ~view[c].failure)
  <2>1. PatchedView(c, box) = view
    BY <1>3 DEF PatchedView
  <2> QED
    BY <1>1, <1>3, <2>1
<1> QED
  BY <1>2, <1>3

LEMMA DrainedOf ==
  ASSUME ReadsInv, NEW c \in Conns, NEW box \in Box
  PROVE  /\ Drained(c, box) \in Connection
         /\ Drained(c, box).pc = IF box.snapshot THEN "read" ELSE "idle"
         /\ Drained(c, box).minimum = entry[WorkerOf[c]].epoch
         /\ Drained(c, box).version = conn[c].version /\ Drained(c, box).epoch = conn[c].epoch
         /\ Drained(c, box).inbox = conn[c].inbox /\ Drained(c, box).flight = conn[c].flight
         /\ Drained(c, box).generation = conn[c].generation
         /\ Drained(c, box).timer = Earlier(conn[c].timer, box.refresh)
<1>1. PICK p \in {"read", "idle"} : p = IF box.snapshot THEN "read" ELSE "idle"
  OBVIOUS
<1>2. PICK n \in Nat : n = IF box.snapshot THEN box.patch ELSE 0
  BY DEF Box
<1>3. PICK m \in Nat : m = entry[WorkerOf[c]].epoch
  BY OwnState DEF ReadEntry
<1>4. PICK t \in Deadline : t = Earlier(conn[c].timer, box.refresh)
  BY OwnState, EarlierOf DEF Connection, Box
<1>5. Drained(c, box) = [conn[c] EXCEPT !.pc = p, !.minimum = m, !.patch = n, !.timer = t]
  BY <1>1, <1>2, <1>3, <1>4 DEF Drained
<1>6. PICK k \in Connection : k = conn[c]
  BY OwnState
<1>7. /\ [k EXCEPT !.pc = p, !.minimum = m, !.patch = n, !.timer = t] \in Connection
      /\ [k EXCEPT !.pc = p, !.minimum = m, !.patch = n, !.timer = t].pc = p
      /\ [k EXCEPT !.pc = p, !.minimum = m, !.patch = n, !.timer = t].minimum = m
      /\ [k EXCEPT !.pc = p, !.minimum = m, !.patch = n, !.timer = t].timer = t
      /\ [k EXCEPT !.pc = p, !.minimum = m, !.patch = n, !.timer = t].version = k.version
      /\ [k EXCEPT !.pc = p, !.minimum = m, !.patch = n, !.timer = t].epoch = k.epoch
      /\ [k EXCEPT !.pc = p, !.minimum = m, !.patch = n, !.timer = t].inbox = k.inbox
      /\ [k EXCEPT !.pc = p, !.minimum = m, !.patch = n, !.timer = t].flight = k.flight
      /\ [k EXCEPT !.pc = p, !.minimum = m, !.patch = n, !.timer = t].generation = k.generation
  BY DEF Connection, ConnPcs
<1> QED
  BY <1>1, <1>3, <1>4, <1>5, <1>6, <1>7

LEMMA WakeKeeps ==
  ASSUME ReadsInv, NEW c \in Conns, WakeStream(c)
  PROVE  ReadsInv'
<1> DEFINE box == mailbox[c]
           k == Drained(c, box)
<1>1. /\ conn[c].pc = "idle" /\ conn' = [conn EXCEPT ![c] = k] /\ view' = PatchedView(c, box)
      /\ mailbox' = [mailbox EXCEPT ![c] = EmptyMailbox]
      /\ UNCHANGED <<db, published, delivered, cache, entry, gate, used>>
  BY DEF WakeStream, SetConn
<1>2. StreamOK(conn[c], entry[WorkerOf[c]], gate[WorkerOf[c]], delivered[WorkerOf[c]], box, view[c])
  BY <1>1, OwnState DEF Open
<1>3. /\ k \in Connection /\ k.pc = IF box.snapshot THEN "read" ELSE "idle"
      /\ k.minimum = entry[WorkerOf[c]].epoch /\ k.version = conn[c].version /\ k.epoch = conn[c].epoch
      /\ k.inbox = conn[c].inbox /\ k.flight = conn[c].flight /\ k.generation = conn[c].generation
  BY DrainedOf, OwnState
<1>4. /\ view' \in [Conns -> Value] /\ \A o \in Conns \ {c} : view'[o] = view[o]
      /\ view[c].failure => view'[c].failure
      /\ ~box.snapshot /\ ~view[c].failure =>
           view'[c].db = view[c].db /\ view'[c].patch >= view[c].patch /\ view'[c].patch >= box.patch
  BY <1>1, PatchedViewOf, OwnState
<1>6. /\ conn[c] \in Connection /\ box \in Box /\ view[c] \in Value /\ view'[c] \in Value
      /\ entry[WorkerOf[c]] \in ReadEntry /\ gate[WorkerOf[c]] \in Gates /\ delivered[WorkerOf[c]] \in Count
  BY <1>4, OwnState
<1> HIDE DEF k, box
<1>7. StreamOK(k, entry[WorkerOf[c]], gate[WorkerOf[c]], delivered[WorkerOf[c]], EmptyMailbox, view'[c])
  BY <1>1, <1>2, <1>3, <1>4, <1>6, StreamDrained
<1>8. k.pc \notin Flights /\ conn[c].pc \notin Flights /\ k.pc \notin {"lookup", "store", "closed", "await"}
  BY <1>1, <1>3 DEF Flights
<1>9. CacheOK' /\ cache' \in CacheEntry
  BY <1>1, <1>3, <1>8, OwnCache
<1>10. /\ conn' \in [Conns -> Connection] /\ conn'[c] = k /\ \A o \in Conns \ {c} : conn'[o] = conn[o]
       /\ mailbox' \in [Conns -> Box] /\ mailbox'[c] = EmptyMailbox /\ \A o \in Conns \ {c} : mailbox'[o] = mailbox[o]
       /\ used' \in [closes : Nat, faults : Nat, recoveries : Nat]
  BY <1>1, <1>3, ReadValues DEF ReadsInv, ReadsTypes
<1> QED
  BY <1>1, <1>3, <1>4, <1>7, <1>8, <1>9, <1>10, OwnStep
(* A passed deadline that releases nothing is reset.                       *)
LEMMA TimerResets ==
  ASSUME ReadsInv, NEW c \in Conns
  PROVE  LET k == [conn[c] EXCEPT !.timer = "none", !.minimum = entry[WorkerOf[c]].epoch, !.patch = 0] IN
         /\ k \in Connection /\ k.pc = conn[c].pc /\ k.minimum = entry[WorkerOf[c]].epoch /\ k.timer = "none"
         /\ k.version = conn[c].version /\ k.epoch = conn[c].epoch /\ k.inbox = conn[c].inbox
         /\ k.flight = conn[c].flight /\ k.generation = conn[c].generation
<1>1. PICK m \in Nat : m = entry[WorkerOf[c]].epoch
  BY OwnState DEF ReadEntry
<1>2. PICK k \in Connection : k = conn[c]
  BY OwnState
<1>3. /\ [k EXCEPT !.timer = "none", !.minimum = m, !.patch = 0] \in Connection
      /\ [k EXCEPT !.timer = "none", !.minimum = m, !.patch = 0].pc = k.pc
      /\ [k EXCEPT !.timer = "none", !.minimum = m, !.patch = 0].minimum = m
      /\ [k EXCEPT !.timer = "none", !.minimum = m, !.patch = 0].timer = "none"
      /\ [k EXCEPT !.timer = "none", !.minimum = m, !.patch = 0].version = k.version
      /\ [k EXCEPT !.timer = "none", !.minimum = m, !.patch = 0].epoch = k.epoch
      /\ [k EXCEPT !.timer = "none", !.minimum = m, !.patch = 0].inbox = k.inbox
      /\ [k EXCEPT !.timer = "none", !.minimum = m, !.patch = 0].flight = k.flight
      /\ [k EXCEPT !.timer = "none", !.minimum = m, !.patch = 0].generation = k.generation
  BY DEF Connection, Deadline
<1> QED
  BY <1>1, <1>2, <1>3

LEMMA ReadAgain ==
  ASSUME NEW k \in Connection
  PROVE  /\ [k EXCEPT !.pc = "read"] \in Connection /\ [k EXCEPT !.pc = "read"].pc = "read"
         /\ [k EXCEPT !.pc = "read"].minimum = k.minimum /\ [k EXCEPT !.pc = "read"].timer = k.timer
         /\ [k EXCEPT !.pc = "read"].version = k.version /\ [k EXCEPT !.pc = "read"].epoch = k.epoch
         /\ [k EXCEPT !.pc = "read"].inbox = k.inbox /\ [k EXCEPT !.pc = "read"].flight = k.flight
         /\ [k EXCEPT !.pc = "read"].generation = k.generation
  BY DEF Connection, ConnPcs

(* The deadlines of the connections that did not release.                  *)
LEMMA TimerAges ==
  ASSUME NEW k \in Connection
  PROVE  /\ [k EXCEPT !.timer = Aged(k.timer)] \in Connection /\ [k EXCEPT !.timer = Aged(k.timer)].pc = k.pc
         /\ [k EXCEPT !.timer = Aged(k.timer)].minimum = k.minimum /\ [k EXCEPT !.timer = Aged(k.timer)].value = k.value
         /\ [k EXCEPT !.timer = Aged(k.timer)].version = k.version /\ [k EXCEPT !.timer = Aged(k.timer)].epoch = k.epoch
         /\ [k EXCEPT !.timer = Aged(k.timer)].inbox = k.inbox /\ [k EXCEPT !.timer = Aged(k.timer)].flight = k.flight
         /\ [k EXCEPT !.timer = Aged(k.timer)].generation = k.generation
<1>1. PICK t \in Deadline : t = Aged(k.timer)
  BY EarlierOf DEF Connection
<1>2. /\ [k EXCEPT !.timer = t] \in Connection /\ [k EXCEPT !.timer = t].pc = k.pc
      /\ [k EXCEPT !.timer = t].minimum = k.minimum /\ [k EXCEPT !.timer = t].value = k.value
      /\ [k EXCEPT !.timer = t].version = k.version /\ [k EXCEPT !.timer = t].epoch = k.epoch
      /\ [k EXCEPT !.timer = t].inbox = k.inbox /\ [k EXCEPT !.timer = t].flight = k.flight
      /\ [k EXCEPT !.timer = t].generation = k.generation
  BY DEF Connection
<1> QED
  BY <1>1, <1>2

LEMMA BoxReleased ==
  ASSUME NEW box \in Box
  PROVE  /\ [box EXCEPT !.snapshot = TRUE, !.refresh = Aged(box.refresh)] \in Box
         /\ [box EXCEPT !.snapshot = TRUE, !.refresh = Aged(box.refresh)].snapshot
<1>1. PICK t \in Deadline : t = Aged(box.refresh)
  BY EarlierOf DEF Box
<1>2. [box EXCEPT !.snapshot = TRUE, !.refresh = t] \in Box /\ [box EXCEPT !.snapshot = TRUE, !.refresh = t].snapshot
  BY DEF Box
<1> QED
  BY <1>1, <1>2

(* The fields of a connection that the streams and flights depend on.      *)
SameStream(h, k) ==
  /\ h.pc = k.pc /\ h.version = k.version /\ h.epoch = k.epoch /\ h.inbox = k.inbox /\ h.minimum = k.minimum
  /\ h.value = k.value /\ h.flight = k.flight /\ h.generation = k.generation

LEMMA ReleaseKeeps ==
  ASSUME ReadsInv, NEW c \in Conns, ReleaseCoalesced(c)
  PROVE  ReadsInv'
<1> DEFINE w == WorkerOf[c]
           k == [conn[c] EXCEPT !.timer = "none", !.minimum = entry[w].epoch, !.patch = 0]
           h == [k EXCEPT !.pc = "read"]
<1>1. /\ conn[c].pc = "idle" /\ mailbox[c] = EmptyMailbox
      /\ UNCHANGED <<db, published, delivered, cache, view, used>>
  BY DEF ReleaseCoalesced
<1>2. StreamOK(conn[c], entry[w], gate[w], delivered[w], mailbox[c], view[c]) /\ Open(c)
  BY <1>1, OwnState DEF Open
<1>3. w \in Workers /\ gate \in [Workers -> Gates]
  BY OwnState DEF ReadsInv, ReadsTypes
<1>4. /\ k \in Connection /\ k.pc = "idle" /\ k.minimum = entry[w].epoch
      /\ k.version = conn[c].version /\ k.epoch = conn[c].epoch /\ k.inbox = conn[c].inbox
      /\ k.flight = conn[c].flight /\ k.generation = conn[c].generation
  BY <1>1, TimerResets
<1> HIDE DEF k
<1>5. /\ h \in Connection /\ h.pc = "read" /\ h.minimum = entry[w].epoch
      /\ h.version = conn[c].version /\ h.epoch = conn[c].epoch /\ h.inbox = conn[c].inbox
      /\ h.flight = conn[c].flight /\ h.generation = conn[c].generation
  BY <1>4, ReadAgain
<1> HIDE DEF h
<1>6. /\ conn[c] \in Connection /\ mailbox[c] \in Box /\ view[c] \in Value
      /\ entry[w] \in ReadEntry /\ gate[w] \in Gates /\ delivered[w] \in Count
      /\ used \in [closes : Nat, faults : Nat, recoveries : Nat]
  BY OwnState
<1>7. CASE gate[w] # "due" /\ SetConn(c, k) /\ UNCHANGED <<entry, gate, mailbox>>
  <2>1. StreamOK(k, entry[w], gate[w], delivered[w], mailbox[c], view[c])
    BY <1>1, <1>2, <1>4 DEF StreamOK, Reading, Flights
  <2>2. k.pc \notin Flights /\ conn[c].pc \notin Flights
    BY <1>1, <1>4 DEF Flights
  <2>3. CacheOK' /\ cache' \in CacheEntry
    BY <1>1, <1>4, <1>7, OwnCache DEF SetConn
  <2> QED
    BY <1>1, <1>4, <1>6, <1>7, <2>1, <2>2, <2>3, QuietStep DEF SetConn
<1>8. CASE /\ gate[w] = "due" /\ gate' = [gate EXCEPT ![w] = "shut"]
           /\ entry' = [entry EXCEPT ![w].version = @ + 1]
           /\ conn' = [o \in Conns |-> IF o = c THEN h
                                       ELSE IF o \in OpenOn(w) THEN [conn[o] EXCEPT !.timer = Aged(@)] ELSE conn[o]]
           /\ mailbox' = [o \in Conns |-> IF o \in OpenOn(w) \ {c}
                             THEN [mailbox[o] EXCEPT !.snapshot = TRUE, !.refresh = Aged(@)] ELSE mailbox[o]]
  <2>1. gate' \in [Workers -> Gates] /\ gate'[w] = "shut" /\ \A x \in Workers \ {w} : gate'[x] = gate[x]
    BY <1>3, <1>8 DEF Gates
  <2>2. /\ entry' \in [Workers -> ReadEntry]
        /\ \A x \in Workers : entry'[x] \in ReadEntry /\ entry'[x].epoch = entry[x].epoch
             /\ entry'[x].waiters = entry[x].waiters /\ entry'[x].loading = entry[x].loading
             /\ entry'[x].flight = entry[x].flight
        /\ \A x \in Workers \ {w} : entry'[x] = entry[x]
        /\ entry'[w].version = entry[w].version + 1
    <3>1. entry' = [entry EXCEPT ![w].version = IF TRUE THEN @ + 1 ELSE @]
      BY <1>8
    <3> QED
      BY <1>3, <3>1, NextVersion
  <2>3. ASSUME NEW o \in Conns \ {c}
        PROVE  /\ conn'[o] \in Connection /\ SameStream(conn'[o], conn[o])
               /\ mailbox'[o] \in Box
               /\ WorkerOf[o] = w /\ Open(o) => mailbox'[o].snapshot
               /\ WorkerOf[o] # w => conn'[o] = conn[o] /\ mailbox'[o] = mailbox[o]
    <3>1. conn[o] \in Connection /\ mailbox[o] \in Box
      BY ReadTypes
    <3>2. CASE o \in OpenOn(w)
      <4>1. /\ conn'[o] = [conn[o] EXCEPT !.timer = Aged(conn[o].timer)]
            /\ mailbox'[o] = [mailbox[o] EXCEPT !.snapshot = TRUE, !.refresh = Aged(mailbox[o].refresh)]
        BY <1>8, <3>2
      <4>2. WorkerOf[o] = w
        BY <3>2 DEF OpenOn
      <4>3. conn'[o] \in Connection /\ SameStream(conn'[o], conn[o])
        BY <3>1, <4>1, TimerAges DEF SameStream
      <4>4. mailbox'[o] \in Box /\ mailbox'[o].snapshot
        BY <3>1, <4>1, BoxReleased
      <4> QED
        BY <4>2, <4>3, <4>4
    <3>3. CASE o \notin OpenOn(w)
      <4>1. conn'[o] = conn[o] /\ mailbox'[o] = mailbox[o]
        BY <1>8, <3>3
      <4>2. ~(WorkerOf[o] = w /\ Open(o))
        BY <3>3 DEF OpenOn
      <4> QED
        BY <3>1, <4>1, <4>2 DEF SameStream
    <3> QED
      BY <3>2, <3>3
  <2>4. conn'[c] = h /\ mailbox'[c] = EmptyMailbox
    BY <1>1, <1>8
  <2>5. conn' \in [Conns -> Connection] /\ mailbox' \in [Conns -> Box]
    <3>1. \A o \in Conns : conn'[o] \in Connection /\ mailbox'[o] \in Box
      BY <1>5, <2>3, <2>4, ReadValues
    <3>2. conn' = [o \in Conns |-> conn'[o]] /\ mailbox' = [o \in Conns |-> mailbox'[o]]
      BY <1>8
    <3> QED
      BY <3>1, <3>2
  <2>6. \A o \in Conns : /\ conn'[o].pc \in Flights <=> conn[o].pc \in Flights
                         /\ conn'[o].flight = conn[o].flight
                         /\ conn'[o].pc = "closed" <=> conn[o].pc = "closed"
                         /\ conn'[o].pc = "await" /\ ~conn'[o].inbox.sent => conn[o].pc = "await" /\ ~conn[o].inbox.sent
    BY <1>1, <1>5, <2>3, <2>4 DEF SameStream, Flights
  <2>7. FlightsOK' /\ \A x \in Workers : OpenOn(x)' = OpenOn(x)
    BY <2>2, <2>6, FlightsFrame
  <2>8. GatesOK'
    BY <1>3, <1>8, <2>1, <2>7, GatesFrame
  <2>9. CacheOK'
    <3>1. \A o \in Conns : /\ conn'[o].generation = conn[o].generation
                           /\ conn'[o].pc \in {"lookup", "store"} => conn'[o].pc = conn[o].pc
                           /\ conn'[o].pc = "store" => conn'[o].value = conn[o].value
      BY <1>5, <2>3, <2>4 DEF SameStream
    <3> QED
      BY <1>1, <3>1, CacheFrame
  <2>10. entry'[w].version = entry[w].version + 1 /\ entry'[w].epoch = entry[w].epoch /\ entry'[w] \in ReadEntry
         /\ gate'[w] \in Gates
    BY <1>3, <2>1, <2>2
  <2>11. ASSUME NEW o \in Conns, Open(o)'
         PROVE  StreamOK(conn'[o], entry'[WorkerOf[o]], gate'[WorkerOf[o]], delivered[WorkerOf[o]], mailbox'[o], view[o])
    <3>1. CASE o = c
      <4>1. /\ h.version \in Nat /\ h.inbox \in Result /\ h.inbox.version \in Nat /\ entry[w].version \in Nat
            /\ h.version <= entry[w].version /\ h.inbox.version <= entry[w].version /\ h.epoch <= entry[w].epoch
        <5>1. conn[c].version <= entry[w].version /\ conn[c].inbox.version <= entry[w].version /\ conn[c].epoch <= entry[w].epoch
          BY <1>2 DEF StreamOK
        <5> QED
          BY <1>5, <1>6, <5>1 DEF Connection, Result, ReadEntry
      <4>2. h.version <= entry'[w].version /\ h.inbox.version < entry'[w].version /\ h.epoch <= entry'[w].epoch
            /\ h.minimum = entry'[w].epoch
        BY <1>5, <2>10, <4>1
      <4>3. StreamOK(h, entry'[w], gate'[w], delivered[w], EmptyMailbox, view[c])
        BY <1>5, <2>10, <4>1, <4>2 DEF StreamOK, Carries
      <4> QED
        BY <2>4, <3>1, <4>3
    <3>2. CASE o # c /\ WorkerOf[o] = w
      <4>1. Open(o) /\ SameStream(conn'[o], conn[o]) /\ mailbox'[o].snapshot /\ mailbox'[o] \in Box
            /\ conn'[o] \in Connection
        BY <2>3, <2>11, <3>2 DEF Open, SameStream
      <4>2. StreamOK(conn[o], entry[w], gate[w], delivered[w], mailbox[o], view[o])
        BY <3>2, <4>1, OwnState
      <4>3. conn[o] \in Connection /\ mailbox[o] \in Box /\ view[o] \in Value
        BY ReadTypes
      <4>4. StreamOK(conn[o], entry'[w], gate'[w], delivered[w], mailbox'[o], view[o])
        BY <1>6, <2>10, <4>1, <4>2, <4>3, StreamInvalidated
      <4> QED
        BY <3>2, <4>1, <4>4 DEF SameStream, StreamOK
    <3>3. CASE o # c /\ WorkerOf[o] # w
      <4>1. WorkerOf[o] \in Workers /\ mailbox'[o] = mailbox[o] /\ conn'[o] = conn[o] /\ Open(o)
        BY <2>3, <2>11, <3>3, ReadTypes DEF Open
      <4>2. StreamOK(conn[o], entry[WorkerOf[o]], gate[WorkerOf[o]], delivered[WorkerOf[o]], mailbox[o], view[o])
        BY <4>1, OwnState
      <4> QED
        BY <2>1, <2>2, <3>3, <4>1, <4>2
    <3> QED
      BY <3>1, <3>2, <3>3
  <2>12. StreamsOK'
    BY <1>1, <2>11 DEF StreamsOK
  <2>13. InOrder'
    BY <1>1, SettledFrame
  <2>14. ReadsTypes'
    BY <1>1, <2>1, <2>2, <2>5 DEF ReadsInv, ReadsTypes
  <2> QED
    BY <2>7, <2>8, <2>9, <2>12, <2>13, <2>14 DEF ReadsInv
<1> QED
  BY <1>7, <1>8 DEF ReleaseCoalesced, k, h
(***************************************************************************)
(* Flights.                                                                *)
(***************************************************************************)
LEMMA ReleasedEntry ==
  ASSUME NEW e \in ReadEntry
  PROVE  /\ Released(e) \in ReadEntry /\ Released(e).version = e.version /\ Released(e).epoch = e.epoch
         /\ ~Released(e).loading /\ Released(e).waiters = {}
  BY DEF Released, ReadEntry

(* The flight of a connection ends: its waiters have their answer.         *)
LEMMA FlightsEnded ==
  ASSUME ReadsInv, NEW c \in Conns, conn[c].pc \in Flights,
         \A x \in Workers \ {WorkerOf[c]} : entry'[x] = entry[x],
         ~entry'[WorkerOf[c]].loading, entry'[WorkerOf[c]].waiters = {},
         conn'[c].pc \notin Flights, conn'[c].flight = 0, conn'[c].pc = "await" => conn'[c].inbox.sent,
         \A o \in Conns \ {c} : /\ conn'[o].pc = conn[o].pc /\ conn'[o].flight = conn[o].flight
                                /\ conn[o].inbox.sent \/ o \in entry[WorkerOf[c]].waiters => conn'[o].inbox.sent
  PROVE  FlightsOK'
<1>1. FlightsOK /\ \A o \in Conns : WorkerOf[o] \in Workers
  BY SnapshotAssumption DEF ReadsInv
<1>2. \A o \in Conns \ {c} : conn[o].pc \in Flights => WorkerOf[o] # WorkerOf[c]
  BY <1>1 DEF FlightsOK
<1>3. \A o \in Conns :
        /\ conn'[o].flight # 0 <=> conn'[o].pc \in Flights
        /\ conn'[o].pc \in Flights =>
             /\ entry'[WorkerOf[o]].loading /\ conn'[o].flight = entry'[WorkerOf[o]].flight
             /\ o \in entry'[WorkerOf[o]].waiters
  <2> SUFFICES ASSUME NEW o \in Conns
               PROVE  /\ conn'[o].flight # 0 <=> conn'[o].pc \in Flights
                      /\ conn'[o].pc \in Flights =>
                           /\ entry'[WorkerOf[o]].loading /\ conn'[o].flight = entry'[WorkerOf[o]].flight
                           /\ o \in entry'[WorkerOf[o]].waiters
    OBVIOUS
  <2>1. CASE o = c
    BY <2>1
  <2>2. CASE o # c
    BY <1>1, <1>2, <2>2 DEF FlightsOK
  <2> QED
    BY <2>1, <2>2
<1>4. ASSUME NEW o \in Conns, conn'[o].pc = "await", ~conn'[o].inbox.sent
      PROVE  o \in entry'[WorkerOf[o]].waiters
  <2>1. o # c /\ conn[o].pc = "await" /\ ~conn[o].inbox.sent /\ o \notin entry[WorkerOf[c]].waiters
    BY <1>4
  <2>2. o \in entry[WorkerOf[o]].waiters
    BY <1>1, <2>1 DEF FlightsOK
  <2> QED
    BY <1>1, <2>1, <2>2
<1>5. \A a, o \in Conns : conn'[a].pc \in Flights /\ conn'[o].pc \in Flights /\ WorkerOf[a] = WorkerOf[o] => a = o
  BY <1>1 DEF FlightsOK
<1>6. ASSUME NEW x \in Workers
      PROVE  /\ entry'[x].waiters \subseteq OpenOn(x)'
             /\ entry'[x].waiters # {} => entry'[x].loading
             /\ entry'[x].loading => \E o \in OpenOn(x)' : conn'[o].pc \in Flights
  <2>1. CASE x = WorkerOf[c]
    BY <2>1
  <2>2. CASE x # WorkerOf[c]
    <3>1. OpenOn(x)' = OpenOn(x) /\ c \notin OpenOn(x)
      BY <2>2 DEF OpenOn, Open
    <3>2. entry'[x] = entry[x]
      BY <2>2
    <3>3. /\ entry[x].waiters \subseteq OpenOn(x)
          /\ entry[x].waiters # {} => entry[x].loading
          /\ entry[x].loading => \E o \in OpenOn(x) : conn[o].pc \in Flights
      BY <1>1 DEF FlightsOK
    <3>4. \A o \in OpenOn(x) : conn'[o].pc = conn[o].pc
      BY <3>1 DEF OpenOn
    <3> QED
      BY <3>1, <3>2, <3>3, <3>4
  <2> QED
    BY <2>1, <2>2
<1> QED
  BY <1>3, <1>4, <1>5, <1>6 DEF FlightsOK

(* Everything but the changed field stays when a result is sent.           *)
LEMMA ResultSent ==
  ASSUME ReadsInv, NEW w \in Workers, NEW ws \in SUBSET Conns, NEW r \in Result, ws \subseteq OpenOn(w),
         Carries(r.snapshot, r.version, r.epoch, entry[w], gate[w], delivered[w]), r.version <= entry[w].version
  PROVE  /\ Sent(conn, ws, r) \in [Conns -> Connection]
         /\ \A o \in Conns : /\ Sent(conn, ws, r)[o].pc = conn[o].pc /\ Sent(conn, ws, r)[o].flight = conn[o].flight
                             /\ Sent(conn, ws, r)[o].generation = conn[o].generation
                             /\ Sent(conn, ws, r)[o].value = conn[o].value
                             /\ Sent(conn, ws, r)[o].version = conn[o].version
                             /\ Sent(conn, ws, r)[o].epoch = conn[o].epoch
                             /\ Sent(conn, ws, r)[o].minimum = conn[o].minimum
                             /\ Sent(conn, ws, r)[o].timer = conn[o].timer
                             /\ Sent(conn, ws, r)[o].inbox = IF o \in ws THEN r ELSE conn[o].inbox
         /\ \A o \in Conns : Open(o) =>
              StreamOK(Sent(conn, ws, r)[o], entry[WorkerOf[o]], gate[WorkerOf[o]], delivered[WorkerOf[o]], mailbox[o], view[o])
<1> DEFINE S == Sent(conn, ws, r)
<1>1. \A o \in Conns : S[o] = IF o \in ws THEN [conn[o] EXCEPT !.inbox = r] ELSE conn[o]
  BY DEF Sent
<1>2. ASSUME NEW k \in Connection
      PROVE  /\ [k EXCEPT !.inbox = r] \in Connection /\ [k EXCEPT !.inbox = r].pc = k.pc
             /\ [k EXCEPT !.inbox = r].flight = k.flight /\ [k EXCEPT !.inbox = r].generation = k.generation
             /\ [k EXCEPT !.inbox = r].value = k.value /\ [k EXCEPT !.inbox = r].version = k.version
             /\ [k EXCEPT !.inbox = r].epoch = k.epoch /\ [k EXCEPT !.inbox = r].minimum = k.minimum
             /\ [k EXCEPT !.inbox = r].timer = k.timer /\ [k EXCEPT !.inbox = r].inbox = r
  BY DEF Connection
<1>3. \A o \in Conns : conn[o] \in Connection
  BY ReadTypes
<1>4. S \in [Conns -> Connection]
  BY <1>2, <1>3 DEF Sent
<1>5. ASSUME NEW o \in Conns, Open(o)
      PROVE  StreamOK(S[o], entry[WorkerOf[o]], gate[WorkerOf[o]], delivered[WorkerOf[o]], mailbox[o], view[o])
  <2>1. StreamOK(conn[o], entry[WorkerOf[o]], gate[WorkerOf[o]], delivered[WorkerOf[o]], mailbox[o], view[o])
    BY <1>5, OwnState
  <2>2. CASE o \in ws
    <3>1. WorkerOf[o] = w /\ S[o] = [conn[o] EXCEPT !.inbox = r]
      BY <1>1, <2>2 DEF OpenOn
    <3>2. conn[o] \in Connection /\ mailbox[o] \in Box /\ view[o] \in Value
          /\ entry[w] \in ReadEntry /\ gate[w] \in Gates /\ delivered[w] \in Count
      BY ReadTypes
    <3>3. StreamOK(conn[o], entry[w], gate[w], delivered[w], mailbox[o], view[o])
      BY <2>1, <3>1
    <3>4. StreamOK([conn[o] EXCEPT !.inbox = r], entry[w], gate[w], delivered[w], mailbox[o], view[o])
      BY <3>2, <3>3, ResultArrives
    <3> QED
      BY <3>1, <3>4
  <2>3. CASE o \notin ws
    BY <1>1, <2>1, <2>3
  <2> QED
    BY <2>2, <2>3
<1>6. ASSUME NEW o \in Conns
      PROVE  /\ S[o].pc = conn[o].pc /\ S[o].flight = conn[o].flight /\ S[o].generation = conn[o].generation
             /\ S[o].value = conn[o].value /\ S[o].version = conn[o].version /\ S[o].epoch = conn[o].epoch
             /\ S[o].minimum = conn[o].minimum /\ S[o].timer = conn[o].timer
             /\ S[o].inbox = IF o \in ws THEN r ELSE conn[o].inbox
  <2>1. CASE o \in ws
    <3>1. S[o] = [conn[o] EXCEPT !.inbox = r]
      BY <1>1, <2>1
    <3> HIDE DEF S
    <3> QED
      BY <1>2, <1>3, <2>1, <3>1
  <2>2. CASE o \notin ws
    BY <1>1, <2>2
  <2> QED
    BY <2>1, <2>2
<1> HIDE DEF S
<1>7. /\ S \in [Conns -> Connection]
      /\ \A o \in Conns : /\ S[o].pc = conn[o].pc /\ S[o].flight = conn[o].flight /\ S[o].generation = conn[o].generation
                          /\ S[o].value = conn[o].value /\ S[o].version = conn[o].version /\ S[o].epoch = conn[o].epoch
                          /\ S[o].minimum = conn[o].minimum /\ S[o].timer = conn[o].timer
                          /\ S[o].inbox = IF o \in ws THEN r ELSE conn[o].inbox
      /\ \A o \in Conns : Open(o) =>
           StreamOK(S[o], entry[WorkerOf[o]], gate[WorkerOf[o]], delivered[WorkerOf[o]], mailbox[o], view[o])
  BY <1>4, <1>5, <1>6
<1> QED
  BY <1>7 DEF S
(* A flight that ends on its own: what it sends, and what its connection   *)
(* becomes.                                                                *)
LEMMA FlightEndKeeps ==
  ASSUME ReadsInv, NEW c \in Conns, NEW ws \in SUBSET Conns, NEW r \in Result, NEW k \in Connection,
         conn[c].pc \in Flights, entry' = [entry EXCEPT ![WorkerOf[c]] = Released(@)],
         conn' = [Sent(conn, ws, r) EXCEPT ![c] = k],
         UNCHANGED <<db, published, delivered, cache, gate, mailbox, view, used>>,
         ws \subseteq entry[WorkerOf[c]].waiters, entry[WorkerOf[c]].waiters \subseteq ws \cup {c},
         Carries(r.snapshot, r.version, r.epoch, entry[WorkerOf[c]], gate[WorkerOf[c]], delivered[WorkerOf[c]]),
         r.version <= entry[WorkerOf[c]].version, r.sent,
         k.pc \in {"await", "read"}, k.flight = 0, k.pc = "await" => k.inbox.sent, k.generation = conn[c].generation,
         StreamOK(k, entry[WorkerOf[c]], gate[WorkerOf[c]], delivered[WorkerOf[c]], mailbox[c], view[c])
  PROVE  ReadsInv'
<1> DEFINE w == WorkerOf[c]
           S == Sent(conn, ws, r)
<1>1. w \in Workers /\ entry[w] \in ReadEntry /\ entry[w].waiters \subseteq OpenOn(w)
  BY OwnState DEF ReadsInv, FlightsOK
<1>2. PICK f \in ReadEntry : f = Released(entry[w])
  BY <1>1, ReleasedEntry
<1>3. /\ entry' \in [Workers -> ReadEntry] /\ entry'[w] = f
      /\ \A x \in Workers \ {w} : entry'[x] = entry[x]
  BY <1>1, <1>2, EntryUpdated
<1>4. f.version = entry[w].version /\ f.epoch = entry[w].epoch /\ ~f.loading /\ f.waiters = {}
  BY <1>1, <1>2, ReleasedEntry
<1>5. /\ S \in [Conns -> Connection]
      /\ \A o \in Conns : /\ S[o].pc = conn[o].pc /\ S[o].flight = conn[o].flight /\ S[o].generation = conn[o].generation
                          /\ S[o].value = conn[o].value /\ S[o].inbox = IF o \in ws THEN r ELSE conn[o].inbox
      /\ \A o \in Conns : Open(o) =>
           StreamOK(S[o], entry[WorkerOf[o]], gate[WorkerOf[o]], delivered[WorkerOf[o]], mailbox[o], view[o])
  BY <1>1, ResultSent
<1> HIDE DEF S
<1>6. conn' \in [Conns -> Connection] /\ conn'[c] = k /\ \A o \in Conns \ {c} : conn'[o] = S[o]
  BY <1>5 DEF S
<1>7. FlightsOK'
  <2>1. \A o \in Conns \ {c} : /\ conn'[o].pc = conn[o].pc /\ conn'[o].flight = conn[o].flight
                               /\ conn[o].inbox.sent \/ o \in entry[w].waiters => conn'[o].inbox.sent
    BY <1>5, <1>6
  <2>2. conn'[c].pc \notin Flights
    BY <1>6 DEF Flights
  <2> QED
    BY <1>3, <1>4, <1>6, <2>1, <2>2, FlightsEnded
<1>8. conn[c].pc # "closed" /\ k.pc # "closed" /\ \A o \in Conns : Open(o)' <=> Open(o)
  BY <1>5, <1>6 DEF Flights, Open
<1>9. ASSUME NEW o \in Conns, Open(o)'
      PROVE  StreamOK(conn'[o], entry'[WorkerOf[o]], gate[WorkerOf[o]], delivered[WorkerOf[o]], mailbox[o], view[o])
  <2>1. StreamOK(conn'[o], entry[WorkerOf[o]], gate[WorkerOf[o]], delivered[WorkerOf[o]], mailbox[o], view[o])
    BY <1>5, <1>6, <1>8, <1>9
  <2>2. entry'[WorkerOf[o]].version = entry[WorkerOf[o]].version /\ entry'[WorkerOf[o]].epoch = entry[WorkerOf[o]].epoch
    BY <1>3, <1>4, SnapshotAssumption
  <2> QED
    BY <2>1, <2>2, SameRead
<1>10. StreamsOK'
  BY <1>9 DEF StreamsOK
<1>11. GatesOK'
  BY <1>8 DEF ReadsInv, GatesOK, OpenOn
<1>12. CacheOK'
  <2>1. \A o \in Conns : /\ conn'[o].generation = conn[o].generation
                         /\ conn'[o].pc \in {"lookup", "store"} => conn'[o].pc = conn[o].pc
                         /\ conn'[o].pc = "store" => conn'[o].value = conn[o].value
    BY <1>5, <1>6
  <2> QED
    BY <2>1, CacheFrame
<1>13. InOrder'
  BY SettledFrame
<1>14. ReadsTypes'
  BY <1>3, <1>6 DEF ReadsInv, ReadsTypes
<1> QED
  BY <1>7, <1>10, <1>11, <1>12, <1>13, <1>14 DEF ReadsInv

(* ticket::finish: what is distributed was read under the version and the  *)
(* epoch it is labelled with.                                              *)
LEMMA DistributedOf ==
  ASSUME ReadsInv, NEW c \in Conns, conn[c].pc = "complete"
  PROVE  /\ Distributed(c) \in Result /\ Distributed(c).sent /\ Distributed(c).version <= entry[WorkerOf[c]].version
         /\ Carries(Distributed(c).snapshot, Distributed(c).version, Distributed(c).epoch,
                    entry[WorkerOf[c]], gate[WorkerOf[c]], delivered[WorkerOf[c]])
<1>1. StreamOK(conn[c], entry[WorkerOf[c]], gate[WorkerOf[c]], delivered[WorkerOf[c]], mailbox[c], view[c])
  BY OwnState DEF Open
<1>2. conn[c].value \in Value /\ conn[c].version \in Nat /\ conn[c].epoch \in Nat /\ entry[WorkerOf[c]].version \in Nat
  BY OwnState DEF Connection, ReadEntry
<1>3. CASE entry[WorkerOf[c]].version = conn[c].version
  <2> DEFINE r == [snapshot |-> conn[c].value, version |-> conn[c].version, epoch |-> conn[c].epoch, sent |-> TRUE]
  <2>1. Distributed(c) = r
    BY <1>3 DEF Distributed, NoResult
  <2>2. r \in Result /\ r.snapshot = conn[c].value /\ r.version = conn[c].version /\ r.epoch = conn[c].epoch /\ r.sent
    BY <1>2 DEF Result
  <2>3. Carries(conn[c].value, conn[c].version, conn[c].epoch, entry[WorkerOf[c]], gate[WorkerOf[c]], delivered[WorkerOf[c]])
        /\ conn[c].version <= entry[WorkerOf[c]].version
    BY <1>1 DEF StreamOK
  <2> HIDE DEF r
  <2> QED
    BY <2>1, <2>2, <2>3
<1>4. CASE entry[WorkerOf[c]].version # conn[c].version
  <2>1. Distributed(c) = Nothing
    BY <1>4 DEF Distributed
  <2> QED
    BY <1>2, <2>1, ReadValues DEF Carries
<1> QED
  BY <1>3, <1>4

LEMMA CompleteKeeps ==
  ASSUME ReadsInv, NEW c \in Conns, CompleteFlight(c)
  PROVE  ReadsInv'
<1> DEFINE w == WorkerOf[c]
           ws == entry[w].waiters
<1>1. /\ conn[c].pc = "complete" /\ entry' = [entry EXCEPT ![w] = Released(@)]
      /\ conn' = [Sent(conn, ws, Distributed(c)) EXCEPT ![c].pc = "await", ![c].flight = 0, ![c].value = None]
      /\ UNCHANGED <<db, published, delivered, cache, gate, mailbox, view, used>>
  BY DEF CompleteFlight
<1>2. conn[c].pc \in Flights
  BY <1>1 DEF Flights
<1>3. ws \in SUBSET Conns /\ ws \subseteq OpenOn(w) /\ c \in ws /\ w \in Workers
  BY <1>2, OwnState DEF ReadsInv, FlightsOK, ReadEntry
<1>4. PICK r \in Result : /\ r = Distributed(c) /\ r.sent /\ r.version <= entry[w].version
                          /\ Carries(r.snapshot, r.version, r.epoch, entry[w], gate[w], delivered[w])
  BY <1>1, DistributedOf
<1> DEFINE S == Sent(conn, ws, r)
           k == [S[c] EXCEPT !.pc = "await", !.flight = 0, !.value = None]
<1>5. /\ S \in [Conns -> Connection] /\ S[c] \in Connection
      /\ S[c].inbox = r /\ S[c].generation = conn[c].generation /\ S[c].pc = conn[c].pc
      /\ StreamOK(S[c], entry[w], gate[w], delivered[w], mailbox[c], view[c])
  <2>1. Open(c)
    BY <1>1 DEF Open
  <2> HIDE DEF ws
  <2>2. S \in [Conns -> Connection]
    BY <1>3, <1>4, ResultSent
  <2>3. S[c].inbox = (IF c \in ws THEN r ELSE conn[c].inbox) /\ S[c].generation = conn[c].generation /\ S[c].pc = conn[c].pc
    BY <1>3, <1>4, ResultSent
  <2>4. StreamOK(S[c], entry[w], gate[w], delivered[w], mailbox[c], view[c])
    BY <1>3, <1>4, <2>1, ResultSent
  <2> HIDE DEF S
  <2> QED
    BY <1>3, <2>2, <2>3, <2>4
<1>6. conn' = [S EXCEPT ![c] = k]
  BY <1>1, <1>4
<1> HIDE DEF S
<1>7. /\ k \in Connection /\ k.pc = "await" /\ k.flight = 0 /\ k.inbox = r /\ k.generation = conn[c].generation
      /\ k.version = S[c].version /\ k.epoch = S[c].epoch /\ k.minimum = S[c].minimum /\ k.timer = S[c].timer
  BY <1>5, ReadValues DEF Connection, ConnPcs
<1> HIDE DEF k
<1>8. StreamOK(k, entry[w], gate[w], delivered[w], mailbox[c], view[c])
  BY <1>1, <1>5, <1>7 DEF StreamOK, Reading, Flights
<1>9. conn' = [Sent(conn, ws, r) EXCEPT ![c] = k]
  BY <1>6 DEF S
<1> HIDE DEF ws
<1>10. entry[w].waiters \subseteq ws \cup {c} /\ ws \subseteq entry[w].waiters
  BY DEF ws
<1> QED
  BY <1>1, <1>2, <1>3, <1>4, <1>7, <1>8, <1>9, <1>10, FlightEndKeeps
LEMMA StoreKeeps ==
  ASSUME ReadsInv, NEW c \in Conns, Store(c)
  PROVE  ReadsInv'
<1> DEFINE w == WorkerOf[c]
<1>1. conn[c].pc = "store" /\ UNCHANGED <<db, published, delivered, gate, mailbox, view, used>>
  BY DEF Store
<1>2. StreamOK(conn[c], entry[w], gate[w], delivered[w], mailbox[c], view[c])
  BY <1>1, OwnState DEF Open
<1>3. conn[c].pc \in Flights
  BY <1>1 DEF Flights
<1>4. conn[c] \in Connection /\ conn[c].value \in Value /\ w \in Workers /\ entry[w] \in ReadEntry
  BY OwnState DEF Connection
<1>5. CASE cache.scope # 0 /\ cache.scope = conn[c].generation
  <2> DEFINE k == [conn[c] EXCEPT !.pc = "complete"]
  <2>1. /\ cache' = [cache EXCEPT !.value = conn[c].value, !.generation = cache.scope]
        /\ conn' = [conn EXCEPT ![c] = k] /\ UNCHANGED entry
    BY <1>5 DEF Store, SetConn
  <2>2. /\ k \in Connection /\ k.pc = "complete" /\ k.generation = conn[c].generation /\ k.flight = conn[c].flight
        /\ k.version = conn[c].version /\ k.epoch = conn[c].epoch /\ k.inbox = conn[c].inbox
        /\ k.minimum = conn[c].minimum /\ k.value = conn[c].value
    BY OwnState DEF Connection, ConnPcs
  <2> HIDE DEF k
  <2>3. StreamOK(k, entry[w], gate[w], delivered[w], mailbox[c], view[c])
    BY <1>1, <1>2, <2>2 DEF StreamOK, Reading, Flights
  <2>4. /\ cache' \in CacheEntry /\ cache'.value = conn[c].value /\ cache'.generation = cache.scope
        /\ cache'.scope = cache.scope /\ cache'.sequence = cache.sequence
    BY <1>4, <2>1, CacheTyped DEF CacheEntry
  <2>5. conn'[c] = k /\ \A o \in Conns \ {c} : conn'[o] = conn[o]
    BY <2>1, <2>2 DEF ReadsInv, ReadsTypes
  <2>6. conn[c].value.db >= published
    BY <1>1, <1>5 DEF ReadsInv, CacheOK
  <2>7. CacheOK'
    BY <1>1, <2>2, <2>4, <2>5, <2>6 DEF ReadsInv, CacheOK, CachedIsCurrent
  <2>8. used' \in [closes : Nat, faults : Nat, recoveries : Nat]
    BY <1>1, OwnState
  <2>9. k.pc \in Flights
    BY <2>2 DEF Flights
  <2> QED
    BY <1>1, <1>3, <2>1, <2>2, <2>3, <2>4, <2>7, <2>8, <2>9, QuietStep
<1>6. CASE ~(cache.scope # 0 /\ cache.scope = conn[c].generation)
  <2>1. PICK ws \in SUBSET Conns : ws = entry[w].waiters \ {c}
    BY <1>4 DEF ReadEntry
  <2>2. PICK r \in Result : r = Nothing
    BY ReadValues
  <2> DEFINE S == Sent(conn, ws, r)
             k == [conn[c] EXCEPT !.pc = "read", !.flight = 0, !.value = None]
  <2>3. entry' = [entry EXCEPT ![w] = Released(@)] /\ UNCHANGED cache
        /\ conn' = [S EXCEPT ![c].pc = "read", ![c].flight = 0, ![c].value = None]
    BY <1>6, <2>1, <2>2 DEF Store
  <2>4. S[c] = conn[c]
    BY <2>1 DEF Sent
  <2>5. conn' = [S EXCEPT ![c] = k]
    <3> HIDE DEF S
    <3>1. conn' = [S EXCEPT ![c] = [S[c] EXCEPT !.pc = "read", !.flight = 0, !.value = None]]
      BY <2>3
    <3> QED
      BY <2>4, <3>1
  <2>6. /\ k \in Connection /\ k.pc = "read" /\ k.flight = 0 /\ k.generation = conn[c].generation
        /\ k.version = conn[c].version /\ k.epoch = conn[c].epoch /\ k.inbox = conn[c].inbox
        /\ k.minimum = conn[c].minimum
    BY OwnState, ReadValues DEF Connection, ConnPcs
  <2> HIDE DEF k
  <2>7. StreamOK(k, entry[w], gate[w], delivered[w], mailbox[c], view[c])
    BY <1>1, <1>2, <2>6 DEF StreamOK, Reading, Flights
  <2>8. /\ r.sent /\ r.version <= entry[w].version
        /\ Carries(r.snapshot, r.version, r.epoch, entry[w], gate[w], delivered[w])
    BY <1>4, <2>2, ReadValues DEF Carries, ReadEntry
  <2>9. ws \subseteq entry[w].waiters /\ entry[w].waiters \subseteq ws \cup {c}
    BY <2>1
  <2>10. UNCHANGED <<db, published, delivered, cache, gate, mailbox, view, used>>
    BY <1>1, <2>3
  <2> QED
    BY <1>3, <2>3, <2>5, <2>6, <2>7, <2>8, <2>9, <2>10, FlightEndKeeps
<1> QED
  BY <1>5, <1>6

LEMMA JoinKeeps ==
  ASSUME ReadsInv, NEW c \in Conns, JoinRead(c)
  PROVE  ReadsInv'
<1> DEFINE w == WorkerOf[c]
           e == entry[w]
<1>1. /\ conn[c].pc = "read" /\ UNCHANGED <<db, published, delivered, cache, gate, mailbox, view, used>>
      /\ entry' = [entry EXCEPT ![w].waiters = @ \cup {c}, ![w].loading = TRUE,
                                ![w].flight = IF e.loading THEN @ ELSE @ + 1]
  BY DEF JoinRead
<1>2. StreamOK(conn[c], e, gate[w], delivered[w], mailbox[c], view[c]) /\ Open(c)
  BY <1>1, OwnState DEF Open
<1>3. w \in Workers /\ e \in ReadEntry /\ e.flight \in Nat /\ e.waiters \in SUBSET Conns /\ e.version \in Nat /\ e.epoch \in Nat
  BY OwnState DEF ReadEntry
<1>4. PICK n \in Nat : n = IF e.loading THEN e.flight ELSE e.flight + 1
  BY <1>3
<1>5. PICK ws \in SUBSET Conns : ws = e.waiters \cup {c}
  BY <1>3
<1>6. PICK f \in ReadEntry : f = [e EXCEPT !.waiters = ws, !.loading = TRUE, !.flight = n]
  BY <1>3 DEF ReadEntry
<1>7. f.waiters = ws /\ f.loading /\ f.flight = n /\ f.version = e.version /\ f.epoch = e.epoch
  <2> HIDE DEF e
  <2> QED
    BY <1>3, <1>6 DEF ReadEntry
<1>8. entry' = [entry EXCEPT ![w] = f]
  BY <1>1, <1>4, <1>5, <1>6
<1>9. /\ entry' \in [Workers -> ReadEntry] /\ entry'[w] = f
      /\ \A x \in Workers \ {w} : entry'[x] = entry[x]
  BY <1>3, <1>8, EntryUpdated
<1>10. \A x \in Workers : entry'[x].version = entry[x].version /\ entry'[x].epoch = entry[x].epoch
  BY <1>7, <1>9
<1>11. Carries(NoResult.snapshot, NoResult.version, NoResult.epoch, e, gate[w], delivered[w])
       /\ NoResult.version <= e.version
  BY <1>3, ReadValues DEF Carries
<1>12. FlightsOK /\ conn[c].pc \notin Flights
  BY <1>1 DEF ReadsInv, Flights
<1>13. PICK k \in Connection :
         /\ conn' = [conn EXCEPT ![c] = k]
         /\ StreamOK(k, e, gate[w], delivered[w], mailbox[c], view[c])
         /\ k.pc \in Reading /\ k.inbox = NoResult
         /\ e.loading => k.pc = "await" /\ k.flight = conn[c].flight /\ k.generation = conn[c].generation
         /\ ~e.loading => /\ k.pc \in Flights /\ k.flight = n /\ k.generation = 0
                          /\ k.pc = "fetch" \/ (k.pc = "lookup" /\ Cacheable)
  <2>1. CASE e.loading
    <3> DEFINE k == [conn[c] EXCEPT !.pc = "await", !.inbox = NoResult]
    <3>1. conn' = [conn EXCEPT ![c] = k]
      BY <2>1 DEF JoinRead, SetConn
    <3>2. /\ k \in Connection /\ k.pc = "await" /\ k.flight = conn[c].flight /\ k.generation = conn[c].generation
          /\ k.version = conn[c].version /\ k.epoch = conn[c].epoch /\ k.inbox = NoResult
          /\ k.minimum = conn[c].minimum
      BY OwnState, ReadValues DEF Connection, ConnPcs
    <3> HIDE DEF k, e
    <3>3. StreamOK(k, e, gate[w], delivered[w], mailbox[c], view[c])
      BY <1>1, <1>2, <1>11, <3>2 DEF StreamOK, Reading, Flights
    <3>4. k.pc \in Reading
      BY <3>2 DEF Reading
    <3> QED
      BY <2>1, <3>1, <3>2, <3>3, <3>4
  <2>2. CASE ~e.loading
    <3>1. PICK p \in {"lookup", "fetch"} : p = IF Cacheable THEN "lookup" ELSE "fetch"
      OBVIOUS
    <3> DEFINE k == [conn[c] EXCEPT !.pc = p, !.inbox = NoResult, !.version = e.version, !.epoch = e.epoch,
                       !.flight = n, !.generation = 0]
    <3>2. conn' = [conn EXCEPT ![c] = k]
      BY <1>4, <2>2, <3>1 DEF JoinRead, SetConn
    <3> HIDE DEF e
    <3>3. /\ k \in Connection /\ k.pc = p /\ k.flight = n /\ k.generation = 0
          /\ k.version = e.version /\ k.epoch = e.epoch /\ k.inbox = NoResult
          /\ k.minimum = conn[c].minimum
      BY <1>3, OwnState, ReadValues DEF Connection, ConnPcs
    <3> HIDE DEF k
    <3>4. StreamOK(k, e, gate[w], delivered[w], mailbox[c], view[c])
      BY <1>1, <1>2, <1>3, <1>11, <3>1, <3>3 DEF StreamOK, Reading, Flights
    <3>5. k.pc \in Reading /\ k.pc \in Flights
      BY <3>1, <3>3 DEF Reading, Flights
    <3> QED
      BY <2>2, <3>1, <3>2, <3>3, <3>4, <3>5
  <2> QED
    BY <2>1, <2>2
<1>14. conn' \in [Conns -> Connection] /\ conn'[c] = k /\ \A o \in Conns \ {c} : conn'[o] = conn[o]
  BY <1>13 DEF ReadsInv, ReadsTypes
<1>15. k.pc # "closed" /\ \A x \in Workers : OpenOn(x)' = OpenOn(x)
  BY <1>2, <1>13, <1>14 DEF OpenOn, Open, Reading, Flights
<1>16. GatesOK'
  BY <1>1, <1>15 DEF ReadsInv, GatesOK
<1>17. StreamsOK'
  BY <1>1, <1>10, <1>13, <1>14, StreamsFrame
<1>18. CacheOK'
  <2>1. /\ k.generation <= cache.sequence /\ k.pc # "store"
        /\ k.generation # 0 \/ k.pc \in {"lookup", "store"} => Cacheable
    <3>1. conn[c].generation <= cache.sequence /\ (conn[c].generation # 0 => Cacheable) /\ cache.sequence \in Nat
      BY CacheTyped DEF ReadsInv, CacheOK, CacheEntry
    <3>2. CASE e.loading
      BY <1>13, <3>1, <3>2
    <3>3. CASE ~e.loading
      BY <1>13, <3>1, <3>3
    <3> QED
      BY <3>2, <3>3
  <2> QED
    BY <1>1, <1>14, <2>1 DEF ReadsInv, CacheOK, CachedIsCurrent
<1>19. FlightsOK'
  <2>1. \A o \in Conns : WorkerOf[o] \in Workers
    BY SnapshotAssumption
  <2>2. ~e.loading => \A o \in Conns : conn[o].pc \in Flights => WorkerOf[o] # w
    BY <1>12 DEF FlightsOK
  <2>3. k.pc \in Flights <=> ~e.loading
    BY <1>13 DEF Flights
  <2>4. k.flight # 0 <=> k.pc \in Flights
    <3>1. conn[c].flight = 0
      BY <1>12 DEF FlightsOK
    <3>2. ~e.loading => n # 0
      BY <1>3, <1>4
    <3> QED
      BY <1>13, <2>3, <3>1, <3>2
  <2>5. e.loading => f.flight = e.flight
    BY <1>4, <1>7
  <2>6. ASSUME NEW o \in Conns
        PROVE  /\ conn'[o].flight # 0 <=> conn'[o].pc \in Flights
               /\ conn'[o].pc \in Flights =>
                    /\ entry'[WorkerOf[o]].loading /\ conn'[o].flight = entry'[WorkerOf[o]].flight
                    /\ o \in entry'[WorkerOf[o]].waiters
               /\ conn'[o].pc = "await" /\ ~conn'[o].inbox.sent => o \in entry'[WorkerOf[o]].waiters
    <3>1. CASE o = c
      BY <1>5, <1>7, <1>9, <1>13, <1>14, <2>3, <2>4, <3>1
    <3>2. CASE o # c
      <4>1. conn'[o] = conn[o]
        BY <1>14, <3>2
      <4>2. /\ conn[o].flight # 0 <=> conn[o].pc \in Flights
            /\ conn[o].pc \in Flights =>
                 /\ entry[WorkerOf[o]].loading /\ conn[o].flight = entry[WorkerOf[o]].flight
                 /\ o \in entry[WorkerOf[o]].waiters
            /\ conn[o].pc = "await" /\ ~conn[o].inbox.sent => o \in entry[WorkerOf[o]].waiters
        BY <1>12 DEF FlightsOK
      <4>3. CASE WorkerOf[o] = w
        BY <1>5, <1>7, <1>9, <2>5, <4>1, <4>2, <4>3
      <4>4. CASE WorkerOf[o] # w
        BY <1>9, <2>1, <4>1, <4>2, <4>4
      <4> QED
        BY <4>3, <4>4
    <3> QED
      BY <3>1, <3>2
  <2>7. ASSUME NEW a \in Conns, NEW o \in Conns, conn'[a].pc \in Flights, conn'[o].pc \in Flights,
               WorkerOf[a] = WorkerOf[o], a # o
        PROVE  FALSE
    <3>1. CASE a # c /\ o # c
      BY <1>12, <1>14, <2>7, <3>1 DEF FlightsOK
    <3>2. CASE a = c
      BY <1>14, <2>2, <2>3, <2>7, <3>2
    <3>3. CASE o = c
      BY <1>14, <2>2, <2>3, <2>7, <3>3
    <3> QED
      BY <3>1, <3>2, <3>3
  <2>8. ASSUME NEW x \in Workers
        PROVE  /\ entry'[x].waiters \subseteq OpenOn(x)'
               /\ entry'[x].waiters # {} => entry'[x].loading
               /\ entry'[x].loading => \E o \in OpenOn(x)' : conn'[o].pc \in Flights
    <3>1. /\ entry[x].waiters \subseteq OpenOn(x)
          /\ entry[x].waiters # {} => entry[x].loading
          /\ entry[x].loading => \E o \in OpenOn(x) : conn[o].pc \in Flights
      BY <1>12 DEF FlightsOK
    <3>2. \A o \in OpenOn(x) : o \in Conns /\ (conn[o].pc \in Flights => conn'[o].pc \in Flights)
      BY <1>12, <1>14 DEF OpenOn
    <3>3. CASE x = w
      <4>1. c \in OpenOn(x)
        BY <1>2, <3>3 DEF OpenOn
      <4>2. CASE e.loading
        BY <1>5, <1>7, <1>9, <1>15, <3>1, <3>2, <3>3, <4>1, <4>2
      <4>3. CASE ~e.loading
        BY <1>5, <1>7, <1>9, <1>14, <1>15, <2>3, <3>1, <3>3, <4>1, <4>3
      <4> QED
        BY <4>2, <4>3
    <3>4. CASE x # w
      <4>1. entry'[x] = entry[x]
        BY <1>9, <3>4
      <4> QED
        BY <1>15, <3>1, <3>2, <4>1
    <3> QED
      BY <3>3, <3>4
  <2> QED
    BY <2>6, <2>7, <2>8 DEF FlightsOK
<1>20. InOrder'
  BY <1>1, SettledFrame
<1>21. ReadsTypes'
  BY <1>1, <1>9, <1>14 DEF ReadsInv, ReadsTypes
<1> QED
  BY <1>16, <1>17, <1>18, <1>19, <1>20, <1>21 DEF ReadsInv
(***************************************************************************)
(* Connections come and go.                                                *)
(***************************************************************************)
LEMMA OpenKeeps ==
  ASSUME ReadsInv, NEW c \in Conns, OpenStream(c)
  PROVE  ReadsInv'
<1> DEFINE w == WorkerOf[c]
<1>1. w \in Workers /\ gate[w] \in Gates /\ FlightsOK
  BY OwnState DEF ReadsInv
<1>2. PICK e \in ReadEntry : e = IF OpenOn(w) = {} THEN NewEntry ELSE entry[w]
  BY OwnState, ReadValues
<1> DEFINE k == [Closed EXCEPT !.pc = "read", !.joined = e.epoch, !.minimum = e.epoch]
           box == FirstMailbox(w)
<1>3. /\ conn[c].pc = "closed" /\ entry' = [entry EXCEPT ![w] = e]
      /\ mailbox' = [mailbox EXCEPT ![c] = box] /\ conn' = [conn EXCEPT ![c] = k]
      /\ view' = [view EXCEPT ![c] = None]
      /\ UNCHANGED <<db, published, delivered, cache, gate, used>>
  BY <1>2 DEF OpenStream, SetConn
<1>4. /\ entry' \in [Workers -> ReadEntry] /\ entry'[w] = e
      /\ \A x \in Workers \ {w} : entry'[x] = entry[x]
  BY <1>1, <1>3, EntryUpdated
<1>5. /\ k \in Connection /\ k.pc = "read" /\ k.version = 0 /\ k.epoch = 0 /\ k.minimum = e.epoch
      /\ k.flight = 0 /\ k.generation = 0 /\ k.inbox = NoResult
  <2>1. e.epoch \in Nat
    BY DEF ReadEntry
  <2> QED
    BY <2>1, ReadValues DEF Connection, ConnPcs, Closed
<1>6. box \in Box
  <2>1. PICK t \in Deadline : t = IF gate[w] \in {"deferred", "due"} THEN "set" ELSE "none"
    BY DEF Deadline
  <2>2. box = [EmptyMailbox EXCEPT !.refresh = t]
    BY <2>1 DEF FirstMailbox, EmptyMailbox
  <2> HIDE DEF box
  <2> QED
    BY <2>2, ReadValues, BoxDeadline
<1> HIDE DEF k, box
<1>7. /\ conn' \in [Conns -> Connection] /\ conn'[c] = k /\ \A o \in Conns \ {c} : conn'[o] = conn[o]
      /\ mailbox' \in [Conns -> Box] /\ mailbox'[c] = box /\ \A o \in Conns \ {c} : mailbox'[o] = mailbox[o]
      /\ view' \in [Conns -> Value] /\ view'[c] = None /\ \A o \in Conns \ {c} : view'[o] = view[o]
  BY <1>3, <1>5, <1>6, ReadValues DEF ReadsInv, ReadsTypes
<1>8. StreamOK(k, e, gate[w], delivered[w], box, None)
  <2>1. e.version \in Nat /\ e.epoch \in Nat
    BY DEF ReadEntry
  <2>2. Carries(k.inbox.snapshot, k.inbox.version, k.inbox.epoch, e, gate[w], delivered[w])
    BY <1>5, ReadValues DEF Carries
  <2> QED
    BY <1>5, <1>6, <2>1, <2>2, ReadValues DEF StreamOK
<1>9. ASSUME NEW o \in Conns, Open(o)'
      PROVE  StreamOK(conn'[o], entry'[WorkerOf[o]], gate[WorkerOf[o]], delivered[WorkerOf[o]], mailbox'[o], view'[o])
  <2>1. CASE o = c
    BY <1>4, <1>7, <1>8, <2>1
  <2>2. CASE o # c
    <3>1. Open(o) /\ WorkerOf[o] \in Workers
      BY <1>7, <1>9, <2>2, ReadTypes DEF Open
    <3>2. StreamOK(conn[o], entry[WorkerOf[o]], gate[WorkerOf[o]], delivered[WorkerOf[o]], mailbox[o], view[o])
      BY <3>1, OwnState
    <3>3. entry'[WorkerOf[o]] = entry[WorkerOf[o]]
      BY <1>2, <1>4, <3>1 DEF OpenOn
    <3> QED
      BY <1>7, <2>2, <3>2, <3>3
  <2> QED
    BY <2>1, <2>2
<1>10. StreamsOK'
  BY <1>3, <1>9 DEF StreamsOK
<1>11. \A x \in Workers : OpenOn(x) \subseteq OpenOn(x)' /\ (x # w => OpenOn(x)' = OpenOn(x))
  BY <1>3, <1>5, <1>7 DEF OpenOn, Open
<1>12. GatesOK'
  BY <1>3, <1>11 DEF ReadsInv, GatesOK
<1>13. CacheOK'
  BY <1>3, <1>5, <1>7, CacheTyped DEF ReadsInv, CacheOK, CachedIsCurrent, CacheEntry
<1>14. FlightsOK'
  <2>1. \A o \in Conns : WorkerOf[o] \in Workers
    BY SnapshotAssumption
  <2>2. conn'[c].pc \notin Flights /\ conn[c].pc \notin Flights /\ conn'[c].flight = 0 /\ conn'[c].pc # "await"
    BY <1>3, <1>5, <1>7 DEF Flights
  <2>3. ASSUME NEW o \in Conns
        PROVE  /\ conn'[o].flight # 0 <=> conn'[o].pc \in Flights
               /\ conn'[o].pc \in Flights =>
                    /\ entry'[WorkerOf[o]].loading /\ conn'[o].flight = entry'[WorkerOf[o]].flight
                    /\ o \in entry'[WorkerOf[o]].waiters
               /\ conn'[o].pc = "await" /\ ~conn'[o].inbox.sent => o \in entry'[WorkerOf[o]].waiters
    <3>1. CASE o = c
      BY <2>2, <3>1
    <3>2. CASE o # c
      <4>1. conn'[o] = conn[o]
        BY <1>7, <3>2
      <4>2. conn[o].pc \in Flights \/ conn[o].pc = "await" => entry'[WorkerOf[o]] = entry[WorkerOf[o]]
        BY <1>2, <1>4, <2>1 DEF OpenOn, Open, Flights
      <4> QED
        BY <1>1, <4>1, <4>2 DEF FlightsOK
    <3> QED
      BY <3>1, <3>2
  <2>4. \A a, o \in Conns : conn'[a].pc \in Flights /\ conn'[o].pc \in Flights /\ WorkerOf[a] = WorkerOf[o] => a = o
    BY <1>1, <1>7, <2>2 DEF FlightsOK
  <2>5. ASSUME NEW x \in Workers
        PROVE  /\ entry'[x].waiters \subseteq OpenOn(x)'
               /\ entry'[x].waiters # {} => entry'[x].loading
               /\ entry'[x].loading => \E o \in OpenOn(x)' : conn'[o].pc \in Flights
    <3>1. CASE x = w /\ OpenOn(w) = {}
      <4>1. entry'[x].waiters = {} /\ ~entry'[x].loading
        BY <1>2, <1>4, <3>1 DEF NewEntry
      <4> QED
        BY <4>1
    <3>2. CASE ~(x = w /\ OpenOn(w) = {})
      <4>1. entry'[x] = entry[x]
        BY <1>2, <1>4, <3>2
      <4>2. /\ entry[x].waiters \subseteq OpenOn(x)
            /\ entry[x].waiters # {} => entry[x].loading
            /\ entry[x].loading => \E o \in OpenOn(x) : conn[o].pc \in Flights
        BY <1>1 DEF FlightsOK
      <4>3. \A o \in OpenOn(x) : conn[o].pc \in Flights => conn'[o].pc \in Flights
        BY <1>7, <2>2 DEF OpenOn
      <4> QED
        BY <1>11, <4>1, <4>2, <4>3
    <3> QED
      BY <3>1, <3>2
  <2> QED
    BY <2>3, <2>4, <2>5 DEF FlightsOK
<1>15. InOrder'
  BY <1>3, SettledFrame
<1>16. ReadsTypes'
  BY <1>3, <1>4, <1>7 DEF ReadsInv, ReadsTypes
<1> QED
  BY <1>10, <1>12, <1>13, <1>14, <1>15, <1>16 DEF ReadsInv

(* A connection that flies nothing leaves.                                 *)
LEMMA FlightsLeft ==
  ASSUME ReadsInv, NEW c \in Conns, conn[c].pc \notin Flights, conn'[c] = Closed,
         \A x \in Workers \ {WorkerOf[c]} : entry'[x] = entry[x],
         entry'[WorkerOf[c]].loading = entry[WorkerOf[c]].loading,
         entry'[WorkerOf[c]].waiters = entry[WorkerOf[c]].waiters \ {c},
         entry'[WorkerOf[c]].flight = entry[WorkerOf[c]].flight \/ OpenOn(WorkerOf[c]) \ {c} = {},
         \A o \in Conns \ {c} : conn'[o] = conn[o]
  PROVE  FlightsOK'
<1>1. FlightsOK /\ \A o \in Conns : WorkerOf[o] \in Workers
  BY SnapshotAssumption DEF ReadsInv
<1>2. conn'[c].pc \notin Flights /\ conn'[c].flight = 0 /\ conn'[c].pc = "closed"
  BY ReadValues DEF Flights
<1>3. ASSUME NEW o \in Conns
      PROVE  /\ conn'[o].flight # 0 <=> conn'[o].pc \in Flights
             /\ conn'[o].pc \in Flights =>
                  /\ entry'[WorkerOf[o]].loading /\ conn'[o].flight = entry'[WorkerOf[o]].flight
                  /\ o \in entry'[WorkerOf[o]].waiters
             /\ conn'[o].pc = "await" /\ ~conn'[o].inbox.sent => o \in entry'[WorkerOf[o]].waiters
  <2>1. CASE o = c
    BY <1>2, <2>1
  <2>2. CASE o # c /\ WorkerOf[o] # WorkerOf[c]
    <3>1. entry'[WorkerOf[o]] = entry[WorkerOf[o]] /\ conn'[o] = conn[o]
      BY <1>1, <2>2
    <3> QED
      BY <1>1, <3>1 DEF FlightsOK
  <2>3. CASE o # c /\ WorkerOf[o] = WorkerOf[c]
    <3>1. conn'[o] = conn[o]
      BY <2>3
    <3>2. conn[o].pc \in Flights => entry'[WorkerOf[c]].flight = entry[WorkerOf[c]].flight
      BY <2>3 DEF OpenOn, Open, Flights
    <3>3. /\ conn[o].flight # 0 <=> conn[o].pc \in Flights
          /\ conn[o].pc \in Flights =>
               /\ entry[WorkerOf[c]].loading /\ conn[o].flight = entry[WorkerOf[c]].flight
               /\ o \in entry[WorkerOf[c]].waiters
          /\ conn[o].pc = "await" /\ ~conn[o].inbox.sent => o \in entry[WorkerOf[c]].waiters
      BY <1>1, <2>3 DEF FlightsOK
    <3> QED
      BY <2>3, <3>1, <3>2, <3>3
  <2> QED
    BY <2>1, <2>2, <2>3
<1>4. \A a, o \in Conns : conn'[a].pc \in Flights /\ conn'[o].pc \in Flights /\ WorkerOf[a] = WorkerOf[o] => a = o
  BY <1>1, <1>2 DEF FlightsOK
<1>5. ASSUME NEW x \in Workers
      PROVE  /\ entry'[x].waiters \subseteq OpenOn(x)'
             /\ entry'[x].waiters # {} => entry'[x].loading
             /\ entry'[x].loading => \E o \in OpenOn(x)' : conn'[o].pc \in Flights
  <2>1. /\ entry[x].waiters \subseteq OpenOn(x)
        /\ entry[x].waiters # {} => entry[x].loading
        /\ entry[x].loading => \E o \in OpenOn(x) : conn[o].pc \in Flights
    BY <1>1 DEF FlightsOK
  <2>2. OpenOn(x)' = OpenOn(x) \ {c}
    BY <1>2 DEF OpenOn, Open
  <2>3. \A o \in OpenOn(x) : conn[o].pc \in Flights => o # c /\ conn'[o].pc \in Flights
    BY DEF OpenOn
  <2>4. CASE x = WorkerOf[c]
    BY <2>1, <2>2, <2>3, <2>4
  <2>5. CASE x # WorkerOf[c]
    <3>1. c \notin OpenOn(x) /\ entry'[x] = entry[x]
      BY <2>5 DEF OpenOn
    <3> QED
      BY <2>1, <2>2, <2>3, <3>1
  <2> QED
    BY <2>4, <2>5
<1> QED
  BY <1>3, <1>4, <1>5 DEF FlightsOK
LEMMA CloseKeeps ==
  ASSUME ReadsInv, NEW c \in Conns, CloseStream(c)
  PROVE  ReadsInv'
<1> DEFINE w == WorkerOf[c]
           others == OpenOn(w) \ {c}
           left == IF HasFlight(c) THEN Released(entry[w]) ELSE [entry[w] EXCEPT !.waiters = @ \ {c}]
<1>1. w \in Workers /\ entry[w] \in ReadEntry /\ FlightsOK /\ gate \in [Workers -> Gates]
  BY OwnState DEF ReadsInv, ReadsTypes
<1>2. entry[w].waiters \in SUBSET Conns /\ entry[w].waiters \subseteq OpenOn(w)
  BY <1>1 DEF FlightsOK, ReadEntry
<1>3. PICK ws \in SUBSET Conns : ws = IF HasFlight(c) THEN entry[w].waiters ELSE {}
  BY <1>2
<1>4. PICK r \in Result : r = Nothing
  BY ReadValues
<1> DEFINE S == Sent(conn, ws, r)
<1>5. /\ Open(c) /\ used' = [used EXCEPT !.closes = @ + 1]
      /\ entry' = [entry EXCEPT ![w] = IF others = {} THEN NewEntry ELSE left]
      /\ gate' = [gate EXCEPT ![w] = GateAfter(w, others)]
      /\ conn' = [S EXCEPT ![c] = Closed] /\ mailbox' = [mailbox EXCEPT ![c] = EmptyMailbox]
      /\ view' = [view EXCEPT ![c] = None] /\ UNCHANGED <<db, published, delivered, cache>>
  BY <1>3, <1>4 DEF CloseStream
<1>6. HasFlight(c) <=> conn[c].pc \in Flights
  BY <1>1 DEF FlightsOK, HasFlight
<1>7. ws \subseteq OpenOn(w)
  BY <1>2, <1>3
<1>8. /\ r.sent /\ r.version <= entry[w].version
      /\ Carries(r.snapshot, r.version, r.epoch, entry[w], gate[w], delivered[w])
  BY <1>1, <1>4, ReadValues DEF Carries, ReadEntry
<1>9. /\ S \in [Conns -> Connection]
      /\ \A o \in Conns : /\ S[o].pc = conn[o].pc /\ S[o].flight = conn[o].flight /\ S[o].generation = conn[o].generation
                          /\ S[o].value = conn[o].value /\ S[o].inbox = IF o \in ws THEN r ELSE conn[o].inbox
      /\ \A o \in Conns : Open(o) =>
           StreamOK(S[o], entry[WorkerOf[o]], gate[WorkerOf[o]], delivered[WorkerOf[o]], mailbox[o], view[o])
  BY <1>1, <1>7, <1>8, ResultSent
<1>10. ~HasFlight(c) => \A o \in Conns : S[o] = conn[o]
  BY <1>3 DEF Sent
<1> HIDE DEF S
<1>11. /\ conn' \in [Conns -> Connection] /\ conn'[c] = Closed /\ \A o \in Conns \ {c} : conn'[o] = S[o]
       /\ mailbox' \in [Conns -> Box] /\ \A o \in Conns \ {c} : mailbox'[o] = mailbox[o]
       /\ view' \in [Conns -> Value] /\ \A o \in Conns \ {c} : view'[o] = view[o]
  BY <1>5, <1>9, ReadValues DEF ReadsInv, ReadsTypes
<1>12. /\ left \in ReadEntry /\ left.version = entry[w].version /\ left.epoch = entry[w].epoch
       /\ HasFlight(c) => ~left.loading /\ left.waiters = {}
       /\ ~HasFlight(c) => left.loading = entry[w].loading /\ left.waiters = entry[w].waiters \ {c} /\ left.flight = entry[w].flight
  <2>1. CASE HasFlight(c)
    BY <1>1, <2>1, ReleasedEntry
  <2>2. CASE ~HasFlight(c)
    <3>1. PICK z \in SUBSET Conns : z = entry[w].waiters \ {c}
      BY <1>2
    <3>2. left = [entry[w] EXCEPT !.waiters = z]
      BY <2>2, <3>1
    <3>3. /\ [entry[w] EXCEPT !.waiters = z] \in ReadEntry
          /\ [entry[w] EXCEPT !.waiters = z].version = entry[w].version
          /\ [entry[w] EXCEPT !.waiters = z].epoch = entry[w].epoch
          /\ [entry[w] EXCEPT !.waiters = z].loading = entry[w].loading
          /\ [entry[w] EXCEPT !.waiters = z].flight = entry[w].flight
          /\ [entry[w] EXCEPT !.waiters = z].waiters = z
      BY <1>1 DEF ReadEntry
    <3> HIDE DEF left
    <3> QED
      BY <2>2, <3>1, <3>2, <3>3
  <2> QED
    BY <2>1, <2>2
<1> HIDE DEF left
<1>13. PICK f \in ReadEntry : f = IF others = {} THEN NewEntry ELSE left
  BY <1>12, ReadValues
<1>14. /\ entry' \in [Workers -> ReadEntry] /\ entry'[w] = f
       /\ \A x \in Workers \ {w} : entry'[x] = entry[x]
  BY <1>1, <1>5, <1>13, EntryUpdated
<1>15. /\ gate' \in [Workers -> Gates] /\ gate'[w] = GateAfter(w, others)
       /\ \A x \in Workers \ {w} : gate'[x] = gate[x]
  BY <1>1, <1>5, OwnState DEF GateAfter, Gates
<1>16. \A x \in Workers : OpenOn(x)' = OpenOn(x) \ {c}
  BY <1>9, <1>11, ReadValues DEF OpenOn, Open
<1>17. FlightsOK'
  <2>1. CASE HasFlight(c)
    <3>1. ~f.loading /\ f.waiters = {}
      BY <1>12, <1>13, <2>1 DEF NewEntry
    <3>2. conn'[c].pc \notin Flights /\ conn'[c].flight = 0 /\ conn'[c].pc # "await"
      BY <1>11, ReadValues DEF Flights
    <3>3. \A o \in Conns \ {c} : /\ conn'[o].pc = conn[o].pc /\ conn'[o].flight = conn[o].flight
                                 /\ conn[o].inbox.sent \/ o \in entry[w].waiters => conn'[o].inbox.sent
      BY <1>3, <1>8, <1>9, <1>11, <2>1
    <3> QED
      BY <1>6, <1>14, <2>1, <3>1, <3>2, <3>3, FlightsEnded
  <2>2. CASE ~HasFlight(c)
    <3>1. \A o \in Conns \ {c} : conn'[o] = conn[o]
      BY <1>10, <1>11, <2>2
    <3>2. conn[c].pc \notin Flights
      BY <1>6, <2>2
    <3>3. others = {} => ~entry[w].loading /\ entry[w].waiters \ {c} = {}
      <4>1. entry[w].loading => \E o \in OpenOn(w) : conn[o].pc \in Flights
        BY <1>1 DEF FlightsOK
      <4> QED
        BY <1>2, <3>2, <4>1
    <3>4. /\ f.loading = entry[w].loading /\ f.waiters = entry[w].waiters \ {c}
          /\ f.flight = entry[w].flight \/ others = {}
      <4>1. CASE others = {}
        <5>1. f.waiters = {} /\ f.loading = FALSE
          BY <1>13, <4>1 DEF NewEntry
        <5>2. entry[w].loading = FALSE
          BY <1>1, <3>3, <4>1 DEF ReadEntry
        <5> QED
          BY <3>3, <4>1, <5>1, <5>2
      <4>2. CASE others # {}
        BY <1>12, <1>13, <2>2, <4>2
      <4> QED
        BY <4>1, <4>2
    <3> QED
      BY <1>11, <1>14, <3>1, <3>2, <3>4, FlightsLeft
  <2> QED
    BY <2>1, <2>2
<1>18. ASSUME NEW o \in Conns, Open(o)'
       PROVE  StreamOK(conn'[o], entry'[WorkerOf[o]], gate'[WorkerOf[o]], delivered[WorkerOf[o]], mailbox'[o], view'[o])
  <2>1. o # c /\ Open(o) /\ WorkerOf[o] \in Workers
    BY <1>9, <1>11, <1>18, ReadValues, SnapshotAssumption DEF Open
  <2>2. StreamOK(conn'[o], entry[WorkerOf[o]], gate[WorkerOf[o]], delivered[WorkerOf[o]], mailbox'[o], view'[o])
    BY <1>9, <1>11, <2>1
  <2>3. gate'[WorkerOf[o]] = gate[WorkerOf[o]] /\ entry'[WorkerOf[o]].version = entry[WorkerOf[o]].version
        /\ entry'[WorkerOf[o]].epoch = entry[WorkerOf[o]].epoch
    <3>1. CASE WorkerOf[o] = w
      <4>1. others # {}
        BY <2>1, <3>1 DEF OpenOn
      <4>2. f = left /\ gate'[w] = gate[w]
        BY <1>13, <1>15, <4>1 DEF GateAfter
      <4> QED
        BY <1>12, <1>14, <3>1, <4>2
    <3>2. CASE WorkerOf[o] # w
      BY <1>14, <1>15, <2>1, <3>2
    <3> QED
      BY <3>1, <3>2
  <2> QED
    BY <2>2, <2>3, SameRead
<1>19. StreamsOK'
  BY <1>5, <1>18 DEF StreamsOK
<1>20. GatesOK'
  <2>1. ASSUME NEW x \in Workers, gate'[x] # "none"
        PROVE  OpenOn(x)' # {}
    <3>1. CASE x = w
      BY <1>15, <1>16, <2>1, <3>1 DEF GateAfter
    <3>2. CASE x # w
      <4>1. OpenOn(x) # {}
        BY <1>15, <2>1, <3>2 DEF ReadsInv, GatesOK
      <4>2. c \notin OpenOn(x)
        BY <3>2 DEF OpenOn
      <4> QED
        BY <1>16, <4>1, <4>2
    <3> QED
      BY <3>1, <3>2
  <2> QED
    BY <2>1 DEF GatesOK
<1>21. CacheOK'
  <2>1. \A o \in Conns \ {c} : conn'[o].generation = conn[o].generation /\ conn'[o].pc = conn[o].pc /\ conn'[o].value = conn[o].value
    BY <1>9, <1>11
  <2>2. conn'[c].generation = 0 /\ conn'[c].pc = "closed" /\ cache.sequence \in Nat
    BY <1>11, ReadValues, CacheTyped DEF CacheEntry
  <2> QED
    BY <1>5, <2>1, <2>2 DEF ReadsInv, CacheOK, CachedIsCurrent
<1>22. InOrder'
  BY <1>5, SettledFrame
<1>23. used' \in [closes : Nat, faults : Nat, recoveries : Nat]
  BY <1>5 DEF ReadsInv, ReadsTypes
<1>24. ReadsTypes'
  BY <1>5, <1>11, <1>14, <1>15, <1>23 DEF ReadsInv, ReadsTypes
<1> QED
  BY <1>17, <1>19, <1>20, <1>21, <1>22, <1>24 DEF ReadsInv

(***************************************************************************)
(* Every step, and what the invariant says.                                *)
(***************************************************************************)
LEMMA ReadsStep ==
  ASSUME ReadsInv, [ReadsNext]_readsVars
  PROVE  ReadsInv'
<1>1. ASSUME NEW w \in Workers, DeliverChange(w) \/ DeliverPatch(w) \/ RecoverScopes(w) \/ RecoverHub(w) \/ IntervalPasses(w)
      PROVE  ReadsInv'
  BY <1>1, DeliverChangeKeeps, DeliverPatchKeeps, RecoverScopesKeeps, RecoverHubKeeps, IntervalKeeps
<1>2. ASSUME NEW c \in Conns, OpenStream(c) \/ CloseStream(c) \/ ConnStep(c) \/ JoinRefused(c) \/ LookupFails(c) \/ StoreFails(c)
      PROVE  ReadsInv'
  BY <1>2, OpenKeeps, CloseKeeps, JoinRefusedKeeps, LookupFailsKeeps, StoreFailsKeeps, JoinKeeps, LookupKeeps, FetchKeeps,
     StoreKeeps, CompleteKeeps, ReceiveKeeps, WriteKeeps, WakeKeeps, ReleaseKeeps DEF ConnStep
<1>3. CASE UNCHANGED readsVars
  BY <1>3 DEF readsVars, ReadsInv, ReadsTypes, InOrder, StreamsOK, CacheOK, CachedIsCurrent, FlightsOK, GatesOK,
              OpenOn, Open
<1>4. CASE CommitChange \/ CommitPatch
  BY <1>4, CommitsKeep
<1>5. CASE PublishChange
  BY <1>5, PublishChangeKeeps
<1>6. CASE EvictScope \/ ExpireEntry
  BY <1>6, EvictionsKeep
<1> QED
  BY <1>1, <1>2, <1>3, <1>4, <1>5, <1>6 DEF ReadsNext

LEMMA ReadsMean ==
  ASSUME ReadsInv
  PROVE  ReadsTypeOK /\ ShowsDelivered /\ CachedIsCurrent /\ NobodyStranded
<1>1. ReadsTypeOK
  BY DEF ReadsInv, ReadsTypeOK, ReadsTypes, Gates, FlightsOK, GatesOK, CacheOK, Connection, ConnPcs
<1>2. ShowsDelivered
  <2> SUFFICES ASSUME NEW c \in Conns, conn[c].pc = "idle", mailbox[c] = EmptyMailbox, ~view[c].failure, ~Owed(c)
               PROVE  view[c].db >= delivered[WorkerOf[c]].change /\ view[c].patch >= delivered[WorkerOf[c]].patch
    BY DEF ShowsDelivered
  <2>1. Shows(view[c], EmptyMailbox, gate[WorkerOf[c]], delivered[WorkerOf[c]])
    BY OwnState DEF Open, StreamOK
  <2>2. ~Owing(gate[WorkerOf[c]])
    BY DEF Owed, Owing
  <2>3. ~EmptyMailbox.snapshot /\ EmptyMailbox.patch = 0 /\ view[c].patch \in Nat /\ delivered[WorkerOf[c]].patch \in Nat
    BY OwnState DEF EmptyMailbox, Value, Count
  <2> QED
    BY <2>1, <2>2, <2>3 DEF Shows
<1>3. CachedIsCurrent
  BY DEF ReadsInv, CacheOK
<1>4. NobodyStranded
  <2> SUFFICES ASSUME NEW c \in Conns, conn[c].pc = "await", ~conn[c].inbox.sent
               PROVE  /\ c \in entry[WorkerOf[c]].waiters
                      /\ \E o \in OpenOn(WorkerOf[c]) \ {c} : HasFlight(o) /\ conn[o].flight = entry[WorkerOf[c]].flight
    BY DEF NobodyStranded
  <2>1. FlightsOK /\ WorkerOf[c] \in Workers
    BY SnapshotAssumption DEF ReadsInv
  <2>2. c \in entry[WorkerOf[c]].waiters
    BY <2>1 DEF FlightsOK
  <2>3. entry[WorkerOf[c]].loading
    BY <2>1, <2>2 DEF FlightsOK
  <2>4. PICK o \in OpenOn(WorkerOf[c]) : conn[o].pc \in Flights
    BY <2>1, <2>3 DEF FlightsOK
  <2>5. o # c /\ o \in Conns /\ WorkerOf[o] = WorkerOf[c]
    BY <2>4 DEF OpenOn, Flights
  <2>6. HasFlight(o) /\ conn[o].flight = entry[WorkerOf[c]].flight
    BY <2>1, <2>4, <2>5 DEF FlightsOK, HasFlight
  <2> QED
    BY <2>2, <2>4, <2>5, <2>6
<1> QED
  BY <1>1, <1>2, <1>3, <1>4

(***************************************************************************)
(* The owner of a deferred delivery.  While no connection has left, the    *)
(* one that released the delivery before holds no passed deadline: it      *)
(* takes the deadline of the next deferral, and nothing earlier.           *)
(***************************************************************************)
Unarmed(c) == conn[c].timer = "none" /\ mailbox[c].refresh = "none"

Owned(w) == \E c \in OpenOn(w) : IF Owing(gate[w]) THEN WillRelease(c) ELSE Unarmed(c)

OwnersOK == used.closes = 0 => \A w \in Workers : OpenOn(w) # {} => Owned(w)

(* A step within one worker.                                               *)
LEMMA OwnersStep ==
  ASSUME ReadsInv, OwnersOK, NEW w \in Workers, used'.closes = used.closes,
         \A x \in Workers \ {w} : Owing(gate'[x]) <=> Owing(gate[x]),
         \A c \in Conns : WorkerOf[c] # w => /\ conn'[c].pc = "closed" <=> conn[c].pc = "closed"
                                            /\ conn'[c].timer = conn[c].timer /\ mailbox'[c].refresh = mailbox[c].refresh,
         used.closes = 0 /\ OpenOn(w)' # {} => Owned(w)'
  PROVE  OwnersOK'
<1> SUFFICES ASSUME used.closes = 0, NEW x \in Workers, OpenOn(x)' # {}
             PROVE  Owned(x)'
  BY DEF OwnersOK
<1>1. CASE x = w
  BY <1>1
<1>2. CASE x # w
  <2>1. OpenOn(x)' = OpenOn(x)
    BY <1>2 DEF OpenOn, Open
  <2>2. PICK c \in OpenOn(x) : IF Owing(gate[x]) THEN WillRelease(c) ELSE Unarmed(c)
    BY <2>1 DEF OwnersOK, Owned
  <2>3. c \in Conns /\ WorkerOf[c] # w
    BY <1>2, <2>2 DEF OpenOn
  <2>4. IF Owing(gate'[x]) THEN WillRelease(c)' ELSE Unarmed(c)'
    BY <1>2, <2>2, <2>3 DEF WillRelease, Deadlines, Unarmed
  <2> QED
    BY <2>1, <2>2, <2>4 DEF Owned
<1> QED
  BY <1>1, <1>2

(* A step that moves no deadline.                                          *)
LEMMA OwnersFrame ==
  ASSUME ReadsInv, OwnersOK, used'.closes = used.closes,
         \A x \in Workers : Owing(gate'[x]) <=> Owing(gate[x]),
         \A c \in Conns : /\ conn'[c].pc = "closed" <=> conn[c].pc = "closed"
                          /\ conn'[c].timer = conn[c].timer /\ mailbox'[c].refresh = mailbox[c].refresh
  PROVE  OwnersOK'
<1> SUFFICES ASSUME used.closes = 0, NEW x \in Workers, OpenOn(x)' # {}
             PROVE  Owned(x)'
  BY DEF OwnersOK
<1>1. OpenOn(x)' = OpenOn(x)
  BY DEF OpenOn, Open
<1>2. PICK c \in OpenOn(x) : IF Owing(gate[x]) THEN WillRelease(c) ELSE Unarmed(c)
  BY <1>1 DEF OwnersOK, Owned
<1>3. c \in Conns
  BY <1>2 DEF OpenOn
<1>4. IF Owing(gate'[x]) THEN WillRelease(c)' ELSE Unarmed(c)'
  BY <1>2, <1>3 DEF WillRelease, Deadlines, Unarmed
<1> QED
  BY <1>1, <1>2, <1>4 DEF Owned

(* A step of a connection that leaves the mailboxes and gates alone.       *)
LEMMA OwnersKeep ==
  ASSUME ReadsInv, OwnersOK, NEW c \in Conns, NEW k, conn' = [conn EXCEPT ![c] = k], UNCHANGED <<gate, mailbox>>,
         k.pc # "closed", conn[c].pc # "closed", k.timer = conn[c].timer, used'.closes = used.closes
  PROVE  OwnersOK'
<1>1. conn'[c] = k /\ \A o \in Conns \ {c} : conn'[o] = conn[o]
  BY DEF ReadsInv, ReadsTypes
<1> QED
  BY <1>1, OwnersFrame

LEMMA FaultClosesNothing ==
  ASSUME ReadsInv, MayFail
  PROVE  used'.closes = used.closes
  BY DEF MayFail, ReadsInv, ReadsTypes

(* The deadlines of a flight that ends stay what they are.                 *)
LEMMA OwnersSent ==
  ASSUME ReadsInv, OwnersOK, NEW c \in Conns, NEW ws \in SUBSET Conns, NEW r, NEW k, UNCHANGED <<gate, mailbox, used>>,
         conn' = [Sent(conn, ws, r) EXCEPT ![c] = k], k.pc # "closed", conn[c].pc # "closed", k.timer = conn[c].timer
  PROVE  OwnersOK'
<1>1. ASSUME NEW o \in Conns
      PROVE  Sent(conn, ws, r)[o].pc = conn[o].pc /\ Sent(conn, ws, r)[o].timer = conn[o].timer
  <2>1. Sent(conn, ws, r)[o] = IF o \in ws THEN [conn[o] EXCEPT !.inbox = r] ELSE conn[o]
    BY DEF Sent
  <2>2. PICK h \in Connection : h = conn[o]
    BY ReadTypes
  <2>3. [h EXCEPT !.inbox = r].pc = h.pc /\ [h EXCEPT !.inbox = r].timer = h.timer
    BY DEF Connection
  <2> QED
    BY <2>1, <2>2, <2>3
<1>2. conn'[c] = k /\ \A o \in Conns \ {c} : conn'[o] = Sent(conn, ws, r)[o]
  BY DEF Sent
<1> QED
  BY <1>1, <1>2, OwnersFrame

LEMMA OwnersHub ==
  ASSUME ReadsInv, OwnersOK, NEW w \in Workers, HubDelivers(w), UNCHANGED <<conn, used>>,
         \A x \in Workers : Owing(gate'[x]) <=> Owing(gate[x])
  PROVE  OwnersOK'
<1>1. ASSUME NEW c \in Conns PROVE mailbox'[c].refresh = mailbox[c].refresh
  <2>1. PICK box \in Box : box = mailbox[c]
    BY ReadTypes
  <2>2. [box EXCEPT !.snapshot = TRUE].refresh = box.refresh
    BY DEF Box
  <2> QED
    BY <2>1, <2>2, MarkedBoxes DEF HubDelivers
<1> QED
  BY <1>1, OwnersFrame

LEMMA OwnersDeliver ==
  ASSUME ReadsInv, OwnersOK, NEW w \in Workers, DeliverChange(w)
  PROVE  OwnersOK'
<1>1. UNCHANGED <<conn, used>> /\ gate \in [Workers -> Gates]
  BY DEF DeliverChange, ReadsInv, ReadsTypes
<1>2. CASE ~Coalesced
  BY <1>1, <1>2, OwnersHub DEF DeliverChange
<1>3. CASE OpenOn(w) = {} /\ gate' = [gate EXCEPT ![w] = "none"] /\ UNCHANGED <<entry, mailbox>>
  <2>1. \A x \in Workers \ {w} : gate'[x] = gate[x]
    BY <1>1, <1>3
  <2>2. OpenOn(w)' = {}
    BY <1>1, <1>3 DEF OpenOn, Open
  <2> QED
    BY <1>1, <1>3, <2>1, <2>2, OwnersStep
<1>4. CASE OpenOn(w) # {} /\ gate[w] \in {"none", "quiet"} /\ gate' = [gate EXCEPT ![w] = "shut"] /\ HubDelivers(w)
  <2>1. \A x \in Workers : Owing(gate'[x]) <=> Owing(gate[x])
    BY <1>1, <1>4 DEF Owing
  <2> QED
    BY <1>1, <1>4, <2>1, OwnersHub
<1>5. CASE /\ OpenOn(w) # {} /\ gate[w] = "shut" /\ gate' = [gate EXCEPT ![w] = "deferred"]
           /\ mailbox' = [c \in Conns |-> IF c \in OpenOn(w) THEN [mailbox[c] EXCEPT !.refresh = Earlier(@, "set")] ELSE mailbox[c]]
  <2>1. /\ \A x \in Workers \ {w} : gate'[x] = gate[x]
        /\ gate'[w] = "deferred" /\ Owing(gate'[w]) /\ ~Owing(gate[w])
    BY <1>1, <1>5 DEF Owing
  <2>2. OpenOn(w)' = OpenOn(w)
    BY <1>1 DEF OpenOn, Open
  <2>3. \A c \in Conns : WorkerOf[c] # w => mailbox'[c] = mailbox[c]
    BY <1>5 DEF OpenOn
  <2>4. ASSUME used.closes = 0 PROVE Owned(w)'
    <3>1. PICK c \in OpenOn(w) : Unarmed(c)
      BY <1>5, <2>1, <2>4 DEF OwnersOK, Owned
    <3>2. PICK box \in Box : box = mailbox[c]
      BY <3>1, ReadTypes DEF OpenOn
    <3>3. mailbox'[c].refresh = "set"
      <4>1. Earlier(box.refresh, "set") = "set"
        BY <3>1, <3>2 DEF Unarmed, Earlier
      <4>2. mailbox'[c] = [box EXCEPT !.refresh = "set"]
        BY <1>5, <3>1, <3>2, <4>1 DEF OpenOn
      <4> QED
        BY <3>2, <4>2, BoxDeadline DEF Deadline
    <3>4. WillRelease(c)'
      BY <1>1, <3>1, <3>3 DEF WillRelease, Deadlines, Unarmed
    <3> QED
      BY <2>1, <2>2, <3>1, <3>4 DEF Owned
  <2> QED
    BY <1>1, <2>1, <2>3, <2>4, OwnersStep
<1>6. CASE UNCHANGED <<gate, entry, mailbox>>
  BY <1>1, <1>6, OwnersFrame
<1> QED
  BY <1>2, <1>3, <1>4, <1>5, <1>6 DEF DeliverChange, PublishCoalesced

LEMMA OwnersOpen ==
  ASSUME ReadsInv, OwnersOK, NEW c \in Conns, OpenStream(c)
  PROVE  OwnersOK'
<1> DEFINE w == WorkerOf[c]
<1>1. /\ w \in Workers /\ gate[w] \in Gates /\ conn \in [Conns -> Connection] /\ mailbox \in [Conns -> Box]
      /\ UNCHANGED <<gate, used>> /\ conn[c].pc = "closed"
  BY OwnState DEF OpenStream, ReadsInv, ReadsTypes
<1>2. /\ \A o \in Conns \ {c} : conn'[o] = conn[o] /\ mailbox'[o] = mailbox[o]
      /\ conn'[c].pc = "read" /\ conn'[c].timer = "none"
      /\ mailbox'[c] = FirstMailbox(w)
  BY <1>1 DEF OpenStream, SetConn, Closed
<1>3. mailbox'[c].refresh = IF Owing(gate[w]) THEN "set" ELSE "none"
  BY <1>2 DEF FirstMailbox, EmptyMailbox, Owing
<1>4. c \in OpenOn(w)'
  BY <1>2 DEF OpenOn, Open
<1>5. IF Owing(gate'[w]) THEN WillRelease(c)' ELSE Unarmed(c)'
  BY <1>1, <1>2, <1>3 DEF WillRelease, Deadlines, Unarmed
<1>6. Owned(w)'
  BY <1>4, <1>5 DEF Owned
<1> QED
  BY <1>1, <1>2, <1>6, OwnersStep

LEMMA OwnersWake ==
  ASSUME ReadsInv, OwnersOK, NEW c \in Conns, WakeStream(c)
  PROVE  OwnersOK'
<1> DEFINE w == WorkerOf[c]
<1>1. /\ w \in Workers /\ conn[c].pc = "idle" /\ UNCHANGED <<gate, used>>
      /\ conn' = [conn EXCEPT ![c] = Drained(c, mailbox[c])] /\ mailbox' = [mailbox EXCEPT ![c] = EmptyMailbox]
      /\ conn \in [Conns -> Connection] /\ mailbox \in [Conns -> Box]
  BY OwnState DEF WakeStream, SetConn, ReadsInv, ReadsTypes
<1>2. /\ conn'[c].timer = Earlier(conn[c].timer, mailbox[c].refresh) /\ conn'[c].pc # "closed"
      /\ mailbox'[c].refresh = "none" /\ conn[c].timer \in Deadline /\ mailbox[c].refresh \in Deadline
      /\ \A o \in Conns \ {c} : conn'[o] = conn[o] /\ mailbox'[o] = mailbox[o]
  <2>1. Drained(c, mailbox[c]).timer = Earlier(conn[c].timer, mailbox[c].refresh) /\ Drained(c, mailbox[c]).pc # "closed"
    BY OwnState, DrainedOf
  <2>2. EmptyMailbox.refresh = "none"
    BY DEF EmptyMailbox
  <2>3. conn[c].timer \in Deadline /\ mailbox[c].refresh \in Deadline
    BY OwnState DEF Connection, Box
  <2> QED
    BY <1>1, <2>1, <2>2, <2>3
<1>3. OpenOn(w)' = OpenOn(w)
  BY <1>1, <1>2 DEF OpenOn, Open
<1>4. ASSUME used.closes = 0, OpenOn(w)' # {} PROVE Owned(w)'
  <2>1. PICK o \in OpenOn(w) : IF Owing(gate[w]) THEN WillRelease(o) ELSE Unarmed(o)
    BY <1>1, <1>3, <1>4 DEF OwnersOK, Owned
  <2>2. o \in Conns
    BY <2>1 DEF OpenOn
  <2>3. CASE o = c
    BY <1>1, <1>2, <1>3, <2>1, <2>3 DEF Owned, WillRelease, Deadlines, Unarmed, Earlier, Deadline
  <2>4. CASE o # c
    BY <1>1, <1>2, <1>3, <2>1, <2>2, <2>4 DEF Owned, WillRelease, Deadlines, Unarmed
  <2> QED
    BY <2>3, <2>4
<1> QED
  BY <1>1, <1>2, <1>4, OwnersStep

LEMMA OwnersRelease ==
  ASSUME ReadsInv, OwnersOK, NEW c \in Conns, ReleaseCoalesced(c)
  PROVE  OwnersOK'
<1> DEFINE w == WorkerOf[c]
           k == [conn[c] EXCEPT !.timer = "none", !.minimum = entry[w].epoch, !.patch = 0]
<1>1. /\ w \in Workers /\ gate \in [Workers -> Gates] /\ conn \in [Conns -> Connection]
      /\ conn[c].pc = "idle" /\ mailbox[c] = EmptyMailbox /\ Fires(c) /\ used' = used
  BY OwnState DEF ReleaseCoalesced, ReadsInv, ReadsTypes
<1>2. k \in Connection /\ k.timer = "none" /\ k.pc = "idle"
  BY <1>1, TimerResets
<1> HIDE DEF k
<1>3. EmptyMailbox.refresh = "none"
  BY DEF EmptyMailbox
<1>4. CASE gate[w] # "due" /\ SetConn(c, k) /\ UNCHANGED <<entry, gate, mailbox>>
  <2>1. conn'[c] = k /\ \A o \in Conns \ {c} : conn'[o] = conn[o]
    BY <1>1, <1>4 DEF SetConn
  <2>2. OpenOn(w)' = OpenOn(w) /\ c \in OpenOn(w)
    BY <1>1, <1>2, <2>1 DEF OpenOn, Open
  <2>3. ASSUME used.closes = 0 PROVE Owned(w)'
    <3>1. CASE Owing(gate[w])
      <4>1. PICK o \in OpenOn(w) : WillRelease(o)
        BY <1>1, <2>2, <2>3, <3>1 DEF OwnersOK, Owned
      <4>2. conn[c].timer = "old"
        BY <1>1, <1>4 DEF Fires
      <4>3. o # c /\ o \in Conns
        BY <4>1, <4>2 DEF WillRelease, Deadlines, OpenOn
      <4> QED
        BY <1>4, <2>1, <2>2, <3>1, <4>1, <4>3 DEF Owned, WillRelease, Deadlines
    <3>2. CASE ~Owing(gate[w])
      BY <1>1, <1>2, <1>3, <1>4, <2>1, <2>2, <3>2 DEF Owned, Unarmed
    <3> QED
      BY <3>1, <3>2
  <2> QED
    BY <1>1, <1>4, <2>1, <2>3, OwnersStep
<1>5. CASE /\ gate[w] = "due" /\ gate' = [gate EXCEPT ![w] = "shut"]
           /\ conn' = [o \in Conns |-> IF o = c THEN [k EXCEPT !.pc = "read"]
                                       ELSE IF o \in OpenOn(w) THEN [conn[o] EXCEPT !.timer = Aged(@)] ELSE conn[o]]
           /\ mailbox' = [o \in Conns |-> IF o \in OpenOn(w) \ {c}
                             THEN [mailbox[o] EXCEPT !.snapshot = TRUE, !.refresh = Aged(@)] ELSE mailbox[o]]
  <2>1. gate'[w] = "shut" /\ ~Owing(gate'[w]) /\ \A x \in Workers \ {w} : gate'[x] = gate[x]
    BY <1>1, <1>5 DEF Owing
  <2>2. \A o \in Conns : WorkerOf[o] # w => conn'[o] = conn[o] /\ mailbox'[o] = mailbox[o]
    BY <1>5 DEF OpenOn
  <2>3. conn'[c].pc = "read" /\ conn'[c].timer = "none" /\ mailbox'[c].refresh = "none"
    <3>1. conn'[c] = [k EXCEPT !.pc = "read"] /\ mailbox'[c] = EmptyMailbox
      BY <1>1, <1>5
    <3> QED
      BY <1>2, <1>3, <3>1, ReadAgain
  <2>4. c \in OpenOn(w)' /\ Unarmed(c)'
    BY <2>3 DEF OpenOn, Open, Unarmed
  <2>5. Owned(w)'
    BY <2>1, <2>4 DEF Owned
  <2> QED
    BY <1>1, <2>1, <2>2, <2>5, OwnersStep
<1> QED
  BY <1>4, <1>5 DEF ReleaseCoalesced, k

(* The steps of a read.                                                    *)
LEMMA OwnersReads ==
  ASSUME ReadsInv, OwnersOK, NEW c \in Conns,
         \/ JoinRead(c) \/ JoinRefused(c) \/ Lookup(c) \/ LookupFails(c) \/ Fetch(c) \/ StoreFails(c)
         \/ Receive(c) \/ Write(c)
  PROVE  OwnersOK'
<1>1. conn[c] \in Connection /\ UNCHANGED <<gate, mailbox>> /\ conn[c].pc # "closed"
  BY OwnState DEF JoinRead, JoinRefused, Lookup, LookupFails, Fetch, StoreFails, Receive, Write
<1>2. used'.closes = used.closes
  BY FaultClosesNothing DEF JoinRead, JoinRefused, Lookup, LookupFails, Fetch, StoreFails, Receive, Write
<1>3. conn \in [Conns -> Connection]
  BY DEF ReadsInv, ReadsTypes
<1>4. /\ conn' = [conn EXCEPT ![c] = conn'[c]]
      /\ conn'[c].timer = conn[c].timer /\ conn'[c].pc # "closed"
  <2>1. CASE JoinRead(c)
    BY <1>1, <1>3, <2>1 DEF JoinRead, SetConn, Connection
  <2>2. CASE Lookup(c)
    BY <1>1, <1>3, <2>2 DEF Lookup, SetConn, Connection
  <2>3. CASE Fetch(c)
    <3>1. PICK k \in Connection : k = conn[c]
      BY <1>1
    <3>2. CASE conn' = [conn EXCEPT ![c] = [k EXCEPT !.value = Failed, !.pc = "complete"]]
      <4>1. conn'[c] = [k EXCEPT !.value = Failed, !.pc = "complete"]
        BY <1>3, <3>2
      <4>2. conn'[c].timer = k.timer /\ conn'[c].pc = "complete"
        BY <4>1 DEF Connection
      <4> QED
        BY <3>1, <3>2, <4>1, <4>2
    <3>3. ASSUME NEW p \in {"store", "complete"},
                 conn' = [conn EXCEPT ![c] = [k EXCEPT !.value = Snapshot(db.change, db.patch), !.pc = p]]
          PROVE  /\ conn' = [conn EXCEPT ![c] = conn'[c]]
                 /\ conn'[c].timer = conn[c].timer /\ conn'[c].pc # "closed"
      <4>1. conn'[c] = [k EXCEPT !.value = Snapshot(db.change, db.patch), !.pc = p]
        BY <1>3, <3>3
      <4>2. conn'[c].timer = k.timer /\ conn'[c].pc = p
        BY <4>1 DEF Connection
      <4> QED
        BY <3>1, <3>3, <4>1, <4>2
    <3> QED
      BY <2>3, <3>1, <3>2, <3>3 DEF Fetch, SetConn
  <2>4. CASE Receive(c)
    BY <1>1, <1>3, <2>4 DEF Receive, SetConn, Connection
  <2>5. CASE JoinRefused(c)
    BY <1>1, <1>3, <2>5 DEF JoinRefused, SetConn, Connection
  <2>6. CASE LookupFails(c)
    BY <1>1, <1>3, <2>6 DEF LookupFails, SetConn, Connection
  <2>7. CASE StoreFails(c)
    BY <1>1, <1>3, <2>7 DEF StoreFails, SetConn, Connection
  <2>8. CASE Write(c)
    BY <1>1, <1>3, <2>8 DEF Write, SetConn, Connection
  <2> QED
    BY <2>1, <2>2, <2>3, <2>4, <2>5, <2>6, <2>7, <2>8
<1> QED
  BY <1>1, <1>2, <1>4, OwnersKeep

LEMMA OwnersFlights ==
  ASSUME ReadsInv, OwnersOK, NEW c \in Conns, Store(c) \/ CompleteFlight(c)
  PROVE  OwnersOK'
<1>1. conn[c] \in Connection /\ UNCHANGED <<gate, mailbox, used>> /\ conn[c].pc # "closed"
      /\ entry[WorkerOf[c]].waiters \in SUBSET Conns
  BY OwnState DEF Store, CompleteFlight, ReadEntry
<1>2. CASE SetConn(c, [conn[c] EXCEPT !.pc = "complete"])
  <2>1. [conn[c] EXCEPT !.pc = "complete"].timer = conn[c].timer /\ [conn[c] EXCEPT !.pc = "complete"].pc # "closed"
    BY <1>1 DEF Connection
  <2> QED
    BY <1>1, <1>2, <2>1, OwnersKeep DEF SetConn
<1>3. ASSUME NEW ws \in SUBSET Conns, NEW r, NEW p \in {"read", "await"},
             conn' = [Sent(conn, ws, r) EXCEPT ![c].pc = p, ![c].flight = 0, ![c].value = None]
      PROVE  OwnersOK'
  <2> DEFINE h == Sent(conn, ws, r)[c]
             k == [h EXCEPT !.pc = p, !.flight = 0, !.value = None]
  <2>1. conn' = [Sent(conn, ws, r) EXCEPT ![c] = k]
    BY <1>3
  <2>2. h = IF c \in ws THEN [conn[c] EXCEPT !.inbox = r] ELSE conn[c]
    BY DEF Sent
  <2>3. k.pc = p /\ k.timer = conn[c].timer
    BY <1>1, <2>2 DEF Connection
  <2> HIDE DEF k
  <2> QED
    BY <1>1, <2>1, <2>3, OwnersSent
<1>4. CASE CompleteFlight(c)
  BY <1>1, <1>3, <1>4 DEF CompleteFlight
<1>5. CASE Store(c)
  BY <1>1, <1>2, <1>3, <1>5 DEF Store
<1> QED
  BY <1>4, <1>5

LEMMA OwnersNext ==
  ASSUME ReadsInv, OwnersOK, [ReadsNext]_readsVars
  PROVE  OwnersOK'
<1>1. ASSUME UNCHANGED <<gate, mailbox, conn>>, used'.closes = used.closes
      PROVE  OwnersOK'
  BY <1>1, OwnersFrame
<1>2. CASE CommitChange \/ CommitPatch \/ PublishChange \/ EvictScope \/ ExpireEntry
  BY <1>1, <1>2, FaultClosesNothing DEF CommitChange, CommitPatch, PublishChange, EvictScope, ExpireEntry
<1>3. ASSUME NEW w \in Workers, RecoverScopes(w)
      PROVE  OwnersOK'
  BY <1>1, <1>3 DEF RecoverScopes, ReadsInv, ReadsTypes
<1>4. ASSUME NEW w \in Workers, RecoverHub(w)
      PROVE  OwnersOK'
  BY <1>4, OwnersHub DEF RecoverHub
<1>5. ASSUME NEW w \in Workers, IntervalPasses(w)
      PROVE  OwnersOK'
  <2>1. \A x \in Workers : Owing(gate'[x]) <=> Owing(gate[x])
    BY <1>5 DEF IntervalPasses, Owing, ReadsInv, ReadsTypes
  <2> QED
    BY <1>5, <2>1, OwnersFrame DEF IntervalPasses
<1>6. ASSUME NEW w \in Workers, DeliverPatch(w)
      PROVE  OwnersOK'
  <2>1. ASSUME NEW c \in Conns PROVE mailbox'[c].refresh = mailbox[c].refresh
    <3>1. PICK box \in Box : box = mailbox[c]
      BY ReadTypes
    <3>2. [box EXCEPT !.patch = delivered[w].patch + 1].refresh = box.refresh
      BY DEF Box
    <3> QED
      BY <1>6, <3>1, <3>2 DEF DeliverPatch
  <2> QED
    BY <1>6, <2>1, OwnersFrame DEF DeliverPatch
<1>7. ASSUME NEW c \in Conns, CloseStream(c)
      PROVE  OwnersOK'
  <2>1. used'.closes # 0
    BY <1>7 DEF CloseStream, ReadsInv, ReadsTypes
  <2> QED
    BY <2>1 DEF OwnersOK
<1>8. CASE UNCHANGED readsVars
  BY <1>1, <1>8 DEF readsVars
<1>9. ASSUME NEW w \in Workers, DeliverChange(w)
      PROVE  OwnersOK'
  BY <1>9, OwnersDeliver
<1>10. ASSUME NEW c \in Conns, OpenStream(c) \/ ConnStep(c) \/ JoinRefused(c) \/ LookupFails(c) \/ StoreFails(c)
       PROVE  OwnersOK'
  BY <1>10, OwnersOpen, OwnersReads, OwnersFlights, OwnersWake, OwnersRelease DEF ConnStep
<1> QED
  BY <1>2, <1>3, <1>4, <1>5, <1>6, <1>7, <1>8, <1>9, <1>10 DEF ReadsNext

(* The inductive invariant of the live views: what every reader, flight,   *)
(* mailbox and cached entry may still lack, and who releases a deferred    *)
(* delivery while no connection has left, for any number of workers and    *)
(* connections (snapshot_reads, redis_snapshot_cache, stream_snapshots).   *)
THEOREM ReadsHold == ReadsSpec => [](ReadsInv /\ OwnersOK)
<1>1. ReadsInit => ReadsInv /\ OwnersOK
  <2> SUFFICES ASSUME ReadsInit PROVE ReadsInv /\ OwnersOK
    OBVIOUS
  <2>1. \A w \in Workers : OpenOn(w) = {}
    BY ReadValues DEF ReadsInit, OpenOn, Open
  <2> QED
    BY <2>1, ReadsStarts DEF OwnersOK
<1>2. ReadsInv /\ OwnersOK /\ [ReadsNext]_readsVars => (ReadsInv /\ OwnersOK)'
  BY ReadsStep, OwnersNext
<1> QED
  BY <1>1, <1>2, PTL DEF ReadsSpec

(* The live views keep their types, waiters are open connections, and no   *)
(* gate outlives the subscribers of its worker.                            *)
THEOREM ReadsTypeCorrect == ReadsSpec => []ReadsTypeOK
<1>1. ReadsInv => ReadsTypeOK
  BY ReadsMean
<1> QED
  BY <1>1, ReadsHold, PTL

(* stream_snapshots, snapshot_reads, redis_snapshot_cache and the          *)
(* coalesced gate: a resting view shows everything delivered, the cache    *)
(* returns only what was read after every publication, nobody waits for a  *)
(* flight that no one flies, and a deferred delivery has a connection that *)
(* will release it as long as no connection has left.                      *)
THEOREM LiveViewsAreFresh == ReadsSpec => []SettledIsFresh
<1>1. ReadsInv /\ OwnersOK => SettledIsFresh
  <2> SUFFICES ASSUME ReadsInv, OwnersOK PROVE DeferralStaysOwned
    BY ReadsMean DEF SettledIsFresh
  <2> SUFFICES ASSUME NEW w \in Workers, gate[w] \in {"deferred", "due"}, used.closes = 0
               PROVE  \E c \in OpenOn(w) : WillRelease(c)
    BY DEF DeferralStaysOwned
  <2>1. OpenOn(w) # {} /\ Owing(gate[w])
    BY DEF ReadsInv, GatesOK, Owing
  <2> QED
    BY <2>1 DEF OwnersOK, Owned
<1> QED
  BY <1>1, ReadsHold, PTL

(***************************************************************************)
(* The notification stream.                                                *)
(***************************************************************************)
\* What an event that went to Redis has left behind until its subscribers
\* know of it: a fence, a place among the done rows of a claim, or nothing
\* but an erased row.
Out(e) == row[e] = "erased" \/ e \in redis.data.fence \/ \E w \in WebWorkers : e \in claim[w].done

\* Rows are committed ones; what a claim has, a fence names or a stream
\* holds was committed.
RowsCommitted ==
  /\ \A e \in Events : IsCommitted(e) <=> row[e] # "absent"
  /\ \A e \in redis.data.fence : IsCommitted(e)
  /\ \A s \in Streams : \A i \in DOMAIN redis.data.entries[s] :
       IsCommitted(redis.data.entries[s][i].event)

\* A row has one claim; until the commit it stays available, afterwards the
\* published ones are erased.
ClaimOK(w) ==
  /\ claim[w].pc = "idle" => Held(w) = {}
  /\ claim[w].pc = "publish" => \A e \in Held(w) : row[e] = "available"
  /\ claim[w].pc = "forget" => claim[w].todo = {} /\ claim[w].failed = {} /\ \A e \in claim[w].done : row[e] = "erased"
  /\ claim[w].todo \cap (claim[w].done \cup claim[w].failed) = {}
  /\ claim[w].done \cap claim[w].failed = {}
ClaimsApart ==
  /\ \A w \in WebWorkers : ClaimOK(w)
  /\ \A w, v \in WebWorkers : w # v => Held(w) \cap Held(v) = {}

\* The fence outlives every chance that the row is claimed again.
CopyOK(e) ==
  /\ copies[e] <= 1
  /\ copies[e] = 1 => e \in redis.data.fence \/ row[e] = "erased"
  /\ Out(e) /\ resets = 0 => copies[e] = 1
CopiesFenced == \A e \in Events : CopyOK(e)

\* Ids grow; a stream counts what it ever held.
Ordered(q, last, added) ==
  /\ \A i, j \in 1..Len(q) : i < j => q[i].id < q[j].id
  /\ \A i \in 1..Len(q) : q[i].id <= last
  /\ Len(q) <= added
EntriesOK(s) ==
  /\ Ordered(redis.data.entries[s], redis.data.last[s], redis.data.added[s])
  /\ redis.data.last[s] <= redis.clock
StreamsOrdered ==
  /\ \A s \in Streams : EntriesOK(s)
  /\ redis.data.generation <= redis.nonce

\* A reader never looks ahead of Redis, works on a captured generation, and
\* owes a recovery whenever it has to capture the heads a second time.
ReaderOK(w) ==
  LET r == reader[w] IN
  /\ r.generation <= redis.nonce /\ r.fetched <= redis.nonce
  /\ r.recovered <= redis.clock
  /\ \A s \in Streams : r.cursor[s] <= redis.clock
  /\ r.pc = "head" => ~r.initialized /\ r.fetched # NoGeneration
  /\ IF r.initialized THEN r.generation # NoGeneration ELSE r.interrupted \/ r.generation = NoGeneration
  /\ r.pc \in {"recover", "batch"} => r.initialized
  /\ r.pc # "deliver" => \A s \in Streams : ~r.gap[s] /\ r.batch[s] = <<>>
  /\ \A s \in Streams : \A i \in DOMAIN r.batch[s] : IsCommitted(r.batch[s][i].event)
  /\ subscribed[w] => r.generation # NoGeneration

\* The number of entries a reader has seen and its cursor say the same.
Matched(w) == reader[w].generation # NoGeneration /\ reader[w].generation = redis.data.generation
AlignedAt(q, last, added, cursor, seen) ==
  /\ seen <= added /\ cursor <= last
  /\ \A i \in 1..Len(q) : (q[i].id > cursor) <=> (added + i > seen + Len(q))
AlignedOn(w, s) ==
  AlignedAt(redis.data.entries[s], redis.data.last[s], redis.data.added[s], reader[w].cursor[s], reader[w].seen[s])
Aligned(w) == Matched(w) => \A s \in Streams : AlignedOn(w, s)

\* What was published before a reader recovered is known to its subscribers.
RecoveredKnow(w, s) ==
  /\ \A i \in DOMAIN redis.data.entries[s] :
       redis.data.entries[s][i].id <= reader[w].recovered => redis.data.entries[s][i].event \in known[w]
  /\ \A i \in DOMAIN reader[w].batch[s] :
       reader[w].batch[s][i].id <= reader[w].recovered => reader[w].batch[s][i].event \in known[w]
RecoveryCovers(w) == subscribed[w] => \A s \in Streams : RecoveredKnow(w, s)

\* Every event that is out is known to a subscription or on its way to it.
OutIsPending(w) == \A e \in Events : subscribed[w] /\ Out(e) /\ e \notin known[w] => Pending(w, e)

WorkerOK(w) == ReaderOK(w) /\ Aligned(w) /\ RecoveryCovers(w) /\ OutIsPending(w)
WorkersServed == \A w \in WebWorkers : WorkerOK(w)

NoticeInv ==
  /\ NoticeTypeOK /\ RowsCommitted /\ ClaimsApart /\ CopiesFenced /\ StreamsOrdered /\ WorkersServed

-----------------------------------------------------------------------------
LEMMA NoticeInitTypes == NoticeInit => NoticeTypeOK
<1> SUFFICES ASSUME NoticeInit PROVE NoticeTypeOK OBVIOUS
<1>1. NewReader \in Reader
  BY DEF NewReader, Reader, NoGeneration
<1>2. EmptyRedis \in RedisData
  BY DEF EmptyRedis, RedisData, NoGeneration
<1>3. NoClaim \in Claim
  BY DEF NoClaim, Claim
<1> QED
  BY <1>1, <1>2, <1>3 DEF NoticeInit, NoticeTypeOK

LEMMA AppendFacts ==
  ASSUME NEW S, NEW q \in Seq(S), NEW x \in S
  PROVE  /\ Append(q, x) \in Seq(S) /\ Len(Append(q, x)) = Len(q) + 1 /\ Len(q) \in Nat
         /\ Append(q, x)[Len(q) + 1] = x /\ \A i \in 1..Len(q) : Append(q, x)[i] = q[i]
  OBVIOUS

LEMMA SliceFacts ==
  ASSUME NEW S, NEW q \in Seq(S), NEW a \in 1..Len(q), NEW b \in a..Len(q)
  PROVE  /\ SubSeq(q, a, b) \in Seq(S) /\ Len(SubSeq(q, a, b)) = b - a + 1
         /\ \A i \in 1..(b - a + 1) : SubSeq(q, a, b)[i] = q[a + i - 1]
  OBVIOUS

\* The parts of Redis have their types.
LEMMA RedisParts ==
  ASSUME NoticeTypeOK
  PROVE  /\ redis = [data |-> redis.data, clock |-> redis.clock, nonce |-> redis.nonce]
         /\ redis.data \in RedisData /\ redis.clock \in Nat /\ redis.nonce \in Nat
         /\ redis.data = [entries |-> redis.data.entries, last |-> redis.data.last, added |-> redis.data.added,
                          fence |-> redis.data.fence, generation |-> redis.data.generation]
         /\ redis.data.entries \in [Streams -> Seq(Entry)]
         /\ redis.data.last \in [Streams -> Nat] /\ redis.data.added \in [Streams -> Nat]
         /\ redis.data.fence \subseteq Events /\ redis.data.generation \in Nat
  BY DEF NoticeTypeOK, RedisData

LEMMA ReaderParts ==
  ASSUME NoticeTypeOK, NEW w \in WebWorkers
  PROVE  /\ reader[w] \in Reader
         /\ reader[w].pc \in {"generation", "head", "recover", "batch", "deliver", "wait"}
         /\ reader[w].generation \in Nat /\ reader[w].fetched \in Nat /\ reader[w].recovered \in Nat
         /\ reader[w].cursor \in [Streams -> Nat] /\ reader[w].seen \in [Streams -> Nat]
         /\ reader[w].initialized \in BOOLEAN /\ reader[w].interrupted \in BOOLEAN
         /\ reader[w].batch \in [Streams -> Seq(Entry)] /\ reader[w].gap \in [Streams -> BOOLEAN]
  BY DEF NoticeTypeOK, Reader

LEMMA ClaimParts ==
  ASSUME NoticeTypeOK, NEW w \in WebWorkers
  PROVE  /\ claim[w] \in Claim /\ claim[w].pc \in {"idle", "publish", "forget"}
         /\ claim[w].todo \subseteq Events /\ claim[w].done \subseteq Events /\ claim[w].failed \subseteq Events
  BY DEF NoticeTypeOK, Claim

LEMMA StaleParts == EmptyRedis \in RedisData /\ NewReader \in Reader /\ NoClaim \in Claim
  BY DEF EmptyRedis, RedisData, NoGeneration, NewReader, Reader, NoClaim, Claim

\* What is read of a sequence of entries.
LEMMA EntryFacts ==
  ASSUME NEW q \in Seq(Entry)
  PROVE  /\ Len(q) \in Nat /\ DOMAIN q = 1..Len(q)
         /\ \A i \in 1..Len(q) : q[i] \in Entry /\ q[i].id \in Nat /\ q[i].id > 0 /\ q[i].event \in Events
<1>1. Len(q) \in Nat /\ DOMAIN q = 1..Len(q)
  OBVIOUS
<1>2. ASSUME NEW i \in 1..Len(q) PROVE q[i] \in Entry
  OBVIOUS
<1>3. ASSUME NEW i \in 1..Len(q) PROVE q[i].id \in Nat /\ q[i].id > 0 /\ q[i].event \in Events
  BY <1>2 DEF Entry
<1> QED
  BY <1>1, <1>2, <1>3

LEMMA StreamFacts ==
  ASSUME NoticeTypeOK, NEW s \in Streams
  PROVE  LET q == redis.data.entries[s] IN
         /\ q \in Seq(Entry) /\ Len(q) \in Nat /\ DOMAIN q = 1..Len(q)
         /\ \A i \in 1..Len(q) : q[i] \in Entry /\ q[i].id \in Nat /\ q[i].id > 0 /\ q[i].event \in Events
         /\ redis.data.added[s] \in Nat /\ redis.data.last[s] \in Nat
<1>1. redis.data.entries[s] \in Seq(Entry) /\ redis.data.added[s] \in Nat /\ redis.data.last[s] \in Nat
  BY RedisParts
<1> QED
  BY <1>1, EntryFacts

\* A reader that captured the head has seen everything.
LEMMA AlignedAtHead ==
  ASSUME NEW q \in Seq(Entry), NEW last \in Nat, NEW added \in Nat, Ordered(q, last, added)
  PROVE  AlignedAt(q, last, added, last, added)
<1>1. Len(q) \in Nat /\ \A i \in 1..Len(q) : q[i].id \in Nat /\ q[i].id <= last
  BY EntryFacts DEF Ordered
<1> QED
  BY <1>1 DEF AlignedAt

\* Places of a sequence of a entries that loses n and gets one.
LEMMA Places ==
  ASSUME NEW a \in Nat, NEW n \in 0..a
  PROVE  /\ a + 1 - n \in Nat
         /\ \A i \in 1..(a + 1 - n) : i \in 1..(a - n) \/ i = a + 1 - n
         /\ \A i \in 1..(a - n) : n + i \in 1..a
         /\ \A i, j \in 1..(a + 1 - n) : i < j => i \in 1..(a - n)
         /\ \A i \in 1..(a - n), seen \in Nat, added \in Nat :
              (added + (n + i) > seen + a) <=> (added + 1 + i > seen + (a + 1 - n))
         /\ \A seen \in Nat, added \in Nat :
              seen <= added => added + 1 + (a + 1 - n) > seen + (a + 1 - n)
  OBVIOUS

\* Appending an entry and trimming a prefix keeps the order, and it keeps what
\* the cursor and the count of a reader say.
LEMMA OrderedAppend ==
  ASSUME NEW q \in Seq(Entry), NEW last \in Nat, NEW added \in Nat, Ordered(q, last, added),
         NEW k \in Seq(Entry), NEW n \in 0..Len(q), NEW id \in Nat, last < id,
         Len(k) = Len(q) + 1 - n, \A i \in 1..(Len(q) - n) : k[i] = q[n + i], k[Len(q) + 1 - n].id = id
  PROVE  Ordered(k, id, added + 1)
<1>0. PICK a \in Nat : a = Len(q)
  OBVIOUS
<1>1. \A i \in 1..a : q[i].id \in Nat
  BY <1>0, EntryFacts
<1>2. \A i \in 1..(a - n) : k[i].id \in Nat /\ k[i].id <= last
  BY <1>0, <1>1, Places DEF Ordered
<1>3. \A i, j \in 1..(a - n) : i < j => k[i].id < k[j].id
  <2> SUFFICES ASSUME NEW i \in 1..(a - n), NEW j \in 1..(a - n), i < j PROVE k[i].id < k[j].id
    OBVIOUS
  <2>1. n + i \in 1..a /\ n + j \in 1..a /\ n + i < n + j
    BY <1>0, Places
  <2> QED
    BY <1>0, <2>1 DEF Ordered
<1>4. a + 1 - n <= added + 1
  BY <1>0 DEF Ordered
<1>5. \A i \in 1..(a + 1 - n) : k[i].id <= id
  BY <1>0, <1>2, Places, SMTT(30)
<1>6. ASSUME NEW i \in 1..(a + 1 - n), NEW j \in 1..(a + 1 - n), i < j PROVE k[i].id < k[j].id
  <2>1. i \in 1..(a - n) /\ (j \in 1..(a - n) \/ j = a + 1 - n)
    BY <1>0, <1>6, Places
  <2>2. CASE j \in 1..(a - n)
    BY <1>3, <1>6, <2>1, <2>2
  <2>3. CASE j = a + 1 - n
    <3>1. k[j].id = id /\ k[i].id \in Nat /\ k[i].id <= last
      BY <1>0, <1>2, <2>1, <2>3
    <3> QED
      BY <3>1
  <2> QED
    BY <2>1, <2>2, <2>3
<1> QED
  BY <1>0, <1>4, <1>5, <1>6 DEF Ordered

LEMMA AlignedAppend ==
  ASSUME NEW q \in Seq(Entry), NEW last \in Nat, NEW added \in Nat, NEW cursor \in Nat, NEW seen \in Nat,
         AlignedAt(q, last, added, cursor, seen),
         NEW k \in Seq(Entry), NEW n \in 0..Len(q), NEW id \in Nat, last < id,
         Len(k) = Len(q) + 1 - n, \A i \in 1..(Len(q) - n) : k[i] = q[n + i], k[Len(q) + 1 - n].id = id
  PROVE  AlignedAt(k, id, added + 1, cursor, seen)
<1>0. PICK a \in Nat : a = Len(q)
  OBVIOUS
<1>1. seen <= added /\ seen <= added + 1 /\ cursor < id /\ cursor <= id
  BY DEF AlignedAt
<1>2. ASSUME NEW i \in 1..(a - n)
      PROVE  (k[i].id > cursor) <=> (added + 1 + i > seen + (a + 1 - n))
  <2>1. n + i \in 1..a /\ k[i] = q[n + i]
    BY <1>0, Places
  <2>2. (q[n + i].id > cursor) <=> (added + (n + i) > seen + a)
    BY <1>0, <2>1 DEF AlignedAt
  <2>3. (added + (n + i) > seen + a) <=> (added + 1 + i > seen + (a + 1 - n))
    BY <1>0, Places
  <2> QED
    BY <2>1, <2>2, <2>3
<1>3. (k[a + 1 - n].id > cursor) /\ (added + 1 + (a + 1 - n) > seen + (a + 1 - n))
  <2>1. added + 1 + (a + 1 - n) > seen + (a + 1 - n)
    BY <1>0, <1>1, Places
  <2>2. k[a + 1 - n].id = id
    BY <1>0
  <2> QED
    BY <1>1, <2>1, <2>2
<1>4. \A i \in 1..(a + 1 - n) : (k[i].id > cursor) <=> (added + 1 + i > seen + (a + 1 - n))
  BY <1>0, <1>2, <1>3, Places
<1>5. Len(k) = a + 1 - n
  BY <1>0
<1> QED
  BY <1>1, <1>4, <1>5 DEF AlignedAt

\* outbox::publish: either the event was published before, or its entry is
\* appended, counted and fenced, and a prefix that does not reach it trimmed.
Appended(r, e) ==
  LET s == StreamOf[e]
      d == redis.data
      size == Len(d.entries[s])
  IN /\ r \in [data : RedisData, clock : Nat, nonce : Nat]
     /\ r.clock = redis.clock + 1 /\ r.nonce = redis.nonce
     /\ r.data.generation = d.generation
     /\ r.data.fence = d.fence \cup {e}
     /\ \A t \in Streams \ {s} : /\ r.data.entries[t] = d.entries[t]
                                 /\ r.data.last[t] = d.last[t] /\ r.data.added[t] = d.added[t]
     /\ r.data.last[s] = redis.clock + 1 /\ r.data.added[s] = d.added[s] + 1
     /\ \E n \in 0..size :
          /\ Len(r.data.entries[s]) = size + 1 - n
          /\ \A i \in 1..(size - n) : r.data.entries[s][i] = d.entries[s][n + i]
          /\ r.data.entries[s][size + 1 - n] = [id |-> redis.clock + 1, event |-> e]

LEMMA PublishedFacts ==
  ASSUME NoticeTypeOK, NEW e \in Events, NEW r \in Published(redis, e)
  PROVE  IF e \in redis.data.fence THEN r = redis ELSE Appended(r, e)
<1> DEFINE s == StreamOf[e]
           d == redis.data
           size == Len(d.entries[s])
           x == [id |-> redis.clock + 1, event |-> e]
           longer == Append(d.entries[s], x)
<1>1. CASE e \in d.fence
  BY <1>1 DEF Published
<1>2. CASE e \notin d.fence
  <2>1. s \in Streams /\ MaxLen \in Nat \ {0}
    BY NotificationAssumption
  <2>2. x \in Entry /\ d.entries[s] \in Seq(Entry) /\ size \in Nat
    <3>1. x \in Entry
      BY RedisParts DEF Entry
    <3>2. d.entries[s] \in Seq(Entry)
      BY <2>1, RedisParts
    <3> HIDE DEF x, d
    <3> QED
      BY <3>1, <3>2
  <2>3. longer \in Seq(Entry) /\ Len(longer) = size + 1 /\ longer[size + 1] = x
        /\ \A i \in 1..size : longer[i] = d.entries[s][i]
    <3> HIDE DEF x, d
    <3> QED
      BY <2>2, AppendFacts
  <2> DEFINE Trimmed(n) ==
        [entries |-> [d.entries EXCEPT ![s] = SubSeq(longer, n + 1, Len(longer))],
         last |-> [d.last EXCEPT ![s] = redis.clock + 1], added |-> [d.added EXCEPT ![s] = d.added[s] + 1],
         fence |-> d.fence \cup {e}, generation |-> d.generation]
  <2>4. PICK n \in {m \in 0..Len(longer) : m = 0 \/ m + MaxLen <= Len(longer)} :
          r = [data |-> Trimmed(n), clock |-> redis.clock + 1, nonce |-> redis.nonce]
    BY <1>2 DEF Published
  <2>5. n \in 0..size
    BY <2>1, <2>2, <2>3, <2>4
  <2> DEFINE kept == SubSeq(longer, n + 1, Len(longer))
  <2>6. kept \in Seq(Entry) /\ Len(kept) = size + 1 - n
        /\ \A i \in 1..(size + 1 - n) : kept[i] = longer[n + i]
    <3> HIDE DEF longer, x, size
    <3>1. n + 1 \in 1..Len(longer) /\ Len(longer) \in (n + 1)..Len(longer)
      BY <2>2, <2>3, <2>5
    <3>2. Len(longer) - (n + 1) + 1 = size + 1 - n /\ \A i \in Nat : n + 1 + i - 1 = n + i
      BY <2>2, <2>3, <2>5
    <3>3. PICK a \in 1..Len(longer), b \in Nat : a = n + 1 /\ b = Len(longer) /\ b \in a..Len(longer)
      BY <2>2, <2>3, <3>1
    <3>4. kept = SubSeq(longer, a, b) /\ kept \in Seq(Entry) /\ Len(kept) = b - a + 1
          /\ \A i \in 1..(b - a + 1) : kept[i] = longer[a + i - 1]
      BY <2>3, <3>3, SliceFacts
    <3>5. b - a + 1 = size + 1 - n /\ \A i \in Nat : a + i - 1 = n + i
      BY <3>2, <3>3
    <3>6. ASSUME NEW i \in 1..(size + 1 - n) PROVE kept[i] = longer[n + i]
      <4>1. a + i - 1 = n + i /\ i \in 1..(b - a + 1)
        BY <3>5
      <4> QED
        BY <3>4, <4>1, SMTT(30)
    <3> QED
      BY <3>4, <3>5, <3>6
  <2>7. /\ r.clock = redis.clock + 1 /\ r.nonce = redis.nonce /\ r.data.generation = d.generation
        /\ r.data.fence = d.fence \cup {e}
        /\ r.data.entries = [d.entries EXCEPT ![s] = kept]
        /\ r.data.last = [d.last EXCEPT ![s] = redis.clock + 1]
        /\ r.data.added = [d.added EXCEPT ![s] = d.added[s] + 1]
    BY <2>4
  <2>8. r \in [data : RedisData, clock : Nat, nonce : Nat]
    <3>1. Trimmed(n) \in RedisData
      <4>1. [d.entries EXCEPT ![s] = kept] \in [Streams -> Seq(Entry)]
        BY <2>1, <2>6, RedisParts
      <4>2. [d.last EXCEPT ![s] = redis.clock + 1] \in [Streams -> Nat]
        BY <2>1, RedisParts
      <4>3. [d.added EXCEPT ![s] = d.added[s] + 1] \in [Streams -> Nat]
        BY <2>1, RedisParts
      <4>4. d.fence \cup {e} \in SUBSET Events /\ d.generation \in Nat
        BY RedisParts
      <4> HIDE DEF d, kept
      <4> QED
        BY <4>1, <4>2, <4>3, <4>4 DEF RedisData, kept
    <3> QED
      BY <3>1, <2>4, RedisParts
  <2>9. r.data.entries[s] = kept /\ r.data.last[s] = redis.clock + 1 /\ r.data.added[s] = d.added[s] + 1
        /\ \A t \in Streams \ {s} : /\ r.data.entries[t] = d.entries[t]
                                    /\ r.data.last[t] = d.last[t] /\ r.data.added[t] = d.added[t]
    BY <2>1, <2>7, RedisParts
  <2> HIDE DEF kept, longer, x, size
  <2>10. /\ \A i \in 1..(size - n) : kept[i] = d.entries[s][n + i]
         /\ kept[size + 1 - n] = x
    <3>1. ASSUME NEW i \in 1..(size - n) PROVE kept[i] = d.entries[s][n + i]
      <4>1. n + i \in 1..size /\ i \in 1..(size + 1 - n)
        BY <2>2, <2>5
      <4> QED
        BY <4>1, <2>3, <2>6
    <3>2. size + 1 - n \in 1..(size + 1 - n) /\ n + (size + 1 - n) = size + 1
      BY <2>2, <2>5
    <3> QED
      BY <3>1, <3>2, <2>3, <2>6
  <2>11. /\ Len(r.data.entries[s]) = size + 1 - n
         /\ \A i \in 1..(size - n) : r.data.entries[s][i] = d.entries[s][n + i]
         /\ r.data.entries[s][size + 1 - n] = x
    BY <2>6, <2>9, <2>10
  <2> QED
    BY <1>2, <2>5, <2>7, <2>8, <2>9, <2>11 DEF x, size, Appended
<1> QED
  BY <1>1, <1>2

\* Steps of readers and subscriptions do not touch rows, claims and Redis.
LEMMA RowsFrame ==
  ASSUME RowsCommitted, ClaimsApart, CopiesFenced, StreamsOrdered,
         UNCHANGED <<committed, row, claim, redis, copies, resets>>
  PROVE  RowsCommitted' /\ ClaimsApart' /\ CopiesFenced' /\ StreamsOrdered'
<1>1. RowsCommitted'
  BY DEF RowsCommitted, IsCommitted
<1>2. ClaimsApart'
  BY DEF ClaimsApart, ClaimOK, Held
<1>3. CopiesFenced'
  BY DEF CopiesFenced, CopyOK, Out
<1>4. StreamsOrdered'
  BY DEF StreamsOrdered, EntriesOK
<1> QED
  BY <1>1, <1>2, <1>3, <1>4

\* Only committed events are out.
LEMMA OutIsCommitted ==
  ASSUME NoticeTypeOK, RowsCommitted, ClaimsApart, NEW e \in Events, Out(e)
  PROVE  IsCommitted(e)
<1>1. ASSUME NEW w \in WebWorkers, e \in claim[w].done PROVE row[e] # "absent"
  BY <1>1, ClaimParts DEF ClaimsApart, ClaimOK, Held
<1> QED
  BY <1>1 DEF Out, RowsCommitted

\* A worker whose reader and subscription do not move stays served.
LEMMA WorkerFrame ==
  ASSUME NEW v \in WebWorkers, WorkerOK(v), UNCHANGED <<committed, row, claim, redis>>,
         reader'[v] = reader[v], known'[v] = known[v], subscribed'[v] = subscribed[v]
  PROVE  WorkerOK(v)'
<1>1. ReaderOK(v)'
  BY DEF WorkerOK, ReaderOK, IsCommitted
<1>2. Aligned(v)'
  BY DEF WorkerOK, Aligned, Matched, AlignedOn
<1>3. RecoveryCovers(v)'
  BY DEF WorkerOK, RecoveryCovers, RecoveredKnow
<1>4. OutIsPending(v)'
  <2>1. \A e \in Events : Out(e)' <=> Out(e)
    BY DEF Out
  <2>2. \A e \in Events : Pending(v, e)' <=> Pending(v, e)
    BY DEF Pending, Gap
  <2> QED
    BY <2>1, <2>2 DEF WorkerOK, OutIsPending
<1> QED
  BY <1>1, <1>2, <1>3, <1>4 DEF WorkerOK

\* A step of one worker's reader keeps the invariant when it keeps that
\* worker served.
LEMMA ReaderKeeps ==
  ASSUME NoticeInv, NEW w \in WebWorkers, NEW r \in Reader, SetReader(w, r),
         UNCHANGED <<committed, row, claim, redis, copies, resets>>, faults' \in Nat,
         known' \in [WebWorkers -> SUBSET Events], subscribed' \in [WebWorkers -> BOOLEAN],
         \A v \in WebWorkers \ {w} : known'[v] = known[v] /\ subscribed'[v] = subscribed[v],
         WorkerOK(w)'
  PROVE  NoticeInv'
<1>1. reader' \in [WebWorkers -> Reader] /\ \A v \in WebWorkers \ {w} : reader'[v] = reader[v]
  BY DEF NoticeInv, NoticeTypeOK, SetReader
<1>2. NoticeTypeOK'
  BY <1>1 DEF NoticeInv, NoticeTypeOK
<1>3. WorkersServed'
  BY <1>1, WorkerFrame DEF NoticeInv, WorkersServed
<1> QED
  BY <1>2, <1>3, RowsFrame DEF NoticeInv

LEMMA NoticeStutters ==
  ASSUME NoticeInv, UNCHANGED noticeVars
  PROVE  NoticeInv'
<1>1. NoticeTypeOK'
  BY DEF NoticeInv, NoticeTypeOK, noticeVars
<1>2. WorkersServed'
  BY WorkerFrame DEF NoticeInv, WorkersServed, noticeVars
<1> QED
  BY <1>1, <1>2, RowsFrame DEF NoticeInv, noticeVars

LEMMA NoticeInitHolds == NoticeInit => NoticeInv
<1> SUFFICES ASSUME NoticeInit PROVE NoticeInv OBVIOUS
<1>1. NoticeTypeOK
  BY NoticeInitTypes
<1>2. RowsCommitted
  BY DEF NoticeInit, RowsCommitted, IsCommitted, EmptyRedis
<1>3. ClaimsApart
  BY DEF NoticeInit, ClaimsApart, ClaimOK, Held, NoClaim
<1>4. CopiesFenced
  BY DEF NoticeInit, CopiesFenced, CopyOK, Out, EmptyRedis, NoClaim
<1>5. StreamsOrdered
  BY DEF NoticeInit, StreamsOrdered, EntriesOK, Ordered, EmptyRedis, NoGeneration
<1>6. ASSUME NEW w \in WebWorkers PROVE WorkerOK(w)
  <2>1. ReaderOK(w)
    BY DEF NoticeInit, ReaderOK, NewReader, NoGeneration
  <2>2. ~Matched(w) /\ ~subscribed[w]
    BY DEF NoticeInit, Matched, NewReader
  <2> QED
    BY <2>1, <2>2 DEF WorkerOK, Aligned, RecoveryCovers, OutIsPending
<1> QED
  BY <1>1, <1>2, <1>3, <1>4, <1>5, <1>6 DEF NoticeInv, WorkersServed

\* XREAD returns: only the place of the reader's loop changes.
LEMMA WakeReaderKeeps ==
  ASSUME NoticeInv, NEW w \in WebWorkers, WakeReader(w)
  PROVE  NoticeInv'
<1> DEFINE r == [reader[w] EXCEPT !.pc = "generation"]
<1>1. NoticeTypeOK /\ WorkerOK(w)
  BY DEF NoticeInv, WorkersServed
<1>2. r \in Reader
  BY <1>1, ReaderParts DEF Reader
<1>3. reader'[w] = r
  BY <1>1 DEF WakeReader, SetReader, NoticeTypeOK
<1>4. ReaderOK(w)'
  BY <1>1, <1>3, ReaderParts DEF WorkerOK, ReaderOK, WakeReader, Reader
<1>5. Aligned(w)' /\ RecoveryCovers(w)'
  BY <1>1, <1>3, ReaderParts DEF WorkerOK, Aligned, Matched, AlignedOn, RecoveryCovers, RecoveredKnow, WakeReader, Reader
<1>6. OutIsPending(w)'
  <2>1. \A e \in Events : (Out(e)' <=> Out(e)) /\ (Pending(w, e)' <=> Pending(w, e))
    BY <1>1, <1>3, ReaderParts DEF Out, Pending, Gap, WakeReader, Reader
  <2> QED
    BY <1>1, <2>1 DEF WorkerOK, OutIsPending, WakeReader
<1> QED
  BY <1>1, <1>2, <1>4, <1>5, <1>6, ReaderKeeps DEF WakeReader, WorkerOK, NoticeTypeOK

\* An operation of the reader throws: it owes a recovery.
LEMMA ReaderFailsKeeps ==
  ASSUME NoticeInv, NEW w \in WebWorkers, ReaderFails(w)
  PROVE  NoticeInv'
<1> DEFINE r == [reader[w] EXCEPT !.pc = "generation", !.initialized = FALSE, !.interrupted = TRUE,
                                  !.batch = NewReader.batch, !.gap = NewReader.gap]
<1>1. NoticeTypeOK /\ WorkerOK(w)
  BY DEF NoticeInv, WorkersServed
<1>2. r \in Reader
  <2>1. NewReader.batch \in [Streams -> Seq(Entry)] /\ NewReader.gap \in [Streams -> BOOLEAN]
    BY DEF NewReader
  <2> QED
    BY <1>1, <2>1, ReaderParts DEF Reader
<1>3. reader'[w] = r
  BY <1>1 DEF ReaderFails, SetReader, NoticeTypeOK
<1>4. /\ r.pc = "generation" /\ r.initialized = FALSE /\ r.interrupted = TRUE
      /\ r.generation = reader[w].generation /\ r.fetched = reader[w].fetched /\ r.recovered = reader[w].recovered
      /\ r.cursor = reader[w].cursor /\ r.seen = reader[w].seen
      /\ \A s \in Streams : r.batch[s] = <<>> /\ r.gap[s] = FALSE
  BY <1>1, ReaderParts DEF Reader, NewReader
<1> HIDE DEF r
<1>5. ReaderOK(w)'
  BY <1>1, <1>3, <1>4 DEF WorkerOK, ReaderOK, ReaderFails
<1>6. Aligned(w)'
  BY <1>1, <1>3, <1>4 DEF WorkerOK, Aligned, Matched, AlignedOn, ReaderFails
<1>7. RecoveryCovers(w)'
  BY <1>1, <1>3, <1>4 DEF WorkerOK, RecoveryCovers, RecoveredKnow, ReaderFails
<1>8. OutIsPending(w)'
  BY <1>3, <1>4 DEF OutIsPending, Pending
<1>9. faults' \in Nat /\ known' \in [WebWorkers -> SUBSET Events] /\ subscribed' \in [WebWorkers -> BOOLEAN]
  BY <1>1 DEF ReaderFails, MayFault, NoticeTypeOK
<1>10. SetReader(w, r)
  BY DEF ReaderFails, r
<1> QED
  BY <1>2, <1>5, <1>6, <1>7, <1>8, <1>9, <1>10, ReaderKeeps DEF ReaderFails, WorkerOK

\* The heads are captured a second time only by a reader that then recovers.
LEMMA CaptureHeadsKeeps ==
  ASSUME NoticeInv, NEW w \in WebWorkers, CaptureHeads(w)
  PROVE  NoticeInv'
<1>1. NoticeTypeOK /\ WorkerOK(w) /\ StreamsOrdered
  BY DEF NoticeInv, WorkersServed
<1>2. /\ faults' \in Nat /\ known' \in [WebWorkers -> SUBSET Events] /\ subscribed' \in [WebWorkers -> BOOLEAN]
      /\ \A e \in Events : Out(e)' <=> Out(e)
  BY <1>1 DEF CaptureHeads, NoticeTypeOK, Out
<1>3. CASE redis.data.generation # reader[w].fetched
  <2> DEFINE r == [reader[w] EXCEPT !.pc = "generation"]
  <2>1. r \in Reader
    BY <1>1, ReaderParts DEF Reader
  <2>2. SetReader(w, r) /\ reader'[w] = r
    BY <1>1, <1>3 DEF CaptureHeads, SetReader, NoticeTypeOK
  <2>3. ReaderOK(w)'
    BY <1>1, <2>2, ReaderParts DEF WorkerOK, ReaderOK, CaptureHeads, Reader
  <2>4. Aligned(w)' /\ RecoveryCovers(w)'
    BY <1>1, <2>2, ReaderParts DEF WorkerOK, Aligned, Matched, AlignedOn, RecoveryCovers, RecoveredKnow, CaptureHeads, Reader
  <2>5. OutIsPending(w)'
    <3>1. \A e \in Events : Pending(w, e)' <=> Pending(w, e)
      BY <1>1, <2>2, ReaderParts DEF Pending, Gap, CaptureHeads, Reader
    <3> QED
      BY <1>1, <1>2, <3>1 DEF WorkerOK, OutIsPending, CaptureHeads
  <2> QED
    BY <1>2, <2>1, <2>2, <2>3, <2>4, <2>5, ReaderKeeps DEF CaptureHeads, WorkerOK
<1>4. CASE redis.data.generation = reader[w].fetched
  <2> DEFINE r == [reader[w] EXCEPT
              !.cursor = redis.data.last, !.seen = redis.data.added,
              !.generation = reader[w].fetched, !.initialized = TRUE,
              !.pc = IF reader[w].interrupted THEN "recover" ELSE "batch"]
  <2>1. r \in Reader
    <3>1. redis.data.last \in [Streams -> Nat] /\ redis.data.added \in [Streams -> Nat]
      BY <1>1, RedisParts
    <3>2. (IF reader[w].interrupted THEN "recover" ELSE "batch")
            \in {"generation", "head", "recover", "batch", "deliver", "wait"}
      OBVIOUS
    <3> HIDE DEF NoticeTypeOK
    <3> QED
      BY <1>1, <3>1, <3>2, ReaderParts DEF Reader
  <2>2. SetReader(w, r) /\ reader'[w] = r
    BY <1>1, <1>4 DEF CaptureHeads, SetReader, NoticeTypeOK
  <2>3. /\ r.pc \in {"recover", "batch"} /\ r.initialized = TRUE /\ r.interrupted = reader[w].interrupted
        /\ r.generation = reader[w].fetched /\ r.fetched = reader[w].fetched /\ r.recovered = reader[w].recovered
        /\ r.cursor = redis.data.last /\ r.seen = redis.data.added
        /\ r.batch = reader[w].batch /\ r.gap = reader[w].gap
    BY <1>1, ReaderParts DEF Reader
  <2> HIDE DEF r
  <2>4. ReaderOK(w)'
    <3>1. \A s \in Streams : redis.data.last[s] <= redis.clock
      BY <1>1 DEF StreamsOrdered, EntriesOK
    <3>2. reader[w].pc = "head" /\ reader[w].fetched # NoGeneration
      BY <1>1 DEF CaptureHeads, WorkerOK, ReaderOK
    <3> QED
      BY <1>1, <2>2, <2>3, <3>1, <3>2 DEF WorkerOK, ReaderOK, CaptureHeads
  <2>5. Aligned(w)'
    <3>1. ASSUME NEW s \in Streams PROVE AlignedOn(w, s)'
      <4>1. Ordered(redis.data.entries[s], redis.data.last[s], redis.data.added[s])
        BY <1>1 DEF StreamsOrdered, EntriesOK
      <4>2. AlignedAt(redis.data.entries[s], redis.data.last[s], redis.data.added[s], redis.data.last[s], redis.data.added[s])
        BY <1>1, <4>1, StreamFacts, AlignedAtHead
      <4>3. redis' = redis /\ reader'[w].cursor[s] = redis.data.last[s] /\ reader'[w].seen[s] = redis.data.added[s]
        BY <2>2, <2>3 DEF CaptureHeads
      <4> QED
        BY <4>2, <4>3 DEF AlignedOn
    <3> QED
      BY <3>1 DEF Aligned
  <2>6. RecoveryCovers(w)'
    BY <1>1, <2>2, <2>3 DEF WorkerOK, RecoveryCovers, RecoveredKnow, CaptureHeads
  <2>7. OutIsPending(w)'
    <3>1. subscribed[w] => reader[w].interrupted
      BY <1>1 DEF WorkerOK, ReaderOK, CaptureHeads
    <3> QED
      BY <2>2, <2>3, <3>1 DEF OutIsPending, Pending, CaptureHeads
  <2> QED
    BY <1>2, <2>1, <2>2, <2>4, <2>5, <2>6, <2>7, ReaderKeeps DEF CaptureHeads, WorkerOK
<1> QED
  BY <1>3, <1>4

\* The recovery hands every committed change to the subscriptions.
LEMMA RecoverAllKeeps ==
  ASSUME NoticeInv, NEW w \in WebWorkers, RecoverAll(w)
  PROVE  NoticeInv'
<1> DEFINE r == [reader[w] EXCEPT !.interrupted = FALSE, !.recovered = redis.clock, !.pc = "batch"]
<1>1. NoticeTypeOK /\ WorkerOK(w) /\ RowsCommitted /\ reader[w].pc = "recover"
  BY DEF NoticeInv, WorkersServed, RecoverAll
<1>2. r \in Reader
  <2>1. redis.clock \in Nat
    BY <1>1, RedisParts
  <2> QED
    BY <1>1, <2>1, ReaderParts DEF Reader
<1>3. SetReader(w, r) /\ reader'[w] = r /\ UNCHANGED <<committed, row, claim, redis, copies, subscribed, resets, faults>>
  BY <1>1 DEF RecoverAll, SetReader, NoticeTypeOK
<1>4. /\ r.pc = "batch" /\ r.initialized = reader[w].initialized
      /\ r.generation = reader[w].generation /\ r.fetched = reader[w].fetched /\ r.recovered = redis.clock
      /\ r.cursor = reader[w].cursor /\ r.seen = reader[w].seen
      /\ r.batch = reader[w].batch /\ r.gap = reader[w].gap
  BY <1>1, ReaderParts DEF Reader
<1> HIDE DEF r
<1>5. /\ known' \in [WebWorkers -> SUBSET Events]
      /\ \A v \in WebWorkers \ {w} : known'[v] = known[v]
      /\ subscribed[w] => \A e \in Events : IsCommitted(e) => e \in known'[w]
  <2>1. AllCommitted \subseteq Events
    BY <1>1 DEF AllCommitted, Range, NoticeTypeOK
  <2>2. \A e \in Events : IsCommitted(e) => e \in AllCommitted
    BY DEF IsCommitted, AllCommitted, Range
  <2> QED
    BY <1>1, <2>1, <2>2 DEF RecoverAll, Told, NoticeTypeOK
<1>6. ReaderOK(w)'
  <2>1. redis.clock <= redis.clock
    BY <1>1, RedisParts
  <2> QED
    BY <1>1, <1>3, <1>4, <2>1 DEF WorkerOK, ReaderOK, IsCommitted
<1>7. Aligned(w)'
  BY <1>1, <1>3, <1>4 DEF WorkerOK, Aligned, Matched, AlignedOn
<1>8. RecoveryCovers(w)'
  <2> SUFFICES ASSUME subscribed'[w], NEW s \in Streams PROVE RecoveredKnow(w, s)'
    BY DEF RecoveryCovers
  <2>1. \A i \in DOMAIN redis.data.entries[s] : redis.data.entries[s][i].event \in known'[w]
    BY <1>1, <1>3, <1>5, StreamFacts DEF RowsCommitted
  <2>2. reader'[w].batch[s] = <<>>
    BY <1>1, <1>3, <1>4 DEF WorkerOK, ReaderOK
  <2> QED
    BY <1>3, <2>1, <2>2 DEF RecoveredKnow
<1>9. OutIsPending(w)'
  <2>1. \A e \in Events : Out(e)' => IsCommitted(e)
    <3>1. \A e \in Events : Out(e)' => Out(e)
      BY <1>3 DEF Out
    <3> QED
      BY <3>1, OutIsCommitted DEF NoticeInv
  <2> QED
    BY <1>3, <1>5, <2>1 DEF OutIsPending
<1> QED
  BY <1>1, <1>2, <1>3, <1>5, <1>6, <1>7, <1>8, <1>9, ReaderKeeps DEF WorkerOK, NoticeTypeOK

\* A console opens its stream and reads a snapshot of everything committed.
LEMMA SubscribeKeeps ==
  ASSUME NoticeInv, ~EarlySubscribers, NEW w \in WebWorkers, Subscribe(w)
  PROVE  NoticeInv'
<1>1. NoticeTypeOK /\ WorkerOK(w) /\ RowsCommitted
  BY DEF NoticeInv, WorkersServed
<1>2. reader[w].generation # NoGeneration /\ UNCHANGED <<committed, row, claim, redis, copies, reader, resets, faults>>
  BY DEF Subscribe
<1>3. /\ known' \in [WebWorkers -> SUBSET Events]
      /\ subscribed' \in [WebWorkers -> BOOLEAN]
      /\ \A v \in WebWorkers \ {w} : known'[v] = known[v] /\ subscribed'[v] = subscribed[v]
      /\ \A e \in Events : IsCommitted(e) => e \in known'[w]
  <2>1. AllCommitted \subseteq Events
    BY <1>1 DEF AllCommitted, Range, NoticeTypeOK
  <2>2. \A e \in Events : IsCommitted(e) => e \in AllCommitted
    BY DEF IsCommitted, AllCommitted, Range
  <2> QED
    BY <1>1, <2>1, <2>2 DEF Subscribe, NoticeTypeOK
<1>4. NoticeTypeOK'
  BY <1>1, <1>2, <1>3 DEF NoticeTypeOK
<1>5. ReaderOK(w)' /\ Aligned(w)'
  BY <1>1, <1>2 DEF WorkerOK, ReaderOK, IsCommitted, Aligned, Matched, AlignedOn
<1>6. RecoveryCovers(w)'
  <2> SUFFICES ASSUME NEW s \in Streams PROVE RecoveredKnow(w, s)'
    BY DEF RecoveryCovers
  <2>1. \A i \in DOMAIN redis.data.entries[s] : redis.data.entries[s][i].event \in known'[w]
    BY <1>1, <1>3, StreamFacts DEF RowsCommitted
  <2>2. \A i \in DOMAIN reader[w].batch[s] : reader[w].batch[s][i].event \in known'[w]
    <3>1. reader[w].batch[s] \in Seq(Entry)
      BY <1>1, ReaderParts
    <3>2. \A i \in DOMAIN reader[w].batch[s] : IsCommitted(reader[w].batch[s][i].event)
      BY <1>1 DEF WorkerOK, ReaderOK
    <3> QED
      BY <1>3, <3>1, <3>2, EntryFacts
  <2> QED
    BY <1>2, <2>1, <2>2 DEF RecoveredKnow
<1>7. OutIsPending(w)'
  <2>1. \A e \in Events : Out(e)' => Out(e)
    BY <1>2 DEF Out
  <2> QED
    BY <1>3, <2>1, OutIsCommitted DEF OutIsPending, NoticeInv
<1>8. \A v \in WebWorkers \ {w} : WorkerOK(v)'
  BY <1>2, <1>3, WorkerFrame DEF NoticeInv, WorkersServed
<1> QED
  BY <1>2, <1>4, <1>5, <1>6, <1>7, <1>8, RowsFrame DEF NoticeInv, WorkersServed, WorkerOK

\* After a read the cursor is at entry b, and everything up to it was seen.
LEMMA AlignedRead ==
  ASSUME NEW q \in Seq(Entry), NEW last \in Nat, NEW added \in Nat, NEW seen \in Nat, Ordered(q, last, added),
         NEW a \in 1..Len(q), NEW b \in a..Len(q), added + a = seen + Len(q) + 1
  PROVE  AlignedAt(q, last, added, q[b].id, seen + (b - a + 1))
<1>1. Len(q) \in Nat /\ b \in 1..Len(q)
  OBVIOUS
<1>2. \A i \in 1..Len(q) : q[i].id \in Nat
  BY EntryFacts
<1>3. seen + (b - a + 1) <= added /\ q[b].id <= last
  BY <1>1 DEF Ordered
<1>4. ASSUME NEW i \in 1..Len(q)
      PROVE  (q[i].id > q[b].id) <=> (added + i > seen + (b - a + 1) + Len(q))
  <2>1. (added + i > seen + (b - a + 1) + Len(q)) <=> i > b
    BY <1>1
  <2>2. i < b \/ i = b \/ b < i
    BY <1>1
  <2>3. (i < b => q[i].id < q[b].id) /\ (b < i => q[b].id < q[i].id)
    BY <1>1 DEF Ordered
  <2>4. q[i].id \in Nat /\ q[b].id \in Nat /\ i \in Nat /\ b \in Nat
    BY <1>1, <1>2
  <2>5. (q[i].id > q[b].id) <=> i > b
    BY <2>2, <2>3, <2>4
  <2> QED
    BY <2>1, <2>5
<1> QED
  BY <1>3, <1>4 DEF AlignedAt

\* XRANGE: when no entry is missing the batch is the next one, or there is
\* nothing ahead of the cursor.
LEMMA UnreadFacts ==
  ASSUME NoticeTypeOK, NEW w \in WebWorkers, NEW s \in Streams, AlignedOn(w, s), ~Gap(redis.data, reader[w], s)
  PROVE  LET q == redis.data.entries[s]
             u == Unread(redis.data, reader[w], s)
         IN \/ u = <<>> /\ \A i \in 1..Len(q) : ~(q[i].id > reader[w].cursor[s])
            \/ \E a \in 1..Len(q) : \E b \in a..Len(q) :
                 /\ u = SubSeq(q, a, b)
                 /\ redis.data.added[s] + a = reader[w].seen[s] + Len(q) + 1
<1> DEFINE q == redis.data.entries[s]
           cursor == reader[w].cursor[s]
           seen == reader[w].seen[s]
           added == redis.data.added[s]
           after == {i \in DOMAIN q : q[i].id > cursor}
           first == CHOOSE i \in after : \A j \in after : i <= j
           u == Unread(redis.data, reader[w], s)
<1>1. Len(q) \in Nat /\ DOMAIN q = 1..Len(q) /\ added \in Nat /\ seen \in Nat /\ cursor \in Nat
  BY StreamFacts, ReaderParts
<1>2. \A i \in 1..Len(q) : (q[i].id > cursor) <=> (added + i > seen + Len(q))
  BY DEF AlignedOn, AlignedAt
<1>3. added <= seen + Len(q) /\ seen <= added
  <2>1. ~(added - Len(q) > seen) /\ seen <= added
    <3>1. seen <= added
      BY Zenon DEF AlignedOn, AlignedAt
    <3>2. ~(added - Len(q) > seen)
      BY Zenon DEF Gap
    <3> QED
      BY <3>1, <3>2, Zenon
  <2> HIDE DEF q, added, seen
  <2> QED
    BY <1>1, <2>1
<1>4. CASE after = {}
  BY <1>1, <1>4 DEF Unread
<1>5. CASE after # {}
  <2> DEFINE f == seen + Len(q) + 1 - added
             b == IF first + BatchMax <= Len(q) THEN first + BatchMax - 1 ELSE Len(q)
  <2>1. u = SubSeq(q, first, b)
    BY <1>5 DEF Unread
  <2>2. PICK z \in after : TRUE
    BY <1>5
  <2> HIDE DEF q, cursor, seen, added, u, first
  <2>3. z \in 1..Len(q) /\ added + z > seen + Len(q)
    BY <1>1, <1>2, <2>2
  <2>4. f \in 1..Len(q) /\ added + f > seen + Len(q)
    BY <1>1, <1>3, <2>3
  <2>5. f \in after
    BY <1>1, <1>2, <2>4
  <2>6. \A j \in after : f <= j
    <3> SUFFICES ASSUME NEW j \in after PROVE f <= j
      OBVIOUS
    <3>1. j \in 1..Len(q) /\ added + j > seen + Len(q)
      BY <1>1, <1>2
    <3> QED
      BY <1>1, <1>3, <3>1
  <2>7. first \in after /\ \A j \in after : first <= j
    BY <2>5, <2>6 DEF first
  <2>8. first = f
    <3>1. first <= f /\ f <= first /\ first \in Nat /\ f \in Nat
      BY <1>1, <2>4, <2>5, <2>6, <2>7
    <3> QED
      BY <3>1
  <2>9. first \in 1..Len(q) /\ added + first = seen + Len(q) + 1
    BY <1>1, <1>3, <2>4, <2>8
  <2>10. b \in first..Len(q)
    BY <1>1, <2>9, NotificationAssumption
  <2> QED
    BY <2>1, <2>9, <2>10 DEF q, seen, added, u
<1> QED
  BY <1>4, <1>5

\* What one read does with one stream: what was ahead of the cursor is a gap,
\* in the batch or still ahead.
LEMMA ReadStream ==
  ASSUME NoticeTypeOK, StreamsOrdered, NEW w \in WebWorkers, NEW s \in Streams, AlignedOn(w, s)
  PROVE  LET q == redis.data.entries[s]
             last == redis.data.last[s]
             added == redis.data.added[s]
             g == Gap(redis.data, reader[w], s)
             b == IF g THEN <<>> ELSE Unread(redis.data, reader[w], s)
             c == IF g THEN last ELSE IF b = <<>> THEN reader[w].cursor[s] ELSE b[Len(b)].id
             n == IF g THEN added ELSE reader[w].seen[s] + Len(b)
         IN /\ b \in Seq(Entry) /\ c \in Nat /\ n \in Nat /\ AlignedAt(q, last, added, c, n)
            /\ \A i \in DOMAIN b : \E j \in 1..Len(q) : b[i] = q[j]
            /\ g \/ \A i \in 1..Len(q) : q[i].id > reader[w].cursor[s] =>
                      (\E j \in DOMAIN b : b[j] = q[i]) \/ q[i].id > c
<1> DEFINE q == redis.data.entries[s]
           last == redis.data.last[s]
           added == redis.data.added[s]
           cursor == reader[w].cursor[s]
           seen == reader[w].seen[s]
           u == Unread(redis.data, reader[w], s)
<1>1. /\ q \in Seq(Entry) /\ Len(q) \in Nat /\ added \in Nat /\ last \in Nat /\ seen \in Nat /\ cursor \in Nat
      /\ \A i \in 1..Len(q) : q[i].id \in Nat
  BY StreamFacts, ReaderParts
<1>2. Ordered(q, last, added)
  BY DEF StreamsOrdered, EntriesOK
<1>3. CASE Gap(redis.data, reader[w], s)
  <2>1. AlignedAt(q, last, added, last, added)
    BY <1>1, <1>2, AlignedAtHead
  <2>2. <<>> \in Seq(Entry) /\ DOMAIN <<>> = {}
    OBVIOUS
  <2> QED
    BY <1>1, <1>3, <2>1, <2>2
<1>4. CASE ~Gap(redis.data, reader[w], s)
  <2>1. CASE u = <<>> /\ \A i \in 1..Len(q) : ~(q[i].id > cursor)
    <3>1. AlignedAt(q, last, added, cursor, seen)
      BY DEF AlignedOn
    <3>2. seen + Len(u) = seen /\ u \in Seq(Entry) /\ DOMAIN u = {}
      <4> HIDE DEF u, seen, cursor, q
      <4> QED
        BY <1>1, <2>1
    <3> QED
      BY <1>1, <1>4, <2>1, <3>1, <3>2
  <2>2. CASE ~(u = <<>> /\ \A i \in 1..Len(q) : ~(q[i].id > cursor))
    <3>1. PICK a \in 1..Len(q) : \E b \in a..Len(q) : u = SubSeq(q, a, b) /\ added + a = seen + Len(q) + 1
      BY <1>4, <2>2, UnreadFacts
    <3>2. PICK b \in a..Len(q) : u = SubSeq(q, a, b) /\ added + a = seen + Len(q) + 1
      BY <3>1
    <3>3. u \in Seq(Entry) /\ Len(u) = b - a + 1 /\ \A i \in 1..(b - a + 1) : u[i] = q[a + i - 1]
      BY <1>1, <3>2, SliceFacts, SMTT(30)
    <3>4. \A i \in 1..Len(q) : (q[i].id > cursor) <=> (added + i > seen + Len(q))
      BY DEF AlignedOn, AlignedAt
    <3>5. AlignedAt(q, last, added, q[b].id, seen + (b - a + 1))
      BY <1>1, <1>2, <3>2, AlignedRead
    <3> HIDE DEF q, last, added, cursor, seen, u
    <3>6. Len(u) \in Nat \ {0} /\ DOMAIN u = 1..(b - a + 1) /\ u # <<>> /\ u[Len(u)] = q[b] /\ b \in 1..Len(q)
      <4>1. b - a + 1 \in Nat \ {0} /\ a + (b - a + 1) - 1 = b /\ b - a + 1 \in 1..(b - a + 1) /\ b \in 1..Len(q)
        BY <1>1
      <4>2. u[b - a + 1] = q[b]
        BY <3>3, <4>1
      <4>3. DOMAIN u = 1..(b - a + 1) /\ u # <<>>
        BY <3>3, <4>1
      <4> QED
        BY <3>3, <4>1, <4>2, <4>3
    <3>7. \A i \in DOMAIN u : \E j \in 1..Len(q) : u[i] = q[j]
      <4> SUFFICES ASSUME NEW i \in 1..(b - a + 1) PROVE \E j \in 1..Len(q) : u[i] = q[j]
        BY <3>6
      <4>1. a + i - 1 \in 1..Len(q)
        BY <1>1
      <4> QED
        BY <3>3, <4>1
    <3>8. ASSUME NEW i \in 1..Len(q), q[i].id > cursor
          PROVE  (\E j \in DOMAIN u : u[j] = q[i]) \/ q[i].id > q[b].id
      <4>1. a <= i
        <5>1. added + i > seen + Len(q)
          BY <3>4, <3>8
        <5> QED
          BY <1>1, <3>2, <5>1
      <4>2. CASE i <= b
        <5>1. i - a + 1 \in 1..(b - a + 1) /\ a + (i - a + 1) - 1 = i
          BY <1>1, <4>1, <4>2
        <5> QED
          BY <3>3, <3>6, <5>1
      <4>3. CASE b < i
        <5>1. q[b].id < q[i].id
          BY <1>2, <3>6, <4>3 DEF Ordered
        <5> QED
          BY <1>1, <3>6, <5>1
      <4> QED
        BY <1>1, <4>2, <4>3
    <3>9. q[b].id \in Nat /\ seen + (b - a + 1) \in Nat
      BY <1>1, <3>6
    <3> QED
      BY <1>4, <3>3, <3>5, <3>6, <3>7, <3>8, <3>9 DEF q, last, added, cursor, seen, u
  <2> QED
    BY <2>1, <2>2
<1> QED
  BY <1>3, <1>4

\* A read of the batch: another generation makes the reader owe a recovery,
\* and nothing that was ahead of the cursor gets lost otherwise.
LEMMA ReadBatchKeeps ==
  ASSUME NoticeInv, NEW w \in WebWorkers, ReadBatch(w)
  PROVE  NoticeInv'
<1>1. NoticeTypeOK /\ WorkerOK(w) /\ StreamsOrdered /\ RowsCommitted /\ reader[w].pc = "batch"
  BY DEF NoticeInv, WorkersServed, ReadBatch
<1>2. /\ UNCHANGED <<committed, row, claim, redis, copies, known, subscribed, resets, faults>>
      /\ faults' \in Nat /\ known' \in [WebWorkers -> SUBSET Events] /\ subscribed' \in [WebWorkers -> BOOLEAN]
      /\ \A e \in Events : Out(e)' <=> Out(e)
  BY <1>1 DEF ReadBatch, NoticeTypeOK, Out
<1>3. reader[w].generation # NoGeneration /\ \A s \in Streams : ~reader[w].gap[s] /\ reader[w].batch[s] = <<>>
  BY <1>1 DEF WorkerOK, ReaderOK
<1>4. CASE redis.data.generation # reader[w].generation
  <2> DEFINE r == [reader[w] EXCEPT !.pc = "generation", !.initialized = FALSE, !.interrupted = TRUE]
  <2>1. r \in Reader
    BY <1>1, ReaderParts DEF Reader
  <2>2. SetReader(w, r) /\ reader'[w] = r
    BY <1>1, <1>4 DEF ReadBatch, SetReader, NoticeTypeOK
  <2>3. /\ r.pc = "generation" /\ r.initialized = FALSE /\ r.interrupted = TRUE
        /\ r.generation = reader[w].generation /\ r.fetched = reader[w].fetched /\ r.recovered = reader[w].recovered
        /\ r.cursor = reader[w].cursor /\ r.seen = reader[w].seen
        /\ r.batch = reader[w].batch /\ r.gap = reader[w].gap
    BY <1>1, ReaderParts DEF Reader
  <2> HIDE DEF r
  <2>4. ReaderOK(w)'
    BY <1>1, <1>2, <2>2, <2>3 DEF WorkerOK, ReaderOK, IsCommitted
  <2>5. Aligned(w)' /\ RecoveryCovers(w)'
    BY <1>1, <1>2, <2>2, <2>3 DEF WorkerOK, Aligned, Matched, AlignedOn, RecoveryCovers, RecoveredKnow
  <2>6. OutIsPending(w)'
    BY <2>2, <2>3 DEF OutIsPending, Pending
  <2> QED
    BY <1>2, <2>1, <2>2, <2>4, <2>5, <2>6, ReaderKeeps DEF WorkerOK
<1>5. CASE redis.data.generation = reader[w].generation
  <2> DEFINE d == redis.data
             gap == [s \in Streams |-> Gap(d, reader[w], s)]
             batch == [s \in Streams |-> IF gap[s] THEN <<>> ELSE Unread(d, reader[w], s)]
             cursor == [s \in Streams |-> IF gap[s] THEN d.last[s]
                                          ELSE IF batch[s] = <<>> THEN reader[w].cursor[s] ELSE batch[s][Len(batch[s])].id]
             seen == [s \in Streams |-> IF gap[s] THEN d.added[s] ELSE reader[w].seen[s] + Len(batch[s])]
             r == [reader[w] EXCEPT !.pc = "deliver", !.batch = batch, !.gap = gap, !.cursor = cursor, !.seen = seen]
  <2>1. SetReader(w, r)
    BY <1>5 DEF ReadBatch
  <2>2. reader'[w] = r
    BY <1>1, <2>1 DEF SetReader, NoticeTypeOK
  <2>3. \A s \in Streams : AlignedOn(w, s)
    BY <1>1, <1>3, <1>5 DEF WorkerOK, Aligned, Matched
  <2>4. ASSUME NEW s \in Streams
        PROVE  /\ gap[s] \in BOOLEAN /\ (gap[s] <=> Gap(redis.data, reader[w], s))
               /\ batch[s] \in Seq(Entry) /\ cursor[s] \in Nat /\ seen[s] \in Nat
               /\ AlignedAt(d.entries[s], d.last[s], d.added[s], cursor[s], seen[s])
               /\ \A i \in DOMAIN batch[s] : \E j \in 1..Len(d.entries[s]) : batch[s][i] = d.entries[s][j]
               /\ gap[s] \/ \A i \in 1..Len(d.entries[s]) : d.entries[s][i].id > reader[w].cursor[s] =>
                      (\E j \in DOMAIN batch[s] : batch[s][j] = d.entries[s][i]) \/ d.entries[s][i].id > cursor[s]
    <3>1. gap[s] \in BOOLEAN /\ (gap[s] <=> Gap(redis.data, reader[w], s))
      BY DEF Gap
    <3> QED
      BY <1>1, <2>3, <3>1, ReadStream
  <2>5. gap \in [Streams -> BOOLEAN] /\ batch \in [Streams -> Seq(Entry)]
        /\ cursor \in [Streams -> Nat] /\ seen \in [Streams -> Nat]
    BY <2>4
  <2> HIDE DEF gap, batch, cursor, seen
  <2>6. r \in Reader
    <3>1. reader[w] \in Reader
      BY <1>1, ReaderParts
    <3> QED
      BY <2>5, <3>1 DEF Reader
  <2>7. /\ r.pc = "deliver" /\ r.initialized = reader[w].initialized /\ r.interrupted = reader[w].interrupted
        /\ r.generation = reader[w].generation /\ r.fetched = reader[w].fetched /\ r.recovered = reader[w].recovered
        /\ r.cursor = cursor /\ r.seen = seen /\ r.batch = batch /\ r.gap = gap
    BY <1>1, ReaderParts DEF Reader
  <2> HIDE DEF r, d
  <2>8. ReaderOK(w)'
    <3>1. \A s \in Streams : cursor[s] <= redis.clock
      <4> SUFFICES ASSUME NEW s \in Streams PROVE cursor[s] <= redis.clock
        OBVIOUS
      <4>1. cursor[s] <= redis.data.last[s] /\ redis.data.last[s] <= redis.clock /\ cursor[s] \in Nat
        BY <1>1, <2>4 DEF AlignedAt, StreamsOrdered, EntriesOK, d
      <4>2. redis.clock \in Nat /\ redis.data.last[s] \in Nat
        BY <1>1, RedisParts
      <4> QED
        BY <4>1, <4>2
    <3>2. \A s \in Streams : \A i \in DOMAIN batch[s] : IsCommitted(batch[s][i].event)
      <4> SUFFICES ASSUME NEW s \in Streams, NEW i \in DOMAIN batch[s] PROVE IsCommitted(batch[s][i].event)
        OBVIOUS
      <4>1. PICK j \in 1..Len(redis.data.entries[s]) : batch[s][i] = redis.data.entries[s][j]
        BY <2>4 DEF d
      <4> QED
        BY <1>1, <4>1, StreamFacts DEF RowsCommitted
    <3> QED
      BY <1>1, <1>2, <2>2, <2>7, <3>1, <3>2 DEF WorkerOK, ReaderOK, IsCommitted
  <2>9. Aligned(w)'
    BY <1>2, <2>2, <2>4, <2>7 DEF Aligned, AlignedOn, d
  <2>10. RecoveryCovers(w)'
    <3> SUFFICES ASSUME subscribed'[w], NEW s \in Streams PROVE RecoveredKnow(w, s)'
      BY DEF RecoveryCovers
    <3>1. RecoveredKnow(w, s)
      BY <1>1, <1>2 DEF WorkerOK, RecoveryCovers
    <3>2. ASSUME NEW i \in DOMAIN batch[s], batch[s][i].id <= reader[w].recovered PROVE batch[s][i].event \in known[w]
      <4>1. PICK j \in 1..Len(redis.data.entries[s]) : batch[s][i] = redis.data.entries[s][j]
        BY <2>4 DEF d
      <4> QED
        BY <1>1, <3>1, <3>2, <4>1, StreamFacts DEF RecoveredKnow
    <3> QED
      BY <1>2, <2>2, <2>7, <3>1, <3>2 DEF RecoveredKnow
  <2>11. OutIsPending(w)'
    <3> SUFFICES ASSUME NEW e \in Events, subscribed'[w], Out(e)', e \notin known'[w] PROVE Pending(w, e)'
      BY DEF OutIsPending
    <3>1. Pending(w, e)
      BY <1>1, <1>2 DEF WorkerOK, OutIsPending
    <3> DEFINE s == StreamOf[e]
    <3>2. s \in Streams
      BY NotificationAssumption
    <3>3. \/ reader[w].interrupted
          \/ \E x \in Range(redis.data.entries[s]) : x.event = e /\ x.id > reader[w].cursor[s]
          \/ Gap(redis.data, reader[w], s)
      BY <1>3, <1>5, <3>1, <3>2 DEF Pending, Range
    <3>4. CASE reader[w].interrupted
      BY <2>2, <2>7, <3>4 DEF Pending
    <3>5. CASE gap[s]
      BY <2>2, <2>7, <3>2, <3>5 DEF Pending
    <3>6. CASE ~gap[s] /\ \E x \in Range(redis.data.entries[s]) : x.event = e /\ x.id > reader[w].cursor[s]
      <4>1. PICK i \in 1..Len(redis.data.entries[s]) :
              redis.data.entries[s][i].event = e /\ redis.data.entries[s][i].id > reader[w].cursor[s]
        BY <1>1, <3>2, <3>6, StreamFacts DEF Range
      <4>2. (\E j \in DOMAIN batch[s] : batch[s][j] = redis.data.entries[s][i]) \/ redis.data.entries[s][i].id > cursor[s]
        BY <2>4, <3>2, <3>6, <4>1 DEF d
      <4>3. CASE \E j \in DOMAIN batch[s] : batch[s][j] = redis.data.entries[s][i]
        <5>1. \E x \in Range(batch[s]) : x.event = e
          BY <4>1, <4>3 DEF Range
        <5> QED
          BY <2>2, <2>7, <5>1 DEF Pending
      <4>4. CASE redis.data.entries[s][i].id > cursor[s]
        <5>1. \E x \in Range(redis.data.entries[s]) : x.event = e /\ x.id > cursor[s]
          BY <1>1, <3>2, <4>1, <4>4, StreamFacts DEF Range
        <5> QED
          BY <1>2, <2>2, <2>7, <5>1 DEF Pending
      <4> QED
        BY <4>2, <4>3, <4>4
    <3> QED
      BY <2>4, <3>2, <3>3, <3>4, <3>5, <3>6
  <2> QED
    BY <1>2, <2>1, <2>6, <2>8, <2>9, <2>10, <2>11, ReaderKeeps DEF WorkerOK
<1> QED
  BY <1>4, <1>5

\* What a delivery tells is an event; it tells every event of a gap, every
\* plain event of the batch, and everything when a recovery is owed.
LEMMA DeliverFacts ==
  ASSUME NoticeTypeOK, NEW w \in WebWorkers
  PROVE  LET r == reader[w]
             told == UNION {IF r.gap[s] THEN OfStream(s) ELSE DeliveredFrom(r, s) : s \in Streams}
         IN /\ told \subseteq Events
            /\ \A e \in Events : IsCommitted(e) /\ r.gap[StreamOf[e]] => e \in told
            /\ \A e \in Events : \A i \in DOMAIN r.batch[StreamOf[e]] :
                 LET x == r.batch[StreamOf[e]][i]
                 IN IsCommitted(e) /\ x.event = e => e \in told \/ x.id <= r.recovered
<1> DEFINE r == reader[w]
           T(s) == IF r.gap[s] THEN OfStream(s) ELSE DeliveredFrom(r, s)
           told == UNION {T(s) : s \in Streams}
<1>1. AllCommitted \subseteq Events
  BY DEF AllCommitted, Range, NoticeTypeOK
<1>2. \A e \in Events : IsCommitted(e) <=> e \in AllCommitted
  BY DEF IsCommitted, AllCommitted, Range
<1>3. ASSUME NEW s \in Streams PROVE T(s) \subseteq Events
  <2>1. r.batch[s] \in Seq(Entry)
    BY ReaderParts
  <2>2. \A x \in Range(r.batch[s]) : x.event \in Events
    BY <2>1, EntryFacts DEF Range
  <2>3. DeliveredFrom(r, s) \subseteq Events
    BY <1>1, <2>2 DEF DeliveredFrom
  <2> QED
    BY <1>1, <2>3 DEF OfStream
<1>4. ASSUME NEW e \in Events, IsCommitted(e), r.gap[StreamOf[e]] PROVE e \in T(StreamOf[e])
  BY <1>2, <1>4 DEF OfStream
<1>5. ASSUME NEW e \in Events, NEW i \in DOMAIN r.batch[StreamOf[e]], IsCommitted(e),
             r.batch[StreamOf[e]][i].event = e
      PROVE  e \in T(StreamOf[e]) \/ r.batch[StreamOf[e]][i].id <= r.recovered
  <2> DEFINE s == StreamOf[e]
             x == r.batch[s][i]
  <2>1. CASE r.gap[s]
    BY <1>4, <1>5, <2>1
  <2>2. CASE ~r.gap[s] /\ e \notin Oversized
    <3>1. x \in {y \in Range(r.batch[s]) : y.event \notin Oversized}
      BY <1>5, <2>2 DEF Range
    <3> QED
      BY <1>5, <2>2, <3>1 DEF DeliveredFrom
  <2>3. CASE ~r.gap[s] /\ e \in Oversized
    <3>1. s \in Streams /\ r.batch[s] \in Seq(Entry) /\ r.recovered \in Nat
      BY ReaderParts, NotificationAssumption
    <3>2. x.id \in Nat
      BY <3>1, EntryFacts
    <3>3. CASE r.recovered < x.id
      <4>1. x \in {y \in Range(r.batch[s]) : y.event \in Oversized /\ r.recovered < y.id}
        BY <1>5, <2>3, <3>3 DEF Range
      <4> QED
        BY <1>2, <1>5, <2>3, <4>1 DEF DeliveredFrom
    <3> QED
      BY <3>1, <3>2, <3>3
  <2> QED
    BY <2>1, <2>2, <2>3
<1>6. \A e \in Events : StreamOf[e] \in Streams
  BY NotificationAssumption
<1> HIDE DEF T
<1>7. told \subseteq Events
  BY <1>3
<1>8. \A e \in Events : e \in T(StreamOf[e]) => e \in told
  BY <1>6
<1> HIDE DEF told
<1>9. /\ \A e \in Events : IsCommitted(e) /\ r.gap[StreamOf[e]] => e \in told
      /\ \A e \in Events : \A i \in DOMAIN r.batch[StreamOf[e]] :
           IsCommitted(e) /\ r.batch[StreamOf[e]][i].event = e => e \in told \/ r.batch[StreamOf[e]][i].id <= r.recovered
  BY <1>4, <1>5, <1>8
<1> QED
  BY <1>7, <1>9 DEF told, T

\* The delivery: what leaves the batch is known to the subscriptions.
LEMMA DeliverKeeps ==
  ASSUME NoticeInv, NEW w \in WebWorkers, Deliver(w)
  PROVE  NoticeInv'
<1> DEFINE active == \E s \in Streams : reader[w].gap[s] \/ reader[w].batch[s] # <<>>
           r == [reader[w] EXCEPT !.batch = NewReader.batch, !.gap = NewReader.gap,
                                  !.pc = IF active THEN "generation" ELSE "wait"]
           told == UNION {IF reader[w].gap[s] THEN OfStream(s) ELSE DeliveredFrom(reader[w], s) : s \in Streams}
<1>1. NoticeTypeOK /\ WorkerOK(w) /\ RowsCommitted /\ ClaimsApart
  BY DEF NoticeInv, WorkersServed
<1>2. /\ UNCHANGED <<committed, row, claim, redis, copies, subscribed, resets, faults>>
      /\ SetReader(w, r) /\ Told(w, told) /\ reader'[w] = r
      /\ faults' \in Nat /\ subscribed' \in [WebWorkers -> BOOLEAN]
      /\ \A e \in Events : Out(e)' <=> Out(e)
  BY <1>1, SMTT(30) DEF Deliver, SetReader, NoticeTypeOK, Out
<1>3. r \in Reader
  <2>1. NewReader.batch \in [Streams -> Seq(Entry)] /\ NewReader.gap \in [Streams -> BOOLEAN]
    BY DEF NewReader
  <2>2. reader[w] \in Reader
    BY <1>1, ReaderParts
  <2>3. (IF active THEN "generation" ELSE "wait") \in {"generation", "head", "recover", "batch", "deliver", "wait"}
    OBVIOUS
  <2> QED
    BY <2>1, <2>2, <2>3 DEF Reader
<1>4. /\ r.pc \in {"generation", "wait"} /\ r.initialized = reader[w].initialized /\ r.interrupted = reader[w].interrupted
      /\ r.generation = reader[w].generation /\ r.fetched = reader[w].fetched /\ r.recovered = reader[w].recovered
      /\ r.cursor = reader[w].cursor /\ r.seen = reader[w].seen
      /\ \A s \in Streams : r.batch[s] = <<>> /\ r.gap[s] = FALSE
  BY <1>1, ReaderParts DEF Reader, NewReader
<1> HIDE DEF r
<1>5. /\ told \subseteq Events
      /\ \A e \in Events : IsCommitted(e) /\ reader[w].gap[StreamOf[e]] => e \in told
      /\ \A e \in Events : \A i \in DOMAIN reader[w].batch[StreamOf[e]] :
           IsCommitted(e) /\ reader[w].batch[StreamOf[e]][i].event = e
             => e \in told \/ reader[w].batch[StreamOf[e]][i].id <= reader[w].recovered
  BY <1>1, DeliverFacts
<1> HIDE DEF told
<1>6. /\ known' \in [WebWorkers -> SUBSET Events]
      /\ \A v \in WebWorkers \ {w} : known'[v] = known[v]
      /\ subscribed[w] => known'[w] = known[w] \cup told
  BY <1>1, <1>2, <1>5 DEF Told, NoticeTypeOK
<1>7. ReaderOK(w)'
  BY <1>1, <1>2, <1>4 DEF WorkerOK, ReaderOK, IsCommitted
<1>8. Aligned(w)'
  BY <1>1, <1>2, <1>4 DEF WorkerOK, Aligned, Matched, AlignedOn
<1>9. RecoveryCovers(w)'
  BY <1>1, <1>2, <1>4, <1>6 DEF WorkerOK, RecoveryCovers, RecoveredKnow
<1>10. OutIsPending(w)'
  <2> SUFFICES ASSUME NEW e \in Events, subscribed'[w], Out(e)', e \notin known'[w] PROVE Pending(w, e)'
    BY DEF OutIsPending
  <2> DEFINE s == StreamOf[e]
  <2>1. subscribed[w] /\ Out(e) /\ e \notin known[w] /\ e \notin told /\ s \in Streams
    BY <1>2, <1>6, NotificationAssumption
  <2>2. IsCommitted(e)
    BY <1>1, <2>1, OutIsCommitted
  <2>3. Pending(w, e)
    BY <1>1, <2>1 DEF WorkerOK, OutIsPending
  <2>4. ~reader[w].gap[s]
    BY <1>5, <2>1, <2>2
  <2>5. ~\E x \in Range(reader[w].batch[s]) : x.event = e
    <3> SUFFICES ASSUME NEW i \in DOMAIN reader[w].batch[s], reader[w].batch[s][i].event = e PROVE FALSE
      BY DEF Range
    <3>1. reader[w].batch[s][i].id <= reader[w].recovered
      BY <1>5, <2>1, <2>2
    <3> QED
      BY <1>1, <2>1, <3>1 DEF WorkerOK, RecoveryCovers, RecoveredKnow
  <2>6. \/ reader[w].interrupted \/ reader[w].generation # redis.data.generation
        \/ \E x \in Range(redis.data.entries[s]) : x.event = e /\ x.id > reader[w].cursor[s]
        \/ Gap(redis.data, reader[w], s)
    BY <2>3, <2>4, <2>5 DEF Pending
  <2>7. redis' = redis /\ reader'[w].interrupted = reader[w].interrupted /\ reader'[w].generation = reader[w].generation
        /\ reader'[w].cursor = reader[w].cursor /\ reader'[w].seen = reader[w].seen
    BY <1>2, <1>4
  <2> QED
    BY <2>6, <2>7 DEF Pending, Gap
<1> QED
  BY <1>2, <1>3, <1>6, <1>7, <1>8, <1>9, <1>10, ReaderKeeps DEF WorkerOK

\* Steps of the outbox and of fences: a worker whose reader does not move
\* stays served as long as no further event goes out and no entry changes.
LEMMA WorkerRows ==
  ASSUME NoticeTypeOK, NEW v \in WebWorkers, WorkerOK(v),
         reader'[v] = reader[v], known'[v] = known[v], subscribed'[v] = subscribed[v],
         redis'.data.entries = redis.data.entries, redis'.data.last = redis.data.last,
         redis'.data.added = redis.data.added, redis'.data.generation = redis.data.generation,
         redis'.clock = redis.clock, redis'.nonce = redis.nonce,
         \A i \in DOMAIN committed : i \in DOMAIN committed' /\ committed'[i] = committed[i],
         \A e \in Events : Out(e)' => Out(e)
  PROVE  WorkerOK(v)'
<1>1. ReaderOK(v)'
  BY DEF WorkerOK, ReaderOK, IsCommitted
<1>2. Aligned(v)'
  BY DEF WorkerOK, Aligned, Matched, AlignedOn
<1>3. RecoveryCovers(v)'
  BY DEF WorkerOK, RecoveryCovers, RecoveredKnow
<1>4. OutIsPending(v)'
  <2>1. \A e \in Events : Pending(v, e)' <=> Pending(v, e)
    BY DEF Pending, Gap
  <2> QED
    BY <2>1 DEF WorkerOK, OutIsPending
<1> QED
  BY <1>1, <1>2, <1>3, <1>4 DEF WorkerOK

LEMMA CommitKeeps ==
  ASSUME NoticeInv, NEW e \in Events, Commit(e)
  PROVE  NoticeInv'
<1>1. NoticeTypeOK /\ RowsCommitted /\ ClaimsApart /\ CopiesFenced /\ StreamsOrdered /\ WorkersServed
  BY DEF NoticeInv
<1>2. /\ UNCHANGED <<claim, redis, copies, reader, known, subscribed, resets, faults>>
      /\ row[e] = "absent" /\ row'[e] \in {"deferred", "available"}
      /\ \A d \in Events \ {e} : row'[d] = row[d]
      /\ row' \in [Events -> {"absent", "deferred", "available", "erased"}]
  BY <1>1 DEF Commit, NoticeTypeOK
<1>3. /\ committed' \in Seq(Events) /\ Len(committed) \in Nat
      /\ DOMAIN committed = 1..Len(committed) /\ DOMAIN committed' = 1..(Len(committed) + 1)
      /\ committed'[Len(committed) + 1] = e
      /\ \A i \in DOMAIN committed : committed'[i] = committed[i]
  <2>1. committed \in Seq(Events) /\ committed' = Append(committed, e)
    BY <1>1 DEF Commit, NoticeTypeOK
  <2> QED
    BY <2>1, AppendFacts
<1>4. \A d : IsCommitted(d)' <=> (IsCommitted(d) \/ d = e)
  BY <1>3 DEF IsCommitted
<1>5. NoticeTypeOK'
  BY <1>1, <1>2, <1>3 DEF NoticeTypeOK
<1>6. RowsCommitted'
  BY <1>1, <1>2, <1>4 DEF RowsCommitted
<1>7. \A w \in WebWorkers : e \notin Held(w)
  BY <1>1, <1>2, ClaimParts DEF ClaimsApart, ClaimOK, Held
<1>8. ClaimsApart'
  <2>1. \A w \in WebWorkers : \A d \in Held(w) : row'[d] = row[d]
    BY <1>1, <1>2, <1>7, ClaimParts DEF Held
  <2> QED
    BY <1>1, <1>2, <2>1 DEF ClaimsApart, ClaimOK, Held
<1>9. \A d \in Events : Out(d)' <=> Out(d)
  BY <1>2 DEF Out
<1>10. CopiesFenced'
  BY <1>1, <1>2, <1>9 DEF CopiesFenced, CopyOK
<1>11. StreamsOrdered'
  BY <1>1, <1>2 DEF StreamsOrdered, EntriesOK
<1>12. WorkersServed'
  BY <1>1, <1>2, <1>3, <1>9, WorkerRows DEF WorkersServed
<1> QED
  BY <1>5, <1>6, <1>8, <1>10, <1>11, <1>12 DEF NoticeInv

\* Rows and claims change, Redis does not, and nothing goes out.
LEMMA OutboxKeeps ==
  ASSUME NoticeInv, UNCHANGED <<committed, redis, copies, reader, known, subscribed, resets>>, faults' \in Nat,
         row' \in [Events -> {"absent", "deferred", "available", "erased"}], claim' \in [WebWorkers -> Claim],
         ClaimsApart',
         \A e \in Events : (row'[e] = "absent" <=> row[e] = "absent") /\ (row[e] = "erased" => row'[e] = "erased"),
         \A e \in Events : Out(e)' => Out(e)
  PROVE  NoticeInv'
<1>1. NoticeTypeOK /\ RowsCommitted /\ CopiesFenced /\ StreamsOrdered /\ WorkersServed
  BY DEF NoticeInv
<1>2. NoticeTypeOK'
  BY <1>1 DEF NoticeTypeOK
<1>3. RowsCommitted'
  BY <1>1 DEF RowsCommitted, IsCommitted
<1>4. CopiesFenced'
  BY <1>1 DEF CopiesFenced, CopyOK
<1>5. StreamsOrdered'
  BY <1>1 DEF StreamsOrdered, EntriesOK
<1>6. WorkersServed'
  BY <1>1, WorkerRows DEF WorkersServed
<1> QED
  BY <1>2, <1>3, <1>4, <1>5, <1>6 DEF NoticeInv

LEMMA BecomeAvailableKeeps ==
  ASSUME NoticeInv, NEW e \in Events, BecomeAvailable(e)
  PROVE  NoticeInv'
<1>1. NoticeTypeOK /\ ClaimsApart
  BY DEF NoticeInv
<1>2. /\ UNCHANGED <<committed, claim, redis, copies, reader, known, subscribed, resets, faults>>
      /\ row[e] = "deferred" /\ row'[e] = "available" /\ \A d \in Events \ {e} : row'[d] = row[d]
      /\ row' \in [Events -> {"absent", "deferred", "available", "erased"}]
      /\ \A w \in WebWorkers : e \notin Held(w)
  BY <1>1 DEF BecomeAvailable, NoticeTypeOK, Locked
<1>3. ClaimsApart'
  <2>1. \A w \in WebWorkers : \A d \in Held(w) : row'[d] = row[d]
    BY <1>1, <1>2, ClaimParts DEF Held
  <2> QED
    BY <1>1, <1>2, <2>1 DEF ClaimsApart, ClaimOK, Held
<1>4. \A d \in Events : Out(d)' => Out(d)
  BY <1>2 DEF Out
<1>5. faults' \in Nat /\ claim' \in [WebWorkers -> Claim]
  BY <1>1, <1>2 DEF NoticeTypeOK
<1> QED
  BY <1>2, <1>3, <1>4, <1>5, OutboxKeeps

\* One worker's claim changes: the others stay as they are when the rows they
\* hold do and the worker takes none of them.
LEMMA ClaimSet ==
  ASSUME NoticeTypeOK, ClaimsApart, NEW w \in WebWorkers, NEW c \in Claim, claim' = [claim EXCEPT ![w] = c],
         \A v \in WebWorkers \ {w} : /\ \A e \in Held(v) : row'[e] = row[e]
                                     /\ (c.todo \cup c.done \cup c.failed) \cap Held(v) = {},
         ClaimOK(w)'
  PROVE  ClaimsApart' /\ claim' \in [WebWorkers -> Claim] /\ claim'[w] = c
         /\ \A v \in WebWorkers \ {w} : claim'[v] = claim[v]
<1>1. claim' \in [WebWorkers -> Claim] /\ claim'[w] = c /\ \A v \in WebWorkers \ {w} : claim'[v] = claim[v]
  BY DEF NoticeTypeOK
<1>2. Held(w)' = c.todo \cup c.done \cup c.failed /\ \A v \in WebWorkers \ {w} : Held(v)' = Held(v)
  BY <1>1 DEF Held
<1>3. ASSUME NEW v \in WebWorkers \ {w} PROVE ClaimOK(v)'
  BY <1>1, <1>2 DEF ClaimsApart, ClaimOK, Held
<1>4. \A u, v \in WebWorkers : u # v => Held(u)' \cap Held(v)' = {}
  BY <1>2 DEF ClaimsApart
<1> QED
  BY <1>1, <1>3, <1>4 DEF ClaimsApart

LEMMA ClaimBatchKeeps ==
  ASSUME NoticeInv, NEW w \in WebWorkers, ClaimBatch(w)
  PROVE  NoticeInv'
<1>1. NoticeTypeOK /\ ClaimsApart
  BY DEF NoticeInv
<1>2. PICK batch \in SUBSET {e \in Events : row[e] = "available" /\ ~Locked(e)} :
        claim' = [claim EXCEPT ![w] = [pc |-> "publish", todo |-> batch, done |-> {}, failed |-> {}]]
  BY DEF ClaimBatch
<1> DEFINE c == [pc |-> "publish", todo |-> batch, done |-> {}, failed |-> {}]
<1>3. UNCHANGED <<committed, row, redis, copies, reader, known, subscribed, resets, faults>>
  BY DEF ClaimBatch
<1>4. c \in Claim
  BY DEF Claim
<1>5. \A v \in WebWorkers : batch \cap Held(v) = {}
  BY DEF Locked
<1>6. claim'[w] = c
  BY <1>1, <1>2 DEF NoticeTypeOK
<1>7. ClaimOK(w)'
  BY <1>3, <1>6 DEF ClaimOK, Held
<1>8. /\ ClaimsApart' /\ claim' \in [WebWorkers -> Claim] /\ claim'[w] = c
      /\ \A v \in WebWorkers \ {w} : claim'[v] = claim[v]
  <2>1. \A v \in WebWorkers \ {w} : /\ \A e \in Held(v) : row'[e] = row[e]
                                    /\ (c.todo \cup c.done \cup c.failed) \cap Held(v) = {}
    BY <1>3, <1>5
  <2> QED
    BY <1>1, <1>2, <1>4, <1>7, <2>1, ClaimSet
<1>9. \A e \in Events : Out(e)' => Out(e)
  BY <1>3, <1>8 DEF Out
<1>10. /\ row' \in [Events -> {"absent", "deferred", "available", "erased"}] /\ faults' \in Nat
       /\ \A e \in Events : (row'[e] = "absent" <=> row[e] = "absent") /\ (row[e] = "erased" => row'[e] = "erased")
  BY <1>1, <1>3 DEF NoticeTypeOK
<1> QED
  BY <1>3, <1>8, <1>9, <1>10, OutboxKeeps

LEMMA PublishFailsKeeps ==
  ASSUME NoticeInv, NEW w \in WebWorkers, PublishFails(w)
  PROVE  NoticeInv'
<1>1. NoticeTypeOK /\ ClaimsApart /\ claim[w].pc = "publish"
  BY DEF NoticeInv, PublishFails
<1>2. PICK e \in claim[w].todo : claim' = [claim EXCEPT ![w] = Postponed(claim[w], e)]
  BY DEF PublishFails
<1> DEFINE c == Postponed(claim[w], e)
<1>3. UNCHANGED <<committed, row, redis, copies, reader, known, subscribed, resets>> /\ faults' \in Nat
  BY <1>1 DEF PublishFails, MayFault, NoticeTypeOK
<1>4. /\ c \in Claim /\ c.pc = "publish" /\ c.todo = claim[w].todo \ {e} /\ c.done = claim[w].done
      /\ c.failed = claim[w].failed \cup {e}
  BY <1>1, ClaimParts DEF Postponed, Claim
<1> HIDE DEF c
<1>5. claim'[w] = c
  BY <1>1, <1>2 DEF NoticeTypeOK, c
<1>6. ClaimOK(w)'
  BY <1>1, <1>3, <1>4, <1>5 DEF ClaimsApart, ClaimOK, Held
<1>7. /\ ClaimsApart' /\ claim' \in [WebWorkers -> Claim] /\ claim'[w] = c
      /\ \A v \in WebWorkers \ {w} : claim'[v] = claim[v]
  <2>1. \A v \in WebWorkers \ {w} : /\ \A x \in Held(v) : row'[x] = row[x]
                                    /\ (c.todo \cup c.done \cup c.failed) \cap Held(v) = {}
    BY <1>1, <1>3, <1>4 DEF ClaimsApart, Held
  <2> QED
    BY <1>1, <1>2, <1>4, <1>6, <2>1, ClaimSet DEF c
<1>8. \A x \in Events : Out(x)' => Out(x)
  BY <1>3, <1>4, <1>7 DEF Out
<1>9. /\ row' \in [Events -> {"absent", "deferred", "available", "erased"}]
      /\ \A x \in Events : (row'[x] = "absent" <=> row[x] = "absent") /\ (row[x] = "erased" => row'[x] = "erased")
  BY <1>1, <1>3 DEF NoticeTypeOK
<1> QED
  BY <1>3, <1>7, <1>8, <1>9, OutboxKeeps

\* What a claim transaction writes: the rows of its own events only.
LEMMA SettledFacts ==
  ASSUME NoticeTypeOK, ClaimsApart, NEW w \in WebWorkers, claim[w].pc = "publish"
  PROVE  /\ Settled(claim[w]) \in [Events -> {"absent", "deferred", "available", "erased"}]
         /\ \A e \in claim[w].done : Settled(claim[w])[e] = "erased"
         /\ \A e \in Events \ Held(w) : Settled(claim[w])[e] = row[e]
         /\ \A e \in Events : /\ Settled(claim[w])[e] = "absent" <=> row[e] = "absent"
                              /\ row[e] = "erased" => Settled(claim[w])[e] = "erased"
                              /\ Settled(claim[w])[e] = "erased" => row[e] = "erased" \/ e \in claim[w].done
<1>1. \A e \in claim[w].done \cup claim[w].failed : row[e] = "available" /\ e \in Events
  BY ClaimParts DEF ClaimsApart, ClaimOK, Held
<1>2. row \in [Events -> {"absent", "deferred", "available", "erased"}]
  BY DEF NoticeTypeOK
<1> QED
  BY <1>1, <1>2, ClaimParts DEF Settled, Held

LEMMA CommitClaimKeeps ==
  ASSUME NoticeInv, NEW w \in WebWorkers, CommitClaim(w)
  PROVE  NoticeInv'
<1>1. NoticeTypeOK /\ ClaimsApart /\ claim[w].pc = "publish" /\ claim[w].todo = {}
  BY DEF NoticeInv, CommitClaim
<1> DEFINE c == [pc |-> "forget", todo |-> {}, done |-> claim[w].done, failed |-> {}]
<1>2. /\ UNCHANGED <<committed, redis, copies, reader, known, subscribed, resets, faults>>
      /\ row' = Settled(claim[w]) /\ claim' = [claim EXCEPT ![w] = c] /\ faults' \in Nat
  BY <1>1 DEF CommitClaim, NoticeTypeOK
<1>3. c \in Claim
  BY <1>1, ClaimParts DEF Claim
<1>4. claim'[w] = c
  BY <1>1, <1>2 DEF NoticeTypeOK
<1>5. ClaimOK(w)'
  BY <1>1, <1>2, <1>4, SettledFacts DEF ClaimOK, Held
<1>6. /\ ClaimsApart' /\ claim' \in [WebWorkers -> Claim] /\ claim'[w] = c
      /\ \A v \in WebWorkers \ {w} : claim'[v] = claim[v]
  <2>1. \A v \in WebWorkers \ {w} : /\ \A x \in Held(v) : row'[x] = row[x]
                                    /\ (c.todo \cup c.done \cup c.failed) \cap Held(v) = {}
    <3> SUFFICES ASSUME NEW v \in WebWorkers \ {w}
                 PROVE  /\ \A x \in Held(v) : row'[x] = row[x]
                        /\ (c.todo \cup c.done \cup c.failed) \cap Held(v) = {}
      OBVIOUS
    <3>1. Held(w) \cap Held(v) = {} /\ Held(v) \subseteq Events
      BY <1>1, ClaimParts DEF ClaimsApart, Held
    <3> QED
      BY <1>1, <1>2, <3>1, SettledFacts DEF Held
  <2> QED
    BY <1>1, <1>2, <1>3, <1>5, <2>1, ClaimSet
<1>7. \A x \in Events : Out(x)' => Out(x)
  BY <1>1, <1>2, <1>6, SettledFacts DEF Out
<1> QED
  BY <1>1, <1>2, <1>6, <1>7, SettledFacts, OutboxKeeps

LEMMA CommitUncertainKeeps ==
  ASSUME NoticeInv, NEW w \in WebWorkers, CommitUncertain(w)
  PROVE  NoticeInv'
<1>1. NoticeTypeOK /\ ClaimsApart /\ claim[w].pc = "publish"
  BY DEF NoticeInv, CommitUncertain
<1>2. /\ UNCHANGED <<committed, redis, copies, reader, known, subscribed, resets>> /\ faults' \in Nat
      /\ row' \in {row, Settled(claim[w])} /\ claim' = [claim EXCEPT ![w] = NoClaim]
  BY <1>1 DEF CommitUncertain, MayFault, NoticeTypeOK
<1>3. NoClaim \in Claim /\ NoClaim.pc = "idle" /\ NoClaim.todo = {} /\ NoClaim.done = {} /\ NoClaim.failed = {}
  BY DEF Claim, NoClaim
<1>4. claim'[w] = NoClaim
  BY <1>1, <1>2 DEF NoticeTypeOK
<1>5. ClaimOK(w)'
  BY <1>3, <1>4 DEF ClaimOK, Held
<1>6. /\ row' \in [Events -> {"absent", "deferred", "available", "erased"}]
      /\ \A e \in Events \ Held(w) : row'[e] = row[e]
      /\ \A e \in Events : /\ row'[e] = "absent" <=> row[e] = "absent"
                           /\ row[e] = "erased" => row'[e] = "erased"
                           /\ row'[e] = "erased" => row[e] = "erased" \/ e \in claim[w].done
  <2>1. CASE row' = row
    BY <1>1, <2>1 DEF NoticeTypeOK
  <2>2. CASE row' = Settled(claim[w])
    BY <1>1, <2>2, SettledFacts
  <2> QED
    BY <1>2, <2>1, <2>2
<1>7. /\ ClaimsApart' /\ claim' \in [WebWorkers -> Claim]
      /\ \A v \in WebWorkers \ {w} : claim'[v] = claim[v]
  <2>1. \A v \in WebWorkers \ {w} : /\ \A x \in Held(v) : row'[x] = row[x]
                                    /\ (NoClaim.todo \cup NoClaim.done \cup NoClaim.failed) \cap Held(v) = {}
    <3> SUFFICES ASSUME NEW v \in WebWorkers \ {w} PROVE \A x \in Held(v) : row'[x] = row[x]
      BY <1>3
    <3>1. Held(w) \cap Held(v) = {} /\ Held(v) \subseteq Events
      BY <1>1, ClaimParts DEF ClaimsApart, Held
    <3> QED
      BY <1>6, <3>1
  <2> QED
    BY <1>1, <1>2, <1>3, <1>5, <2>1, ClaimSet
<1>8. \A x \in Events : Out(x)' => Out(x)
  BY <1>2, <1>3, <1>4, <1>6, <1>7 DEF Out
<1> QED
  BY <1>2, <1>6, <1>7, <1>8, OutboxKeeps

\* Fences go only for rows that are erased.
LEMMA ForgetFencesKeeps ==
  ASSUME NoticeInv, NEW w \in WebWorkers, ForgetFences(w)
  PROVE  NoticeInv'
<1>1. NoticeTypeOK /\ RowsCommitted /\ ClaimsApart /\ CopiesFenced /\ StreamsOrdered /\ WorkersServed
  BY DEF NoticeInv
<1>2. PICK some \in SUBSET claim[w].done : Forget(some)
  BY DEF ForgetFences
<1>3. /\ UNCHANGED <<committed, row, copies, reader, known, subscribed, resets>> /\ faults' \in Nat
      /\ claim[w].pc = "forget" /\ claim' = [claim EXCEPT ![w] = NoClaim]
  BY <1>1 DEF ForgetFences, MayFault, NoticeTypeOK
<1>4. /\ redis' \in [data : RedisData, clock : Nat, nonce : Nat]
      /\ redis'.data.entries = redis.data.entries /\ redis'.data.last = redis.data.last
      /\ redis'.data.added = redis.data.added /\ redis'.data.generation = redis.data.generation
      /\ redis'.clock = redis.clock /\ redis'.nonce = redis.nonce
      /\ redis'.data.fence = redis.data.fence \ some
  BY <1>1, <1>2, RedisParts DEF Forget, NoticeTypeOK, RedisData
<1>5. NoClaim \in Claim /\ NoClaim.pc = "idle" /\ NoClaim.todo = {} /\ NoClaim.done = {} /\ NoClaim.failed = {}
  BY DEF Claim, NoClaim
<1>6. claim'[w] = NoClaim
  BY <1>1, <1>3 DEF NoticeTypeOK
<1>7. /\ ClaimsApart' /\ claim' \in [WebWorkers -> Claim]
      /\ \A v \in WebWorkers \ {w} : claim'[v] = claim[v]
  <2>1. ClaimOK(w)'
    BY <1>5, <1>6 DEF ClaimOK, Held
  <2> QED
    BY <1>1, <1>3, <1>5, <2>1, ClaimSet
<1>8. \A e \in Events : Out(e)' => Out(e)
  BY <1>3, <1>4, <1>5, <1>6, <1>7 DEF Out
<1>9. NoticeTypeOK'
  BY <1>1, <1>3, <1>4, <1>7 DEF NoticeTypeOK
<1>10. RowsCommitted'
  BY <1>1, <1>3, <1>4 DEF RowsCommitted, IsCommitted
<1>11. CopiesFenced'
  <2>1. \A e \in some : row[e] = "erased"
    BY <1>1, <1>3 DEF ClaimsApart, ClaimOK
  <2> QED
    BY <1>1, <1>3, <1>4, <1>8, <2>1 DEF CopiesFenced, CopyOK
<1>12. StreamsOrdered'
  BY <1>1, <1>4 DEF StreamsOrdered, EntriesOK
<1>13. WorkersServed'
  BY <1>1, <1>3, <1>4, <1>8, WorkerRows DEF WorkersServed
<1> QED
  BY <1>7, <1>9, <1>10, <1>11, <1>12, <1>13 DEF NoticeInv

\* A worker dies: its claim rolls back and nobody subscribes to it.
LEMMA CrashKeeps ==
  ASSUME NoticeInv, NEW w \in WebWorkers, Crash(w)
  PROVE  NoticeInv'
<1>1. NoticeTypeOK /\ RowsCommitted /\ ClaimsApart /\ CopiesFenced /\ StreamsOrdered /\ WorkersServed
  BY DEF NoticeInv
<1>2. /\ UNCHANGED <<committed, row, redis, copies, resets>> /\ faults' \in Nat
      /\ claim' = [claim EXCEPT ![w] = NoClaim]
      /\ reader' \in [WebWorkers -> Reader] /\ reader'[w] = NewReader
      /\ known' \in [WebWorkers -> SUBSET Events]
      /\ subscribed' \in [WebWorkers -> BOOLEAN] /\ subscribed'[w] = FALSE
      /\ \A v \in WebWorkers \ {w} : reader'[v] = reader[v] /\ known'[v] = known[v] /\ subscribed'[v] = subscribed[v]
  BY <1>1, StaleParts DEF Crash, MayFault, NoticeTypeOK
<1>3. NoClaim \in Claim /\ NoClaim.pc = "idle" /\ NoClaim.todo = {} /\ NoClaim.done = {} /\ NoClaim.failed = {}
  BY DEF Claim, NoClaim
<1>4. claim'[w] = NoClaim
  BY <1>1, <1>2 DEF NoticeTypeOK
<1>5. /\ ClaimsApart' /\ claim' \in [WebWorkers -> Claim]
      /\ \A v \in WebWorkers \ {w} : claim'[v] = claim[v]
  <2>1. ClaimOK(w)'
    BY <1>3, <1>4 DEF ClaimOK, Held
  <2> QED
    BY <1>1, <1>2, <1>3, <2>1, ClaimSet
<1>6. \A e \in Events : Out(e)' => Out(e)
  BY <1>2, <1>3, <1>4, <1>5 DEF Out
<1>7. NoticeTypeOK'
  BY <1>1, <1>2, <1>5 DEF NoticeTypeOK
<1>8. RowsCommitted'
  BY <1>1, <1>2 DEF RowsCommitted, IsCommitted
<1>9. CopiesFenced'
  BY <1>1, <1>2, <1>6 DEF CopiesFenced, CopyOK
<1>10. StreamsOrdered'
  BY <1>1, <1>2 DEF StreamsOrdered, EntriesOK
<1>11. ASSUME NEW v \in WebWorkers \ {w} PROVE WorkerOK(v)'
  BY <1>1, <1>2, <1>6, WorkerRows DEF WorkersServed
<1>12. WorkerOK(w)'
  <2>1. redis.clock \in Nat /\ redis.nonce \in Nat
    BY <1>1, RedisParts
  <2>2. ReaderOK(w)'
    BY <1>2, <2>1 DEF ReaderOK, NewReader, NoGeneration
  <2>3. ~Matched(w)'
    BY <1>2 DEF Matched, NewReader
  <2> QED
    BY <1>2, <2>2, <2>3 DEF WorkerOK, Aligned, RecoveryCovers, OutIsPending
<1> QED
  BY <1>5, <1>7, <1>8, <1>9, <1>10, <1>11, <1>12 DEF NoticeInv, WorkersServed

\* Redis comes back empty: no reader has its generation.
LEMMA ResetRedisKeeps ==
  ASSUME NoticeInv, ResetRedis
  PROVE  NoticeInv'
<1>1. NoticeTypeOK /\ RowsCommitted /\ ClaimsApart /\ CopiesFenced /\ StreamsOrdered /\ WorkersServed
  BY DEF NoticeInv
<1>2. /\ UNCHANGED <<committed, row, claim, reader, known, subscribed, faults>>
      /\ resets' \in Nat /\ resets' # 0 /\ copies' = [e \in Events |-> 0]
  BY <1>1 DEF ResetRedis, NoticeTypeOK
<1>3. /\ redis' \in [data : RedisData, clock : Nat, nonce : Nat]
      /\ redis'.data = EmptyRedis /\ redis'.clock = redis.clock /\ redis'.nonce = redis.nonce
  BY <1>1, StaleParts, RedisParts DEF ResetRedis, NoticeTypeOK
<1>4. /\ redis'.data.fence = {} /\ redis'.data.generation = NoGeneration
      /\ \A s \in Streams : redis'.data.entries[s] = <<>> /\ redis'.data.last[s] = 0 /\ redis'.data.added[s] = 0
  BY <1>3 DEF EmptyRedis
<1>5. NoticeTypeOK'
  BY <1>1, <1>2, <1>3 DEF NoticeTypeOK
<1>6. RowsCommitted'
  BY <1>1, <1>2, <1>4 DEF RowsCommitted, IsCommitted
<1>7. ClaimsApart'
  BY <1>1, <1>2 DEF ClaimsApart, ClaimOK, Held
<1>8. CopiesFenced'
  BY <1>2 DEF CopiesFenced, CopyOK
<1>9. StreamsOrdered'
  BY <1>1, <1>3, <1>4, RedisParts DEF StreamsOrdered, EntriesOK, Ordered, NoGeneration
<1>10. ASSUME NEW v \in WebWorkers PROVE WorkerOK(v)'
  <2>1. WorkerOK(v)
    BY <1>1 DEF WorkersServed
  <2>2. ReaderOK(v)'
    BY <1>2, <1>3, <2>1 DEF WorkerOK, ReaderOK, IsCommitted
  <2>3. ~Matched(v)'
    BY <1>4 DEF Matched
  <2>4. RecoveryCovers(v)'
    BY <1>2, <1>4, <2>1 DEF WorkerOK, RecoveryCovers, RecoveredKnow
  <2>5. OutIsPending(v)'
    <3>1. subscribed'[v] => reader'[v].generation # redis'.data.generation
      BY <1>2, <1>4, <2>1 DEF WorkerOK, ReaderOK
    <3> QED
      BY <3>1 DEF OutIsPending, Pending
  <2> QED
    BY <2>2, <2>3, <2>4, <2>5 DEF WorkerOK, Aligned
<1> QED
  BY <1>5, <1>6, <1>7, <1>8, <1>9, <1>10 DEF NoticeInv, WorkersServed

\* A generation key that Redis has lost is created with a value no reader has.
LEMMA FetchGenerationKeeps ==
  ASSUME NoticeInv, NEW w \in WebWorkers, FetchGeneration(w)
  PROVE  NoticeInv'
<1> DEFINE d == redis.data
           g == IF d.generation = NoGeneration THEN redis.nonce + 1 ELSE d.generation
           moved == reader[w].generation # NoGeneration /\ g # reader[w].generation
           f == [reader[w] EXCEPT !.fetched = g, !.initialized = reader[w].initialized /\ ~moved,
                                  !.interrupted = reader[w].interrupted \/ moved]
           r == [f EXCEPT !.pc = IF ~f.initialized THEN "head" ELSE IF f.interrupted THEN "recover" ELSE "batch"]
<1>1. NoticeTypeOK /\ RowsCommitted /\ ClaimsApart /\ CopiesFenced /\ StreamsOrdered /\ WorkersServed
  BY DEF NoticeInv
<1>2. /\ UNCHANGED <<committed, row, claim, copies, known, subscribed, resets, faults>>
      /\ redis' = [redis EXCEPT !.data = [d EXCEPT !.generation = g], !.nonce = IF g > redis.nonce THEN g ELSE redis.nonce]
      /\ SetReader(w, r) /\ reader[w].pc = "generation"
  BY DEF FetchGeneration
<1>3. /\ d.generation \in Nat /\ redis.nonce \in Nat /\ d.generation <= redis.nonce
      /\ g \in Nat /\ g # NoGeneration /\ (g = d.generation \/ (d.generation = NoGeneration /\ g > redis.nonce))
  <2>1. d.generation \in Nat /\ redis.nonce \in Nat /\ d.generation <= redis.nonce
    BY <1>1, RedisParts DEF StreamsOrdered
  <2> QED
    BY <2>1 DEF NoGeneration
<1> HIDE DEF g
<1>4. /\ redis' \in [data : RedisData, clock : Nat, nonce : Nat]
      /\ redis'.data.entries = redis.data.entries /\ redis'.data.last = redis.data.last
      /\ redis'.data.added = redis.data.added /\ redis'.data.fence = redis.data.fence
      /\ redis'.data.generation = g /\ redis'.clock = redis.clock
      /\ redis'.nonce \in Nat /\ redis.nonce <= redis'.nonce /\ g <= redis'.nonce
  <2>1. redis'.data = [d EXCEPT !.generation = g] /\ redis'.clock = redis.clock
        /\ redis'.nonce = (IF g > redis.nonce THEN g ELSE redis.nonce)
        /\ redis' = [data |-> redis'.data, clock |-> redis'.clock, nonce |-> redis'.nonce]
    BY <1>1, <1>2, RedisParts
  <2>2. redis'.nonce \in Nat /\ redis.nonce <= redis'.nonce /\ g <= redis'.nonce
    BY <1>3, <2>1
  <2>3. redis'.data \in RedisData
    BY <1>1, <1>3, <2>1, RedisParts DEF RedisData
  <2>4. redis'.clock \in Nat
    BY <1>1, <2>1, RedisParts
  <2>5. redis' \in [data : RedisData, clock : Nat, nonce : Nat]
    BY <2>1, <2>2, <2>3, <2>4
  <2> QED
    BY <1>1, <2>1, <2>2, <2>5, RedisParts DEF RedisData
<1>5. /\ r \in Reader
      /\ r.fetched = g /\ r.generation = reader[w].generation /\ r.recovered = reader[w].recovered
      /\ r.cursor = reader[w].cursor /\ r.seen = reader[w].seen
      /\ r.batch = reader[w].batch /\ r.gap = reader[w].gap
      /\ r.pc \in {"head", "recover", "batch"} /\ (r.pc = "head" <=> ~r.initialized)
      /\ r.initialized <=> (reader[w].initialized /\ ~moved)
      /\ r.interrupted <=> (reader[w].interrupted \/ moved)
  <2>1. reader[w] \in Reader
    BY <1>1, ReaderParts
  <2>2. /\ f \in Reader /\ f.fetched = g /\ f.generation = reader[w].generation /\ f.recovered = reader[w].recovered
        /\ f.cursor = reader[w].cursor /\ f.seen = reader[w].seen
        /\ f.batch = reader[w].batch /\ f.gap = reader[w].gap
        /\ f.initialized = (reader[w].initialized /\ ~moved)
        /\ f.interrupted = (reader[w].interrupted \/ moved)
    BY <1>3, <2>1 DEF Reader
  <2> HIDE DEF f, moved
  <2>3. PICK p \in {"head", "recover", "batch"} :
          /\ p = IF ~f.initialized THEN "head" ELSE IF f.interrupted THEN "recover" ELSE "batch"
          /\ p = "head" <=> ~f.initialized
    OBVIOUS
  <2>4. r = [f EXCEPT !.pc = p]
    BY <2>3
  <2> HIDE DEF r
  <2>5. r \in Reader /\ r.pc = p
    BY <2>2, <2>4 DEF Reader
  <2> QED
    BY <2>2, <2>3, <2>4, <2>5 DEF Reader
<1> HIDE DEF f, r
<1>6. reader' \in [WebWorkers -> Reader] /\ reader'[w] = r /\ \A v \in WebWorkers \ {w} : reader'[v] = reader[v]
  BY <1>1, <1>2, <1>5 DEF SetReader, NoticeTypeOK
<1>7. NoticeTypeOK'
  BY <1>1, <1>2, <1>4, <1>6 DEF NoticeTypeOK
<1>8. RowsCommitted' /\ ClaimsApart' /\ CopiesFenced' /\ StreamsOrdered'
  <2>1. RowsCommitted'
    BY <1>1, <1>2, <1>4 DEF RowsCommitted, IsCommitted
  <2>2. ClaimsApart'
    BY <1>1, <1>2 DEF ClaimsApart, ClaimOK, Held
  <2>3. CopiesFenced'
    BY <1>1, <1>2, <1>4 DEF CopiesFenced, CopyOK, Out
  <2>4. StreamsOrdered'
    BY <1>1, <1>4 DEF StreamsOrdered, EntriesOK
  <2> QED
    BY <2>1, <2>2, <2>3, <2>4
<1>9. ASSUME NEW v \in WebWorkers PROVE WorkerOK(v)'
  <2>1. WorkerOK(v)
    BY <1>1 DEF WorkersServed
  <2>2. /\ reader'[v].generation = reader[v].generation /\ reader'[v].recovered = reader[v].recovered
        /\ reader'[v].cursor = reader[v].cursor /\ reader'[v].seen = reader[v].seen
        /\ reader'[v].batch = reader[v].batch /\ reader'[v].gap = reader[v].gap
        /\ reader[v].interrupted => reader'[v].interrupted
    BY <1>5, <1>6
  <2>3. reader[v].generation \in Nat /\ reader[v].fetched \in Nat /\ reader[v].generation <= redis.nonce
        /\ reader[v].fetched <= redis.nonce
    BY <1>1, <2>1, ReaderParts DEF WorkerOK, ReaderOK
  <2>4. ReaderOK(v)'
    <3>1. reader[v].generation <= redis'.nonce /\ reader[v].fetched <= redis'.nonce
      BY <1>3, <1>4, <2>3
    <3>2. CASE v # w
      <4>1. reader'[v] = reader[v]
        BY <1>6, <3>2
      <4> QED
        BY <1>2, <1>4, <2>1, <3>1, <4>1 DEF WorkerOK, ReaderOK, IsCommitted
    <3>3. CASE v = w
      <4>1. r.initialized => reader[w].initialized
        BY <1>5
      <4>2. ~r.initialized => ~reader[w].initialized \/ r.interrupted
        BY <1>5
      <4>3. r.pc # "deliver" /\ \A s \in Streams : ~reader[w].gap[s] /\ reader[w].batch[s] = <<>>
        BY <1>2, <1>5, <2>1, <3>3 DEF WorkerOK, ReaderOK
      <4> QED
        BY <1>2, <1>3, <1>4, <1>5, <1>6, <2>1, <3>1, <3>3, <4>1, <4>2, <4>3 DEF WorkerOK, ReaderOK, IsCommitted
    <3> QED
      BY <3>2, <3>3
  <2>5. Matched(v)' => Matched(v)
    BY <1>3, <1>4, <2>2, <2>3 DEF Matched
  <2>6. Aligned(v)'
    BY <1>4, <2>1, <2>2, <2>5 DEF WorkerOK, Aligned, AlignedOn
  <2>7. RecoveryCovers(v)'
    BY <1>2, <1>4, <2>1, <2>2 DEF WorkerOK, RecoveryCovers, RecoveredKnow
  <2>8. OutIsPending(v)'
    <3> SUFFICES ASSUME NEW e \in Events, subscribed'[v], Out(e)', e \notin known'[v] PROVE Pending(v, e)'
      BY DEF OutIsPending
    <3>1. subscribed[v] /\ Out(e) /\ e \notin known[v]
      BY <1>2, <1>4 DEF Out
    <3>2. Pending(v, e)
      BY <2>1, <3>1 DEF WorkerOK, OutIsPending
    <3>3. reader[v].generation # NoGeneration
      BY <2>1, <3>1 DEF WorkerOK, ReaderOK
    <3>4. CASE reader[v].generation # redis.data.generation
      <4>1. reader[v].generation # g
        BY <1>3, <2>3, <3>4
      <4> QED
        BY <1>4, <2>2, <4>1 DEF Pending
    <3>5. CASE reader[v].generation = redis.data.generation
      BY <1>4, <2>2, <3>2, <3>5 DEF Pending, Gap
    <3> QED
      BY <3>4, <3>5
  <2> QED
    BY <2>4, <2>6, <2>7, <2>8 DEF WorkerOK
<1> QED
  BY <1>7, <1>8, <1>9 DEF NoticeInv, WorkersServed

\* The claim after one row was published, whether the reply came or not.
LEMMA PublishClaim ==
  ASSUME NoticeInv, NEW w \in WebWorkers, claim[w].pc = "publish", NEW e \in claim[w].todo, row' = row,
         NEW c \in {Finished(claim[w], e), Postponed(claim[w], e)}, claim' = [claim EXCEPT ![w] = c]
  PROVE  /\ ClaimsApart' /\ claim' \in [WebWorkers -> Claim]
         /\ \A v \in WebWorkers : claim'[v].done \subseteq claim[v].done \cup {e}
         /\ e \in Events /\ row[e] = "available" /\ IsCommitted(e)
<1>1. NoticeTypeOK /\ ClaimsApart /\ RowsCommitted
  BY DEF NoticeInv
<1>2. /\ c \in Claim /\ c.pc = "publish" /\ c.todo = claim[w].todo \ {e}
      /\ \/ c.done = claim[w].done \cup {e} /\ c.failed = claim[w].failed
         \/ c.done = claim[w].done /\ c.failed = claim[w].failed \cup {e}
  <2>1. claim[w] \in Claim /\ claim[w].todo \subseteq Events /\ claim[w].done \subseteq Events /\ claim[w].failed \subseteq Events
    BY <1>1, ClaimParts
  <2>2. e \in Events
    BY <2>1
  <2>3. CASE c = Finished(claim[w], e)
    BY <2>1, <2>2, <2>3 DEF Finished, Claim
  <2>4. CASE c = Postponed(claim[w], e)
    BY <2>1, <2>2, <2>4 DEF Postponed, Claim
  <2> QED
    BY <2>3, <2>4
<1>3. claim'[w] = c
  BY <1>1 DEF NoticeTypeOK
<1>4. ClaimOK(w)'
  BY <1>1, <1>2, <1>3 DEF ClaimsApart, ClaimOK, Held
<1>5. /\ ClaimsApart' /\ claim' \in [WebWorkers -> Claim]
      /\ \A v \in WebWorkers \ {w} : claim'[v] = claim[v]
  <2>1. \A v \in WebWorkers \ {w} : /\ \A x \in Held(v) : row'[x] = row[x]
                                    /\ (c.todo \cup c.done \cup c.failed) \cap Held(v) = {}
    BY <1>1, <1>2 DEF ClaimsApart, Held
  <2> QED
    BY <1>1, <1>2, <1>4, <2>1, ClaimSet
<1>6. \A v \in WebWorkers : claim'[v].done \subseteq claim[v].done \cup {e}
  BY <1>2, <1>3, <1>5
<1>7. e \in Events /\ row[e] = "available"
  BY <1>1, ClaimParts DEF ClaimsApart, ClaimOK, Held
<1>8. IsCommitted(e)
  BY <1>1, <1>7 DEF RowsCommitted
<1> QED
  BY <1>5, <1>6, <1>7, <1>8

\* What is at most a clock is below its next reading.
LEMMA BelowNext ==
  ASSUME NEW a \in Nat, NEW b \in Nat, a <= b
  PROVE  a <= b + 1 /\ b + 1 > a /\ ~(b + 1 <= a)
OBVIOUS

\* A count that grew by one differs by one.
LEMMA OneMore ==
  ASSUME NEW a \in Nat, NEW b, b = a + 1
  PROVE  b - a = 1
OBVIOUS

\* A reader in line with its stream is ahead of it in neither number.
LEMMA AlignedBounds ==
  ASSUME NEW q, NEW last \in Nat, NEW added \in Nat, NEW cursor \in Nat, NEW seen \in Nat,
         AlignedAt(q, last, added, cursor, seen)
  PROVE  ~(last < cursor) /\ ~(added < seen)
BY DEF AlignedAt

\* The event is new to this Redis: every reader that is not bound to recover
\* has its entry ahead, and what the append trimmed is a gap.
LEMMA PublishNew ==
  ASSUME NoticeInv, NEW w \in WebWorkers, claim[w].pc = "publish", NEW e \in claim[w].todo,
         NEW c \in {Finished(claim[w], e), Postponed(claim[w], e)}, claim' = [claim EXCEPT ![w] = c],
         redis' \in Published(redis, e), e \notin redis.data.fence,
         copies' = [copies EXCEPT ![e] = copies[e] + (redis'.data.added[StreamOf[e]] - redis.data.added[StreamOf[e]])],
         UNCHANGED <<committed, row, reader, known, subscribed, resets>>, faults' \in Nat
  PROVE  NoticeInv'
<1> DEFINE s == StreamOf[e]
           q == redis.data.entries[s]
           k == redis'.data.entries[s]
<1>1. NoticeTypeOK /\ RowsCommitted /\ ClaimsApart /\ CopiesFenced /\ StreamsOrdered /\ WorkersServed
  BY DEF NoticeInv
<1>2. /\ ClaimsApart' /\ claim' \in [WebWorkers -> Claim]
      /\ \A v \in WebWorkers : claim'[v].done \subseteq claim[v].done \cup {e}
      /\ e \in Events /\ row[e] = "available" /\ IsCommitted(e)
  BY PublishClaim
<1>3. s \in Streams
  BY <1>2, NotificationAssumption
<1>4. /\ redis' \in [data : RedisData, clock : Nat, nonce : Nat]
      /\ redis'.clock = redis.clock + 1 /\ redis'.nonce = redis.nonce
      /\ redis'.data.generation = redis.data.generation
      /\ redis'.data.fence = redis.data.fence \cup {e}
      /\ \A t \in Streams \ {s} : /\ redis'.data.entries[t] = redis.data.entries[t]
                                  /\ redis'.data.last[t] = redis.data.last[t] /\ redis'.data.added[t] = redis.data.added[t]
      /\ redis'.data.last[s] = redis.clock + 1 /\ redis'.data.added[s] = redis.data.added[s] + 1
      /\ \E n \in 0..Len(q) :
           /\ Len(k) = Len(q) + 1 - n
           /\ \A i \in 1..(Len(q) - n) : k[i] = q[n + i]
           /\ k[Len(q) + 1 - n] = [id |-> redis.clock + 1, event |-> e]
  <2>1. Appended(redis', e)
    <3>1. IF e \in redis.data.fence THEN redis' = redis ELSE Appended(redis', e)
      BY <1>1, <1>2, PublishedFacts, Zenon
    <3> QED
      BY <3>1, Zenon
  <2> QED
    BY <2>1 DEF Appended
<1>5. PICK n \in 0..Len(q) :
           /\ Len(k) = Len(q) + 1 - n
           /\ \A i \in 1..(Len(q) - n) : k[i] = q[n + i]
           /\ k[Len(q) + 1 - n] = [id |-> redis.clock + 1, event |-> e]
  BY <1>4
<1>6. /\ q \in Seq(Entry) /\ Len(q) \in Nat /\ DOMAIN q = 1..Len(q) /\ k \in Seq(Entry)
      /\ Len(k) \in Nat /\ DOMAIN k = 1..Len(k)
      /\ redis.data.last[s] \in Nat /\ redis.data.added[s] \in Nat /\ redis.clock \in Nat /\ redis.clock + 1 \in Nat
      /\ \A i \in 1..Len(q) : q[i].id \in Nat
      /\ \A i \in 1..Len(k) : k[i].id \in Nat
  <2>1. k \in Seq(Entry)
    BY <1>3, <1>4 DEF RedisData
  <2>2. redis.clock \in Nat /\ redis.clock + 1 \in Nat
    BY <1>1, RedisParts
  <2> QED
    BY <1>1, <1>3, <2>1, <2>2, StreamFacts, EntryFacts
<1>7. redis.data.last[s] < redis.clock + 1
  BY <1>1, <1>3, <1>6 DEF StreamsOrdered, EntriesOK
<1> HIDE DEF q, k
<1>21. redis.clock \in Nat /\ redis.data.last[s] \in Nat /\ redis.data.added[s] \in Nat
  BY <1>6, Zenon
<1>22. redis'.data.added[s] = redis.data.added[s] + 1
  BY <1>4, Zenon
<1>23. redis'.data.added[StreamOf[e]] - redis.data.added[StreamOf[e]] = 1
  BY <1>21, <1>22, OneMore DEF s
<1>8. k[Len(q) + 1 - n].id = redis.clock + 1 /\ k[Len(q) + 1 - n].event = e
  BY <1>5
<1>9. \A i \in 1..Len(k) : i = Len(q) + 1 - n \/ (i \in 1..(Len(q) - n) /\ n + i \in 1..Len(q) /\ k[i] = q[n + i])
  BY <1>5, <1>6, Places
<1>10. NoticeTypeOK'
  <2>1. copies' \in [Events -> Nat]
    <3> DEFINE more == redis'.data.added[StreamOf[e]] - redis.data.added[StreamOf[e]]
    <3>0. copies' = [copies EXCEPT ![e] = copies[e] + more]
      BY Zenon
    <3>1. more = 1
      BY <1>23
    <3> HIDE DEF more
    <3>2. copies \in [Events -> Nat] /\ copies[e] + more \in Nat
      BY <1>1, <1>2, <3>1 DEF NoticeTypeOK
    <3> QED
      BY <3>0, <3>2
  <2> QED
    BY <1>1, <1>2, <1>4, <2>1 DEF NoticeTypeOK
<1>11. RowsCommitted'
  <2>1. ASSUME NEW t \in Streams, NEW i \in DOMAIN redis'.data.entries[t]
        PROVE  IsCommitted(redis'.data.entries[t][i].event)
    <3>1. CASE t # s
      BY <1>1, <1>4, <2>1, <3>1 DEF RowsCommitted
    <3>2. CASE t = s
      <4>1. i \in 1..Len(k) /\ redis'.data.entries[t][i] = k[i]
        BY <1>6, <2>1, <3>2 DEF k
      <4>2. CASE i = Len(q) + 1 - n
        BY <1>2, <1>8, <4>1, <4>2
      <4>3. CASE n + i \in 1..Len(q) /\ k[i] = q[n + i]
        BY <1>1, <1>3, <1>6, <4>1, <4>3 DEF RowsCommitted, q
      <4> QED
        BY <1>9, <4>1, <4>2, <4>3
    <3> QED
      BY <3>1, <3>2
  <2>2. \A x \in redis'.data.fence : IsCommitted(x)
    BY <1>1, <1>2, <1>4 DEF RowsCommitted
  <2> QED
    BY <1>1, <2>1, <2>2 DEF RowsCommitted, IsCommitted
<1>12. CopiesFenced'
  <2>1. copies[e] = 0
    <3>1. copies[e] \in Nat /\ copies[e] <= 1 /\ copies[e] # 1
      BY <1>1, <1>2 DEF CopiesFenced, CopyOK, NoticeTypeOK
    <3> QED
      BY <3>1
  <2>2. copies'[e] = 1 /\ \A x \in Events \ {e} : copies'[x] = copies[x]
    <3> QED
      BY <1>1, <1>2, <1>23, <2>1 DEF NoticeTypeOK
  <2>3. \A x \in Events \ {e} : Out(x)' => Out(x)
    BY <1>2, <1>4 DEF Out
  <2> QED
    BY <1>1, <1>4, <2>2, <2>3 DEF CopiesFenced, CopyOK
<1>13. StreamsOrdered'
  <2>1. ASSUME NEW t \in Streams PROVE EntriesOK(t)'
    <3>1. CASE t # s
      <4>1. redis.data.last[t] <= redis.clock /\ redis.data.last[t] \in Nat
        BY <1>1, RedisParts DEF StreamsOrdered, EntriesOK
      <4>2. redis.data.last[t] <= redis.clock + 1
        BY <1>21, <4>1, BelowNext
      <4> QED
        BY <1>1, <1>4, <3>1, <4>2 DEF StreamsOrdered, EntriesOK
    <3>2. CASE t = s
      <4>1. Ordered(q, redis.data.last[s], redis.data.added[s])
        BY <1>1, <1>3 DEF StreamsOrdered, EntriesOK, q
      <4>2. Ordered(k, redis.clock + 1, redis.data.added[s] + 1)
        BY <1>5, <1>6, <1>7, <1>8, <4>1, OrderedAppend
      <4>3. redis.clock + 1 <= redis.clock + 1
        BY <1>21
      <4> QED
        BY <1>4, <3>2, <4>2, <4>3 DEF EntriesOK, k
    <3> QED
      BY <3>1, <3>2
  <2> QED
    BY <1>1, <1>4, <2>1 DEF StreamsOrdered
<1>14. ASSUME NEW v \in WebWorkers PROVE WorkerOK(v)'
  <2>1. WorkerOK(v)
    BY <1>1 DEF WorkersServed
  <2>0. redis.clock \in Nat
    BY <1>21
  <2>2. reader'[v] = reader[v] /\ known'[v] = known[v] /\ subscribed'[v] = subscribed[v]
    OBVIOUS
  <2>3. /\ reader[v].recovered \in Nat /\ reader[v].recovered <= redis.clock
        /\ reader[v].cursor[s] \in Nat /\ reader[v].seen[s] \in Nat
        /\ \A t \in Streams : reader[v].cursor[t] \in Nat /\ reader[v].cursor[t] <= redis.clock
    BY <1>1, <1>3, <2>1, ReaderParts DEF WorkerOK, ReaderOK
  <2>4. ReaderOK(v)'
    <3>1. reader[v].recovered <= redis.clock + 1 /\ \A t \in Streams : reader[v].cursor[t] <= redis.clock + 1
      BY <2>0, <2>3, BelowNext
    <3> QED
      BY <1>4, <2>1, <2>2, <3>1 DEF WorkerOK, ReaderOK, IsCommitted
  <2>5. Matched(v)' <=> Matched(v)
    BY <1>4, <2>2 DEF Matched
  <2>6. Aligned(v)'
    <3> SUFFICES ASSUME Matched(v), NEW t \in Streams PROVE AlignedOn(v, t)'
      BY <2>5 DEF Aligned
    <3>1. AlignedOn(v, t)
      BY <2>1 DEF WorkerOK, Aligned
    <3>2. CASE t # s
      BY <1>4, <2>2, <3>1, <3>2 DEF AlignedOn
    <3>3. CASE t = s
      <4>1. AlignedAt(q, redis.data.last[s], redis.data.added[s], reader[v].cursor[s], reader[v].seen[s])
        BY <3>1, <3>3 DEF AlignedOn, q
      <4>2. AlignedAt(k, redis.clock + 1, redis.data.added[s] + 1, reader[v].cursor[s], reader[v].seen[s])
        <5> DEFINE cursor == reader[v].cursor[s]
                   seen == reader[v].seen[s]
                   last == redis.data.last[s]
                   added == redis.data.added[s]
                   id == redis.clock + 1
        <5>1. /\ cursor \in Nat /\ seen \in Nat /\ last \in Nat /\ added \in Nat /\ id \in Nat /\ last < id
              /\ k[Len(q) + 1 - n].id = id
              /\ AlignedAt(q, last, added, cursor, seen)
          BY <1>6, <1>7, <1>8, <2>3, <4>1
        <5> HIDE DEF cursor, seen, last, added, id
        <5>2. AlignedAt(k, id, added + 1, cursor, seen)
          BY <1>5, <1>6, <5>1, AlignedAppend
        <5> QED
          BY <5>2 DEF cursor, seen, last, added, id
      <4> QED
        BY <1>4, <2>2, <3>3, <4>2 DEF AlignedOn, k
    <3> QED
      BY <3>2, <3>3
  <2>7. RecoveryCovers(v)'
    <3> SUFFICES ASSUME subscribed[v], NEW t \in Streams PROVE RecoveredKnow(v, t)'
      BY <2>2 DEF RecoveryCovers
    <3>1. RecoveredKnow(v, t)
      BY <2>1 DEF WorkerOK, RecoveryCovers
    <3>2. CASE t # s
      BY <1>4, <2>2, <3>1, <3>2 DEF RecoveredKnow
    <3>3. CASE t = s
      <4>1. ASSUME NEW i \in 1..Len(k), k[i].id <= reader[v].recovered PROVE k[i].event \in known[v]
        <5>1. i # Len(q) + 1 - n
          <6>1. ~(redis.clock + 1 <= reader[v].recovered)
            BY <2>0, <2>3, BelowNext
          <6> QED
            BY <1>8, <4>1, <6>1
        <5>2. n + i \in DOMAIN q /\ k[i] = q[n + i]
          BY <1>6, <1>9, <4>1, <5>1
        <5> QED
          BY <3>1, <3>3, <4>1, <5>2 DEF RecoveredKnow, q
      <4> QED
        BY <1>6, <2>2, <3>1, <3>3, <4>1 DEF RecoveredKnow, k
    <3> QED
      BY <3>2, <3>3
  <2>8. OutIsPending(v)'
    <3> SUFFICES ASSUME NEW x \in Events, subscribed[v], Out(x)', x \notin known[v] PROVE Pending(v, x)'
      BY <2>2 DEF OutIsPending
    <3>1. CASE x = e
      <4>1. Len(q) + 1 - n \in DOMAIN k
        BY <1>5, <1>6
      <4>2. k[Len(q) + 1 - n] \in Range(k) /\ redis.clock + 1 > reader[v].cursor[s]
        <5>1. k[Len(q) + 1 - n] \in Range(k)
          BY <4>1 DEF Range
        <5>2. reader[v].cursor[s] \in Nat /\ reader[v].cursor[s] <= redis.clock /\ redis.clock \in Nat
          BY <1>3, <1>6, <2>3
        <5> QED
          BY <5>1, <5>2
      <4> QED
        BY <1>8, <2>2, <3>1, <4>2 DEF Pending, k
    <3>2. CASE x # e
      <4>1. Out(x)
        BY <1>2, <1>4, <3>2 DEF Out
      <4>2. Pending(v, x) /\ reader[v].generation # NoGeneration
        BY <2>1, <4>1 DEF WorkerOK, OutIsPending, ReaderOK
      <4>3. CASE reader[v].generation # redis.data.generation \/ reader[v].interrupted \/ StreamOf[x] # s
        <5>1. StreamOf[x] \in Streams
          BY NotificationAssumption
        <5> QED
          BY <1>4, <2>2, <4>2, <4>3, <5>1 DEF Pending, Gap
      <4>4. CASE reader[v].generation = redis.data.generation /\ ~reader[v].interrupted /\ StreamOf[x] = s
        <5> DEFINE cursor == reader[v].cursor[s]
                   seen == reader[v].seen[s]
                   added == redis.data.added[s]
        <5>1. AlignedAt(q, redis.data.last[s], added, cursor, seen)
          BY <1>3, <2>1, <4>2, <4>4 DEF WorkerOK, Aligned, Matched, AlignedOn, q
        <5>2. added \in Nat /\ cursor \in Nat /\ seen \in Nat /\ redis'.data.added[s] = added + 1
          BY <1>4, <1>6, <2>3
        <5>3. CASE (\E t \in Streams : reader[v].gap[t] /\ StreamOf[x] = t) \/ \E y \in Range(reader[v].batch[s]) : y.event = x
          BY <2>2, <4>4, <5>3 DEF Pending
        <5>4. ASSUME added + n > seen + Len(q) PROVE Pending(v, x)'
          <6> HIDE DEF added, seen
          <6>1. (added + 1) - Len(k) > seen
            BY <1>5, <1>6, <5>2, <5>4
          <6> QED
            BY <2>2, <4>4, <5>2, <6>1 DEF Pending, Gap, k, seen
        <5>5. CASE Gap(redis.data, reader[v], s)
          <6>1. added - Len(q) > seen
            <7>1. ~(redis.data.last[s] < cursor) /\ ~(added < seen)
              BY <1>21, <5>1, <5>2, AlignedBounds
            <7> QED
              BY <5>5, <7>1 DEF Gap, q
          <6> HIDE DEF added, seen
          <6>2. added + n > seen + Len(q)
            BY <1>6, <5>2, <6>1
          <6> QED
            BY <5>4, <6>2
        <5>6. CASE \E y \in Range(q) : y.event = x /\ y.id > cursor
          <6>1. PICK i \in 1..Len(q) : q[i].event = x /\ q[i].id > cursor
            BY <1>6, <5>6 DEF Range
          <6>2. added + i > seen + Len(q)
            BY <5>1, <6>1 DEF AlignedAt
          <6>3. CASE i <= n
            <7> HIDE DEF added, seen
            <7>1. added + n > seen + Len(q)
              BY <1>6, <5>2, <6>2, <6>3
            <7> QED
              BY <5>4, <7>1
          <6>4. CASE n < i
            <7>1. i - n \in 1..(Len(q) - n) /\ n + (i - n) = i /\ i - n \in 1..Len(k)
              BY <1>5, <1>6, <6>4
            <7>2. k[i - n] = q[i] /\ k[i - n] \in Range(k)
              BY <1>5, <1>6, <7>1 DEF Range
            <7> QED
              BY <2>2, <4>4, <6>1, <7>2 DEF Pending, k
          <6> QED
            BY <1>6, <6>3, <6>4
        <5> QED
          BY <4>2, <4>4, <5>3, <5>5, <5>6 DEF Pending, q
      <4> QED
        BY <4>3, <4>4
    <3> QED
      BY <3>1, <3>2
  <2> QED
    BY <2>4, <2>6, <2>7, <2>8 DEF WorkerOK
<1> QED
  BY <1>2, <1>10, <1>11, <1>12, <1>13, <1>14 DEF NoticeInv, WorkersServed

\* The event is fenced: the script appends nothing.
LEMMA PublishAgain ==
  ASSUME NoticeInv, NEW w \in WebWorkers, claim[w].pc = "publish", NEW e \in claim[w].todo,
         NEW c \in {Finished(claim[w], e), Postponed(claim[w], e)}, claim' = [claim EXCEPT ![w] = c],
         redis' = redis, e \in redis.data.fence,
         copies' = [copies EXCEPT ![e] = copies[e] + (redis'.data.added[StreamOf[e]] - redis.data.added[StreamOf[e]])],
         UNCHANGED <<committed, row, reader, known, subscribed, resets>>, faults' \in Nat
  PROVE  NoticeInv'
<1>1. NoticeTypeOK
  BY DEF NoticeInv
<1>2. /\ ClaimsApart' /\ claim' \in [WebWorkers -> Claim]
      /\ \A v \in WebWorkers : claim'[v].done \subseteq claim[v].done \cup {e}
      /\ e \in Events
  BY PublishClaim
<1>3. copies' = copies
  <2>1. redis.data.added[StreamOf[e]] \in Nat
    BY <1>1, <1>2, RedisParts, NotificationAssumption
  <2>2. redis'.data.added[StreamOf[e]] - redis.data.added[StreamOf[e]] = 0
    BY <2>1
  <2>3. copies[e] \in Nat /\ copies[e] + 0 = copies[e]
    BY <1>1, <1>2 DEF NoticeTypeOK
  <2> QED
    BY <1>1, <2>2, <2>3 DEF NoticeTypeOK
<1>4. \A x \in Events : Out(x)' => Out(x)
  BY <1>2 DEF Out
<1>5. row' \in [Events -> {"absent", "deferred", "available", "erased"}] /\ row' = row
  BY <1>1 DEF NoticeTypeOK
<1> QED
  BY <1>2, <1>3, <1>4, <1>5, OutboxKeeps

LEMMA PublishKeeps ==
  ASSUME NoticeInv, NEW w \in WebWorkers, Publish(w)
  PROVE  NoticeInv'
<1>1. NoticeTypeOK
  BY DEF NoticeInv
<1>2. /\ claim[w].pc = "publish"
      /\ UNCHANGED <<committed, row, reader, known, subscribed, resets>>
  BY DEF Publish
<1>3. PICK e \in claim[w].todo :
        /\ \E r \in Published(redis, e) :
             /\ redis' = r
             /\ copies' = [copies EXCEPT ![e] = copies[e] + (r.data.added[StreamOf[e]] - redis.data.added[StreamOf[e]])]
        /\ \/ claim' = [claim EXCEPT ![w] = Finished(claim[w], e)] /\ UNCHANGED faults
           \/ MayFault /\ claim' = [claim EXCEPT ![w] = Postponed(claim[w], e)]
  BY DEF Publish
<1>4. PICK c \in {Finished(claim[w], e), Postponed(claim[w], e)} : claim' = [claim EXCEPT ![w] = c]
  BY <1>3
<1>5. faults' \in Nat
  BY <1>1, <1>3 DEF NoticeTypeOK, MayFault
<1>6. /\ redis' \in Published(redis, e)
      /\ copies' = [copies EXCEPT ![e] = copies[e] + (redis'.data.added[StreamOf[e]] - redis.data.added[StreamOf[e]])]
  BY <1>3
<1>7. CASE e \in redis.data.fence
  <2>1. redis' = redis
    BY <1>6, <1>7 DEF Published
  <2> QED
    BY <1>2, <1>4, <1>5, <1>6, <1>7, <2>1, PublishAgain
<1>8. CASE e \notin redis.data.fence
  BY <1>2, <1>4, <1>5, <1>6, <1>8, PublishNew
<1> QED
  BY <1>7, <1>8

LEMMA NoticeNextKeeps ==
  ASSUME NoticeInv, ~EarlySubscribers, NoticeNext
  PROVE  NoticeInv'
<1>1. CASE \E e \in Events : Commit(e) \/ BecomeAvailable(e)
  BY <1>1, CommitKeeps, BecomeAvailableKeeps
<1>2. ASSUME NEW w \in WebWorkers, ClaimStep(w) PROVE NoticeInv'
  BY <1>2, ClaimBatchKeeps, PublishKeeps, PublishFailsKeeps, CommitClaimKeeps, CommitUncertainKeeps, ForgetFencesKeeps
     DEF ClaimStep
<1>3. ASSUME NEW w \in WebWorkers, ReaderStep(w) PROVE NoticeInv'
  BY <1>3, FetchGenerationKeeps, CaptureHeadsKeeps, RecoverAllKeeps, ReadBatchKeeps, DeliverKeeps, WakeReaderKeeps
     DEF ReaderStep
<1>4. ASSUME NEW w \in WebWorkers, ReaderFails(w) \/ Subscribe(w) \/ Crash(w) PROVE NoticeInv'
  BY <1>4, ReaderFailsKeeps, SubscribeKeeps, CrashKeeps
<1>5. CASE ResetRedis
  BY <1>5, ResetRedisKeeps
<1> QED
  BY <1>1, <1>2, <1>3, <1>4, <1>5 DEF NoticeNext

\* The notification chain keeps its books: committed rows, disjoint claims,
\* fences that outlive every second claim, streams in order, and readers
\* whose cursors and counts agree.  Subscriptions open after the reader's
\* first head capture.
THEOREM NoticeHolds == ~EarlySubscribers => (NoticeSpec => []NoticeInv)
<1> SUFFICES ASSUME ~EarlySubscribers PROVE NoticeSpec => []NoticeInv
  OBVIOUS
<1>1. NoticeInit => NoticeInv
  BY NoticeInitHolds
<1>2. NoticeInv /\ [NoticeNext]_noticeVars => NoticeInv'
  BY NoticeNextKeeps, NoticeStutters
<1> QED
  BY <1>1, <1>2, PTL DEF NoticeSpec

LEMMA NoticeInvImplies == NoticeInv => NothingMissed
<1> SUFFICES ASSUME NoticeInv PROVE NothingMissed
  OBVIOUS
<1>1. NoticeTypeOK /\ RowsCommitted /\ CopiesFenced /\ WorkersServed
  BY DEF NoticeInv
<1>2. ReachesSubscribers
  <2> SUFFICES ASSUME NEW w \in WebWorkers, NEW e \in AllCommitted, subscribed[w], e \notin known[w],
                      row[e] \notin {"available", "deferred"}
               PROVE  Pending(w, e)
    BY DEF ReachesSubscribers
  <2>1. e \in Events /\ IsCommitted(e)
    <3>1. PICK i \in DOMAIN committed : committed[i] = e
      BY DEF AllCommitted, Range
    <3> QED
      BY <1>1, <3>1 DEF NoticeTypeOK, IsCommitted
  <2>2. row[e] \in {"absent", "deferred", "available", "erased"} /\ row[e] # "absent"
    BY <1>1, <2>1 DEF NoticeTypeOK, RowsCommitted
  <2>3. Out(e)
    BY <2>2 DEF Out
  <2> QED
    BY <1>1, <2>1, <2>3 DEF WorkersServed, WorkerOK, OutIsPending
<1>3. PublishedOnce
  BY <1>1 DEF CopiesFenced, CopyOK, PublishedOnce
<1>4. ErasedIsPublished
  BY <1>1 DEF CopiesFenced, CopyOK, ErasedIsPublished, Out
<1> QED
  BY <1>1, <1>2, <1>3, <1>4 DEF NothingMissed

\* deliver_batch and the reader of each web worker: no committed change is
\* lost on the way to an open subscription, one Redis never holds two
\* entries of one event, and a row leaves the outbox only once its event was
\* published.
THEOREM NothingIsMissed == ~EarlySubscribers => (NoticeSpec => []NothingMissed)
<1> SUFFICES ASSUME ~EarlySubscribers PROVE NoticeSpec => []NothingMissed
  OBVIOUS
<1>1. NoticeSpec => []NoticeInv
  BY NoticeHolds
<1>2. NoticeInv => NothingMissed
  BY NoticeInvImplies
<1> QED
  BY <1>1, <1>2, PTL
==============================================================================
