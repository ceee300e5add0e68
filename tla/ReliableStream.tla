--------------------------- MODULE ReliableStream ---------------------------
(***************************************************************************)
(* A durable work queue on a Redis stream with one consumer group          *)
(* (service/features/background/reliable_stream.h, stream_consumers.h).    *)
(* A queue is one record; each operator is one Lua script or one command,  *)
(* which Redis runs atomically.                                            *)
(*                                                                         *)
(*   last      - entries ever appended: the newest entry id                *)
(*   stream    - ids of the retained entries                               *)
(*   read      - last-delivered-id of the group                            *)
(*   owner     - the pending entries list: who claimed an entry            *)
(*   idle      - pending entries untouched for reclaim_idle_               *)
(*   later     - the retry ZSET, retries not yet due;  due - those due     *)
(*   tried     - ids with a field in the attempts HASH (its value only     *)
(*               sets the length of the backoff)                           *)
(*   bytes     - the byte counter of the live budget                       *)
(*   failed    - ids kept in the failure stream, failedBytes its counter   *)
(*   names     - consumer names the group knows                            *)
(***************************************************************************)
EXTENDS Integers, FiniteSets, FiniteSetTheorems, TLAPS

CONSTANTS Workers,         \* consumer loops
          NoOne,           \* not in the pending entries list
          Former,          \* the name of a consumer that no longer runs
          MaxAppends,      \* bound: entries ever appended
          MaxEntries, MaxBytes,             \* budget of the live stream
          MaxFailedEntries, MaxFailedBytes  \* budget of the failure stream

ASSUME NamesAssumption == NoOne \notin Workers /\ Former \notin Workers /\ NoOne # Former
ASSUME BudgetAssumption ==
    /\ MaxAppends \in Nat /\ MaxEntries \in Nat /\ MaxBytes \in Nat
    /\ MaxFailedEntries \in Nat /\ MaxFailedBytes \in Nat

Ids == 1 .. MaxAppends

Consumers == Workers \cup {Former}

Queue == [last : 0 .. MaxAppends, stream : SUBSET Ids, read : 0 .. MaxAppends,
          owner : [Ids -> Consumers \cup {NoOne}], idle : SUBSET Ids,
          later : SUBSET Ids, due : SUBSET Ids, tried : SUBSET Ids,
          bytes : Nat, failed : SUBSET Ids, failedBytes : Nat,
          names : SUBSET Consumers]

EmptyQueue == [last |-> 0, stream |-> {}, read |-> 0, owner |-> [i \in Ids |-> NoOne],
               idle |-> {}, later |-> {}, due |-> {}, tried |-> {}, bytes |-> 0,
               failed |-> {}, failedBytes |-> 0, names |-> {}]

(* Redis lost its data: every key is gone; entry ids are times and go on.  *)
LostQueue(q) == [EmptyQueue EXCEPT !.last = q.last, !.read = q.last]

-----------------------------------------------------------------------------
(* Producers.                                                              *)

Admit(q, count, size) == count < MaxEntries /\ size <= MaxBytes - q.bytes

AddEntry(q, size) == [q EXCEPT !.last = @ + 1, !.stream = @ \cup {q.last + 1},
                             !.bytes = @ + size]

ReleaseBytes(q, size) == [q EXCEPT !.bytes = IF @ > size THEN @ - size ELSE 0]

-----------------------------------------------------------------------------
(* Claiming.                                                               *)

Owned(q, id, c) == q.owner[id] = c

(* XCLAIM to c, which also makes the entry fresh.                          *)
Claimed(q, id, c) == [q EXCEPT !.owner[id] = c, !.idle = @ \ {id}, !.names = @ \cup {c}]

(* Entries never delivered, oldest first.                                  *)
CanRead(q) == q.read < q.last

ReadNext(q, c) == [Claimed(q, q.read + 1, c) EXCEPT !.read = @ + 1]

(* A due retry: taken over from whoever scheduled it.                      *)
ClaimDue(q, id, c) ==
    IF id \in q.stream /\ q.owner[id] # NoOne
    THEN [Claimed(q, id, c) EXCEPT !.due = @ \ {id}]
    ELSE [q EXCEPT !.due = @ \ {id}, !.tried = @ \ {id}]

(* An entry whose claimant stopped; a retry it scheduled is cancelled.     *)
CanReclaim(q, id) == q.owner[id] # NoOne /\ id \in q.idle

Reclaim(q, id, c) == [Claimed(q, id, c) EXCEPT !.later = @ \ {id}, !.due = @ \ {id}]

-----------------------------------------------------------------------------
(* Ends of a claim.                                                        *)

(* Back off: the claimant stays owner, so that the entry stays pending.    *)
Retry(q, id, c) ==
    [Claimed(q, id, c) EXCEPT !.tried = @ \cup {id}, !.later = @ \cup {id}, !.due = @ \ {id}]

(* Acknowledge and delete, with the entry's bytes and retry state.         *)
Remove(q, id, size) ==
    ReleaseBytes([q EXCEPT !.stream = @ \ {id}, !.owner[id] = NoOne, !.idle = @ \ {id},
                           !.later = @ \ {id}, !.due = @ \ {id}, !.tried = @ \ {id}], size)

CanArchive(q, size) == /\ Cardinality(q.failed) < MaxFailedEntries
                       /\ size <= MaxFailedBytes - q.failedBytes

Archive(q, id, size) == [q EXCEPT !.failed = @ \cup {id}, !.failedBytes = @ + size]

(* An archived record leaves the failure stream, with its bytes.           *)
Unarchive(q, id, size) ==
    [q EXCEPT !.failed = @ \ {id}, !.failedBytes = IF @ > size THEN @ - size ELSE 0]

-----------------------------------------------------------------------------
(* Consumer names.                                                         *)

(* Inspection and removal are one script.                                  *)
NameIsEmpty(q, c) == c \in q.names /\ \A i \in Ids : q.owner[i] # c

(* XGROUP DELCONSUMER also drops the pending entries of the name.          *)
RemoveName(q, c) ==
    [q EXCEPT !.names = @ \ {c},
              !.owner = [i \in Ids |-> IF @[i] = c THEN NoOne ELSE @[i]]]

-----------------------------------------------------------------------------
(* Time, and a consumer that stops: its name never claims again.           *)

GoesIdle(q, id) == [q EXCEPT !.idle = @ \cup {id}]

ComesDue(q, id) == [q EXCEPT !.later = @ \ {id}, !.due = @ \cup {id}]

Disown(q, c) ==
    [q EXCEPT !.owner = [i \in Ids |-> IF @[i] = c THEN Former ELSE @[i]],
              !.names = IF c \in @ THEN (@ \ {c}) \cup {Former} ELSE @]

-----------------------------------------------------------------------------
(* What the scripts do to the fields the arguments of the queue's users    *)
(* are about: the retained entries, the archived ones, the two cursors and *)
(* the pending list.                                                       *)

(* A queue that was never used is a queue, and nobody owns anything in it. *)
LEMMA EmptyFacts ==
    /\ EmptyQueue \in Queue /\ EmptyQueue.stream = {} /\ EmptyQueue.last = 0 /\ EmptyQueue.read = 0
    /\ \A i \in Ids : EmptyQueue.owner[i] = NoOne
BY BudgetAssumption DEF EmptyQueue, Queue, Ids

(* After a loss of Redis nothing is queued and nobody owns anything; the   *)
(* ids go on.                                                              *)
LEMMA LostFacts ==
    ASSUME NEW s \in Queue
    PROVE  /\ LostQueue(s) \in Queue /\ LostQueue(s).stream = {}
           /\ LostQueue(s).last = s.last /\ LostQueue(s).read = s.last
           /\ \A i \in Ids : LostQueue(s).owner[i] = NoOne
<1> DEFINE t == [EmptyQueue EXCEPT !.last = s.last]
<1>1. EmptyQueue \in Queue /\ EmptyQueue.stream = {} BY EmptyFacts
<1>2. t \in Queue /\ t.stream = {} /\ t.last = s.last /\ t.owner = EmptyQueue.owner
  BY <1>1 DEF Queue
<1>3. LostQueue(s) = [t EXCEPT !.read = s.last] BY DEF LostQueue
<1> HIDE DEF t
<1> QED BY <1>2, <1>3, EmptyFacts DEF Queue

(* An append adds the next id and gives it to nobody.                      *)
LEMMA AppendFacts ==
    ASSUME NEW s \in Queue, s.last < MaxAppends, NEW size \in Nat
    PROVE  /\ AddEntry(s, size) \in Queue
           /\ AddEntry(s, size).stream = s.stream \cup {s.last + 1}
           /\ AddEntry(s, size).last = s.last + 1 /\ AddEntry(s, size).failed = s.failed
           /\ AddEntry(s, size).read = s.read
           /\ AddEntry(s, size).owner = s.owner
<1>1. s.last + 1 \in Ids BY BudgetAssumption DEF Queue, Ids
<1>2. s.stream \cup {s.last + 1} \in SUBSET Ids BY <1>1 DEF Queue
<1>3. s.last + 1 \in 0 .. MaxAppends /\ s.bytes + size \in Nat BY <1>1 DEF Queue, Ids
<1> QED BY <1>2, <1>3 DEF AddEntry, Queue

(* Releasing bytes touches no entry, and the counter stays a natural       *)
(* number.                                                                 *)
LEMMA ReleaseFacts ==
    ASSUME NEW s \in Queue, NEW size \in Nat
    PROVE  /\ ReleaseBytes(s, size) \in Queue
           /\ ReleaseBytes(s, size).stream = s.stream
           /\ ReleaseBytes(s, size).last = s.last /\ ReleaseBytes(s, size).failed = s.failed
           /\ ReleaseBytes(s, size).read = s.read
           /\ ReleaseBytes(s, size).owner = s.owner
<1>1. (IF s.bytes > size THEN s.bytes - size ELSE 0) \in Nat BY DEF Queue
<1> QED BY <1>1 DEF ReleaseBytes, Queue

(* XCLAIM changes the owner of one entry.                                  *)
LEMMA ClaimedFacts ==
    ASSUME NEW s \in Queue, NEW id \in Ids, NEW c \in Consumers
    PROVE  /\ Claimed(s, id, c) \in Queue
           /\ Claimed(s, id, c).stream = s.stream
           /\ Claimed(s, id, c).last = s.last /\ Claimed(s, id, c).failed = s.failed
           /\ Claimed(s, id, c).read = s.read
           /\ Claimed(s, id, c).owner = [s.owner EXCEPT ![id] = c]
<1>1. [s.owner EXCEPT ![id] = c] \in [Ids -> Consumers \cup {NoOne}] BY DEF Queue
<1> QED BY <1>1 DEF Claimed, Queue

(* XREADGROUP gives the next id to the reader.                             *)
LEMMA ReadFacts ==
    ASSUME NEW s \in Queue, NEW c \in Consumers, s.read < s.last
    PROVE  /\ ReadNext(s, c) \in Queue /\ s.read + 1 \in Ids
           /\ ReadNext(s, c).stream = s.stream
           /\ ReadNext(s, c).last = s.last /\ ReadNext(s, c).failed = s.failed
           /\ ReadNext(s, c).read = s.read + 1
           /\ ReadNext(s, c).owner = [s.owner EXCEPT ![s.read + 1] = c]
<1>1. s.read + 1 \in Ids BY BudgetAssumption DEF Queue, Ids
<1> DEFINE t == Claimed(s, s.read + 1, c)
<1>2. /\ t \in Queue /\ t.stream = s.stream /\ t.last = s.last /\ t.read = s.read
      /\ t.failed = s.failed
      /\ t.owner = [s.owner EXCEPT ![s.read + 1] = c]
  BY <1>1, ClaimedFacts
<1>3. ReadNext(s, c) = [t EXCEPT !.read = @ + 1] BY DEF ReadNext
<1>4. t.read + 1 \in 0 .. MaxAppends BY <1>1, <1>2 DEF Ids
<1> HIDE DEF t
<1> QED BY <1>1, <1>2, <1>3, <1>4 DEF Queue

(* A due retry is claimed, or dropped when it is no longer pending.        *)
LEMMA DueFacts ==
    ASSUME NEW s \in Queue, NEW id \in Ids, NEW c \in Consumers
    PROVE  /\ ClaimDue(s, id, c) \in Queue
           /\ ClaimDue(s, id, c).stream = s.stream
           /\ ClaimDue(s, id, c).last = s.last /\ ClaimDue(s, id, c).failed = s.failed
           /\ ClaimDue(s, id, c).read = s.read
           /\ \/ ClaimDue(s, id, c).owner = [s.owner EXCEPT ![id] = c]
              \/ ClaimDue(s, id, c).owner = s.owner
<1> DEFINE t == Claimed(s, id, c)
<1>1. /\ t \in Queue /\ t.stream = s.stream /\ t.last = s.last /\ t.read = s.read
      /\ t.failed = s.failed
      /\ t.owner = [s.owner EXCEPT ![id] = c]
  BY ClaimedFacts
<1>2. CASE id \in s.stream /\ s.owner[id] # NoOne
  <2>1. ClaimDue(s, id, c) = [t EXCEPT !.due = @ \ {id}] BY <1>2 DEF ClaimDue
  <2> HIDE DEF t
  <2> QED BY <1>1, <2>1 DEF Queue
<1>3. CASE ~(id \in s.stream /\ s.owner[id] # NoOne)
  BY <1>3 DEF ClaimDue, Queue
<1> QED BY <1>2, <1>3

(* An abandoned entry changes its owner.                                   *)
LEMMA ReclaimFacts ==
    ASSUME NEW s \in Queue, NEW id \in Ids, NEW c \in Consumers
    PROVE  /\ Reclaim(s, id, c) \in Queue
           /\ Reclaim(s, id, c).stream = s.stream
           /\ Reclaim(s, id, c).last = s.last /\ Reclaim(s, id, c).failed = s.failed
           /\ Reclaim(s, id, c).read = s.read
           /\ Reclaim(s, id, c).owner = [s.owner EXCEPT ![id] = c]
<1> DEFINE t == Claimed(s, id, c)
<1>1. /\ t \in Queue /\ t.stream = s.stream /\ t.last = s.last /\ t.read = s.read
      /\ t.failed = s.failed
      /\ t.owner = [s.owner EXCEPT ![id] = c]
  BY ClaimedFacts
<1>2. Reclaim(s, id, c) = [t EXCEPT !.later = @ \ {id}, !.due = @ \ {id}] BY DEF Reclaim
<1> HIDE DEF t
<1>3. Reclaim(s, id, c) \in Queue
  <2>1. t.later \ {id} \in SUBSET Ids /\ t.due \ {id} \in SUBSET Ids BY <1>1 DEF Queue
  <2> QED BY <1>1, <1>2, <2>1 DEF Queue
<1>4. /\ Reclaim(s, id, c).stream = t.stream /\ Reclaim(s, id, c).last = t.last
      /\ Reclaim(s, id, c).failed = t.failed /\ Reclaim(s, id, c).read = t.read
      /\ Reclaim(s, id, c).owner = t.owner
  BY <1>1, <1>2 DEF Queue
<1> QED BY <1>1, <1>3, <1>4

(* A retry keeps the entry with its claimant.                              *)
LEMMA RetryFacts ==
    ASSUME NEW s \in Queue, NEW id \in Ids, NEW c \in Consumers
    PROVE  /\ Retry(s, id, c) \in Queue
           /\ Retry(s, id, c).stream = s.stream
           /\ Retry(s, id, c).last = s.last /\ Retry(s, id, c).failed = s.failed
           /\ Retry(s, id, c).read = s.read
           /\ Retry(s, id, c).owner = [s.owner EXCEPT ![id] = c]
<1> DEFINE t == Claimed(s, id, c)
<1>1. /\ t \in Queue /\ t.stream = s.stream /\ t.last = s.last /\ t.read = s.read
      /\ t.failed = s.failed
      /\ t.owner = [s.owner EXCEPT ![id] = c]
  BY ClaimedFacts
<1>2. Retry(s, id, c) = [t EXCEPT !.tried = @ \cup {id}, !.later = @ \cup {id}, !.due = @ \ {id}]
  BY DEF Retry
<1> HIDE DEF t
<1>3. /\ t.tried \cup {id} \in SUBSET Ids /\ t.later \cup {id} \in SUBSET Ids
      /\ t.due \ {id} \in SUBSET Ids
  BY <1>1 DEF Queue
<1>4. Retry(s, id, c) \in Queue BY <1>1, <1>2, <1>3 DEF Queue
<1>5. /\ Retry(s, id, c).stream = t.stream /\ Retry(s, id, c).last = t.last
      /\ Retry(s, id, c).failed = t.failed /\ Retry(s, id, c).read = t.read
      /\ Retry(s, id, c).owner = t.owner
  BY <1>1, <1>2 DEF Queue
<1> QED BY <1>1, <1>4, <1>5

(* A removed entry is neither retained nor pending.                        *)
LEMMA RemoveFacts ==
    ASSUME NEW s \in Queue, NEW id \in Ids, NEW size \in Nat
    PROVE  /\ Remove(s, id, size) \in Queue
           /\ Remove(s, id, size).stream = s.stream \ {id}
           /\ Remove(s, id, size).last = s.last /\ Remove(s, id, size).failed = s.failed
           /\ Remove(s, id, size).read = s.read
           /\ Remove(s, id, size).owner = [s.owner EXCEPT ![id] = NoOne]
<1> DEFINE t == [s EXCEPT !.stream = @ \ {id}, !.owner[id] = NoOne, !.idle = @ \ {id},
                          !.later = @ \ {id}, !.due = @ \ {id}, !.tried = @ \ {id}]
<1>1. [s.owner EXCEPT ![id] = NoOne] \in [Ids -> Consumers \cup {NoOne}] BY DEF Queue
<1>2. /\ t \in Queue /\ t.stream = s.stream \ {id} /\ t.last = s.last /\ t.read = s.read
      /\ t.failed = s.failed
      /\ t.owner = [s.owner EXCEPT ![id] = NoOne]
  BY <1>1 DEF Queue
<1>3. Remove(s, id, size) = ReleaseBytes(t, size) BY DEF Remove
<1> HIDE DEF t
<1> QED BY <1>2, <1>3, ReleaseFacts

(* The failure stream leaves the live one alone.                           *)
LEMMA ArchiveFacts ==
    ASSUME NEW s \in Queue, NEW id \in Ids, NEW size \in Nat
    PROVE  /\ Archive(s, id, size) \in Queue
           /\ Archive(s, id, size).stream = s.stream
           /\ Archive(s, id, size).last = s.last /\ Archive(s, id, size).failed = s.failed \cup {id}
           /\ Archive(s, id, size).read = s.read
           /\ Archive(s, id, size).owner = s.owner
<1>1. s.failed \cup {id} \in SUBSET Ids /\ s.failedBytes + size \in Nat BY DEF Queue
<1> QED BY <1>1 DEF Archive, Queue

(* Removing an empty consumer name takes no pending entry along.           *)
LEMMA NameFacts ==
    ASSUME NEW s \in Queue, NEW c \in Consumers, NameIsEmpty(s, c)
    PROVE  /\ RemoveName(s, c) \in Queue
           /\ RemoveName(s, c).stream = s.stream
           /\ RemoveName(s, c).last = s.last /\ RemoveName(s, c).failed = s.failed
           /\ RemoveName(s, c).read = s.read
           /\ RemoveName(s, c).owner = s.owner
<1>1. [i \in Ids |-> IF s.owner[i] = c THEN NoOne ELSE s.owner[i]] = s.owner
  BY DEF NameIsEmpty, Queue
<1> QED BY <1>1 DEF RemoveName, Queue

(* Time changes neither entries nor owners.                                *)
LEMMA TimeFacts ==
    ASSUME NEW s \in Queue, NEW id \in Ids
    PROVE  /\ GoesIdle(s, id) \in Queue /\ ComesDue(s, id) \in Queue
           /\ GoesIdle(s, id).stream = s.stream /\ ComesDue(s, id).stream = s.stream
           /\ GoesIdle(s, id).last = s.last /\ ComesDue(s, id).last = s.last
           /\ GoesIdle(s, id).failed = s.failed /\ ComesDue(s, id).failed = s.failed
           /\ GoesIdle(s, id).read = s.read /\ ComesDue(s, id).read = s.read
           /\ GoesIdle(s, id).owner = s.owner /\ ComesDue(s, id).owner = s.owner
BY DEF GoesIdle, ComesDue, Queue

(* The entries of a stopped consumer belong to its former name.            *)
LEMMA DisownFacts ==
    ASSUME NEW s \in Queue, NEW c \in Workers
    PROVE  /\ Disown(s, c) \in Queue
           /\ Disown(s, c).stream = s.stream
           /\ Disown(s, c).last = s.last /\ Disown(s, c).failed = s.failed
           /\ Disown(s, c).read = s.read
           /\ \A i \in Ids : Disown(s, c).owner[i] = IF s.owner[i] = c THEN Former ELSE s.owner[i]
<1> DEFINE o == [i \in Ids |-> IF s.owner[i] = c THEN Former ELSE s.owner[i]]
           n == IF c \in s.names THEN (s.names \ {c}) \cup {Former} ELSE s.names
<1>1. o \in [Ids -> Consumers \cup {NoOne}] BY DEF Queue, Consumers
<1>2. n \in SUBSET Consumers BY DEF Queue, Consumers
<1>3. Disown(s, c) = [s EXCEPT !.owner = o, !.names = n] BY DEF Disown, Queue
<1>4. \A i \in Ids : o[i] = IF s.owner[i] = c THEN Former ELSE s.owner[i] OBVIOUS
<1> HIDE DEF o, n
<1> QED BY <1>1, <1>2, <1>3, <1>4 DEF Queue

(* A record leaves the failure stream; the live one is left alone.         *)
LEMMA UnarchiveFacts ==
    ASSUME NEW s \in Queue, NEW id \in Ids, NEW size \in Nat
    PROVE  /\ Unarchive(s, id, size) \in Queue
           /\ Unarchive(s, id, size).stream = s.stream
           /\ Unarchive(s, id, size).last = s.last /\ Unarchive(s, id, size).read = s.read
           /\ Unarchive(s, id, size).failed = s.failed \ {id}
           /\ Unarchive(s, id, size).owner = s.owner
<1>1. (IF s.failedBytes > size THEN s.failedBytes - size ELSE 0) \in Nat BY DEF Queue
<1> QED BY <1>1 DEF Unarchive, Queue

-----------------------------------------------------------------------------
(* The two byte counters, and what they count.                             *)

SameCounts(s, t) == /\ t.stream = s.stream /\ t.bytes = s.bytes
                    /\ t.failed = s.failed /\ t.failedBytes = s.failedBytes

(* Claims, retries, names and time leave the counters alone.               *)
LEMMA CountsKept ==
    ASSUME NEW s \in Queue, NEW id, NEW c
    PROVE  /\ SameCounts(s, Claimed(s, id, c)) /\ SameCounts(s, ReadNext(s, c))
           /\ SameCounts(s, ClaimDue(s, id, c)) /\ SameCounts(s, Reclaim(s, id, c))
           /\ SameCounts(s, Retry(s, id, c)) /\ SameCounts(s, RemoveName(s, c))
           /\ SameCounts(s, GoesIdle(s, id)) /\ SameCounts(s, ComesDue(s, id))
           /\ SameCounts(s, Disown(s, c))
<1> USE DEF SameCounts
<1>1. \A i : SameCounts(s, Claimed(s, i, c)) BY DEF Claimed, Queue
<1>2. SameCounts(s, ReadNext(s, c)) BY <1>1 DEF ReadNext, Claimed, Queue
<1>3. SameCounts(s, ClaimDue(s, id, c)) BY <1>1 DEF ClaimDue, Claimed, Queue
<1>4. SameCounts(s, Reclaim(s, id, c)) BY <1>1 DEF Reclaim, Claimed, Queue
<1>5. SameCounts(s, Retry(s, id, c)) BY <1>1 DEF Retry, Claimed, Queue
<1>6. SameCounts(s, RemoveName(s, c)) BY DEF RemoveName, Queue
<1>7. SameCounts(s, GoesIdle(s, id)) /\ SameCounts(s, ComesDue(s, id)) BY DEF GoesIdle, ComesDue, Queue
<1>8. SameCounts(s, Disown(s, c)) BY DEF Disown, Queue
<1> QED BY <1>1, <1>2, <1>3, <1>4, <1>5, <1>6, <1>7, <1>8

(* Appends and ends of entries account for their bytes.                    *)
LEMMA AppendCounts ==
    ASSUME NEW s \in Queue, NEW size \in Nat
    PROVE  AddEntry(s, size).bytes = s.bytes + size /\ AddEntry(s, size).failedBytes = s.failedBytes
BY DEF AddEntry, Queue

LEMMA ReleaseCounts ==
    ASSUME NEW s \in Queue, NEW size \in Nat
    PROVE  /\ ReleaseBytes(s, size).bytes = IF s.bytes > size THEN s.bytes - size ELSE 0
           /\ ReleaseBytes(s, size).failedBytes = s.failedBytes
BY DEF ReleaseBytes, Queue

LEMMA RemoveCounts ==
    ASSUME NEW s \in Queue, NEW id \in Ids, NEW size \in Nat
    PROVE  /\ Remove(s, id, size).bytes = IF s.bytes > size THEN s.bytes - size ELSE 0
           /\ Remove(s, id, size).failedBytes = s.failedBytes
BY DEF Remove, ReleaseBytes, Queue

LEMMA ArchiveCounts ==
    ASSUME NEW s \in Queue, NEW id \in Ids, NEW size \in Nat
    PROVE  Archive(s, id, size).bytes = s.bytes /\ Archive(s, id, size).failedBytes = s.failedBytes + size
BY DEF Archive, Queue

LEMMA UnarchiveCounts ==
    ASSUME NEW s \in Queue, NEW id \in Ids, NEW size \in Nat
    PROVE  /\ Unarchive(s, id, size).bytes = s.bytes
           /\ Unarchive(s, id, size).failedBytes = IF s.failedBytes > size THEN s.failedBytes - size ELSE 0
BY DEF Unarchive, Queue

(* Sets of entries are finite, and one entry more or less counts as one.   *)
LEMMA Sizes ==
    ASSUME NEW S \in SUBSET Ids
    PROVE  /\ Cardinality(S) \in Nat
           /\ \A x \in Ids \ S : Cardinality(S \cup {x}) = Cardinality(S) + 1
           /\ \A x \in S : Cardinality(S \ {x}) = Cardinality(S) - 1 /\ Cardinality(S) >= 1
<1>1. IsFiniteSet(Ids) BY FS_Interval, BudgetAssumption DEF Ids
<1>2. IsFiniteSet(S) BY <1>1, FS_Subset
<1>3. Cardinality(S) \in Nat BY <1>2, FS_CardinalityType
<1>4. \A x \in S : Cardinality(S) # 0 BY <1>2, FS_EmptySet
<1> QED BY <1>2, <1>3, <1>4, FS_AddElement, FS_RemoveElement

(* The product grows and shrinks with its second factor.                   *)
LEMMA Products ==
    ASSUME NEW a \in Nat, NEW n \in Nat
    PROVE  /\ a * n \in Nat /\ a * 0 = 0 /\ a * (n + 1) = a * n + a
           /\ n >= 1 => a * (n - 1) = a * n - a /\ a * n >= a
<1>1. a * n \in Nat /\ a * 0 = 0 /\ a * (n + 1) = a * n + a OBVIOUS
<1>2. CASE n >= 1
  <2>1. n - 1 \in Nat BY <1>2
  <2>2. a * (n - 1) \in Nat /\ a * (n - 1) = a * n - a BY <2>1
  <2> QED BY <1>1, <2>2
<1> QED BY <1>1, <1>2

-----------------------------------------------------------------------------
(* Nothing in the queue's keys is stranded.                                *)

(* Retry state: the ZSET and the attempts HASH.                            *)
Waits(s) == s.later \cup s.due \cup s.tried

(* Retry state belongs to retained entries, the pending list has exactly   *)
(* the retained entries that were delivered, and what was not delivered    *)
(* yet is retained.                                                        *)
Tidy(s) == /\ Waits(s) \subseteq s.stream
           /\ \A i \in Ids : s.owner[i] # NoOne <=> i \in s.stream /\ i <= s.read
           /\ s.read <= s.last
           /\ \A i \in Ids : s.read < i /\ i <= s.last => i \in s.stream
           /\ \A i \in s.stream : i <= s.last

(* What the scripts do to the retry state.                                 *)
LEMMA WaitsKept ==
    ASSUME NEW s \in Queue, NEW id, NEW c
    PROVE  /\ Waits(Claimed(s, id, c)) = Waits(s) /\ Waits(ReadNext(s, c)) = Waits(s)
           /\ Waits(ClaimDue(s, id, c)) \subseteq Waits(s) /\ Waits(Reclaim(s, id, c)) \subseteq Waits(s)
           /\ Waits(Retry(s, id, c)) \subseteq Waits(s) \cup {id}
           /\ Waits(RemoveName(s, c)) = Waits(s) /\ Waits(Disown(s, c)) = Waits(s)
           /\ Waits(GoesIdle(s, id)) = Waits(s) /\ Waits(ComesDue(s, id)) \subseteq Waits(s) \cup {id}
           /\ Waits(EmptyQueue) = {} /\ Waits(LostQueue(s)) = {}
<1> USE DEF Waits
<1>1. Waits(Claimed(s, id, c)) = Waits(s) BY DEF Claimed, Queue
<1>2. Waits(ReadNext(s, c)) = Waits(s) BY DEF ReadNext, Claimed, Queue
<1>3. Waits(ClaimDue(s, id, c)) \subseteq Waits(s) BY DEF ClaimDue, Claimed, Queue
<1>4. Waits(Reclaim(s, id, c)) \subseteq Waits(s) BY DEF Reclaim, Claimed, Queue
<1>5. Waits(Retry(s, id, c)) \subseteq Waits(s) \cup {id} BY DEF Retry, Claimed, Queue
<1>6. Waits(RemoveName(s, c)) = Waits(s) BY DEF RemoveName, Queue
<1>7. Waits(Disown(s, c)) = Waits(s) BY DEF Disown, Queue
<1>8. Waits(GoesIdle(s, id)) = Waits(s) BY DEF GoesIdle, Queue
<1>9. Waits(ComesDue(s, id)) \subseteq Waits(s) \cup {id} BY DEF ComesDue, Queue
<1>10. Waits(EmptyQueue) = {} BY DEF EmptyQueue
<1>11. Waits(LostQueue(s)) = {} BY DEF LostQueue, EmptyQueue
<1> HIDE DEF Waits
<1> QED BY <1>1, <1>2, <1>3, <1>4, <1>5, <1>6, <1>7, <1>8, <1>9, <1>10, <1>11

(* Appending and the byte counters leave it alone; an entry takes its own  *)
(* along.                                                                  *)
LEMMA WaitsCounted ==
    ASSUME NEW s \in Queue, NEW id, NEW size
    PROVE  /\ Waits(AddEntry(s, size)) = Waits(s) /\ Waits(ReleaseBytes(s, size)) = Waits(s)
           /\ Waits(Remove(s, id, size)) = Waits(s) \ {id}
           /\ Waits(Archive(s, id, size)) = Waits(s) /\ Waits(Unarchive(s, id, size)) = Waits(s)
<1> USE DEF Waits
<1>1. Waits(AddEntry(s, size)) = Waits(s) BY DEF AddEntry, Queue
<1>2. Waits(ReleaseBytes(s, size)) = Waits(s) BY DEF ReleaseBytes, Queue
<1>3. Waits(Remove(s, id, size)) = Waits(s) \ {id} BY DEF Remove, ReleaseBytes, Queue
<1>4. Waits(Archive(s, id, size)) = Waits(s) BY DEF Archive, Queue
<1>5. Waits(Unarchive(s, id, size)) = Waits(s) BY DEF Unarchive, Queue
<1> HIDE DEF Waits
<1> QED BY <1>1, <1>2, <1>3, <1>4, <1>5

(* The same entries, cursors and pending list.                             *)
LEMMA TidyFrame ==
    ASSUME NEW s, NEW t, Tidy(s), t.stream = s.stream, t.last = s.last, t.read = s.read,
           \A i \in Ids : t.owner[i] # NoOne <=> s.owner[i] # NoOne,
           Waits(t) \subseteq s.stream
    PROVE  Tidy(t)
BY DEF Tidy

(* An empty queue, also after a loss.                                      *)
LEMMA TidyEmpty == Tidy(EmptyQueue) /\ \A s \in Queue : Tidy(LostQueue(s))
<1>1. Tidy(EmptyQueue)
  <2>1. Waits(EmptyQueue) = {} BY DEF Waits, EmptyQueue
  <2> QED BY <2>1, EmptyFacts DEF Tidy, Ids
<1>2. ASSUME NEW s \in Queue PROVE Tidy(LostQueue(s))
  <2>1. Waits(LostQueue(s)) = {} BY WaitsKept
  <2>2. s.last \in Nat BY DEF Queue
  <2> QED BY <2>1, <2>2, LostFacts DEF Tidy, Ids
<1> QED BY <1>1, <1>2

(* A new entry waits to be delivered.                                      *)
LEMMA TidyAppend ==
    ASSUME NEW s \in Queue, Tidy(s), s.last < MaxAppends, NEW size \in Nat
    PROVE  Tidy(AddEntry(s, size))
<1> DEFINE t == AddEntry(s, size)
<1>1. /\ t.stream = s.stream \cup {s.last + 1} /\ t.last = s.last + 1 /\ t.read = s.read
      /\ t.owner = s.owner /\ Waits(t) = Waits(s)
  BY AppendFacts, WaitsCounted
<1>2. s.last \in Nat /\ s.read \in Nat /\ s.stream \subseteq Ids BY DEF Queue
<1> HIDE DEF t
<1>3. Waits(t) \subseteq t.stream BY <1>1 DEF Tidy
<1>4. \A i \in Ids : t.owner[i] # NoOne <=> i \in t.stream /\ i <= t.read BY <1>1, <1>2 DEF Tidy, Ids
<1>5. t.read <= t.last BY <1>1, <1>2 DEF Tidy
<1>6. \A i \in Ids : t.read < i /\ i <= t.last => i \in t.stream BY <1>1, <1>2 DEF Tidy, Ids
<1>7. \A i \in t.stream : i <= t.last BY <1>1, <1>2 DEF Tidy, Ids
<1> QED BY <1>3, <1>4, <1>5, <1>6, <1>7 DEF Tidy, t

(* Whoever reads the next entry owns it.                                   *)
LEMMA TidyRead ==
    ASSUME NEW s \in Queue, Tidy(s), CanRead(s), NEW c \in Consumers
    PROVE  Tidy(ReadNext(s, c))
<1> DEFINE t == ReadNext(s, c)
<1>0. Waits(t) = Waits(s) BY WaitsKept
<1>1. /\ s.read + 1 \in Ids /\ t.stream = s.stream /\ t.last = s.last /\ t.read = s.read + 1
      /\ t.owner = [s.owner EXCEPT ![s.read + 1] = c]
  BY ReadFacts DEF CanRead
<1>2. s.last \in Nat /\ s.read \in Nat /\ s.owner \in [Ids -> Consumers \cup {NoOne}] BY DEF Queue
<1>3. c # NoOne BY NamesAssumption DEF Consumers
<1>4. s.read < s.last BY DEF CanRead
<1> HIDE DEF t
<1>5. s.read + 1 \in s.stream BY <1>1, <1>2, <1>4 DEF Tidy
<1>6. ASSUME NEW i \in Ids PROVE t.owner[i] # NoOne <=> i \in t.stream /\ i <= t.read
  <2>1. CASE i = s.read + 1 BY <1>1, <1>2, <1>3, <1>5, <2>1
  <2>2. CASE i # s.read + 1
    <3>1. t.owner[i] = s.owner[i] BY <1>1, <1>2, <2>2
    <3>2. i \in Nat /\ (i <= s.read <=> i <= s.read + 1) BY <1>2, <2>2 DEF Ids
    <3> QED BY <1>1, <3>1, <3>2 DEF Tidy
  <2> QED BY <2>1, <2>2
<1>7. t.read <= t.last BY <1>1, <1>2, <1>4
<1>8. \A i \in Ids : t.read < i /\ i <= t.last => i \in t.stream BY <1>1, <1>2 DEF Tidy, Ids
<1> QED BY <1>0, <1>1, <1>6, <1>7, <1>8 DEF Tidy, t

(* Claims move what is pending from one owner to another.                  *)
LEMMA TidyClaims ==
    ASSUME NEW s \in Queue, Tidy(s), NEW id \in Ids, NEW c \in Consumers
    PROVE  /\ Tidy(ClaimDue(s, id, c))
           /\ s.owner[id] # NoOne => /\ Tidy(Claimed(s, id, c)) /\ Tidy(Reclaim(s, id, c))
                                     /\ Tidy(Retry(s, id, c))
<1>0. c # NoOne BY NamesAssumption DEF Consumers
<1>1. s.owner \in [Ids -> Consumers \cup {NoOne}] BY DEF Queue
<1>2. ASSUME NEW t, t.owner = [s.owner EXCEPT ![id] = c], s.owner[id] # NoOne
      PROVE  \A i \in Ids : t.owner[i] # NoOne <=> s.owner[i] # NoOne
  BY <1>0, <1>1, <1>2
<1>3. Waits(s) \subseteq s.stream BY DEF Tidy
<1>4. ASSUME s.owner[id] # NoOne PROVE id \in s.stream BY <1>4 DEF Tidy
<1>5. ASSUME s.owner[id] # NoOne PROVE Tidy(Claimed(s, id, c))
  <2>1. Waits(Claimed(s, id, c)) = Waits(s) BY WaitsKept
  <2>2. /\ Claimed(s, id, c).stream = s.stream /\ Claimed(s, id, c).last = s.last
        /\ Claimed(s, id, c).read = s.read /\ Claimed(s, id, c).owner = [s.owner EXCEPT ![id] = c]
    BY ClaimedFacts
  <2>3. \A i \in Ids : Claimed(s, id, c).owner[i] # NoOne <=> s.owner[i] # NoOne BY <1>2, <1>5, <2>2
  <2> QED BY <1>3, <2>1, <2>2, <2>3, TidyFrame
<1>6. ASSUME s.owner[id] # NoOne PROVE Tidy(Reclaim(s, id, c))
  <2>1. Waits(Reclaim(s, id, c)) \subseteq Waits(s) BY WaitsKept
  <2>2. /\ Reclaim(s, id, c).stream = s.stream /\ Reclaim(s, id, c).last = s.last
        /\ Reclaim(s, id, c).read = s.read /\ Reclaim(s, id, c).owner = [s.owner EXCEPT ![id] = c]
    BY ReclaimFacts
  <2>3. \A i \in Ids : Reclaim(s, id, c).owner[i] # NoOne <=> s.owner[i] # NoOne BY <1>2, <1>6, <2>2
  <2> QED BY <1>3, <2>1, <2>2, <2>3, TidyFrame
<1>7. ASSUME s.owner[id] # NoOne PROVE Tidy(Retry(s, id, c))
  <2>1. Waits(Retry(s, id, c)) \subseteq Waits(s) \cup {id} BY WaitsKept
  <2>2. /\ Retry(s, id, c).stream = s.stream /\ Retry(s, id, c).last = s.last
        /\ Retry(s, id, c).read = s.read /\ Retry(s, id, c).owner = [s.owner EXCEPT ![id] = c]
    BY RetryFacts
  <2>3. \A i \in Ids : Retry(s, id, c).owner[i] # NoOne <=> s.owner[i] # NoOne BY <1>2, <1>7, <2>2
  <2>4. Waits(Retry(s, id, c)) \subseteq s.stream BY <1>3, <1>4, <1>7, <2>1
  <2> QED BY <2>2, <2>3, <2>4, TidyFrame
<1>8. Tidy(ClaimDue(s, id, c))
  <2> DEFINE t == ClaimDue(s, id, c)
  <2>1. t.stream = s.stream /\ t.last = s.last /\ t.read = s.read BY DueFacts
  <2>2. Waits(t) \subseteq s.stream BY <1>3, WaitsKept
  <2>3. \A i \in Ids : t.owner[i] # NoOne <=> s.owner[i] # NoOne
    <3>1. CASE id \in s.stream /\ s.owner[id] # NoOne
      <4>1. t.owner = [s.owner EXCEPT ![id] = c]
        <5>1. t = [Claimed(s, id, c) EXCEPT !.due = @ \ {id}] BY <3>1 DEF ClaimDue
        <5>2. Claimed(s, id, c) \in Queue /\ Claimed(s, id, c).owner = [s.owner EXCEPT ![id] = c]
          BY ClaimedFacts
        <5> QED BY <5>1, <5>2 DEF Queue
      <4> QED BY <1>2, <3>1, <4>1
    <3>2. CASE ~(id \in s.stream /\ s.owner[id] # NoOne)
      <4>1. t.owner = s.owner BY <3>2 DEF ClaimDue, Queue
      <4> QED BY <4>1
    <3> QED BY <3>1, <3>2
  <2> HIDE DEF t
  <2>4. Tidy(t) BY <2>1, <2>2, <2>3, TidyFrame
  <2> QED BY <2>4 DEF t
<1> QED BY <1>5, <1>6, <1>7, <1>8

(* An entry that leaves was delivered, and takes its state along.          *)
LEMMA TidyRemove ==
    ASSUME NEW s \in Queue, Tidy(s), NEW id \in Ids, s.owner[id] # NoOne, NEW size \in Nat
    PROVE  Tidy(Remove(s, id, size))
<1> DEFINE t == Remove(s, id, size)
<1>0. Waits(t) = Waits(s) \ {id} BY WaitsCounted
<1>1. /\ t.stream = s.stream \ {id} /\ t.last = s.last /\ t.read = s.read
      /\ t.owner = [s.owner EXCEPT ![id] = NoOne]
  BY RemoveFacts
<1>2. s.last \in Nat /\ s.read \in Nat /\ s.owner \in [Ids -> Consumers \cup {NoOne}] BY DEF Queue
<1>3. id <= s.read BY DEF Tidy
<1> HIDE DEF t
<1>4. \A i \in Ids : t.owner[i] # NoOne <=> i \in t.stream /\ i <= t.read BY <1>1, <1>2 DEF Tidy
<1>5. \A i \in Ids : t.read < i /\ i <= t.last => i \in t.stream BY <1>1, <1>2, <1>3 DEF Tidy, Ids
<1> QED BY <1>0, <1>1, <1>4, <1>5 DEF Tidy, t

(* The budgets and the archive.                                            *)
LEMMA TidyBudgets ==
    ASSUME NEW s \in Queue, Tidy(s), NEW size \in Nat
    PROVE  /\ Tidy(ReleaseBytes(s, size))
           /\ \A id \in Ids : Tidy(Archive(s, id, size)) /\ Tidy(Unarchive(s, id, size))
<1>1. Waits(s) \subseteq s.stream BY DEF Tidy
<1>2. Tidy(ReleaseBytes(s, size))
  <2>1. Waits(ReleaseBytes(s, size)) = Waits(s) BY WaitsCounted
  <2>2. /\ ReleaseBytes(s, size).stream = s.stream /\ ReleaseBytes(s, size).last = s.last
        /\ ReleaseBytes(s, size).read = s.read /\ ReleaseBytes(s, size).owner = s.owner
    BY ReleaseFacts
  <2> QED BY <1>1, <2>1, <2>2, TidyFrame
<1>3. ASSUME NEW id \in Ids PROVE Tidy(Archive(s, id, size))
  <2>1. Waits(Archive(s, id, size)) = Waits(s) BY WaitsCounted
  <2>2. /\ Archive(s, id, size).stream = s.stream /\ Archive(s, id, size).last = s.last
        /\ Archive(s, id, size).read = s.read /\ Archive(s, id, size).owner = s.owner
    BY ArchiveFacts
  <2> QED BY <1>1, <2>1, <2>2, TidyFrame
<1>4. ASSUME NEW id \in Ids PROVE Tidy(Unarchive(s, id, size))
  <2>1. Waits(Unarchive(s, id, size)) = Waits(s) BY WaitsCounted
  <2>2. /\ Unarchive(s, id, size).stream = s.stream /\ Unarchive(s, id, size).last = s.last
        /\ Unarchive(s, id, size).read = s.read /\ Unarchive(s, id, size).owner = s.owner
    BY UnarchiveFacts
  <2> QED BY <1>1, <2>1, <2>2, TidyFrame
<1> QED BY <1>2, <1>3, <1>4

(* Time.                                                                   *)
LEMMA TidyTime ==
    ASSUME NEW s \in Queue, Tidy(s), NEW id \in Ids
    PROVE  Tidy(GoesIdle(s, id)) /\ (id \in s.later => Tidy(ComesDue(s, id)))
<1>1. Waits(s) \subseteq s.stream BY DEF Tidy
<1>2. Tidy(GoesIdle(s, id))
  <2>1. Waits(GoesIdle(s, id)) = Waits(s) BY WaitsKept
  <2>2. /\ GoesIdle(s, id).stream = s.stream /\ GoesIdle(s, id).last = s.last
        /\ GoesIdle(s, id).read = s.read /\ GoesIdle(s, id).owner = s.owner
    BY TimeFacts
  <2> QED BY <1>1, <2>1, <2>2, TidyFrame
<1>3. ASSUME id \in s.later PROVE Tidy(ComesDue(s, id))
  <2>1. Waits(ComesDue(s, id)) \subseteq s.stream
    <3>1. id \in Waits(s) BY <1>3 DEF Waits
    <3>2. Waits(ComesDue(s, id)) \subseteq Waits(s) \cup {id} BY WaitsKept
    <3> QED BY <1>1, <3>1, <3>2
  <2> QED BY <2>1, TimeFacts, TidyFrame
<1> QED BY <1>2, <1>3

(* Consumer names.                                                         *)
LEMMA TidyNames ==
    ASSUME NEW s \in Queue, Tidy(s)
    PROVE  /\ \A c \in Consumers : NameIsEmpty(s, c) => Tidy(RemoveName(s, c))
           /\ \A c \in Workers : Tidy(Disown(s, c))
<1>1. Waits(s) \subseteq s.stream BY DEF Tidy
<1>2. ASSUME NEW c \in Consumers, NameIsEmpty(s, c) PROVE Tidy(RemoveName(s, c))
  <2>1. Waits(RemoveName(s, c)) = Waits(s) BY WaitsKept
  <2>2. /\ RemoveName(s, c).stream = s.stream /\ RemoveName(s, c).last = s.last
        /\ RemoveName(s, c).read = s.read /\ RemoveName(s, c).owner = s.owner
    BY <1>2, NameFacts
  <2> QED BY <1>1, <2>1, <2>2, TidyFrame
<1>3. ASSUME NEW c \in Workers PROVE Tidy(Disown(s, c))
  <2>1. /\ Disown(s, c).stream = s.stream /\ Disown(s, c).last = s.last /\ Disown(s, c).read = s.read
        /\ \A i \in Ids : Disown(s, c).owner[i] = IF s.owner[i] = c THEN Former ELSE s.owner[i]
    BY DisownFacts
  <2>2. c # NoOne /\ Former # NoOne BY NamesAssumption
  <2>3. \A i \in Ids : Disown(s, c).owner[i] # NoOne <=> s.owner[i] # NoOne BY <2>1, <2>2
  <2>4. Waits(Disown(s, c)) \subseteq s.stream BY <1>1, WaitsKept
  <2> QED BY <2>1, <2>3, <2>4, TidyFrame
<1> QED BY <1>2, <1>3
=============================================================================
