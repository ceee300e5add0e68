--------------------------- MODULE ResponseCache ---------------------------
(***************************************************************************)
(* The response cache the workers of a node share:                         *)
(* node/data/response_cache.h.  The cache is one immutable root.  A writer *)
(* copies the root, changes the copy and swaps it in; if the root has      *)
(* moved it starts again from the new one.  An operation that only does    *)
(* this is one step.  Storing, revalidating and invalidating also write    *)
(* metadata files before they swap and erase files after it: these are     *)
(* several steps, between which other workers act and the node may crash.  *)
(*                                                                         *)
(* A key stands for a resource with one value of its Vary fields; one      *)
(* website with one policy owns all keys.                                  *)
(***************************************************************************)
EXTENDS Integers, FiniteSets, Sequences, SequencesExt

CONSTANTS
    Workers, Keys,
    Storage,       \* of the policy: "memory", "disk" or "tiered"
    MemoryLimit,   \* a head costs one, a body in memory one more
    DiskLimit,     \* files
    MaxObjects,    \* keys with an entry
    MaxFills,      \* claims at a time
    Commands,      \* the invalidations the service asks for
    MaxCommands,   \* results the root keeps
    MaxTickets,    \* bound: tickets handed out
    MaxSequence,   \* bound: of the root's sequence
    MaxEpoch,      \* bound: invalidations behind one fence
    MaxRestarts,   \* bound: crashes
    WriteFails     \* the disk may refuse a write

CacheAssumption ==
    /\ Storage \in {"memory", "disk", "tiered"}
    /\ MemoryLimit \in Nat /\ DiskLimit \in Nat /\ MaxObjects \in Nat
    /\ MaxFills \in Nat /\ MaxCommands \in Nat /\ WriteFails \in BOOLEAN
    /\ \A c \in Commands : c.fence \in {"website", "policy"}
                           /\ c.scope \in Keys \cup {"all", "expired"}

Fences == {"website", "policy"}

VARIABLES
    root,      \* the published snapshot
    disk,      \* [epochs, meta, body]: .epoch, .meta and .body files
    job,       \* job[w]: what worker w is in the middle of
    stale,     \* identities of entries whose time is over
    tickets,   \* tickets handed out; their number names the file of a fill
    purged,    \* purged[k]: completed invalidations of k
    raised,    \* the epoch numbers commands raised their fence to, with the command
    restarts

vars == <<root, disk, job, stale, tickets, purged, raised, restarts>>

Entry == [key : Keys, file : Nat, id : Nat, seq : Nat, epochs : [Fences -> Nat],
          mem : BOOLEAN,          \* body_: a copy in memory
          born : Nat,             \* the ticket that fetched it
          seen : Nat]             \* invalidations of the key the ticket had seen
NoEntry == [key |-> "none", file |-> 0, id |-> 0, seq |-> 0,
            epochs |-> [f \in Fences |-> 0], mem |-> FALSE, born |-> 0, seen |-> 0]

EmptyRoot == [entries |-> {}, epochs |-> [f \in Fences |-> 0],
              filling |-> [k \in Keys |-> [claim |-> 0, live |-> FALSE]],
              seq |-> 0, commands |-> [c \in Commands |-> "none"]]
Idle == [op |-> "idle", item |-> NoEntry, claim |-> 0, prev |-> NoEntry,
         snap |-> EmptyRoot, next |-> EmptyRoot, todo |-> {}, cmd |-> {}]

Init ==
    /\ root = EmptyRoot
    /\ disk = [epochs |-> [f \in Fences |-> 0], meta |-> {}, body |-> {}]
    /\ job = [w \in Workers |-> Idle]
    /\ stale = {} /\ tickets = 0 /\ restarts = 0
    /\ purged = [k \in Keys |-> 0]
    /\ raised = {}

----------------------------------------------------------------------------
(* usage and evict: retention, then the disk and the number of keys, then  *)
(* copies in memory, then whole entries, the least recently used first.    *)

Memory(S) == Cardinality(S) + Cardinality({e \in S : e.mem})
Disk(S) == Cardinality({e \in S : e.file # 0})
Objects(S) == Cardinality({e.key : e \in S})
OldestFirst(S) == SetToSortSeq(S, LAMBDA a, b : a.seq < b.seq)

Evict(S, over, memory, files) ==
    LET kept == S \ over
        disked == FoldLeft(LAMBDA T, e : IF Disk(T) <= files /\ Objects(T) <= MaxObjects
                                         THEN T ELSE T \ {e},
                           kept, OldestFirst(kept))
        demoted == FoldLeft(LAMBDA T, e :
                               IF Memory(T) <= memory \/ ~e.mem THEN T
                               ELSE IF e.file # 0 THEN (T \ {e}) \cup {[e EXCEPT !.mem = FALSE]}
                               ELSE T \ {e},
                            disked, OldestFirst(disked))
    IN FoldLeft(LAMBDA T, e : IF Memory(T) <= memory THEN T ELSE T \ {e},
                demoted, OldestFirst(demoted))

Files(S) == {e.file : e \in {x \in S : x.file # 0}}
Retired(old, new) == Files(old.entries) \ Files(new.entries)
Over == {e \in root.entries : e.id \in stale}

(* persist: the metadata of a file is replaced by renaming.                *)
Persisted(d, e) ==
    IF e.file = 0 THEN d
    ELSE [d EXCEPT !.meta = {x \in @ : x.file # e.file} \cup {[e EXCEPT !.mem = FALSE]}]
Erased(d, files) == [d EXCEPT !.meta = {x \in @ : x.file \notin files}]

(* abandon: only the claim the ticket was given for.                       *)
Abandoned(r, k, claim) ==
    IF r.filling[k].claim = claim
    THEN [r EXCEPT !.filling[k] = [claim |-> 0, live |-> FALSE]] ELSE r

Holds(r, j) ==
    /\ r.filling[j.item.key].claim = j.claim
    /\ r.epochs = j.item.epochs

----------------------------------------------------------------------------
(* Lookups and claims *)

Fresh(k) == \E e \in root.entries : e.key = k /\ e.id \notin stale
StaleOf(k) == {e \in root.entries : e.key = k /\ e.id \in stale}
Claims(r) == {k \in Keys : r.filling[k].claim # 0}

(* lookup: a ticket to fill the key, with the entry to revalidate.  Claims *)
(* that lapsed make room when there are too many.                          *)
Lookup(w, k) ==
    LET pruned == [root EXCEPT !.filling = [q \in Keys |->
                     IF Cardinality(Claims(root)) >= MaxFills /\ ~root.filling[q].live
                     THEN [claim |-> 0, live |-> FALSE] ELSE root.filling[q]]]
        claim == root.seq + 1
    IN /\ job[w].op = "idle" /\ ~Fresh(k) /\ ~root.filling[k].live
       /\ Cardinality(Claims(pruned)) < MaxFills
       /\ tickets < MaxTickets /\ root.seq < MaxSequence
       /\ root' = [pruned EXCEPT !.seq = claim, !.filling[k] = [claim |-> claim, live |-> TRUE]]
       /\ tickets' = tickets + 1
       /\ \E prev \in (IF StaleOf(k) = {} THEN {NoEntry}
                       ELSE {e \in StaleOf(k) : \A x \in StaleOf(k) : x.seq <= e.seq}) :
            job' = [job EXCEPT ![w] =
                      [Idle EXCEPT !.op = "fill", !.claim = claim, !.prev = prev,
                         !.item = [key |-> k, file |-> IF Storage = "memory" THEN 0 ELSE tickets + 1,
                                   id |-> 0, seq |-> 0, epochs |-> root.epochs, mem |-> FALSE,
                                   born |-> tickets + 1, seen |-> purged[k]]]]
       /\ UNCHANGED <<disk, stale, purged, raised, restarts>>

(* renew: the lease lasts another thirty seconds.                          *)
Renew(w) ==
    /\ job[w].op = "fill" /\ Holds(root, job[w])
    /\ root' = [root EXCEPT !.filling[job[w].item.key].live = TRUE]
    /\ UNCHANGED <<disk, job, stale, tickets, purged, raised, restarts>>

LeaseEnds(k) ==
    /\ root.filling[k].live
    /\ root' = [root EXCEPT !.filling[k].live = FALSE]
    /\ UNCHANGED <<disk, job, stale, tickets, purged, raised, restarts>>

(* The response is not stored: the origin failed, the session ended or     *)
(* the lease is lost.                                                      *)
Abandon(w) ==
    /\ job[w].op = "fill"
    /\ root' = Abandoned(root, job[w].item.key, job[w].claim)
    /\ job' = [job EXCEPT ![w] = Idle]
    /\ UNCHANGED <<disk, stale, tickets, purged, raised, restarts>>

Expire(e) ==
    /\ e.id \notin stale
    /\ stale' = stale \cup {e.id}
    /\ UNCHANGED <<root, disk, job, tickets, purged, raised, restarts>>

----------------------------------------------------------------------------
(* store *)

(* finish_file: the body gets its name; a copy stays in memory if it fits. *)
FinishFile(w) ==
    /\ job[w].op = "fill"
    /\ disk' = [disk EXCEPT !.body = IF job[w].item.file = 0 THEN @ ELSE @ \cup {job[w].item.file}]
    /\ \E copy \in (CASE Storage = "memory" -> {TRUE} [] Storage = "disk" -> {FALSE}
                      [] OTHER -> BOOLEAN) :
         job' = [job EXCEPT ![w].op = "store", ![w].item.mem = copy, ![w].snap = root]
    /\ UNCHANGED <<root, stale, tickets, purged, raised, restarts>>

StoredIn(r, e, over) ==
    [r EXCEPT !.filling[e.key] = [claim |-> 0, live |-> FALSE], !.seq = @ + 1,
              !.entries = Evict({x \in @ : x.key # e.key} \cup {[e EXCEPT !.seq = r.seq + 1, !.id = r.seq + 1]},
                                over, MemoryLimit, DiskLimit)]
Numbered(r, e) == [e EXCEPT !.seq = r.seq + 1, !.id = r.seq + 1]

Refused(w) ==
    /\ root' = Abandoned(root, job[w].item.key, job[w].claim)
    /\ disk' = Erased(disk, {job[w].item.file})
    /\ job' = [job EXCEPT ![w] = Idle]
    /\ UNCHANGED <<stale, tickets, purged, raised, restarts>>

(* store, up to the swap: the claim and the epochs of the snapshot decide, *)
(* the entry must survive the eviction it causes, its metadata is written. *)
StorePersist(w) ==
    LET j == job[w]  e == Numbered(j.snap, j.item)
    IN /\ j.op = "store" /\ j.snap.seq < MaxSequence
       /\ \E over \in SUBSET {x \in j.snap.entries : x.id \in stale} :
            LET next == StoredIn(j.snap, j.item, over)
                kept == \E x \in next.entries : x.id = e.id
            IN IF Holds(j.snap, j) /\ kept
               THEN \/ /\ disk' = Persisted(disk, e)
                       /\ job' = [job EXCEPT ![w].op = "stored", ![w].next = next]
                       /\ UNCHANGED <<root, stale, tickets, purged, raised, restarts>>
                    \/ WriteFails /\ Refused(w)
               ELSE Refused(w)

(* publish: if the root is still the snapshot, the files that left it are  *)
(* erased next; otherwise the operation starts again.                      *)
Swap(w, again) ==
    LET j == job[w]
    IN IF root = j.snap
       THEN /\ root' = j.next
            /\ job' = [job EXCEPT ![w] = [Idle EXCEPT !.op = "erase", !.cmd = j.cmd,
                                                      !.todo = Retired(j.snap, j.next)]]
       ELSE /\ UNCHANGED root
            /\ job' = [job EXCEPT ![w].op = again, ![w].snap = root, ![w].next = EmptyRoot]

StorePublish(w) ==
    /\ job[w].op = "stored"
    /\ Swap(w, "store")
    /\ UNCHANGED <<disk, stale, tickets, purged, raised, restarts>>

(* The metadata of the files that left is erased; a command is completed.  *)
EraseMetadata(w) ==
    /\ job[w].op = "erase"
    /\ disk' = Erased(disk, job[w].todo)
    /\ root' = [root EXCEPT !.commands = [c \in Commands |->
                  IF c \in job[w].cmd THEN "done" ELSE @[c]]]
    /\ job' = [job EXCEPT ![w] = Idle]
    /\ UNCHANGED <<stale, tickets, purged, raised, restarts>>

----------------------------------------------------------------------------
(* revalidate: the entry the ticket found is fresh again.                  *)

Revalidate(w) ==
    /\ job[w].op = "fill" /\ job[w].prev # NoEntry
    /\ job' = [job EXCEPT ![w].op = "validate", ![w].snap = root]
    /\ UNCHANGED <<root, disk, stale, tickets, purged, raised, restarts>>

RevalidatePersist(w) ==
    LET j == job[w]
        refreshed == [j.prev EXCEPT !.seq = j.snap.seq + 1]
        there == \E x \in j.snap.entries : x.id = j.prev.id
    IN /\ j.op = "validate" /\ j.snap.seq < MaxSequence
       /\ \/ /\ Holds(j.snap, j) /\ there
             /\ disk' = Persisted(disk, refreshed)
             /\ job' = [job EXCEPT ![w].op = "validated",
                          ![w].next = [Abandoned(j.snap, j.item.key, j.claim) EXCEPT
                             !.seq = @ + 1,
                             !.entries = {x \in @ : x.id # j.prev.id} \cup {refreshed}]]
             /\ UNCHANGED root
          \/ /\ ~(Holds(j.snap, j) /\ there) \/ WriteFails
             /\ root' = Abandoned(root, j.item.key, j.claim)
             /\ job' = [job EXCEPT ![w] = Idle]
             /\ UNCHANGED disk
       /\ UNCHANGED <<stale, tickets, purged, raised, restarts>>

RevalidatePublish(w) ==
    /\ job[w].op = "validated"
    /\ Swap(w, "validate")
    /\ stale' = IF root = job[w].snap THEN stale \ {job[w].prev.id} ELSE stale
    /\ UNCHANGED <<disk, tickets, purged, raised, restarts>>

----------------------------------------------------------------------------
(* The operations that swap once *)

Edited(w, entries) ==
    LET next == [root EXCEPT !.entries = entries, !.seq = @ + 1]
    IN /\ job[w].op = "idle" /\ root.seq < MaxSequence
       /\ root' = next
       /\ job' = [job EXCEPT ![w] = IF Retired(root, next) = {} THEN Idle
                                    ELSE [Idle EXCEPT !.op = "erase", !.todo = Retired(root, next)]]
       /\ UNCHANGED <<disk, stale, tickets, purged, raised, restarts>>

(* flush_touches: hits make an entry the most recently used.               *)
Touch(w, e) == Edited(w, (root.entries \ {e}) \cup {[e EXCEPT !.seq = root.seq + 1]})

(* promote: the body that was read from the file is kept in memory.        *)
Promote(w, e) ==
    /\ Storage = "tiered" /\ e.file # 0 /\ ~e.mem /\ e.id \notin stale
    /\ Edited(w, Evict((root.entries \ {e}) \cup {[e EXCEPT !.mem = TRUE, !.seq = root.seq + 1]},
                       {}, MemoryLimit, DiskLimit))

(* trim_for_pressure: the machine leaves the cache less than its policy.   *)
TrimForPressure(w) ==
    \E memory \in 0..MemoryLimit, files \in 0..DiskLimit :
        /\ memory < Memory(root.entries) \/ files < Disk(root.entries)
        /\ Edited(w, Evict(root.entries, Over, memory, files))

(* discard: the file of an entry cannot be read, or no longer has a        *)
(* lifetime when it is revalidated.                                        *)
Discard(w, e) == Edited(w, root.entries \ {e})

----------------------------------------------------------------------------
(* Commands *)

(* claim_command: a second delivery of a command is not run; completed     *)
(* results make room.                                                      *)
Remembered(r) ==
    IF Cardinality({c \in Commands : r.commands[c] # "none"}) <= MaxCommands THEN r
    ELSE [r EXCEPT !.commands = [c \in Commands |-> IF @[c] = "done" THEN "none" ELSE @[c]]]
ClaimCommand(w, c) ==
    /\ job[w].op = "idle" /\ root.commands[c] = "none" /\ root.epochs[c.fence] < MaxEpoch
    /\ root' = Remembered([root EXCEPT !.commands[c] = "owned"])
    /\ job' = [job EXCEPT ![w] = [Idle EXCEPT !.op = "fence", !.cmd = {c}, !.snap = root']]
    /\ UNCHANGED <<disk, stale, tickets, purged, raised, restarts>>

Matches(e, c) == c.scope = "all" \/ e.key = c.scope \/ (c.scope = "expired" /\ e.id \in stale)
Fenced(r, c) == [r.epochs EXCEPT ![c.fence] = @ + 1]

(* invalidate: the fence is raised, every claim goes, matching entries go  *)
(* and the others are carried across the fence.                            *)
Invalidated(r, c) ==
    [r EXCEPT !.epochs = Fenced(r, c),
              !.filling = [k \in Keys |-> [claim |-> 0, live |-> FALSE]],
              !.entries = {[e EXCEPT !.epochs = Fenced(r, c)] : e \in {x \in @ : ~Matches(x, c)}}]

(* persist_epoch: a new file; the highest value counts.                    *)
PersistEpoch(d, c, r) ==
    [d EXCEPT !.epochs[c.fence] = IF @ < r.epochs[c.fence] + 1 THEN r.epochs[c.fence] + 1 ELSE @]

RaiseFence(w) ==
    LET j == job[w]
    IN /\ j.op = "fence"
       /\ \E c \in j.cmd :
            LET next == Invalidated(j.snap, c)
            IN \/ /\ disk' = PersistEpoch(disk, c, j.snap)
                  /\ raised' = raised \cup {[fence |-> c.fence, epoch |-> next.epochs[c.fence],
                                             cmd |-> c.id]}
                  /\ job' = [job EXCEPT ![w].op = "retain", ![w].next = next,
                                        ![w].todo = Files(next.entries)]
               \/ /\ WriteFails /\ UNCHANGED <<disk, raised>>
                  /\ job' = [job EXCEPT ![w] = [Idle EXCEPT !.op = "erase", !.cmd = j.cmd]]
       /\ UNCHANGED <<root, stale, tickets, purged, restarts>>

(* The metadata of every entry that stays is written with the new epochs.  *)
RetainOne(w) ==
    LET j == job[w]
    IN /\ j.op = "retain"
       /\ \E f \in j.todo :
            \/ /\ disk' = Persisted(disk, CHOOSE e \in j.next.entries : e.file = f)
               /\ job' = [job EXCEPT ![w].todo = @ \ {f}]
            \/ /\ WriteFails /\ UNCHANGED disk
               /\ job' = [job EXCEPT ![w] = [Idle EXCEPT !.op = "erase", !.cmd = j.cmd]]
       /\ UNCHANGED <<root, stale, tickets, purged, raised, restarts>>

InvalidatePublish(w) ==
    LET j == job[w]
    IN /\ j.op = "retain" /\ j.todo = {}
       /\ Swap(w, "fence")
       /\ purged' = IF root # j.snap THEN purged
                    ELSE [k \in Keys |->
                            IF \E c \in j.cmd : c.scope \in {"all", k}
                            THEN purged[k] + 1 ELSE purged[k]]
       /\ UNCHANGED <<disk, stale, tickets, raised, restarts>>

----------------------------------------------------------------------------
(* Files and restarts *)

Referenced(f) ==
    \/ f \in Files(root.entries)
    \/ \E w \in Workers : f \in {job[w].item.file, job[w].prev.file}
                                  \cup Files(job[w].snap.entries) \cup Files(job[w].next.entries)

(* ~cache_file: the last reference to a file without metadata removes it.  *)
DropFile(f) ==
    /\ f \in disk.body /\ ~Referenced(f) /\ \A x \in disk.meta : x.file # f
    /\ disk' = [disk EXCEPT !.body = @ \ {f}]
    /\ UNCHANGED <<root, job, stale, tickets, purged, raised, restarts>>

(* The node stops at any point and starts again from its files: metadata   *)
(* of the current epochs whose body is there is restored, the rest goes.   *)
OfAnyEpoch(d) == {x \in d.meta : x.file \in d.body}
Restorable(d) == {x \in d.meta : x.epochs = d.epochs /\ x.file \in d.body}
Newest(S) == IF S = {} THEN 0 ELSE CHOOSE n \in {e.seq : e \in S} : \A e \in S : e.seq <= n
Restart ==
    LET kept == Restorable(disk)
    IN /\ restarts < MaxRestarts
       /\ restarts' = restarts + 1
       /\ root' = [EmptyRoot EXCEPT !.entries = kept, !.epochs = disk.epochs, !.seq = Newest(kept)]
       /\ disk' = [disk EXCEPT !.meta = kept, !.body = {e.file : e \in kept}]
       /\ job' = [w \in Workers |-> Idle]
       /\ stale' = stale \cap {e.id : e \in kept}
       /\ UNCHANGED <<tickets, purged, raised>>

Work(w) ==
    \/ \E k \in Keys : Lookup(w, k)
    \/ Renew(w) \/ Abandon(w) \/ FinishFile(w) \/ StorePersist(w) \/ StorePublish(w)
    \/ EraseMetadata(w) \/ Revalidate(w) \/ RevalidatePersist(w) \/ RevalidatePublish(w)
    \/ \E e \in root.entries : Touch(w, e) \/ Promote(w, e) \/ Discard(w, e)
    \/ TrimForPressure(w)
    \/ \E c \in Commands : ClaimCommand(w, c)
    \/ RaiseFence(w) \/ RetainOne(w) \/ InvalidatePublish(w)

Next ==
    \/ \E w \in Workers : Work(w)
    \/ \E k \in Keys : LeaseEnds(k)
    \/ \E e \in root.entries : Expire(e)
    \/ \E f \in disk.body : DropFile(f)
    \/ Restart

Spec == Init /\ [][Next]_vars

----------------------------------------------------------------------------
(* Properties *)

(* The root, the files and the jobs have their types; what is on disk for  *)
(* a file is the entry of that file.                                       *)
TypeOK ==
    /\ root.seq \in 0..MaxSequence /\ DOMAIN root.filling = Keys
    /\ \A e \in root.entries : e.key \in Keys /\ e.id \in 1..root.seq /\ e.seq \in e.id..root.seq
    /\ \A x, y \in disk.meta : x.file = y.file => x = y
    /\ \A w \in Workers : job[w].op \in {"idle", "fill", "store", "stored", "erase", "validate",
                                         "validated", "fence", "retain"}

(* Every invalidation raised its fence to a number no other one had used.  *)
(* Two at once, and one after another that failed half-way, take the same: *)
(* the number is the root's next one, and the root has not moved.          *)
EpochsAreOwn ==
    \A a, b \in raised : a.fence = b.fence /\ a.epoch = b.epoch => a = b

(* What an invalidation removed never comes back: not by a fill that had   *)
(* asked the origin before it, not by a revalidation and, as long as each  *)
(* invalidation had a number of its own, not from the disk after a crash.  *)
(* Every entry was fetched by a ticket that had seen all completed         *)
(* invalidations of its key.                                               *)
PurgedStaysPurged ==
    restarts = 0 \/ EpochsAreOwn => \A e \in root.entries : e.seen = purged[e.key]

(* A key has one entry: a replaced one does not reappear beside the new.   *)
NoTwins == \A e, f \in root.entries : e.key = f.key => e = f

(* An entry is only ever replaced by one that was asked for later: a fill  *)
(* that lost its claim does not put older content over newer.              *)
KeepsNewerContent ==
    \A e \in root.entries, f \in root'.entries : e.key = f.key => e.born <= f.born

(* Whatever is stored, promoted, trimmed or refreshed, the files of the    *)
(* cache stay within the policy.                                           *)
DiskWithinLimit == Disk(root.entries) <= DiskLimit

(* So do the copies in memory.                                             *)
MemoryWithinLimit == Memory(root.entries) <= MemoryLimit

(* A command is run by one worker at a time, however often it is delivered *)
(* and whatever results are dropped to make room.                          *)
OneRunner ==
    \A v, w \in Workers : v # w => job[v].cmd \cap job[w].cmd = {}
============================================================================
