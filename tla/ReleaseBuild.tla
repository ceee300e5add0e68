---------------------------- MODULE ReleaseBuild ----------------------------
(***************************************************************************)
(* How a publication turns the websites of a cluster into delivery objects *)
(* (node_dispatch/protocol.h) and stores them content-addressed for the    *)
(* tenant (object_store.h), while publications of other clusters of the    *)
(* tenant store the same objects.  An object is named by what it contains: *)
(* a certificate by its id, a website by its id.  A row inserted by a      *)
(* transaction in progress makes the next insert of its digest wait.       *)
(***************************************************************************)
EXTENDS Integers, Sequences, SequencesExt, FiniteSets, TLAPS

CONSTANTS
    Publications,  \* one per cluster
    Sites,         \* the configured websites a cluster may hold: [https, domains, certificates]
    Covers,        \* the hostnames each certificate covers
    SitesPerCluster

Committed == "committed"
Nobody == "nobody"

ASSUME SitesAssumption ==
    /\ {Committed, Nobody} \cap Publications = {}
    /\ \A s \in Sites : /\ s.https \in BOOLEAN
                        /\ Range(s.certificates) \subseteq DOMAIN Covers

VARIABLES
    source,  \* the websites of each publication's cluster, in order
    artifact,\* the delivery objects built from them
    stored,  \* sys_delivery_object: who inserted the row, or Committed
    linked,  \* the objects the publication linked to its release, in order
    state    \* active, committed or aborted

vars == <<source, artifact, stored, linked, state>>

-----------------------------------------------------------------------------
(* The artifact *)

Certificate(c) == [kind |-> "certificate", id |-> c, site |-> 0, names |-> <<>>]

\* The bound certificates that cover the hostname, in the order of the bindings.
Chosen(s, host) == SelectSeq(s.certificates, LAMBDA c : host \in Covers[c])

\* append_website_domains: the certificate of each domain, none without HTTPS.
DomainCertificates(s) ==
    [i \in DOMAIN s.domains |->
        IF s.https /\ Chosen(s, s.domains[i]) # <<>> THEN {Head(Chosen(s, s.domains[i]))} ELSE {}]

\* build_website_object: HTTPS is in force only with a certificate.
Website(p, s, i) == [kind |-> "website", id |-> p, site |-> i, names |-> DomainCertificates(s)]
EffectiveHttps(website) == \E i \in DOMAIN website.names : website.names[i] # {}

\* ensure_certificate: at its first use in the release.
EnsureCertificate(objects, cert) ==
    IF cert = {} \/ (\E c \in cert : Contains(objects, Certificate(c))) THEN objects
    ELSE Append(objects, Certificate(CHOOSE c \in cert : TRUE))

\* build_cluster_release: the website after the certificates it needs.
Objects(p, sites) ==
    FoldLeft(LAMBDA objects, i :
                Append(FoldLeft(EnsureCertificate, objects, DomainCertificates(sites[i])), Website(p, sites[i], i)),
             <<>>, [i \in DOMAIN sites |-> i])

-----------------------------------------------------------------------------
(* Storing it *)

AllObjects == UNION {Range(artifact[p]) : p \in Publications}

TypeOK ==
    /\ DOMAIN stored = AllObjects
    /\ Range(stored) \subseteq Publications \cup {Committed, Nobody}
    /\ state \in [Publications -> {"active", "committed", "aborted"}]
    /\ \A p \in Publications : IsPrefix(linked[p], artifact[p])

Init ==
    /\ source \in [Publications -> [1..SitesPerCluster -> Sites]]
    /\ artifact = [p \in Publications |-> Objects(p, source[p])]
    /\ stored = [o \in AllObjects |-> Nobody]
    /\ linked = [p \in Publications |-> <<>>]
    /\ state = [p \in Publications |-> "active"]

Pending(p) == state[p] = "active" /\ Len(linked[p]) < Len(artifact[p])
NextObject(p) == artifact[p][Len(linked[p]) + 1]

\* The publication whose uncommitted row this one waits for.
Blocker(p) == IF Pending(p) /\ stored[NextObject(p)] \notin {p, Committed, Nobody} THEN stored[NextObject(p)] ELSE p

\* link_release_object: at the next position.
Linked(p) == [linked EXCEPT ![p] = Append(@, NextObject(p))]

\* Mutant: a row that another transaction inserted counts as stored.
PersistAnyRow(p) ==
    /\ Pending(p)
    /\ stored' = IF stored[NextObject(p)] = Nobody THEN [stored EXCEPT ![NextObject(p)] = p] ELSE stored
    /\ linked' = Linked(p)
    /\ UNCHANGED <<source, artifact, state>>

\* persist_object: insert, or verify the committed row.
Persist(p) ==
    /\ Pending(p) /\ Blocker(p) = p
    /\ stored' = IF stored[NextObject(p)] = Nobody THEN [stored EXCEPT ![NextObject(p)] = p] ELSE stored
    /\ linked' = Linked(p)
    /\ UNCHANGED <<source, artifact, state>>

Commit(p) ==
    /\ state[p] = "active" /\ ~Pending(p)
    /\ state' = [state EXCEPT ![p] = "committed"]
    /\ stored' = [o \in DOMAIN stored |-> IF stored[o] = p THEN Committed ELSE stored[o]]
    /\ UNCHANGED <<source, artifact, linked>>

RolledBack(p) ==
    /\ state[p] = "active"
    /\ state' = [state EXCEPT ![p] = "aborted"]
    /\ stored' = [o \in DOMAIN stored |-> IF stored[o] = p THEN Nobody ELSE stored[o]]
    /\ UNCHANGED <<source, artifact, linked>>

\* A later statement fails or the connection is lost.
Fail(p) == RolledBack(p)

\* Two publications that wait for each other: PostgreSQL aborts one of them.
Deadlocked(p, q) == p # q /\ Blocker(p) = q /\ Blocker(q) = p

DetectDeadlock(p) ==
    /\ \E q \in Publications : Deadlocked(p, q)
    /\ RolledBack(p)

Next == \E p \in Publications : Persist(p) \/ Commit(p) \/ Fail(p) \/ DetectDeadlock(p)

\* Every statement returns and the database detects deadlocks.
Fairness == \A p \in Publications : WF_vars(Persist(p)) /\ WF_vars(Commit(p)) /\ WF_vars(DetectDeadlock(p))

Spec == Init /\ [][Next]_vars /\ Fairness

-----------------------------------------------------------------------------
(* Properties *)

\* A release is self-contained: each object occurs once (the unique constraint of
\* sys_cluster_release_object), the certificate a domain names covers it and comes
\* before its website, and no certificate is delivered that no domain uses.
ReleaseIsClosed ==
    \A p \in Publications :
        LET objects == artifact[p]
            websites == {i \in DOMAIN objects : objects[i].kind = "website"}
        IN  /\ IsInjective(objects)
            /\ \A i \in websites : \A d \in DOMAIN objects[i].names : \A c \in objects[i].names[d] :
                   /\ source[p][objects[i].site].domains[d] \in Covers[c]
                   /\ \E j \in 1..(i - 1) : objects[j] = Certificate(c)
            /\ \A j \in DOMAIN objects \ websites :
                   \E i \in websites : i > j /\ EffectiveHttps(objects[i])
                                       /\ \E d \in DOMAIN objects[i].names : objects[j].id \in objects[i].names[d]

\* What build_cluster_release returns is a list of objects.
ArtifactsAreLists == \A p \in Publications : artifact[p] \in Seq(Range(artifact[p]))

\* Every object of a committed release is stored, also when the publication that
\* inserted the row first rolls back (persist_object).
CommittedIsStored ==
    \A p \in Publications : state[p] = "committed" => \A o \in Range(artifact[p]) : stored[o] = Committed

\* Publications of two clusters that insert the same certificates in different
\* orders do not wait for each other for good.
EveryPublicationEnds == \A p \in Publications : <>(state[p] # "active")

-----------------------------------------------------------------------------
(* Proof of CommittedIsStored.  While a publication is active every object *)
(* it has linked is stored by itself or committed, because it waits for    *)
(* the row of another transaction instead of relying on it; what is        *)
(* committed stays so.  That the fold above returns a list is left to TLC. *)

Stored(p, i) == stored[artifact[p][i]]

StoreTypes ==
    /\ DOMAIN artifact = Publications /\ ArtifactsAreLists
    /\ stored \in [AllObjects -> Publications \cup {Committed, Nobody}]
    /\ state \in [Publications -> {"active", "committed", "aborted"}]
    /\ linked \in [Publications -> Seq(AllObjects)]

LinkedIsStored ==
    \A p \in Publications :
        /\ Len(linked[p]) <= Len(artifact[p])
        /\ state[p] = "active" => \A i \in 1..Len(linked[p]) : Stored(p, i) \in {p, Committed}
        /\ state[p] = "committed" => \A i \in 1..Len(artifact[p]) : Stored(p, i) = Committed

StoreInv == StoreTypes /\ LinkedIsStored

(* The places of an artifact and its objects.                              *)
LEMMA Places ==
  ASSUME StoreTypes, NEW p \in Publications
  PROVE  /\ Len(artifact[p]) \in Nat /\ DOMAIN artifact[p] = 1..Len(artifact[p])
         /\ \A i \in 1..Len(artifact[p]) : artifact[p][i] \in AllObjects
         /\ linked[p] \in Seq(AllObjects) /\ Len(linked[p]) \in Nat
<1>1. artifact[p] \in Seq(Range(artifact[p])) /\ linked[p] \in Seq(AllObjects) BY DEF StoreTypes, ArtifactsAreLists
<1>2. Range(artifact[p]) \subseteq AllObjects BY DEF AllObjects
<1> HIDE DEF Range
<1> QED BY <1>1, <1>2

(* Nothing is linked before the first statement.                          *)
LEMMA StoreInit == Init /\ ArtifactsAreLists => StoreInv
<1> SUFFICES ASSUME Init, ArtifactsAreLists PROVE StoreInv OBVIOUS
<1>1. StoreTypes BY DEF Init, StoreTypes
<1>2. ASSUME NEW p \in Publications PROVE Len(linked[p]) = 0 /\ Len(artifact[p]) \in Nat /\ state[p] = "active"
  BY <1>1, Places DEF Init
<1> QED BY <1>1, <1>2 DEF StoreInv, LinkedIsStored

(* A committed row stays, and so does a publication's own while it is      *)
(* active, whatever step another publication takes.                        *)
LEMMA StoreStep == StoreInv /\ [Next]_vars => StoreInv'
<1> SUFFICES ASSUME StoreInv, [Next]_vars PROVE StoreInv' OBVIOUS
<1>0. StoreTypes /\ LinkedIsStored BY DEF StoreInv
<1>1. ASSUME NEW p \in Publications, Persist(p) PROVE StoreInv'
  <2> DEFINE o == NextObject(p)  k == Len(linked[p]) + 1
  <2>1. state[p] = "active" /\ k \in 1..Len(artifact[p]) /\ o = artifact[p][k]
    BY <1>0, <1>1, Places DEF Persist, Pending, NextObject
  <2>2. o \in AllObjects BY <1>0, <2>1, Places
  <2>3. stored[o] \in {p, Committed, Nobody} BY <1>1 DEF Persist, Blocker
  <2>4. /\ stored' = IF stored[o] = Nobody THEN [stored EXCEPT ![o] = p] ELSE stored
        /\ linked' = [linked EXCEPT ![p] = Append(@, o)]
        /\ artifact' = artifact /\ state' = state
    BY <1>1 DEF Persist, Linked
  <2>5. Len(linked'[p]) = k /\ \A q \in Publications \ {p} : linked'[q] = linked[q]
    BY <1>0, <2>2, <2>4, Places DEF StoreTypes
  <2> HIDE DEF o, k
  <2>6. StoreTypes'
    <3>1. AllObjects' = AllObjects /\ ArtifactsAreLists' BY <1>0, <2>4 DEF AllObjects, StoreTypes, ArtifactsAreLists
    <3>2. linked' \in [Publications -> Seq(AllObjects)]
      <4>1. Append(linked[p], o) \in Seq(AllObjects) BY <1>0, <2>2, Places
      <4> QED BY <1>0, <2>4, <4>1 DEF StoreTypes
    <3>3. stored' \in [AllObjects -> Publications \cup {Committed, Nobody}] BY <1>0, <2>2, <2>4 DEF StoreTypes
    <3> QED BY <1>0, <2>4, <3>1, <3>2, <3>3 DEF StoreTypes
  <2>7. ASSUME NEW x \in AllObjects, NEW q \in Publications, stored[x] \in {q, Committed}
        PROVE  stored'[x] = stored[x]
    BY <1>0, <2>2, <2>4, <2>7, SitesAssumption DEF StoreTypes, Committed, Nobody
  <2>8. stored'[o] \in {p, Committed} BY <1>0, <2>2, <2>3, <2>4 DEF StoreTypes
  <2>9. ASSUME NEW q \in Publications
        PROVE  /\ Len(linked'[q]) <= Len(artifact'[q])
               /\ state'[q] = "active" => \A i \in 1..Len(linked'[q]) : Stored(q, i)' \in {q, Committed}
               /\ state'[q] = "committed" => \A i \in 1..Len(artifact'[q]) : Stored(q, i)' = Committed
    <3>1. \A i \in 1..Len(artifact[q]) : artifact[q][i] \in AllObjects BY <1>0, Places
    <3>2. \A i \in 1..Len(artifact[q]) :
             Stored(q, i) \in {q, Committed} => stored'[artifact'[q][i]] = Stored(q, i)
      BY <2>4, <2>7, <3>1 DEF Stored
    <3>3. /\ Len(linked[q]) \in Nat /\ Len(artifact[q]) \in Nat /\ Len(linked[q]) <= Len(artifact[q])
          /\ state[q] = "active" => \A i \in 1..Len(linked[q]) : Stored(q, i) \in {q, Committed}
          /\ state[q] = "committed" => \A i \in 1..Len(artifact[q]) : Stored(q, i) = Committed
      BY <1>0, Places DEF LinkedIsStored
    <3>4. CASE q # p BY <2>4, <2>5, <3>2, <3>3, <3>4 DEF Stored
    <3>5. CASE q = p
      <4>1. k = Len(linked[q]) + 1 BY <3>5 DEF k
      <4>2. stored'[artifact'[q][k]] \in {q, Committed} BY <2>1, <2>4, <2>8, <3>5
      <4> QED BY <2>1, <2>4, <2>5, <3>2, <3>3, <3>5, <4>1, <4>2 DEF Stored
    <3> QED BY <3>4, <3>5
  <2> QED BY <2>6, <2>9 DEF StoreInv, LinkedIsStored
<1>2. ASSUME NEW p \in Publications, NEW to \in {Committed, Nobody}, NEW end \in {"committed", "aborted"},
             to = Committed <=> end = "committed", end = "committed" => ~Pending(p),
             state[p] = "active",
             state' = [state EXCEPT ![p] = end],
             stored' = [o \in DOMAIN stored |-> IF stored[o] = p THEN to ELSE stored[o]],
             artifact' = artifact, linked' = linked
      PROVE  StoreInv'
  <2>1. StoreTypes'
    <3>1. AllObjects' = AllObjects /\ ArtifactsAreLists'
      BY <1>0, <1>2 DEF AllObjects, StoreTypes, ArtifactsAreLists
    <3>2. stored' \in [AllObjects -> Publications \cup {Committed, Nobody}] BY <1>0, <1>2 DEF StoreTypes
    <3> QED BY <1>0, <1>2, <3>1, <3>2 DEF StoreTypes
  <2>2. ASSUME NEW q \in Publications
        PROVE  /\ Len(linked'[q]) <= Len(artifact'[q])
               /\ state'[q] = "active" => \A i \in 1..Len(linked'[q]) : Stored(q, i)' \in {q, Committed}
               /\ state'[q] = "committed" => \A i \in 1..Len(artifact'[q]) : Stored(q, i)' = Committed
    <3>1. \A i \in 1..Len(artifact[q]) : artifact[q][i] \in AllObjects BY <1>0, Places
    <3>2. \A x \in AllObjects : stored'[x] = IF stored[x] = p THEN to ELSE stored[x] BY <1>0, <1>2 DEF StoreTypes
    <3>3. /\ Len(linked[q]) \in Nat /\ Len(artifact[q]) \in Nat /\ Len(linked[q]) <= Len(artifact[q])
          /\ state[q] = "active" => \A i \in 1..Len(linked[q]) : Stored(q, i) \in {q, Committed}
          /\ state[q] = "committed" => \A i \in 1..Len(artifact[q]) : Stored(q, i) = Committed
      BY <1>0, Places DEF LinkedIsStored
    <3>4. Committed # p BY SitesAssumption
    <3>5. CASE q # p
      <4>1. state'[q] = state[q] BY <1>0, <1>2, <3>5 DEF StoreTypes
      <4> QED BY <1>2, <3>1, <3>2, <3>3, <3>4, <3>5, <4>1 DEF Stored
    <3>6. CASE q = p
      <4>1. state'[q] = end BY <1>0, <1>2, <3>6 DEF StoreTypes
      <4>2. end = "committed" => Len(linked[q]) = Len(artifact[q]) BY <1>2, <3>3, <3>6 DEF Pending
      <4> QED BY <1>2, <3>1, <3>2, <3>3, <3>6, <4>1, <4>2 DEF Stored
    <3> QED BY <3>5, <3>6
  <2> QED BY <2>1, <2>2 DEF StoreInv, LinkedIsStored
<1>3. ASSUME NEW p \in Publications, Commit(p) PROVE StoreInv'
  BY <1>2, <1>3 DEF Commit, Committed, Nobody
<1>4. ASSUME NEW p \in Publications, RolledBack(p) PROVE StoreInv'
  BY <1>2, <1>4 DEF RolledBack, Committed, Nobody
<1>5. CASE UNCHANGED vars
  BY <1>0, <1>5 DEF vars, StoreInv, StoreTypes, ArtifactsAreLists, AllObjects, LinkedIsStored, Stored
<1> QED BY <1>1, <1>3, <1>4, <1>5 DEF Next, Fail, DetectDeadlock

(* CommittedIsStored for any number of publications and any artifacts that *)
(* are lists, whoever rolls back and whoever waits.                        *)
THEOREM ReleasesAreStored == Spec /\ ArtifactsAreLists => []CommittedIsStored
<1>1. StoreInv => CommittedIsStored
  <2> SUFFICES ASSUME StoreInv, NEW p \in Publications, state[p] = "committed", NEW o \in Range(artifact[p])
               PROVE  stored[o] = Committed
    BY DEF CommittedIsStored
  <2>1. PICK i \in DOMAIN artifact[p] : o = artifact[p][i] BY DEF Range
  <2>2. i \in 1..Len(artifact[p]) BY <2>1, Places DEF StoreInv
  <2> QED BY <2>1, <2>2 DEF StoreInv, LinkedIsStored, Stored
<1> QED BY <1>1, StoreInit, StoreStep, PTL DEF Spec
=============================================================================
