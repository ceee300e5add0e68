--------------------------- MODULE MCSyncRuntime ---------------------------
(* An instance of SyncRuntime: a certificate whose attempts park on a zone *)
(* that two loops serve, or a website and a provider with two loops.       *)
EXTENDS SyncRuntime, TLC

CONSTANTS z, c, p, s,               \* a zone, a certificate, a provider, a website
          w1, w2, w3, w4, w5, w6    \* claim loops

MCTypeOf == (z :> "dns_zone") @@ (c :> "certificate") @@ (s :> "website") @@ (p :> "provider")

MCLoopType == (w1 :> "dns_zone") @@ (w2 :> "dns_zone") @@ (w3 :> "certificate")
                @@ (w4 :> "provider") @@ (w5 :> "provider") @@ (w6 :> "website")

CertificateAwaitsZone == {<<c, z>>}

LoopsAlike == Permutations({w1, w2}) \cup Permutations({w4, w5})

\* The two pairs share no row: a behaviour in which both move shows nothing new.
OnePair == \/ \A r \in {z, c} : aggregate[r].version = 0
           \/ \A r \in {s, p} : aggregate[r].version = 0
=============================================================================
