------------------------------ MODULE MCEdgeData ------------------------------
(* The data plane of a node at work, side by side: the sessions of its     *)
(* clients and the response cache its workers share.                       *)
EXTENDS Sequences, TLC

CONSTANTS
  c1, c2,   \* clients
  w1, w2,   \* workers
  Scenes    \* of the run

VARIABLES
  scene,   \* the component that moves, with its instance
  ses, cache,   \* HttpSession
  root, disk, job, stale, tickets, purged, raised, restarts   \* ResponseCache

Alike == Permutations({c1, c2}) \cup Permutations({w1, w2})

Purge(id, fence, scope) == [id |-> id, fence |-> fence, scope |-> scope]
PurgeOne == {Purge(1, "website", "k1")}
PurgeBoth == {Purge(1, "website", "k1"), Purge(2, "website", "k2")}
PurgeExpired == {Purge(1, "policy", "all"), Purge(2, "website", "expired")}

Serving == INSTANCE HttpSession WITH
  Clients <- {c1, c2}, Refreshes <- {}, Origins <- <<"a">>, Kinds <- {"range"}, MaxWaits <- 1,
  MaxEntries <- 1, MaxFills <- 1, MaxBlocks <- 1, TimerRace <- FALSE
Refresh == INSTANCE HttpSession WITH
  Clients <- {c1}, Refreshes <- {"r1"}, Origins <- <<"a">>, Kinds <- {"cache", "updating"},
  MaxWaits <- 1, MaxEntries <- 2, MaxFills <- 2, MaxBlocks <- 1, TimerRace <- TRUE
Failover == INSTANCE HttpSession WITH
  Clients <- {c1}, Refreshes <- {}, Origins <- <<"a", "b">>, Kinds <- {"bypass", "cache"},
  MaxWaits <- 1, MaxEntries <- 2, MaxFills <- 1, MaxBlocks <- 1, TimerRace <- FALSE
sessionVars == <<ses, cache>>

Purged == INSTANCE ResponseCache WITH
  Workers <- {w1, w2}, Keys <- {"k1", "k2"}, Storage <- "tiered", MemoryLimit <- 2,
  DiskLimit <- 1, MaxObjects <- 2, MaxFills <- 2, Commands <- PurgeOne, MaxCommands <- 1, MaxTickets <- 2,
  MaxSequence <- 4, MaxEpoch <- 2, MaxRestarts <- 0, WriteFails <- TRUE
Replaced == INSTANCE ResponseCache WITH
  Workers <- {w1, w2}, Keys <- {"k1"}, Storage <- "tiered", MemoryLimit <- 4, DiskLimit <- 2,
  MaxObjects <- 1, MaxFills <- 2, Commands <- PurgeExpired, MaxCommands <- 1, MaxTickets <- 2, MaxSequence <- 4,
  MaxEpoch <- 1, MaxRestarts <- 0, WriteFails <- FALSE
Restarted == INSTANCE ResponseCache WITH
  Workers <- {w1, w2}, Keys <- {"k1", "k2"}, Storage <- "disk", MemoryLimit <- 2,
  DiskLimit <- 2, MaxObjects <- 1, MaxFills <- 2, Commands <- PurgeBoth, MaxCommands <- 2,
  MaxTickets <- 1, MaxSequence <- 3, MaxEpoch <- 2, MaxRestarts <- 1, WriteFails <- TRUE
cacheVars == <<root, disk, job, stale, tickets, purged, raised, restarts>>

MCvars == <<scene, sessionVars, cacheVars>>

MCInit ==
  /\ scene \in Scenes
  /\ CASE scene = "serving" -> Serving!Init
       [] scene = "failover" -> Failover!Init
       [] scene = "refresh" -> Refresh!Init
       [] OTHER -> Serving!Init /\ cache.entry.id = 0 /\ cache.filling["whole"] = Serving!Nobody
  /\ IF scene = "purge" THEN Purged!Init ELSE IF scene = "replace" THEN Replaced!Init ELSE Restarted!Init

\* The components that do not move keep their state.
Still(own) ==
  /\ UNCHANGED scene
  /\ IF own = "sessionVars" THEN TRUE ELSE UNCHANGED sessionVars
  /\ IF own = "cacheVars" THEN TRUE ELSE UNCHANGED cacheVars

MCNext ==
  \/ scene = "serving" /\ Serving!Next /\ Still("sessionVars")
  \/ scene = "failover" /\ Failover!Next /\ Still("sessionVars")
  \/ scene = "refresh" /\ Refresh!Next /\ Still("sessionVars")
  \/ scene = "purge" /\ Purged!Next /\ Still("cacheVars")
  \/ scene = "replace" /\ Replaced!Next /\ Still("cacheVars")
  \/ scene = "restart" /\ Restarted!Next /\ Still("cacheVars")

MCSpec == MCInit /\ [][MCNext]_MCvars

ASSUME Serving!SessionAssumption /\ Failover!SessionAssumption /\ Refresh!SessionAssumption
ASSUME Purged!CacheAssumption /\ Replaced!CacheAssumption /\ Restarted!CacheAssumption

(* A client gets one response and the access log the status of that one,   *)
(* also when what an origin that was given up still answers comes after    *)
(* the next one was asked; only the holder of a ticket fills the cache,    *)
(* tickets have owners, and a refresh is settled however it ends.          *)
OneResponseEach ==
  /\ [](scene = "serving" => /\ Serving!TypeOK /\ Serving!OneResponse /\ Serving!TicketsHaveOwners
                             /\ Serving!StatusIsTheOneSent)
  /\ [](scene = "failover" => Failover!OneResponse /\ Failover!StatusIsTheOneSent)
  /\ [](scene = "refresh" => Refresh!TicketsHaveOwners /\ Refresh!RefreshIsSettled)
  /\ [][/\ scene = "serving" => Serving!HolderFills
        /\ scene = "failover" => Failover!HolderFills
        /\ scene = "refresh" => Refresh!HolderFills]_MCvars

(* What was purged stays purged, through fills under way, writes that      *)
(* fail, crashes and restarts; a key has one entry and newer content is    *)
(* never replaced by older.                                                *)
PurgedStaysPurged ==
  /\ [](scene = "purge" => /\ Purged!TypeOK /\ Purged!PurgedStaysPurged /\ Purged!DiskWithinLimit
                           /\ Purged!OneRunner)
  /\ [](scene = "replace" => Replaced!NoTwins)
  /\ [](scene = "restart" => Restarted!PurgedStaysPurged)
  /\ [][scene = "replace" => Replaced!KeepsNewerContent]_MCvars
=============================================================================
