-------------------------------- MODULE DDos --------------------------------
(***************************************************************************)
(* d-ddos: check_status_and_backup, which asks cgminer every 90 s for its  *)
(* pools and has it mine at a backup address while one of them is dead and *)
(* its domain cannot be reached.  d-ddos-m.sh starts it again when it ends.*)
(*                                                                         *)
(* One action for each call of cgminer's API and for the tries to reach    *)
(* every address, which take seconds each; cgminer may be restarted        *)
(* between any two.  The address in a pool's URL is the URL; users, ports  *)
(* and the encrypted list of the server are left out, and the list is one  *)
(* constant: which backups stand in for which domain.                      *)
(*                                                                         *)
(* exec_api_cmd returns a node of a tree it has deleted.  What is read     *)
(* there may still be the answer, may be no answer, or may end the process.*)
(*                                                                         *)
(* What cgminer says of a pool (its status) and whether its address takes  *)
(* a TCP connection are two things, and may differ.                        *)
(*                                                                         *)
(* External: cgminer and its API, the network, the server of the list.     *)
(***************************************************************************)
EXTENDS Integers, Sequences, FiniteSets, FiniteSetsExt

CONSTANTS
  Domains,      \* addresses of the miner's own pools
  BackupsOf,    \* of each domain, the backups in the order of the list
  Configs,      \* what cgminer may be started with: sequences of domains
  None,         \* the null pointer
  MaxPools,     \* bound: the pools cgminer takes
  MaxRestarts,  \* bound: restarts of cgminer
  MaxToggles,   \* bound: changes of an address ...
  Changing      \* bound: ... and the addresses that change

Backups == UNION {{BackupsOf[d][j] : j \in DOMAIN BackupsOf[d]} : d \in Domains}

ASSUME ListAssumption ==
  /\ IsFiniteSet(Domains)
  /\ DOMAIN BackupsOf = Domains /\ \A d \in Domains : BackupsOf[d] \in Seq(Backups)
  /\ Backups \cap Domains = {} /\ None \notin Backups
ASSUME BoundAssumption ==
  /\ MaxPools \in Nat /\ MaxRestarts \in Nat /\ MaxToggles \in Nat
  /\ Changing \subseteq Domains \cup Backups
ASSUME ConfigAssumption ==
  \A c \in Configs : c \in Seq(Domains) /\ c # <<>> /\ Len(c) <= MaxPools

VARIABLES
  pools,    \* cgminer's pools by number: address and priority
  dead,     \* the addresses whose pools are Dead to cgminer
  down,     \* the addresses that take no connection
  moved,    \* the addresses that changed while they were tried
  left,     \* history: backups that were left in cgminer's list, unremembered
  pc,       \* where check_status_and_backup is
  pool, ip, \* the globals: number and address of the backup added, -1 and None
  c_pools,  \* the pools as they were read
  reach,    \* the addresses that were found reachable
  next,     \* the place in the four nested loops
  restarts, toggles

memory == <<pool, ip, c_pools, reach, next>>
network == <<dead, down, moved, toggles>>
vars == <<pools, left, network, pc, memory, restarts>>

Started(config) == [n \in DOMAIN config |-> [url |-> config[n], Priority |-> n - 1]]

Init ==
  /\ \E c \in Configs : pools = Started(c)
  /\ dead = {} /\ down = {} /\ moved = {} /\ left = 0 /\ pc = "idle"
  /\ pool = -1 /\ ip = None /\ c_pools = <<>> /\ reach = {} /\ next = 0
  /\ restarts = 0 /\ toggles = 0

TypeOK ==
  /\ \A n \in DOMAIN pools :
       pools[n] \in [url : Domains \cup Backups, Priority : 0 .. Len(pools) - 1]
  /\ \A m, n \in DOMAIN pools : pools[m].Priority = pools[n].Priority => m = n
  /\ Len(pools) \in 1 .. MaxPools
  /\ {dead, down, moved, reach} \subseteq SUBSET (Domains \cup Backups)
  /\ left \in 0 .. MaxPools
  /\ pc \in {"idle", "reach", "remove", "reset", "again", "add", "prio", "dead"}
  /\ pool \in -1 .. MaxPools - 1 /\ ip \in Backups \cup {None}
  /\ pool = -1 <=> ip = None
  /\ next \in Nat /\ restarts \in 0 .. MaxRestarts /\ toggles \in 0 .. MaxToggles

-----------------------------------------------------------------------------
(* cgminer *)

Dead(url) == url \in dead

\* addpool: the last number and the last priority.
Added(url) == Append(pools, [url |-> url, Priority |-> Len(pools)])

\* removepool: numbers and priorities above move down.
Removed(n) ==
  [m \in 1 .. Len(pools) - 1 |->
     LET p == pools[IF m <= n THEN m ELSE m + 1]
     IN [p EXCEPT !.Priority = IF @ > pools[n + 1].Priority THEN @ - 1 ELSE @]]

\* It is refused for a number that is not there, for the only pool, and for the
\* one in use: the first that is not Dead, or any if all are.
InUse(n) ==
  \A m \in DOMAIN pools \ {n + 1} :
    \/ Dead(pools[m].url)
    \/ ~ Dead(pools[n + 1].url) /\ pools[n + 1].Priority < pools[m].Priority
MayRefuse(n) == n < Len(pools) /\ Len(pools) > 1 => InUse(n)

\* poolpriority: the pools named first, in that order, the others after them.
\* A list with a number that is not there, or twice, is refused.
Ordered(list) ==
  LET Named == {list[k] : k \in DOMAIN list}
      Place(n) == (CHOOSE k \in DOMAIN list : list[k] = n) - 1
      Before(n) == {m \in DOMAIN pools : m - 1 \notin Named
                                           /\ pools[m].Priority < pools[n + 1].Priority}
  IN IF Named \subseteq 0 .. Len(pools) - 1 /\ Cardinality(Named) = Len(list)
       THEN [n \in DOMAIN pools |-> [pools[n] EXCEPT !.Priority =
               IF n - 1 \in Named THEN Place(n - 1) ELSE Len(list) + Cardinality(Before(n - 1))]]
       ELSE pools

\* A restart, by the page or by monitorcg, is a start from the file.
CgminerRestarts(c) ==
  /\ restarts < MaxRestarts
  /\ restarts' = restarts + 1
  /\ pools' = Started(c) /\ left' = 0
  /\ UNCHANGED <<network, pc, memory>>

\* A pool's status or its address changes, or both: by attack, cut or recovery.
Flip(hosts, host) == IF host \in hosts THEN hosts \ {host} ELSE hosts \cup {host}
Toggle(host, what) ==
  /\ toggles < MaxToggles
  /\ toggles' = toggles + 1
  /\ dead' = IF "dead" \in what THEN Flip(dead, host) ELSE dead
  /\ down' = IF "down" \in what THEN Flip(down, host) ELSE down
  /\ moved' = IF "down" \in what /\ pc = "reach" THEN moved \cup {host} ELSE moved
  /\ UNCHANGED <<pools, left, pc, memory, restarts>>

-----------------------------------------------------------------------------
(* d-ddos *)

\* c_pools and d_b_list are freed at END.
ToEnd ==
  /\ pc' = "idle" /\ c_pools' = <<>> /\ reach' = {} /\ next' = 0

OneMoreLeft == Min({left + 1, MaxPools})

\* A null pointer followed: most answers of cgminer are used unseen.
Ends ==
  /\ pc' = "dead"
  /\ pool' = -1 /\ ip' = None /\ c_pools' = <<>> /\ reach' = {} /\ next' = 0
  /\ moved' = {}
  /\ UNCHANGED <<dead, down, toggles, restarts>>

\* The backup that was remembered is left.
Crash ==
  /\ Ends
  /\ left' = IF ip = None THEN left ELSE OneMoreLeft
  /\ UNCHANGED pools

\* split_server_string and get_pools_info; without a list the round is over.
GetPools ==
  /\ pc = "idle"
  /\ pc' = "reach"
  /\ c_pools' = [n \in DOMAIN pools |-> [url |-> pools[n].url, dead |-> Dead(pools[n].url),
                                         Priority |-> pools[n].Priority]]
  /\ UNCHANGED <<pools, left, network, pool, ip, reach, next, restarts>>

\* An answer that breaks off is parsed as if it were whole.
GetPoolsCrash == pc = "idle" /\ Crash

\* The node the first loop stops at: number pool, or the last.
ThisPool == c_pools[Min({pool + 1, Len(c_pools)})]

\* The pool found is the backup remembered; and it is the last one.
Found == ip # None /\ ThisPool.url = ip
FoundDead == Found /\ ThisPool.dead
Settled == Found /\ ~ ThisPool.dead /\ Len(c_pools) - 1 = pool

\* get_backup_struct has tried to reach every address, one after the other: one
\* that came or went meanwhile was found the one way or the other.  Then what to
\* do about the backup remembered.
GetBackups ==
  /\ pc = "reach"
  /\ \/ /\ FoundDead
        /\ pc' = "remove" /\ UNCHANGED <<pool, ip, c_pools, next>>
     \/ /\ ~ FoundDead /\ ~ Settled
        /\ pc' = "add" /\ next' = 0
        /\ pool' = -1 /\ ip' = None /\ UNCHANGED c_pools
     \/ /\ Settled
        /\ pc' = "idle" /\ c_pools' = <<>> /\ next' = 0 /\ UNCHANGED <<pool, ip>>
  /\ \E found \in SUBSET moved :
       reach' = IF pc' = "idle" THEN {} ELSE ((Domains \cup Backups) \ (down \cup moved)) \cup found
  /\ moved' = {}
  /\ UNCHANGED <<pools, left, dead, down, toggles, restarts>>

\* gethostbyname gives a null pointer for a name it cannot resolve.
GetBackupsCrash == pc = "reach" /\ Crash

\* Mutant: the address is not forgotten with the number.
RemovePoolKeepsIp ==
  /\ pc = "remove" /\ pool < Len(pools) /\ Len(pools) > 1
  /\ pc' = "reset"
  /\ pools' = Removed(pool)
  /\ pool' = -1
  /\ UNCHANGED <<left, network, ip, c_pools, reach, next, restarts>>

\* removepool by number.
RemovePool ==
  /\ pc = "remove" /\ pool < Len(pools) /\ Len(pools) > 1
  /\ pc' = "reset"
  /\ pools' = Removed(pool)
  /\ pool' = -1 /\ ip' = None
  /\ UNCHANGED <<left, network, c_pools, reach, next, restarts>>

\* What cgminer says to it is not looked at: the pool is forgotten all the same.
RemovePoolRefused ==
  /\ pc = "remove" /\ MayRefuse(pool)
  /\ pc' = "reset"
  /\ left' = OneMoreLeft
  /\ pool' = -1 /\ ip' = None
  /\ UNCHANGED <<pools, network, c_pools, reach, next, restarts>>

RemovePoolCrash == pc = "remove" /\ Crash

\* reset_priority names the number of pools, once for each: cgminer refuses.
ResetPriority ==
  /\ pc = "reset"
  /\ pc' = "again"
  /\ pools' = Ordered([k \in DOMAIN pools |-> Len(pools)])
  /\ UNCHANGED <<left, network, memory, restarts>>

ResetPriorityCrash == pc = "reset" /\ Crash

\* get_pools_info again, into a list that is not empty: its first node is hung
\* on a null pointer.  If cgminer does not answer, the old list stays.
GetPoolsAgain ==
  /\ pc = "again"
  /\ pc' = "add" /\ next' = 0
  /\ UNCHANGED <<pools, left, network, pool, ip, c_pools, reach, restarts>>

GetPoolsAgainCrash == pc = "again" /\ Crash

\* The loops over the pools and the backups of the area of each, in one count.
Wide == Max({Len(BackupsOf[d]) : d \in Domains})
PoolAt(m) == c_pools[(m \div Wide) + 1]

\* Mutant: only the first backup of the area is looked at.
Wanted_first(m) ==
  /\ PoolAt(m).dead /\ PoolAt(m).url \in Domains \ reach
  /\ m % Wide = 0
  /\ BackupsOf[PoolAt(m).url][1] \in reach

\* A dead pool whose domain was not reached, and a backup that was.
Wanted(m) ==
  /\ PoolAt(m).dead /\ PoolAt(m).url \in Domains \ reach
  /\ (m % Wide) + 1 \in DOMAIN BackupsOf[PoolAt(m).url]
  /\ BackupsOf[PoolAt(m).url][(m % Wide) + 1] \in reach
Rest == {m \in next .. Len(c_pools) * Wide - 1 : Wanted(m)}
BackupAt(m) == BackupsOf[PoolAt(m).url][(m % Wide) + 1]

NothingToAdd ==
  /\ pc = "add" /\ Rest = {}
  /\ ToEnd
  /\ UNCHANGED <<pools, left, network, pool, ip, restarts>>

\* addpool, of the next backup wanted: cgminer takes it, ...
Takes ==
  /\ pc = "add" /\ Rest # {} /\ Len(pools) < MaxPools
  /\ pools' = Added(BackupAt(Min(Rest)))

\* Mutant: no goto END after a pool is added; the loops go on.
AddPoolGoesOn ==
  /\ Takes
  /\ pool' = Len(pools) /\ ip' = BackupAt(Min(Rest))
  /\ next' = Min(Rest) + 1
  /\ UNCHANGED <<left, network, pc, c_pools, reach, restarts>>

\* ... and its number is read from the answer;
AddPool ==
  /\ Takes
  /\ pool' = Len(pools) /\ ip' = BackupAt(Min(Rest))
  /\ pc' = "prio" /\ next' = Min(Rest)
  /\ UNCHANGED <<left, network, c_pools, reach, restarts>>

\* or the freed node reads as no answer, and the loops go on;
AddPoolUnread ==
  /\ Takes
  /\ left' = OneMoreLeft
  /\ next' = Min(Rest) + 1
  /\ UNCHANGED <<network, pc, pool, ip, c_pools, reach, restarts>>

\* or reading it ends the process.
AddPoolTakenCrash == Takes /\ Ends /\ left' = OneMoreLeft

\* The bound: cgminer takes no more, and the loops go on.
AddPoolRefused ==
  /\ pc = "add" /\ Rest # {} /\ Len(pools) = MaxPools
  /\ next' = Min(Rest) + 1
  /\ UNCHANGED <<pools, left, network, pc, pool, ip, c_pools, reach, restarts>>

\* No answer, and no pool.
AddPoolCrash == pc = "add" /\ Rest # {} /\ Crash

\* Mutant: the numbers go on counting over the new pool's place.
PriorityList_counts(number, Priority) ==
  [k \in 1 .. number + 1 |-> IF k - 1 = Priority THEN number ELSE k - 1]

\* change_priority: the new pool in the place of the dead one, the others in the
\* order of their numbers.
PriorityList(number, Priority) ==
  [k \in 1 .. number + 1 |->
     IF k - 1 = Priority THEN number ELSE IF k - 1 < Priority THEN k - 1 ELSE k - 2]

ChangePriority ==
  /\ pc = "prio"
  /\ pools' = Ordered(PriorityList(pool, PoolAt(next).Priority))
  /\ ToEnd
  /\ UNCHANGED <<left, network, pool, ip, restarts>>

ChangePriorityCrash == pc = "prio" /\ Crash

\* d-ddos-m.sh
Restart ==
  /\ pc = "dead"
  /\ pc' = "idle"
  /\ UNCHANGED <<pools, left, network, memory, restarts>>

Answered ==
  \/ GetPools \/ GetBackups \/ RemovePool \/ RemovePoolRefused \/ ResetPriority
  \/ GetPoolsAgain \/ NothingToAdd \/ AddPool \/ AddPoolUnread \/ AddPoolRefused
  \/ ChangePriority
Crashes ==
  \/ GetPoolsCrash \/ GetBackupsCrash \/ RemovePoolCrash \/ ResetPriorityCrash
  \/ GetPoolsAgainCrash \/ AddPoolTakenCrash \/ AddPoolCrash \/ ChangePriorityCrash

Next ==
  \/ Answered \/ Crashes \/ Restart
  \/ (\E c \in Configs : CgminerRestarts(c))
  \/ (\E h \in Changing, what \in (SUBSET {"dead", "down"}) \ {{}} : Toggle(h, what))

Spec == Init /\ [][Next]_vars

\* The process is scheduled and d-ddos-m.sh starts it.  cgminer answers and the
\* resolver resolves now and then; of the pools that d-ddos asks cgminer to add,
\* it takes one now and then, whatever d-ddos then reads of the answer.
Fairness ==
  /\ WF_vars(Answered \/ Crashes) /\ WF_vars(Restart)
  /\ SF_vars(GetPools) /\ SF_vars(GetBackups)
  /\ SF_vars(AddPool \/ AddPoolUnread \/ AddPoolTakenCrash)
FairSpec == Spec /\ Fairness

-----------------------------------------------------------------------------
\* cgminer has one backup more at most than were left in its list since it was
\* started: one by each process that ended and remembered it, by each answer to
\* addpool that was not read, by each removal that was refused.  Else a process
\* adds none before it has removed the one it has.
BackupsCounted == Cardinality({n \in DOMAIN pools : pools[n].url \in Backups}) <= left + 1

\* cgminer has the pools that were read, each at the place of its number, and
\* the new one after them.
AsRead ==
  /\ Len(pools) = Len(c_pools) + 1 /\ pool = Len(c_pools)
  /\ \A n \in DOMAIN c_pools :
       /\ c_pools[n].url = pools[n].url
       /\ c_pools[n].Priority = n - 1 /\ pools[n].Priority = n - 1

\* The backup comes to stand right before the pool it stands in for, and no two
\* others change their order: as long as cgminer has the pools that were read
\* before the addresses were tried, and in the order of their numbers.
StandsIn ==
  [][(pc = "prio" /\ pc' = "idle") => (AsRead =>
       /\ pools'[pool + 1].Priority + 1 = pools'[(next \div Wide) + 1].Priority
       /\ \A m, n \in 1 .. pool :
            pools[m].Priority < pools[n].Priority => pools'[m].Priority < pools'[n].Priority)]_vars

\* Let one of cgminer's pools stay Dead and its domain unreachable, and a backup
\* of it stay alive and reachable, while no backup takes connections that is Dead
\* to cgminer.  Then cgminer comes to keep some backup that is alive, if not one
\* of this domain; or its list is full, which is a bound: through crashes,
\* removals and answers that are not read.
Backed ==
  \A d \in Domains :
    <>[](/\ d \in dead \cap down /\ \E n \in DOMAIN pools : pools[n].url = d
         /\ \E j \in DOMAIN BackupsOf[d] : BackupsOf[d][j] \notin dead \cup down
         /\ Backups \cap dead \subseteq down)
      => <>[](\/ \E n \in DOMAIN pools : pools[n].url \in Backups \ dead
              \/ Len(pools) = MaxPools)
=============================================================================
