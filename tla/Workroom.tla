------------------------------ MODULE Workroom -------------------------------
(***************************************************************************)
(* The network of the workroom, the container in which hired work runs     *)
(* (workroom/entrypoint.sh, dns-refresh.sh, derive-policy.sh and           *)
(* policy-parser.sh; packages/arc402-cli/src/commands/workroom.ts): the    *)
(* hosts of the policy file are resolved, all other output is dropped, and *)
(* loops resolve the hosts again and rebuild the rules.                    *)
(*                                                                         *)
(* A rule is "core" (loopback, established connections, DNS), "gateway"    *)
(* (the agent runtime on the host) or the address of a host.  All rules    *)
(* accept, so their order does not matter.  A host has one address at a    *)
(* time; iptables refuses one of IPv6.  The workroom was initialised:      *)
(* there is a policy file and an image.  A container that ends without     *)
(* workroom stop is started again with an empty chain and without its      *)
(* other processes.  derive-policy.sh adds hosts only if the owner's agent *)
(* configuration is mounted where entrypoint.sh looks for it, which        *)
(* workroom start does not do: ProviderHosts is {} then.                   *)
(***************************************************************************)
EXTENDS Integers

CONSTANTS
  PolicyHosts, ArenaHosts,   \* hosts the policy may name, and those of the arena policy
  ProviderHosts,             \* of those, what derive-policy.sh may add
  Addresses, Refused,        \* all addresses, and those iptables refuses
  Unresolved,
  Loops, Entry,              \* refresh loops, and the one of the entrypoint
  MaxChanges                 \* bound: changes of the policy and of addresses

ASSUME WorkroomAssumption ==
  /\ ProviderHosts \subseteq PolicyHosts /\ PolicyHosts \cap ArenaHosts = {}
  /\ Refused \subseteq Addresses /\ Unresolved \notin Addresses
  /\ {"core", "gateway"} \cap Addresses = {}
  /\ Entry \in Loops /\ "entrypoint" \notin Loops /\ MaxChanges \in Nat

VARIABLES
  policy,      \* the hosts in workroom-policy.yaml
  address,     \* what a host resolves to
  changes,     \* changes of these two
  container,
  toResolve,   \* hosts the entrypoint still resolves
  resolved,    \* RESOLVED_IPS; once the chain is flushed, the rules still to come
  drop,        \* whether the default of the OUTPUT chain is DROP
  rules,       \* the OUTPUT chain
  loop,        \* each refresh loop and the hosts it still resolves
  flusher,     \* who flushed the chain last: a loop, or "entrypoint"
  stale,       \* who began to resolve before the last change
  mixed        \* another was adding rules when the chain was flushed

outside == <<policy, address, changes>>
resolving == <<toResolve, resolved>>
flushed == <<flusher, mixed>>
workroomVars == <<outside, container, resolving, drop, rules, loop, flushed, stale>>

Hosts == PolicyHosts \cup ArenaHosts
Resolvers == Loops \cup {"entrypoint"}
NoLoop == [at |-> "none", hosts |-> {}]

WorkroomInit ==
  /\ policy \in SUBSET PolicyHosts
  /\ address \in [Hosts -> Addresses \ Refused]
  /\ changes = 0
  /\ container = "off"
  /\ toResolve = {} /\ resolved = {}
  /\ drop = FALSE /\ rules = {}
  /\ loop = [l \in Loops |-> NoLoop]
  /\ flusher = "entrypoint" /\ stale = {} /\ mixed = FALSE

Refreshing(l) == loop[l].at = "refreshing"

-----------------------------------------------------------------------------
(* The container starts with a new network.  derive-policy.sh adds hosts to *)
(* the policy and may fail after any of them.                               *)
Enter ==
  /\ container' = "resolving"
  /\ \E hosts \in SUBSET ProviderHosts : policy' = policy \cup hosts
  /\ toResolve' = policy' \cup ArenaHosts
  /\ resolved' = {}
  /\ drop' = FALSE /\ rules' = {}
  /\ loop' = [l \in Loops |-> NoLoop]
  /\ flusher' = "entrypoint" /\ stale' = {} /\ mixed' = FALSE
  /\ UNCHANGED <<address, changes>>

(* workroom start *)
StartWorkroom ==
  /\ container = "off"
  /\ Enter

(* The entrypoint resolves one host; one without an address is skipped.     *)
ResolveHost(h) ==
  /\ container = "resolving" /\ h \in toResolve
  /\ toResolve' = toResolve \ {h}
  /\ resolved' = resolved \cup ({address[h]} \ {Unresolved})
  /\ UNCHANGED <<outside, container, drop, rules, loop, flushed, stale>>

(* The entrypoint flushes the chain; the rules for the gateway and for what *)
(* it resolved are still to come.                                           *)
FlushRules ==
  /\ container = "resolving" /\ toResolve = {}
  /\ container' = "applying"
  /\ drop' = TRUE
  /\ rules' = {"core"}
  /\ resolved' = {"gateway"} \cup resolved
  /\ flusher' = "entrypoint"
  /\ mixed' = \E l \in Loops : Refreshing(l)
  /\ UNCHANGED <<outside, toResolve, loop, stale>>

(* It adds the next rule, to whatever is in the chain by then.  One that    *)
(* iptables refuses ends it (RestartWorkroom).                              *)
AddRule(r) ==
  /\ container = "applying" /\ r \in resolved \ Refused
  /\ "gateway" \in resolved => r = "gateway"
  /\ rules' = rules \cup {r}
  /\ resolved' = resolved \ {r}
  /\ UNCHANGED <<outside, container, toResolve, drop, loop, flushed, stale>>

(* The first loop and the daemon are started.                               *)
StartDaemon ==
  /\ container = "applying" /\ resolved = {}
  /\ container' = "up"
  /\ loop' = [loop EXCEPT ![Entry] = [at |-> "sleeping", hosts |-> {}]]
  /\ UNCHANGED <<outside, resolving, drop, rules, flushed, stale>>

(* The entrypoint or the daemon ends.                                       *)
RestartWorkroom ==
  /\ container # "off"
  /\ Enter

(* workroom stop *)
StopWorkroom ==
  /\ container # "off"
  /\ container' = "off"
  /\ drop' = FALSE /\ rules' = {}
  /\ loop' = [l \in Loops |-> NoLoop]
  /\ UNCHANGED <<outside, resolving, flushed, stale>>

(* workroom policy-reload starts one more loop, which sleeps first.         *)
PolicyReload(l) ==
  /\ container # "off" /\ l # Entry /\ loop[l].at = "none"
  /\ loop' = [loop EXCEPT ![l] = [at |-> "sleeping", hosts |-> {}]]
  /\ UNCHANGED <<outside, container, resolving, drop, rules, flushed, stale>>

-----------------------------------------------------------------------------
(* Faulty variant: the rules are added to those that are there.             *)
Refresh_NoFlush(l) ==
  /\ loop[l].at = "sleeping"
  /\ rules' = rules \cup {"core"}
  /\ loop' = [loop EXCEPT ![l] = [at |-> "refreshing", hosts |-> policy]]
  /\ flusher' = l /\ stale' = stale \ {l}
  /\ mixed' = (container = "applying" \/ \E m \in Loops \ {l} : Refreshing(m))
  /\ UNCHANGED <<outside, container, resolving, drop>>

(* A loop wakes up, flushes the chain and reads the policy file.            *)
Refresh(l) ==
  /\ loop[l].at = "sleeping"
  /\ rules' = {"core"}
  /\ loop' = [loop EXCEPT ![l] = [at |-> "refreshing", hosts |-> policy]]
  /\ flusher' = l /\ stale' = stale \ {l}
  /\ mixed' = (container = "applying" \/ \E m \in Loops \ {l} : Refreshing(m))
  /\ UNCHANGED <<outside, container, resolving, drop>>

(* Faulty variant: a host without an address ends the refresh.              *)
RefreshHost_LastResolved(l, h) ==
  /\ Refreshing(l) /\ h \in loop[l].hosts
  /\ IF address[h] = Unresolved
     THEN UNCHANGED rules /\ loop' = [loop EXCEPT ![l].hosts = {}]
     ELSE rules' = rules \cup {address[h]} /\ loop' = [loop EXCEPT ![l].hosts = @ \ {h}]
  /\ UNCHANGED <<outside, container, resolving, drop, flushed, stale>>

(* The next host, one without an address skipped.  A rule that iptables     *)
(* refuses ends the loop for good (set -e).                                 *)
RefreshHost(l, h) ==
  /\ Refreshing(l) /\ h \in loop[l].hosts
  /\ CASE address[h] = Unresolved ->
            UNCHANGED rules /\ loop' = [loop EXCEPT ![l].hosts = @ \ {h}]
       [] address[h] \in Refused ->
            UNCHANGED rules /\ loop' = [loop EXCEPT ![l].at = "dead"]
       [] OTHER ->
            rules' = rules \cup {address[h]} /\ loop' = [loop EXCEPT ![l].hosts = @ \ {h}]
  /\ UNCHANGED <<outside, container, resolving, drop, flushed, stale>>

RefreshDone(l) ==
  /\ Refreshing(l) /\ loop[l].hosts = {}
  /\ loop' = [loop EXCEPT ![l].at = "sleeping"]
  /\ UNCHANGED <<outside, container, resolving, drop, rules, flushed, stale>>

-----------------------------------------------------------------------------
(* The owner edits the policy file.                                         *)
EditPolicy(h) ==
  /\ changes < MaxChanges
  /\ policy' = IF h \in policy THEN policy \ {h} ELSE policy \cup {h}
  /\ changes' = changes + 1 /\ stale' = Resolvers
  /\ UNCHANGED <<address, container, resolving, drop, rules, loop, flushed>>

(* A host moves, or cannot be resolved for a while.                         *)
MoveHost(h, a) ==
  /\ changes < MaxChanges /\ a # address[h]
  /\ address' = [address EXCEPT ![h] = a]
  /\ changes' = changes + 1 /\ stale' = Resolvers
  /\ UNCHANGED <<policy, container, resolving, drop, rules, loop, flushed>>

WorkroomNext ==
  \/ StartWorkroom \/ FlushRules \/ StartDaemon \/ RestartWorkroom \/ StopWorkroom
  \/ \E r \in {"gateway"} \cup Addresses : AddRule(r)
  \/ \E h \in Hosts :
       ResolveHost(h) \/ \E a \in Addresses \cup {Unresolved} : MoveHost(h, a)
  \/ \E h \in PolicyHosts : EditPolicy(h)
  \/ \E l \in Loops :
       \/ PolicyReload(l) \/ Refresh(l) \/ RefreshDone(l)
       \/ \E h \in PolicyHosts : RefreshHost(l, h)

WorkroomSpec == WorkroomInit /\ [][WorkroomNext]_workroomVars

-----------------------------------------------------------------------------
WorkroomTypeOK ==
  /\ policy \subseteq PolicyHosts
  /\ address \in [Hosts -> Addresses \cup {Unresolved}]
  /\ changes \in 0..MaxChanges /\ container \in {"off", "resolving", "applying", "up"}
  /\ toResolve \subseteq Hosts /\ resolved \subseteq {"gateway"} \cup Addresses
  /\ rules \subseteq {"core", "gateway"} \cup Addresses
  /\ loop \in [Loops -> [at : {"none", "sleeping", "refreshing", "dead"}, hosts : SUBSET PolicyHosts]]
  /\ flusher \in Resolvers /\ stale \subseteq Resolvers /\ {drop, mixed} \subseteq BOOLEAN

AddressesOf(hosts) == {address[h] : h \in hosts} \ {Unresolved}

(* No loop is at work, and the one that flushed the chain came to its end.  *)
Rebuilt ==
  /\ \A l \in Loops : ~Refreshing(l)
  /\ flusher \in Loops => loop[flusher].at = "sleeping"

(* While the daemon runs, what no rule accepts is dropped; and whenever the *)
(* chain has been rebuilt and nothing changed meanwhile, every host of the  *)
(* policy can be reached and nothing else, whatever loops died before.      *)
(* (Loops that overlap may leave the address of a host just taken out of    *)
(* the policy, a loop that flushes while the entrypoint adds its rules the  *)
(* last of them; and only the entrypoint allows the gateway and the arena.) *)
NetworkAsPolicy ==
  container = "up" =>
    /\ drop
    /\ Rebuilt /\ flusher \notin stale =>
         /\ {"core"} \cup AddressesOf(policy) \subseteq rules
         /\ ~mixed => rules = IF flusher = "entrypoint"
                              THEN {"core", "gateway"} \cup AddressesOf(policy \cup ArenaHosts)
                              ELSE {"core"} \cup AddressesOf(policy)

(* entrypoint.sh opens the host gateway and says "This allows the worker    *)
(* executor to route agent tasks to the host gateway": it stays reachable   *)
(* whenever the chain has been rebuilt.  Fails: the first refresh takes its *)
(* rule away.                                                               *)
GatewayReachable == container = "up" /\ Rebuilt => "gateway" \in rules
=============================================================================
