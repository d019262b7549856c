# A TLA+ verification of Dockerwall

Dockerwall is a firewall daemon for containers. It drops what leaves a managed
network, answers the network's DNS queries through a proxy, and opens, in an
`ipset` that the network's `iptables` rules refer to, the addresses that allowed
domains resolve to. This directory models the parts of it that keep state,
model-checks them on small instances with TLC, and proves the central
properties for all instances with TLAPS.

## Inventory

| Part | State | Operations | Interacts with |
|---|---|---|---|
| policy table (`state.rs`) | `STATE`: name → patterns, addresses, behind a lock | `apply_resolved_ips`, `is_domain_accepted_by_network`, insert, remove | proxy, control commands, statistics |
| ipset updates (`ipset.rs`) | a child process per update; the kernel's sets | `update_ipset`: flush both sets, add every address | proxy, kernel |
| DNS proxy (`proxy.rs`) | two levels of semaphores; a task per query | receive, admit, forward, inspect, update, reply | clients, upstream server, table, statistics, ipset |
| control socket (`control.rs`, `manage.rs`) | the file `/run/dockerwall.sock` | `CREATE`, `REMOVE`, `STATS`, `INFO` | table, registry of networks |
| statistics (`stats.rs`) | `STATS`, `NETWORK_REGISTRY`, `SUBNET_TO_ID`, `NEXT_NETWORK_ID` | `register_network`, `record_resolve`, `get_stats_report` | proxy, control, table |
| Docker preparation (`helper.rs`) | ipsets, Docker networks, chain `DOCKER-USER`, nat table | `prepare_docker_network` and what it calls | daemon (`INFO`, `CREATE`), Docker, kernel |
| rootless Podman preparation (`helper.rs`) | ipsets, host addresses, chain `DOCKERWALL-OUTPUT` | `prepare_rootless_podman_network` and what it calls | daemon, kernel |
| daemon (`daemon.rs`) | two tasks: control socket, DNS socket | `run_daemon` | all of the above |
| address arithmetic (`helper.rs`, `stats.rs`, `proxy.rs`) | none | `subnet_and_gateway`, `rootless_podman_source_ip`, `ip_in_subnet`, `is_local_ip` | |
| command line, `resolv.conf`, trusted binaries (`main.rs`, `cli.rs`, `trust.rs`) | none | dispatch, look-ups | |

What is hard about it, in the order of importance:

* **Snapshots.** A DNS task changes the table under its lock, releases the lock
  and then pushes a snapshot of the addresses with a process that flushes the
  set first. Other tasks, `CREATE`, `REMOVE`, preparations and a restart of the
  daemon run in between.
* **Partial failure.** An `ipset restore` can stop after any line; the error is
  only logged. A preparation can stop after any command and is retried with
  another subnet. Nothing is rolled back.
* **Crashes.** The kernel's sets and rules and the child processes survive the
  daemon; its tables do not.
* **Shared chains.** Preparations insert rules at fixed positions into a chain
  they share, without a lock.
* **Backpressure.** Two levels of permits, the outer one held while the inner
  one is waited for.
* **Checks before use.** A rootless preparation looks for a free source address
  and takes it many commands later; a daemon looks for a socket file and then
  removes it; a preparation asks for the DNS port, sets the network up and then
  talks to whichever daemon has the socket by that time.
* **Readiness.** The control socket answers before the DNS socket is bound, and
  a preparation for Podman starts a daemon and waits for it.
* **Three locks in a row** in `record_resolve`, with a time read before them.

What makes the parts correct: only authorised addresses are ever open; what is
authorised and resolved gets open and stays so; every query ends; permits are
neither lost nor duplicated; statistics lose no entry and keep their bound; the
rules of a prepared network or policy decide its traffic; a daemon that is alone
can be commanded, and a policy is served where the rules lead. `PROJECT.json` lists the hazards
one by one, at the lines where they bite, with the properties that cover them.

## Modules

| Module | Models | Rests on |
|---|---|---|
| `Network` | the shared vocabulary: names, patterns, domains, responses | |
| `PolicyState` | `state.rs`, and the table updates of `control.rs` | `Network` |
| `Ipset` | the kernel's sets as the code drives them | `Network` |
| `DefaultDeny` | abstract: what the firewall promises | `Network` |
| `Enforcement` | DNS tasks, `ipset restore` children, commands, the set and policy steps of preparations, kill and restart | `PolicyState`, `Ipset`, `DefaultDeny` |
| `Admission` | abstract: what admission control promises | |
| `DnsProxy` | admission control of `run_dns_proxy` | `Admission` |
| `Stats` | `stats.rs` with the commands that feed it | `PolicyState` |
| `DomainMatch` | `domain_matches_pattern` on strings, and a reference by labels | |
| `SubnetMatch` | `ip_in_subnet`, and a reference by blocks of addresses | |
| `Addressing` | `subnet_and_gateway`, `rootless_podman_source_ip` and its IPv6 form, `is_local_ip` | |
| `AddressCases` | what these compute, on chosen inputs | `Addressing` |
| `Iptables` | a chain of rules as the code drives it | |
| `DockerPrepare` | `prepare_docker_network` and everything it calls | `Iptables` |
| `RootlessPrepare` | `prepare_rootless_podman_network` and everything it calls | `Iptables`, `Addressing` |
| `DaemonLifecycle` | `run_daemon`, the control socket, and the commands as its clients | |
| `EnforcementProofs`, `DnsProxyProofs`, `StatsProofs`, `DaemonLifecycleProofs`, `DockerPrepareProofs`, `RootlessPrepareProofs`, `AddressCasesProofs` | theorems about the module of that name | |
| `IptablesProofs` | lemmas about chains of rules of any length | `Iptables` |
| `MC*` | instances for TLC | |

Definitions keep the names of the code; the `map` of `PROJECT.json` gives the
lines of each. Definitions whose comment starts with "Variant with a fault" are
wrong on purpose: each replaces one definition to show that a property fails
when the code has that fault. No action uses them.

### State and code

**Enforcement.** `state` is `STATE`; `kset` maps a name and a family to the
entries of the kernel set and is undefined where no set exists; `referenced`
holds the sets that rules match against, which cannot be destroyed. A task goes
through `inspect` (the section of `inspect_and_update_state` under the lock),
`update` (choosing the next changed set), `restore` (waiting for the child) and
`reply`. `child` is the process, with the line of its payload it is at. An
`orphan` is a child whose daemon was killed. `prep` is the progress of a
`prepare-network` command for a name; attempts that fail start over.
`granted` is a history variable: the union of the patterns every `CREATE` gave a
name. Whether two responses or policies differ is kept; how they are encoded is
not. A response that does not parse, or one with no address, is a response
without answers. Responses are whatever `Responses` contains: that includes
answers to another question than the one asked, because the code accepts any
datagram that reaches its upstream socket.

**DnsProxy.** `limits` is `PER_IP_LIMITS` with the permits left, `queue` the
FIFO of tokio's semaphore, which hands a released permit to the first waiter. A
task's `ret` is its return, on any path; its locals are dropped in reverse order
of declaration, the client's permit before the global one.

**Stats.** Each lock section of `record_resolve` is one action; `rec` holds the
locals that live across them. `CREATE` registers the subnet and then replaces
the policy in a separate lock section. The report is read under both locks and
is a set of operators on the state.

**DockerPrepare.** Each external command is one action, so kills and other
processes come between any two. `chain` has the rules of `DOCKER-USER` and of
nat `PREROUTING`; `Passes` reads the verdict for a new connection off the first
matching rule. Established connections are accepted by a rule of their own and
are not followed. `docker network rm` may be refused at any time, because
containers may be attached at any time. The port of the daemon is part of the
gateway in the plan: both only matter as the target of the redirection.
`firewalled` is a history variable: existing networks whose six rules were all
inserted. A deletion that fails while copies of the rule are there, as `iptables`
does when somebody holds its lock (`"xtables-lock"` in `Faults`), ends the
deletion loop like any other failure (`helper.rs:1156`), and the insertion
follows; `leftover`, history too, has the rules that this happened to last.

**RootlessPrepare.** As in `DockerPrepare`, a command is an action. `proc` has
the locals of each process: the rules it read (`taken`), the attempt it is at,
the addresses it chose. `addrs` are the addresses on the host; source addresses
are offsets in 198.18.0.0/15, or a prefix and a host part. `chain` has nat and
filter chains of both families, the latter marked with a 6; the chains of
Dockerwall exist only once created. A rule keeps what tells it from others for
`iptables -D`: kind and name (its comment), source, and port or interface. Which
port the daemon reports and which interface is chosen is `Environments`: the
daemon's side is in `DaemonLifecycle`. `Passes` follows a new connection of a
source through the hook in `OUTPUT` and the own chain. `last`, `started`,
`faults` and `overlapped` are history; `single` in `proc` tells that no other
preparation of the same name ran at the same time.

**DaemonLifecycle.** `sock` is the daemon that bound the file at the path of the
socket: connecting fails if there is none, or if that daemon's listener is
closed. `ctl` and `dns` are the two tasks of a daemon, step by step: the look at
the path, the removal, the bind, the change of mode, the loop; the bind of the
DNS port, the loop. A client asks for the port (`info`), starts a daemon
(`spawn`), sets the network up (`setup`) and sends its policy (`create`), each
request separate from its answer. A daemon is started by hand (`start_by_hand`)
whatever runs and whatever is under way, since neither `main.rs` nor `control.rs`
looks for another one; the question for the port fails at once when nobody
listens, so a preparation for Podman that comes too early starts a second daemon
beside one that is just starting. `alone` is history: the daemons beside which no
other ever ran. `asked` and `mine` in a client are history too: the daemon whose
port it has, and the daemon it started. What is left of time is in three guards,
which `"slow"` in `Faults` takes away: the last of the fifty attempts comes when
the client's daemon is up or gone (five seconds), a daemon that listens answers
`INFO` within a second, and a network takes longer to set up than the daemon
needs to try its DNS port. No run has `"slow"`.

## Runs

Runs that pass:

| Run | Instance | Shows |
|---|---|---|
| `enforce_faults` | one network, two tasks, three responses, one policy, all faults | types, among them that a child is waited for while its daemon lives; refinement of `DefaultDeny`; `EveryTaskEnds` |
| `enforce_serial` | two networks, one of them never prepared, one task, all commands and preparations, no faults | `OnlyAuthorisedAddresses`, `NoMissingAddress`, `FlushPutsBack`, `EventuallyInstalled` |
| `proxy` | five tasks, four global permits, two per client | `PermitsConserved`, `WaitsOnlyForItself`, refinement of `Admission`, `AdmittedQueryEnds` |
| `stats` | two networks, two subnets, two tasks, one entry of room, three recordings, time to 2, TTL 2 | `RegistryConsistent`, `ReportComplete`, `EntriesBounded`, `OnlyOldEntriesExpire` |
| `docker_prepare` | three preparations in a row of two networks with colliding plans, two attempts each, three failures, kills and deletions that break off | `FirewallHolds`, `DnsGoesToGateway`, `NoDuplicateRule` |
| `rootless_prepare` | three preparations, two at a time, of two policies with the same hash, two ports and interfaces, one fault | `RootlessFirewall`, `SharedOnlyByOverlap`, `DnsReachesDaemon`, `AddressKept` |
| `daemon_start` | two preparations by a Docker and a Podman client, one daemon started by hand at any time, two ports, kills, the default port free or not | `LoneDaemonReachable`, `PolicyServed`, `GivesUpForCause`, `PreparationEnds` |
| `algorithms` | strings over `a A . *` up to lengths 5 and 4; addresses of 4 and 6 bits; slots of gateways and sources as in the code | `MatchesWholeLabels`, `SubnetIsBlock`, `GatewayIsHost`, `SourceIsServed`, `SearchIsComplete` |

Why the bounds are enough: two tasks are the smallest number that race, and a
task is reused without limit; two networks are what a leak needs; the three
responses are one for each of the two allowed domains, of both address
families, and one for a domain that is not allowed. Five tasks exceed both the
global and the per-client limit. Room for one entry makes the table full with
two keys. Three preparations let a network lose its subnet to another and get
it back. Nothing in `Enforcement` and `DnsProxy` is bounded but the sets
themselves; `Stats` bounds the clock (`MaxTime`), the recordings
(`MaxResolves`) and the commands in flight (`MaxPending`); `DockerPrepare`
bounds the preparations (`MaxPreparations`), the attempts (`MaxAttempts`, 50
in the code) and the faults (`MaxFaults`: one to break off a deletion, two to
fail or kill what follows). `enforce_faults` has one policy, so that a liveness
property can be checked beside two tasks and all faults; policies that change
are in `enforce_serial`.

`RootlessPrepare` bounds the preparations (`MaxPreparations`), the faults
(`MaxFaults`) and where a process may be while others move (`Interleaved`): two
processes overlap while one has read the rules and looks for a free address, and
when it has chosen its addresses and not yet taken them, which is where the
search races, and not while one installs its sets and rules. That second race is the one `docker_concurrent` shows for the
other chain. Three preparations let a policy be prepared, disturbed and prepared
again; four source slots, one of them taken, make the search of two policies
with the same hash meet occupied addresses and wrap. `DaemonLifecycle` bounds the
preparations, the daemons started by hand (`MaxByHand`) and the attempts of a
client (`MaxPolls`, 50 in the code). Two preparations of one name and one daemon
by hand make up to three daemons, which may run beside each other, find each
other's files, or come one after another; there are as many processes as that,
so that one is always free, which `PreparationEnds` confirms: no client is stuck
before it starts one. In `algorithms`, narrow addresses have every
relation of a length to the width. The addresses of names are numbered as in the
code: gateways are tried for every slot, source addresses at the ends of the
range and where an octet changes, and for all hashes there are theorems.

Deadlock is not checked where commands are bounded and the system stops when
nobody asks for more (`DockerPrepare`, `RootlessPrepare`, and `DaemonLifecycle`
once every daemon has ended) or where inputs are
enumerated (`algorithms`). Symmetry is used for tasks, processes and networks
that start alike, and in no run with a liveness property.

Fairness: `FairSpec` of `Enforcement` and of `DnsProxy` is weak fairness of each
task's own steps. The tokio runtime polls tasks that are ready, the wait for the
upstream server has a time-out of five seconds, and `ipset` processes end.
Arrivals, commands, failures and kills have no fairness. `DaemonLifecycle` has
weak fairness of the two tasks of a daemon and of each client: a process that
can go on does. Nobody has to start or kill one.

Runs that show where the code and a sentence about it part (`findings` quotes
the lines):

* `lost_update`: with two tasks, `NoMissingAddress` fails. The restore with the
  older snapshot runs last and removes an address that the table lists, and since
  only growth is pushed it stays blocked. `enforce_serial` shows that nothing
  else causes this.
* `proxy_monopoly`: a client's waiting queries hold global permits, so one
  client can take them all.
* `docker_concurrent`: while one preparation has the shared `established` rule
  deleted, the drop rule of another is inserted one position too low, behind
  `RETURN`, and stays there. `docker_prepare` shows that this takes two
  preparations at the same time.
* `daemon_race`: two Podman preparations that find no daemon both start one. One
  of the two daemons gets the DNS port; the other removes the first one's socket,
  or makes its control task fail, and exits. The daemon that serves DNS cannot be
  commanded from then on. It takes no second preparation: a daemon started by
  hand beside a running one does the same, and so does one preparation for
  Podman right after `dockerwall daemon &`, as in the quick start of the
  repository's README. `daemon_start` has these cases; it shows that a daemon
  beside which no other ran is always reachable, and that a preparation then
  gives up for two reasons only, a kill and a foreign program on its port.

Met while modelling, without a run of their own:

* After a restart no answer is injected for networks prepared before it, since
  the table is empty (`state.rs:12`); the report calls them "still fully
  functional" (`stats.rs:185`).
* After a change of policy the last verdict of an entry stands for its whole
  count (`stats.rs:105`).
* A policy that was prepared with another port and is prepared again with port 53
  keeps the redirection to the old port (`helper.rs:938`); `DnsReachesDaemon`
  excludes port 53.
* Two rootless preparations at once can take the same source address
  (`helper.rs:289`). Their two policies are then one: `RootlessFirewall` and
  `DnsReachesDaemon` ask for an address of one's own, `SharedOnlyByOverlap` shows
  that nothing else makes two policies share one.

## Theorems

All are proved for every value of the constants under the assumptions named in
the modules (patterns, domains and responses of the right shape; positive
limits; finite sets of tasks and of subnets; a plan for every attempt at a
name; slots that fit their ranges, 14 hosts into a subnet of 16 addresses and
131 069 sources into 198.18.0.0/15; foreign addresses among the source addresses, and `None` not an address),
and under the hypotheses named here. The invariants that make a property
inductive are at the start of the `Proofs` modules, in TLA+ that TLC can evaluate
too; each was checked on the bounds of its run before it was proved.

* `EnforcementProofs!TypeCorrect`: `TypeOK` is inductive as it stands.
* `EnforcementProofs!Invariance` and `AuthorisedOnly`: `OnlyAuthorisedAddresses`
  is about the kernel's sets alone and is not inductive, since a step adds what
  a payload contains, and a payload comes from a snapshot, which comes from the
  table. `IInv` says the same of each: `TableAuthorised`,
  `SnapshotsAuthorised`, `PayloadsAuthorised`, `SetsAuthorised`, and that the
  responses being handled are genuine. The reason it holds is that `granted`
  only grows and `Reachable` is monotone, so no snapshot becomes unauthorised
  by being old; the proof has one step per action.
* `EnforcementProofs!Refinement`: under `IInv` every step is a step of
  `DefaultDeny` under the mapping `allowed[n] = KernelIps(n)`, or a stutter: an
  added entry is `Open`, a flushed, destroyed or swapped set is `Close`, a
  `CREATE` is `Grant`.
* `EnforcementProofs!NothingMissing`: `NoMissingAddress` under the hypothesis
  `Serial`, one task and no faults. The run `lost_update` shows that the first
  part is needed; a failed `ipset` command or a killed daemon loses addresses at
  once. The invariant `PushInv` follows an address on its way: what the table
  lists is in the snapshot still to be pushed, or in what the child has still to
  add together with what it has added since its flush, or in the kernel. It says
  so only of networks that have both sets and are not being prepared; a
  preparation ends by emptying the table entry, which is why it may destroy the
  sets under a running child.
* `EnforcementProofs!GapIsClosed`: the action property `FlushPutsBack` under the
  same hypothesis. Every update flushes both sets first, so listed addresses do
  leave the kernel for a moment. Lemma `OnlyFlushTakes` goes through the actions
  and leaves the flush of a child of that network as the only one that takes an
  address from a network at rest; `PushInv` says that this child has it to add.
* `DnsProxyProofs!ProxyInvariance`, `ProxyTypes`, `PermitConservation`,
  `NoForeignWait`: the permits left and the holders add up. The invariant needs
  the queues to hold exactly the waiting tasks, each once (so that a handover is
  to one waiting task of the same client), every task in progress to serve a
  client with a semaphore, and nobody to wait while a permit is free.
* `DnsProxyProofs!AdmissionImplemented`: every step is a step of `Admission` or a
  stutter. `Admission` knows no permits: `inside` is `Busy`, `fresh` the spawned
  tasks with their clients, `serving` the holders of each client, `waiting` the
  queues. Its guards count queries where the code counts permits, which is the
  same because permits and holders add up; a query that begins overtakes nobody,
  because nobody waits while a permit is free; one that leaves waits in no queue,
  because the queues hold exactly the waiting tasks. Forwarding, inspecting and
  answering are stutters.
* `StatsProofs!StatsInvariance`, `StatsTypes`, `RegistryInStep`, `ReportCovers`,
  `TableBounded`, `NoEarlyExpiry`: the maps of the registry stay in step because
  an identifier is taken only for a subnet without one (`IdsCountSubnets`). An
  entry is complete because what a recording carries from one lock section to
  the next, an identifier and a verdict, stays good while other commands run:
  identifiers are never given up, and a verdict is there exactly when the
  identifier is (`LocalSound`, `EntrySound`). The counts of entries are covered by
  the recordings that ended.
* `DaemonLifecycleProofs!LifecycleTypes`, `LifecycleInvariance` and
  `ServingDaemonReachable` hold of any number of clients and of daemons, started
  by anybody at any time, and all faults. `PreparedPolicyServed` and
  `GivesUpOnlyForCause` have the hypothesis `Timely`: none of the three waits of
  "State and code" is too short. That a daemon which is up has the socket is not
  inductive: the invariant follows the path of the socket through every step of
  the control task (`SocketOwned`) of a daemon beside which no other ran
  (`LoneOwner`). A client's `asked` still has the port it told (`AskedServes`),
  and its `mine` ends, if it was alone and not killed, only because a program
  other than Dockerwall has its port, and is the one the client talks to
  (`MineRuns`). The run `daemon_race` shows that being alone is needed.
* `DockerPrepareProofs!DockerTypes` holds of any number of processes.
  `DockerInvariance`, `DefaultDenyHolds`, `DnsRedirected`, `RulesNotDoubled` and
  `DefaultDenyAtRestHolds` have the hypothesis `OneProc`: preparations are not
  run at the same time, which `docker_concurrent` shows to be needed. What the
  chains decide is not inductive, since the next step depends on where the rules
  are: `Shielded` says that the drop rule of a network is below the two rules
  that let through and above everything else about its subnet, `Redirected` the
  same of DNS. While rules are installed (`Installs`), those installed so far are
  at the top, no copy of the next one is left when it is inserted unless its
  deletion broke off (`Exempt`), and every
  prepared network is another one with another subnet, so that the rule at hand
  is harmless to it. `IptablesProofs` reduces insertion and deletion to one
  relation, `Extends`: the longer chain is the shorter one with one more rule,
  the others keeping their order. The lemmas about `Shielded` and `Redirected`
  rest on that relation alone. Docker's users may remove networks at any time.

* `RootlessPrepareProofs!RootlessTypes` holds of any number of processes, each
  moving at any time. It rests on `TypeInv`: a process has chosen what it uses
  (`LocalsSet`), what the search computes is in its range for every hash and
  attempt (lemma `SourceTypes`), and the chain of a rule was created before it.
* `RootlessPrepareProofs!SharedTheorem` and `KeptTheorem` have the hypothesis
  `OwnMarkers`: the marker of a name, by which a preparation recognises its hook
  rule in the output of `iptables -S`, is not part of another name's rule. The
  search is for a part of a line (`helper.rs:279`), so the code does not ensure
  this. Under it `SharedInv` says that, until preparations overlap, an address in
  a rule is on the host and belongs to one name (`OneOwner`), so that a search
  never finds it free; and `KeptInv` that a preparation of a policy has its old
  addresses or will find them first.
* `RootlessPrepareProofs!DnsTheorem` has no hypothesis. `LedInv` says which rules
  of a name come first in the hook and nat chains at each point of an
  installation, and `LedgerInv` who else works on the name: the history fields
  `status` and `single` tell the truth.
* `RootlessPrepareProofs!FirewallTheorem` has the hypothesis `InstallsAlone`: no
  other process moves between the first and the last rule of an installation.
  That is the race that `docker_concurrent` shows for the other chain; searches,
  assignments and set commands of others may come anywhere else. `GuardInv` says
  that the drop rule of a policy is above whatever else the chain has for its
  address and below the rules that let through (`Guarded`), and that during an
  installation the rules installed so far are on top (`OnTop`).
  `Leads`, the relation all of these use, means that a rule of one kind is in the
  chain and comes before every rule of another; lemmas of `IptablesProofs` say
  what insertions and deletions do to it, in chains of any length.
* `AddressCasesProofs!GatewayTheorem`, `SourceTheorem` and `SearchTheorem`: the
  properties of `AddressCases` for all hashes and attempts. The first rests on
  slots being filled subnet by subnet (`SlotSubnet`), the last on the attempt
  that meets a given address: its distance from where the search begins, around
  the end of the range if need be (`SearchMeets`).

Only model-checked: the liveness properties (`EventuallyInstalled`,
`EveryTaskEnds`, `AdmittedQueryEnds`, `PreparationEnds`), since fairness is out of
the prover's reach; and `MatchesWholeLabels` and `SubnetIsBlock`, where induction
over strings or bitwise operators would be needed.

## Not modelled

* The command line, the scan of `resolv.conf` and the check of trusted binaries
  keep no state; a binary that is not trusted is a failing command.
* The text of commands, replies, reports and rules; DNS encoding; socket options
  and the choice of the reply's source address.
* The hash functions: a hash is any number. `PlanOf`, `InSubnet` and
  `LocalClients` are constants of `DockerPrepare`, `Stats` and `DnsProxy`; the
  functions behind them are in `Addressing` and `SubnetMatch`.
* The IPv6 half of `is_local_ip`. A client of IPv4 that an IPv6 listener sees in
  mapped notation is not local by it.
* Who may run `prepare-network`, and how `ip route` prints the default route.
* Two rootless preparations of the same name at once, beyond their types: such a
  policy counts as not settled until it is prepared again.
* Time going backwards (`SystemTime` is not monotonic).
* The wrap of `NEXT_NETWORK_ID` after 2^32 identifiers: only new subnets use one
  up, and there are at most 256 of Docker and 131 069 sources of Podman.
* Conflicts between set names (`x-v6` is also the IPv6 set of `x`).

## What could follow

1. `DockerPrepare` and `RootlessPrepare` with processes that take the xtables lock
   around an installation, as a repair of `docker_concurrent` would.
2. Names as text, for the `-v6` sets and for markers that contain one another.
