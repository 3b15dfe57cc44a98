# Verification of ARC-402

TLA+ models, TLC runs and TLAPS proofs for the ARC-402 repository: the Solidity
escrow contracts (`contracts/src`), the arena's contracts (`arena/contracts`),
the provider's daemon (`packages/arc402-daemon/src`), the workroom container
(`workroom`), and what keeps state across calls in the command line and the SDK
(`packages/arc402-cli/src`, `cli/src/daemon`, `reference/sdk/src`).

* [1. The system](#1-the-system): components, their state, operations, hazards
* [2. The modules](#2-the-modules): what models what, and where it abstracts
* [3. The runs](#3-the-runs): what each shows, its scenarios and bounds
* [4. Fairness](#4-fairness)
* [5. The proofs](#5-the-proofs)
* [6. Disagreements](#6-disagreements): where the code, its documents and its intent part
* [7. What is not modelled](#7-what-is-not-modelled)
* [8. The plan](#8-the-plan)

Every run is `tlc -config <run>.cfg <module>`, every proof `tlapm <module>.tla`;
`PROJECT.json` lists the runs, the lines each definition models, the faulty
variants (operators named `<Definition>_<Fault>`, which replace the definition
to show that a property notices the fault), the hazards and the theorems.

## 1. The system

ARC-402 lets autonomous agents hire each other.  Client and provider negotiate
with signed messages; the client's money sits in an escrow contract while the
provider's daemon does the work in a container; the arena's contracts hold
prediction rounds, squads and what they publish.  The owner of an agent sets its
wallet up from the command line and may watch and steer it from afar.

### Contracts

| component | state | operations | how it interacts | what makes it correct |
|---|---|---|---|---|
| `SubscriptionAgreement.sol` | offerings, subscriptions, `pendingWithdrawals`, fee configuration, balance | create and deactivate an offering, change its cap, subscribe, renew, cancel, top up, dispute, resolve, timeout refund, withdraw | calls the arbitration contract when a dispute opens; pays by pull | every deposit is consumed or given back, once; the admission counter is exact; paid access is kept; disputes end |
| `ComputeAgreement.sol` | sessions, used report digests, `pendingWithdrawals`, balance | propose, accept, start, report usage, end, dispute, resolve, cancel, withdraw | usage reports are signed by the daemon's metering | a minute is billed once and within the deposit; a session is settled once; a session that does not start gives the deposit back |
| `ServiceAgreement.sol` | agreements and their escrow | propose, accept, fulfil, commit, verify, auto-release, cancel, revision, dispute, resolve, refund after expiry | DisputeModule answers with statuses and amounts; money is pushed | the parties and the treasury together get exactly the price, once; nobody's silence keeps it locked |
| `ArenaPool.sol` | rounds, entries, votes of watchtowers, claims, one balance | create, enter, vote, claim, refund of an unresolved round | agent and watchtower registries, spending policy | pots are paid out once and are never short; a resolution has a quorum behind it |
| `SquadRevenueSplit.sol` | what is owed to whom, balance | receive, deposit, distribute, claim | pushes ETH and USDC | income is passed on in full; what is owed is held |
| `ResearchSquad.sol`, `SquadBriefing.sol` | squads, roles, invitations; briefings, proposals, citations | membership; publish, propose, approve, reject, cite | agent registry, trust registry | admission, authorship, honest counts |
| `IntelligenceRegistry.sol`, `AgentNewsletter.sol`, `StatusRegistry.sol` | artifacts and citations; newsletters and issues; statuses and rate windows | register, cite; create, publish, close; post, delete | agent registry, trust registry | one hash has one home, counts and announcements are honest, what was published stays, the rate limit |

### Daemon and workroom

| component | state | operations | how it interacts | what makes it correct |
|---|---|---|---|---|
| worker executor (`worker-executor.ts`) | job records, queue, count of running jobs, child processes, timers | enqueue, cancel, drain, run, time out | called by the hire handlers, calls back at the end of a job | the count is the number of running jobs; a job runs once and ends |
| hire handling (`server.ts`, `hire-listener.ts`, `endpoint-policy.ts`) | table `hire_requests`, endpoint locks, relay position, polls in progress | relay poll, `POST /hire`, `/delivery`, operator commands over IPC, timer of approvals, callbacks of the executor, restart | relay, bundler, executor, SQLite | no request is lost, the limit holds, work is covered by a lock, a finished request gives its place back |
| compute rental (`compute-session.ts`, `compute-metering.ts`) | sessions on disk, meters in memory, report files | propose, accept, start, sample, report, end, dispute, restart | `ComputeAgreement`, timers | all samples are reported once and settled on |
| spending gate (`permission-gate.ts`) | spend per job, kept decisions | a check, split where it waits for the policy engine | the tools of a job, the policy engine on chain | what is granted stays within a limit that was asked about |
| sign-in (`auth-server.ts`, `session-manager.ts`) | challenges and sessions in SQLite | challenge, sign in, split at its two waits, touch, revoke | every HTTP call | one session per challenge, a revoked one stays so |
| handshake watcher (`handshake-watcher.ts`) | handled ids in memory and on disk | scan, live events, handling, stop | chain events | none lost, none handled twice |
| file delivery (`file-delivery.ts`, `delivery-client.ts`) | files, manifest, the committed root | store, upload, commit; notification, download, verify; crash | file system, `ServiceAgreement`, `POST /delivery` | what was committed is what is there; a client holds what it reports as verified |
| workroom network (`workroom/*.sh`, `commands/workroom.ts`) | policy file, addresses, the OUTPUT chain, refresh loops | start, restart, stop, resolve, refresh, policy-reload | name servers, iptables, the owner | what can be reached is what the policy names |

### The owner's side

| component | state | operations | how it interacts | what makes it correct |
|---|---|---|---|---|
| remote control (`cli/src/daemon/auth-server.ts`, `session-manager.ts`) | challenges, sessions, simulations | login, step-up, simulate, execute | a browser, the daemon of the command line | what is risky was simulated under a fresh step-up of its session |
| wallet set-up (`commands/wallet.ts`, `config.ts`) | the chain, the configuration, the guardian's key file | deploy with its ceremony or a stored key, onboard, set-guardian, governance setup, use | wallet, policy engine, registries | what is reported as complete was sent; no key the chain knows is lost |
| negotiation (`negotiation-guard.ts`, `session-manager.ts` of the SDK, `commands/negotiate.ts`, `commands/hire.ts`) | nonces seen; the file of a session | sign, verify; propose, counter, accept, reject, hire | the registry of agents; `ServiceAgreement` | a copy of a message is accepted once; what is hired is what was agreed |
| other commands, terminal UI, SDKs, plugins | none across calls | format and send calls | RPC endpoints | left out, section 7 |

### What is hard

* **Escrows.** Calls of different parties come in any order, at any time, and
  every path out of an agreement must settle all of it, once.  The arbitration
  contract may be unset, take the fee of a dispute, or refuse the call.  Fees
  round.  The owner changes fee, treasury and arbitration in between.
* **Arena.** A round has several ways to end, which overlap in time; all rounds
  share one balance; a push that fails must not cost anybody else anything.
* **Daemon.** Every `await` lets other handlers run, so that what was checked
  before may be stale after; polls overlap because `setInterval` does not wait
  for the last one; callbacks find their request by agreement, not by identity;
  some steps are persisted and others are not.
* **Container and commands.** Processes share a file or a firewall chain without
  a lock, and any of them may die half-way: a refresh in the middle of a chain,
  a ceremony between two of its dozen transactions, a command in the middle of
  writing a session.

`PROJECT.json` lists each hazard at its line with the properties aimed at it.

## 2. The modules

A call of a contract is one action, and a call that reverts is a step not taken.
Most calls are `nonReentrant` or write their state before they call out.  The
others are one action because what they call is taken not to call back: the token
in `ComputeAgreement.proposeSession`, and DisputeModule and the arbitration
contract in `_callOpenFormalDispute` and in the other calls about revisions and
disputes of `ServiceAgreement`.  A handler
of the daemon is one action from one `await` to the next; a shell loop or a
command is split where another process can come between.  Variables keep the names of
the source.

| module | models | abstracts |
|---|---|---|
| `EscrowLedger` | the abstract pull-payment escrow: `Move(e)` lets money into escrow `e` and out of it as credit, `Pay` empties one credit | who, when and why |
| `PullPayments` | the credit operation both pull-payment contracts repeat | |
| `SubscriptionAgreement` | every external function of the contract but owner transfer and arbitrator approvals, which no other function reads | the clock in ticks; content hashes |
| `ComputeAgreement` | every external function that touches sessions or money | signatures: a report is its fields; ticks for periods |
| `ServiceAgreement` | the hire life cycle and both kinds of dispute; `received` records what was paid to whom, since payments are pushed | DisputeModule, which is not in the repository, answers any status and amounts it may by its interface and documents; trust updates, whose failures are swallowed |
| `ArenaPool` | rounds, stakes, votes, claims and both refunds; `received`, `feesPaid` and `refunded` are history variables | registrations and policies; notes; standings |
| `SquadRevenueSplit` | payments in, pushes that succeed or fail, what is owed, claims | both tokens are kept the same way |
| `AgentRegistry` | external: whether an agent is registered changes at any time | |
| `ResearchSquad`, `SquadBriefing` | squads, roles, invitations; on top of them publications, proposals and citations (`SquadBriefing` extends `ResearchSquad`: the same squads are read) | names, previews, tags |
| `IntelligenceRegistry`, `AgentNewsletter` | artifacts by capability, weighted citations and the announcements of thresholds; newsletters and numbered issues | what an artifact says of itself; names, previews, endpoints |
| `StatusRegistry` | posts, deletions, windows of the rate limit | content: a status is its hash |
| `WorkerExecutor` | queue, slots, records, children; `DrainQueue` is part of every action that ends or adds a job | the task and the files; `auto_execute` is on |
| `HireDaemon` | the table, the relay poll split at its awaits (`PollStart`, `PollAnswered`, `HandleMessage`, `Approved`), HTTP hires split at theirs (`PostHireLooksUp`, `PostHireDecides`, `HttpEnqueue`), so that handlers of one message overlap too, operator, timer, callbacks, `Restart`; extends `WorkerExecutor`, whose actions are conjoined with what their caller does | price, capability, deadline and content checks are one choice; UserOps are answered or fail |
| `ComputeSessions` | the session records, the meter with its two timers, the report files, `Restart` | chain calls, whose outcome changes nothing; the arithmetic of the cost |
| `PermissionGate` | a check up to its wait (`BeginCheck`), the policy engine's answer, and what follows it (`CheckAnswered`, `CheckFails`); decisions kept for a time; both fail modes | what a tool does with the grant |
| `AuthSessions` | challenges, sign-ins split at their two waits, sessions that are touched and revoked | the signature and the wallet's answer are a choice |
| `RemoteSessions` | logins, step-ups, simulations, executions, expiry | the event log and the stream |
| `HandshakeWatcher` | blocks, the scan at start, live events side by side, the file of ids, stops and torn writes | handshakes to other wallets |
| `FileDelivery` | file and manifest written apart, uploads, the committed root, crashes; a client told of any root that somebody has the files of, by anybody, and a download from the provider or another server that takes its time | contents are values with a size; a root is the bag of the contents; one announcement |
| `WalletSetup` | each command is the sequence of its steps, read off the functions it calls; the chain, the configuration and the key file survive a crash | passkey, workroom and daemon of the ceremony; the transactions nothing depends on are one step |
| `Workroom` | the policy file, the entrypoint host by host and then rule by rule (`FlushRules`, `AddRule`, `StartDaemon`), the refresh loops host by host, restarts, `policy-reload` | ports; TTLs; a host has one address at a time |
| `NegotiationGuard` | a check up to its question to the registry (`VerifyMessage`) and after it (`MessageVerified`), the nonce cache and its expiry; a nonce is signed as bytes and remembered as the text of the copy that was checked (`Spellings`) | signatures and size are right; one sender |
| `NegotiationSession` | one session file; each command is a process that loads, changes and writes it, in place, and may die | a transcript hash is the messages hashed; terms are opaque |
| `SumTheorems`, the `..._proofs` modules | the proofs, section 5 | |

The `MC...` modules instantiate these for TLC.  Where one model is too large for
one instance, or several models share no state, they give *scenarios*: a
variable, constant in a behaviour, picks which parameters vary or which part
moves, and the next-state relation is restricted to steps that stay within them.
No definition of a module is replaced.

How the components meet: `HireDaemon` calls the executor and is called back by
it, inside one step; `SquadBriefing` reads `ResearchSquad`; both, `StatusRegistry`,
`IntelligenceRegistry` and `AgentNewsletter` read `AgentRegistry`; the three
escrows each implement `EscrowLedger` through `Ledger == INSTANCE EscrowLedger
WITH ...` in their own module.  The parts of `MCParts` meet only through values
that each of them takes as given (a session that was negotiated is hired by
`ServiceAgreement!Propose` with any terms; a root that was committed is any root).

## 3. The runs

Twelve runs; six must pass, six must find a counterexample (section 6).

| run | scenarios and bounds | shows |
|---|---|---|
| `subscription` | *time*: two subscribers, one offering in ETH with cap none or one, three ticks, periods of two ticks, top-ups, disputes that time out after two.  *money*: one subscriber, ETH or a token, price 500 (a 1% fee is 5), treasury and arbitration set and unset, a fee sent with the dispute taken or refused | the admission counter equals the active subscriptions (`SubscriberCountExact`), nothing stays in an ended subscription (`NothingStranded`), charges never exceed granted time (`ChargedForGrantedTime`), access is never taken back (`AccessNeverShrinks`), balance equals what is owed (`Solvency`), each step is a step of the escrow (`ImplementsLedger`), disputes end (`DisputesEnd`) |
| `compute` | two sessions of one hour.  *meter*: reports of 25 and 40 minutes, so that two different ones fit and none of the others do.  *money*: both tokens, a rate of 500, fee and treasury changing | billed minutes are those of distinct reports, inside the session and within the deposit (`BilledOnce`), a settled session never moves again (`SettledOnce`), escrow steps (`ImplementsLedger`), a session that never starts gives its deposit back (`DepositNotLockedUp`) |
| `service` | two agreements.  *cycle*: the whole life cycle.  *money*: both tokens, price 200 (a fee of 2), a treasury that refuses ETH.  *pause*: guardian and legacy mode | a settlement is final (`SettledOnce`) and hands out exactly the price (`ImplementsLedger`); silence of the parties, a pause or an unattended dispute ends (`AgreementsEnd`) |
| `arena_contracts` | *squads*: two squads, two agents, one hash they compete for.  *status*: windows of three ticks, two posts each, up to tick 8.  *split*: three shares of two recipients that divide nothing evenly, two tokens.  *artifacts*: two artifacts, three authors, thresholds of one and two citations.  *newsletters*: two of them, three issue hashes | members were admitted, a briefing has one home and one author, counts are those of distinct citers (`SquadsHonest`); nobody can take a publication or a proposal over (`NothingTakenOver`); `RateLimited`; `OwedIsHeldUnlessSwept`, `IncomeShared`; an artifact is listed once, counted and announced honestly (`ArtifactsHonest`); issues stay, and a hash proves one issue (`IssuesKept`) |
| `parts` | the parts that share no state, next table | next table |
| `hire` | two requests for two agreements, one place, one slot, auto-accept.  *polls*: two polls overlap.  *restart*: one restart, HTTP hires one at a time, a worker with requests of its own.  *posts*: two handlers of `POST /hire` for one message (`MaxHandlers`) and a poll | the limit holds, live work is locked and was refused only if a second handler of its message accepted it (section 6), a finished request gives its place back (`HireAccounted`); every message is decided on (`MessagesHandled`) |

The scenarios of `parts`, in one of which each behaviour stays:

| scenario | module, bounds | shows |
|---|---|---|
| arena | `ArenaPool`: one round, three agents, three watchtowers, quorum of two, stakes 5 and 10 (no winner's share divides evenly with all three in), fees 0, 10% and one point above the limit, six ticks (`arena_losers`: seven) | the balance covers what each agent can still take, in any order (`Solvent`); a resolution has its quorum, and equal stakes are paid equally across a fee change (`RoundsFair`); stakes come back (`StakesReturned`) |
| jobs | `WorkerExecutor`: four jobs, two slots | queue, count and records agree (`SlotsAccounted`), an ended job stays ended (`EndedStaysEnded`), jobs end (`JobsEnd`) |
| sessions | `ComputeSessions`: one session, eleven units of time (two report periods of four and timers up to a unit late), one restart | settled on every report, no sample lost, no overlapping reports, nothing after settlement (`ReportsAccounted`) |
| gate | `PermissionGate`: two checks of one job, spends of 1 and 2, limits 0 and 2, answers kept for one tick of two | grants stay within a limit that was asked about (`GrantsWithinLimit`) |
| watcher | `HandshakeWatcher`: two handshakes, five blocks, scans of two, two runs | none lost, none handled twice (`HandshakesHandled`) |
| files | `FileDelivery`: three names, two contents of sizes 2 and 3, a limit of 3 a file and 4 a job, two crashes, another server with one file | manifest and commitment stand, a verified download has the root that was announced (`DeliveryHonest`); not that this is the committed one (section 6) |
| sign-in | `AuthSessions`: two wallets, two challenges, two requests, expiries of one and two ticks | one session per challenge, revocation is for good (`SignInsHonest`) |
| remote | `RemoteSessions`: two sessions, three challenges, two simulations, ids used in order | step-ups were fresh (`StepUpCoversRisk`) |
| set-up | `WalletSetup`: two wallets, one generated key; one of the wallets is set up, and at most one of its transactions reverts (`OneSetUp`) | what is complete was sent, no key is lost but in the cases of section 6 (`SetupDelivers`) |
| workroom | `Workroom`: two policy hosts, one arena host, three addresses of which one is refused, a loop besides the entrypoint's, two changes | the chain is what the policy names whenever it was rebuilt (`NetworkAsPolicy`) |
| guard | `NegotiationGuard`: two messages with one nonce, two ways to write it, two checks, six ticks, tolerance one, nonces kept for three | of the copies of a message that write its nonce alike one is found valid (`ValidOnce`), not of all its copies (section 6) |
| talk | `NegotiationSession`: four commands, two terms, four messages | what is proposed on chain is what one transcript agreed (`HiredAsAgreed`) |

A type invariant is checked in `subscription`; the others (`WorkerTypeOK`,
`SquadTypeOK`, `WatcherTypeOK`, ...) are part of the inductive invariants of
section 5, and are proved.

**Why the bounds are enough.**  Two subscribers and a cap of one reach every
admission conflict: full, freed by each way out, taken by the other.  Prices and
awards are chosen so that fees come out whole, fractional and below one unit.
Sessions and agreements do not interact but through the balance and the
credits, for which two suffice to show money of one paid out for the other.  Two
overlapping polls are the least that move a shared position backwards; one place
and two requests the least that refuse; two handlers of one message are the least
that contradict each other.  Three agents and two sides give rounding
on the winning side, and a tie of stakes.  Four jobs and two slots are the least
where a job ends while two wait.  Two checks are the least that overlap; the
second crash of a delivery falls into the recovery of the first; one loop more
than the entrypoint's is the least that flushes what another is building; four
commands are a proposal, two answers that race and a hire.  The clock stops at
`MaxTime`; so that no liveness property is lost to that, what starts a deadline
it relies on (a proposal, a dispute, a round) happens only while the deadline
lies within `MaxTime`, which is the one guard of these actions that is not the
code's.  Ids, handshakes of one block and hashes that differ only in name are
taken in order (`InOrder`), which loses no behaviour but a renaming.

**Deadlock** is not checked: in all of these systems everything may be done
(all agreements settled, the clock at its bound) and in no document is stopping
then a fault.

## 4. Fairness

* Contracts: time passes (`WF(Tick)`), and the caller who is *served* by a call
  makes it: anybody may call `claimDisputeTimeout` and `autoRelease`; a client
  cancels its own expired proposal, agreement or session; an agent claims its
  own winnings or refund.  Nobody is obliged to act for somebody else: no
  fairness on verifying, accepting, resolving or voting.
* Executor: the timer of a job fires, and the child is killed some time after
  its signal.  Agents may never answer.
* Hire handling: `setInterval` fires for ever and the runtime goes on with a
  handler whose wait is over.  The relay may fail, but not at every single poll:
  strong fairness of `PollAnswered`, the one place where it is needed.
* Scenarios add no fairness and take away none: no restriction of an `MC` module
  refuses a step that fairness asks for.  `MCParts` states the arena's fairness
  for the arena's scenario, the only one in which its time passes.
* The other parts have safety properties and no fairness: what they promise for
  later (that a ceremony is finished, a refresh succeeds, a watcher is restarted)
  depends on a person or on a remote service, which nothing in the code obliges.

`AgreementsEnd` is conditional on the treasury being one that accepts ETH: with
one that does not, every settlement in ETH that carries a fee reverts, which the
code does by pushing the fee.

## 5. The proofs

Every safety invariant that a run checks is a theorem too, and so is every action
property but none of the liveness properties.  The theorems hold for all values of
the constants that satisfy the named assumptions of the modules
(`UsersAssumption`, `AmountsAssumption`, `ArenaPoolAssumption`, ...): any
accounts, tokens, prices, periods and bounds, any number of requests, jobs,
polls, checks or loops.  What the assumptions ask for is what the code has: sets
of accounts, names and hashes are finite (balances and counters are sums over
them), lengths of time are positive where the code's constants are, and the
values that stand for "no agent" or "no key" are none.

A theorem is proved as `Init => Inv`, `Inv /\ [Next]_vars => Inv'` and `Inv =>
Property`, where `Inv` strengthens the property until it is inductive.  Each
`Inv` was an invariant of a TLC run on the instance of section 3 before it was
proved.  An action property is proved as `Inv /\ [Next]_vars => [Step]_vars`.

| module | theorems | rest on |
|---|---|---|
| `SumTheorems` | lemmas on sums over finite sets, and induction | |
| `EscrowLedger` | `LedgerBacked` | `SumTheorems` |
| `SubscriptionAgreement_proofs` | `Invariance`, `TypeCorrect`, `CountCorrect`, `NoStrandedDeposit`, `ChargedCorrect`, `AccessPreserved`, `DisputeFrozen`, `LedgerImplemented`, `SolvencyHolds` | `IInv`, `LedgerBacked` |
| `ComputeAgreement_proofs` | `TypeCorrect`, `BilledCorrect`, `PaysEverybody`, `SessionsSettleOnce`, `LedgerImplemented` | `IInv` |
| `ServiceAgreement_proofs` | `EscrowIsBacked`, `AgreementsSettleOnce`, `LedgerImplemented` | `IInv` |
| `ArenaContracts_proofs` | `OwedCanBeClaimed`, `IncomeIsSplit`, `PostsAreLimited`, `SquadsAreHonest`, `BriefingsStay`, `ArtifactsAreHonest`, `IssuesAreKept` | `SplitInv`, `StatusInv`, `BriefingInv`, `IntelligenceInv`, `NewsletterInv` |
| `HireDaemon_proofs` | `SlotsAreAccounted`, `JobsEndOnce`, `DaemonTypesAndSlots`, `CapacityIsRespected`, `WorkIsCovered`, `HireIsAccounted` | `WorkerInv`, `TableInv`, `LimitInv`, `HireInv` |
| `Parts_proofs` | `PoolIsSolvent`, `RoundsAreFair`, and a theorem or two for each part of `MCParts` | `PoolInv`, `GuardInv`, `TalkInv`, `RemoteInv`, `SetupInv`, `WatcherInv`, `GateInv`, `AuthInv`, `NetworkInv`, `SessionsInv`, `FilesInv` |

### Sums and induction

What a contract holds is compared with sums over accounts, sessions, agreements
or agents.  A sum is defined by recursion on sets, and the provers cannot use the
library's induction theorems, whose hypothesis is an operator; `SumTheorems` gets
there by the smallest counterexample instead: among the subsets of a finite set
for which a statement fails there is one that no element can be taken from
without the statement becoming true (`SmallestSubset`, from the well-foundedness
of the strict subset order).  From it come existence, removal, change of one
summand, sums of naturals, additivity (`SumAdd`), monotonicity, sums split by kind
(`SumByKind`), the bound on shares that are rounded down (`SharesFit`), and
largest and smallest members.  `UpTo` is induction on a number, with a set of
numbers in the place of a predicate.

### The escrows

**Subscriptions.**  The properties alone are not inductive: cancelling needs to
know that an active slot belongs to an existing offering, so `OfferingsInOrder`
and `SlotsConsistent` say that ids are used in order and that slot and offering
agree.  Subscribing over a cancelled slot sets its end to one period from now;
that this is not earlier than the end already paid for needs `EndsWithinAPeriod`:
no paid period reaches further than one period from now.  The actions fall into
those that end a subscription (`Ends(k)`) and those that continue it
(`Continues(k)`); `EndsStep` and `ContinuesStep` prove the slot part of the
invariant for the shapes, and each action is shown to have its shape.
`LedgerImplemented` shows action by action that every step is a step of
`EscrowLedger` or leaves it alone; `EscrowLedger!LedgerBacked` proves of the
abstract escrow that what it holds is what is locked and what is owed, and
`SolvencyHolds` carries it over.

**Compute sessions.**  `IInv` adds to the types that a deposit is rate times
hours, that consumption stays within the session (`SessionSound`), that the used
digests are finite, and `NeverShort`: the contract holds at least what is locked
and owed.  The contract does not give back ETH sent along with a dispute that
nobody takes (`compute_trapped`, section 6), so equality fails and
`PaysEverybody` states the inequality, without a hypothesis; `LedgerImplemented`
has the hypothesis that no ETH is sent along (`DisputeFees \subseteq {0}`).

**Hires.**  Money is pushed.  `EscrowBacked` says that the contract holds the
prices of the agreements that are not settled; that no payment fails for want of
money follows, and that a settlement hands out exactly the price rests on
`PayoutSum`: provider, client and treasury together get what a decision splits,
whatever the fee rounds to.

### The arena

**Pool.**  `Solvent` is about what each agent can still take, in any order.
`PoolInv` relates it to the books: pots are the sums of the stakes of their side
(`Booked`), who left had entered, and left an unresolved round by a refund only
(`LeftHonestly`), an agent was paid by its round and its stake (`PaidByStake`),
a resolved round has its quorum (`Backed`), and the sum of what is due over all
rounds and agents is covered (`Covered`), unless a round was resolved after a
refund (`arena_losers`).  Resolving is the hard step: what was due as stakes
becomes due as shares, which fit into the pot because they are rounded down.

**Split.**  `SplitInv` says of each recipient and token that what is owed is held
unless it was swept, and `IncomeShared` is about a whole distribution: shares are
added up by place, since a recipient can have several.

**Status.**  That no stretch of a window's length has more than twice the limit
needs `WindowsKept`: the posts lie in the current window or before it, and the
stretch that ends where the window begins has no more than the limit.

**Squads and briefings.**  `SquadsHonest` needs that squads which do not exist yet
have no members (`SquadsGrow`), and that the tables refer to each other
(`BriefingsKnown`): a proposal that is open belongs to a squad and was made by one
of its members, and a hash without a proposal is in no squad's list.

**Artifacts and newsletters.**  Counts are cardinalities of the citers, weighted
counts of those above the threshold when they cited; the announcements are the
thresholds passed.  That a hash proves one issue needs that the hashes in use are
those of the issues and that no two newsletters share one (`NewsletterInv`).

### The daemon

**Executor.**  `WorkerInv` adds to `SlotsAccounted` that finitely many jobs run.
`DrainQueueInv` is about `drainQueue` whoever calls it: given records, queue and
count that agree but for free slots, it leaves the executor sound; each action
then only shows that it calls it in such a state.

**Hires.**  `TableInv` holds without any hypothesis: the table has each request
once, and every request that a handler holds, that is being fulfilled or that a
job was made for; positions stay within what the relay has.  So the callbacks,
which look for the latest row of an agreement, always find one (`LatestIsOf`).
Every step of the daemon but its restart is a step of the executor or leaves it
alone (`ExecutorSteps`), so `SlotsAccounted` holds in the composed daemon as it
does for the executor by itself (`DaemonTypesAndSlots`).

`HireIsAccounted` has two hypotheses, which section 6 explains, and each is that
of one part: acceptance is automatic for the limit (`CapacityIsRespected`), and
each agreement has one request for the rest (`WorkIsCovered`).  `LimitInv` adds to
the limit that the operator has nothing to decide.  `HireInv` states cover and
release request by request, and what a request that waits for its enqueue must
be while it has no job (`Covered`): accepted, or one whose row was refused while
another handler of it accepted (`contradicted`, a history variable; section 6 says
how it comes about).  Several handlers may hold one request, each to enqueue it; the later ones find its job and only lock the endpoint again.
`OneDecider`: without automatic acceptance no handler enqueues anything, and the
second part is about an executor that stays idle; with it, nothing waits for the
operator.

**Compute.**  A meter runs between start and end only and its period begins in
the past (`MeterSound`), the files end before the meter's period and those of a
session that goes on are of periods in which time passed (`FiledSound`): from
these, reports do not overlap and a settlement counts them all.

**Gate.**  A check under way knows the limits there were since it began, and one
that is allowed is within one of them (`ChecksKnowLimits`); for a job whose
checks neither overlapped nor failed open, what was granted is what is counted,
and no decision kept for later is for more than that (`SpendCounted`).

**Sign-in.**  `OneAnswer`: unless two requests answered it at a time, a challenge
has one sign-in, under way or done, and is used when that one is done.

**Watcher.**  `NoneForgotten`: while the logs of the scan are handled, what was
sent by the time of the scan is handled or waits.

**Files.**  Storing several files is a sequence of writes that a crash may cut
anywhere; `StagesOfStoreAll` and `UpTo` carry `StoreSound` through its stages.
A manifest lists what is on disk, what was committed stays, and while no crash
came between two writes everything is listed and fits.  `ClientSound`: the files
a client keeps are those its manifest lists, and it accepts when it has them all
and the root is the one it was told.  From there to the root that was committed
there is no step, since the client does not ask the chain (section 6).

**Workroom.**  `ChainSound` says what the chain holds while a loop is in the
middle of it: the addresses of the hosts that the loop which flushed it last is
done with, or, of the entrypoint's rules, all but those still to come (`Pending`),
which are what was resolved (`EntryAdds`).  A loop left by `policy-reload` may
flush the chain between two rules of the entrypoint; `mixed` says so, and the
chain then holds the rules of both.  `LoopsSound` says that this loop is there,
and is alone unless the history variable `mixed` says otherwise.

### The owner's side

**Guard.**  A check waits for the registry while its message was timely when it
began (`ChecksTimely`), so that the key of a copy found valid is kept until no
copy of the message can be under way (`KeptWhileTimely`): the retention of the cache has
to cover the tolerance twice and the registry's time-out.  `GuardAssumption` says
that it does; the code's 24 hours, against a minute, do.

**Negotiation.**  `Agrees` is kept by the file and by every process's copy of it,
and a process that hires holds the terms of its copy (`CallAgrees`).

**Remote control.**  A step-up a session holds was answered to a challenge of its
own (`StepUpAnswered`).

**Set-up.**  A command is the sequence of its steps; what it promises is done,
was tried in vain, or is still among them (`CommandGood`), which needs that the
registration of the agent is the last step but one (`StepsOrdered`).

### Only model-checked

Liveness, which is out of the prover's reach: `DisputesEnd`, `DepositNotLockedUp`,
`AgreementsEnd`, `StakesReturned`, `JobsEnd`, `MessagesHandled`.  The
disagreements of section 6 are TLC's counterexamples.

## 6. Disagreements

### With a run that must fail

* `compute_trapped`: ETH sent with `disputeSession` stays in `ComputeAgreement`
  for good when no arbitration contract is set or it refuses the call.
  `SubscriptionAgreement` gives it back and says why.
* `service_terminal`: a revision answered with `PARTIAL_SETTLEMENT` or
  `MUTUAL_CANCEL` is terminal with the whole price still in the contract.
* `arena_losers`: a loser that took the refund of an overdue round keeps it when
  a late vote resolves the round; the winners' pot is then not there.
* `squad_owed`: `distribute` hands out money that is owed to a recipient whose
  push failed; that recipient's claim then reverts.
* `compute_consumed`: `endSession` adds the minutes of the final report only,
  and the reports of the timer do not count towards the settlement.
* `workroom_gateway`: the first refresh, after five minutes, flushes the rule for
  the host's gateway, over which the work reaches its agent, and does not put it
  back.

### With a property that does not hold

What documents or comments claim and TLC refutes within a minute, when the
property is given to the `.cfg` of the module's run in the place of the others.
What holds instead is checked and proved.

* `DuplicatesSkipped` (`HireDaemon`): `POST /hire` looks a message up ("Dedup"),
  awaits an import (`server.ts:1272`), and inserts with `INSERT OR IGNORE`.  Two
  handlers of one message that resume together (the answers of their `getAgreement` calls may
  arrive in one batch), or a handler and a poll, both decide; the one whose insert
  was ignored goes on with its own decision, whatever the row says.  So work can
  be under way for a request that the table has as rejected (`contradicted`), and
  the endpoint of a job that is over can be locked again, until the next restart.
* `VerifiedIsCommitted` (`FileDelivery`): `delivery-client.ts:13` says that it
  verifies the root hash against the one on chain; it compares with the
  `deliverableHash` of the notification (`server.ts:1448`), which the daemon takes
  from any sender, and reads no chain.
* `NotReplayed` (`NegotiationGuard`): the guard remembers a nonce as it is written
  (`negotiation-guard.ts:104`), and the signature covers it filled up to 32 bytes
  (`negotiation.ts:19`), so that the same message with its nonce written otherwise
  is valid again.  `docs/openclaw-node-setup.md:118` says that messages cannot be
  replayed.

### Without one

Met while modelling.  The properties exclude these cases and name them, or they
follow from the order of calls alone.

Contracts:

* `expiredCancel` also ends an agreement in revision, which the table of
  `docs/state-machine.md` does not list; that document says that release happens
  automatically, where somebody has to call it.
* After a late resolution one round of the arena can be paid from the pot of
  another, since all share one balance (`Solvent` excepts it).
* A disputed compute session has no timeout on the chain.
* A treasury that refuses ETH stops settlements of `ServiceAgreement` with a fee.
* Comments of `SubscriptionAgreement.sol`: a subscriber may "claim" the timeout
  refund (any caller may), "address(0) = fees burned" (none are taken).
* `CitationThresholdReached` is sent whenever the weighted count *equals* a
  threshold, so a citation that does not count sends it again
  (`IntelligenceRegistry.sol`, `SquadBriefing.sol`; `arena/DISTRICT2-SPEC.md:180`).

Daemon:

* A job that times out frees its slot while its child may live until it is
  killed: more children than `max_concurrent_jobs`.
* Approvals by the operator are not counted against
  `max_concurrent_agreements`; the limit is one of automatic acceptance
  (`HireAccounted` is checked with auto-accept on).
* Two requests for one agreement: the callback finds the latest row and the
  other keeps its place (`HireAccounted` has one request per agreement).
* Work accepted before a restart is not started again after it.
* A compute session has no meter after a restart; the limit of sessions counts
  active ones at the proposal only.
* Two checks of one job's spend that overlap count as one; a gate that fails open
  grants on the strength of any decision it ever kept, of any job.
* Requests that answer a challenge at once get a session each.
* What is mined between the answer of the watcher's scan and its subscription
  reaches neither until the next start.
* `delivery-client.ts:51` sends no credentials with its downloads, which
  `file-delivery.ts:102` asks for: the automatic download is refused.
* Nothing calls `appendUsageReport`, `grantStepUp`, `revokeSession` of the remote
  control, or the table of execution states; nothing sets `requires_step_up`,
  which `executeSimulation` looks at.
* `worker-router.ts`, which nothing uses, never sends the second signal: `killed`
  is true once the first was sent.

Wallet set-up:

* `set-guardian` and `governance setup` register the guardian's key on chain
  before they save it.  When they die in between, or when the key file of an
  older key (mode 0400) makes the save throw, the key is lost
  (`docs/wallet-governance.md:160`).
* A deploy that dies between its transaction and `saveConfig` is followed by the
  deploy of a second wallet.

Workroom:

* The hosts of the arena policy are lost with the first refresh, as the gateway is.
* `policy-reload` starts another loop, which sleeps before its first refresh and
  never ends; `docs/hermes-integration.md` tests the policy right after it.
* `workroom start` mounts the agent's configuration at `/workroom/.openclaw`, and
  `entrypoint.sh` looks for it in `/home/workroom/.openclaw`: `derive-policy.sh`
  does not run.

Negotiation:

* `accept` prints "Session ACCEPTED - transcript locked"; later counters,
  acceptances and rejections of the session are still added, and a second
  acceptance replaces price, deadline and hash.  `HiredAsAgreed` shows that the
  three are always replaced together.
* One session can be hired twice: `onChainAgreementId` is never looked at, and is
  not there when the command dies after its transaction.
* Two commands on one session lose a message of one of them, and one that dies in
  the middle of its write leaves a file that no command reads.
* The command line makes a new guard for every check, so that there no nonce is
  ever seen twice; and the key of a nonce has no message type, so that two
  answers to one proposal within a second count as one message.

## 7. What is not modelled

* Code outside the repository: DisputeModule, DisputeArbitration, session
  channels, the trust and watchtower registries, the entry point of UserOps;
  where a contract uses one, its answers are nondeterministic.
* Commands, terminal UI, SDKs and plugins that format one call or one view and
  keep nothing across calls.  They are most of the repository's lines: the
  command line is there twice (`cli/src`, `packages/arc402-cli/src`), with two
  older copies of the daemon (`cli/src/daemon/index.ts`,
  `packages/arc402-cli/src/daemon/index.ts`) whose handlers are those of
  `packages/arc402-daemon`; the SDKs repeat the contracts' interfaces in two
  languages.  What has state of its own among them (wallet set-up, remote
  control, negotiation, workroom) is modelled once, from the copy that has more
  in it; the lines mapped are therefore a small share of all lines.
* Operations of modelled components that are left out are named in the notes of
  `PROJECT.json`: notification endpoints, the rate limiter, passkey approvals,
  session channels, standings of the arena, ownership transfers and arbitrator
  approvals.
* Wallet operations (`userops.ts`, `bundler.ts`, `signer.ts`): wrappers around
  remote services; a UserOp is answered or fails.  Two operations built at once
  read one nonce; what becomes of the second is the entry point's decision.
* `ARC402RegistryV3.sol`: addresses that the owner sets, without a protocol.
* Receipts, execution states (nothing calls them), configuration, logging, start-up.
* Compositions across the chain: that the daemon's table agrees with
  `ServiceAgreement`, its compute sessions with `ComputeAgreement`.  The daemon
  changes its state first and goes on whether the call succeeds or not, so there
  is no agreement between the two for a property to state.
* Integer width: amounts are naturals.  All multiplications of the contracts are
  checked by Solidity 0.8, so an overflow is a revert, a step not taken.

## 8. The plan

Done: the three escrows with the abstract escrow; all contracts of the arena;
executor, hire handling, compute rental, gate, sign-in, watcher, delivery;
workroom network; remote control, wallet set-up and negotiation; a theorem for
every invariant and action property that the runs check.

Next: the steps of the liveness arguments that are safety, that is, which call is
open, and to whom, while a dispute, a round or an agreement is overdue.
