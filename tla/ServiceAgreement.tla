-------------------------- MODULE ServiceAgreement --------------------------
(***************************************************************************)
(* The hire escrow, contracts/src/ServiceAgreement.sol.  A client escrows   *)
(* the price when it proposes an agreement; the provider accepts, commits a *)
(* deliverable, and is paid when the client verifies it or the window to do *)
(* so has passed.  Revisions and disputes are decided by another contract,  *)
(* DisputeModule, which is not in the repository: it answers with a status  *)
(* and amounts, and this contract moves the money.                          *)
(*                                                                          *)
(* Payments are pushed: a recipient that refuses ETH makes the whole call   *)
(* revert.  A call is one atomic step, because every function writes its    *)
(* state before it pays; a call that reverts is no step.  The clock is      *)
(* block.timestamp, in abstract ticks, and is never 0.                      *)
(***************************************************************************)
EXTENDS Integers, FiniteSets, Functions

CONSTANTS
  Users,            \* the accounts that call the contract or are paid by it
  Clients,          \* those of them that propose agreements
  Providers,        \* those of them that agreements are proposed to
  Treasuries,       \* the accounts the owner may make the protocol treasury
  Refusers,         \* the accounts that do not accept ETH
  NoUser,           \* address(0) where an account is expected
  Tokens,           \* payment tokens, ETH among them
  ETH,              \* address(0) where a token is expected
  Prices,           \* prices proposed
  Deadlines,        \* deadlines proposed
  Awards,           \* what a decision that splits the price may award the provider
  FeeChoices,       \* protocolFeeBps values the owner may set
  PauseChoices,     \* whether the guardian may pause and resume
  LegacyChoices,    \* whether the owner may turn the legacy fulfil mode on and off
  VERIFY_WINDOW,    \* ticks a client has to verify (3 days)
  DISPUTE_TIMEOUT,  \* ticks before a dispute can be refunded (30 days)
  MaxAgreements,    \* bound: agreements ever proposed
  MaxTime           \* bound: the last tick

MAX_PROTOCOL_FEE_BPS == 100
BPS_DENOMINATOR == 10000

ASSUME UsersAssumption ==
  /\ NoUser \notin Users
  /\ Clients \subseteq Users
  /\ Providers \subseteq Users
  /\ Treasuries \subseteq Users
  /\ Refusers \subseteq Users
  /\ IsFiniteSet(Users)
ASSUME AmountsAssumption ==
  /\ ETH \in Tokens
  /\ Prices \subseteq Nat \ {0}
  /\ Deadlines \subseteq Nat
  /\ Awards \subseteq Nat
  /\ FeeChoices \subseteq 0..MAX_PROTOCOL_FEE_BPS
  /\ PauseChoices \subseteq BOOLEAN
  /\ LegacyChoices \subseteq BOOLEAN
  /\ VERIFY_WINDOW \in Nat
  /\ DISPUTE_TIMEOUT \in Nat
  /\ MaxAgreements \in Nat
  /\ MaxTime \in Nat

VARIABLES
  now,                 \* block.timestamp
  agreements,          \* _agreements[id]
  nextId,              \* _nextId, the number of agreements proposed
  balance,             \* what the contract holds of each token
  received,            \* received[user][token]: what it has paid out to whom
  allowedTokens,       \* allowedTokens
  protocolFeeBps,      \* protocolFeeBps
  protocolTreasury,    \* protocolTreasury, NoUser when unset
  paused,              \* guardian.isPaused()
  legacyFulfill        \* legacyFulfillEnabled, and the providers are trusted with it

config == <<allowedTokens, protocolFeeBps, protocolTreasury, paused, legacyFulfill>>
vars == <<now, agreements, nextId, balance, received, config>>

Ids == 1..MaxAgreements

Status == {"PROPOSED", "ACCEPTED", "PENDING_VERIFICATION", "FULFILLED", "DISPUTED",
           "CANCELLED", "REVISION_REQUESTED", "REVISED", "PARTIAL_SETTLEMENT",
           "MUTUAL_CANCEL", "ESCALATED_TO_HUMAN", "ESCALATED_TO_ARBITRATION"}

(* The zero-initialised struct; createdAt and the hashes are only recorded. *)
NoAgreement ==
  [client |-> NoUser, provider |-> NoUser, price |-> 0, token |-> ETH, deadline |-> 0,
   status |-> "PROPOSED", resolvedAt |-> 0, verifyWindowEnd |-> 0]

Is(a, statuses) == a <= nextId /\ agreements[a].status \in statuses

-----------------------------------------------------------------------------
(* DisputeModule, as far as this contract sees it. *)

TerminalStatuses == {"FULFILLED", "CANCELLED", "PARTIAL_SETTLEMENT", "MUTUAL_CANCEL"}
DisputeStatuses == {"DISPUTED", "ESCALATED_TO_HUMAN", "ESCALATED_TO_ARBITRATION"}
RevisableStatuses == {"ACCEPTED", "PENDING_VERIFICATION", "REVISED"}
DisputableStatuses == RevisableStatuses \cup {"REVISION_REQUESTED"}

(* Answers to respondToRevision other than an escalation to a dispute. *)
RevisionResponses == {"REVISED", "PARTIAL_SETTLEMENT", "MUTUAL_CANCEL", "ESCALATED_TO_HUMAN"}

(* Decisions on a disputed price: the new status, who gets how much, and    *)
(* whether the provider's part bears the protocol fee.                      *)
Decisions(price) ==
  [status : {"FULFILLED"}, toProvider : {price}, toClient : {0}, withFee : BOOLEAN]
  \cup [status : {"CANCELLED", "MUTUAL_CANCEL"}, toProvider : {0}, toClient : {price},
        withFee : {FALSE}]
  \cup {d \in [status : {"PARTIAL_SETTLEMENT"}, toProvider : Awards,
                toClient : {price - x : x \in Awards}, withFee : BOOLEAN] :
          d.toProvider + d.toClient = price /\ d.toClient >= 0}

-----------------------------------------------------------------------------
(* Payments. *)

ProtocolFee(amount) ==
  IF protocolTreasury = NoUser THEN 0
  ELSE (amount * protocolFeeBps) \div BPS_DENOMINATOR

(* Faulty variant: the treasury gets the fee and the provider all of its    *)
(* part.                                                                    *)
Payout_FeeOnTop(a, d) ==
  [u \in Users |->
     (IF u = protocolTreasury THEN ProtocolFee(d.toProvider) ELSE 0)
     + (IF u = agreements[a].provider THEN d.toProvider ELSE 0)
     + (IF u = agreements[a].client THEN d.toClient ELSE 0)]

(* What a decision d pays to whom: the fee comes out of the provider's part. *)
Payout(a, d) ==
  LET fee == IF d.withFee THEN ProtocolFee(d.toProvider) ELSE 0
  IN  [u \in Users |->
         (IF u = protocolTreasury THEN fee ELSE 0)
         + (IF u = agreements[a].provider THEN d.toProvider - fee ELSE 0)
         + (IF u = agreements[a].client THEN d.toClient ELSE 0)]

(* The agreement is over and its escrow paid out; the call reverts when the *)
(* money is not there or is refused.                                        *)
Settle(a, d) ==
  LET tok == agreements[a].token
      out == Payout(a, d)
      paid == SumFunction(out)
  IN  /\ paid <= balance[tok]
      /\ tok = ETH => \A u \in Refusers : out[u] = 0
      /\ balance' = [balance EXCEPT ![tok] = @ - paid]
      /\ received' = [u \in Users |-> [received[u] EXCEPT ![tok] = @ + out[u]]]
      /\ agreements' = [agreements EXCEPT ![a].status = d.status, ![a].resolvedAt = now]
      /\ UNCHANGED <<now, nextId, config>>

(* The two settlements that need no decision. *)
PayProvider(a) ==
  Settle(a, [status |-> "FULFILLED", toProvider |-> agreements[a].price, toClient |-> 0,
             withFee |-> TRUE])

RefundClient(a) ==
  Settle(a, [status |-> "CANCELLED", toProvider |-> 0, toClient |-> agreements[a].price,
             withFee |-> FALSE])

MoveTo(a, status) ==
  /\ agreements' = [agreements EXCEPT ![a].status = status]
  /\ UNCHANGED <<now, nextId, balance, received, config>>

-----------------------------------------------------------------------------
Init ==
  /\ now = 1
  /\ agreements = [a \in Ids |-> NoAgreement]
  /\ nextId = 0
  /\ balance = [t \in Tokens |-> 0]
  /\ received = [u \in Users |-> [t \in Tokens |-> 0]]
  /\ allowedTokens = {ETH}
  /\ protocolFeeBps \in FeeChoices
  /\ protocolTreasury = NoUser
  /\ paused = FALSE
  /\ legacyFulfill = FALSE

Tick ==
  /\ now < MaxTime
  /\ now' = now + 1
  /\ UNCHANGED <<agreements, nextId, balance, received, config>>

(* Owner and guardian configuration. *)
SetAllowedToken(tok, allowed) ==
  /\ allowedTokens' = IF allowed THEN allowedTokens \cup {tok} ELSE allowedTokens \ {tok}
  /\ UNCHANGED <<now, agreements, nextId, balance, received, protocolFeeBps,
                 protocolTreasury, paused, legacyFulfill>>

SetProtocolFee(bps) ==
  /\ bps <= MAX_PROTOCOL_FEE_BPS
  /\ protocolFeeBps' = bps
  /\ UNCHANGED <<now, agreements, nextId, balance, received, allowedTokens,
                 protocolTreasury, paused, legacyFulfill>>

SetProtocolTreasury(user) ==
  /\ protocolTreasury' = user
  /\ UNCHANGED <<now, agreements, nextId, balance, received, allowedTokens,
                 protocolFeeBps, paused, legacyFulfill>>

SetLegacyFulfill(enabled) ==
  /\ legacyFulfill' = enabled
  /\ UNCHANGED <<now, agreements, nextId, balance, received, allowedTokens,
                 protocolFeeBps, protocolTreasury, paused>>

Pause(pause) ==
  /\ paused' = pause
  /\ UNCHANGED <<now, agreements, nextId, balance, received, allowedTokens,
                 protocolFeeBps, protocolTreasury, legacyFulfill>>

-----------------------------------------------------------------------------
(* The hire life cycle.  Proposals end early enough (MaxTime) for the       *)
(* windows that follow to close within the clock's bound.                   *)
Propose(client, provider, price, tok, deadline) ==
  /\ nextId < MaxAgreements
  /\ deadline + VERIFY_WINDOW < MaxTime
  /\ ~paused
  /\ provider # client
  /\ now < deadline
  /\ tok \in allowedTokens
  /\ nextId' = nextId + 1
  /\ agreements' = [agreements EXCEPT ![nextId + 1] =
       [client |-> client, provider |-> provider, price |-> price, token |-> tok,
        deadline |-> deadline, status |-> "PROPOSED", resolvedAt |-> 0,
        verifyWindowEnd |-> 0]]
  /\ balance' = [balance EXCEPT ![tok] = @ + price]
  /\ UNCHANGED <<now, received, config>>

(* Called by the provider. *)
Accept(a) ==
  /\ ~paused
  /\ Is(a, {"PROPOSED"})
  /\ MoveTo(a, "ACCEPTED")

(* Called by a provider trusted to release its own payment. *)
Fulfill(a) ==
  /\ ~paused
  /\ legacyFulfill
  /\ Is(a, {"ACCEPTED", "REVISED"})
  /\ now <= agreements[a].deadline
  /\ PayProvider(a)

(* Called by the provider. *)
CommitDeliverable(a) ==
  /\ ~paused
  /\ Is(a, {"ACCEPTED", "REVISED"})
  /\ now <= agreements[a].deadline
  /\ agreements' = [agreements EXCEPT ![a].status = "PENDING_VERIFICATION",
                                      ![a].verifyWindowEnd = now + VERIFY_WINDOW]
  /\ UNCHANGED <<now, nextId, balance, received, config>>

(* Called by the client. *)
VerifyDeliverable(a) ==
  /\ ~paused
  /\ Is(a, {"PENDING_VERIFICATION"})
  /\ PayProvider(a)

(* Faulty variant: a pause stops it too. *)
AutoRelease_WhenNotPaused(a) ==
  /\ ~paused
  /\ Is(a, {"PENDING_VERIFICATION"})
  /\ now > agreements[a].verifyWindowEnd
  /\ PayProvider(a)

(* Called by anyone, also while the protocol is paused. *)
AutoRelease(a) ==
  /\ Is(a, {"PENDING_VERIFICATION"})
  /\ now > agreements[a].verifyWindowEnd
  /\ PayProvider(a)

(* Called by the client. *)
Cancel(a) ==
  /\ Is(a, {"PROPOSED"})
  /\ RefundClient(a)

(* Faulty variant: the code before fix B-03. *)
ExpiredCancel_PartialSettlement(a) ==
  /\ Is(a, {"ACCEPTED", "REVISED", "REVISION_REQUESTED", "PARTIAL_SETTLEMENT",
            "ESCALATED_TO_HUMAN"})
  /\ now > agreements[a].deadline
  /\ RefundClient(a)

(* Called by the client. *)
ExpiredCancel(a) ==
  /\ Is(a, {"ACCEPTED", "REVISED", "REVISION_REQUESTED", "ESCALATED_TO_HUMAN"})
  /\ now > agreements[a].deadline
  /\ RefundClient(a)

-----------------------------------------------------------------------------
(* Revisions and disputes. *)

(* Called by the client. *)
RequestRevision(a) ==
  /\ Is(a, RevisableStatuses)
  /\ MoveTo(a, "REVISION_REQUESTED")

(* dispute, directDispute, escalateToDispute, and an escalation in          *)
(* respondToRevision.  Disputes are opened early enough (MaxTime) to time   *)
(* out within the clock's bound.                                            *)
OpenFormalDispute(a) ==
  /\ now + DISPUTE_TIMEOUT < MaxTime
  /\ Is(a, DisputableStatuses)
  /\ agreements' = [agreements EXCEPT
       ![a].status = "DISPUTED",
       ![a].resolvedAt = IF @ = 0 THEN now ELSE @]
  /\ UNCHANGED <<now, nextId, balance, received, config>>

(* Called by the provider; no answer pays anything out. *)
RespondToRevision(a) ==
  /\ Is(a, {"REVISION_REQUESTED"})
  /\ \/ \E response \in RevisionResponses : MoveTo(a, response)
     \/ OpenFormalDispute(a)

(* Called by either party: the panel may now be complete. *)
NominateArbitrator(a) ==
  /\ Is(a, {"DISPUTED"})
  /\ MoveTo(a, "ESCALATED_TO_ARBITRATION")

RequestHumanEscalation(a) ==
  /\ Is(a, {"DISPUTED", "ESCALATED_TO_ARBITRATION"})
  /\ MoveTo(a, "ESCALATED_TO_HUMAN")

(* The vote that makes a majority. *)
CastArbitrationVote(a) ==
  /\ Is(a, {"ESCALATED_TO_ARBITRATION"})
  /\ \/ \E d \in Decisions(agreements[a].price) :
          Settle(a, d)
     \/ MoveTo(a, "ESCALATED_TO_HUMAN")

(* Called by the owner: one of the two parties gets the price. *)
OwnerResolveDispute(a) ==
  /\ Is(a, {"DISPUTED", "ESCALATED_TO_HUMAN"})
  /\ \E d \in Decisions(agreements[a].price) :
       /\ d.status \in {"FULFILLED", "CANCELLED"}
       /\ Settle(a, d)

(* Called by the owner: a decision, or the request for a human one, which   *)
(* writes the time of the call or the time the dispute was opened.          *)
ResolveDisputeDetailed(a) ==
  /\ Is(a, DisputeStatuses)
  /\ \/ \E d \in Decisions(agreements[a].price) :
          Settle(a, d)
     \/ \E time \in {now, agreements[a].resolvedAt} :
          /\ agreements' = [agreements EXCEPT
               ![a].status = "ESCALATED_TO_HUMAN", ![a].resolvedAt = time]
          /\ UNCHANGED <<now, nextId, balance, received, config>>

(* Called by anyone. *)
ExpiredDisputeRefund(a) ==
  /\ Is(a, DisputeStatuses)
  /\ now > agreements[a].resolvedAt + DISPUTE_TIMEOUT
  /\ RefundClient(a)

-----------------------------------------------------------------------------
ConfigNext ==
  \/ \E tok \in Tokens, allowed \in BOOLEAN : SetAllowedToken(tok, allowed)
  \/ \E bps \in FeeChoices : SetProtocolFee(bps)
  \/ \E user \in Treasuries : SetProtocolTreasury(user)
  \/ \E enabled \in LegacyChoices : SetLegacyFulfill(enabled)
  \/ \E pause \in PauseChoices : Pause(pause)

HireNext(a) ==
  \/ Accept(a)
  \/ Fulfill(a)
  \/ CommitDeliverable(a)
  \/ VerifyDeliverable(a)
  \/ AutoRelease(a)
  \/ Cancel(a)
  \/ ExpiredCancel(a)

DisputeNext(a) ==
  \/ RequestRevision(a)
  \/ RespondToRevision(a)
  \/ OpenFormalDispute(a)
  \/ NominateArbitrator(a)
  \/ RequestHumanEscalation(a)
  \/ CastArbitrationVote(a)
  \/ OwnerResolveDispute(a)
  \/ ResolveDisputeDetailed(a)
  \/ ExpiredDisputeRefund(a)

Next ==
  \/ Tick
  \/ ConfigNext
  \/ \E client \in Clients, provider \in Providers, price \in Prices, tok \in Tokens,
        deadline \in Deadlines : Propose(client, provider, price, tok, deadline)
  \/ \E a \in Ids : HireNext(a) \/ DisputeNext(a)

Spec == Init /\ [][Next]_vars

(* Time passes; an agreement whose deadline has passed is cancelled by its  *)
(* client; what anyone may call once a window is over is called by the      *)
(* party that is paid.                                                      *)
FairSpec ==
  /\ Spec
  /\ WF_vars(Tick)
  /\ \A a \in Ids :
       WF_vars(AutoRelease(a)) /\ WF_vars(ExpiredCancel(a)) /\ WF_vars(ExpiredDisputeRefund(a))

-----------------------------------------------------------------------------
(* Properties. *)

AgreementType ==
  [client : Users \cup {NoUser}, provider : Users \cup {NoUser}, price : Nat,
   token : Tokens, deadline : Nat, status : Status, resolvedAt : Nat,
   verifyWindowEnd : Nat]

TypeOK ==
  /\ now \in Nat \ {0}
  /\ agreements \in [Ids -> AgreementType]
  /\ nextId \in 0..MaxAgreements
  /\ balance \in [Tokens -> Nat]
  /\ received \in [Users -> [Tokens -> Nat]]
  /\ allowedTokens \subseteq Tokens
  /\ protocolFeeBps \in 0..MAX_PROTOCOL_FEE_BPS
  /\ protocolTreasury \in Users \cup {NoUser}
  /\ paused \in BOOLEAN
  /\ legacyFulfill \in BOOLEAN

(* The escrow of an agreement is gone when a settlement or a decision has   *)
(* written resolvedAt; a revision answered with a terminal status has not.  *)
Settled(a) == agreements[a].status \in TerminalStatuses /\ agreements[a].resolvedAt # 0

LockedIn(a, t) ==
  IF agreements[a].token = t /\ ~Settled(a) THEN agreements[a].price ELSE 0

(* The contract against the escrow of EscrowLedger: credit is what accounts *)
(* were paid, and the vault all that ever came in.                          *)
Ledger == INSTANCE EscrowLedger WITH
  Accounts <- Users,
  Escrows <- Ids,
  locked <- [a \in Ids |-> [t \in Tokens |-> LockedIn(a, t)]],
  credit <- received,
  vault <- [t \in Tokens |-> balance[t] + SumFunction([u \in Users |-> received[u][t]])]

(* Every call either leaves the money alone or moves it for one agreement,  *)
(* and then all of it: whatever a decision splits and whatever the fee      *)
(* rounds, the parties and the treasury together get exactly the price.     *)
ImplementsLedger == Ledger!Spec

(* The terms never change after the proposal, and an agreement that is      *)
(* settled stays exactly as it was settled, so it cannot pay out again.     *)
SettledOnce ==
  [][\A a \in 1..nextId :
       /\ \A f \in {"client", "provider", "price", "token", "deadline"} :
            agreements'[a][f] = agreements[a][f]
       /\ Settled(a) => agreements'[a] = agreements[a]]_vars

(* No agreement that was accepted stays in the hands of parties that do     *)
(* nothing, whatever the pause does: it is settled, or disputed; and a      *)
(* dispute that nobody takes up is refunded.  The treasury must take its    *)
(* fee: one that refuses ETH stops every settlement that has a fee.         *)
AgreementsEnd ==
  [](protocolTreasury \notin Refusers) =>
    \A a \in Ids :
      /\ Is(a, DisputableStatuses) ~> ~Is(a, DisputableStatuses)
      /\ Is(a, {"DISPUTED"}) ~> ~Is(a, {"DISPUTED"})

(* What docs/state-machine.md says of the terminal states: their payout has *)
(* been executed, nothing of the price is left in the contract.             *)
TerminalPaidOut ==
  \A t \in Tokens :
    balance[t] = SumFunction([a \in Ids |->
      IF agreements[a].token = t /\ agreements[a].status \notin TerminalStatuses
      THEN agreements[a].price ELSE 0])
=============================================================================
