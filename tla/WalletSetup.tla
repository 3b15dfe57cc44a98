----------------------------- MODULE WalletSetup -----------------------------
(***************************************************************************)
(* How the command line sets an owner's wallet up                          *)
(* (packages/arc402-cli/src/commands/wallet.ts; config.ts): deploy with    *)
(* its onboarding ceremony, onboard, set-guardian, governance setup and    *)
(* use.  The chain, the configuration file and the guardian's key file     *)
(* survive a crash; the command under way does not.                        *)
(*                                                                         *)
(* One command runs at a time, and not as root: the key file is written    *)
(* with mode 0400, and writing it again throws.  A transaction is mined in *)
(* the step that sends it; that a later command does not see it yet is one *)
(* of the reads that fail.  A command has a list of steps left.  "limits"  *)
(* stands for all transactions that are sent when the chain does not have  *)
(* them yet and that nothing else depends on: the machine key, the         *)
(* registration of the wallet with the policy engine, the velocity limit   *)
(* and those per category; "whitelist" for one of the contracts.  The      *)
(* passkey, the workroom and the daemon of a ceremony and a guardian key   *)
(* kept in an old configuration file are left out.                         *)
(***************************************************************************)
EXTENDS Integers, Sequences

CONSTANTS MaxWallets, MaxKeys   \* bounds

ASSUME SetupAssumption == MaxWallets \in Nat /\ MaxKeys \in Nat

VARIABLES
  deployed,    \* how many wallets there are: their ids are 1..deployed
  done,        \* the set-up transactions mined for each wallet
  reverted,    \* those mined and reverted
  guardian,    \* of each wallet
  configured,  \* walletContractAddress and onboardingProgress of the configuration
  keyFile,     \* guardian.key
  held,        \* guardian keys that were ever written to it; the user may move it
  generated,   \* how many guardian keys were generated
  rotated,     \* those set-guardian and governance setup generated
  command,     \* the command under way
  elsewhere    \* wallets registered by agent register

setupVars == <<deployed, done, reverted, guardian, configured, keyFile, held, generated, rotated,
               command, elsewhere>>
onChain == <<deployed, done, reverted, guardian, elsewhere>>
guardianKeys == <<keyFile, held, generated, rotated>>

SetupWallets == 1..MaxWallets
NoWallet == 0
NoGuardianKey == 0
UserKey == -1      \* the user has the key, the command line never had
NoCommand == [name |-> "none", wallet |-> NoWallet, todo |-> <<>>, key |-> NoGuardianKey]

SetupInit ==
  /\ deployed = 0
  /\ done = [w \in SetupWallets |-> {}]
  /\ reverted = [w \in SetupWallets |-> {}]
  /\ guardian = [w \in SetupWallets |-> NoGuardianKey]
  /\ configured = [wallet |-> NoWallet, progress |-> NoWallet]
  /\ keyFile = NoGuardianKey
  /\ held = {} /\ generated = 0 /\ rotated = {}
  /\ command = NoCommand
  /\ elsewhere = {}

-----------------------------------------------------------------------------
(* Faulty variant: the agent is registered before its contracts are         *)
(* whitelisted.                                                             *)
Ceremony_RegisterFirst ==
  <<"progress", "guardian", "limits", "agent", "register", "defi", "whitelist", "end">>

(* runCompleteOnboardingCeremony *)
Ceremony ==
  <<"progress", "guardian", "limits", "agent", "defi", "whitelist", "register", "end">>

(* deploy with a stored private key: saveGuardianKey, then the wallet's     *)
(* address, setGuardian, runWalletOnboardingCeremony                        *)
HotKeyDeploy == <<"keyFile", "config", "setGuardian", "limits", "defi", "end">>

Onboarding == <<"limits", "defi", "whitelist", "end">>

SetGuardian == <<"newKey", "setGuardian", "keepKey">>
GovernanceSetup == <<"newKey", "defi", "setGuardian", "limits", "keepKey">>
WithoutGuardian == <<"defi", "limits">>

Transactions == {"limits", "defi", "whitelist", "register"}

(* What loadConfig returns: the progress of another wallet is dropped. *)
Loaded(c) == [c EXCEPT !.progress = IF c.wallet = c.progress THEN @ ELSE NoWallet]

Begin(name, w, todo) ==
  command' = [name |-> name, wallet |-> w, todo |-> todo, key |-> NoGuardianKey]

(* deploy up to its transaction.  With WalletConnect, a ceremony whose      *)
(* progress is in the configuration is resumed from its first step.         *)
StartDeploy(kind, force) ==
  LET c == IF force THEN [wallet |-> NoWallet, progress |-> NoWallet] ELSE Loaded(configured)
  IN /\ command = NoCommand
     /\ configured' = c
     /\ IF kind = "ceremony" /\ c.progress # NoWallet
        THEN Begin("ceremony", c.wallet, Ceremony)
        ELSE Begin(kind, NoWallet, <<"deploy">>)
     /\ UNCHANGED <<onChain, guardianKeys>>

(* onboard, set-guardian, governance setup of the configured wallet *)
StartCommand(name, todo) ==
  /\ command = NoCommand /\ configured.wallet # NoWallet
  /\ configured' = Loaded(configured)
  /\ Begin(name, configured.wallet, todo)
  /\ UNCHANGED <<onChain, guardianKeys>>

(* wallet use *)
UseWallet(w) ==
  /\ command = NoCommand /\ w <= deployed
  /\ configured' = [Loaded(configured) EXCEPT !.wallet = w]
  /\ UNCHANGED <<onChain, guardianKeys, command>>

-----------------------------------------------------------------------------
AtStep(s) == command.todo # <<>> /\ Head(command.todo) = s

(* The steps of the command from k on; none are left when it returns *)
Continue(k) ==
  command' = IF k > Len(command.todo) THEN NoCommand
             ELSE [command EXCEPT !.todo = SubSeq(@, k, Len(@))]

(* The wallet is deployed, its address is still to be saved. *)
DeployMined ==
  /\ AtStep("deploy") /\ deployed < MaxWallets
  /\ deployed' = deployed + 1
  /\ command' = [command EXCEPT !.wallet = deployed', !.todo =
       CASE command.name = "ceremony" -> <<"config">> \o Ceremony
         [] command.name = "hotKey" -> HotKeyDeploy
         [] command.name = "bare" -> <<"config">>]
  /\ UNCHANGED <<done, reverted, guardian, elsewhere, configured, guardianKeys>>

SaveConfig ==
  /\ AtStep("config") \/ AtStep("progress")
  /\ configured' = IF AtStep("config") THEN [configured EXCEPT !.wallet = command.wallet]
                   ELSE [configured EXCEPT !.progress = command.wallet]
  /\ Continue(2)
  /\ UNCHANGED <<onChain, guardianKeys>>

(* What the chain already has is skipped, when it can be read; a deploy     *)
(* with a stored key and governance setup set the limits anyway.            *)
SkipStep ==
  LET w == command.wallet
      unasked == {"register"} \cup (IF command.name \in {"hotKey", "governance"} THEN {"limits"} ELSE {})
  IN /\ \/ \E s \in Transactions \ unasked : AtStep(s) /\ s \in done[w]
        \/ AtStep("guardian") /\ guardian[w] # NoGuardianKey
     /\ Continue(2)
     /\ UNCHANGED <<onChain, configured, guardianKeys>>

(* isRegistered: whoever is registered skips the access, the whitelist and  *)
(* the registration.                                                        *)
CheckAgent ==
  /\ AtStep("agent")
  /\ \/ "register" \in done[command.wallet] /\ Continue(5)
     \/ Continue(2)
  /\ UNCHANGED <<onChain, configured, guardianKeys>>

(* A transaction, mined or reverted, which only a deploy with a stored key  *)
(* notices                                                                  *)
SendStep(s) ==
  LET w == command.wallet
  IN /\ AtStep(s)
     /\ \/ done' = [done EXCEPT ![w] = @ \cup {s}] /\ Continue(2) /\ UNCHANGED reverted
        \/ /\ reverted' = [reverted EXCEPT ![w] = @ \cup {s}]
           /\ IF command.name = "hotKey" THEN command' = NoCommand ELSE Continue(2)
           /\ UNCHANGED done
     /\ UNCHANGED <<deployed, guardian, elsewhere, configured, guardianKeys>>

(* Faulty variant: the key is generated, and written after the transaction. *)
WriteNewKey_NotYet(then) ==
  /\ generated < MaxKeys
  /\ generated' = generated + 1
  /\ command' = [command EXCEPT !.todo = then, !.key = generated']
  /\ UNCHANGED <<keyFile, held>>

(* A new guardian key, in its file before the chain hears of it *)
WriteNewKey(then) ==
  /\ generated < MaxKeys
  /\ generated' = generated + 1
  /\ IF keyFile # NoGuardianKey
     THEN command' = NoCommand /\ UNCHANGED <<keyFile, held>>
     ELSE /\ keyFile' = generated' /\ held' = held \cup {generated'}
          /\ command' = [command EXCEPT !.todo = then, !.key = generated']

(* The ceremony asks for a guardian: none, an address, or a new key. *)
ChooseGuardian ==
  LET w == command.wallet
      register == <<"setGuardian">> \o Tail(command.todo)
  IN /\ AtStep("guardian")
     /\ \/ Continue(2) /\ UNCHANGED guardianKeys
        \/ command' = [command EXCEPT !.todo = register, !.key = UserKey] /\ UNCHANGED guardianKeys
        \/ WriteNewKey(register) /\ UNCHANGED rotated
     /\ UNCHANGED <<onChain, configured>>

DeployKey ==
  /\ AtStep("keyFile")
  /\ WriteNewKey(Tail(command.todo))
  /\ UNCHANGED <<onChain, configured, rotated>>

(* set-guardian and governance setup keep their new key in memory; the      *)
(* owner may leave the guardian out of governance setup.                    *)
GenerateKey ==
  /\ AtStep("newKey")
  /\ \/ /\ generated < MaxKeys
        /\ generated' = generated + 1 /\ rotated' = rotated \cup {generated'}
        /\ command' = [command EXCEPT !.todo = Tail(@), !.key = generated']
     \/ /\ command.name = "governance"
        /\ command' = [command EXCEPT !.todo = WithoutGuardian]
        /\ UNCHANGED <<generated, rotated>>
  /\ UNCHANGED <<onChain, configured, keyFile, held>>

SetGuardianMined ==
  /\ AtStep("setGuardian")
  /\ \/ guardian' = [guardian EXCEPT ![command.wallet] = command.key] /\ Continue(2)
     \/ /\ UNCHANGED guardian
        /\ IF command.name = "hotKey" THEN command' = NoCommand ELSE Continue(2)
  /\ UNCHANGED <<deployed, done, reverted, elsewhere, configured, guardianKeys>>

(* saveGuardianKey after the transaction *)
KeepKey ==
  /\ AtStep("keepKey")
  /\ IF keyFile = NoGuardianKey
     THEN keyFile' = command.key /\ held' = held \cup {command.key}
     ELSE UNCHANGED <<keyFile, held>>
  /\ command' = NoCommand
  /\ UNCHANGED <<onChain, configured, generated, rotated>>

(* The command reports that it is complete; a ceremony clears its progress. *)
Finish ==
  /\ AtStep("end")
  /\ configured' = IF command.name = "ceremony" THEN [configured EXCEPT !.progress = NoWallet]
                   ELSE configured
  /\ command' = NoCommand
  /\ UNCHANGED <<onChain, guardianKeys>>

(* The owner refuses, a call throws, or the machine stops. *)
CommandDies ==
  /\ command # NoCommand
  /\ command' = NoCommand
  /\ UNCHANGED <<onChain, configured, guardianKeys>>

(* "Move offline for security" *)
MoveKey ==
  /\ keyFile # NoGuardianKey
  /\ keyFile' = NoGuardianKey
  /\ UNCHANGED <<onChain, configured, held, generated, rotated, command>>

(* agent register, which whitelists nothing *)
RegisterAgent(w) ==
  /\ w <= deployed /\ "register" \notin done[w] /\ command = NoCommand
  /\ done' = [done EXCEPT ![w] = @ \cup {"register"}]
  /\ elsewhere' = elsewhere \cup {w}
  /\ UNCHANGED <<deployed, reverted, guardian, configured, guardianKeys, command>>

SetupNext ==
  \/ \E kind \in {"ceremony", "hotKey", "bare"}, force \in BOOLEAN : StartDeploy(kind, force)
  \/ StartCommand("onboard", Onboarding)
  \/ StartCommand("set-guardian", SetGuardian)
  \/ StartCommand("governance", GovernanceSetup)
  \/ \E w \in SetupWallets : UseWallet(w) \/ RegisterAgent(w)
  \/ \E s \in Transactions : SendStep(s)
  \/ DeployMined \/ SaveConfig \/ SkipStep \/ CheckAgent \/ ChooseGuardian \/ DeployKey
  \/ GenerateKey \/ SetGuardianMined \/ KeepKey \/ Finish \/ CommandDies \/ MoveKey

SetupSpec == SetupInit /\ [][SetupNext]_setupVars

-----------------------------------------------------------------------------
SetupNames == {"none", "ceremony", "hotKey", "bare", "onboard", "set-guardian", "governance"}

Steps == Transactions \cup {"deploy", "config", "progress", "guardian", "agent", "keyFile", "newKey",
                            "setGuardian", "keepKey", "end"}

CommandType == [name : SetupNames, wallet : 0..deployed, todo : Seq(Steps), key : -1..generated]

SetupTypeOK ==
  /\ deployed \in 0..MaxWallets
  /\ {done, reverted} \subseteq [SetupWallets -> SUBSET Transactions]
  /\ guardian \in [SetupWallets -> -1..generated]
  /\ configured \in [wallet : 0..deployed, progress : 0..deployed]
  /\ keyFile \in 0..generated /\ held \cup rotated \subseteq 1..generated
  /\ generated \in 0..MaxKeys /\ elsewhere \subseteq 1..deployed
  /\ command \in CommandType

Promised(name) ==
  CASE name = "ceremony" -> {"limits", "defi", "whitelist", "register"}
    [] name = "hotKey" -> {"limits", "defi"}
    [] name = "onboard" -> {"limits", "defi", "whitelist"}

(* When a command reports that it is complete, every transaction it names   *)
(* was mined, by itself or an earlier command, across crashes and           *)
(* resumptions, or was sent and reverted.  (A wallet that agent register    *)
(* registered misses the access and the whitelist.)                         *)
FinishedIsDone ==
  AtStep("end") =>
    LET w == command.wallet
    IN Promised(command.name) \subseteq
         done[w] \cup reverted[w] \cup (IF w \in elsewhere THEN {"defi", "whitelist"} ELSE {})

(* The key of a guardian that a deploy registered was written to disk.      *)
(* (set-guardian and governance setup register first, and lose a key when   *)
(* they die before they write it, or when an older one is in the file.)     *)
DeployedKeysHeld ==
  \A w \in 1..deployed : guardian[w] \in held \cup rotated \cup {NoGuardianKey, UserKey}

(* A set-up that is reported as complete is complete, and the wallet can be *)
(* frozen with the key that was kept (only its owner can unfreeze it).      *)
SetupDelivers == FinishedIsDone /\ DeployedKeysHeld
=============================================================================
