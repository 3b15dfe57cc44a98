------------------------------- MODULE MCParts -------------------------------
(***************************************************************************)
(* Parts of the system that share no state: the arena's pool, the          *)
(* provider's job executor, compute sessions, spending gate, handshake     *)
(* watcher, sign-in, files and workroom, the owner's remote control and    *)
(* wallet set-up, the checks of signed messages and the negotiation before *)
(* a hire.  One of them moves in a behaviour, the scenario.                *)
(***************************************************************************)
EXTENDS ArenaPool, WorkerExecutor, ComputeSessions, PermissionGate, HandshakeWatcher,
        FileDelivery, AuthSessions, RemoteSessions, WalletSetup, Workroom,
        NegotiationGuard, NegotiationSession

CONSTANTS a1, a2, a3, a4, w1, w2, w3, c1, k1, k2, j1, n1, n2, f1, f2, f3, x, y, d1, d2, q1, q2,
  h1, h2, h3, b1, b2, b6, m1, m2, t1, t2

VARIABLE scenario

(* The two messages answer one proposal. *)
MCNonceOf == [m \in Messages |-> 1]

(* Two of the longer contents are more than a job may have. *)
MCSizeOf == [c \in Contents \cup {CutShort} |-> IF c = y THEN 3 ELSE IF c = x THEN 2 ELSE 1]

(* Somebody hands out one file: part of a delivery, all of it or another. *)
MCOtherFiles == {[n \in Names |-> IF n = f1 THEN x ELSE Absent]}

MCInit ==
  /\ scenario \in {"arena", "jobs", "sessions", "gate", "watcher", "files", "sign-in", "remote", "set-up",
               "workroom", "guard", "talk"}
  /\ Init /\ WorkerInit /\ SessionsInit /\ GateInit /\ WatcherInit
  /\ DeliveryInit /\ AuthInit /\ RemoteInit /\ SetupInit /\ WorkroomInit
  /\ GuardInit /\ TalkInit
  /\ scenario # "gate" => failOpen /\ limit = Max(Limits)
  /\ scenario # "files" => gated
  /\ scenario # "arena" => feeBps = 0
  /\ scenario # "workroom" => policy = {}
  /\ \A h \in IF scenario = "workroom" THEN ArenaHosts ELSE Hosts : address[h] = b1

(* Rows that are made one after the other have their ids in that order. *)
InOrder(rows, empty) == \A i \in DOMAIN rows : rows[i] # empty => \A o \in 1..(i - 1) : rows[o] # empty

(* One of the wallets is set up, and at most one transaction of it reverts. *)
OneSetUp ==
  /\ \E w \in SetupWallets : done[w] \cup reverted[w] = {}
  /\ \A w \in SetupWallets : \A s, t \in reverted[w] : s = t

MCNext ==
  /\ UNCHANGED scenario
  /\ IF scenario = "arena" THEN Next ELSE UNCHANGED vars
  /\ IF scenario = "jobs" THEN WorkerNext ELSE UNCHANGED workerVars
  /\ IF scenario = "sessions" THEN SessionsNext ELSE UNCHANGED sessionVars
  /\ IF scenario = "gate" THEN GateNext ELSE UNCHANGED gateVars
  /\ IF scenario = "watcher" THEN WatcherNext ELSE UNCHANGED watcherVars
  /\ IF scenario = "files" THEN DeliveryNext ELSE UNCHANGED deliveryVars
  /\ IF scenario = "sign-in" THEN AuthNext ELSE UNCHANGED authVars
  /\ IF scenario = "remote"
     THEN /\ RemoteNext
          /\ InOrder(remote, None)' /\ InOrder(asked, None)' /\ InOrder(simulated, None)'
     ELSE UNCHANGED remoteVars
  /\ IF scenario = "set-up" THEN SetupNext /\ OneSetUp' ELSE UNCHANGED setupVars
  /\ IF scenario = "workroom" THEN WorkroomNext ELSE UNCHANGED workroomVars
  /\ IF scenario = "guard" THEN GuardNext ELSE UNCHANGED guardVars
  /\ IF scenario = "talk" THEN TalkNext /\ InOrder(call, NoCall)' ELSE UNCHANGED talkVars

parts == <<vars, workerVars, sessionVars, gateVars, watcherVars, deliveryVars, authVars, remoteVars,
           setupVars, workroomVars, guardVars, talkVars>>

(* Time passes in the arena only; nobody can claim elsewhere.                *)
ArenaFairness ==
  /\ WF_vars(scenario = "arena" /\ Tick)
  /\ \A r \in Rounds, a \in Agents : WF_vars(Claim(r, a) \/ RefundUnresolved(r, a))

MCSpec == MCInit /\ [][MCNext]_<<scenario, parts>> /\ WorkerFairness /\ ArenaFairness
=============================================================================
