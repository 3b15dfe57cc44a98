-------------------------- MODULE NegotiationGuard --------------------------
(***************************************************************************)
(* The guard that checks the signed messages of a negotiation              *)
(* (reference/sdk/src/negotiation-guard.ts).  It waits for the registry in *)
(* the middle of a check, so checks overlap.  The messages are those of    *)
(* one sender; one with a bad signature or form changes nothing.           *)
(*                                                                         *)
(* What is signed has the nonce as 32 bytes, and zero for none             *)
(* (computeMessageDigest); the guard remembers it as the text of the copy  *)
(* it was shown.  A nonce has more than one text: with or without the      *)
(* zeros that fill it up, in either case of its digits.                    *)
(***************************************************************************)
EXTENDS Naturals

CONSTANTS
  Messages,             \* signed messages
  NonceOf,              \* the nonce a message has, or refers to
  Spellings,            \* the ways a copy may write a nonce
  Verifies,             \* calls of verify
  Tolerance, NonceTTL,  \* timestampToleranceSeconds, nonceCacheTtlMs
  RegistryTimeout,      \* how long the registry may take to answer
  MaxGuardTime          \* bound

(* 24 hours are longer than twice a minute and the wait for an answer.      *)
ASSUME GuardAssumption ==
  /\ NonceOf \in [Messages -> Nat]
  /\ {Tolerance, NonceTTL, RegistryTimeout} \subseteq Nat /\ MaxGuardTime \in Nat \ {0}
  /\ NonceTTL >= 2 * Tolerance + RegistryTimeout

VARIABLES
  guardTime,
  timestamp,    \* of each message, 0 while it is not signed
  verifying,    \* each call, the copy it checks and when it began
  nonceCache,   \* keys and when they expire
  accepted      \* the calls that returned valid since the cache was cleared

guardVars == <<guardTime, timestamp, verifying, nonceCache, accepted>>

NotCalled == [message |-> "none", spelling |-> "none", since |-> 0]

GuardInit ==
  /\ guardTime = 1
  /\ timestamp = [m \in Messages |-> 0]
  /\ verifying = [v \in Verifies |-> NotCalled]
  /\ nonceCache = {} /\ accepted = {}

Waiting == {v \in Verifies \ accepted : verifying[v] # NotCalled}

(* The registry answers, or fails, in time.                                 *)
GuardTick ==
  /\ guardTime < MaxGuardTime
  /\ \A v \in Waiting : guardTime < verifying[v].since + RegistryTimeout
  /\ guardTime' = guardTime + 1
  /\ UNCHANGED <<timestamp, verifying, nonceCache, accepted>>

(* The sender's clock may be ahead by one.                                  *)
SignMessage(m, t) ==
  /\ timestamp[m] = 0
  /\ t \in guardTime..(guardTime + 1)
  /\ timestamp' = [timestamp EXCEPT ![m] = t]
  /\ UNCHANGED <<guardTime, verifying, nonceCache, accepted>>

(* The expiry of a proposal is not signed: it is what the copy says, and a  *)
(* copy that says it is over changes nothing.                               *)
Timely(m) ==
  /\ timestamp[m] # 0
  /\ guardTime <= timestamp[m] + Tolerance /\ timestamp[m] <= guardTime + Tolerance

(* The text of the nonce and the timestamp of the copy a call checks        *)
Key(c) == <<NonceOf[c.message], c.spelling, timestamp[c.message]>>
Remembered == {n \in nonceCache : guardTime <= n.expiry}
Replayed(c) == \E n \in Remembered : n.key = Key(c)

(* verify up to its question to the registry *)
VerifyMessage(v, m, s) ==
  /\ verifying[v] = NotCalled /\ Timely(m)
  /\ verifying' = [verifying EXCEPT ![v] = [message |-> m, spelling |-> s, since |-> guardTime]]
  /\ UNCHANGED <<guardTime, timestamp, nonceCache, accepted>>

(* Faulty variant: a key is kept while its message may arrive, and no       *)
(* longer, however long the registry takes.                                 *)
Expiry_WhileTimely(c) == timestamp[c.message] + Tolerance

Expiry(c) == guardTime + NonceTTL

(* The registry knows the signer, or cannot be reached.                     *)
MessageVerified(v) ==
  /\ v \in Waiting
  /\ LET c == verifying[v] IN
     IF Replayed(c)
     THEN /\ nonceCache' = Remembered
          /\ verifying' = [verifying EXCEPT ![v] = NotCalled]
          /\ UNCHANGED accepted
     ELSE /\ nonceCache' = Remembered \cup {[key |-> Key(c), expiry |-> Expiry(c)]}
          /\ accepted' = accepted \cup {v}
          /\ UNCHANGED verifying
  /\ UNCHANGED <<guardTime, timestamp>>

(* The registry does not know the signer.                                   *)
NotRegistered(v) ==
  /\ v \in Waiting
  /\ verifying' = [verifying EXCEPT ![v] = NotCalled]
  /\ UNCHANGED <<guardTime, timestamp, nonceCache, accepted>>

(* clearNonceCache, "testing / restart"                                     *)
ClearNonceCache ==
  /\ nonceCache' = {}
  /\ accepted' = {}
  /\ verifying' = [v \in Verifies |-> IF v \in Waiting THEN verifying[v] ELSE NotCalled]
  /\ UNCHANGED <<guardTime, timestamp>>

GuardNext ==
  \/ GuardTick \/ ClearNonceCache
  \/ \E m \in Messages, t \in 1..(MaxGuardTime + 1) : SignMessage(m, t)
  \/ \E v \in Verifies :
       \/ MessageVerified(v) \/ NotRegistered(v)
       \/ \E m \in Messages, s \in Spellings : VerifyMessage(v, m, s)

GuardSpec == GuardInit /\ [][GuardNext]_guardVars

-----------------------------------------------------------------------------
GuardTypeOK ==
  /\ guardTime \in 1..MaxGuardTime
  /\ timestamp \in [Messages -> 0..(MaxGuardTime + 1)]
  /\ verifying \in [Verifies -> {NotCalled} \cup
                      [message : Messages, spelling : Spellings, since : 1..MaxGuardTime]]
  /\ accepted \subseteq Verifies
  /\ nonceCache \subseteq [key : Nat \X Spellings \X Nat, expiry : Nat]

(* However the checks overlap and however long the registry takes, of the   *)
(* copies of a message that write its nonce alike one is found valid: its   *)
(* key is remembered for longer than another could pass.                    *)
ValidOnce ==
  \A v, w \in accepted : v # w => Key(verifying[v]) # Key(verifying[w])

(* What docs/openclaw-node-setup.md says: what was signed once cannot be    *)
(* replayed.  It does not hold: README, section 6.                          *)
NotReplayed ==
  \A v, w \in accepted : v # w => verifying[v].message # verifying[w].message
=============================================================================
