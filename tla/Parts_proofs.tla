----------------------------- MODULE Parts_proofs -----------------------------
(***************************************************************************)
(* Proofs about the parts that MCParts checks.  First what runs on the side *)
(* of a wallet's owner, or between the owner and a counterparty: the guard  *)
(* of signed negotiation messages, the negotiation before a hire, the       *)
(* remote control of the daemon and the set-up of a wallet.  Then the       *)
(* provider's daemon and the container its work runs in: the handshake      *)
(* watcher, the spending gate, the owner's sign-in, the workroom's network, *)
(* rented compute and the delivery of files.  At the end the arena's pool,  *)
(* which shares MCParts with them.                                          *)
(***************************************************************************)
EXTENDS NegotiationGuard, NegotiationSession, RemoteSessions, WalletSetup,
        HandshakeWatcher, PermissionGate, ComputeSessions, AuthSessions, Workroom,
        FileDelivery, ArenaPool, SumTheorems

-----------------------------------------------------------------------------
(* The guard of signed messages.  A call that waits for the registry began *)
(* while its message was timely, and the registry answers in time.          *)
ChecksTimely ==
  /\ \A v \in Verifies : verifying[v] # NotCalled =>
       LET t == timestamp[verifying[v].message]
       IN /\ t # 0 /\ verifying[v].since <= guardTime
          /\ verifying[v].since <= t + Tolerance /\ t <= verifying[v].since + Tolerance
  /\ \A v \in Waiting : guardTime <= verifying[v].since + RegistryTimeout
  /\ \A v \in accepted : verifying[v] # NotCalled

(* The moment from which no copy of the message can be under way.           *)
LastAnswer(c) == timestamp[c.message] + Tolerance + RegistryTimeout

(* The key of a message found valid stays in the cache until then.          *)
KeptWhileTimely ==
  \A v \in accepted :
    LET c == verifying[v]
    IN \/ guardTime > LastAnswer(c)
       \/ \E n \in nonceCache : n.key = Key(c) /\ n.expiry >= LastAnswer(c)

GuardInv == GuardTypeOK /\ ChecksTimely /\ KeptWhileTimely /\ ValidOnce

LEMMA GuardInitInv == GuardInit => GuardInv
<1> SUFFICES ASSUME GuardInit PROVE GuardInv
  OBVIOUS
<1> USE GuardAssumption
<1>1. GuardTypeOK
  BY DEF GuardInit, GuardTypeOK, NotCalled
<1>2. ChecksTimely /\ KeptWhileTimely /\ ValidOnce
  BY DEF GuardInit, ChecksTimely, KeptWhileTimely, ValidOnce, Waiting
<1>. QED  BY <1>1, <1>2 DEF GuardInv

(* A message that a call works on is signed, and has a natural timestamp.    *)
LEMMA CalledMessage ==
  ASSUME GuardTypeOK, NEW v \in Verifies, verifying[v] # NotCalled
  PROVE  /\ verifying[v].message \in Messages /\ verifying[v].since \in 1..MaxGuardTime
         /\ timestamp[verifying[v].message] \in Nat
         /\ LastAnswer(verifying[v]) \in Nat
         /\ Key(verifying[v]) \in Nat \X Spellings \X Nat
  BY GuardAssumption DEF GuardTypeOK, LastAnswer, Key

(* Two copies with one key have one last moment.                             *)
LEMMA SameKeySameEnd ==
  ASSUME NEW c, NEW d, Key(c) = Key(d)
  PROVE  LastAnswer(c) = LastAnswer(d)
  BY DEF Key, LastAnswer

(* Time goes on, and messages stay as they are.                              *)
LEMMA GuardTickInv == GuardInv /\ GuardTick => GuardInv'
<1> SUFFICES ASSUME GuardInv, GuardTick PROVE GuardInv'
  OBVIOUS
<1> USE GuardAssumption DEF GuardInv
<1>1. GuardTypeOK'
  BY DEF GuardTypeOK, GuardTick
<1>2. Waiting' = Waiting
  BY DEF Waiting, GuardTick
<1>3. ChecksTimely'
  <2>1. ASSUME NEW v \in Verifies, verifying[v] # NotCalled
        PROVE  verifying[v].since <= guardTime + 1
    BY <2>1, CalledMessage DEF ChecksTimely, GuardTypeOK
  <2>2. ASSUME NEW v \in Waiting PROVE guardTime + 1 <= verifying[v].since + RegistryTimeout
    <3>1. v \in Verifies /\ verifying[v] # NotCalled
      BY DEF Waiting
    <3>. QED
      BY <3>1, CalledMessage DEF GuardTick, GuardTypeOK
  <2>. QED
    BY <1>2, <2>1, <2>2 DEF ChecksTimely, GuardTick
<1>4. KeptWhileTimely'
  <2>1. ASSUME NEW m PROVE LastAnswer(m)' = LastAnswer(m) /\ Key(m)' = Key(m)
    BY DEF GuardTick, LastAnswer, Key
  <2>2. ASSUME NEW v \in accepted, guardTime > LastAnswer(verifying[v])
        PROVE  guardTime + 1 > LastAnswer(verifying[v])
    BY <2>2, CalledMessage DEF ChecksTimely, GuardTypeOK
  <2>. QED
    BY <2>1, <2>2 DEF KeptWhileTimely, GuardTick
<1>5. ValidOnce'
  BY DEF ValidOnce, GuardTick, Key
<1>. QED  BY <1>1, <1>3, <1>4, <1>5

(* Only a message that no call has seen is signed.                           *)
LEMMA SignMessageInv ==
  ASSUME GuardInv, NEW n \in Messages, NEW t \in 1..(MaxGuardTime + 1),
         SignMessage(n, t)
  PROVE  GuardInv'
<1> USE GuardAssumption DEF GuardInv
<1>1. GuardTypeOK'
  BY DEF GuardTypeOK, SignMessage
<1>2. ASSUME NEW v \in Verifies, verifying[v] # NotCalled
      PROVE  /\ timestamp'[verifying[v].message] = timestamp[verifying[v].message]
             /\ Key(verifying[v])' = Key(verifying[v])
             /\ LastAnswer(verifying[v])' = LastAnswer(verifying[v])
  <2>1. verifying[v].message # n
    BY <1>2 DEF ChecksTimely, SignMessage
  <2>2. timestamp'[verifying[v].message] = timestamp[verifying[v].message]
    BY <1>2, <2>1, CalledMessage DEF SignMessage, GuardTypeOK
  <2>. QED  BY <2>2 DEF Key, LastAnswer, SignMessage
<1>3. Waiting' = Waiting
  BY DEF Waiting, SignMessage
<1>4. ChecksTimely'
  BY <1>2, <1>3 DEF ChecksTimely, SignMessage
<1>5. KeptWhileTimely'
  BY <1>2 DEF KeptWhileTimely, ChecksTimely, SignMessage, GuardTypeOK
<1>6. ValidOnce'
  BY <1>2 DEF ValidOnce, ChecksTimely, SignMessage, GuardTypeOK
<1>. QED  BY <1>1, <1>4, <1>5, <1>6

(* A call begins with a message that is timely.                              *)
LEMMA VerifyMessageInv ==
  ASSUME GuardInv, NEW v \in Verifies, NEW m \in Messages, NEW s \in Spellings,
         VerifyMessage(v, m, s)
  PROVE  GuardInv'
<1> USE GuardAssumption DEF GuardInv
<1> DEFINE c == [message |-> m, spelling |-> s, since |-> guardTime]
<1>1. c \in [message : Messages, spelling : Spellings, since : 1..MaxGuardTime] /\ c # NotCalled
      /\ c.message = m /\ c.since = guardTime
  BY DEF GuardTypeOK, NotCalled
<1>2. v \notin accepted
  BY DEF VerifyMessage, ChecksTimely
<1>3. /\ verifying' = [verifying EXCEPT ![v] = c]
      /\ \A w \in Verifies : verifying'[w] = IF w = v THEN c ELSE verifying[w]
  BY <1>1 DEF VerifyMessage, GuardTypeOK
<1>4. UNCHANGED <<guardTime, timestamp, nonceCache, accepted>>
  BY DEF VerifyMessage
<1>. HIDE DEF c
<1>5. GuardTypeOK'
  BY <1>1, <1>3, <1>4 DEF GuardTypeOK
<1>6. ChecksTimely'
  <2>1. Waiting' = Waiting \cup {v}
    BY <1>1, <1>2, <1>3, <1>4 DEF Waiting
  <2>2. guardTime \in Nat /\ timestamp[m] \in Nat
    BY DEF GuardTypeOK
  <2>. QED
    BY <1>1, <1>2, <1>3, <1>4, <2>1, <2>2 DEF ChecksTimely, VerifyMessage, Timely, Waiting
<1>7. \A w \in accepted : verifying'[w] = verifying[w]
  BY <1>2, <1>3 DEF GuardTypeOK
<1>8. \A o : LastAnswer(o)' = LastAnswer(o) /\ Key(o)' = Key(o)
  BY <1>4 DEF LastAnswer, Key
<1>9. KeptWhileTimely'
  BY <1>4, <1>7, <1>8 DEF KeptWhileTimely
<1>10. ValidOnce'
  BY <1>4, <1>7, <1>8 DEF ValidOnce
<1>. QED  BY <1>5, <1>6, <1>9, <1>10

(* Some calls end with nothing found valid, and their records are cleared;   *)
(* the keys that are cleared were not remembered.                            *)
CallsEnd(over) ==
  /\ verifying' = [v \in Verifies |-> IF v \in over THEN NotCalled ELSE verifying[v]]
  /\ UNCHANGED <<guardTime, timestamp, accepted>>

LEMMA CallsEndInv ==
  ASSUME GuardInv, NEW over \in SUBSET Waiting, CallsEnd(over),
         nonceCache' \subseteq nonceCache,
         \A n \in Remembered : n \in nonceCache'
  PROVE  GuardInv'
<1> USE GuardAssumption DEF GuardInv
<1>1. \A v \in accepted : v \in Verifies /\ verifying'[v] = verifying[v]
  BY DEF Waiting, CallsEnd, GuardTypeOK
<1>2. GuardTypeOK'
  BY DEF GuardTypeOK, CallsEnd
<1>3. Waiting' \subseteq Waiting
  BY DEF Waiting, CallsEnd
<1>4. ChecksTimely'
  BY <1>1, <1>3 DEF ChecksTimely, CallsEnd, Waiting
<1>5. ValidOnce'
  BY <1>1 DEF ValidOnce, Key, CallsEnd
<1>6. KeptWhileTimely'
  <2> SUFFICES ASSUME NEW v \in accepted,
                      ~ (guardTime > LastAnswer(verifying[v]))
               PROVE  \E n \in nonceCache' : /\ n.key = Key(verifying[v])
                                             /\ n.expiry >= LastAnswer(verifying[v])
    BY <1>1 DEF KeptWhileTimely, CallsEnd, Key, LastAnswer
  <2>1. LastAnswer(verifying[v]) \in Nat /\ guardTime \in Nat
    BY CalledMessage DEF ChecksTimely, GuardTypeOK
  <2>2. PICK n \in nonceCache : /\ n.key = Key(verifying[v])
                                /\ n.expiry >= LastAnswer(verifying[v])
    BY DEF KeptWhileTimely
  <2>3. n \in Remembered
    BY <2>1, <2>2 DEF Remembered, GuardTypeOK
  <2>. QED  BY <2>2, <2>3
<1>. QED  BY <1>2, <1>4, <1>5, <1>6

LEMMA NotRegisteredInv ==
  ASSUME GuardInv, NEW v \in Verifies, NotRegistered(v)
  PROVE  GuardInv'
<1>1. CallsEnd({v}) /\ v \in Waiting /\ nonceCache' = nonceCache
  BY DEF NotRegistered, CallsEnd, GuardInv, GuardTypeOK
<1>2. \A n \in Remembered : n \in nonceCache'
  BY <1>1 DEF Remembered
<1>. QED  BY <1>1, <1>2, CallsEndInv

(* A call that is answered finds the key of its message, or no call before   *)
(* it had that key.                                                          *)
LEMMA MessageVerifiedInv ==
  ASSUME GuardInv, NEW v \in Verifies, MessageVerified(v)
  PROVE  GuardInv'
<1> USE GuardAssumption
<1> DEFINE c == verifying[v]
<1>1. v \in Waiting /\ v \notin accepted /\ verifying[v] # NotCalled
  BY DEF MessageVerified, Waiting
<1>2. CASE Replayed(c)
  <2>1. CallsEnd({v}) /\ nonceCache' = Remembered
    BY <1>2 DEF MessageVerified, CallsEnd, GuardInv, GuardTypeOK
  <2>2. Remembered \subseteq nonceCache
    BY DEF Remembered
  <2>. QED  BY <1>1, <2>1, <2>2, CallsEndInv
<1>3. CASE ~Replayed(c)
  <2> DEFINE n == [key |-> Key(c), expiry |-> Expiry(c)]
  <2>1. /\ nonceCache' = Remembered \cup {n} /\ accepted' = accepted \cup {v}
        /\ UNCHANGED <<verifying, guardTime, timestamp>>
    BY <1>3 DEF MessageVerified
  <2>2. /\ c.message \in Messages /\ c.since \in 1..MaxGuardTime
        /\ timestamp[c.message] \in Nat /\ LastAnswer(c) \in Nat /\ Key(c) \in Nat \X Spellings \X Nat
    BY <1>1, CalledMessage DEF GuardInv
  <2>3. guardTime \in 1..MaxGuardTime
    BY DEF GuardInv, GuardTypeOK
  <2>4. /\ c.since <= guardTime
        /\ c.since <= timestamp[c.message] + Tolerance
        /\ timestamp[c.message] <= c.since + Tolerance
        /\ guardTime <= c.since + RegistryTimeout
    BY <1>1 DEF GuardInv, ChecksTimely
  <2>5. guardTime <= LastAnswer(c) /\ Expiry(c) >= LastAnswer(c) /\ Expiry(c) \in Nat
    BY <2>2, <2>3, <2>4 DEF LastAnswer, Expiry
  <2>6. n.key = Key(c) /\ n.expiry >= LastAnswer(c) /\ n \in [key : Nat \X Spellings \X Nat, expiry : Nat]
    BY <2>2, <2>5
  <2>. HIDE DEF n, c
  <2>7. ASSUME NEW w \in accepted
        PROVE  /\ w \in Verifies /\ LastAnswer(verifying[w]) \in Nat
               /\ Key(verifying[w]) # Key(c)
    <3>1. w \in Verifies /\ LastAnswer(verifying[w]) \in Nat
      BY CalledMessage DEF GuardInv, GuardTypeOK, ChecksTimely
    <3>2. SUFFICES ASSUME Key(verifying[w]) = Key(c) PROVE FALSE
      BY <3>1
    <3>3. LastAnswer(verifying[w]) = LastAnswer(c)
      BY <3>2, SameKeySameEnd
    <3>4. PICK o \in nonceCache : o.key = Key(c) /\ o.expiry >= LastAnswer(c)
      BY <2>2, <2>3, <2>5, <3>2, <3>3 DEF GuardInv, KeptWhileTimely
    <3>5. o \in Remembered
      BY <2>2, <2>3, <2>5, <3>4 DEF Remembered, GuardInv, GuardTypeOK
    <3>. QED  BY <1>3, <3>4, <3>5 DEF Replayed
  <2>8. GuardTypeOK'
    BY <2>1, <2>6 DEF GuardInv, GuardTypeOK, Remembered
  <2>9. ChecksTimely'
    BY <1>1, <2>1 DEF GuardInv, ChecksTimely, Waiting
  <2>10. ValidOnce'
    <3>1. \A o : Key(o)' = Key(o)
      BY <2>1 DEF Key
    <3>2. verifying[v] = c
      BY DEF c
    <3>. QED  BY <2>1, <2>7, <3>1, <3>2 DEF GuardInv, ValidOnce
  <2>11. KeptWhileTimely'
    <3>1. \A o : LastAnswer(o)' = LastAnswer(o) /\ Key(o)' = Key(o)
      BY <2>1 DEF LastAnswer, Key
    <3>2. ASSUME NEW w \in accepted, ~ (guardTime > LastAnswer(verifying[w]))
          PROVE  \E o \in nonceCache' : /\ o.key = Key(verifying[w])
                                        /\ o.expiry >= LastAnswer(verifying[w])
      <4>1. PICK o \in nonceCache : /\ o.key = Key(verifying[w])
                                    /\ o.expiry >= LastAnswer(verifying[w])
        BY <3>2 DEF GuardInv, KeptWhileTimely
      <4>2. o \in Remembered
        BY <2>3, <2>7, <3>2, <4>1 DEF Remembered, GuardInv, GuardTypeOK
      <4>. QED  BY <2>1, <4>1, <4>2
    <3>3. verifying[v] = c
      BY DEF c
    <3>. QED  BY <2>1, <2>6, <3>1, <3>2, <3>3 DEF KeptWhileTimely
  <2>. QED  BY <2>8, <2>9, <2>10, <2>11 DEF GuardInv
<1>. QED  BY <1>2, <1>3

(* Clearing the cache begins a new account of what was found valid.          *)
LEMMA ClearNonceCacheInv == GuardInv /\ ClearNonceCache => GuardInv'
<1> SUFFICES ASSUME GuardInv, ClearNonceCache PROVE GuardInv'
  OBVIOUS
<1> USE GuardAssumption DEF GuardInv, ClearNonceCache
<1>1. GuardTypeOK'
  BY DEF GuardTypeOK
<1>2. Waiting' = Waiting
  BY DEF Waiting
<1>3. ChecksTimely'
  BY <1>2 DEF ChecksTimely, Waiting
<1>4. KeptWhileTimely' /\ ValidOnce'
  BY DEF KeptWhileTimely, ValidOnce
<1>. QED  BY <1>1, <1>3, <1>4

(* Of the copies of a message that write its nonce alike one is found valid, *)
(* whatever the tolerance, the life of a key and the registry's delay are,   *)
(* as long as the key outlives them.                                         *)
THEOREM GuardValidOnce == GuardSpec => [](GuardTypeOK /\ ValidOnce)
<1>1. GuardInv /\ [GuardNext]_guardVars => GuardInv'
  <2> SUFFICES ASSUME GuardInv, [GuardNext]_guardVars PROVE GuardInv'
    OBVIOUS
  <2>1. CASE UNCHANGED guardVars
    BY <2>1 DEF guardVars, GuardInv, GuardTypeOK, ChecksTimely, KeptWhileTimely, ValidOnce,
                Waiting, LastAnswer, Key
  <2>2. CASE GuardTick
    BY <2>2, GuardTickInv
  <2>3. CASE ClearNonceCache
    BY <2>3, ClearNonceCacheInv
  <2>4. ASSUME NEW m \in Messages, NEW t \in 1..(MaxGuardTime + 1), SignMessage(m, t)
        PROVE  GuardInv'
    BY <2>4, SignMessageInv
  <2>5. ASSUME NEW v \in Verifies, MessageVerified(v) PROVE GuardInv'
    BY <2>5, MessageVerifiedInv
  <2>6. ASSUME NEW v \in Verifies, NotRegistered(v) PROVE GuardInv'
    BY <2>6, NotRegisteredInv
  <2>7. ASSUME NEW v \in Verifies, NEW m \in Messages, NEW s \in Spellings,
               VerifyMessage(v, m, s)
        PROVE  GuardInv'
    BY <2>7, VerifyMessageInv
  <2>. QED
    BY <2>1, <2>2, <2>3, <2>4, <2>5, <2>6, <2>7 DEF GuardNext
<1>2. GuardInv => GuardTypeOK /\ ValidOnce
  BY DEF GuardInv
<1>. QED
  BY GuardInitInv, <1>1, <1>2, PTL DEF GuardSpec

-----------------------------------------------------------------------------
(* The negotiation.  The hash of an accepted session commits to a transcript *)
(* that ends with the acceptance of what was agreed.                         *)
Agrees(s) ==
  s.state = "ACCEPTED" =>
    LET last == s.transcript[Len(s.transcript)]
    IN s.transcript # <<>> /\ s.agreed \in Terms /\ last.type = "ACCEPT" /\ last.terms = s.agreed

(* What a process holds: a copy that may be written, an answer that may be   *)
(* added to it, or what is hired.                                            *)
CallAgrees(r) ==
  /\ Agrees(r.copy) /\ Len(r.copy.messages) <= MaxTalk
  /\ r.message.type = "ACCEPT" => r.message.terms \in Terms
  /\ r.at = "hiring" => r.copy.state = "ACCEPTED" /\ r.message.terms = r.copy.agreed

TalkInv ==
  /\ TalkTypeOK /\ HiredAsAgreed
  /\ Agrees(negotiation)
  /\ \A c \in Commands : CallAgrees(call[c])

(* The sessions that no command wrote. *)
LEMMA BlankSessions ==
  ASSUME NEW s \in {NoNegotiation, Torn, NewNegotiation}
  PROVE  s \in SessionType /\ s.messages = <<>> /\ Len(s.messages) = 0 /\ Agrees(s)
<1>1. /\ NewNegotiation.messages = <<>> /\ NoNegotiation.messages = <<>> /\ Torn.messages = <<>>
      /\ NewNegotiation.state # "ACCEPTED" /\ NoNegotiation.state # "ACCEPTED"
      /\ Torn.state # "ACCEPTED"
  BY DEF NewNegotiation, NoNegotiation, Torn
<1>2. <<>> \in Seq(MessageType) /\ Len(<<>>) = 0
  OBVIOUS
<1>3. NewNegotiation \in SessionType
  BY <1>2 DEF NewNegotiation, SessionType
<1>4. NoNegotiation \in SessionType /\ Torn \in SessionType
  BY <1>3 DEF NoNegotiation, Torn, SessionType
<1>. QED  BY <1>1, <1>2, <1>3, <1>4 DEF Agrees

LEMMA TalkInitInv == TalkInit => TalkInv
<1> SUFFICES ASSUME TalkInit PROVE TalkInv
  OBVIOUS
<1>1. NoNegotiation \in SessionType /\ Len(NoNegotiation.messages) = 0 /\ Agrees(NoNegotiation)
  BY BlankSessions
<1>2. /\ NoCall \in CallType /\ NoCall.copy = NoNegotiation /\ NoCall.at = "none"
      /\ NoCall.message.type = "none"
  BY <1>1 DEF NoCall, CallType, MessageType
<1>3. TalkTypeOK
  BY <1>1, <1>2, TalkAssumption DEF TalkInit, TalkTypeOK
<1>4. HiredAsAgreed
  BY DEF TalkInit, HiredAsAgreed
<1>5. CallAgrees(NoCall)
  BY <1>1, <1>2, TalkAssumption DEF CallAgrees
<1>. QED  BY <1>1, <1>3, <1>4, <1>5 DEF TalkInv, TalkInit

(* A step of a process, in which it changes its own record, perhaps the      *)
(* file, and proposes nothing.                                               *)
LEMMA TalkProcessStep ==
  ASSUME TalkInv, NEW c \in Commands, NEW r \in CallType, CallAgrees(r),
         call' = [call EXCEPT ![c] = r], UNCHANGED agreements,
         negotiation' \in SessionType, Len(negotiation'.messages) <= MaxTalk,
         Agrees(negotiation')
  PROVE  TalkInv'
<1>1. TalkTypeOK'
  BY DEF TalkInv, TalkTypeOK
<1>2. HiredAsAgreed'
  BY DEF TalkInv, HiredAsAgreed
<1>3. \A d \in Commands : CallAgrees(call'[d])
  BY DEF TalkInv, TalkTypeOK
<1>. QED  BY <1>1, <1>2, <1>3 DEF TalkInv, CallAgrees, Agrees

(* One that only makes the process a new record.                             *)
LEMMA TalkGoesStep ==
  ASSUME TalkInv, NEW c \in Commands, NEW at, NEW message, NEW copy,
         Goes(c, at, message, copy), UNCHANGED <<negotiation, agreements>>,
         [at |-> at, message |-> message, copy |-> copy] \in CallType,
         Agrees(copy), Len(copy.messages) <= MaxTalk,
         message.type = "ACCEPT" => message.terms \in Terms,
         at = "hiring" => copy.state = "ACCEPTED" /\ message.terms = copy.agreed
  PROVE  TalkInv'
<1> DEFINE r == [at |-> at, message |-> message, copy |-> copy]
<1>1. r.at = at /\ r.message = message /\ r.copy = copy /\ r \in CallType
  OBVIOUS
<1>2. call' = [call EXCEPT ![c] = r]
  BY DEF Goes
<1>. HIDE DEF r
<1>3. CallAgrees(r)
  BY <1>1 DEF CallAgrees
<1>4. negotiation' \in SessionType /\ Len(negotiation'.messages) <= MaxTalk /\ Agrees(negotiation')
  BY DEF TalkInv, TalkTypeOK
<1>. QED  BY <1>1, <1>2, <1>3, <1>4, TalkProcessStep

(* One that only says where the process is.                                  *)
LEMMA TalkAtStep ==
  ASSUME TalkInv, NEW c \in Commands, NEW at \in {"writing", "over"},
         call' = [call EXCEPT ![c].at = at], UNCHANGED agreements,
         negotiation' \in SessionType, Len(negotiation'.messages) <= MaxTalk,
         Agrees(negotiation')
  PROVE  TalkInv'
<1> DEFINE r == [call[c] EXCEPT !.at = at]
<1>1. call[c] \in CallType
  BY DEF TalkInv, TalkTypeOK
<1>2. r \in CallType /\ r.at = at /\ r.message = call[c].message /\ r.copy = call[c].copy
  BY <1>1 DEF CallType
<1>3. call' = [call EXCEPT ![c] = r]
  OBVIOUS
<1>. HIDE DEF r
<1>4. CallAgrees(r)
  BY <1>2 DEF CallAgrees, TalkInv
<1>. QED  BY <1>2, <1>3, <1>4, TalkProcessStep

(* Adding an answer keeps the hash on what is agreed.                        *)
LEMMA AddMessageAgrees ==
  ASSUME NEW s \in SessionType, Agrees(s), NEW m \in MessageType,
         m.type = "ACCEPT" => m.terms \in Terms
  PROVE  /\ AddMessage(s, m) \in SessionType /\ Agrees(AddMessage(s, m))
         /\ Len(AddMessage(s, m).messages) = Len(s.messages) + 1
<1> DEFINE messages == Append(s.messages, m)
<1>1. s.messages \in Seq(MessageType)
  BY DEF SessionType
<1>2. /\ messages \in Seq(MessageType) /\ Len(messages) = Len(s.messages) + 1
      /\ messages # <<>> /\ messages[Len(messages)] = m
  BY <1>1
<1>. HIDE DEF messages
<1> DEFINE closed == [s EXCEPT !.messages = messages, !.transcript = messages]
           accepts == [closed EXCEPT !.state = "ACCEPTED", !.agreed = m.terms]
           rejects == [closed EXCEPT !.state = "REJECTED"]
           other == [s EXCEPT !.messages = messages]
<1>3. AddMessage(s, m) = CASE m.type = "ACCEPT" -> accepts
                           [] m.type = "REJECT" -> rejects
                           [] OTHER -> other
  BY DEF AddMessage, messages
<1>4. CASE m.type = "ACCEPT"
  <2>1. /\ accepts \in SessionType /\ accepts.messages = messages
        /\ accepts.transcript = messages /\ accepts.agreed = m.terms
    BY <1>2, <1>4 DEF SessionType
  <2>2. AddMessage(s, m) = accepts
    BY <1>3, <1>4
  <2>. HIDE DEF accepts
  <2>. QED  BY <1>2, <1>4, <2>1, <2>2 DEF Agrees
<1>5. CASE m.type = "REJECT"
  <2>1. rejects \in SessionType /\ rejects.messages = messages /\ rejects.state = "REJECTED"
    BY <1>2 DEF SessionType
  <2>2. AddMessage(s, m) = rejects
    BY <1>3, <1>5
  <2>. HIDE DEF rejects
  <2>. QED  BY <1>2, <2>1, <2>2 DEF Agrees
<1>6. CASE m.type \notin {"ACCEPT", "REJECT"}
  <2>1. /\ other \in SessionType /\ other.messages = messages /\ other.state = s.state
        /\ other.transcript = s.transcript /\ other.agreed = s.agreed
    BY <1>2 DEF SessionType
  <2>2. AddMessage(s, m) = other
    BY <1>3, <1>6
  <2>. HIDE DEF other
  <2>. QED  BY <1>2, <2>1, <2>2 DEF Agrees
<1>. QED  BY <1>4, <1>5, <1>6

LEMMA NegotiateProposeInv ==
  ASSUME TalkInv, NEW c \in Commands, NEW t \in Terms, NegotiatePropose(c, t)
  PROVE  TalkInv'
<1> DEFINE r == [at |-> "signing", message |-> [type |-> "PROPOSE", terms |-> t],
                 copy |-> NoNegotiation]
<1>1. NoNegotiation \in SessionType /\ Len(NoNegotiation.messages) = 0 /\ Agrees(NoNegotiation)
  BY BlankSessions
<1>2. /\ r \in CallType /\ r.copy = NoNegotiation /\ r.at = "signing"
      /\ r.message.type = "PROPOSE"
  BY <1>1 DEF CallType, MessageType
<1>3. call' = [call EXCEPT ![c] = r] /\ UNCHANGED agreements /\ negotiation' = NewNegotiation
  BY DEF NegotiatePropose, Goes
<1>. HIDE DEF r
<1>4. CallAgrees(r)
  BY <1>1, <1>2, TalkAssumption DEF CallAgrees
<1>5. NewNegotiation \in SessionType /\ Len(NewNegotiation.messages) = 0 /\ Agrees(NewNegotiation)
  BY BlankSessions
<1>6. negotiation' \in SessionType /\ Len(negotiation'.messages) <= MaxTalk /\ Agrees(negotiation')
  BY <1>3, <1>5, TalkAssumption
<1>. QED  BY <1>2, <1>3, <1>4, <1>6, TalkProcessStep

LEMMA NegotiateAnswerInv ==
  ASSUME TalkInv, NEW c \in Commands, NEW type \in Types, NEW t \in Terms \cup {NoTerms},
         NegotiateAnswer(c, type, t)
  PROVE  TalkInv'
<1> DEFINE m == [type |-> type, terms |-> t]
<1>1. NoNegotiation \in SessionType /\ Len(NoNegotiation.messages) = 0 /\ Agrees(NoNegotiation)
  BY BlankSessions
<1>2. m \in MessageType /\ (m.type = "ACCEPT" => m.terms \in Terms)
  BY TalkAssumption DEF MessageType, Types, NegotiateAnswer
<1>3. Goes(c, "signing", m, NoNegotiation) /\ UNCHANGED <<negotiation, agreements>>
  BY DEF NegotiateAnswer
<1>. HIDE DEF m
<1>4. [at |-> "signing", message |-> m, copy |-> NoNegotiation] \in CallType
  BY <1>1, <1>2 DEF CallType
<1>5. Len(NoNegotiation.messages) <= MaxTalk
  BY <1>1, TalkAssumption
<1>. QED  BY <1>1, <1>2, <1>3, <1>4, <1>5, TalkGoesStep

LEMMA LoadToAddInv ==
  ASSUME TalkInv, NEW c \in Commands, LoadToAdd(c)
  PROVE  TalkInv'
<1> DEFINE m == call[c].message
           s == AddMessage(negotiation, m)
<1>1. /\ negotiation \in SessionType /\ Agrees(negotiation)
      /\ m \in MessageType /\ (m.type = "ACCEPT" => m.terms \in Terms)
  BY DEF TalkInv, TalkTypeOK, CallType, CallAgrees
<1>2. s \in SessionType /\ Agrees(s) /\ Len(s.messages) = Len(negotiation.messages) + 1
  BY <1>1, AddMessageAgrees
<1>3. Len(s.messages) <= MaxTalk
  BY <1>1, <1>2, TalkAssumption DEF LoadToAdd, SessionType
<1>4. Goes(c, "saving", m, s) /\ UNCHANGED <<negotiation, agreements>>
  BY DEF LoadToAdd
<1>. HIDE DEF m, s
<1>5. [at |-> "saving", message |-> m, copy |-> s] \in CallType
  BY <1>1, <1>2 DEF CallType
<1>. QED  BY <1>1, <1>2, <1>3, <1>4, <1>5, TalkGoesStep

LEMMA SaveBeginsInv ==
  ASSUME TalkInv, NEW c \in Commands, SaveBegins(c)
  PROVE  TalkInv'
<1>1. Torn \in SessionType /\ Len(Torn.messages) = 0 /\ Agrees(Torn)
  BY BlankSessions
<1>2. negotiation' = Torn /\ call' = [call EXCEPT ![c].at = "writing"] /\ UNCHANGED agreements
  BY DEF SaveBegins
<1>3. negotiation' \in SessionType /\ Len(negotiation'.messages) <= MaxTalk /\ Agrees(negotiation')
  BY <1>1, <1>2, TalkAssumption
<1>. QED  BY <1>2, <1>3, TalkAtStep

LEMMA SaveEndsInv ==
  ASSUME TalkInv, NEW c \in Commands, SaveEnds(c)
  PROVE  TalkInv'
<1>1. Torn \in SessionType /\ Len(Torn.messages) = 0 /\ Agrees(Torn)
  BY BlankSessions
<1>2. /\ call[c].copy \in SessionType /\ Len(call[c].copy.messages) <= MaxTalk
      /\ Agrees(call[c].copy)
  BY DEF TalkInv, TalkTypeOK, CallType, CallAgrees
<1>3. /\ negotiation' \in {call[c].copy, Torn} /\ UNCHANGED agreements
      /\ call' = [call EXCEPT ![c].at = "over"]
  BY DEF SaveEnds
<1>4. negotiation' \in SessionType /\ Len(negotiation'.messages) <= MaxTalk /\ Agrees(negotiation')
  BY <1>1, <1>2, <1>3, TalkAssumption
<1>. QED  BY <1>3, <1>4, TalkAtStep

LEMMA HireSessionInv ==
  ASSUME TalkInv, NEW c \in Commands, HireSession(c)
  PROVE  TalkInv'
<1> DEFINE m == [type |-> "HIRE", terms |-> negotiation.agreed]
<1>1. /\ negotiation \in SessionType /\ Agrees(negotiation) /\ Len(negotiation.messages) <= MaxTalk
      /\ negotiation.agreed \in Terms \cup {NoTerms}
  BY DEF TalkInv, TalkTypeOK, SessionType
<1>2. m \in MessageType /\ m.type # "ACCEPT" /\ m.terms = negotiation.agreed
  BY <1>1 DEF MessageType
<1>3. /\ Goes(c, "hiring", m, negotiation) /\ UNCHANGED <<negotiation, agreements>>
      /\ negotiation.state = "ACCEPTED"
  BY DEF HireSession
<1>. HIDE DEF m
<1>4. [at |-> "hiring", message |-> m, copy |-> negotiation] \in CallType
  BY <1>1, <1>2 DEF CallType
<1>. QED  BY <1>1, <1>2, <1>3, <1>4, TalkGoesStep

LEMMA LoadToSetIdInv ==
  ASSUME TalkInv, NEW c \in Commands, LoadToSetId(c)
  PROVE  TalkInv'
<1> DEFINE m == call[c].message
           s == [negotiation EXCEPT !.onChainId = call[c].copy.onChainId]
<1>1. /\ negotiation \in SessionType /\ Agrees(negotiation) /\ Len(negotiation.messages) <= MaxTalk
      /\ m \in MessageType /\ (m.type = "ACCEPT" => m.terms \in Terms)
      /\ call[c].copy.onChainId \in Nat
  BY DEF TalkInv, TalkTypeOK, CallType, CallAgrees, SessionType
<1>2. /\ s \in SessionType /\ s.messages = negotiation.messages /\ s.state = negotiation.state
      /\ s.transcript = negotiation.transcript /\ s.agreed = negotiation.agreed
  BY <1>1 DEF SessionType
<1>3. Goes(c, "saving", m, s) /\ UNCHANGED <<negotiation, agreements>>
  BY DEF LoadToSetId
<1>. HIDE DEF m, s
<1>4. Agrees(s) /\ Len(s.messages) <= MaxTalk
  BY <1>1, <1>2 DEF Agrees
<1>5. [at |-> "saving", message |-> m, copy |-> s] \in CallType
  BY <1>1, <1>2 DEF CallType
<1>. QED  BY <1>1, <1>3, <1>4, <1>5, TalkGoesStep

(* The step that proposes on chain takes terms and hash from one copy.       *)
LEMMA HireProposedInv ==
  ASSUME TalkInv, NEW c \in Commands, HireProposed(c)
  PROVE  TalkInv'
<1> DEFINE s == call[c].copy
           a == [terms |-> call[c].message.terms, transcript |-> s.transcript]
           id == Len(agreements) + 1
           r == [call[c] EXCEPT !.at = "proposed", !.copy.onChainId = id]
<1>1. call[c] \in CallType /\ s \in SessionType /\ agreements \in Seq([terms : Terms, transcript : Seq(MessageType)])
  BY DEF TalkInv, TalkTypeOK, CallType
<1>2. id \in Nat
  BY <1>1
<1>3. /\ s.state = "ACCEPTED" /\ call[c].message.terms = s.agreed /\ Agrees(s)
      /\ Len(s.messages) <= MaxTalk
      /\ (call[c].message.type = "ACCEPT" => call[c].message.terms \in Terms)
  BY DEF TalkInv, HireProposed, CallAgrees
<1>4. /\ s.transcript \in Seq(MessageType) /\ s.agreed \in Terms
      /\ s.transcript[Len(s.transcript)].type = "ACCEPT"
      /\ s.transcript[Len(s.transcript)].terms = s.agreed
  BY <1>1, <1>3 DEF Agrees, SessionType
<1>5. /\ a \in [terms : Terms, transcript : Seq(MessageType)]
      /\ a.terms = s.agreed /\ a.transcript = s.transcript
  BY <1>3, <1>4
<1>6. /\ agreements' = Append(agreements, a) /\ call' = [call EXCEPT ![c] = r]
      /\ UNCHANGED negotiation
  BY DEF HireProposed
<1>7. /\ r \in CallType /\ r.at = "proposed" /\ r.message = call[c].message
      /\ r.copy.state = s.state /\ r.copy.messages = s.messages
      /\ r.copy.transcript = s.transcript /\ r.copy.agreed = s.agreed
  BY <1>1, <1>2 DEF CallType, SessionType
<1>8. agreements' \in Seq([terms : Terms, transcript : Seq(MessageType)])
  <2>. HIDE DEF a
  <2>. QED  BY <1>1, <1>5, <1>6
<1>. HIDE DEF s, a, id, r
<1>9. HiredAsAgreed'
  <2>1. /\ Len(agreements') = Len(agreements) + 1 /\ agreements'[Len(agreements) + 1] = a
        /\ \A i \in 1..Len(agreements) : agreements'[i] = agreements[i]
    BY <1>1, <1>6
  <2> SUFFICES ASSUME NEW i \in 1..(Len(agreements) + 1)
               PROVE  LET last == agreements'[i].transcript[Len(agreements'[i].transcript)]
                      IN last.type = "ACCEPT" /\ last.terms = agreements'[i].terms
    BY <1>8, <2>1 DEF HiredAsAgreed
  <2>2. CASE i = Len(agreements) + 1
    BY <1>4, <1>5, <2>1, <2>2
  <2>3. CASE i \in 1..Len(agreements)
    <3>1. HiredAsAgreed /\ i \in DOMAIN agreements
      BY <1>1, <2>3 DEF TalkInv, TalkTypeOK
    <3>2. LET last == agreements[i].transcript[Len(agreements[i].transcript)]
          IN last.type = "ACCEPT" /\ last.terms = agreements[i].terms
      BY <3>1 DEF HiredAsAgreed
    <3>3. agreements'[i] = agreements[i]
      BY <2>1, <2>3
    <3>. QED  BY <3>2, <3>3
  <2>. QED  BY <1>1, <2>2, <2>3
<1>10. CallAgrees(r)
  BY <1>3, <1>7 DEF CallAgrees, Agrees
<1>11. TalkTypeOK'
  BY <1>6, <1>7, <1>8 DEF TalkInv, TalkTypeOK
<1>12. \A d \in Commands : CallAgrees(call'[d])
  BY <1>6, <1>10 DEF TalkInv, TalkTypeOK
<1>. QED  BY <1>6, <1>9, <1>11, <1>12 DEF TalkInv, CallAgrees, Agrees

LEMMA CommandEndsInv ==
  ASSUME TalkInv, NEW c \in Commands, CommandEnds(c)
  PROVE  TalkInv'
<1>1. negotiation' \in SessionType /\ Len(negotiation'.messages) <= MaxTalk /\ Agrees(negotiation')
  BY DEF CommandEnds, TalkInv, TalkTypeOK
<1>. QED  BY <1>1, TalkAtStep DEF CommandEnds

(* Whatever commands overlap or are killed, the price and deadline proposed  *)
(* on chain are those of the acceptance that ends the hashed transcript.     *)
THEOREM TalkHiredAsAgreed == TalkSpec => [](TalkTypeOK /\ HiredAsAgreed)
<1>1. TalkInv /\ [TalkNext]_talkVars => TalkInv'
  <2> SUFFICES ASSUME TalkInv, [TalkNext]_talkVars PROVE TalkInv'
    OBVIOUS
  <2>1. CASE UNCHANGED talkVars
    BY <2>1 DEF talkVars, TalkInv, TalkTypeOK, HiredAsAgreed, CallAgrees, Agrees
  <2>2. CASE TalkNext
    BY <2>2, NegotiateProposeInv, NegotiateAnswerInv, LoadToAddInv, SaveBeginsInv, SaveEndsInv,
       HireSessionInv, HireProposedInv, LoadToSetIdInv, CommandEndsInv DEF TalkNext
  <2>. QED  BY <2>1, <2>2
<1>2. TalkInv => TalkTypeOK /\ HiredAsAgreed
  BY DEF TalkInv
<1>. QED
  BY TalkInitInv, <1>1, <1>2, PTL DEF TalkSpec

-----------------------------------------------------------------------------
(* The remote control.  Rows are well-formed once they are written; a        *)
(* challenge for a step-up is of one session.                                *)
RowsWellFormed ==
  /\ remoteTime \in Nat
  /\ DOMAIN remote = RemoteIds /\ DOMAIN asked = RemoteChallenges /\ DOMAIN simulated = Simulations
  /\ \A s \in RemoteIds : remote[s] # None =>
       remote[s] \in [expires : Nat, authAt : Nat, stepUpUntil : Nat, lastParty : Parties \cup {"none"}]
  /\ \A c \in RemoteChallenges : asked[c] # None =>
       /\ asked[c] \in [purpose : {"login", "step_up"}, sessions : SUBSET RemoteIds,
                        expires : Nat, usedAt : Int]
       /\ asked[c].usedAt \in -1..remoteTime
       /\ asked[c].purpose = "step_up" => \E s \in RemoteIds : asked[c].sessions = {s}
  /\ \A o \in Simulations : simulated[o] # None =>
       simulated[o] \in [session : RemoteIds, party : Parties \cup {"none"},
                         reasons : SUBSET {"high_value", "other_party", "stale"},
                         at : 0..remoteTime, executed : BOOLEAN]

(* A step-up that the session holds was answered to a challenge of its own.  *)
StepUpAnswered ==
  \A s \in RemoteIds : remote[s] # None /\ remote[s].stepUpUntil # 0 =>
    \E c \in RemoteChallenges :
      /\ asked[c] # None /\ asked[c].purpose = "step_up" /\ asked[c].sessions = {s}
      /\ asked[c].usedAt = remote[s].stepUpUntil - StepUpTTL /\ asked[c].usedAt >= 0

RemoteInv == RowsWellFormed /\ StepUpAnswered /\ StepUpCoversRisk

LEMMA RemoteInitInv == RemoteInit => RemoteInv
  BY DEF RemoteInit, RemoteInv, RowsWellFormed, StepUpAnswered, StepUpCoversRisk

(* What a step must keep of the challenges: those that were answered stay.   *)
AnsweredStay ==
  \A c \in RemoteChallenges :
    asked[c] # None /\ asked[c].usedAt >= 0 => asked'[c] = asked[c]

(* Then a step that changes no session and no simulation keeps the rest.     *)
LEMMA ChallengesStep ==
  ASSUME RemoteInv, RowsWellFormed', AnsweredStay, UNCHANGED <<remote, simulated>>
  PROVE  RemoteInv'
<1>1. StepUpAnswered'
  BY DEF RemoteInv, StepUpAnswered, AnsweredStay
<1>2. StepUpCoversRisk'
  BY DEF RemoteInv, StepUpCoversRisk, AnsweredStay
<1>. QED  BY <1>1, <1>2 DEF RemoteInv

LEMMA CreateChallengeRows ==
  ASSUME RemoteInv, NEW purpose \in {"login", "step_up"}, NEW sessions \in SUBSET RemoteIds,
         purpose = "step_up" => \E s \in RemoteIds : sessions = {s},
         CreateChallenge(purpose, sessions), UNCHANGED <<remoteTime, remote, simulated>>
  PROVE  RowsWellFormed' /\ AnsweredStay
<1> USE RemoteAssumption
<1>1. PICK c \in RemoteChallenges :
        /\ asked[c] = None
        /\ asked' = [asked EXCEPT ![c] = [purpose |-> purpose, sessions |-> sessions,
                       expires |-> remoteTime + StepUpTTL, usedAt |-> -1]]
  BY DEF CreateChallenge
<1>2. AnsweredStay
  BY <1>1 DEF AnsweredStay, RemoteInv, RowsWellFormed
<1>3. RowsWellFormed'
  BY <1>1 DEF RemoteInv, RowsWellFormed
<1>. QED  BY <1>2, <1>3

LEMMA MarkUsedRows ==
  ASSUME RemoteInv, NEW c \in RemoteChallenges, NEW purpose, Usable(c, purpose), MarkUsed(c)
  PROVE  /\ DOMAIN asked' = RemoteChallenges
         /\ \A d \in RemoteChallenges : d # c => asked'[d] = asked[d]
         /\ asked'[c].purpose = asked[c].purpose /\ asked'[c].sessions = asked[c].sessions
         /\ asked'[c].usedAt = remoteTime /\ asked'[c] # None
         /\ asked'[c] \in [purpose : {"login", "step_up"}, sessions : SUBSET RemoteIds,
                           expires : Nat, usedAt : Int]
         /\ AnsweredStay
<1> DEFINE r == [asked[c] EXCEPT !.usedAt = remoteTime]
<1>1. /\ asked[c] \in [purpose : {"login", "step_up"}, sessions : SUBSET RemoteIds,
                       expires : Nat, usedAt : Int]
      /\ asked[c].usedAt = -1 /\ remoteTime \in Nat
  BY DEF RemoteInv, RowsWellFormed, Usable
<1>2. /\ r \in [purpose : {"login", "step_up"}, sessions : SUBSET RemoteIds,
                expires : Nat, usedAt : Int]
      /\ r.purpose = asked[c].purpose /\ r.sessions = asked[c].sessions
      /\ r.usedAt = remoteTime
  BY <1>1
<1>3. r # None
  BY <1>2 DEF None
<1>4. asked' = [asked EXCEPT ![c] = r]
  BY DEF MarkUsed
<1>5. DOMAIN asked = RemoteChallenges
  BY DEF RemoteInv, RowsWellFormed
<1>. HIDE DEF r
<1>6. AnsweredStay
  BY <1>1, <1>4, <1>5 DEF AnsweredStay
<1>. QED  BY <1>2, <1>3, <1>4, <1>5, <1>6

LEMMA IssueLoginInv == RemoteInv /\ IssueLogin => RemoteInv'
<1> SUFFICES ASSUME RemoteInv, IssueLogin PROVE RemoteInv'
  OBVIOUS
<1>1. CreateChallenge("login", {}) /\ UNCHANGED <<remoteTime, remote, simulated>>
  BY DEF IssueLogin
<1>2. RowsWellFormed' /\ AnsweredStay
  BY <1>1, CreateChallengeRows
<1>. QED  BY <1>1, <1>2, ChallengesStep

LEMMA RequestStepUpInv ==
  ASSUME RemoteInv, NEW s \in RemoteIds, RequestStepUp(s)
  PROVE  RemoteInv'
<1>1. CreateChallenge("step_up", {s}) /\ UNCHANGED <<remoteTime, remote, simulated>>
  BY DEF RequestStepUp
<1>2. RowsWellFormed' /\ AnsweredStay
  BY <1>1, CreateChallengeRows
<1>. QED  BY <1>1, <1>2, ChallengesStep

(* The answer to a challenge, which a session is made of or stepped up by.   *)
LEMMA VerifyLoginInv ==
  ASSUME RemoteInv, NEW s \in RemoteIds, NEW c \in RemoteChallenges, VerifyLogin(s, c)
  PROVE  RemoteInv'
<1> USE RemoteAssumption
<1> DEFINE r == [expires |-> remoteTime + SessionTTL, authAt |-> remoteTime,
                 stepUpUntil |-> 0, lastParty |-> "none"]
<1>1. remoteTime \in Nat /\ DOMAIN remote = RemoteIds
  BY DEF RemoteInv, RowsWellFormed
<1>2. /\ r \in [expires : Nat, authAt : Nat, stepUpUntil : Nat, lastParty : Parties \cup {"none"}]
      /\ r.stepUpUntil = 0
  BY <1>1
<1>3. /\ Usable(c, "login") /\ MarkUsed(c) /\ remote' = [remote EXCEPT ![s] = r]
      /\ UNCHANGED <<remoteTime, simulated>>
  BY DEF VerifyLogin
<1>. HIDE DEF r
<1>4. /\ DOMAIN asked' = RemoteChallenges
      /\ \A d \in RemoteChallenges : d # c => asked'[d] = asked[d]
      /\ asked'[c].purpose = asked[c].purpose /\ asked'[c].sessions = asked[c].sessions
      /\ asked'[c].usedAt = remoteTime
      /\ asked'[c] \in [purpose : {"login", "step_up"}, sessions : SUBSET RemoteIds,
                        expires : Nat, usedAt : Int]
      /\ AnsweredStay
  BY <1>3, MarkUsedRows
<1>5. asked[c].purpose = "login"
  BY <1>3 DEF Usable
<1>6. RowsWellFormed'
  BY <1>1, <1>2, <1>3, <1>4, <1>5 DEF RemoteInv, RowsWellFormed
<1>7. StepUpAnswered'
  BY <1>1, <1>2, <1>3, <1>4 DEF RemoteInv, StepUpAnswered, AnsweredStay
<1>8. StepUpCoversRisk'
  BY <1>3, <1>4 DEF RemoteInv, StepUpCoversRisk, AnsweredStay
<1>. QED  BY <1>6, <1>7, <1>8 DEF RemoteInv

LEMMA VerifyStepUpInv ==
  ASSUME RemoteInv, NEW s \in RemoteIds, NEW c \in RemoteChallenges, VerifyStepUp(s, c)
  PROVE  RemoteInv'
<1> USE RemoteAssumption
<1> DEFINE r == [remote[s] EXCEPT !.stepUpUntil = remoteTime + StepUpTTL, !.authAt = remoteTime]
<1>1. remoteTime \in Nat /\ DOMAIN remote = RemoteIds
  BY DEF RemoteInv, RowsWellFormed
<1>2. remote[s] \in [expires : Nat, authAt : Nat, stepUpUntil : Nat, lastParty : Parties \cup {"none"}]
  BY DEF VerifyStepUp, Open, RemoteInv, RowsWellFormed
<1>3. /\ r \in [expires : Nat, authAt : Nat, stepUpUntil : Nat, lastParty : Parties \cup {"none"}]
      /\ r.stepUpUntil = remoteTime + StepUpTTL
  <2>1. remoteTime + StepUpTTL \in Nat
    BY <1>1
  <2>. QED  BY <1>1, <1>2, <2>1
<1>4. /\ Usable(c, "step_up") /\ MarkUsed(c) /\ remote' = [remote EXCEPT ![s] = r]
      /\ s \in asked[c].sessions /\ UNCHANGED <<remoteTime, simulated>>
  BY DEF VerifyStepUp
<1>. HIDE DEF r
<1>5. asked[c].purpose = "step_up" /\ asked[c].sessions = {s}
  BY <1>4 DEF Usable, RemoteInv, RowsWellFormed
<1>6. /\ DOMAIN asked' = RemoteChallenges
      /\ \A d \in RemoteChallenges : d # c => asked'[d] = asked[d]
      /\ asked'[c].purpose = asked[c].purpose /\ asked'[c].sessions = asked[c].sessions
      /\ asked'[c].usedAt = remoteTime /\ asked'[c] # None
      /\ asked'[c] \in [purpose : {"login", "step_up"}, sessions : SUBSET RemoteIds,
                        expires : Nat, usedAt : Int]
      /\ AnsweredStay
  BY <1>4, MarkUsedRows
<1>7. RowsWellFormed'
  BY <1>1, <1>3, <1>4, <1>5, <1>6 DEF RemoteInv, RowsWellFormed
<1>8. StepUpAnswered'
  <2>1. /\ asked'[c] # None /\ asked'[c].purpose = "step_up" /\ asked'[c].sessions = {s}
        /\ asked'[c].usedAt = remote'[s].stepUpUntil - StepUpTTL /\ asked'[c].usedAt >= 0
    BY <1>1, <1>3, <1>4, <1>5, <1>6
  <2>2. \A z \in RemoteIds : z # s => remote'[z] = remote[z]
    BY <1>1, <1>4
  <2>. QED  BY <1>6, <2>1, <2>2 DEF RemoteInv, StepUpAnswered, AnsweredStay
<1>9. StepUpCoversRisk'
  BY <1>4, <1>6 DEF RemoteInv, StepUpCoversRisk, AnsweredStay
<1>. QED  BY <1>7, <1>8, <1>9 DEF RemoteInv

(* A simulation with a reason to step up is recorded only while the step-up  *)
(* that the session holds is fresh.                                          *)
LEMMA SimulateInv ==
  ASSUME RemoteInv, NEW s \in RemoteIds, NEW o \in Simulations,
         NEW party \in Parties \cup {"none"}, NEW value \in {"none", "some", "high"},
         Simulate(s, o, party, value)
  PROVE  RemoteInv'
<1> USE RemoteAssumption
<1> DEFINE reasons == Reasons(s, party, value)
           r == [session |-> s, party |-> party, reasons |-> reasons,
                 at |-> remoteTime, executed |-> FALSE]
<1>1. CASE reasons # {} /\ remote[s].stepUpUntil <= remoteTime
  <2>1. CreateChallenge("step_up", {s}) /\ UNCHANGED <<remoteTime, remote, simulated>>
    BY <1>1 DEF Simulate
  <2>2. RowsWellFormed' /\ AnsweredStay
    BY <2>1, CreateChallengeRows
  <2>. QED  BY <2>1, <2>2, ChallengesStep
<1>2. CASE ~ (reasons # {} /\ remote[s].stepUpUntil <= remoteTime)
  <2>1. /\ simulated' = [simulated EXCEPT ![o] = r] /\ Open(s)
        /\ UNCHANGED <<remoteTime, remote, asked>>
    BY <1>2 DEF Simulate
  <2>2. remoteTime \in Nat /\ DOMAIN simulated = Simulations
    BY DEF RemoteInv, RowsWellFormed
  <2>3. reasons \in SUBSET {"high_value", "other_party", "stale"}
    BY DEF Reasons
  <2>. HIDE DEF reasons
  <2>4. /\ r \in [session : RemoteIds, party : Parties \cup {"none"},
                 reasons : SUBSET {"high_value", "other_party", "stale"},
                 at : 0..remoteTime, executed : BOOLEAN]
        /\ r.session = s /\ r.reasons = reasons /\ r.at = remoteTime
    BY <2>2, <2>3
  <2>. HIDE DEF r
  <2>5. RowsWellFormed'
    BY <2>1, <2>2, <2>4 DEF RemoteInv, RowsWellFormed
  <2>6. StepUpAnswered'
    BY <2>1 DEF RemoteInv, StepUpAnswered
  <2>7. ASSUME reasons # {}
        PROVE  \E c \in RemoteChallenges :
                 /\ asked[c] # None /\ asked[c].purpose = "step_up" /\ asked[c].sessions = {s}
                 /\ asked[c].usedAt \in (remoteTime - StepUpTTL + 1)..remoteTime
                 /\ asked[c].usedAt >= 0
    <3>1. remote[s] # None /\ remote[s].stepUpUntil \in Nat /\ remote[s].stepUpUntil > remoteTime
      BY <1>2, <2>1, <2>2, <2>7 DEF Open, RemoteInv, RowsWellFormed
    <3>2. PICK c \in RemoteChallenges :
            /\ asked[c] # None /\ asked[c].purpose = "step_up" /\ asked[c].sessions = {s}
            /\ asked[c].usedAt = remote[s].stepUpUntil - StepUpTTL /\ asked[c].usedAt >= 0
      BY <2>2, <3>1 DEF RemoteInv, StepUpAnswered
    <3>3. asked[c].usedAt \in -1..remoteTime
      BY <3>2 DEF RemoteInv, RowsWellFormed
    <3>. QED  BY <2>2, <3>1, <3>2, <3>3
  <2>8. \A z \in Simulations : simulated'[z] = IF z = o THEN r ELSE simulated[z]
    BY <2>1, <2>2
  <2>9. StepUpCoversRisk'
    <3>1. ASSUME NEW z \in Simulations, z # o, simulated[z] # None, simulated[z].reasons # {}
          PROVE  \E c \in RemoteChallenges :
                   /\ asked[c] # None /\ asked[c].purpose = "step_up"
                   /\ asked[c].sessions = {simulated[z].session}
                   /\ asked[c].usedAt \in (simulated[z].at - StepUpTTL + 1)..simulated[z].at
                   /\ asked[c].usedAt >= 0
      BY <3>1 DEF RemoteInv, StepUpCoversRisk
    <3>2. asked' = asked
      BY <2>1
    <3>. QED  BY <2>4, <2>7, <2>8, <3>1, <3>2 DEF StepUpCoversRisk
  <2>. QED  BY <2>5, <2>6, <2>9 DEF RemoteInv
<1>. QED  BY <1>1, <1>2

(* An execution changes neither the step-up nor what was simulated.          *)
LEMMA ExecuteInv ==
  ASSUME RemoteInv, NEW s \in RemoteIds, NEW o \in Simulations, Execute(s, o)
  PROVE  RemoteInv'
<1> DEFINE party == IF simulated[o].party = "none" THEN remote[s].lastParty ELSE simulated[o].party
           r == [remote[s] EXCEPT !.lastParty = party]
           ran == [simulated[o] EXCEPT !.executed = TRUE]
<1>1. /\ remote' = [remote EXCEPT ![s] = r] /\ simulated' = [simulated EXCEPT ![o] = ran]
      /\ UNCHANGED <<remoteTime, asked>> /\ remote[s] # None /\ simulated[o] # None
  BY DEF Execute, Open
<1>2. /\ remote[s] \in [expires : Nat, authAt : Nat, stepUpUntil : Nat, lastParty : Parties \cup {"none"}]
      /\ simulated[o] \in [session : RemoteIds, party : Parties \cup {"none"},
                           reasons : SUBSET {"high_value", "other_party", "stale"},
                           at : 0..remoteTime, executed : BOOLEAN]
      /\ DOMAIN remote = RemoteIds /\ DOMAIN simulated = Simulations
  BY <1>1 DEF RemoteInv, RowsWellFormed
<1>3. party \in Parties \cup {"none"}
  BY <1>2
<1>. HIDE DEF party
<1>4. /\ r \in [expires : Nat, authAt : Nat, stepUpUntil : Nat, lastParty : Parties \cup {"none"}]
      /\ r.stepUpUntil = remote[s].stepUpUntil
  BY <1>2, <1>3
<1>5. /\ ran \in [session : RemoteIds, party : Parties \cup {"none"},
                   reasons : SUBSET {"high_value", "other_party", "stale"},
                   at : 0..remoteTime, executed : BOOLEAN]
      /\ ran.session = simulated[o].session /\ ran.reasons = simulated[o].reasons
      /\ ran.at = simulated[o].at
  BY <1>2
<1>. HIDE DEF r, ran
<1>6. RowsWellFormed'
  BY <1>1, <1>2, <1>4, <1>5 DEF RemoteInv, RowsWellFormed
<1>7. StepUpAnswered'
  BY <1>1, <1>2, <1>4 DEF RemoteInv, StepUpAnswered
<1>8. StepUpCoversRisk'
  <2>1. \A z \in Simulations : simulated'[z] = IF z = o THEN ran ELSE simulated[z]
    BY <1>1, <1>2
  <2>2. \A z \in Simulations : simulated'[z] # None =>
          /\ simulated[z] # None /\ simulated'[z].session = simulated[z].session
          /\ simulated'[z].reasons = simulated[z].reasons /\ simulated'[z].at = simulated[z].at
    BY <1>1, <1>5, <2>1
  <2>. QED  BY <1>1, <2>2 DEF RemoteInv, StepUpCoversRisk
<1>. QED  BY <1>6, <1>7, <1>8 DEF RemoteInv

LEMMA RemoteTickInv == RemoteInv /\ RemoteTick => RemoteInv'
<1> SUFFICES ASSUME RemoteInv, RemoteTick PROVE RemoteInv'
  OBVIOUS
<1>1. /\ remoteTime \in Nat /\ remoteTime' = remoteTime + 1
      /\ UNCHANGED <<remote, asked, simulated>>
  BY DEF RemoteTick, RemoteInv, RowsWellFormed
<1>2. 0..remoteTime \subseteq 0..remoteTime' /\ -1..remoteTime \subseteq -1..remoteTime'
  BY <1>1
<1>3. RowsWellFormed'
  BY <1>1, <1>2 DEF RemoteInv, RowsWellFormed
<1>. QED  BY <1>1, <1>3, ChallengesStep DEF AnsweredStay

(* Nothing risky is executed that was not simulated under a fresh step-up of *)
(* its own session, however logins, challenges and sessions interleave.      *)
THEOREM RemoteStepUpCoversRisk == RemoteSpec => []StepUpCoversRisk
<1>1. RemoteInv /\ [RemoteNext]_remoteVars => RemoteInv'
  <2> SUFFICES ASSUME RemoteInv, [RemoteNext]_remoteVars PROVE RemoteInv'
    OBVIOUS
  <2>1. CASE UNCHANGED remoteVars
    BY <2>1 DEF remoteVars, RemoteInv, RowsWellFormed, StepUpAnswered, StepUpCoversRisk
  <2>2. CASE RemoteNext
    BY <2>2, RemoteTickInv, IssueLoginInv, RequestStepUpInv, VerifyLoginInv, VerifyStepUpInv,
       ExecuteInv, SimulateInv DEF RemoteNext
  <2>. QED  BY <2>1, <2>2
<1>2. RemoteInv => StepUpCoversRisk
  BY DEF RemoteInv
<1>. QED
  BY RemoteInitInv, <1>1, <1>2, PTL DEF RemoteSpec

-----------------------------------------------------------------------------
(* The wallet's set-up.  A transaction that a wallet has, tried in vain, or  *)
(* misses since it was registered elsewhere.                                 *)
Accounted(w) ==
  done[w] \cup reverted[w] \cup (IF w \in elsewhere THEN {"defi", "whitelist"} ELSE {})

Has(todo, s) == \E i \in 1..Len(todo) : todo[i] = s

(* The end of a command is its last step, and the registration of the agent  *)
(* the one before, with the access and the whitelist checked before that.    *)
StepsOrdered(todo) ==
  \A i \in 1..Len(todo) :
    /\ todo[i] = "deploy" => Len(todo) = 1
    /\ todo[i] = "end" => i = Len(todo)
    /\ todo[i] = "register" => Len(todo) = i + 1
    /\ todo[i] = "agent" => /\ Len(todo) = i + 4 /\ todo[i + 1] = "defi"
                            /\ todo[i + 2] = "whitelist" /\ todo[i + 3] = "register"
                            /\ todo[i + 4] = "end"

(* What a command promises is done, or still among its steps; a key that it   *)
(* is still to keep is one that it generated, or is about to.                 *)
CommandGood(c) ==
  /\ StepsOrdered(c.todo)
  /\ c.todo # <<>> => c.todo[1] = "deploy" \/ c.wallet \in 1..deployed
  /\ Has(c.todo, "deploy") => c.name \in {"ceremony", "hotKey", "bare"}
  /\ Has(c.todo, "register") => c.name = "ceremony"
  /\ Has(c.todo, "register") \/ Has(c.todo, "end") =>
       /\ c.name \in {"ceremony", "hotKey", "onboard"} /\ Has(c.todo, "end")
       /\ \A s \in Promised(c.name) : s \in Accounted(c.wallet) \/ Has(c.todo, s)
  /\ c.key \in held \cup rotated \cup {NoGuardianKey, UserKey}
  /\ Has(c.todo, "keepKey") =>
       ~Has(c.todo, "guardian") /\ (c.key \in 1..generated \/ c.todo[1] = "newKey")

RegisteredLast ==
  \A w \in SetupWallets : "register" \in done[w] => {"defi", "whitelist"} \subseteq Accounted(w)

GuardiansHeld ==
  \A w \in SetupWallets : guardian[w] \in held \cup rotated \cup {NoGuardianKey, UserKey}

SetupInv == SetupTypeOK /\ CommandGood(command) /\ RegisteredLast /\ GuardiansHeld

LEMMA NoCommandGood == CommandGood(NoCommand)
<1>1. /\ NoCommand.todo = <<>> /\ Len(NoCommand.todo) = 0
      /\ NoCommand.key = NoGuardianKey
  BY DEF NoCommand
<1>2. \A s : ~Has(NoCommand.todo, s)
  BY <1>1 DEF Has
<1>3. StepsOrdered(NoCommand.todo)
  BY <1>1 DEF StepsOrdered
<1>. QED  BY <1>1, <1>2, <1>3 DEF CommandGood

LEMMA SetupInitInv == SetupInit => SetupInv
<1> SUFFICES ASSUME SetupInit PROVE SetupInv
  OBVIOUS
<1>1. SetupTypeOK
  <2>1. NoCommand \in [name : SetupNames, wallet : 0..0, todo : Seq(Steps), key : -1..0]
    BY DEF NoCommand, SetupNames, NoWallet, NoGuardianKey
  <2>2. 0 \in 0..MaxWallets /\ 0 \in 0..MaxKeys /\ 0 \in -1..0
    BY SetupAssumption
  <2>. QED  BY <2>1, <2>2 DEF SetupInit, SetupTypeOK, CommandType, NoWallet, NoGuardianKey
<1>2. CommandGood(command)
  BY NoCommandGood DEF SetupInit
<1>3. RegisteredLast /\ GuardiansHeld
  BY DEF SetupInit, RegisteredLast, GuardiansHeld
<1>. QED  BY <1>1, <1>2, <1>3 DEF SetupInv

-----------------------------------------------------------------------------
(* The lists of steps the commands begin with. *)
LEMMA CeremonySteps ==
  /\ Ceremony \in Seq(Steps) /\ StepsOrdered(Ceremony) /\ Ceremony # <<>>
  /\ Has(Ceremony, "end") /\ ~Has(Ceremony, "deploy")
  /\ ~Has(Ceremony, "keepKey")
  /\ \A s \in Promised("ceremony") : Has(Ceremony, s)
<1>1. /\ Ceremony \in Seq(Steps) /\ Len(Ceremony) = 8
      /\ Ceremony[1] = "progress" /\ Ceremony[2] = "guardian" /\ Ceremony[3] = "limits"
      /\ Ceremony[4] = "agent" /\ Ceremony[5] = "defi" /\ Ceremony[6] = "whitelist"
      /\ Ceremony[7] = "register" /\ Ceremony[8] = "end"
  BY DEF Ceremony, Steps, Transactions
<1>2. \A i \in 1..8 : i = 1 \/ i = 2 \/ i = 3 \/ i = 4 \/ i = 5 \/ i = 6 \/ i = 7 \/ i = 8
  OBVIOUS
<1>3. Promised("ceremony") = {"limits", "defi", "whitelist", "register"}
  BY DEF Promised
<1>4. StepsOrdered(Ceremony)
  BY <1>1, <1>2 DEF StepsOrdered
<1>5. Has(Ceremony, "end") /\ \A s \in Promised("ceremony") : Has(Ceremony, s)
  BY <1>1, <1>3 DEF Has
<1>6. ~Has(Ceremony, "deploy") /\ ~Has(Ceremony, "keepKey")
  BY <1>1, <1>2 DEF Has
<1>. QED  BY <1>1, <1>4, <1>5, <1>6

LEMMA HotKeySteps ==
  /\ HotKeyDeploy \in Seq(Steps) /\ StepsOrdered(HotKeyDeploy) /\ HotKeyDeploy # <<>>
  /\ Has(HotKeyDeploy, "end") /\ ~Has(HotKeyDeploy, "deploy") /\ ~Has(HotKeyDeploy, "register")
  /\ ~Has(HotKeyDeploy, "keepKey")
  /\ \A s \in Promised("hotKey") : Has(HotKeyDeploy, s)
<1>1. /\ HotKeyDeploy \in Seq(Steps) /\ Len(HotKeyDeploy) = 6
      /\ HotKeyDeploy[1] = "keyFile" /\ HotKeyDeploy[2] = "config"
      /\ HotKeyDeploy[3] = "setGuardian" /\ HotKeyDeploy[4] = "limits"
      /\ HotKeyDeploy[5] = "defi" /\ HotKeyDeploy[6] = "end"
  BY DEF HotKeyDeploy, Steps, Transactions
<1>2. \A i \in 1..6 : i = 1 \/ i = 2 \/ i = 3 \/ i = 4 \/ i = 5 \/ i = 6
  OBVIOUS
<1>3. Promised("hotKey") = {"limits", "defi"}
  BY DEF Promised
<1>4. StepsOrdered(HotKeyDeploy)
  BY <1>1, <1>2 DEF StepsOrdered
<1>5. Has(HotKeyDeploy, "end") /\ \A s \in Promised("hotKey") : Has(HotKeyDeploy, s)
  BY <1>1, <1>3 DEF Has
<1>6. ~Has(HotKeyDeploy, "deploy") /\ ~Has(HotKeyDeploy, "register") /\ ~Has(HotKeyDeploy, "keepKey")
  BY <1>1, <1>2 DEF Has
<1>. QED  BY <1>1, <1>4, <1>5, <1>6

LEMMA OnboardingSteps ==
  /\ Onboarding \in Seq(Steps) /\ StepsOrdered(Onboarding) /\ Onboarding # <<>>
  /\ Has(Onboarding, "end") /\ ~Has(Onboarding, "deploy") /\ ~Has(Onboarding, "register")
  /\ ~Has(Onboarding, "keepKey")
  /\ \A s \in Promised("onboard") : Has(Onboarding, s)
<1>1. /\ Onboarding \in Seq(Steps) /\ Len(Onboarding) = 4
      /\ Onboarding[1] = "limits" /\ Onboarding[2] = "defi"
      /\ Onboarding[3] = "whitelist" /\ Onboarding[4] = "end"
  BY DEF Onboarding, Steps, Transactions
<1>2. \A i \in 1..4 : i = 1 \/ i = 2 \/ i = 3 \/ i = 4
  OBVIOUS
<1>3. Promised("onboard") = {"limits", "defi", "whitelist"}
  BY DEF Promised
<1>4. StepsOrdered(Onboarding)
  BY <1>1, <1>2 DEF StepsOrdered
<1>5. Has(Onboarding, "end") /\ \A s \in Promised("onboard") : Has(Onboarding, s)
  BY <1>1, <1>3 DEF Has
<1>6. ~Has(Onboarding, "deploy") /\ ~Has(Onboarding, "register") /\ ~Has(Onboarding, "keepKey")
  BY <1>1, <1>2 DEF Has
<1>. QED  BY <1>1, <1>4, <1>5, <1>6

(* Those that end without a report. *)
Unreported == {<<"deploy">>, <<"config">>, SetGuardian, GovernanceSetup, WithoutGuardian}

LEMMA UnreportedSteps ==
  ASSUME NEW todo \in Unreported
  PROVE  /\ todo \in Seq(Steps) /\ StepsOrdered(todo) /\ todo # <<>>
         /\ ~Has(todo, "end") /\ ~Has(todo, "register")
         /\ todo # <<"deploy">> => ~Has(todo, "deploy")
         /\ ~Has(todo, "guardian")
         /\ Has(todo, "keepKey") => todo[1] = "newKey"
<1>1. todo \in Seq(Steps) /\ todo # <<>>
  <2>1. /\ <<"deploy">> \in Seq(Steps) /\ <<"config">> \in Seq(Steps)
        /\ <<"deploy">> # <<>> /\ <<"config">> # <<>>
    BY DEF Steps
  <2>2. SetGuardian \in Seq(Steps) /\ SetGuardian # <<>>
    BY DEF SetGuardian, Steps
  <2>3. GovernanceSetup \in Seq(Steps) /\ GovernanceSetup # <<>>
    BY DEF GovernanceSetup, Steps, Transactions
  <2>4. WithoutGuardian \in Seq(Steps) /\ WithoutGuardian # <<>>
    BY DEF WithoutGuardian, Steps, Transactions
  <2>. QED  BY <2>1, <2>2, <2>3, <2>4 DEF Unreported
<1>2. \A i \in 1..Len(todo) :
        /\ todo[i] \notin {"end", "register", "agent", "guardian"}
        /\ todo[i] = "deploy" => todo = <<"deploy">> /\ Len(todo) = 1
        /\ todo[i] = "keepKey" => todo[1] = "newKey"
  BY DEF Unreported, SetGuardian, GovernanceSetup, WithoutGuardian
<1>. QED  BY <1>1, <1>2 DEF StepsOrdered, Has

-----------------------------------------------------------------------------
(* A command goes on with the rest of its steps.                             *)
Rest(todo, k) == SubSeq(todo, k, Len(todo))

LEMMA SuffixSteps ==
  ASSUME NEW todo \in Seq(Steps), StepsOrdered(todo), NEW k \in Nat \ {0}, k <= Len(todo) + 1,
         NEW r \in Seq(Steps), Len(r) = Len(todo) - k + 1,
         \A i \in 1..Len(r) : r[i] = todo[i + k - 1]
  PROVE  /\ StepsOrdered(r)
         /\ \A s : Has(r, s) => Has(todo, s)
         /\ \A s : Has(todo, s) => Has(r, s) \/ \E i \in 1..(k - 1) : todo[i] = s
         /\ k > 1 => ~Has(r, "deploy")
<1>1. Len(r) = Len(todo) - k + 1 /\ \A i \in 1..Len(r) : r[i] = todo[i + k - 1]
  OBVIOUS
<1>2. Len(todo) \in Nat /\ Len(r) \in Nat
  OBVIOUS
<1>4. \A i \in 1..Len(r) : i + k - 1 \in 1..Len(todo)
  BY <1>1, <1>2
<1>5. StepsOrdered(r)
  <2> SUFFICES ASSUME NEW i \in 1..Len(r)
               PROVE  /\ r[i] = "deploy" => Len(r) = 1
                      /\ r[i] = "end" => i = Len(r)
                      /\ r[i] = "register" => Len(r) = i + 1
                      /\ r[i] = "agent" => /\ Len(r) = i + 4 /\ r[i + 1] = "defi"
                                           /\ r[i + 2] = "whitelist" /\ r[i + 3] = "register"
                                           /\ r[i + 4] = "end"
    BY DEF StepsOrdered
  <2> DEFINE j == i + k - 1
  <2>1. j \in 1..Len(todo) /\ r[i] = todo[j]
    BY <1>1, <1>4
  <2>2. /\ todo[j] = "deploy" => Len(todo) = 1
        /\ todo[j] = "end" => j = Len(todo)
        /\ todo[j] = "register" => Len(todo) = j + 1
        /\ todo[j] = "agent" => /\ Len(todo) = j + 4 /\ todo[j + 1] = "defi"
                                /\ todo[j + 2] = "whitelist" /\ todo[j + 3] = "register"
                                /\ todo[j + 4] = "end"
    BY <2>1 DEF StepsOrdered
  <2>3. ASSUME r[i] = "agent"
        PROVE  /\ Len(r) = i + 4 /\ r[i + 1] = "defi" /\ r[i + 2] = "whitelist"
               /\ r[i + 3] = "register" /\ r[i + 4] = "end"
    <3>1. Len(r) = i + 4
      BY <1>1, <1>2, <2>1, <2>2, <2>3
    <3>5. i + 1 \in 1..Len(r) /\ i + 2 \in 1..Len(r) /\ i + 3 \in 1..Len(r) /\ i + 4 \in 1..Len(r)
      BY <1>2, <3>1, SMTT(30)
    <3>2. /\ r[i + 1] = todo[(i + 1) + k - 1] /\ r[i + 2] = todo[(i + 2) + k - 1]
          /\ r[i + 3] = todo[(i + 3) + k - 1] /\ r[i + 4] = todo[(i + 4) + k - 1]
      BY <1>1, <3>5
    <3>3. /\ (i + 1) + k - 1 = j + 1 /\ (i + 2) + k - 1 = j + 2
          /\ (i + 3) + k - 1 = j + 3 /\ (i + 4) + k - 1 = j + 4
      OBVIOUS
    <3>. QED  BY <2>1, <2>2, <2>3, <3>1, <3>2, <3>3
  <2>4. Len(todo) = Len(r) + k - 1 /\ j = i + k - 1
    BY <1>1, <1>2
  <2>. HIDE DEF j
  <2>5. r[i] = "deploy" => Len(r) = 1
    <3>1. r[i] = "deploy" => Len(todo) = 1
      BY <2>1, <2>2
    <3>2. Len(todo) = 1 => k = 1
      <4>1. Len(r) >= 1
        BY <1>2
      <4>. QED  BY <1>2, <2>4, <4>1
    <3>3. k = 1 => Len(r) = Len(todo)
      BY <1>2, <2>4
    <3>. QED  BY <3>1, <3>2, <3>3
  <2>6. r[i] = "end" => i = Len(r)
    <3>1. r[i] = "end" => j = Len(todo)
      BY <2>1, <2>2
    <3>2. ASSUME j = Len(todo) PROVE i = Len(r)
      <4>1. i + k - 1 = Len(r) + k - 1
        BY <2>4, <3>2
      <4>. QED  BY <1>2, <4>1
    <3>. QED  BY <3>1, <3>2
  <2>7. r[i] = "register" => Len(r) = i + 1
    <3>1. r[i] = "register" => Len(todo) = j + 1
      BY <2>1, <2>2
    <3>2. ASSUME Len(todo) = j + 1 PROVE Len(r) = i + 1
      <4>1. (i + k - 1) + 1 = i + 1 + k - 1
        OBVIOUS
      <4>2. Len(r) + k - 1 = i + 1 + k - 1
        BY <2>4, <3>2, <4>1
      <4>. QED  BY <1>2, <4>2
    <3>. QED  BY <3>1, <3>2
  <2>. QED  BY <2>3, <2>5, <2>6, <2>7
<1>6. \A s : Has(r, s) => Has(todo, s)
  BY <1>1, <1>4 DEF Has
<1>7. ASSUME NEW s, Has(todo, s), ~ \E i \in 1..(k - 1) : todo[i] = s PROVE Has(r, s)
  <2>1. PICK i \in 1..Len(todo) : todo[i] = s
    BY <1>7 DEF Has
  <2>2. i - k + 1 \in 1..Len(r) /\ (i - k + 1) + k - 1 = i
    BY <1>1, <1>7, <2>1
  <2>3. r[i - k + 1] = s
    BY <1>1, <2>1, <2>2
  <2>. QED  BY <2>2, <2>3 DEF Has
<1>8. ASSUME k > 1 PROVE ~Has(r, "deploy")
  <2> SUFFICES ASSUME NEW i \in 1..Len(r), r[i] = "deploy" PROVE FALSE
    BY DEF Has
  <2>1. i + k - 1 \in 1..Len(todo) /\ todo[i + k - 1] = "deploy" /\ i + k - 1 > 1
    BY <1>1, <1>2, <1>4, <1>8
  <2>2. Len(todo) = 1
    BY <2>1 DEF StepsOrdered
  <2>. QED  BY <2>1, <2>2
<1>. QED  BY <1>5, <1>6, <1>7, <1>8

LEMMA RestSteps ==
  ASSUME NEW todo \in Seq(Steps), StepsOrdered(todo), NEW k \in Nat \ {0}, k <= Len(todo)
  PROVE  /\ Rest(todo, k) \in Seq(Steps) /\ StepsOrdered(Rest(todo, k)) /\ Rest(todo, k) # <<>>
         /\ \A s : Has(Rest(todo, k), s) => Has(todo, s)
         /\ \A s : Has(todo, s) => Has(Rest(todo, k), s) \/ \E i \in 1..(k - 1) : todo[i] = s
         /\ k > 1 => ~Has(Rest(todo, k), "deploy")
<1> DEFINE r == Rest(todo, k)
<1>1. /\ r \in Seq(Steps) /\ Len(r) = Len(todo) - k + 1
      /\ \A i \in 1..Len(r) : r[i] = todo[i + k - 1]
  BY DEF Rest
<1>2. k <= Len(todo) + 1
  OBVIOUS
<1>. HIDE DEF r
<1>3. r # <<>>
  BY <1>1
<1>4. /\ StepsOrdered(r)
      /\ \A s : Has(r, s) => Has(todo, s)
      /\ \A s : Has(todo, s) => Has(r, s) \/ \E i \in 1..(k - 1) : todo[i] = s
      /\ k > 1 => ~Has(r, "deploy")
  BY <1>1, <1>2, SuffixSteps
<1>. QED  BY <1>1, <1>3, <1>4 DEF r

LEMMA TailSteps ==
  ASSUME NEW todo \in Seq(Steps), StepsOrdered(todo), todo # <<>>
  PROVE  /\ Tail(todo) \in Seq(Steps) /\ StepsOrdered(Tail(todo))
         /\ \A s : Has(Tail(todo), s) => Has(todo, s)
         /\ \A s : Has(todo, s) => Has(Tail(todo), s) \/ todo[1] = s
         /\ ~Has(Tail(todo), "deploy")
<1> DEFINE r == Tail(todo)
<1>1. Len(todo) \in Nat /\ Len(todo) >= 1
  OBVIOUS
<1>2. /\ r \in Seq(Steps) /\ Len(r) = Len(todo) - 2 + 1
      /\ \A i \in 1..Len(r) : r[i] = todo[i + 2 - 1]
  OBVIOUS
<1>. HIDE DEF r
<1>3. 2 \in Nat \ {0} /\ 2 <= Len(todo) + 1 /\ 2 > 1
  BY <1>1
<1>4. /\ StepsOrdered(r)
      /\ \A s : Has(r, s) => Has(todo, s)
      /\ \A s : Has(todo, s) => Has(r, s) \/ \E i \in 1..(2 - 1) : todo[i] = s
      /\ 2 > 1 => ~Has(r, "deploy")
  BY <1>2, <1>3, SuffixSteps
<1>. QED  BY <1>2, <1>4 DEF r

(* A guardian that was chosen is registered in the place of the choice.      *)
LEMMA ChosenSteps ==
  ASSUME NEW todo \in Seq(Steps), StepsOrdered(todo), todo # <<>>, todo[1] = "guardian"
  PROVE  LET r == <<"setGuardian">> \o Tail(todo)
         IN /\ r \in Seq(Steps) /\ StepsOrdered(r)
            /\ \A s \in {"deploy", "register", "end", "keepKey", "guardian"} : Has(r, s) => Has(todo, s)
            /\ \A s : Has(todo, s) => Has(r, s) \/ todo[1] = s
<1> DEFINE r == <<"setGuardian">> \o Tail(todo)
<1>1. Len(todo) \in Nat /\ Len(todo) >= 1
  OBVIOUS
<1>2. Tail(todo) \in Seq(Steps) /\ Len(Tail(todo)) = Len(todo) - 1
      /\ \A i \in 1..(Len(todo) - 1) : Tail(todo)[i] = todo[i + 1]
  OBVIOUS
<1>3. <<"setGuardian">> \in Seq(Steps) /\ Len(<<"setGuardian">>) = 1
      /\ <<"setGuardian">>[1] = "setGuardian"
  BY DEF Steps
<1>4. /\ r \in Seq(Steps) /\ Len(r) = Len(todo) /\ r[1] = "setGuardian"
      /\ \A i \in 2..Len(todo) : r[i] = Tail(todo)[i - 1]
  BY <1>1, <1>2, <1>3
<1>. HIDE DEF r
<1>5. \A i \in 2..Len(todo) : r[i] = todo[i]
  BY <1>1, <1>2, <1>4
<1>6. StepsOrdered(r)
  <2> SUFFICES ASSUME NEW i \in 2..Len(todo)
               PROVE  /\ r[i] = "deploy" => Len(r) = 1
                      /\ r[i] = "end" => i = Len(r)
                      /\ r[i] = "register" => Len(r) = i + 1
                      /\ r[i] = "agent" => /\ Len(r) = i + 4 /\ r[i + 1] = "defi"
                                           /\ r[i + 2] = "whitelist" /\ r[i + 3] = "register"
                                           /\ r[i + 4] = "end"
    BY <1>1, <1>4 DEF StepsOrdered
  <2>1. i \in 1..Len(todo) /\ r[i] = todo[i]
    BY <1>1, <1>5
  <2>2. todo[i] = "agent" =>
          i + 1 \in 2..Len(todo) /\ i + 2 \in 2..Len(todo) /\ i + 3 \in 2..Len(todo)
            /\ i + 4 \in 2..Len(todo)
    BY <1>1, <2>1 DEF StepsOrdered
  <2>. QED  BY <1>4, <1>5, <2>1, <2>2 DEF StepsOrdered
<1>7. \A s \in {"deploy", "register", "end", "keepKey", "guardian"} : Has(r, s) => Has(todo, s)
  BY <1>1, <1>4, <1>5 DEF Has
<1>8. ASSUME NEW s, Has(todo, s), todo[1] # s PROVE Has(r, s)
  <2>1. PICK i \in 1..Len(todo) : todo[i] = s
    BY <1>8 DEF Has
  <2>2. i \in 2..Len(todo) /\ i \in 1..Len(r)
    BY <1>1, <1>4, <1>8, <2>1
  <2>. QED  BY <1>5, <2>1, <2>2 DEF Has
<1>. QED  BY <1>4, <1>6, <1>7, <1>8 DEF r

(* What a wallet has is never lost.                                          *)
ChainGrows ==
  /\ deployed' \in deployed..MaxWallets
  /\ \A w \in 1..deployed : Accounted(w) \subseteq Accounted(w)'
  /\ held \subseteq held' /\ rotated \subseteq rotated'

LEMMA NoCommandNext == ASSUME SetupInv, command' = NoCommand, deployed' \in Nat, generated' \in Nat
                       PROVE  CommandGood(command)' /\ (command \in CommandType)'
<1>1. CommandGood(NoCommand)'
  BY NoCommandGood, PTL
<1>2. NoCommand \in [name : SetupNames, wallet : 0..deployed', todo : Seq(Steps), key : -1..generated']
  BY DEF NoCommand, SetupNames, NoWallet, NoGuardianKey
<1>. QED  BY <1>1, <1>2 DEF CommandType, CommandGood

(* The steps that are left out were taken before, or promise nothing.        *)
LEMMA ContinueGood ==
  ASSUME SetupInv, NEW k \in {2, 5}, Continue(k), command.todo # <<>>, ChainGrows,
         generated' = generated, NEW w, w = command.wallet,
         command.todo[1] # "newKey",
         \A i \in 1..(k - 1) : k <= Len(command.todo) =>
           /\ command.todo[i] # "end"
           /\ Has(command.todo, "end") /\ command.todo[i] \in Promised(command.name) =>
                command.todo[i] \in Accounted(w)'
  PROVE  CommandGood(command)' /\ (command \in CommandType)'
<1> DEFINE todo == command.todo
           name == command.name
           r == Rest(todo, k)
           c == [command EXCEPT !.todo = r]
<1>1. /\ command \in [name : SetupNames, wallet : 0..deployed, todo : Seq(Steps), key : -1..generated]
      /\ deployed \in Nat /\ generated \in Nat /\ MaxWallets \in Nat /\ MaxKeys \in Nat
      /\ deployed' \in Nat /\ deployed <= deployed'
  BY SetupAssumption DEF SetupInv, SetupTypeOK, CommandType, ChainGrows
<1>2. CASE k > Len(todo)
  BY <1>1, <1>2, NoCommandNext DEF Continue
<1>3. CASE k <= Len(todo)
  <2>1. /\ todo \in Seq(Steps) /\ StepsOrdered(todo) /\ Len(todo) \in Nat
        /\ k \in Nat \ {0} /\ k > 1
    BY <1>1 DEF SetupInv, CommandGood
  <2>2. command' = c
    BY <1>3, <2>1 DEF Continue, Rest
  <2>3. /\ r \in Seq(Steps) /\ StepsOrdered(r) /\ r # <<>> /\ ~Has(r, "deploy")
        /\ \A s : Has(r, s) => Has(todo, s)
        /\ \A s : Has(todo, s) => Has(r, s) \/ \E i \in 1..(k - 1) : todo[i] = s
    <3>. HIDE DEF todo
    <3>. QED  BY <1>3, <2>1, RestSteps
  <2>. HIDE DEF r
  <2>4. /\ c.name = name /\ c.wallet = w /\ c.key = command.key /\ c.todo = r
        /\ c \in [name : SetupNames, wallet : 0..deployed', todo : Seq(Steps), key : -1..generated']
    <3>1. /\ c \in [name : SetupNames, wallet : 0..deployed, todo : Seq(Steps), key : -1..generated]
          /\ c.name = name /\ c.wallet = w /\ c.key = command.key /\ c.todo = r
      BY <1>1, <2>3
    <3>2. 0..deployed \subseteq 0..deployed' /\ generated' = generated
      BY <1>1
    <3>. HIDE DEF c
    <3>. QED  BY <3>1, <3>2
  <2>5. /\ command'.name = name /\ command'.wallet = w /\ command'.key = command.key
        /\ command'.todo = r
    BY <2>2, <2>4
  <2>6. w \in 1..deployed /\ w \in 1..deployed'
    <3>1. todo[1] # "deploy" /\ todo # <<>>
      BY <1>3, <2>1 DEF StepsOrdered
    <3>. QED  BY <1>1, <3>1 DEF SetupInv, CommandGood
  <2>. HIDE DEF name, c
  <2>7. ASSUME Has(r, "register") \/ Has(r, "end")
        PROVE  /\ name \in {"ceremony", "hotKey", "onboard"} /\ Has(r, "end")
               /\ \A s \in Promised(name) : s \in Accounted(w)' \/ Has(r, s)
    <3>1. Has(todo, "register") \/ Has(todo, "end")
      BY <2>3, <2>7
    <3>2. /\ name \in {"ceremony", "hotKey", "onboard"} /\ Has(todo, "end")
          /\ \A s \in Promised(name) : s \in Accounted(w) \/ Has(todo, s)
      BY <3>1 DEF SetupInv, CommandGood, name
    <3>3. /\ \A i \in 1..(k - 1) : todo[i] # "end"
          /\ \A i \in 1..(k - 1) : todo[i] \in Promised(name) => todo[i] \in Accounted(w)'
      BY <1>3, <3>2 DEF name
    <3>4. Has(r, "end")
      BY <2>3, <3>2, <3>3
    <3>5. Accounted(w) \subseteq Accounted(w)'
      BY <2>6 DEF ChainGrows
    <3>6. ASSUME NEW s \in Promised(name), s \notin Accounted(w)' PROVE Has(r, s)
      BY <2>3, <3>2, <3>3, <3>5, <3>6
    <3>. QED  BY <3>2, <3>4, <3>6
  <2>8. /\ command.key \in held' \cup rotated' \cup {NoGuardianKey, UserKey}
        /\ Has(r, "register") => name = "ceremony"
        /\ Has(r, "keepKey") => ~Has(r, "guardian") /\ command.key \in 1..generated'
    BY <2>3 DEF SetupInv, CommandGood, ChainGrows, name
  <2>9. CommandGood(command)'
    BY <2>3, <2>5, <2>6, <2>7, <2>8 DEF CommandGood, Accounted
  <2>. QED  BY <2>2, <2>4, <2>9 DEF CommandType
<1>. QED
  <2>1. Len(todo) \in Nat
    BY <1>1
  <2>. QED  BY <1>2, <1>3, <2>1

(* A command that begins, and one that goes on with other steps.             *)
LEMMA BeginGood ==
  ASSUME NEW name \in SetupNames, NEW w \in 0..deployed', NEW todo \in Seq(Steps), NEW key,
         key \in -1..generated', key \in held' \cup rotated' \cup {NoGuardianKey, UserKey},
         command' = [name |-> name, wallet |-> w, todo |-> todo, key |-> key],
         StepsOrdered(todo), todo # <<>> => todo[1] = "deploy" \/ w \in 1..deployed',
         Has(todo, "deploy") => name \in {"ceremony", "hotKey", "bare"},
         Has(todo, "register") => name = "ceremony",
         Has(todo, "keepKey") =>
           ~Has(todo, "guardian") /\ (key \in 1..generated' \/ todo[1] = "newKey"),
         Has(todo, "register") \/ Has(todo, "end") =>
           /\ name \in {"ceremony", "hotKey", "onboard"} /\ Has(todo, "end")
           /\ \A s \in Promised(name) : s \in Accounted(w)' \/ Has(todo, s)
  PROVE  CommandGood(command)' /\ (command \in CommandType)'
<1> DEFINE c == [name |-> name, wallet |-> w, todo |-> todo, key |-> key]
<1>1. /\ c.name = name /\ c.wallet = w /\ c.todo = todo /\ c.key = key
      /\ c \in [name : SetupNames, wallet : 0..deployed', todo : Seq(Steps), key : -1..generated']
  OBVIOUS
<1>2. command' = c
  OBVIOUS
<1>. HIDE DEF c
<1>3. /\ command'.name = name /\ command'.wallet = w /\ command'.todo = todo
      /\ command'.key = key
  BY <1>1, <1>2
<1>4. CommandGood(command)'
  BY <1>3 DEF CommandGood, Accounted
<1>. QED  BY <1>1, <1>2, <1>4 DEF CommandType

(* The steps that follow the choice of a key.                                *)
LEMMA KeyGood ==
  ASSUME SetupInv, command.todo # <<>>, command.todo[1] # "deploy",
         NEW then \in Seq(Steps), StepsOrdered(then), NEW key \in -1..generated',
         key \in held' \cup rotated' \cup {NoGuardianKey, UserKey},
         command' = [command EXCEPT !.todo = then, !.key = key],
         \A s \in {"deploy", "register", "end", "keepKey", "guardian"} : Has(then, s) => Has(command.todo, s),
         \/ ~Has(command.todo, "end")
         \/ /\ \A s : Has(command.todo, s) => Has(then, s) \/ command.todo[1] = s
            /\ command.todo[1] \notin Promised(command.name) \cup {"end"},
         Has(then, "keepKey") => key \in 1..generated',
         UNCHANGED <<deployed, done, reverted, elsewhere>>, generated' \in Nat
  PROVE  CommandGood(command)' /\ (command \in CommandType)'
<1>. PICK todo : todo = command.todo
  OBVIOUS
<1>. PICK name : name = command.name
  OBVIOUS
<1>. PICK w : w = command.wallet
  OBVIOUS
<1>1. /\ command \in [name : SetupNames, wallet : 0..deployed, todo : Seq(Steps), key : -1..generated]
      /\ deployed \in Nat /\ deployed' = deployed
  BY SetupAssumption DEF SetupInv, SetupTypeOK, CommandType
<1>2. /\ command' = [name |-> name, wallet |-> w, todo |-> then, key |-> key]
      /\ name \in SetupNames /\ w \in 0..deployed' /\ w \in 1..deployed'
  BY <1>1 DEF SetupInv, CommandGood
<1>3. /\ Has(then, "deploy") => name \in {"ceremony", "hotKey", "bare"}
      /\ Has(then, "register") => name = "ceremony"
      /\ Has(then, "keepKey") => ~Has(then, "guardian")
  BY DEF SetupInv, CommandGood
<1>4. ASSUME Has(then, "register") \/ Has(then, "end")
      PROVE  /\ name \in {"ceremony", "hotKey", "onboard"} /\ Has(then, "end")
             /\ \A s \in Promised(name) : s \in Accounted(w) \/ Has(then, s)
  <2>1. Has(todo, "register") \/ Has(todo, "end")
    BY <1>4
  <2>2. /\ name \in {"ceremony", "hotKey", "onboard"} /\ Has(todo, "end")
        /\ \A s \in Promised(name) : s \in Accounted(w) \/ Has(todo, s)
    BY <2>1 DEF SetupInv, CommandGood
  <2>3. /\ \A s : Has(todo, s) => Has(then, s) \/ todo[1] = s
        /\ todo[1] \notin Promised(name) \cup {"end"}
    BY <2>2
  <2>. QED  BY <2>2, <2>3
<1>5. ASSUME Has(then, "register") \/ Has(then, "end")
      PROVE  /\ name \in {"ceremony", "hotKey", "onboard"} /\ Has(then, "end")
             /\ \A s \in Promised(name) : s \in Accounted(w)' \/ Has(then, s)
  BY <1>4, <1>5 DEF Accounted
<1>6. then # <<>> => then[1] = "deploy" \/ w \in 1..deployed'
  BY <1>2
<1>. QED  BY <1>2, <1>3, <1>5, <1>6, BeginGood

-----------------------------------------------------------------------------
(* A step that changes the command and the configuration only.               *)
LEMMA CommandStep ==
  ASSUME SetupInv, UNCHANGED <<onChain, guardianKeys>>,
         configured' \in [wallet : 0..deployed, progress : 0..deployed],
         CommandGood(command)', (command \in CommandType)'
  PROVE  SetupInv'
<1>1. SetupTypeOK'
  BY DEF SetupInv, SetupTypeOK, onChain, guardianKeys
<1>2. RegisteredLast' /\ GuardiansHeld'
  BY DEF SetupInv, RegisteredLast, GuardiansHeld, Accounted, onChain, guardianKeys
<1>. QED  BY <1>1, <1>2 DEF SetupInv

LEMMA NothingLost == ASSUME SetupInv, UNCHANGED <<onChain, guardianKeys>>
                     PROVE  ChainGrows /\ generated' = generated
  BY SetupAssumption DEF SetupInv, SetupTypeOK, ChainGrows, Accounted, onChain, guardianKeys

LEMMA LoadedType ==
  ASSUME NEW c \in [wallet : 0..deployed, progress : 0..deployed], deployed \in Nat
  PROVE  /\ Loaded(c) \in [wallet : 0..deployed, progress : 0..deployed]
         /\ Loaded(c).wallet = c.wallet
         /\ Loaded(c).progress # NoWallet => Loaded(c).wallet \in 1..deployed
  BY DEF Loaded, NoWallet

(* A command begins with one of the lists. *)
LEMMA ListGood ==
  ASSUME SetupInv, UNCHANGED <<onChain, guardianKeys>>, NEW w \in 0..deployed,
         NEW name \in SetupNames, NEW todo, Begin(name, w, todo),
         \/ name = "ceremony" /\ todo = Ceremony /\ w \in 1..deployed
         \/ name = "onboard" /\ todo = Onboarding /\ w \in 1..deployed
         \/ todo \in {SetGuardian, GovernanceSetup} /\ w \in 1..deployed
         \/ name \in {"ceremony", "hotKey", "bare"} /\ todo = <<"deploy">>
  PROVE  CommandGood(command)' /\ (command \in CommandType)'
<1>1. /\ NoGuardianKey \in -1..generated'
      /\ NoGuardianKey \in held' \cup rotated' \cup {NoGuardianKey, UserKey}
      /\ w \in 0..deployed' /\ deployed' = deployed
  BY SetupAssumption DEF SetupInv, SetupTypeOK, NoGuardianKey, onChain, guardianKeys
<1>2. command' = [name |-> name, wallet |-> w, todo |-> todo, key |-> NoGuardianKey]
  BY DEF Begin
<1>3. /\ todo \in Seq(Steps) /\ StepsOrdered(todo)
      /\ todo # <<>> => todo[1] = "deploy" \/ w \in 1..deployed'
      /\ Has(todo, "deploy") => name \in {"ceremony", "hotKey", "bare"}
      /\ Has(todo, "register") => name = "ceremony"
      /\ Has(todo, "keepKey") => ~Has(todo, "guardian") /\ todo[1] = "newKey"
      /\ Has(todo, "register") \/ Has(todo, "end") =>
           /\ name \in {"ceremony", "hotKey", "onboard"} /\ Has(todo, "end")
           /\ \A s \in Promised(name) : Has(todo, s)
  <2>1. CASE name = "ceremony" /\ todo = Ceremony /\ w \in 1..deployed
    BY <1>1, <2>1, CeremonySteps
  <2>2. CASE name = "onboard" /\ todo = Onboarding /\ w \in 1..deployed
    BY <1>1, <2>2, OnboardingSteps
  <2>3. CASE todo \in {SetGuardian, GovernanceSetup} /\ w \in 1..deployed
    <3>1. todo \in Unreported /\ todo # <<"deploy">>
      BY <2>3 DEF Unreported, SetGuardian, GovernanceSetup
    <3>. QED  BY <1>1, <2>3, <3>1, UnreportedSteps
  <2>4. CASE name \in {"ceremony", "hotKey", "bare"} /\ todo = <<"deploy">>
    <3>1. todo \in Unreported /\ todo[1] = "deploy"
      BY <2>4 DEF Unreported
    <3>. QED  BY <1>1, <2>4, <3>1, UnreportedSteps
  <2>. QED  BY <2>1, <2>2, <2>3, <2>4
<1>. QED  BY <1>1, <1>2, <1>3, BeginGood

LEMMA StartDeployInv ==
  ASSUME SetupInv, NEW kind \in {"ceremony", "hotKey", "bare"}, NEW force \in BOOLEAN,
         StartDeploy(kind, force)
  PROVE  SetupInv'
<1> DEFINE c == IF force THEN [wallet |-> NoWallet, progress |-> NoWallet] ELSE Loaded(configured)
<1>1. deployed \in Nat /\ configured \in [wallet : 0..deployed, progress : 0..deployed]
  BY SetupAssumption DEF SetupInv, SetupTypeOK
<1>2. /\ c \in [wallet : 0..deployed, progress : 0..deployed]
      /\ c.progress # NoWallet => c.wallet \in 1..deployed
  <2>1. CASE force
    BY <1>1, <2>1 DEF NoWallet
  <2>2. CASE ~force
    BY <1>1, <2>2, LoadedType
  <2>. QED  BY <2>1, <2>2
<1>3. /\ configured' = c /\ UNCHANGED <<onChain, guardianKeys>>
      /\ IF kind = "ceremony" /\ c.progress # NoWallet
         THEN Begin("ceremony", c.wallet, Ceremony) ELSE Begin(kind, NoWallet, <<"deploy">>)
  BY DEF StartDeploy
<1>4. /\ kind \in SetupNames /\ "ceremony" \in SetupNames /\ NoWallet \in 0..deployed
      /\ c.wallet \in 0..deployed
  BY <1>1, <1>2 DEF SetupNames, NoWallet
<1>. HIDE DEF c
<1>5. CommandGood(command)' /\ (command \in CommandType)'
  BY <1>2, <1>3, <1>4, ListGood
<1>. QED  BY <1>2, <1>3, <1>5, CommandStep

LEMMA StartCommandInv ==
  ASSUME SetupInv, NEW name \in SetupNames, NEW todo, StartCommand(name, todo),
         \/ name = "onboard" /\ todo = Onboarding
         \/ todo \in {SetGuardian, GovernanceSetup}
  PROVE  SetupInv'
<1>1. deployed \in Nat /\ configured \in [wallet : 0..deployed, progress : 0..deployed]
  BY SetupAssumption DEF SetupInv, SetupTypeOK
<1>2. /\ configured' = Loaded(configured) /\ UNCHANGED <<onChain, guardianKeys>>
      /\ Begin(name, configured.wallet, todo) /\ configured.wallet # NoWallet
  BY DEF StartCommand
<1>3. configured.wallet \in 1..deployed /\ configured.wallet \in 0..deployed
  BY <1>1, <1>2 DEF NoWallet
<1>4. CommandGood(command)' /\ (command \in CommandType)'
  BY <1>2, <1>3, ListGood
<1>. QED  BY <1>1, <1>2, <1>4, LoadedType, CommandStep

LEMMA UseWalletInv ==
  ASSUME SetupInv, NEW w \in SetupWallets, UseWallet(w)
  PROVE  SetupInv'
<1>1. /\ deployed \in Nat /\ configured \in [wallet : 0..deployed, progress : 0..deployed]
      /\ w \in 0..deployed
  BY SetupAssumption DEF SetupInv, SetupTypeOK, SetupWallets, UseWallet
<1>2. /\ configured' = [Loaded(configured) EXCEPT !.wallet = w]
      /\ UNCHANGED <<onChain, guardianKeys, command>>
  BY DEF UseWallet
<1>3. configured' \in [wallet : 0..deployed, progress : 0..deployed]
  BY <1>1, <1>2, LoadedType
<1>4. CommandGood(command)' /\ (command \in CommandType)'
  BY <1>2 DEF SetupInv, SetupTypeOK, CommandGood, CommandType, Accounted, onChain, guardianKeys
<1>. QED  BY <1>2, <1>3, <1>4, CommandStep

(* The command is at one of its steps.                                       *)
LEMMA AtStepHead ==
  ASSUME SetupInv, NEW s, AtStep(s)
  PROVE  /\ command.todo \in Seq(Steps) /\ StepsOrdered(command.todo)
         /\ Len(command.todo) \in Nat /\ Len(command.todo) >= 1
         /\ command.todo # <<>> /\ command.todo[1] = s /\ Has(command.todo, s)
         /\ s # "deploy" => command.wallet \in 1..deployed
<1>1. command.todo \in Seq(Steps) /\ command.todo # <<>> /\ Head(command.todo) = s
  BY DEF AtStep, SetupInv, SetupTypeOK, CommandType
<1>2. command.todo[1] = s /\ Len(command.todo) \in Nat /\ Len(command.todo) >= 1
  BY <1>1
<1>3. Has(command.todo, s)
  BY <1>2 DEF Has
<1>. QED  BY <1>1, <1>2, <1>3 DEF SetupInv, CommandGood

(* A command that goes on by one step, with the chain as it was.             *)
LEMMA ContinueStep ==
  ASSUME SetupInv, NEW s, AtStep(s), Continue(2), UNCHANGED <<onChain, guardianKeys>>,
         configured' \in [wallet : 0..deployed, progress : 0..deployed], s \notin {"end", "newKey"},
         Has(command.todo, "end") /\ s \in Promised(command.name) => s \in Accounted(command.wallet)
  PROVE  SetupInv'
<1>. PICK w : w = command.wallet
  OBVIOUS
<1>1. command.todo # <<>> /\ command.todo[1] = s
  BY AtStepHead
<1>2. ChainGrows /\ generated' = generated
  BY NothingLost
<1>3. Accounted(w)' = Accounted(w)
  BY DEF Accounted, onChain
<1>4. CommandGood(command)' /\ (command \in CommandType)'
  BY <1>1, <1>2, <1>3, ContinueGood
<1>. QED  BY <1>4, CommandStep

LEMMA PromisedSteps ==
  ASSUME NEW name \in {"ceremony", "hotKey", "onboard"}
  PROVE  Promised(name) \subseteq Transactions
  BY DEF Promised, Transactions

LEMMA EndPromises ==
  ASSUME SetupInv, Has(command.todo, "end")
  PROVE  /\ command.name \in {"ceremony", "hotKey", "onboard"}
         /\ Promised(command.name) \subseteq Transactions
         /\ \A s \in Promised(command.name) : s \in Accounted(command.wallet) \/ Has(command.todo, s)
  BY PromisedSteps DEF SetupInv, CommandGood

LEMMA SaveConfigInv ==
  ASSUME SetupInv, SaveConfig
  PROVE  SetupInv'
<1>1. PICK s \in {"config", "progress"} : AtStep(s)
  BY DEF SaveConfig
<1>2. command.wallet \in 0..deployed /\ configured \in [wallet : 0..deployed, progress : 0..deployed]
  BY DEF SetupInv, SetupTypeOK, CommandType
<1>3. /\ configured' \in [wallet : 0..deployed, progress : 0..deployed] /\ Continue(2)
      /\ UNCHANGED <<onChain, guardianKeys>>
  BY <1>2 DEF SaveConfig
<1>4. Has(command.todo, "end") => s \notin Promised(command.name)
  BY EndPromises DEF Transactions
<1>. QED  BY <1>1, <1>3, <1>4, ContinueStep

LEMMA SkipStepInv ==
  ASSUME SetupInv, SkipStep
  PROVE  SetupInv'
<1>1. /\ configured' \in [wallet : 0..deployed, progress : 0..deployed] /\ Continue(2)
      /\ UNCHANGED <<onChain, guardianKeys>>
  BY DEF SkipStep, SetupInv, SetupTypeOK
<1>2. CASE AtStep("guardian")
  <2>1. Has(command.todo, "end") => "guardian" \notin Promised(command.name)
    BY EndPromises DEF Transactions
  <2>. QED  BY <1>1, <1>2, <2>1, ContinueStep
<1>3. CASE \E s \in Transactions : AtStep(s) /\ s \in done[command.wallet]
  <2>1. PICK s \in Transactions : AtStep(s) /\ s \in done[command.wallet]
    BY <1>3
  <2>2. s \in Accounted(command.wallet) /\ s \notin {"end", "newKey"}
    BY <2>1 DEF Accounted, Transactions
  <2>. QED  BY <1>1, <2>1, <2>2, ContinueStep
<1>. QED  BY <1>2, <1>3 DEF SkipStep

(* Who is registered has the access and the whitelist, or registered         *)
(* elsewhere; and the limits come before.                                    *)
LEMMA CheckAgentInv ==
  ASSUME SetupInv, CheckAgent
  PROVE  SetupInv'
<1>1. /\ configured' \in [wallet : 0..deployed, progress : 0..deployed]
      /\ UNCHANGED <<onChain, guardianKeys>> /\ AtStep("agent")
  BY DEF CheckAgent, SetupInv, SetupTypeOK
<1>2. CASE Continue(2)
  <2>1. Has(command.todo, "end") => "agent" \notin Promised(command.name)
    BY EndPromises DEF Transactions
  <2>. QED  BY <1>1, <1>2, <2>1, ContinueStep
<1>3. CASE "register" \in done[command.wallet] /\ Continue(5)
  <2>. PICK w : w = command.wallet
    OBVIOUS
  <2>1. /\ command.todo # <<>> /\ command.todo[1] = "agent" /\ w \in 1..deployed
        /\ StepsOrdered(command.todo) /\ Len(command.todo) >= 1 /\ Len(command.todo) \in Nat
    BY <1>1, AtStepHead
  <2>2. /\ Len(command.todo) = 5 /\ command.todo[2] = "defi" /\ command.todo[3] = "whitelist"
        /\ command.todo[4] = "register" /\ command.todo[5] = "end"
    <3>1. 1 \in 1..Len(command.todo)
      BY <2>1
    <3>2. /\ Len(command.todo) = 1 + 4 /\ command.todo[1 + 1] = "defi"
          /\ command.todo[1 + 2] = "whitelist" /\ command.todo[1 + 3] = "register"
          /\ command.todo[1 + 4] = "end"
      BY <2>1, <3>1 DEF StepsOrdered
    <3>. QED  BY <3>2
  <2>3. {"defi", "whitelist", "register"} \subseteq Accounted(w)
    <3>1. w \in SetupWallets
      BY <2>1, SetupAssumption DEF SetupInv, SetupTypeOK, SetupWallets
    <3>. QED  BY <1>3, <3>1 DEF SetupInv, RegisteredLast, Accounted
  <2>4. Accounted(w)' = Accounted(w)
    BY <1>1 DEF Accounted, onChain
  <2>5. Has(command.todo, "end") => "agent" \notin Promised(command.name)
    BY EndPromises DEF Transactions
  <2>6. ASSUME NEW i \in 1..(5 - 1)
        PROVE  /\ command.todo[i] # "end"
               /\ Has(command.todo, "end") /\ command.todo[i] \in Promised(command.name) =>
                    command.todo[i] \in Accounted(w)'
    <3>1. i = 1 \/ i = 2 \/ i = 3 \/ i = 4
      OBVIOUS
    <3>. QED  BY <2>1, <2>2, <2>3, <2>4, <2>5, <3>1
  <2>7. ChainGrows /\ generated' = generated
    BY <1>1, NothingLost
  <2>8. CommandGood(command)' /\ (command \in CommandType)'
    BY <1>3, <2>1, <2>6, <2>7, ContinueGood
  <2>. QED  BY <1>1, <2>8, CommandStep
<1>. QED  BY <1>2, <1>3 DEF CheckAgent

(* A command that is over, with the chain as it was.                         *)
LEMMA OverStep ==
  ASSUME SetupInv, command' = NoCommand, UNCHANGED <<onChain, guardianKeys>>,
         configured' \in [wallet : 0..deployed, progress : 0..deployed]
  PROVE  SetupInv'
<1>1. deployed' \in Nat /\ generated' \in Nat
  BY SetupAssumption DEF SetupInv, SetupTypeOK, onChain, guardianKeys
<1>. QED  BY <1>1, NoCommandNext, CommandStep

LEMMA FinishInv ==
  ASSUME SetupInv, Finish
  PROVE  SetupInv'
<1>1. deployed \in Nat /\ configured \in [wallet : 0..deployed, progress : 0..deployed]
  BY SetupAssumption DEF SetupInv, SetupTypeOK
<1>2. configured' \in [wallet : 0..deployed, progress : 0..deployed]
  BY <1>1 DEF Finish, NoWallet
<1>. QED  BY <1>2, OverStep DEF Finish

LEMMA CommandDiesInv ==
  ASSUME SetupInv, CommandDies
  PROVE  SetupInv'
<1>1. configured' \in [wallet : 0..deployed, progress : 0..deployed]
  BY DEF CommandDies, SetupInv, SetupTypeOK
<1>. QED  BY <1>1, OverStep DEF CommandDies

(* Steps that reach the chain.                                               *)
LEMMA DeployMinedInv ==
  ASSUME SetupInv, DeployMined
  PROVE  SetupInv'
<1>1. /\ AtStep("deploy") /\ deployed < MaxWallets /\ deployed' = deployed + 1
      /\ UNCHANGED <<done, reverted, guardian, elsewhere, configured, guardianKeys>>
  BY DEF DeployMined
<1>2. /\ command \in [name : SetupNames, wallet : 0..deployed, todo : Seq(Steps), key : -1..generated]
      /\ deployed \in 0..MaxWallets /\ MaxWallets \in Nat /\ generated \in Nat
      /\ configured \in [wallet : 0..deployed, progress : 0..deployed]
      /\ elsewhere \subseteq 1..deployed
  BY SetupAssumption DEF SetupInv, SetupTypeOK, CommandType
<1>3. command.name \in {"ceremony", "hotKey", "bare"}
  BY <1>1, AtStepHead DEF SetupInv, CommandGood
<1>. PICK name : name = command.name
  OBVIOUS
<1>. PICK key : key = command.key
  OBVIOUS
<1>. PICK w : w = deployed + 1
  OBVIOUS
<1>. DEFINE resumed == <<"config">> \o Ceremony
<1>4. /\ resumed \in Seq(Steps) /\ StepsOrdered(resumed) /\ ~Has(resumed, "deploy")
      /\ ~Has(resumed, "keepKey")
      /\ Has(resumed, "end") /\ \A s \in Promised("ceremony") : Has(resumed, s)
  <2>1. /\ resumed \in Seq(Steps) /\ Len(resumed) = 9
        /\ resumed[1] = "config" /\ resumed[2] = "progress" /\ resumed[3] = "guardian"
        /\ resumed[4] = "limits" /\ resumed[5] = "agent" /\ resumed[6] = "defi"
        /\ resumed[7] = "whitelist" /\ resumed[8] = "register" /\ resumed[9] = "end"
    BY DEF Ceremony, Steps, Transactions
  <2>. HIDE DEF resumed
  <2>2. \A i \in 1..9 : i = 1 \/ i = 2 \/ i = 3 \/ i = 4 \/ i = 5 \/ i = 6 \/ i = 7 \/ i = 8 \/ i = 9
    OBVIOUS
  <2>3. Promised("ceremony") = {"limits", "defi", "whitelist", "register"}
    BY DEF Promised
  <2>4. StepsOrdered(resumed)
    BY <2>1, <2>2 DEF StepsOrdered
  <2>5. Has(resumed, "end") /\ \A s \in Promised("ceremony") : Has(resumed, s)
    BY <2>1, <2>3 DEF Has
  <2>6. ~Has(resumed, "deploy") /\ ~Has(resumed, "keepKey")
    BY <2>1, <2>2 DEF Has
  <2>. QED  BY <2>1, <2>4, <2>5, <2>6
<1>. PICK todo : todo = CASE name = "ceremony" -> resumed
                          [] name = "hotKey" -> HotKeyDeploy
                          [] name = "bare" -> <<"config">>
  OBVIOUS
<1>5. /\ todo \in Seq(Steps) /\ StepsOrdered(todo) /\ ~Has(todo, "deploy")
      /\ ~Has(todo, "keepKey")
      /\ Has(todo, "register") => name = "ceremony"
      /\ Has(todo, "register") \/ Has(todo, "end") =>
           /\ name \in {"ceremony", "hotKey", "onboard"} /\ Has(todo, "end")
           /\ \A s \in Promised(name) : Has(todo, s)
  <2>1. CASE name = "ceremony"
    BY <1>4, <2>1
  <2>2. CASE name = "hotKey"
    BY <2>2, HotKeySteps
  <2>3. CASE name = "bare"
    <3>1. todo = <<"config">> /\ todo \in Unreported /\ todo # <<"deploy">> /\ todo[1] # "newKey"
      BY <2>3 DEF Unreported
    <3>. QED  BY <3>1, UnreportedSteps
  <2>. QED  BY <1>3, <2>1, <2>2, <2>3
<1>6. command' = [name |-> name, wallet |-> w, todo |-> todo, key |-> key]
  BY <1>1, <1>2 DEF DeployMined
<1>. HIDE DEF resumed
<1>7. /\ name \in SetupNames /\ w \in 0..deployed' /\ w \in 1..deployed'
      /\ key \in -1..generated' /\ key \in held' \cup rotated' \cup {NoGuardianKey, UserKey}
  BY <1>1, <1>2 DEF SetupInv, CommandGood, guardianKeys
<1>8. CommandGood(command)' /\ (command \in CommandType)'
  BY <1>5, <1>6, <1>7, BeginGood
<1>9. SetupTypeOK'
  <2>1. deployed' \in 0..MaxWallets /\ 0..deployed \subseteq 0..deployed' /\ 1..deployed \subseteq 1..deployed'
    BY <1>1, <1>2
  <2>2. configured \in [wallet : 0..deployed', progress : 0..deployed']
    BY <1>2, <2>1
  <2>. QED  BY <1>1, <1>2, <1>8, <2>1, <2>2 DEF SetupInv, SetupTypeOK, guardianKeys
<1>10. RegisteredLast' /\ GuardiansHeld'
  BY <1>1 DEF SetupInv, RegisteredLast, GuardiansHeld, Accounted, guardianKeys
<1>. QED  BY <1>8, <1>9, <1>10 DEF SetupInv

(* A transaction; the registration of an agent is the last of them.          *)
LEMMA SendStepInv ==
  ASSUME SetupInv, NEW s \in Transactions, SendStep(s)
  PROVE  SetupInv'
<1>. PICK w : w = command.wallet
  OBVIOUS
<1>1. /\ AtStep(s) /\ UNCHANGED <<deployed, guardian, elsewhere, configured, guardianKeys>>
      /\ s \notin {"end", "deploy", "newKey"}
  BY DEF SendStep, Transactions
<1>2. /\ command.todo # <<>> /\ command.todo[1] = s /\ w \in 1..deployed /\ Has(command.todo, s)
      /\ StepsOrdered(command.todo) /\ Len(command.todo) >= 1 /\ Len(command.todo) \in Nat
  BY <1>1, AtStepHead
<1>3. /\ deployed \in Nat /\ MaxWallets \in Nat /\ deployed <= MaxWallets /\ generated \in Nat
      /\ done \in [SetupWallets -> SUBSET Transactions]
      /\ reverted \in [SetupWallets -> SUBSET Transactions] /\ w \in SetupWallets
  BY <1>2, SetupAssumption DEF SetupInv, SetupTypeOK, SetupWallets
<1>4. \/ done' = [done EXCEPT ![w] = @ \cup {s}] /\ reverted' = reverted
      \/ reverted' = [reverted EXCEPT ![w] = @ \cup {s}] /\ done' = done
  BY DEF SendStep
<1>5. /\ done' \in [SetupWallets -> SUBSET Transactions]
      /\ reverted' \in [SetupWallets -> SUBSET Transactions]
      /\ \A v \in SetupWallets : Accounted(v) \subseteq Accounted(v)'
      /\ s \in Accounted(w)'
      /\ \A v \in SetupWallets : done'[v] \subseteq done[v] \cup (IF v = w THEN {s} ELSE {})
  <2>1. CASE done' = [done EXCEPT ![w] = @ \cup {s}] /\ reverted' = reverted
    BY <1>1, <1>3, <2>1 DEF Accounted
  <2>2. CASE reverted' = [reverted EXCEPT ![w] = @ \cup {s}] /\ done' = done
    BY <1>1, <1>3, <2>2 DEF Accounted
  <2>. QED  BY <1>4, <2>1, <2>2
<1>6. 1..deployed \subseteq SetupWallets
  BY <1>3 DEF SetupWallets
<1>7. CommandGood(command)' /\ (command \in CommandType)'
  <2>1. ChainGrows /\ generated' = generated
    BY <1>1, <1>3, <1>5, <1>6 DEF ChainGrows, guardianKeys
  <2>2. CASE command' = NoCommand
    BY <1>1, <1>3, <2>1, <2>2, NoCommandNext
  <2>3. CASE Continue(2)
    BY <1>1, <1>2, <1>5, <2>1, <2>3, ContinueGood
  <2>. QED  BY <2>2, <2>3 DEF SendStep
<1>8. SetupTypeOK'
  BY <1>1, <1>5, <1>7 DEF SetupInv, SetupTypeOK, guardianKeys
<1>9. GuardiansHeld'
  BY <1>1 DEF SetupInv, GuardiansHeld, guardianKeys
<1>10. RegisteredLast'
  <2> SUFFICES ASSUME NEW v \in SetupWallets, "register" \in done'[v]
               PROVE  {"defi", "whitelist"} \subseteq Accounted(v)'
    BY DEF RegisteredLast
  <2>1. CASE "register" \in done[v]
    BY <1>5, <2>1 DEF SetupInv, RegisteredLast
  <2>2. CASE "register" \notin done[v]
    <3>1. v = w /\ s = "register"
      BY <1>5, <2>2
    <3>2. Len(command.todo) = 2 /\ command.todo[1] = "register"
      <4>1. 1 \in 1..Len(command.todo)
        BY <1>2
      <4>2. Len(command.todo) = 1 + 1
        BY <1>2, <3>1, <4>1 DEF StepsOrdered
      <4>. QED  BY <1>2, <3>1, <4>2
    <3>3. /\ command.name = "ceremony" /\ Has(command.todo, "end")
          /\ \A z \in Promised(command.name) : z \in Accounted(w) \/ Has(command.todo, z)
      BY <1>2, <3>1 DEF SetupInv, CommandGood
    <3>4. command.todo[2] = "end"
      BY <3>2, <3>3 DEF Has
    <3>5. \A z \in {"defi", "whitelist"} : ~Has(command.todo, z)
      BY <3>2, <3>4 DEF Has
    <3>6. {"defi", "whitelist"} \subseteq Promised(command.name)
      BY <3>3 DEF Promised
    <3>. QED  BY <1>5, <3>1, <3>3, <3>5, <3>6
  <2>. QED  BY <2>1, <2>2
<1>. QED  BY <1>7, <1>8, <1>9, <1>10 DEF SetupInv

(* agent register sends the same transaction from outside.                   *)
LEMMA RegisterAgentInv ==
  ASSUME SetupInv, NEW w \in SetupWallets, RegisterAgent(w)
  PROVE  SetupInv'
<1>1. /\ done' = [done EXCEPT ![w] = @ \cup {"register"}] /\ elsewhere' = elsewhere \cup {w}
      /\ w <= deployed /\ command = NoCommand
      /\ UNCHANGED <<deployed, reverted, guardian, configured, guardianKeys, command>>
  BY DEF RegisterAgent
<1>2. /\ deployed \in Nat /\ generated \in Nat /\ w \in 1..deployed
      /\ done \in [SetupWallets -> SUBSET Transactions]
  BY <1>1, SetupAssumption DEF SetupInv, SetupTypeOK, SetupWallets
<1>3. command' = NoCommand /\ deployed' \in Nat /\ generated' \in Nat
  BY <1>1, <1>2 DEF guardianKeys
<1>4. CommandGood(command)' /\ (command \in CommandType)'
  BY <1>3, NoCommandNext
<1>5. done' \in [SetupWallets -> SUBSET Transactions]
  BY <1>1, <1>2 DEF Transactions
<1>6. SetupTypeOK'
  BY <1>1, <1>2, <1>4, <1>5 DEF SetupInv, SetupTypeOK, guardianKeys
<1>7. GuardiansHeld'
  BY <1>1 DEF SetupInv, GuardiansHeld, guardianKeys
<1>8. RegisteredLast'
  BY <1>1, <1>2 DEF SetupInv, RegisteredLast, Accounted
<1>. QED  BY <1>4, <1>6, <1>7, <1>8 DEF SetupInv

-----------------------------------------------------------------------------
(* Steps that choose, register or write a key.                               *)
LEMMA KeysStep ==
  ASSUME SetupInv, UNCHANGED <<onChain, configured>>,
         keyFile' \in 0..generated', held' \cup rotated' \subseteq 1..generated',
         generated' \in 0..MaxKeys, generated <= generated',
         held \subseteq held', rotated \subseteq rotated',
         CommandGood(command)', (command \in CommandType)'
  PROVE  SetupInv'
<1>1. generated \in Nat /\ generated' \in Nat
  BY SetupAssumption DEF SetupInv, SetupTypeOK
<1>2. -1..generated \subseteq -1..generated'
  BY <1>1
<1>3. guardian' \in [SetupWallets -> -1..generated']
  BY <1>2 DEF SetupInv, SetupTypeOK, onChain
<1>4. SetupTypeOK'
  BY <1>3 DEF SetupInv, SetupTypeOK, onChain
<1>5. GuardiansHeld'
  BY DEF SetupInv, GuardiansHeld, onChain
<1>6. RegisteredLast'
  BY DEF SetupInv, RegisteredLast, Accounted, onChain
<1>. QED  BY <1>4, <1>5, <1>6 DEF SetupInv

LEMMA KeyTypes ==
  ASSUME SetupInv
  PROVE  /\ generated \in 0..MaxKeys /\ MaxKeys \in Nat /\ keyFile \in 0..generated
         /\ held \subseteq 1..generated /\ rotated \subseteq 1..generated
         /\ deployed \in Nat /\ generated \in Nat
         /\ configured \in [wallet : 0..deployed, progress : 0..deployed]
         /\ command.key \in -1..generated
         /\ command.key \in held \cup rotated \cup {NoGuardianKey, UserKey}
  BY SetupAssumption DEF SetupInv, SetupTypeOK, CommandGood, CommandType

(* A key is written before the command goes on.                              *)
LEMMA WriteNewKeyInv ==
  ASSUME SetupInv, NEW then \in Seq(Steps), StepsOrdered(then), WriteNewKey(then),
         command.todo # <<>>, command.todo[1] # "deploy",
         \A s \in {"deploy", "register", "end", "keepKey", "guardian"} : Has(then, s) => Has(command.todo, s),
         \/ ~Has(command.todo, "end")
         \/ /\ \A s : Has(command.todo, s) => Has(then, s) \/ command.todo[1] = s
            /\ command.todo[1] \notin Promised(command.name) \cup {"end"},
         UNCHANGED <<onChain, configured, rotated>>
  PROVE  SetupInv'
<1>1. /\ generated \in 0..MaxKeys /\ MaxKeys \in Nat /\ keyFile \in 0..generated
      /\ held \subseteq 1..generated /\ rotated \subseteq 1..generated
      /\ deployed \in Nat /\ generated \in Nat
  BY KeyTypes
<1>. PICK n : n = generated + 1
  OBVIOUS
<1>2. /\ generated' = n /\ n \in 0..MaxKeys /\ generated' \in Nat /\ deployed' \in Nat
      /\ n \in 1..n /\ n \in -1..n /\ 1..generated \subseteq 1..n /\ 0..generated \subseteq 0..n
  BY <1>1 DEF WriteNewKey, onChain
<1>3. CASE keyFile # NoGuardianKey
  <2>1. command' = NoCommand /\ UNCHANGED <<keyFile, held>>
    BY <1>3 DEF WriteNewKey
  <2>2. CommandGood(command)' /\ (command \in CommandType)'
    BY <1>2, <2>1, NoCommandNext
  <2>. QED  BY <1>1, <1>2, <2>1, <2>2, KeysStep
<1>4. CASE keyFile = NoGuardianKey
  <2>1. /\ keyFile' = n /\ held' = held \cup {n}
        /\ command' = [command EXCEPT !.todo = then, !.key = n]
    BY <1>2, <1>4 DEF WriteNewKey
  <2>2. n \in -1..generated' /\ n \in held' \cup rotated' \cup {NoGuardianKey, UserKey}
    BY <1>2, <2>1
  <2>3. UNCHANGED <<deployed, done, reverted, elsewhere>>
    BY DEF onChain
  <2>4. CommandGood(command)' /\ (command \in CommandType)'
    BY <1>2, <2>1, <2>2, <2>3, KeyGood
  <2>5. keyFile' \in 0..generated' /\ held' \cup rotated' \subseteq 1..generated'
    BY <1>1, <1>2, <2>1
  <2>. QED  BY <1>1, <1>2, <2>1, <2>4, <2>5, KeysStep
<1>. QED  BY <1>3, <1>4

LEMMA ChooseGuardianInv ==
  ASSUME SetupInv, ChooseGuardian
  PROVE  SetupInv'
<1>. PICK todo : todo = command.todo
  OBVIOUS
<1>. PICK register : register = <<"setGuardian">> \o Tail(todo)
  OBVIOUS
<1>1. AtStep("guardian") /\ UNCHANGED <<onChain, configured>>
  BY DEF ChooseGuardian
<1>2. /\ todo \in Seq(Steps) /\ StepsOrdered(todo) /\ todo # <<>> /\ todo[1] = "guardian"
  BY <1>1, AtStepHead
<1>3. /\ register \in Seq(Steps) /\ StepsOrdered(register)
      /\ \A s \in {"deploy", "register", "end", "keepKey", "guardian"} : Has(register, s) => Has(todo, s)
      /\ \A s : Has(todo, s) => Has(register, s) \/ todo[1] = s
  BY <1>2, ChosenSteps
<1>4. Has(todo, "end") => "guardian" \notin Promised(command.name) \cup {"end"}
  BY EndPromises DEF Transactions
<1>8. ~Has(register, "keepKey")
  <2>1. Has(todo, "guardian")
    BY <1>1, AtStepHead
  <2>. QED  BY <1>3, <2>1 DEF SetupInv, CommandGood
<1>5. CASE Continue(2) /\ UNCHANGED guardianKeys
  <2>1. configured' \in [wallet : 0..deployed, progress : 0..deployed]
    BY <1>1, KeyTypes
  <2>. QED  BY <1>1, <1>4, <1>5, <2>1, ContinueStep
<1>6. CASE /\ command' = [command EXCEPT !.todo = register, !.key = UserKey]
           /\ UNCHANGED guardianKeys
  <2>1. /\ UserKey \in -1..generated' /\ generated' = generated /\ generated \in Nat
        /\ UserKey \in held' \cup rotated' \cup {NoGuardianKey, UserKey}
        /\ UNCHANGED <<deployed, done, reverted, elsewhere>>
    BY <1>1, <1>6, KeyTypes DEF guardianKeys, UserKey, onChain
  <2>2. CommandGood(command)' /\ (command \in CommandType)'
    BY <1>2, <1>3, <1>4, <1>6, <1>8, <2>1, KeyGood
  <2>3. configured' \in [wallet : 0..deployed, progress : 0..deployed]
    BY <1>1, KeyTypes
  <2>. QED  BY <1>1, <1>6, <2>2, <2>3, CommandStep
<1>7. CASE WriteNewKey(register) /\ UNCHANGED rotated
  BY <1>1, <1>2, <1>3, <1>4, <1>7, WriteNewKeyInv
<1>. QED  BY <1>5, <1>6, <1>7 DEF ChooseGuardian

LEMMA DeployKeyInv ==
  ASSUME SetupInv, DeployKey
  PROVE  SetupInv'
<1>. PICK todo : todo = command.todo
  OBVIOUS
<1>1. /\ AtStep("keyFile") /\ WriteNewKey(Tail(todo)) /\ UNCHANGED <<onChain, configured, rotated>>
  BY DEF DeployKey
<1>2. /\ todo \in Seq(Steps) /\ StepsOrdered(todo) /\ todo # <<>> /\ todo[1] = "keyFile"
  BY <1>1, AtStepHead
<1>3. /\ Tail(todo) \in Seq(Steps) /\ StepsOrdered(Tail(todo))
      /\ \A s : Has(Tail(todo), s) => Has(todo, s)
      /\ \A s : Has(todo, s) => Has(Tail(todo), s) \/ todo[1] = s
  BY <1>2, TailSteps
<1>4. Has(todo, "end") => "keyFile" \notin Promised(command.name) \cup {"end"}
  BY EndPromises DEF Transactions
<1>. QED  BY <1>1, <1>2, <1>3, <1>4, WriteNewKeyInv

LEMMA GenerateKeyInv ==
  ASSUME SetupInv, GenerateKey
  PROVE  SetupInv'
<1>. PICK todo : todo = command.todo
  OBVIOUS
<1>1. AtStep("newKey") /\ UNCHANGED <<onChain, configured, keyFile, held>>
  BY DEF GenerateKey
<1>2. /\ todo \in Seq(Steps) /\ StepsOrdered(todo) /\ todo # <<>> /\ todo[1] = "newKey"
  BY <1>1, AtStepHead
<1>3. /\ generated \in 0..MaxKeys /\ MaxKeys \in Nat /\ keyFile \in 0..generated
      /\ held \subseteq 1..generated /\ rotated \subseteq 1..generated
      /\ deployed \in Nat /\ generated \in Nat
      /\ command.key \in -1..generated
      /\ command.key \in held \cup rotated \cup {NoGuardianKey, UserKey}
  BY KeyTypes
<1>4. UNCHANGED <<deployed, done, reverted, elsewhere>>
  BY <1>1 DEF onChain
<1>5. CASE /\ generated < MaxKeys
           /\ generated' = generated + 1 /\ rotated' = rotated \cup {generated'}
           /\ command' = [command EXCEPT !.todo = Tail(@), !.key = generated']
  <2>. PICK n : n = generated + 1
    OBVIOUS
  <2>1. /\ n \in 0..MaxKeys /\ generated' = n /\ rotated' = rotated \cup {n} /\ n \in -1..n
        /\ n \in 1..n /\ 1..generated \subseteq 1..n /\ 0..generated \subseteq 0..n
        /\ generated' \in Nat
    BY <1>3, <1>5
  <2>2. command' = [command EXCEPT !.todo = Tail(todo), !.key = n]
    BY <1>5, <2>1
  <2>3. /\ Tail(todo) \in Seq(Steps) /\ StepsOrdered(Tail(todo))
        /\ \A s : Has(Tail(todo), s) => Has(todo, s)
        /\ \A s : Has(todo, s) => Has(Tail(todo), s) \/ todo[1] = s
    BY <1>2, TailSteps
  <2>4. Has(todo, "end") => "newKey" \notin Promised(command.name) \cup {"end"}
    BY EndPromises DEF Transactions
  <2>5. CommandGood(command)' /\ (command \in CommandType)'
    BY <1>2, <1>4, <2>1, <2>2, <2>3, <2>4, KeyGood
  <2>6. keyFile' \in 0..generated' /\ held' \cup rotated' \subseteq 1..generated'
    BY <1>1, <1>3, <2>1
  <2>. QED  BY <1>1, <1>3, <2>1, <2>5, <2>6, KeysStep
<1>6. CASE /\ command.name = "governance"
           /\ command' = [command EXCEPT !.todo = WithoutGuardian]
           /\ UNCHANGED <<generated, rotated>>
  <2>. PICK key : key = command.key
    OBVIOUS
  <2>1. command \in CommandType
    BY DEF SetupInv, SetupTypeOK
  <2>2. command' = [command EXCEPT !.todo = WithoutGuardian, !.key = key]
    BY <1>6, <2>1 DEF CommandType
  <2>3. ~Has(todo, "end")
    BY <1>6, EndPromises
  <2>4. /\ WithoutGuardian \in Unreported /\ WithoutGuardian # <<"deploy">>
        /\ WithoutGuardian[1] # "newKey"
    BY DEF Unreported, WithoutGuardian
  <2>5. /\ WithoutGuardian \in Seq(Steps) /\ StepsOrdered(WithoutGuardian)
        /\ \A s \in {"deploy", "register", "end", "keepKey", "guardian"} : ~Has(WithoutGuardian, s)
    BY <2>4, UnreportedSteps
  <2>6. /\ key \in -1..generated' /\ key \in held' \cup rotated' \cup {NoGuardianKey, UserKey}
        /\ generated' \in Nat
    BY <1>1, <1>3, <1>6
  <2>7. CommandGood(command)' /\ (command \in CommandType)'
    BY <1>2, <1>4, <2>2, <2>3, <2>5, <2>6, KeyGood
  <2>. QED  BY <1>1, <1>3, <1>6, <2>7, KeysStep
<1>. QED  BY <1>5, <1>6 DEF GenerateKey

LEMMA SetGuardianMinedInv ==
  ASSUME SetupInv, SetGuardianMined
  PROVE  SetupInv'
<1>. PICK w : w = command.wallet
  OBVIOUS
<1>. PICK key : key = command.key
  OBVIOUS
<1>1. /\ AtStep("setGuardian")
      /\ UNCHANGED <<deployed, done, reverted, elsewhere, configured, guardianKeys>>
      /\ guardian' = [guardian EXCEPT ![w] = key] \/ guardian' = guardian
      /\ Continue(2) \/ command' = NoCommand
  BY DEF SetGuardianMined
<1>2. command.todo # <<>> /\ command.todo[1] = "setGuardian" /\ w \in 1..deployed
  BY <1>1, AtStepHead
<1>3. /\ key \in -1..generated /\ key \in held \cup rotated \cup {NoGuardianKey, UserKey}
      /\ deployed \in Nat /\ generated \in Nat
  BY KeyTypes
<1>4. guardian' \in [SetupWallets -> -1..generated] /\ GuardiansHeld'
  BY <1>1, <1>3 DEF SetupInv, SetupTypeOK, GuardiansHeld, guardianKeys
<1>5. RegisteredLast'
  BY <1>1 DEF SetupInv, RegisteredLast, Accounted
<1>6. Has(command.todo, "end") => "setGuardian" \notin Promised(command.name)
  BY EndPromises DEF Transactions
<1>7. CommandGood(command)' /\ (command \in CommandType)'
  <2>1. ChainGrows /\ generated' = generated
    BY <1>1, SetupAssumption DEF SetupInv, SetupTypeOK, ChainGrows, Accounted, guardianKeys
  <2>2. CASE Continue(2)
    BY <1>2, <1>6, <2>1, <2>2, ContinueGood
  <2>3. CASE command' = NoCommand
    BY <1>1, <1>3, <2>1, <2>3, NoCommandNext
  <2>. QED  BY <1>1, <2>2, <2>3
<1>8. SetupTypeOK'
  BY <1>1, <1>4, <1>7 DEF SetupInv, SetupTypeOK, guardianKeys
<1>. QED  BY <1>4, <1>5, <1>7, <1>8 DEF SetupInv

(* The key is kept unless an older one is in the file.                       *)
LEMMA KeepKeyInv ==
  ASSUME SetupInv, KeepKey
  PROVE  SetupInv'
<1>1. /\ AtStep("keepKey") /\ command' = NoCommand
      /\ UNCHANGED <<onChain, configured, generated, rotated>>
      /\ \/ keyFile' = command.key /\ held' = held \cup {command.key}
         \/ UNCHANGED <<keyFile, held>>
  BY DEF KeepKey
<1>2. command.key \in 1..generated
  <2>1. Has(command.todo, "keepKey") /\ command.todo[1] # "newKey"
    BY <1>1, AtStepHead
  <2>. QED  BY <2>1 DEF SetupInv, CommandGood
<1>3. /\ generated \in 0..MaxKeys /\ keyFile \in 0..generated /\ generated \in Nat
      /\ held \subseteq 1..generated /\ rotated \subseteq 1..generated /\ deployed \in Nat
  BY KeyTypes
<1>4. command.key \in 0..generated
  BY <1>2, <1>3
<1>. PICK key : key = command.key
  OBVIOUS
<1>5. /\ keyFile' \in 0..generated' /\ held' \cup rotated' \subseteq 1..generated'
      /\ held \subseteq held' /\ rotated \subseteq rotated' /\ generated <= generated'
      /\ generated' \in 0..MaxKeys /\ generated' \in Nat
  <2>1. generated' = generated /\ rotated' = rotated
    BY <1>1
  <2>2. CASE keyFile' = command.key /\ held' = held \cup {command.key}
    <3>1. key \in 1..generated /\ keyFile' = key /\ held' = held \cup {key}
      BY <1>2, <2>2
    <3>2. keyFile' \in 0..generated'
      BY <1>3, <2>1, <3>1
    <3>3. held \subseteq held' /\ held' \cup rotated' \subseteq 1..generated'
      BY <1>3, <2>1, <3>1
    <3>. QED  BY <1>3, <2>1, <3>2, <3>3
  <2>3. CASE UNCHANGED <<keyFile, held>>
    BY <1>3, <2>1, <2>3
  <2>. QED  BY <1>1, <2>2, <2>3
<1>6. deployed' \in Nat
  BY <1>1, <1>3 DEF onChain
<1>7. CommandGood(command)' /\ (command \in CommandType)'
  BY <1>1, <1>5, <1>6, NoCommandNext
<1>. QED  BY <1>1, <1>5, <1>7, KeysStep

LEMMA MoveKeyInv ==
  ASSUME SetupInv, MoveKey
  PROVE  SetupInv'
<1>1. /\ keyFile' = NoGuardianKey
      /\ UNCHANGED <<onChain, configured, held, generated, rotated, command>>
  BY DEF MoveKey
<1>2. /\ generated \in 0..MaxKeys /\ generated \in Nat
      /\ held \subseteq 1..generated /\ rotated \subseteq 1..generated
  BY KeyTypes
<1>3. CommandGood(command)' /\ (command \in CommandType)'
  BY <1>1 DEF SetupInv, SetupTypeOK, CommandGood, CommandType, Accounted, onChain
<1>4. /\ keyFile' \in 0..generated' /\ held' \cup rotated' \subseteq 1..generated'
      /\ held \subseteq held' /\ rotated \subseteq rotated' /\ generated <= generated'
      /\ generated' \in 0..MaxKeys
  BY <1>1, <1>2 DEF NoGuardianKey
<1>. QED  BY <1>1, <1>3, <1>4, KeysStep

LEMMA SetupInvDelivers == SetupInv => SetupDelivers
<1> SUFFICES ASSUME SetupInv PROVE SetupDelivers
  OBVIOUS
<1>1. FinishedIsDone
  <2> SUFFICES ASSUME AtStep("end")
               PROVE  Promised(command.name) \subseteq Accounted(command.wallet)
    BY DEF FinishedIsDone, Accounted
  <2>1. /\ Len(command.todo) >= 1 /\ Len(command.todo) \in Nat /\ command.todo[1] = "end"
        /\ StepsOrdered(command.todo) /\ Has(command.todo, "end")
    BY AtStepHead
  <2>2. Len(command.todo) = 1
    <3>1. 1 \in 1..Len(command.todo)
      BY <2>1
    <3>. QED  BY <2>1, <3>1 DEF StepsOrdered
  <2>3. \A s \in Transactions : ~Has(command.todo, s)
    BY <2>1, <2>2 DEF Has, Transactions
  <2>. QED  BY <2>1, <2>3, EndPromises
<1>2. DeployedKeysHeld
  BY SetupAssumption DEF SetupInv, SetupTypeOK, GuardiansHeld, DeployedKeysHeld, SetupWallets
<1>. QED  BY <1>1, <1>2 DEF SetupDelivers

(* A set-up that is reported as complete is complete, across deaths of the   *)
(* command, resumptions and registrations from outside, for any number of    *)
(* wallets and keys; and the key of a guardian that a deploy registered was  *)
(* written.                                                                  *)
THEOREM SetupCorrect == SetupSpec => [](SetupTypeOK /\ SetupDelivers)
<1>1. SetupInv /\ [SetupNext]_setupVars => SetupInv'
  <2> SUFFICES ASSUME SetupInv, [SetupNext]_setupVars PROVE SetupInv'
    OBVIOUS
  <2>1. CASE UNCHANGED setupVars
    <3>1. CommandGood(command)' /\ (command \in CommandType)'
      BY <2>1 DEF setupVars, SetupInv, SetupTypeOK, CommandGood, CommandType, Accounted
    <3>2. UNCHANGED <<onChain, guardianKeys>>
      BY <2>1 DEF setupVars, onChain, guardianKeys
    <3>3. configured' \in [wallet : 0..deployed, progress : 0..deployed]
      BY <2>1, KeyTypes DEF setupVars
    <3>. QED  BY <3>1, <3>2, <3>3, CommandStep
  <2>2. CASE \E kind \in {"ceremony", "hotKey", "bare"}, force \in BOOLEAN :
               StartDeploy(kind, force)
    BY <2>2, StartDeployInv
  <2>3. CASE StartCommand("onboard", Onboarding)
    BY <2>3, StartCommandInv DEF SetupNames
  <2>4. CASE StartCommand("set-guardian", SetGuardian)
    BY <2>4, StartCommandInv DEF SetupNames
  <2>5. CASE StartCommand("governance", GovernanceSetup)
    BY <2>5, StartCommandInv DEF SetupNames
  <2>6. CASE \E w \in SetupWallets : UseWallet(w) \/ RegisterAgent(w)
    BY <2>6, UseWalletInv, RegisterAgentInv
  <2>7. CASE \E s \in Transactions : SendStep(s)
    BY <2>7, SendStepInv
  <2>8. CASE DeployMined \/ SaveConfig \/ SkipStep \/ CheckAgent \/ ChooseGuardian \/ DeployKey
    BY <2>8, DeployMinedInv, SaveConfigInv, SkipStepInv, CheckAgentInv, ChooseGuardianInv,
       DeployKeyInv
  <2>9. CASE GenerateKey \/ SetGuardianMined \/ KeepKey \/ Finish \/ CommandDies \/ MoveKey
    BY <2>9, GenerateKeyInv, SetGuardianMinedInv, KeepKeyInv, FinishInv, CommandDiesInv, MoveKeyInv
  <2>. QED  BY <2>1, <2>2, <2>3, <2>4, <2>5, <2>6, <2>7, <2>8, <2>9 DEF SetupNext
<1>2. SetupInv => SetupTypeOK /\ SetupDelivers
  BY SetupInvDelivers DEF SetupInv
<1>. QED
  BY SetupInitInv, <1>1, <1>2, PTL DEF SetupSpec

-----------------------------------------------------------------------------
(* The handshake watcher.  What it keeps in memory is of the current run,   *)
(* it has the ids on disk in memory, and no log of the scan waits that is   *)
(* handled already.                                                         *)
WatcherSound ==
  /\ phase \in {"down", "scanning"} =>
       handling = {} /\ logs = {} /\ delivered = {} /\ failed = {}
  /\ phase = "catching_up" => delivered = {}
  /\ phase = "live" => logs = {}
  /\ phase # "down" => savedIds \subseteq processed
  /\ logs \cap (processed \cup handling) = {}
  /\ delivered \subseteq Sent
  /\ \A h \in Handshakes : sentAt[h] <= block

(* While the scan's logs are handled, the same as NoneMissed: what was sent *)
(* by the time of the scan is handled or waits.                             *)
NoneForgotten ==
  phase = "catching_up" =>
    \A h \in Sent :
      \/ h \in processed \cup handling \cup failed \cup logs
      \/ sentAt[h] < scannedTo - SCAN_BLOCKS
      \/ sentAt[h] > scannedTo

WatcherInv == WatcherTypeOK /\ WatcherSound /\ NoneForgotten /\ NoneMissed

LEMMA WatcherInitInv == WatcherInit => WatcherInv
<1> SUFFICES ASSUME WatcherInit PROVE WatcherInv
  OBVIOUS
<1> USE HandshakeAssumption DEF WatcherInit
<1>1. WatcherTypeOK
  BY DEF WatcherTypeOK
<1>2. WatcherSound /\ NoneForgotten /\ NoneMissed
  BY DEF WatcherSound, NoneForgotten, NoneMissed, Sent
<1>. QED  BY <1>1, <1>2 DEF WatcherInv

(* A new block: what it holds is for the live events, or for the next start. *)
LEMMA MineInv == WatcherInv /\ Mine => WatcherInv'
<1> SUFFICES ASSUME WatcherInv, Mine PROVE WatcherInv'
  OBVIOUS
<1> USE HandshakeAssumption DEF WatcherInv, WatcherTypeOK
<1>. PICK new \in SUBSET (Handshakes \ Sent) :
       sentAt' = [h \in Handshakes |-> IF h \in new THEN block' ELSE sentAt[h]]
  BY DEF Mine
<1>. block < MaxBlock /\ block' = block + 1
  BY DEF Mine
<1>1. WatcherTypeOK'
  BY DEF Mine, thisRun
<1>2. Sent' = Sent \cup new /\ \A h \in Sent : sentAt'[h] = sentAt[h]
  BY DEF Sent
<1>3. WatcherSound'
  BY <1>2 DEF WatcherSound, Mine, thisRun
<1>4. NoneForgotten'
  BY <1>2 DEF NoneForgotten, Mine, thisRun
<1>5. NoneMissed'
  BY <1>2 DEF NoneMissed, WatcherSound, Mine, thisRun
<1>. QED  BY <1>1, <1>3, <1>4, <1>5

(* A start and a stop of the daemon                                          *)
LEMMA StartStopInv == WatcherInv /\ (StartWatcher \/ StopWatcher) => WatcherInv'
<1> SUFFICES ASSUME WatcherInv, StartWatcher \/ StopWatcher PROVE WatcherInv'
  OBVIOUS
<1> USE HandshakeAssumption DEF WatcherInv, WatcherTypeOK
<1>1. WatcherTypeOK'
  BY DEF StartWatcher, StopWatcher, chain
<1>2. (WatcherSound /\ NoneForgotten /\ NoneMissed)'
  BY DEF WatcherSound, NoneForgotten, NoneMissed, Sent, StartWatcher, StopWatcher, chain
<1>. QED  BY <1>1, <1>2

(* The scan, and the subscription after it                                   *)
LEMMA ScanInv == WatcherInv /\ (CatchupScan \/ CatchupFails \/ SubscribeLive) => WatcherInv'
<1> SUFFICES ASSUME WatcherInv, CatchupScan \/ CatchupFails \/ SubscribeLive PROVE WatcherInv'
  OBVIOUS
<1> USE HandshakeAssumption DEF WatcherInv, WatcherTypeOK
<1>1. CASE CatchupScan
  <2>1. WatcherTypeOK' /\ WatcherSound' /\ NoneMissed'
    BY <1>1 DEF CatchupScan, chain, WatcherSound, NoneMissed, Sent
  <2>2. NoneForgotten'
    BY <1>1 DEF CatchupScan, chain, NoneForgotten, Sent, FromBlock
  <2>. QED  BY <2>1, <2>2
<1>2. CASE CatchupFails
  BY <1>2 DEF CatchupFails, chain, WatcherSound, NoneForgotten, NoneMissed, Sent
<1>3. CASE SubscribeLive
  <2>1. WatcherTypeOK' /\ WatcherSound' /\ NoneForgotten'
    BY <1>3 DEF SubscribeLive, chain, WatcherSound, NoneForgotten, Sent
  <2>2. NoneMissed'
    BY <1>3 DEF SubscribeLive, chain, NoneForgotten, NoneMissed, WatcherSound, Sent
  <2>. QED  BY <2>1, <2>2
<1>. QED  BY <1>1, <1>2, <1>3

(* One handshake is taken up, or its handler returns or throws               *)
LEMMA HandleInv ==
  ASSUME NEW h \in Handshakes
  PROVE  WatcherInv /\ (HandleNext(h) \/ Deliver(h) \/ HandlingEnds(h) \/ HandlingFails(h))
           => WatcherInv'
<1> SUFFICES ASSUME WatcherInv, HandleNext(h) \/ Deliver(h) \/ HandlingEnds(h) \/ HandlingFails(h)
             PROVE  WatcherInv'
  OBVIOUS
<1> USE HandshakeAssumption DEF WatcherInv, WatcherTypeOK, chain, thisRun
<1>1. WatcherTypeOK'
  BY DEF HandleNext, Deliver, HandlingEnds, HandlingFails
<1>2. phase' = phase /\ Sent' = Sent /\ sentAt' = sentAt /\ block' = block
      /\ scannedTo' = scannedTo /\ liveFrom' = liveFrom
  BY DEF HandleNext, Deliver, HandlingEnds, HandlingFails, Sent
<1>3. WatcherSound'
  BY <1>2 DEF WatcherSound, Sent, HandleNext, Deliver, HandlingEnds, HandlingFails
<1>4. NoneForgotten'
  BY <1>2 DEF NoneForgotten, HandleNext, Deliver, HandlingEnds, HandlingFails
<1>5. NoneMissed'
  BY <1>2 DEF NoneMissed, HandleNext, Deliver, HandlingEnds, HandlingFails
<1>. QED  BY <1>1, <1>3, <1>4, <1>5

LEMMA WatcherStepInv == WatcherInv /\ [WatcherNext]_watcherVars => WatcherInv'
<1> SUFFICES ASSUME WatcherInv, [WatcherNext]_watcherVars PROVE WatcherInv'
  OBVIOUS
<1>1. CASE WatcherNext
  BY <1>1, MineInv, StartStopInv, ScanInv, HandleInv DEF WatcherNext
<1>2. CASE UNCHANGED watcherVars
  BY <1>2 DEF watcherVars, WatcherInv, WatcherTypeOK, WatcherSound, NoneForgotten, NoneMissed, Sent
<1>. QED  BY <1>1, <1>2

LEMMA WatcherInvHolds == WatcherSpec => []WatcherInv
  BY WatcherInitInv, WatcherStepInv, PTL DEF WatcherSpec

HandlesNew == \A h \in handling' \ handling : h \notin savedIds \cup processed

(* A step takes up only a handshake whose id is neither known nor on disk.   *)
LEMMA StepHandlesNew == WatcherInv /\ [WatcherNext]_watcherVars => [HandlesNew]_watcherVars
<1> SUFFICES ASSUME WatcherInv, WatcherNext PROVE HandlesNew
  OBVIOUS
<1> USE DEF HandlesNew, WatcherInv, WatcherSound
<1>1. CASE Mine \/ StartWatcher \/ CatchupScan \/ CatchupFails \/ SubscribeLive \/ StopWatcher
  BY <1>1 DEF Mine, StartWatcher, CatchupScan, CatchupFails, SubscribeLive, StopWatcher
<1>2. ASSUME NEW h \in Handshakes,
             HandleNext(h) \/ Deliver(h) \/ HandlingEnds(h) \/ HandlingFails(h)
      PROVE  HandlesNew
  BY <1>2 DEF HandleNext, Deliver, HandlingEnds, HandlingFails
<1>. QED  BY <1>1, <1>2 DEF WatcherNext

(* However the daemon stops and starts, in whatever order blocks and events *)
(* come: a live watcher has handled, is handling or has failed each         *)
(* handshake of the blocks it scanned and of those since its subscription,  *)
(* and none is handled again once its id is on disk, nor twice in one run.  *)
THEOREM WatcherHandlesOnce == WatcherSpec => HandshakesHandled
<1>1. WatcherSpec => []NoneMissed
  BY WatcherInvHolds, PTL DEF WatcherInv
<1>2. WatcherSpec => [][HandlesNew]_watcherVars
  BY WatcherInvHolds, StepHandlesNew, PTL DEF WatcherSpec
<1>3. [][HandlesNew]_watcherVars => NeverHandledTwice
  BY PTL DEF NeverHandledTwice, HandlesNew
<1>. QED  BY <1>1, <1>2, <1>3, PTL DEF HandshakesHandled

-----------------------------------------------------------------------------
Busy(c) == check[c].at # "idle"

(* The spending gate.  A check under way knows the limits there were since, *)
(* and an allowed one is within one of them.                                *)
ChecksKnowLimits ==
  \A c \in Checks : Busy(c) =>
    /\ IsFiniteSet(check[c].limits) /\ limit \in check[c].limits
    /\ check[c].at = "allowed" => \E l \in check[c].limits : check[c].projected <= l

(* A job whose checks never overlapped and were all answered: all it was    *)
(* granted is counted, its one check asks for what it would then have       *)
(* spent, and no grant that is kept is for more than it spent already.      *)
SpendCounted ==
  \A j \in Jobs \ blurred :
    /\ granted[j] = spend[j]
    /\ \A c \in Checks : Busy(c) /\ check[c].job = j =>
         /\ check[c].projected = spend[j] + check[c].amount
         /\ \A o \in Checks : Busy(o) /\ check[o].job = j => o = c
    /\ \A p \in 1..MaxSpend : decided[<<j, p>>].ok => p <= spend[j]

GateInv == GateTypeOK /\ ChecksKnowLimits /\ SpendCounted

LEMMA GateInitInv == GateInit => GateInv
<1> SUFFICES ASSUME GateInit PROVE GateInv
  OBVIOUS
<1> USE PermissionGateAssumption
<1>1. failOpen \in BOOLEAN
  BY DEF GateInit
<1>2. /\ gateTime \in 0..MaxGateTime /\ limit \in Limits
      /\ spend \in [Jobs -> 0..MaxSpend] /\ granted \in [Jobs -> Nat]
      /\ check \in [Checks -> {Idle} \cup CheckType] /\ blurred \subseteq Jobs
  BY DEF GateInit
<1>3. decided \in [Jobs \X (1..MaxSpend) -> [until : 0..(MaxGateTime + CacheTTL), ok : BOOLEAN]]
  BY DEF GateInit
<1>4. ChecksKnowLimits /\ SpendCounted
  BY DEF GateInit, ChecksKnowLimits, SpendCounted, Busy, Idle
<1>. QED  BY <1>1, <1>2, <1>3, <1>4 DEF GateInv, GateTypeOK

(* What a check under way holds                                              *)
LEMMA BusyCheck ==
  ASSUME GateTypeOK, NEW c \in Checks, Busy(c)
  PROVE  check[c] \in CheckType
  BY DEF GateTypeOK, Busy, Idle

LEMMA CheckFields ==
  ASSUME NEW d \in CheckType
  PROVE  d.job \in Jobs /\ d.amount \in Nat /\ d.projected \in Nat
<1>1. d.job \in Jobs /\ d.amount \in SpendAmounts /\ d.projected \in 1..MaxSpend
  BY DEF CheckType
<1>2. d.amount \in Nat
  BY <1>1, PermissionGateAssumption
<1>3. d.projected \in Nat
  BY <1>1, PermissionGateAssumption
<1>. QED  BY <1>1, <1>2, <1>3

(* The type invariant but for failOpen, which no step changes                *)
GateTypes ==
  /\ gateTime \in 0..MaxGateTime /\ limit \in Limits
  /\ spend \in [Jobs -> 0..MaxSpend] /\ granted \in [Jobs -> Nat]
  /\ decided \in [Jobs \X (1..MaxSpend) ->
                     [until : 0..(MaxGateTime + CacheTTL), ok : BOOLEAN]]
  /\ check \in [Checks -> {Idle} \cup CheckType]
  /\ blurred \subseteq Jobs

LEMMA GateTypesAre == GateTypeOK <=> GateTypes /\ failOpen \in BOOLEAN
  BY DEF GateTypeOK, GateTypes

GateCounts == GateTypes /\ ChecksKnowLimits /\ SpendCounted

LEMMA BeginCheckInv ==
  ASSUME NEW c \in Checks, NEW j \in Jobs, NEW amount \in SpendAmounts
  PROVE  GateCounts /\ BeginCheck(c, j, amount) => GateCounts'
<1> SUFFICES ASSUME GateCounts, BeginCheck(c, j, amount) PROVE GateCounts'
  OBVIOUS
<1> USE PermissionGateAssumption DEF GateCounts
<1> DEFINE p == spend[j] + amount
           new == [at |-> "asking", job |-> j, amount |-> amount, projected |-> p,
                   since |-> gateTime, limits |-> {limit}]
<1>1. p \in 1..MaxSpend /\ p > spend[j] /\ amount \in Nat /\ spend[j] \in Nat
  BY DEF BeginCheck, GateTypes
<1>2. UNCHANGED <<gateTime, limit, decided>> /\ check[c].at = "idle" /\ blurred \subseteq blurred'
      /\ blurred' \subseteq Jobs
  BY DEF BeginCheck, GateTypes
<1>3. CASE decided[<<j, p>>].until > gateTime
  <2>1. check' = check
    BY <1>3 DEF BeginCheck
  <2>2. CASE decided[<<j, p>>].ok
    <3>1. j \in blurred
      BY <1>1, <2>2 DEF SpendCounted
    <3>2. spend' = [spend EXCEPT ![j] = p] /\ granted' = [granted EXCEPT ![j] = @ + amount]
      BY <1>3, <2>2 DEF BeginCheck
    <3>3. GateTypes'
      BY <1>1, <1>2, <2>1, <3>2 DEF GateTypes
    <3>4. ChecksKnowLimits'
      BY <1>2, <2>1 DEF ChecksKnowLimits, Busy
    <3>5. SpendCounted'
      BY <1>2, <2>1, <3>1, <3>2 DEF SpendCounted, Busy, GateTypes
    <3>. QED  BY <3>3, <3>4, <3>5
  <2>3. CASE ~decided[<<j, p>>].ok
    <3>1. spend' = spend /\ granted' = granted
      BY <1>3, <2>3 DEF BeginCheck, GateTypes
    <3>2. GateTypes'
      BY <1>2, <2>1, <3>1 DEF GateTypes
    <3>3. ChecksKnowLimits'
      BY <1>2, <2>1 DEF ChecksKnowLimits, Busy
    <3>4. SpendCounted'
      BY <1>2, <2>1, <3>1 DEF SpendCounted, Busy
    <3>. QED  BY <3>2, <3>3, <3>4
  <2>. QED  BY <2>2, <2>3
<1>4. CASE ~(decided[<<j, p>>].until > gateTime)
  <2>1. /\ check' = [check EXCEPT ![c] = new]
        /\ spend' = spend /\ granted' = granted
    BY <1>4 DEF BeginCheck
  <2>2. new \in CheckType
    BY <1>1 DEF CheckType, GateTypes
  <2>3. new.at = "asking" /\ new.job = j /\ new.amount = amount /\ new.projected = p
        /\ new.limits = {limit}
    OBVIOUS
  <2> HIDE DEF new
  <2>4. GateTypes'
    BY <1>2, <2>1, <2>2 DEF GateTypes
  <2>5. check'[c] = new /\ \A o \in Checks : o # c => check'[o] = check[o]
    BY <2>1 DEF GateTypes
  <2>6. ChecksKnowLimits'
    <3>1. IsFiniteSet({limit})
      BY FS_Singleton
    <3>. QED  BY <1>2, <2>3, <2>5, <3>1 DEF ChecksKnowLimits, Busy
  <2>7. \A o \in Checks : Busy(o) /\ check[o].job = j => j \in blurred'
    BY DEF BeginCheck, Busy
  <2>8. SpendCounted'
    BY <1>2, <2>1, <2>3, <2>5, <2>7 DEF SpendCounted, Busy
  <2>. QED  BY <2>4, <2>6, <2>8
<1>. QED  BY <1>3, <1>4

LEMMA PolicyAnswersInv ==
  ASSUME NEW c \in Checks
  PROVE  GateCounts /\ PolicyAnswers(c) => GateCounts'
<1> SUFFICES ASSUME GateCounts, PolicyAnswers(c) PROVE GateCounts'
  OBVIOUS
<1> USE PermissionGateAssumption DEF GateCounts
<1> DEFINE new == [check[c] EXCEPT !.at = IF check[c].projected <= limit THEN "allowed" ELSE "refused"]
<1>1. check[c] \in CheckType
  BY DEF GateTypes, PolicyAnswers, Idle
<1>2. /\ new \in CheckType /\ new.at # "idle"
      /\ new.at = "allowed" => check[c].projected <= limit
      /\ new.job = check[c].job /\ new.amount = check[c].amount
      /\ new.projected = check[c].projected /\ new.limits = check[c].limits
  BY <1>1 DEF CheckType
<1>3. check' = [check EXCEPT ![c] = new]
  BY DEF PolicyAnswers
<1>4. UNCHANGED <<gateTime, limit, decided, spend, granted, blurred>> /\ Busy(c)
  BY DEF PolicyAnswers, Busy
<1> HIDE DEF new
<1>5. GateTypes'
  BY <1>2, <1>3, <1>4 DEF GateTypes
<1>6. check'[c] = new /\ \A o \in Checks : o # c => check'[o] = check[o]
  BY <1>3 DEF GateTypes
<1>7. ChecksKnowLimits'
  BY <1>2, <1>4, <1>6 DEF ChecksKnowLimits, Busy
<1>8. \A o \in Checks : Busy(o)' = Busy(o) /\ (Busy(o) => /\ check'[o].job = check[o].job
            /\ check'[o].amount = check[o].amount /\ check'[o].projected = check[o].projected)
  BY <1>2, <1>4, <1>6 DEF Busy
<1>9. SpendCounted'
  BY <1>4, <1>8 DEF SpendCounted
<1>. QED  BY <1>5, <1>7, <1>9

(* A check that ends keeps its answer, and is a check under way no more.     *)
LEMMA KeepKeeps ==
  ASSUME GateTypes, NEW c \in Checks, Busy(c), NEW ok \in BOOLEAN, Keep(c, ok),
         check' = [check EXCEPT ![c] = Idle]
  PROVE  /\ decided' \in [Jobs \X (1..MaxSpend) ->
                            [until : 0..(MaxGateTime + CacheTTL), ok : BOOLEAN]]
         /\ decided'[<<check[c].job, check[c].projected>>].ok = ok
         /\ \A e \in Jobs \X (1..MaxSpend) :
              e # <<check[c].job, check[c].projected>> => decided'[e] = decided[e]
         /\ check' \in [Checks -> {Idle} \cup CheckType]
         /\ \A o \in Checks : Busy(o)' <=> Busy(o) /\ o # c
         /\ \A o \in Checks : o # c => check'[o] = check[o]
<1>. USE PermissionGateAssumption
<1>1. check[c] \in CheckType
  BY DEF GateTypes, Busy, Idle
<1>2. check[c].job \in Jobs /\ check[c].projected \in 1..MaxSpend /\ check[c].since \in 0..MaxGateTime
  BY <1>1 DEF CheckType
<1> DEFINE e == <<check[c].job, check[c].projected>>
           r == [until |-> check[c].since + CacheTTL, ok |-> ok]
<1>3. e \in Jobs \X (1..MaxSpend)
  BY <1>2
<1>4. r \in [until : 0..(MaxGateTime + CacheTTL), ok : BOOLEAN]
  <2>1. check[c].since + CacheTTL \in 0..(MaxGateTime + CacheTTL)
    BY <1>2
  <2>. QED  BY <2>1
<1>5. r.ok = ok /\ decided' = [decided EXCEPT ![e] = r]
  BY DEF Keep
<1> HIDE DEF e, r
<1>6. /\ decided' \in [Jobs \X (1..MaxSpend) -> [until : 0..(MaxGateTime + CacheTTL), ok : BOOLEAN]]
      /\ decided'[e] = r
      /\ \A d \in Jobs \X (1..MaxSpend) : d # e => decided'[d] = decided[d]
  BY <1>3, <1>4, <1>5 DEF GateTypes
<1>7. check' \in [Checks -> {Idle} \cup CheckType]
      /\ check'[c] = Idle /\ \A o \in Checks : o # c => check'[o] = check[o]
  BY DEF GateTypes
<1>8. \A o \in Checks : Busy(o)' <=> Busy(o) /\ o # c
  BY <1>7 DEF Busy, Idle
<1>. QED  BY <1>5, <1>6, <1>7, <1>8 DEF e

LEMMA CheckAnsweredInv ==
  ASSUME NEW c \in Checks
  PROVE  GateCounts /\ CheckAnswered(c) => GateCounts'
<1> SUFFICES ASSUME GateCounts, CheckAnswered(c) PROVE GateCounts'
  OBVIOUS
<1> USE PermissionGateAssumption DEF GateCounts
<1> DEFINE ok == check[c].at = "allowed"
           j == check[c].job
<1>1. Busy(c) /\ ok \in BOOLEAN /\ Keep(c, ok) /\ check' = [check EXCEPT ![c] = Idle]
  BY DEF CheckAnswered, Busy
<1>2. check[c] \in CheckType
  BY <1>1 DEF GateTypes, Busy, Idle
<1>3. j \in Jobs /\ check[c].projected \in 1..MaxSpend /\ check[c].amount \in Nat
  BY <1>2 DEF CheckType
<1>4. UNCHANGED <<gateTime, limit, blurred>>
  BY DEF CheckAnswered
<1>5. IF ok THEN /\ granted' = [granted EXCEPT ![j] = @ + check[c].amount]
                 /\ spend' = [spend EXCEPT ![j] = check[c].projected]
            ELSE granted' = granted /\ spend' = spend
  BY DEF CheckAnswered, Grant
<1> DEFINE e == <<j, check[c].projected>>
<1>6. /\ decided' \in [Jobs \X (1..MaxSpend) -> [until : 0..(MaxGateTime + CacheTTL), ok : BOOLEAN]]
      /\ decided'[e].ok = ok
      /\ \A d \in Jobs \X (1..MaxSpend) : d # e => decided'[d] = decided[d]
      /\ check' \in [Checks -> {Idle} \cup CheckType]
      /\ \A o \in Checks : Busy(o)' <=> Busy(o) /\ o # c
      /\ \A o \in Checks : o # c => check'[o] = check[o]
  BY <1>1, KeepKeeps
<1> HIDE DEF ok
<1>7. GateTypes'
  BY <1>3, <1>4, <1>5, <1>6 DEF GateTypes
<1>8. ChecksKnowLimits'
  BY <1>4, <1>6 DEF ChecksKnowLimits, Busy
<1>9. ASSUME NEW i \in Jobs \ blurred'
      PROVE  /\ granted'[i] = spend'[i]
             /\ \A o \in Checks : Busy(o)' /\ check'[o].job = i =>
                  /\ check'[o].projected = spend'[i] + check'[o].amount
                  /\ \A q \in Checks : Busy(q)' /\ check'[q].job = i => q = o
             /\ \A p \in 1..MaxSpend : decided'[<<i, p>>].ok => p <= spend'[i]
  <2>1. CASE i # j
    <3>1. granted'[i] = granted[i] /\ spend'[i] = spend[i]
      BY <1>3, <1>5, <2>1 DEF GateTypes
    <3>2. \A p \in 1..MaxSpend : decided'[<<i, p>>] = decided[<<i, p>>]
      BY <1>6, <2>1
    <3>. QED  BY <1>4, <1>6, <3>1, <3>2 DEF SpendCounted
  <2>2. CASE i = j
    <3>1. \A o \in Checks : Busy(o)' => check'[o].job # i
      BY <1>1, <1>4, <1>6, <2>2 DEF SpendCounted
    <3>2. check[c].projected = spend[j] + check[c].amount /\ granted[j] = spend[j]
          /\ spend[j] \in Nat
      BY <1>1, <1>3, <1>4, <2>2 DEF SpendCounted, GateTypes
    <3>3. granted'[j] = spend'[j] /\ spend'[j] >= spend[j] /\ (ok => spend'[j] = check[c].projected)
      BY <1>3, <1>5, <3>2 DEF GateTypes
    <3>4. ASSUME NEW p \in 1..MaxSpend, decided'[<<i, p>>].ok PROVE p <= spend'[i]
      <4>1. CASE p = check[c].projected
        <5>1. ok
          BY <1>6, <2>2, <3>4, <4>1
        <5>. QED  BY <2>2, <3>3, <4>1, <5>1
      <4>2. CASE p # check[c].projected
        <5>1. decided'[<<i, p>>] = decided[<<i, p>>]
          BY <1>6, <4>2
        <5>2. p <= spend[i]
          BY <1>4, <3>4, <5>1 DEF SpendCounted
        <5>3. spend'[i] \in Nat
          BY <1>7 DEF GateTypes
        <5>. QED  BY <2>2, <3>2, <3>3, <5>2, <5>3
      <4>. QED  BY <4>1, <4>2
    <3>. QED  BY <2>2, <3>1, <3>3, <3>4
  <2>. QED  BY <2>1, <2>2
<1>10. SpendCounted'
  BY <1>9 DEF SpendCounted
<1>. QED  BY <1>7, <1>8, <1>10

LEMMA CheckFailsInv ==
  ASSUME NEW c \in Checks
  PROVE  GateCounts /\ CheckFails(c) => GateCounts'
<1> SUFFICES ASSUME GateCounts, CheckFails(c) PROVE GateCounts'
  OBVIOUS
<1> USE PermissionGateAssumption DEF GateCounts
<1>1. PICK ok \in BOOLEAN : Keep(c, ok) /\ (IF ok THEN Grant(c) /\ blurred' = blurred \cup {check[c].job}
                                           ELSE granted' = granted /\ blurred' = blurred)
  BY DEF CheckFails
<1> DEFINE j == check[c].job
<1>2. Busy(c) /\ check' = [check EXCEPT ![c] = Idle]
  BY DEF CheckFails, Busy
<1>3. check[c] \in CheckType
  BY <1>2 DEF GateTypes, Busy, Idle
<1>4. j \in Jobs /\ check[c].projected \in 1..MaxSpend /\ check[c].amount \in Nat
  BY <1>3 DEF CheckType
<1>5. UNCHANGED <<gateTime, limit, spend>>
  BY DEF CheckFails
<1>6. IF ok THEN granted' = [granted EXCEPT ![j] = @ + check[c].amount] /\ blurred' = blurred \cup {j}
            ELSE granted' = granted /\ blurred' = blurred
  BY <1>1 DEF Grant
<1> DEFINE e == <<j, check[c].projected>>
<1>7. /\ decided' \in [Jobs \X (1..MaxSpend) -> [until : 0..(MaxGateTime + CacheTTL), ok : BOOLEAN]]
      /\ decided'[e].ok = ok
      /\ \A d \in Jobs \X (1..MaxSpend) : d # e => decided'[d] = decided[d]
      /\ check' \in [Checks -> {Idle} \cup CheckType]
      /\ \A o \in Checks : Busy(o)' <=> Busy(o) /\ o # c
      /\ \A o \in Checks : o # c => check'[o] = check[o]
  BY <1>1, <1>2, KeepKeeps
<1>8. GateTypes'
  BY <1>4, <1>5, <1>6, <1>7 DEF GateTypes
<1>9. ChecksKnowLimits'
  BY <1>5, <1>7 DEF ChecksKnowLimits, Busy
<1>10. ASSUME NEW i \in Jobs \ blurred'
       PROVE  /\ granted'[i] = spend'[i]
              /\ \A o \in Checks : Busy(o)' /\ check'[o].job = i =>
                   /\ check'[o].projected = spend'[i] + check'[o].amount
                   /\ \A q \in Checks : Busy(q)' /\ check'[q].job = i => q = o
              /\ \A p \in 1..MaxSpend : decided'[<<i, p>>].ok => p <= spend'[i]
  <2>1. i \notin blurred /\ (i = j => ~ok) /\ granted'[i] = granted[i]
    BY <1>4, <1>6 DEF GateTypes
  <2>2. \A p \in 1..MaxSpend : decided'[<<i, p>>].ok => decided[<<i, p>>].ok
    <3>1. ASSUME NEW p \in 1..MaxSpend, decided'[<<i, p>>].ok PROVE decided[<<i, p>>].ok
      <4>1. <<i, p>> # e
        BY <1>7, <2>1, <3>1
      <4>. QED  BY <1>7, <3>1, <4>1
    <3>. QED  BY <3>1
  <2>. QED  BY <1>5, <1>7, <2>1, <2>2 DEF SpendCounted
<1>11. SpendCounted'
  BY <1>10 DEF SpendCounted
<1>. QED  BY <1>8, <1>9, <1>11

(* The owner's new limit is known to every check under way.                 *)
LEMMA SetLimitInv == GateCounts /\ SetLimit => GateCounts'
<1> SUFFICES ASSUME GateCounts, SetLimit PROVE GateCounts'
  OBVIOUS
<1> USE PermissionGateAssumption DEF GateCounts
<1>1. UNCHANGED <<gateTime, spend, decided, granted, blurred>> /\ limit' \in Limits
  BY DEF SetLimit
<1>2. ASSUME NEW c \in Checks
      PROVE  /\ check'[c] \in {Idle} \cup CheckType
             /\ Busy(c)' <=> Busy(c)
             /\ Busy(c) => /\ check'[c].at = check[c].at /\ check'[c].job = check[c].job
                           /\ check'[c].amount = check[c].amount
                           /\ check'[c].projected = check[c].projected
                           /\ check'[c].limits = check[c].limits \cup {limit'}
  <2>1. CASE check[c].at = "idle"
    BY <2>1 DEF SetLimit, Busy, Idle
  <2>2. CASE check[c].at # "idle"
    <3>1. check[c] \in CheckType
      BY <2>2 DEF GateTypes, Idle
    <3>2. check'[c] = [check[c] EXCEPT !.limits = @ \cup {limit'}]
      BY <2>2 DEF SetLimit
    <3>. QED  BY <1>1, <2>2, <3>1, <3>2 DEF CheckType, Busy
  <2>. QED  BY <2>1, <2>2
<1>3. check' \in [Checks -> {Idle} \cup CheckType]
  <2>1. check' = [c \in Checks |-> check'[c]]
    BY DEF SetLimit
  <2>. QED  BY <1>2, <2>1
<1>4. GateTypes'
  BY <1>1, <1>3 DEF GateTypes
<1>5. ChecksKnowLimits'
  <2>1. ASSUME NEW c \in Checks, Busy(c)
        PROVE  IsFiniteSet(check[c].limits \cup {limit'})
    <3>1. IsFiniteSet(check[c].limits)
      BY <2>1 DEF ChecksKnowLimits
    <3>. QED  BY <3>1, FS_AddElement
  <2>. QED  BY <1>2, <2>1 DEF ChecksKnowLimits
<1>6. SpendCounted'
  BY <1>1, <1>2 DEF SpendCounted
<1>. QED  BY <1>4, <1>5, <1>6

LEMMA GateIdleInv == GateCounts /\ (GateTick \/ UNCHANGED gateVars) => GateCounts'
<1> SUFFICES ASSUME GateCounts, GateTick \/ UNCHANGED gateVars PROVE GateCounts'
  OBVIOUS
<1> USE PermissionGateAssumption DEF GateCounts
<1>1. UNCHANGED <<limit, spend, decided, granted, blurred, check>> /\ gateTime' \in 0..MaxGateTime
  BY DEF GateTypes, GateTick, gateVars
<1>. QED  BY <1>1 DEF GateTypes, ChecksKnowLimits, SpendCounted, Busy

LEMMA GateStepInv == GateInv /\ [GateNext]_gateVars => GateInv'
<1> SUFFICES ASSUME GateInv, [GateNext]_gateVars PROVE GateInv'
  OBVIOUS
<1>1. GateCounts /\ failOpen \in BOOLEAN
  BY GateTypesAre DEF GateInv, GateCounts
<1>2. GateCounts'
  <2>1. CASE SetLimit \/ GateTick \/ UNCHANGED gateVars
    BY <1>1, <2>1, SetLimitInv, GateIdleInv
  <2>2. ASSUME NEW c \in Checks, NEW j \in Jobs, NEW amount \in SpendAmounts, BeginCheck(c, j, amount)
        PROVE  GateCounts'
    BY <1>1, <2>2, BeginCheckInv
  <2>3. ASSUME NEW c \in Checks, PolicyAnswers(c) \/ CheckAnswered(c) \/ CheckFails(c)
        PROVE  GateCounts'
    BY <1>1, <2>3, PolicyAnswersInv, CheckAnsweredInv, CheckFailsInv
  <2>. QED  BY <2>1, <2>2, <2>3 DEF GateNext
<1>3. failOpen' = failOpen
  BY DEF GateNext, SetLimit, GateTick, BeginCheck, PolicyAnswers, CheckAnswered, CheckFails, gateVars
<1>4. GateTypeOK'
  BY <1>1, <1>2, <1>3, GateTypesAre DEF GateTypes, GateTypeOK, GateCounts
<1>. QED  BY <1>2, <1>4 DEF GateInv, GateCounts

LEMMA GateInvHolds == GateSpec => []GateInv
  BY GateInitInv, GateStepInv, PTL DEF GateSpec

GrantsKnown ==
  \A j \in Jobs \ blurred' :
    granted'[j] > granted[j] =>
      \E c \in Checks : /\ check[c].at # "idle" /\ check'[c].at = "idle"
                        /\ check[c].job = j /\ granted'[j] <= Max(check[c].limits)

(* A grant is an answer to one check that ends with it, and what the job was *)
(* granted in total is what that check asked the policy engine about.        *)
LEMMA StepGrants == GateInv /\ [GateNext]_gateVars => [GrantsKnown]_gateVars
<1> SUFFICES ASSUME GateInv, GateNext, NEW j \in Jobs \ blurred', granted'[j] > granted[j]
             PROVE  \E c \in Checks : /\ check[c].at # "idle" /\ check'[c].at = "idle"
                                      /\ check[c].job = j /\ granted'[j] <= Max(check[c].limits)
  BY DEF GrantsKnown
<1> USE PermissionGateAssumption
<1>1. GateTypes /\ SpendCounted /\ ChecksKnowLimits
  BY GateTypesAre DEF GateInv
<1>2. granted[j] \in Nat /\ spend[j] \in Nat /\ granted \in [Jobs -> Nat]
  BY <1>1 DEF GateTypes
<1>3. granted' # granted
  BY <1>2
<1>4. ASSUME NEW c \in Checks, NEW i \in Jobs, NEW amount \in SpendAmounts, BeginCheck(c, i, amount)
      PROVE  FALSE
  <2>1. decided[<<i, spend[i] + amount>>].ok /\ i \notin blurred => FALSE
    BY <1>1, <1>4 DEF SpendCounted, GateTypes, BeginCheck
  <2>2. \/ granted' = granted
        \/ decided[<<i, spend[i] + amount>>].ok /\ granted' = [granted EXCEPT ![i] = @ + amount]
    BY <1>1, <1>4 DEF BeginCheck, GateTypes
  <2>3. blurred \subseteq blurred'
    BY <1>4 DEF BeginCheck
  <2>. QED  BY <1>2, <1>3, <2>1, <2>2, <2>3
<1>5. ASSUME NEW c \in Checks, CheckFails(c)
      PROVE  FALSE
  <2>1. granted' = granted \/ (Grant(c) /\ blurred' = blurred \cup {check[c].job})
    BY <1>5 DEF CheckFails
  <2>. QED  BY <1>2, <1>3, <2>1 DEF Grant
<1>6. ASSUME NEW c \in Checks, CheckAnswered(c)
      PROVE  /\ check[c].at # "idle" /\ check'[c].at = "idle"
             /\ check[c].job = j /\ granted'[j] <= Max(check[c].limits)
  <2>1. check[c].at = "allowed" /\ Grant(c) /\ blurred' = blurred
    BY <1>3, <1>6 DEF CheckAnswered
  <2>2. check[c] \in CheckType
    BY <1>1, <2>1 DEF GateTypes, Idle
  <2>3. check[c].job = j /\ check[c].amount \in Nat /\ check[c].projected \in Nat
    <3>1. check[c].job \in Jobs /\ check[c].amount \in Nat /\ check[c].projected \in Nat
      BY <2>2, CheckFields
    <3>. QED  BY <1>2, <2>1, <3>1 DEF Grant
  <2>4. granted'[j] = granted[j] + check[c].amount
    BY <1>2, <2>1, <2>3 DEF Grant
  <2>5. granted[j] = spend[j] /\ check[c].projected = spend[j] + check[c].amount
    BY <1>1, <2>1, <2>3 DEF SpendCounted, Busy
  <2>6. PICK l \in check[c].limits : check[c].projected <= l
    BY <1>1, <2>1 DEF ChecksKnowLimits, Busy
  <2>7. check[c].limits \in SUBSET Nat /\ IsFiniteSet(check[c].limits)
    BY <1>1, <2>1, <2>2 DEF ChecksKnowLimits, Busy, CheckType
  <2>8. Max(check[c].limits) \in Nat /\ Max(check[c].limits) >= l
    BY <2>6, <2>7, MaxIsLargest
  <2>9. check'[c].at = "idle"
    BY <1>1, <1>6 DEF CheckAnswered, GateTypes, Idle
  <2>10. l \in Nat
    BY <2>6, <2>7
  <2>11. granted'[j] = check[c].projected
    BY <1>2, <2>3, <2>4, <2>5
  <2>12. granted'[j] <= Max(check[c].limits)
    BY <2>3, <2>6, <2>8, <2>10, <2>11
  <2>. QED  BY <2>1, <2>3, <2>9, <2>12
<1>. QED  BY <1>3, <1>4, <1>5, <1>6 DEF GateNext, SetLimit, GateTick, PolicyAnswers

(* A job whose checks came one after the other, each answered, is granted no *)
(* more in total than a limit the policy engine had while the last of them   *)
(* was under way: neither a kept answer nor a change of the limit meanwhile  *)
(* lets it spend more.                                                       *)
THEOREM GateGrantsWithinLimit == GateSpec => GrantsWithinLimit
<1>1. GateSpec => [][GrantsKnown]_gateVars
  BY GateInvHolds, StepGrants, PTL DEF GateSpec
<1>2. [][GrantsKnown]_gateVars => GrantsWithinLimit
  BY PTL DEF GrantsWithinLimit, GrantsKnown
<1>. QED  BY <1>1, <1>2, PTL


-----------------------------------------------------------------------------
(* The owner's sign-in.  A session exists once its sign-in is done, and     *)
(* belongs to a wallet; a sign-in under way has a challenge that was made.  *)
SessionsMade ==
  \A r \in SignIns :
    /\ signIn[r].at # "done" => session[r] = NoSession /\ r \notin revoked
    /\ signIn[r].at = "done" => session[r].wallet \in AuthWallets
    /\ signIn[r].at \in {"owner", "wallets"} =>
         challenge[signIn[r].challenge].wallet \in AuthWallets

(* Unless two requests answered it at a time, a challenge has one sign-in,  *)
(* under way or done, and is used when that one is done.                    *)
Answering(r, d) == signIn[r].at \in {"owner", "wallets", "done"} /\ signIn[r].challenge = d

OneAnswer ==
  \A d \in AuthChallenges \ overlapped :
    \A r \in SignIns : Answering(r, d) =>
      /\ \A o \in SignIns : Answering(o, d) => o = r
      /\ signIn[r].at = "done" => challenge[d].used

RevokedForGood == \A r \in revoked : session[r].revoked

AuthInv == AuthTypeOK /\ SessionsMade /\ OneAnswer /\ RevokedForGood

LEMMA AuthInitInv == AuthInit => AuthInv
<1> SUFFICES ASSUME AuthInit PROVE AuthInv
  OBVIOUS
<1> USE AuthAssumption DEF AuthInit
<1>1. AuthTypeOK
  BY DEF AuthTypeOK
<1>2. SessionsMade /\ OneAnswer /\ RevokedForGood
  BY DEF SessionsMade, OneAnswer, Answering, RevokedForGood, NotBegun
<1>. QED  BY <1>1, <1>2 DEF AuthInv

LEMMA IssueChallengeInv ==
  ASSUME NEW d \in AuthChallenges, NEW w \in AuthWallets
  PROVE  AuthInv /\ IssueChallenge(d, w) => AuthInv'
<1> SUFFICES ASSUME AuthInv, IssueChallenge(d, w) PROVE AuthInv'
  OBVIOUS
<1> USE AuthAssumption DEF AuthInv
<1> DEFINE new == [wallet |-> w, expires |-> authTime + ChallengeTTL, used |-> FALSE]
<1>1. new \in [wallet : AuthWallets, expires : Nat, used : BOOLEAN] /\ new.wallet = w
  BY DEF AuthTypeOK
<1>2. challenge' = [challenge EXCEPT ![d] = new] /\ challenge[d] = NoChallenge
      /\ UNCHANGED <<authTime, signIn, session, overlapped, revoked>>
  BY DEF IssueChallenge
<1> HIDE DEF new
<1>3. AuthTypeOK'
  BY <1>1, <1>2 DEF AuthTypeOK
<1>4. challenge'[d] = new /\ \A o \in AuthChallenges : o # d => challenge'[o] = challenge[o]
  BY <1>2 DEF AuthTypeOK
<1>5. SessionsMade'
  BY <1>1, <1>2, <1>4 DEF SessionsMade, AuthTypeOK
<1>6. OneAnswer'
  <2>1. ~challenge[d].used
    BY <1>2 DEF NoChallenge
  <2>. QED  BY <1>2, <1>4, <2>1 DEF OneAnswer, Answering
<1>7. RevokedForGood'
  BY <1>2 DEF RevokedForGood
<1>. QED  BY <1>3, <1>5, <1>6, <1>7

LEMMA BeginSignInInv ==
  ASSUME NEW r \in SignIns, NEW d \in AuthChallenges
  PROVE  AuthInv /\ BeginSignIn(r, d) => AuthInv'
<1> SUFFICES ASSUME AuthInv, BeginSignIn(r, d) PROVE AuthInv'
  OBVIOUS
<1> USE AuthAssumption DEF AuthInv
<1> DEFINE new == [at |-> "owner", challenge |-> d]
<1>1. new \in [at : {"owner", "wallets", "refused", "done"}, challenge : AuthChallenges]
      /\ new.at = "owner" /\ new.challenge = d
  OBVIOUS
<1>2. signIn' = [signIn EXCEPT ![r] = new] /\ signIn[r].at = "new"
      /\ UNCHANGED <<authTime, challenge, session, revoked>>
      /\ overlapped \subseteq overlapped' /\ overlapped' \subseteq AuthChallenges
      /\ challenge[d] # NoChallenge /\ ~challenge[d].used
  BY DEF BeginSignIn, NotBegun, AuthTypeOK
<1> HIDE DEF new
<1>3. AuthTypeOK'
  BY <1>1, <1>2 DEF AuthTypeOK
<1>4. signIn'[r] = new /\ \A o \in SignIns : o # r => signIn'[o] = signIn[o]
  BY <1>2 DEF AuthTypeOK
<1>5. challenge[d].wallet \in AuthWallets
  BY <1>2 DEF AuthTypeOK
<1>6. SessionsMade'
  BY <1>1, <1>2, <1>4, <1>5 DEF SessionsMade
<1>7. \A o \in SignIns : Answering(o, d) => d \in overlapped'
  BY <1>2 DEF BeginSignIn, UnderWay, Answering, OneAnswer
<1>8. OneAnswer'
  BY <1>1, <1>2, <1>4, <1>7 DEF OneAnswer, Answering
<1>9. RevokedForGood'
  BY <1>2 DEF RevokedForGood
<1>. QED  BY <1>3, <1>6, <1>8, <1>9

LEMMA OwnerReadInv ==
  ASSUME NEW r \in SignIns, NEW isOwner \in BOOLEAN
  PROVE  AuthInv /\ OwnerRead(r, isOwner) => AuthInv'
<1> SUFFICES ASSUME AuthInv, OwnerRead(r, isOwner) PROVE AuthInv'
  OBVIOUS
<1> USE AuthAssumption DEF AuthInv
<1> PICK next \in {"wallets", "refused"} : signIn' = [signIn EXCEPT ![r].at = next]
  BY DEF OwnerRead
<1> DEFINE new == [signIn[r] EXCEPT !.at = next]
<1>1. signIn[r].at = "owner" /\ UNCHANGED <<authTime, challenge, session, overlapped, revoked>>
  BY DEF OwnerRead
<1>2. new \in [at : {"owner", "wallets", "refused", "done"}, challenge : AuthChallenges]
      /\ new.at = next /\ new.challenge = signIn[r].challenge
  BY <1>1 DEF AuthTypeOK, NotBegun
<1>3. signIn' = [signIn EXCEPT ![r] = new]
  OBVIOUS
<1> HIDE DEF new
<1>4. AuthTypeOK'
  <2>1. signIn' \in [SignIns -> {NotBegun} \cup
                       [at : {"owner", "wallets", "refused", "done"}, challenge : AuthChallenges]]
    BY <1>2, <1>3 DEF AuthTypeOK
  <2>. QED  BY <1>1, <2>1 DEF AuthTypeOK
<1>5. signIn'[r] = new /\ \A o \in SignIns : o # r => signIn'[o] = signIn[o]
  BY <1>3 DEF AuthTypeOK
<1>6. SessionsMade'
  BY <1>1, <1>2, <1>5 DEF SessionsMade
<1>7. OneAnswer'
  <2>1. \A o \in SignIns, d \in AuthChallenges : Answering(o, d)' => Answering(o, d)
    BY <1>1, <1>2, <1>5 DEF Answering
  <2>2. \A o \in SignIns : signIn'[o].at = "done" => signIn[o].at = "done"
    BY <1>2, <1>5
  <2>. QED  BY <1>1, <2>1, <2>2 DEF OneAnswer
<1>8. RevokedForGood'
  BY <1>1 DEF RevokedForGood
<1>. QED  BY <1>4, <1>6, <1>7, <1>8

LEMMA EndSignInInv ==
  ASSUME NEW r \in SignIns
  PROVE  AuthInv /\ EndSignIn(r) => AuthInv'
<1> SUFFICES ASSUME AuthInv, EndSignIn(r) PROVE AuthInv'
  OBVIOUS
<1> USE AuthAssumption DEF AuthInv
<1>0. signIn[r].at = "wallets"
      /\ signIn[r] \in [at : {"owner", "wallets", "refused", "done"}, challenge : AuthChallenges]
  BY DEF EndSignIn, AuthTypeOK, NotBegun
<1> PICK d \in AuthChallenges : d = signIn[r].challenge
  BY <1>0
<1> DEFINE ended == [signIn[r] EXCEPT !.at = "done"]
           used == [challenge[d] EXCEPT !.used = TRUE]
           new == [wallet |-> challenge[d].wallet, expires |-> authTime + AuthSessionTTL,
                   revoked |-> FALSE]
<1>1. challenge[d].wallet \in AuthWallets /\ r \notin revoked
  BY <1>0 DEF SessionsMade
<1>2. ended \in [at : {"owner", "wallets", "refused", "done"}, challenge : AuthChallenges]
      /\ ended.at = "done" /\ ended.challenge = d
  BY <1>0
<1>3. used \in [wallet : AuthWallets, expires : Nat, used : BOOLEAN]
      /\ used.used = TRUE /\ used.wallet \in AuthWallets
  <2>1. challenge[d] \in [wallet : AuthWallets, expires : Nat, used : BOOLEAN]
    BY <1>1 DEF AuthTypeOK, NoChallenge
  <2>. QED  BY <1>1, <2>1
<1>4. new \in [wallet : AuthWallets, expires : Nat, revoked : BOOLEAN]
      /\ new.wallet \in AuthWallets /\ new.revoked = FALSE
  BY <1>1 DEF AuthTypeOK
<1>5. /\ signIn' = [signIn EXCEPT ![r] = ended] /\ challenge' = [challenge EXCEPT ![d] = used]
      /\ session' = [session EXCEPT ![r] = new] /\ UNCHANGED <<authTime, overlapped, revoked>>
  BY DEF EndSignIn, NewSession
<1> HIDE DEF ended, used, new
<1>6. AuthTypeOK'
  BY <1>2, <1>3, <1>4, <1>5 DEF AuthTypeOK
<1>7. /\ signIn'[r] = ended /\ challenge'[d] = used /\ session'[r] = new
      /\ \A o \in SignIns : o # r => signIn'[o] = signIn[o] /\ session'[o] = session[o]
      /\ \A c \in AuthChallenges : c # d => challenge'[c] = challenge[c]
  BY <1>5 DEF AuthTypeOK
<1>8. SessionsMade'
  <2>1. ASSUME NEW o \in SignIns, signIn[o].at \in {"owner", "wallets"}, o # r
        PROVE  challenge'[signIn[o].challenge].wallet \in AuthWallets
    BY <1>3, <1>7, <2>1 DEF SessionsMade, AuthTypeOK, NotBegun
  <2>. QED  BY <1>2, <1>4, <1>5, <1>7, <2>1 DEF SessionsMade
<1>9. OneAnswer'
  <2>1. \A o \in SignIns, c \in AuthChallenges : Answering(o, c)' <=> Answering(o, c)
    BY <1>0, <1>2, <1>7 DEF Answering
  <2>2. Answering(r, d)
    BY <1>0 DEF Answering
  <2>3. \A c \in AuthChallenges \ overlapped' : \A q, o \in SignIns :
          Answering(q, c)' /\ Answering(o, c)' => o = q
    BY <1>5, <2>1 DEF OneAnswer
  <2>4. ASSUME NEW c \in AuthChallenges \ overlapped', NEW o \in SignIns, Answering(o, c)',
               signIn'[o].at = "done"
        PROVE  challenge'[c].used
    <3>1. CASE c = d
      BY <1>3, <1>7, <3>1
    <3>2. CASE c # d
      <4>1. o # r
        BY <1>0, <2>1, <2>4, <3>2 DEF Answering
      <4>2. signIn[o].at = "done" /\ challenge'[c] = challenge[c]
        BY <1>7, <2>4, <3>2, <4>1
      <4>. QED  BY <1>5, <2>1, <2>4, <4>2 DEF OneAnswer
    <3>. QED  BY <3>1, <3>2
  <2>. QED  BY <2>3, <2>4 DEF OneAnswer
<1>10. RevokedForGood'
  BY <1>1, <1>5, <1>7 DEF RevokedForGood
<1>. QED  BY <1>6, <1>8, <1>9, <1>10

(* Only sessions that were made have the wallet of a valid one.              *)
LEMMA RevokeInv ==
  ASSUME NEW r \in SignIns
  PROVE  AuthInv /\ Revoke(r) => AuthInv'
<1> SUFFICES ASSUME AuthInv, Revoke(r) PROVE AuthInv'
  OBVIOUS
<1> USE AuthAssumption DEF AuthInv
<1> DEFINE all == {o \in SignIns : session[o].wallet = session[r].wallet}
<1>1. /\ session' = [o \in SignIns |-> IF o \in all
                       THEN [session[o] EXCEPT !.revoked = TRUE, !.expires = 0] ELSE session[o]]
      /\ revoked' = revoked \cup all
      /\ UNCHANGED <<authTime, challenge, signIn, overlapped>> /\ Valid(r)
  BY DEF Revoke
<1>2. session[r].wallet \in AuthWallets
  <2>0. authTime \in Nat
    BY DEF AuthTypeOK
  <2>1. session[r].expires > authTime
    BY <1>1, Zenon DEF Valid
  <2>2. ~(NoSession.expires > authTime)
    BY <2>0 DEF NoSession
  <2>3. session[r] # NoSession
    BY <2>1, <2>2
  <2>. QED  BY <2>3 DEF SessionsMade
<1>3. ASSUME NEW o \in all
      PROVE  /\ session'[o] \in [wallet : AuthWallets, expires : Nat, revoked : BOOLEAN]
             /\ session'[o].revoked = TRUE /\ session'[o].wallet = session[o].wallet
             /\ signIn[o].at = "done"
  <2>1. session[o].wallet \in AuthWallets
    BY <1>2
  <2>2. session[o] # NoSession
    BY <2>1 DEF NoSession
  <2>3. session[o] \in [wallet : AuthWallets, expires : Nat, revoked : BOOLEAN]
    BY <2>2 DEF AuthTypeOK
  <2>4. session'[o] = [session[o] EXCEPT !.revoked = TRUE, !.expires = 0]
    BY <1>1
  <2>5. signIn[o].at = "done"
    BY <2>2 DEF SessionsMade
  <2>6. session'[o] \in [wallet : AuthWallets, expires : Nat, revoked : BOOLEAN]
    <3>1. session'[o] = [wallet |-> session[o].wallet, expires |-> 0, revoked |-> TRUE]
      BY <2>3, <2>4
    <3>. QED  BY <2>1, <3>1
  <2>7. session'[o].revoked = TRUE /\ session'[o].wallet = session[o].wallet
    BY <2>3, <2>4
  <2>. QED  BY <2>5, <2>6, <2>7
<1>4. \A o \in SignIns \ all : session'[o] = session[o]
  BY <1>1
<1>5. session' \in [SignIns -> {NoSession} \cup [wallet : AuthWallets, expires : Nat, revoked : BOOLEAN]]
  <2>1. session' = [o \in SignIns |-> session'[o]]
    BY <1>1
  <2>2. \A o \in SignIns : session'[o] \in {NoSession} \cup
                             [wallet : AuthWallets, expires : Nat, revoked : BOOLEAN]
    BY <1>3, <1>4 DEF AuthTypeOK
  <2>. QED  BY <2>1, <2>2
<1> HIDE DEF all
<1>6. all \subseteq SignIns
  BY DEF all
<1>7. AuthTypeOK'
  BY <1>1, <1>5, <1>6 DEF AuthTypeOK
<1>8. SessionsMade'
  BY <1>1, <1>3, <1>4 DEF SessionsMade
<1>9. OneAnswer'
  BY <1>1, ZenonT(60) DEF OneAnswer, Answering
<1>10. RevokedForGood'
  BY <1>1, <1>3, <1>4, <1>7 DEF RevokedForGood, AuthTypeOK
<1>. QED  BY <1>7, <1>8, <1>9, <1>10

LEMMA GrantStepUpInv ==
  ASSUME NEW r \in SignIns
  PROVE  AuthInv /\ GrantStepUp(r) => AuthInv'
<1> SUFFICES ASSUME AuthInv, GrantStepUp(r) PROVE AuthInv'
  OBVIOUS
<1> USE AuthAssumption DEF AuthInv
<1> DEFINE new == [session[r] EXCEPT !.expires = authTime + AuthSessionTTL]
<1>1. session[r] \in [wallet : AuthWallets, expires : Nat, revoked : BOOLEAN]
      /\ session[r] # NoSession
  BY DEF GrantStepUp, AuthTypeOK
<1>2. new \in [wallet : AuthWallets, expires : Nat, revoked : BOOLEAN]
      /\ new.wallet = session[r].wallet /\ new.revoked = session[r].revoked
  BY <1>1 DEF AuthTypeOK
<1>3. session' = [session EXCEPT ![r] = new]
      /\ UNCHANGED <<authTime, challenge, signIn, overlapped, revoked>>
  BY DEF GrantStepUp
<1> HIDE DEF new
<1>4. AuthTypeOK'
  BY <1>2, <1>3 DEF AuthTypeOK
<1>5. session'[r] = new /\ \A o \in SignIns : o # r => session'[o] = session[o]
  BY <1>3 DEF AuthTypeOK
<1>6. SessionsMade'
  BY <1>1, <1>2, <1>3, <1>5 DEF SessionsMade
<1>7. OneAnswer'
  BY <1>3 DEF OneAnswer, Answering
<1>8. RevokedForGood'
  <2>1. \A o \in SignIns : session'[o].revoked = session[o].revoked
    BY <1>2, <1>5
  <2>. QED  BY <1>3, <2>1 DEF RevokedForGood, AuthTypeOK
<1>. QED  BY <1>4, <1>6, <1>7, <1>8

LEMMA AuthIdleInv == AuthInv /\ (AuthTick \/ UNCHANGED authVars) => AuthInv'
<1> SUFFICES ASSUME AuthInv, AuthTick \/ UNCHANGED authVars PROVE AuthInv'
  OBVIOUS
<1> USE AuthAssumption DEF AuthInv
<1>1. UNCHANGED <<challenge, signIn, session, overlapped, revoked>> /\ authTime' \in 0..MaxAuthTime
  BY DEF AuthTick, authVars, AuthTypeOK
<1>. QED  BY <1>1 DEF AuthTypeOK, SessionsMade, OneAnswer, Answering, RevokedForGood

LEMMA AuthStepInv == AuthInv /\ [AuthNext]_authVars => AuthInv'
<1> SUFFICES ASSUME AuthInv, [AuthNext]_authVars PROVE AuthInv'
  OBVIOUS
<1>. QED  BY IssueChallengeInv, BeginSignInInv, OwnerReadInv, EndSignInInv, RevokeInv,
             GrantStepUpInv, AuthIdleInv DEF AuthNext

LEMMA AuthInvHonest == AuthInv => SignInsHonest
<1> SUFFICES ASSUME AuthInv PROVE SignInsHonest
  OBVIOUS
<1>1. ASSUME NEW d \in AuthChallenges, d \notin overlapped
      PROVE  Cardinality(SessionsOf(d)) <= 1
  <2>1. CASE SessionsOf(d) = {}
    BY <2>1, FS_EmptySet
  <2>2. CASE SessionsOf(d) # {}
    <3>1. PICK r \in SessionsOf(d) : TRUE
      BY <2>2
    <3>2. SessionsOf(d) = {r}
      BY <1>1, <3>1 DEF SessionsOf, AuthInv, OneAnswer, Answering
    <3>3. Cardinality({r}) = 1
      BY FS_Singleton
    <3>. QED  BY <3>2, <3>3
  <2>. QED  BY <2>1, <2>2
<1>2. \A r \in revoked : ~Valid(r)
  BY DEF AuthInv, RevokedForGood, Valid
<1>. QED  BY <1>1, <1>2 DEF SignInsHonest

(* However the requests interleave, a challenge makes one session at most,   *)
(* unless two requests answered it at the same time; and a session that was  *)
(* revoked is never valid again, not even after grantStepUp.                 *)
THEOREM SignInsAreHonest == AuthSpec => [](AuthTypeOK /\ SignInsHonest)
<1>1. AuthInv => AuthTypeOK /\ SignInsHonest
  BY AuthInvHonest DEF AuthInv
<1>. QED  BY <1>1, AuthInitInv, AuthStepInv, PTL DEF AuthSpec


-----------------------------------------------------------------------------
(* The workroom's network.  The addresses the entrypoint found so far are   *)
(* those of the hosts it has resolved.                                      *)
EntryResolves ==
  container = "resolving" /\ "entrypoint" \notin stale =>
    /\ toResolve \subseteq policy \cup ArenaHosts
    /\ resolved = AddressesOf((policy \cup ArenaHosts) \ toResolve)

(* What it adds then is what its chain is to hold.                          *)
EntryAdds ==
  container = "applying" /\ "entrypoint" \notin stale =>
    resolved \subseteq {"gateway"} \cup AddressesOf(policy \cup ArenaHosts)

(* Loops run in a container only, the entrypoint's once it is done, and the *)
(* one that flushed last is there; one that sleeps has no host left.        *)
(* Unless another was at work then, only that one changes the chain.        *)
LoopsSound ==
  /\ container = "off" => \A l \in Loops : loop[l].at = "none"
  /\ container \in {"applying", "up"} => drop
  /\ container # "off" /\ flusher \in Loops => loop[flusher].at # "none"
  /\ \A l \in Loops : loop[l].at = "sleeping" => loop[l].hosts = {}
  /\ ~mixed => \A l \in Loops : Refreshing(l) => l = flusher
  /\ container = "applying" => loop[Entry].at = "none" /\ (flusher \in Loops => mixed)
  /\ container = "resolving" => loop[Entry].at = "none"

(* The chain holds the addresses of the hosts the last flusher is done with. *)
Allowed == IF flusher = "entrypoint"
           THEN {"core", "gateway"} \cup AddressesOf(policy \cup ArenaHosts)
           ELSE {"core"} \cup AddressesOf(policy \ loop[flusher].hosts)

Pending == IF container = "applying" /\ flusher = "entrypoint" THEN resolved ELSE {}

ChainSound ==
  /\ container # "off" /\ flusher \in Loops /\ flusher \notin stale => loop[flusher].hosts \subseteq policy
  /\ flusher \notin stale /\ (container \in {"applying", "up"} \/ (container = "resolving" /\ flusher \in Loops)) =>
       /\ Allowed \ Pending \subseteq rules
       /\ ~mixed => rules = Allowed \ Pending

(* The type invariant but for drop and mixed                                 *)
NetworkTypes ==
  /\ policy \subseteq PolicyHosts
  /\ address \in [Hosts -> Addresses \cup {Unresolved}]
  /\ changes \in 0..MaxChanges /\ container \in {"off", "resolving", "applying", "up"}
  /\ toResolve \subseteq Hosts /\ resolved \subseteq {"gateway"} \cup Addresses
  /\ rules \subseteq {"core", "gateway"} \cup Addresses
  /\ loop \in [Loops -> [at : {"none", "sleeping", "refreshing", "dead"}, hosts : SUBSET PolicyHosts]]
  /\ flusher \in Resolvers /\ stale \subseteq Resolvers

NetworkInv == NetworkTypes /\ EntryResolves /\ EntryAdds /\ LoopsSound /\ ChainSound

LEMMA AddressesOfMore ==
  ASSUME NEW S, NEW h
  PROVE  AddressesOf(S \cup {h}) = AddressesOf(S) \cup ({address[h]} \ {Unresolved})
  BY DEF AddressesOf

LEMMA AddressesOfPart ==
  ASSUME NEW S, NEW T, S \subseteq T
  PROVE  AddressesOf(S) \subseteq AddressesOf(T)
  BY DEF AddressesOf

LEMMA AddressesOfTypes ==
  ASSUME NetworkTypes, NEW S \in SUBSET Hosts
  PROVE  AddressesOf(S) \subseteq Addresses
  BY DEF AddressesOf, NetworkTypes

LEMMA NetworkInitInv == WorkroomInit => NetworkInv
<1> SUFFICES ASSUME WorkroomInit PROVE NetworkInv
  OBVIOUS
<1> USE WorkroomAssumption
<1>1. address \in [Hosts -> Addresses \cup {Unresolved}]
  BY DEF WorkroomInit
<1>2. NetworkTypes
  BY <1>1 DEF WorkroomInit, NetworkTypes, NoLoop, Resolvers
<1>3. EntryResolves /\ EntryAdds /\ LoopsSound /\ ChainSound
  BY DEF WorkroomInit, EntryResolves, EntryAdds, LoopsSound, ChainSound, NoLoop, Refreshing
<1>. QED  BY <1>2, <1>3 DEF NetworkInv

(* A container starts with nothing resolved, and without a loop.             *)
LEMMA EnterInv == NetworkInv /\ Enter => NetworkInv'
<1> SUFFICES ASSUME NetworkInv, Enter PROVE NetworkInv'
  OBVIOUS
<1> USE WorkroomAssumption
<1>1. policy' \subseteq PolicyHosts
  BY DEF Enter, NetworkInv, NetworkTypes
<1>2. /\ container' = "resolving" /\ toResolve' = policy' \cup ArenaHosts /\ resolved' = {}
      /\ rules' = {} /\ loop' = [l \in Loops |-> NoLoop]
      /\ flusher' = "entrypoint" /\ stale' = {} /\ UNCHANGED <<address, changes>>
  BY DEF Enter
<1>3. NetworkTypes'
  <2>1. loop' \in [Loops -> [at : {"none", "sleeping", "refreshing", "dead"}, hosts : SUBSET PolicyHosts]]
    BY <1>2 DEF NoLoop
  <2>. QED  BY <1>1, <1>2, <2>1 DEF NetworkInv, NetworkTypes, Hosts, Resolvers
<1>4. EntryResolves' /\ EntryAdds'
  BY <1>2 DEF EntryResolves, EntryAdds, AddressesOf
<1>5. LoopsSound' /\ ChainSound'
  BY <1>2 DEF LoopsSound, ChainSound, NoLoop, Refreshing
<1>. QED  BY <1>3, <1>4, <1>5 DEF NetworkInv

LEMMA ResolveHostInv ==
  ASSUME NEW h \in Hosts
  PROVE  NetworkInv /\ ResolveHost(h) => NetworkInv'
<1> SUFFICES ASSUME NetworkInv, ResolveHost(h) PROVE NetworkInv'
  OBVIOUS
<1> USE WorkroomAssumption
<1>1. /\ container = "resolving" /\ h \in toResolve /\ toResolve' = toResolve \ {h}
      /\ resolved' = resolved \cup ({address[h]} \ {Unresolved})
      /\ UNCHANGED <<policy, address, changes, container, drop, rules, loop, flusher, mixed, stale>>
  BY DEF ResolveHost, outside, flushed
<1>2. NetworkTypes'
  BY <1>1 DEF NetworkInv, NetworkTypes
<1>3. EntryResolves'
  <2> SUFFICES ASSUME "entrypoint" \notin stale
               PROVE  /\ toResolve \ {h} \subseteq policy \cup ArenaHosts
                      /\ resolved' = AddressesOf((policy \cup ArenaHosts) \ (toResolve \ {h}))
    BY <1>1 DEF EntryResolves, AddressesOf
  <2>1. toResolve \subseteq policy \cup ArenaHosts
        /\ resolved = AddressesOf((policy \cup ArenaHosts) \ toResolve)
    BY <1>1 DEF NetworkInv, EntryResolves
  <2>2. (policy \cup ArenaHosts) \ (toResolve \ {h})
          = ((policy \cup ArenaHosts) \ toResolve) \cup {h}
    BY <1>1, <2>1
  <2>. QED  BY <1>1, <2>1, <2>2, AddressesOfMore
<1>4. LoopsSound' /\ EntryAdds'
  BY <1>1 DEF NetworkInv, LoopsSound, EntryAdds, Refreshing
<1>5. ChainSound'
  <2>1. Allowed' = Allowed /\ Pending' = Pending
    BY <1>1 DEF Allowed, Pending, AddressesOf
  <2>. QED  BY <1>1, <2>1 DEF NetworkInv, ChainSound
<1>. QED  BY <1>2, <1>3, <1>4, <1>5 DEF NetworkInv

(* The chain is flushed, and the rules to come are those of every host.      *)
LEMMA FlushRulesInv == NetworkInv /\ FlushRules => NetworkInv'
<1> SUFFICES ASSUME NetworkInv, FlushRules PROVE NetworkInv'
  OBVIOUS
<1> USE WorkroomAssumption
<1>1. /\ container = "resolving" /\ toResolve = {} /\ container' = "applying" /\ drop'
      /\ rules' = {"core"} /\ resolved' = {"gateway"} \cup resolved /\ flusher' = "entrypoint"
      /\ UNCHANGED <<policy, address, changes, toResolve, loop, stale>>
  BY DEF FlushRules, outside
<1>2. ~mixed' => \A l \in Loops : ~Refreshing(l)
  BY DEF FlushRules
<1>3. NetworkTypes'
  BY <1>1 DEF NetworkInv, NetworkTypes, Resolvers
<1>4. "entrypoint" \notin stale => resolved = AddressesOf(policy \cup ArenaHosts)
  <2>1. (policy \cup ArenaHosts) \ toResolve = policy \cup ArenaHosts
    BY <1>1
  <2>. QED  BY <1>1, <2>1 DEF NetworkInv, EntryResolves
<1>5. EntryResolves' /\ EntryAdds'
  BY <1>1, <1>4 DEF EntryResolves, EntryAdds, AddressesOf
<1>6. LoopsSound'
  BY <1>1, <1>2 DEF NetworkInv, LoopsSound, Refreshing
<1>7. ChainSound'
  <2>1. Allowed' = {"core", "gateway"} \cup AddressesOf(policy \cup ArenaHosts)
    BY <1>1 DEF Allowed, AddressesOf
  <2>2. Pending' = {"gateway"} \cup resolved
    BY <1>1 DEF Pending
  <2>3. "core" \notin resolved
    BY DEF NetworkInv, NetworkTypes
  <2>. QED  BY <1>1, <1>4, <2>1, <2>2, <2>3 DEF ChainSound
<1>. QED  BY <1>3, <1>5, <1>6, <1>7 DEF NetworkInv

(* One more of them is in the chain, its own or that of a loop.              *)
LEMMA AddRuleInv ==
  ASSUME NEW r
  PROVE  NetworkInv /\ AddRule(r) => NetworkInv'
<1> SUFFICES ASSUME NetworkInv, AddRule(r) PROVE NetworkInv'
  OBVIOUS
<1>1. /\ container = "applying" /\ r \in resolved /\ rules' = rules \cup {r}
      /\ resolved' = resolved \ {r}
      /\ UNCHANGED <<policy, address, changes, container, toResolve, drop, loop, flusher, mixed, stale>>
  BY DEF AddRule, outside, flushed
<1>2. NetworkTypes'
  BY <1>1 DEF NetworkInv, NetworkTypes
<1>3. EntryResolves' /\ EntryAdds' /\ LoopsSound'
  BY <1>1 DEF NetworkInv, EntryResolves, EntryAdds, LoopsSound, Refreshing, AddressesOf
<1>4. ChainSound'
  <2>1. Allowed' = Allowed
    BY <1>1 DEF Allowed, AddressesOf
  <2>2. flusher = "entrypoint" \/ flusher \in Loops
    BY DEF NetworkInv, NetworkTypes, Resolvers
  <2>3. CASE flusher = "entrypoint"
    <3>1. Pending = resolved /\ Pending' = resolved \ {r}
      BY <1>1, <2>3 DEF Pending
    <3>2. flusher \notin stale => r \in Allowed
      BY <1>1, <2>3 DEF NetworkInv, EntryAdds, Allowed
    <3>3. flusher \notin Loops
      BY <2>3, WorkroomAssumption
    <3>. QED  BY <1>1, <2>1, <3>1, <3>2, <3>3 DEF NetworkInv, ChainSound
  <2>4. CASE flusher \in Loops
    <3>1. mixed /\ Pending = {} /\ Pending' = {}
      BY <1>1, <2>4, WorkroomAssumption DEF NetworkInv, LoopsSound, Pending
    <3>. QED  BY <1>1, <2>1, <3>1 DEF NetworkInv, ChainSound
  <2>. QED  BY <2>2, <2>3, <2>4
<1>. QED  BY <1>2, <1>3, <1>4 DEF NetworkInv

(* When none is left the first loop starts; it did not flush before.         *)
LEMMA StartDaemonInv == NetworkInv /\ StartDaemon => NetworkInv'
<1> SUFFICES ASSUME NetworkInv, StartDaemon PROVE NetworkInv'
  OBVIOUS
<1> USE WorkroomAssumption
<1> DEFINE new == [at |-> "sleeping", hosts |-> {}]
<1>1. new \in [at : {"none", "sleeping", "refreshing", "dead"}, hosts : SUBSET PolicyHosts]
      /\ new.at = "sleeping" /\ new.hosts = {}
  OBVIOUS
<1>2. /\ container = "applying" /\ resolved = {} /\ container' = "up"
      /\ loop' = [loop EXCEPT ![Entry] = new]
      /\ UNCHANGED <<policy, address, changes, toResolve, resolved, drop, rules, flusher, mixed, stale>>
  BY DEF StartDaemon, outside, resolving, flushed
<1> HIDE DEF new
<1>3. NetworkTypes'
  BY <1>1, <1>2 DEF NetworkInv, NetworkTypes
<1>4. loop'[Entry] = new /\ \A l \in Loops : l # Entry => loop'[l] = loop[l]
  BY <1>2 DEF NetworkInv, NetworkTypes
<1>5. EntryResolves' /\ EntryAdds'
  BY <1>2 DEF EntryResolves, EntryAdds
<1>6. LoopsSound'
  BY <1>1, <1>2, <1>4 DEF NetworkInv, LoopsSound, Refreshing
<1>7. ChainSound'
  <2>1. flusher \in Loops => loop'[flusher] = loop[flusher]
    BY <1>2, <1>4 DEF NetworkInv, LoopsSound
  <2>2. flusher = "entrypoint" \/ flusher \in Loops
    BY DEF NetworkInv, NetworkTypes, Resolvers
  <2>3. Allowed' = Allowed
    BY <1>2, <2>1, <2>2 DEF Allowed, AddressesOf
  <2>4. Pending = {} /\ Pending' = {}
    BY <1>2 DEF Pending
  <2>. QED  BY <1>2, <2>1, <2>3, <2>4 DEF NetworkInv, ChainSound
<1>. QED  BY <1>3, <1>5, <1>6, <1>7 DEF NetworkInv

LEMMA StopWorkroomInv == NetworkInv /\ StopWorkroom => NetworkInv'
<1> SUFFICES ASSUME NetworkInv, StopWorkroom PROVE NetworkInv'
  OBVIOUS
<1> USE WorkroomAssumption
<1>1. /\ container' = "off" /\ rules' = {} /\ loop' = [l \in Loops |-> NoLoop]
      /\ UNCHANGED <<policy, address, changes, toResolve, resolved, flusher, mixed, stale>>
  BY DEF StopWorkroom, outside, resolving, flushed
<1>2. NetworkTypes'
  <2>1. loop' \in [Loops -> [at : {"none", "sleeping", "refreshing", "dead"}, hosts : SUBSET PolicyHosts]]
    BY <1>1 DEF NoLoop
  <2>. QED  BY <1>1, <2>1 DEF NetworkInv, NetworkTypes
<1>3. EntryResolves' /\ EntryAdds' /\ LoopsSound' /\ ChainSound'
  BY <1>1 DEF EntryResolves, EntryAdds, LoopsSound, ChainSound, NoLoop, Refreshing
<1>. QED  BY <1>2, <1>3 DEF NetworkInv

LEMMA PolicyReloadInv ==
  ASSUME NEW l \in Loops
  PROVE  NetworkInv /\ PolicyReload(l) => NetworkInv'
<1> SUFFICES ASSUME NetworkInv, PolicyReload(l) PROVE NetworkInv'
  OBVIOUS
<1> USE WorkroomAssumption
<1> DEFINE new == [at |-> "sleeping", hosts |-> {}]
<1>1. new \in [at : {"none", "sleeping", "refreshing", "dead"}, hosts : SUBSET PolicyHosts]
      /\ new.at = "sleeping" /\ new.hosts = {}
  OBVIOUS
<1>2. /\ container # "off" /\ l # Entry /\ loop[l].at = "none" /\ loop' = [loop EXCEPT ![l] = new]
      /\ UNCHANGED <<policy, address, changes, container, toResolve, resolved, drop, rules,
                     flusher, mixed, stale>>
  BY DEF PolicyReload, outside, resolving, flushed
<1> HIDE DEF new
<1>3. NetworkTypes'
  BY <1>1, <1>2 DEF NetworkInv, NetworkTypes
<1>4. loop'[l] = new /\ \A m \in Loops : m # l => loop'[m] = loop[m]
  BY <1>2 DEF NetworkInv, NetworkTypes
<1>5. EntryResolves' /\ EntryAdds'
  BY <1>2 DEF NetworkInv, EntryResolves, EntryAdds, AddressesOf
<1>6. LoopsSound'
  BY <1>1, <1>2, <1>4 DEF NetworkInv, LoopsSound, Refreshing
<1>7. flusher # l
  BY <1>2 DEF NetworkInv, LoopsSound
<1>8. ChainSound'
  <2>1. flusher \in Loops => loop'[flusher] = loop[flusher]
    BY <1>4, <1>7
  <2>2. Allowed' = Allowed
    <3>1. flusher = "entrypoint" \/ flusher \in Loops
      BY DEF NetworkInv, NetworkTypes, Resolvers
    <3>. QED  BY <1>2, <2>1, <3>1 DEF Allowed, AddressesOf
  <2>3. Pending' = Pending
    BY <1>2 DEF Pending
  <2>. QED  BY <1>2, <2>1, <2>2, <2>3 DEF NetworkInv, ChainSound
<1>. QED  BY <1>3, <1>5, <1>6, <1>8 DEF NetworkInv

(* A loop flushes the chain: nothing is allowed but the core, and all the    *)
(* hosts of the policy are still to come.                                    *)
LEMMA RefreshInv ==
  ASSUME NEW l \in Loops
  PROVE  NetworkInv /\ Refresh(l) => NetworkInv'
<1> SUFFICES ASSUME NetworkInv, Refresh(l) PROVE NetworkInv'
  OBVIOUS
<1> USE WorkroomAssumption
<1> PICK p \in SUBSET PolicyHosts : p = policy
  BY DEF NetworkInv, NetworkTypes
<1> DEFINE new == [at |-> "refreshing", hosts |-> p]
<1>1. new \in [at : {"none", "sleeping", "refreshing", "dead"}, hosts : SUBSET PolicyHosts]
      /\ new.at = "refreshing" /\ new.hosts = p
  OBVIOUS
<1>2. /\ loop[l].at = "sleeping" /\ loop' = [loop EXCEPT ![l] = new]
      /\ rules' = {"core"} /\ flusher' = l /\ stale' = stale \ {l}
      /\ UNCHANGED <<policy, address, changes, container, toResolve, resolved, drop>>
  BY DEF Refresh, outside, resolving
<1>3. (~mixed' => \A m \in Loops \ {l} : ~Refreshing(m)) /\ (container = "applying" => mixed')
  BY DEF Refresh
<1>4. container # "off"
  BY <1>2 DEF NetworkInv, LoopsSound
<1> HIDE DEF new
<1>5. NetworkTypes'
  BY <1>1, <1>2 DEF NetworkInv, NetworkTypes, Resolvers
<1>6. loop'[l] = new /\ \A m \in Loops : m # l => loop'[m] = loop[m]
  BY <1>2 DEF NetworkInv, NetworkTypes
<1>7. EntryResolves' /\ EntryAdds'
  BY <1>2 DEF NetworkInv, EntryResolves, EntryAdds, AddressesOf
<1>8. LoopsSound'
  BY <1>1, <1>2, <1>3, <1>4, <1>6 DEF NetworkInv, LoopsSound, Refreshing
<1>9. ChainSound'
  <2>1. policy' \ loop'[flusher'].hosts = {}
    BY <1>1, <1>2, <1>6
  <2>2. Allowed' = {"core"}
    BY <1>2, <2>1 DEF Allowed, AddressesOf
  <2>3. loop'[flusher'].hosts \subseteq policy'
    BY <1>1, <1>2, <1>6
  <2>4. Pending' = {}
    BY <1>2 DEF Pending
  <2>. QED  BY <1>2, <2>2, <2>3, <2>4 DEF ChainSound
<1>. QED  BY <1>5, <1>7, <1>8, <1>9 DEF NetworkInv

(* A refresh that goes on: the loop has one host less to resolve and the     *)
(* chain that host's address, or the loop is dead and the chain as before.   *)
LEMMA RefreshHostInv ==
  ASSUME NEW l \in Loops, NEW h \in PolicyHosts
  PROVE  NetworkInv /\ RefreshHost(l, h) => NetworkInv'
<1> SUFFICES ASSUME NetworkInv, RefreshHost(l, h) PROVE NetworkInv'
  OBVIOUS
<1> USE WorkroomAssumption
<1>1. /\ loop[l].at = "refreshing" /\ h \in loop[l].hosts
      /\ UNCHANGED <<policy, address, changes, container, toResolve, resolved, drop, flusher, mixed, stale>>
  BY DEF RefreshHost, Refreshing, outside, resolving, flushed
<1>2. loop[l] \in [at : {"none", "sleeping", "refreshing", "dead"}, hosts : SUBSET PolicyHosts]
  BY DEF NetworkInv, NetworkTypes
<1>3. PICK new \in [at : {"none", "sleeping", "refreshing", "dead"}, hosts : SUBSET PolicyHosts] :
        /\ loop' = [loop EXCEPT ![l] = new]
        /\ \/ /\ new.at = "refreshing" /\ new.hosts = loop[l].hosts \ {h}
              /\ rules' = rules \cup ({address[h]} \ {Unresolved})
           \/ new.at = "dead" /\ new.hosts = loop[l].hosts /\ rules' = rules
  <2> DEFINE done1 == [loop[l] EXCEPT !.hosts = @ \ {h}]
             dead == [loop[l] EXCEPT !.at = "dead"]
  <2>1. done1 \in [at : {"none", "sleeping", "refreshing", "dead"}, hosts : SUBSET PolicyHosts]
        /\ done1.at = "refreshing" /\ done1.hosts = loop[l].hosts \ {h}
    BY <1>1, <1>2
  <2>2. dead \in [at : {"none", "sleeping", "refreshing", "dead"}, hosts : SUBSET PolicyHosts]
        /\ dead.at = "dead" /\ dead.hosts = loop[l].hosts
    BY <1>2
  <2>3. \/ /\ loop' = [loop EXCEPT ![l] = done1]
           /\ rules' = rules \cup ({address[h]} \ {Unresolved})
        \/ loop' = [loop EXCEPT ![l] = dead] /\ rules' = rules
    <3>1. CASE address[h] = Unresolved
      BY <3>1 DEF RefreshHost
    <3>2. CASE address[h] \in Refused
      BY <3>2 DEF RefreshHost
    <3>3. CASE address[h] # Unresolved /\ address[h] \notin Refused
      BY <3>3 DEF RefreshHost
    <3>. QED  BY <3>1, <3>2, <3>3
  <2> HIDE DEF done1, dead
  <2>. QED  BY <2>1, <2>2, <2>3
<1>4. loop'[l] = new /\ \A m \in Loops : m # l => loop'[m] = loop[m]
  BY <1>3 DEF NetworkInv, NetworkTypes
<1>5. NetworkTypes'
  <2>1. address[h] \in Addresses \cup {Unresolved}
    BY DEF NetworkInv, NetworkTypes, Hosts
  <2>. QED  BY <1>1, <1>3, <2>1 DEF NetworkInv, NetworkTypes
<1>6. EntryResolves' /\ EntryAdds'
  BY <1>1 DEF NetworkInv, EntryResolves, EntryAdds, AddressesOf
<1>7. LoopsSound'
  BY <1>1, <1>3, <1>4 DEF NetworkInv, LoopsSound, Refreshing
<1>8. ChainSound'
  <2> SUFFICES ASSUME flusher \notin stale,
                      container \in {"applying", "up"} \/ (container = "resolving" /\ flusher \in Loops)
               PROVE  /\ flusher \in Loops => loop'[flusher].hosts \subseteq policy
                      /\ Allowed' \ Pending \subseteq rules'
                      /\ ~mixed => rules' = Allowed' \ Pending
    <3>1. Pending' = Pending
      BY <1>1 DEF Pending
    <3>. QED  BY <1>1, <3>1 DEF ChainSound, NetworkInv, NetworkTypes
  <2>1. /\ flusher \in Loops => loop[flusher].hosts \subseteq policy
        /\ Allowed \ Pending \subseteq rules /\ (~mixed => rules = Allowed \ Pending)
    BY DEF NetworkInv, ChainSound
  <2>2. flusher = l => Pending = {}
    BY DEF Pending
  <2>3. flusher = "entrypoint" \/ flusher \in Loops
    BY DEF NetworkInv, NetworkTypes, Resolvers
  <2>4. CASE flusher # l
    <3>1. mixed
      BY <1>1, <2>4 DEF NetworkInv, LoopsSound, Refreshing
    <3>2. Allowed' = Allowed /\ (flusher \in Loops => loop'[flusher] = loop[flusher])
      BY <1>1, <1>4, <2>3, <2>4, ZenonT(60) DEF Allowed, AddressesOf
    <3>. QED  BY <1>3, <2>1, <3>1, <3>2
  <2>5. CASE flusher = l /\ new.at = "dead"
    <3>1. rules' = rules /\ loop'[l].hosts = loop[l].hosts
      BY <1>3, <1>4, <2>5
    <3>2. Allowed' = Allowed
      BY <1>1, <2>5, <3>1 DEF Allowed, AddressesOf
    <3>. QED  BY <2>1, <2>5, <3>1, <3>2
  <2>6. CASE flusher = l /\ new.at # "dead"
    <3>1. rules' = rules \cup ({address[h]} \ {Unresolved})
          /\ loop'[l].hosts = loop[l].hosts \ {h}
      BY <1>3, <1>4, <2>6
    <3>2. policy \ (loop[l].hosts \ {h}) = (policy \ loop[l].hosts) \cup {h}
      BY <1>1, <2>1, <2>6
    <3>3. Allowed' = {"core"} \cup AddressesOf(policy \ (loop[l].hosts \ {h}))
      BY <1>1, <2>6, <3>1 DEF Allowed, AddressesOf
    <3>4. Allowed = {"core"} \cup AddressesOf(policy \ loop[l].hosts)
      BY <2>6 DEF Allowed
    <3>5. Allowed' = Allowed \cup ({address[h]} \ {Unresolved})
      <4>1. AddressesOf((policy \ loop[l].hosts) \cup {h})
              = AddressesOf(policy \ loop[l].hosts) \cup ({address[h]} \ {Unresolved})
        BY AddressesOfMore
      <4>. QED  BY <3>2, <3>3, <3>4, <4>1, Zenon
    <3>. QED  BY <2>1, <2>2, <2>6, <3>1, <3>5
  <2>. QED  BY <2>4, <2>5, <2>6
<1>. QED  BY <1>5, <1>6, <1>7, <1>8 DEF NetworkInv

LEMMA RefreshDoneInv ==
  ASSUME NEW l \in Loops
  PROVE  NetworkInv /\ RefreshDone(l) => NetworkInv'
<1> SUFFICES ASSUME NetworkInv, RefreshDone(l) PROVE NetworkInv'
  OBVIOUS
<1> USE WorkroomAssumption
<1> DEFINE new == [loop[l] EXCEPT !.at = "sleeping"]
<1>1. /\ loop[l].at = "refreshing" /\ loop[l].hosts = {} /\ loop' = [loop EXCEPT ![l] = new]
      /\ UNCHANGED <<policy, address, changes, container, toResolve, resolved, drop, rules,
                     flusher, mixed, stale>>
  BY DEF RefreshDone, Refreshing, outside, resolving, flushed
<1>2. new \in [at : {"none", "sleeping", "refreshing", "dead"}, hosts : SUBSET PolicyHosts]
      /\ new.at = "sleeping" /\ new.hosts = {}
  BY <1>1 DEF NetworkInv, NetworkTypes
<1> HIDE DEF new
<1>3. NetworkTypes'
  BY <1>1, <1>2 DEF NetworkInv, NetworkTypes
<1>4. loop'[l] = new /\ \A m \in Loops : m # l => loop'[m] = loop[m]
  BY <1>1 DEF NetworkInv, NetworkTypes
<1>5. EntryResolves' /\ EntryAdds'
  BY <1>1 DEF NetworkInv, EntryResolves, EntryAdds, AddressesOf
<1>6. LoopsSound'
  BY <1>1, <1>2, <1>4 DEF NetworkInv, LoopsSound, Refreshing
<1>7. \A m \in Loops : loop'[m].hosts = loop[m].hosts
  BY <1>1, <1>2, <1>4
<1>8. ChainSound'
  <2>1. flusher = "entrypoint" \/ flusher \in Loops
    BY DEF NetworkInv, NetworkTypes, Resolvers
  <2>2. Allowed' = Allowed
    BY <1>1, <1>7, <2>1, ZenonT(60) DEF Allowed, AddressesOf
  <2>3. Pending' = Pending
    BY <1>1 DEF Pending
  <2>. QED  BY <1>1, <1>7, <2>2, <2>3 DEF NetworkInv, ChainSound
<1>. QED  BY <1>3, <1>5, <1>6, <1>8 DEF NetworkInv

(* After a change everybody who resolves is stale: nothing is claimed until  *)
(* one flushes the chain anew.                                               *)
LEMMA ChangeInv ==
  ASSUME NEW h \in Hosts, NEW a \in Addresses \cup {Unresolved}
  PROVE  NetworkInv /\ (MoveHost(h, a) \/ (h \in PolicyHosts /\ EditPolicy(h))) => NetworkInv'
<1> SUFFICES ASSUME NetworkInv, MoveHost(h, a) \/ (h \in PolicyHosts /\ EditPolicy(h))
             PROVE  NetworkInv'
  OBVIOUS
<1> USE WorkroomAssumption
<1>1. /\ stale' = Resolvers
      /\ UNCHANGED <<container, toResolve, resolved, drop, rules, loop, flusher, mixed>>
  BY DEF MoveHost, EditPolicy, resolving, flushed
<1>2. policy' \subseteq PolicyHosts /\ address' \in [Hosts -> Addresses \cup {Unresolved}]
      /\ changes' \in 0..MaxChanges
  <2>1. CASE MoveHost(h, a)
    BY <2>1 DEF MoveHost, NetworkInv, NetworkTypes
  <2>2. CASE h \in PolicyHosts /\ EditPolicy(h)
    BY <2>2 DEF EditPolicy, NetworkInv, NetworkTypes
  <2>. QED  BY <2>1, <2>2
<1>3. NetworkTypes'
  BY <1>1, <1>2 DEF NetworkInv, NetworkTypes
<1>4. EntryResolves' /\ EntryAdds' /\ ChainSound'
  BY <1>1, <1>3 DEF EntryResolves, EntryAdds, ChainSound, NetworkTypes, Resolvers
<1>5. LoopsSound'
  BY <1>1 DEF NetworkInv, LoopsSound, Refreshing
<1>. QED  BY <1>3, <1>4, <1>5 DEF NetworkInv

LEMMA NetworkStepInv == NetworkInv /\ [WorkroomNext]_workroomVars => NetworkInv'
<1> SUFFICES ASSUME NetworkInv, [WorkroomNext]_workroomVars PROVE NetworkInv'
  OBVIOUS
<1>1. CASE StartWorkroom \/ FlushRules \/ StartDaemon \/ RestartWorkroom \/ StopWorkroom
  BY <1>1, EnterInv, FlushRulesInv, StartDaemonInv, StopWorkroomInv DEF StartWorkroom, RestartWorkroom
<1>2. ASSUME NEW r \in {"gateway"} \cup Addresses, AddRule(r) PROVE NetworkInv'
  BY <1>2, AddRuleInv
<1>3. ASSUME NEW h \in Hosts,
             ResolveHost(h) \/ \E a \in Addresses \cup {Unresolved} : MoveHost(h, a)
      PROVE  NetworkInv'
  BY <1>3, ResolveHostInv, ChangeInv
<1>4. ASSUME NEW h \in PolicyHosts, EditPolicy(h)
      PROVE  NetworkInv'
  <2>1. h \in Hosts /\ Unresolved \in Addresses \cup {Unresolved}
    BY DEF Hosts
  <2>. QED  BY <1>4, <2>1, ChangeInv
<1>5. ASSUME NEW l \in Loops, PolicyReload(l) \/ Refresh(l) \/ RefreshDone(l)
      PROVE  NetworkInv'
  BY <1>5, PolicyReloadInv, RefreshInv, RefreshDoneInv
<1>6. ASSUME NEW l \in Loops, NEW h \in PolicyHosts, RefreshHost(l, h)
      PROVE  NetworkInv'
  BY <1>6, RefreshHostInv
<1>7. CASE UNCHANGED workroomVars
  <2>1. UNCHANGED <<policy, address, changes, container, toResolve, resolved, drop, rules, loop,
                    flusher, mixed, stale>>
    BY <1>7 DEF workroomVars, outside, resolving, flushed
  <2>2. Allowed' = Allowed /\ Pending' = Pending
    BY <2>1 DEF Allowed, Pending, AddressesOf
  <2>. QED  BY <2>1, <2>2 DEF NetworkInv, NetworkTypes, EntryResolves, EntryAdds, LoopsSound, ChainSound,
                              Refreshing, AddressesOf
<1>. QED  BY <1>1, <1>2, <1>3, <1>4, <1>5, <1>6, <1>7 DEF WorkroomNext

LEMMA NetworkInvAsPolicy == NetworkInv => NetworkAsPolicy
<1> SUFFICES ASSUME NetworkInv, container = "up"
             PROVE  /\ drop
                    /\ Rebuilt /\ flusher \notin stale =>
                         /\ {"core"} \cup AddressesOf(policy) \subseteq rules
                         /\ ~mixed => rules = IF flusher = "entrypoint"
                                              THEN {"core", "gateway"} \cup AddressesOf(policy \cup ArenaHosts)
                                              ELSE {"core"} \cup AddressesOf(policy)
  BY DEF NetworkAsPolicy
<1>1. drop
  BY DEF NetworkInv, LoopsSound
<1>2. ASSUME Rebuilt, flusher \notin stale
      PROVE  /\ Allowed = IF flusher = "entrypoint"
                          THEN {"core", "gateway"} \cup AddressesOf(policy \cup ArenaHosts)
                          ELSE {"core"} \cup AddressesOf(policy)
             /\ {"core"} \cup AddressesOf(policy) \subseteq Allowed
  <2>1. CASE flusher = "entrypoint"
    <3>1. AddressesOf(policy) \subseteq AddressesOf(policy \cup ArenaHosts)
      BY AddressesOfPart
    <3>. QED  BY <2>1, <3>1 DEF Allowed
  <2>2. CASE flusher # "entrypoint"
    <3>1. flusher \in Loops
      BY <2>2 DEF NetworkInv, NetworkTypes, Resolvers
    <3>2. policy \ loop[flusher].hosts = policy
      BY <1>2, <3>1 DEF Rebuilt, NetworkInv, LoopsSound
    <3>. QED  BY <2>2, <3>2 DEF Allowed
  <2>. QED  BY <2>1, <2>2
<1>3. flusher \notin stale => Allowed \subseteq rules /\ (~mixed => rules = Allowed)
  BY DEF NetworkInv, ChainSound, Pending
<1>. QED  BY <1>1, <1>2, <1>3

(* However the loops of the container interleave, die or are started again,  *)
(* and whenever the policy or an address changes: what no rule accepts is    *)
(* dropped, and a chain that was rebuilt since the last change allows every  *)
(* host of the policy, and nothing else unless two loops overlapped.         *)
THEOREM NetworkIsAsPolicy == WorkroomSpec => []NetworkAsPolicy
  BY NetworkInitInv, NetworkStepInv, NetworkInvAsPolicy, PTL DEF WorkroomSpec

-----------------------------------------------------------------------------
(* Compute rental.  A meter of a session, and what is kept of it.           *)
MeterType == [on : BOOLEAN, lastReport : Nat, samples : SUBSET Samples,
              sampleDue : Nat, reportDue : Nat]

SessionStatus == {"none", "proposed", "accepted", "active", "completed", "disputed"}

MeteringTypes ==
  /\ clock \in Times /\ restarted \in Nat
  /\ status \in [Sessions -> SessionStatus] /\ DOMAIN consumed = Sessions
  /\ DOMAIN reports = Sessions
  /\ DOMAIN filed = Sessions /\ DOMAIN taken = Sessions
  /\ meter \in [Sessions -> MeterType]

(* A session is metered between its start and its end only; its meter's     *)
(* period begins in the past, and its next report is later than that.       *)
MeterSound(s) ==
  /\ meter[s].on =>
       /\ status[s] \in {"active", "disputed"}
       /\ meter[s].lastReport <= clock /\ meter[s].reportDue > meter[s].lastReport
  /\ ~meter[s].on => meter[s].samples = {}
  /\ status[s] \in {"none", "proposed", "accepted"} => filed[s] = {} /\ taken[s] = {}

(* The reports on disk end before the period of the meter, and those of a   *)
(* session that goes on are of periods in which time passed.                *)
FiledSound(s) ==
  /\ \A r \in filed[s] : r.start \in Nat /\ r.end \in Nat /\ r.end <= clock
  /\ meter[s].on => \A r \in filed[s] : r.end <= meter[s].lastReport
  /\ status[s] # "completed" => reports[s] = {} /\ \A r \in filed[s] : r.start < r.end

SettledSound(s) ==
  /\ status[s] = "completed" => reports[s] = filed[s]
  /\ restarted = 0 => taken[s] \subseteq meter[s].samples \cup UNION {r.samples : r \in filed[s]}
  /\ \A r, o \in filed[s] : r # o => r.end <= o.start \/ o.end <= r.start

SessionsInv ==
  /\ MeteringTypes
  /\ \A s \in Sessions : MeterSound(s) /\ FiledSound(s) /\ SettledSound(s)


LEMMA SessionsInitInv == SessionsInit => SessionsInv
  BY ComputeSessionsAssumption
     DEF SessionsInit, SessionsInv, MeteringTypes, MeterType, SessionStatus, NoMeter, Times,
         MeterSound, FiledSound, SettledSound

SessionSound(s) == MeterSound(s) /\ FiledSound(s) /\ SettledSound(s)

(* The meter of a session in the types of its fields.                       *)
LEMMA MeterFields ==
  ASSUME MeteringTypes, NEW s \in Sessions
  PROVE  /\ meter[s].on \in BOOLEAN /\ meter[s].samples \in SUBSET Samples
         /\ meter[s].lastReport \in Nat
         /\ meter[s].sampleDue \in Nat /\ meter[s].reportDue \in Nat
<1>. meter[s] \in MeterType
  BY DEF MeteringTypes
<1>. QED  BY DEF MeterType

(* What leaves the records of a session alone keeps them sound.             *)
LEMMA SessionUnaffected ==
  ASSUME MeteringTypes, NEW s \in Sessions, SessionSound(s),
         status'[s] = status[s], reports'[s] = reports[s], meter'[s] = meter[s],
         filed'[s] = filed[s], taken'[s] = taken[s], restarted' = restarted,
         clock' \in Nat, clock <= clock'
  PROVE  SessionSound(s)'
<1>0. clock \in Nat /\ meter[s].lastReport \in Nat
  BY MeterFields DEF MeteringTypes, Times
<1>1. MeterSound(s)'
  BY <1>0 DEF SessionSound, MeterSound
<1>2. FiledSound(s)'
  BY <1>0 DEF SessionSound, FiledSound
<1>3. SettledSound(s)'
  BY DEF SessionSound, SettledSound
<1>. QED  BY <1>1, <1>2, <1>3 DEF SessionSound

(* A session is accepted, disputed, or proposed: nothing else of it changes. *)
LEMMA AgreeInv ==
  ASSUME SessionsInv, NEW s \in Sessions, Propose(s) \/ Accept(s) \/ Dispute(s)
  PROVE  SessionsInv'
<1>0. MeteringTypes /\ \A z \in Sessions : SessionSound(z)
  BY DEF SessionsInv, SessionSound
<1>1. /\ UNCHANGED <<clock, consumed, reports, meter, filed, taken, restarted>>
      /\ \A z \in Sessions : z # s => status'[z] = status[z]
      /\ status' \in [Sessions -> SessionStatus]
      /\ \/ status[s] = "active" /\ status'[s] = "disputed"
         \/ /\ status[s] \in {"none", "proposed", "accepted"}
            /\ status'[s] \in {"none", "proposed", "accepted"}
  BY <1>0 DEF Propose, Accept, Dispute, MeteringTypes, SessionStatus
<1>2. clock \in Nat /\ clock <= clock /\ clock' = clock
  BY <1>0, <1>1 DEF MeteringTypes, Times
<1>3. ASSUME NEW z \in Sessions PROVE SessionSound(z)'
  <2>1. CASE z # s
    BY <1>0, <1>1, <1>2, <2>1, SessionUnaffected
  <2>2. CASE z = s
    BY <1>0, <1>1, <2>2 DEF SessionSound, MeterSound, FiledSound, SettledSound
  <2>. QED  BY <2>1, <2>2
<1>4. MeteringTypes'
  BY <1>0, <1>1 DEF MeteringTypes, Times
<1>. QED  BY <1>3, <1>4 DEF SessionsInv, SessionSound

(* A session starts: there is nothing of it yet.                             *)
LEMMA StartInv ==
  ASSUME SessionsInv, NEW s \in Sessions, Start(s)
  PROVE  SessionsInv'
<1> USE ComputeSessionsAssumption
<1>0. MeteringTypes /\ \A z \in Sessions : SessionSound(z)
  BY DEF SessionsInv, SessionSound
<1>1. ~meter[s].on /\ filed[s] = {} /\ taken[s] = {} /\ reports[s] = {}
  BY <1>0 DEF Start, SessionSound, MeterSound, FiledSound
<1>2. clock \in Nat /\ clock <= clock
  BY <1>0 DEF MeteringTypes, Times
<1> DEFINE new == [on |-> TRUE, lastReport |-> clock, samples |-> {},
                   sampleDue |-> clock + MeteringInterval, reportDue |-> clock + ReportInterval]
<1>3. new \in MeterType
  BY <1>2 DEF MeterType
<1>4. new.on /\ new.lastReport = clock /\ new.reportDue > clock
  BY <1>2
<1>5. meter' = [meter EXCEPT ![s] = new]
  BY <1>1 DEF Start, StartMetering
<1> HIDE DEF new
<1>6. /\ UNCHANGED <<clock, consumed, reports, filed, taken, restarted>>
      /\ status' = [status EXCEPT ![s] = "active"]
  BY DEF Start
<1>7. /\ meter' \in [Sessions -> MeterType] /\ meter'[s] = new
      /\ \A z \in Sessions : z # s => meter'[z] = meter[z] /\ status'[z] = status[z]
      /\ status' \in [Sessions -> SessionStatus] /\ status'[s] = "active"
  BY <1>0, <1>3, <1>5, <1>6 DEF MeteringTypes, SessionStatus
<1>8. ASSUME NEW z \in Sessions PROVE SessionSound(z)'
  <2>1. CASE z # s
    BY <1>0, <1>2, <1>6, <1>7, <2>1, SessionUnaffected
  <2>2. CASE z = s
    BY <1>1, <1>2, <1>4, <1>6, <1>7, <2>2 DEF SessionSound, MeterSound, FiledSound, SettledSound
  <2>. QED  BY <2>1, <2>2
<1>9. MeteringTypes'
  BY <1>0, <1>6, <1>7 DEF MeteringTypes, Times
<1>. QED  BY <1>8, <1>9 DEF SessionsInv, SessionSound

(* A sample waits in the meter.                                             *)
LEMMA CollectMetricInv ==
  ASSUME SessionsInv, NEW s \in Sessions, CollectMetric(s)
  PROVE  SessionsInv'
<1> USE ComputeSessionsAssumption
<1>0. MeteringTypes /\ \A z \in Sessions : SessionSound(z)
  BY DEF SessionsInv, SessionSound
<1>1. PICK busy \in BOOLEAN :
        /\ meter' = [meter EXCEPT ![s].samples = @ \cup {[at |-> clock, busy |-> busy]},
                                  ![s].sampleDue = clock + MeteringInterval]
        /\ taken' = [taken EXCEPT ![s] = @ \cup {[at |-> clock, busy |-> busy]}]
  BY DEF CollectMetric
<1>2. clock \in Nat /\ clock <= clock
  BY <1>0 DEF MeteringTypes, Times
<1> DEFINE sample == [at |-> clock, busy |-> busy]
<1>3. sample \in Samples
  BY <1>0 DEF Samples, MeteringTypes
<1> DEFINE old == meter[s]
<1> DEFINE new == [old EXCEPT !.samples = @ \cup {sample}, !.sampleDue = clock + MeteringInterval]
<1>4. old \in MeterType
  BY <1>0 DEF MeteringTypes
<1>5. meter' = [meter EXCEPT ![s] = new] /\ taken' = [taken EXCEPT ![s] = @ \cup {sample}]
  BY <1>1
<1> HIDE DEF sample, old
<1>6. /\ new \in MeterType /\ new.samples = old.samples \cup {sample}
      /\ new.on = old.on /\ new.lastReport = old.lastReport /\ new.reportDue = old.reportDue
  <2>1. old.samples \cup {sample} \in SUBSET Samples /\ clock + MeteringInterval \in Nat
    BY <1>2, <1>3, <1>4 DEF MeterType
  <2>2. new \in MeterType
    BY <1>4, <2>1 DEF MeterType
  <2>3. new.samples = old.samples \cup {sample}
    BY <1>4 DEF MeterType
  <2>4. new.on = old.on
    BY <1>4, Zenon DEF MeterType
  <2>5. new.lastReport = old.lastReport /\ new.reportDue = old.reportDue
    BY <1>4 DEF MeterType
  <2>. QED  BY <2>2, <2>3, <2>4, <2>5
<1> HIDE DEF new
<1>7. meter[s].on /\ UNCHANGED <<clock, status, consumed, reports, filed, restarted>>
  BY DEF CollectMetric
<1>8. /\ meter' \in [Sessions -> MeterType] /\ meter'[s] = new
      /\ DOMAIN taken' = Sessions /\ taken'[s] = taken[s] \cup {sample}
      /\ \A z \in Sessions : z # s => meter'[z] = meter[z] /\ taken'[z] = taken[z]
  BY <1>0, <1>5, <1>6 DEF MeteringTypes
<1>9. ASSUME NEW z \in Sessions PROVE SessionSound(z)'
  <2>1. CASE z # s
    BY <1>0, <1>2, <1>7, <1>8, <2>1, SessionUnaffected
  <2>2. CASE z = s
    <3>1. MeterSound(s)'
      BY <1>0, <1>6, <1>7, <1>8 DEF SessionSound, MeterSound, old
    <3>2. FiledSound(s)'
      BY <1>0, <1>6, <1>7, <1>8 DEF SessionSound, FiledSound, old
    <3>3. SettledSound(s)'
      BY <1>0, <1>6, <1>7, <1>8 DEF SessionSound, SettledSound, old
    <3>. QED  BY <2>2, <3>1, <3>2, <3>3 DEF SessionSound
  <2>. QED  BY <2>1, <2>2
<1>10. MeteringTypes'
  BY <1>0, <1>7, <1>8 DEF MeteringTypes, Times
<1>. QED  BY <1>9, <1>10 DEF SessionsInv, SessionSound

(* A report is filed of the time since the one before, which is later than   *)
(* every report on disk; what it leaves in the meter it has not lost.        *)
LEMMA GenerateReportInv ==
  ASSUME SessionsInv, NEW s \in Sessions, GenerateReport(s)
  PROVE  SessionsInv'
<1> USE ComputeSessionsAssumption
<1>0. MeteringTypes /\ \A z \in Sessions : SessionSound(z)
  BY DEF SessionsInv, SessionSound
<1>1. clock \in Nat /\ clock <= clock
  BY <1>0 DEF MeteringTypes, Times
<1>2. /\ meter[s].on /\ clock >= meter[s].reportDue
      /\ UNCHANGED <<clock, status, consumed, reports, taken, restarted>>
  BY DEF GenerateReport
<1>3. /\ meter[s].lastReport \in Nat /\ meter[s].reportDue \in Nat
      /\ meter[s].samples \in SUBSET Samples
  BY <1>0, MeterFields
<1>4. meter[s].lastReport < clock /\ status[s] \in {"active", "disputed"}
  BY <1>0, <1>1, <1>2, <1>3 DEF SessionSound, MeterSound
<1> DEFINE old == meter[s]
<1>5. old \in MeterType
  BY <1>0 DEF MeteringTypes
<1>6. CASE meter[s].samples = {}
  <2>1. meter' = [meter EXCEPT ![s].reportDue = clock + ReportInterval] /\ UNCHANGED filed
    BY <1>6 DEF GenerateReport
  <2> DEFINE new == [old EXCEPT !.reportDue = clock + ReportInterval]
  <2>2. meter' = [meter EXCEPT ![s] = new]
    BY <2>1
  <2> HIDE DEF old
  <2>3. new \in MeterType
    BY <1>1, <1>5 DEF MeterType
  <2>4. new.samples = old.samples /\ new.lastReport = old.lastReport
    BY <1>5 DEF MeterType
  <2>5. new.on = old.on
    BY <1>5, Zenon DEF MeterType
  <2>6. new.reportDue > clock
    BY <1>1, <1>5 DEF MeterType
  <2> HIDE DEF new
  <2>7. /\ meter' \in [Sessions -> MeterType] /\ meter'[s] = new
        /\ \A z \in Sessions : z # s => meter'[z] = meter[z]
    BY <1>0, <2>2, <2>3 DEF MeteringTypes
  <2>8. ASSUME NEW z \in Sessions PROVE SessionSound(z)'
    <3>1. CASE z # s
      BY <1>0, <1>1, <1>2, <2>1, <2>7, <3>1, SessionUnaffected
    <3>2. CASE z = s
      <4>1. MeterSound(s)'
        BY <1>0, <1>1, <1>2, <1>3, <1>4, <2>1, <2>4, <2>5, <2>6, <2>7
           DEF SessionSound, MeterSound, old
      <4>2. FiledSound(s)'
        BY <1>0, <1>2, <2>1, <2>4, <2>5, <2>7 DEF SessionSound, FiledSound, old
      <4>3. SettledSound(s)'
        BY <1>0, <1>2, <2>1, <2>4, <2>7 DEF SessionSound, SettledSound, old
      <4>. QED  BY <3>2, <4>1, <4>2, <4>3 DEF SessionSound
    <3>. QED  BY <3>1, <3>2
  <2>9. MeteringTypes'
    BY <1>0, <1>2, <2>1, <2>7 DEF MeteringTypes, Times
  <2>. QED  BY <2>8, <2>9 DEF SessionsInv, SessionSound
<1>7. CASE meter[s].samples # {}
  <2> DEFINE report == Report(s)
  <2> DEFINE kept == {m \in old.samples : m.at >= clock}
  <2>1. /\ filed' = [filed EXCEPT ![s] = @ \cup {report}]
        /\ meter' = [meter EXCEPT ![s].lastReport = clock,
                                  ![s].samples = {m \in @ : m.at >= clock},
                                  ![s].reportDue = clock + ReportInterval]
    BY <1>7 DEF GenerateReport
  <2> DEFINE new == [old EXCEPT !.lastReport = clock, !.samples = kept,
                                !.reportDue = clock + ReportInterval]
  <2>2. meter' = [meter EXCEPT ![s] = new]
    BY <2>1
  <2>3. report.start = old.lastReport /\ report.end = clock /\ report.samples = old.samples
    BY DEF Report
  <2> HIDE DEF report
  <2> HIDE DEF old
  <2>4. kept \in SUBSET Samples /\ kept \subseteq old.samples
    BY <1>5 DEF MeterType
  <2> HIDE DEF kept
  <2>5. new \in MeterType
    <3>1. clock + ReportInterval \in Nat
      BY <1>1
    <3>. QED  BY <1>1, <1>5, <2>4, <3>1 DEF MeterType
  <2>6. new.samples = kept /\ new.lastReport = clock
    BY <1>5 DEF MeterType
  <2>7. new.on = old.on
    BY <1>5, Zenon DEF MeterType
  <2>8. new.reportDue > clock
    BY <1>1, <1>5 DEF MeterType
  <2> HIDE DEF new
  <2>9. /\ meter' \in [Sessions -> MeterType] /\ meter'[s] = new
        /\ DOMAIN filed' = Sessions /\ filed'[s] = filed[s] \cup {report}
        /\ \A z \in Sessions : z # s => meter'[z] = meter[z] /\ filed'[z] = filed[z]
    <3>1. meter \in [Sessions -> MeterType] /\ DOMAIN filed = Sessions
      BY <1>0 DEF MeteringTypes
    <3>2. /\ meter' \in [Sessions -> MeterType] /\ meter'[s] = new
          /\ \A z \in Sessions : z # s => meter'[z] = meter[z]
      BY <2>2, <2>5, <3>1
    <3>3. filed' = [filed EXCEPT ![s] = filed[s] \cup {report}]
      BY <2>1
    <3>4. /\ DOMAIN filed' = Sessions /\ filed'[s] = filed[s] \cup {report}
          /\ \A z \in Sessions : z # s => filed'[z] = filed[z]
      BY <3>1, <3>3
    <3>. QED  BY <3>2, <3>4
  <2>10. ASSUME NEW z \in Sessions PROVE SessionSound(z)'
    <3>1. CASE z # s
      BY <1>0, <1>1, <1>2, <2>9, <3>1, SessionUnaffected
    <3>2. CASE z = s
      <4>1. MeterSound(s)'
        BY <1>0, <1>1, <1>2, <1>4, <2>6, <2>7, <2>8, <2>9
           DEF SessionSound, MeterSound, old
      <4>2. /\ \A r \in filed[s] : r.start \in Nat /\ r.end \in Nat
                                  /\ r.end <= old.lastReport /\ r.start < r.end
            /\ reports[s] = {}
        BY <1>0, <1>2, <1>4 DEF SessionSound, FiledSound, old
      <4>3. old.lastReport \in Nat /\ old.lastReport < clock
        BY <1>3, <1>4 DEF old
      <4>4. FiledSound(s)'
        <5>1. \A r \in filed'[s] : r.start \in Nat /\ r.end \in Nat /\ r.end <= clock /\ r.start < r.end
          BY <1>1, <2>3, <2>9, <4>2, <4>3
        <5>. QED  BY <1>2, <2>6, <2>9, <4>2, <5>1 DEF FiledSound
      <4>5. SettledSound(s)'
        <5>1. status'[s] # "completed"
          BY <1>2, <1>4
        <5>2. restarted = 0 => taken[s] \subseteq old.samples \cup UNION {r.samples : r \in filed[s]}
          BY <1>0 DEF SessionSound, SettledSound, old
        <5>3. old.samples \cup UNION {r.samples : r \in filed[s]}
                \subseteq UNION {r.samples : r \in filed'[s]}
          BY <2>3, <2>9
        <5>4. \A r, o \in filed'[s] : r # o => r.end <= o.start \/ o.end <= r.start
          <6>1. \A r, o \in filed[s] : r # o => r.end <= o.start \/ o.end <= r.start
            BY <1>0 DEF SessionSound, SettledSound
          <6>. QED  BY <2>3, <2>9, <4>2, <6>1
        <5>. QED  BY <1>2, <5>1, <5>2, <5>3, <5>4 DEF SettledSound
      <4>. QED  BY <3>2, <4>1, <4>4, <4>5 DEF SessionSound
    <3>. QED  BY <3>1, <3>2
  <2>11. MeteringTypes'
    BY <1>0, <1>2, <2>9 DEF MeteringTypes, Times
  <2>. QED  BY <2>10, <2>11 DEF SessionsInv, SessionSound
<1>. QED  BY <1>6, <1>7

(* The end of a session: its final report begins where the last one ended,   *)
(* so that every report on disk is taken over.                               *)
LEMMA EndInv ==
  ASSUME SessionsInv, NEW s \in Sessions, End(s)
  PROVE  SessionsInv'
<1>0. MeteringTypes /\ \A z \in Sessions : SessionSound(z)
  BY DEF SessionsInv, SessionSound
<1>1. clock \in Nat /\ clock <= clock
  BY <1>0 DEF MeteringTypes, Times
<1> DEFINE final == FinalReport(s)
<1>2. /\ status[s] = "active" /\ status' = [status EXCEPT ![s] = "completed"]
      /\ filed' = [filed EXCEPT ![s] = filed[s] \cup final]
      /\ meter' = [meter EXCEPT ![s] = NoMeter]
      /\ reports' = [reports EXCEPT ![s] = (reports[s] \cup final)
           \cup {r \in filed[s] \cup final : \A o \in reports[s] \cup final : o.start # r.start}]
      /\ DOMAIN consumed' = DOMAIN consumed
      /\ UNCHANGED <<clock, taken, restarted>>
  BY DEF End
<1>3. /\ NoMeter \in MeterType /\ ~NoMeter.on /\ NoMeter.samples = {}
  BY DEF NoMeter, MeterType
<1>4. /\ meter' \in [Sessions -> MeterType] /\ meter'[s] = NoMeter
      /\ status' \in [Sessions -> SessionStatus] /\ status'[s] = "completed"
      /\ DOMAIN filed' = Sessions /\ filed'[s] = filed[s] \cup final
      /\ DOMAIN reports' = Sessions /\ DOMAIN consumed' = Sessions
      /\ reports'[s] = (reports[s] \cup final)
           \cup {r \in filed[s] \cup final : \A o \in reports[s] \cup final : o.start # r.start}
      /\ \A z \in Sessions : z # s =>
           /\ meter'[z] = meter[z] /\ filed'[z] = filed[z]
           /\ status'[z] = status[z] /\ reports'[z] = reports[z]
  BY <1>0, <1>2, <1>3 DEF MeteringTypes, SessionStatus
<1>5. meter[s].lastReport \in Nat
  BY <1>0, MeterFields
<1>6. /\ \A r \in final : r.start = meter[s].lastReport /\ r.end = clock
                           /\ r.samples = meter[s].samples
      /\ final # {} => meter[s].on
      /\ final = {} /\ meter[s].on => meter[s].samples = {}
      /\ \A r, o \in final : r = o
  <2>1. CASE meter[s].on /\ meter[s].samples # {}
    <3> DEFINE report == Report(s)
    <3>1. final = {report}
      BY <2>1 DEF FinalReport
    <3>2. /\ report.start = meter[s].lastReport /\ report.end = clock
          /\ report.samples = meter[s].samples
      BY DEF Report
    <3> HIDE DEF final, report
    <3>. QED  BY <2>1, <3>1, <3>2
  <2>2. CASE ~(meter[s].on /\ meter[s].samples # {})
    <3>1. final = {}
      BY <2>2 DEF FinalReport
    <3>. QED  BY <2>2, <3>1
  <2>. QED  BY <2>1, <2>2
<1> HIDE DEF final
<1>7. reports[s] = {} /\ \A r \in filed[s] : /\ r.start \in Nat /\ r.end \in Nat
                                             /\ r.end <= clock /\ r.start < r.end
  BY <1>0, <1>2 DEF SessionSound, FiledSound
<1>8. meter[s].on => /\ meter[s].lastReport <= clock
                     /\ \A r \in filed[s] : r.end <= meter[s].lastReport
  BY <1>0 DEF SessionSound, MeterSound, FiledSound
<1>9. \A o \in final, r \in filed[s] : r.end <= o.start /\ o.start # r.start
  BY <1>5, <1>6, <1>7, <1>8
<1>10. reports'[s] = filed'[s]
  BY <1>4, <1>7, <1>9
<1>11. ASSUME NEW z \in Sessions PROVE SessionSound(z)'
  <2>1. CASE z # s
    BY <1>0, <1>1, <1>2, <1>4, <2>1, SessionUnaffected
  <2>2. CASE z = s
    <3>1. MeterSound(s)'
      BY <1>3, <1>4 DEF MeterSound
    <3>2. FiledSound(s)'
      BY <1>1, <1>2, <1>3, <1>4, <1>5, <1>6, <1>7 DEF FiledSound
    <3>3. SettledSound(s)'
      <4>1. restarted = 0 => taken[s] \subseteq meter[s].samples \cup UNION {r.samples : r \in filed[s]}
        BY <1>0 DEF SessionSound, SettledSound
      <4>2. meter[s].samples \cup UNION {r.samples : r \in filed[s]}
              \subseteq UNION {r.samples : r \in filed'[s]}
        <5>1. final = {} => meter[s].samples = {}
          BY <1>0, <1>6 DEF SessionSound, MeterSound
        <5>. QED  BY <1>4, <1>6, <5>1
      <4>3. \A r, o \in filed'[s] : r # o => r.end <= o.start \/ o.end <= r.start
        <5>1. \A r, o \in filed[s] : r # o => r.end <= o.start \/ o.end <= r.start
          BY <1>0 DEF SessionSound, SettledSound
        <5>. QED  BY <1>4, <1>6, <1>9, <5>1
      <4>. QED  BY <1>2, <1>10, <4>1, <4>2, <4>3 DEF SettledSound
    <3>. QED  BY <2>2, <3>1, <3>2, <3>3 DEF SessionSound
  <2>. QED  BY <2>1, <2>2
<1>12. MeteringTypes'
  BY <1>0, <1>2, <1>4 DEF MeteringTypes, Times
<1>. QED  BY <1>11, <1>12 DEF SessionsInv, SessionSound

(* A restart loses the meters, and with them samples: only of samples taken  *)
(* without one is anything said.                                             *)
LEMMA MeterRestartInv == SessionsInv /\ Restart => SessionsInv'
<1> SUFFICES ASSUME SessionsInv, Restart PROVE SessionsInv'
  OBVIOUS
<1>0. MeteringTypes /\ \A z \in Sessions : SessionSound(z)
  BY DEF SessionsInv, SessionSound
<1>1. NoMeter \in MeterType /\ ~NoMeter.on /\ NoMeter.samples = {}
  BY DEF NoMeter, MeterType
<1>2. /\ meter' \in [Sessions -> MeterType] /\ \A z \in Sessions : meter'[z] = NoMeter
      /\ restarted' \in Nat /\ restarted' # 0
      /\ UNCHANGED <<clock, status, consumed, reports, filed, taken>>
  BY <1>0, <1>1 DEF Restart, MeteringTypes
<1>3. ASSUME NEW z \in Sessions PROVE SessionSound(z)'
  <2>1. MeterSound(z)'
    BY <1>0, <1>1, <1>2 DEF SessionSound, MeterSound
  <2>2. FiledSound(z)'
    BY <1>0, <1>1, <1>2 DEF SessionSound, FiledSound
  <2>3. SettledSound(z)'
    BY <1>0, <1>2 DEF SessionSound, SettledSound
  <2>. QED  BY <2>1, <2>2, <2>3 DEF SessionSound
<1>4. MeteringTypes'
  BY <1>0, <1>2 DEF MeteringTypes, Times
<1>. QED  BY <1>3, <1>4 DEF SessionsInv, SessionSound

LEMMA SessionsStepInv == SessionsInv /\ [SessionsNext]_sessionVars => SessionsInv'
<1> SUFFICES ASSUME SessionsInv, [SessionsNext]_sessionVars PROVE SessionsInv'
  OBVIOUS
<1>0. MeteringTypes /\ \A z \in Sessions : SessionSound(z)
  BY DEF SessionsInv, SessionSound
<1>1. ASSUME ClockTicks \/ UNCHANGED sessionVars
      PROVE  SessionsInv'
  <2>1. clock' \in Times /\ clock' \in Nat /\ clock <= clock'
    BY <1>0, <1>1, ComputeSessionsAssumption DEF ClockTicks, MeteringTypes, Times, sessionVars
  <2>2. UNCHANGED <<status, consumed, reports, meter, filed, taken, restarted>>
    BY <1>1 DEF ClockTicks, sessionVars
  <2>3. ASSUME NEW z \in Sessions PROVE SessionSound(z)'
    BY <1>0, <2>1, <2>2, SessionUnaffected
  <2>4. MeteringTypes'
    BY <1>0, <2>1, <2>2 DEF MeteringTypes
  <2>. QED  BY <2>3, <2>4 DEF SessionsInv, SessionSound
<1>2. ASSUME NEW s \in Sessions, Propose(s) \/ Accept(s) \/ Dispute(s)
      PROVE  SessionsInv'
  BY <1>2, AgreeInv
<1>3. ASSUME NEW s \in Sessions, Start(s) \/ End(s) \/ CollectMetric(s) \/ GenerateReport(s)
      PROVE  SessionsInv'
  BY <1>3, StartInv, EndInv, CollectMetricInv, GenerateReportInv
<1>. QED  BY <1>1, <1>2, <1>3, MeterRestartInv DEF SessionsNext

LEMMA SessionsInvHolds == SessionsSpec => []SessionsInv
  BY SessionsInitInv, SessionsStepInv, PTL DEF SessionsSpec

SettledStay ==
  \A s \in With("completed") :
    filed'[s] = filed[s] /\ consumed'[s] = consumed[s] /\ taken'[s] = taken[s]

LEMMA StepSettledStay == SessionsInv /\ [SessionsNext]_sessionVars => [SettledStay]_sessionVars
<1> SUFFICES ASSUME SessionsInv, SessionsNext, NEW z \in Sessions, status[z] = "completed"
             PROVE  filed'[z] = filed[z] /\ consumed'[z] = consumed[z] /\ taken'[z] = taken[z]
  BY DEF SettledStay, With
<1>1. ~meter[z].on /\ DOMAIN filed = Sessions /\ DOMAIN consumed = Sessions /\ DOMAIN taken = Sessions
  BY DEF SessionsInv, MeterSound, MeteringTypes
<1>2. ASSUME NEW s \in Sessions, End(s) \/ CollectMetric(s) \/ GenerateReport(s)
      PROVE  filed'[z] = filed[z] /\ consumed'[z] = consumed[z] /\ taken'[z] = taken[z]
  <2>1. s # z
    BY <1>1, <1>2 DEF End, CollectMetric, GenerateReport
  <2>. QED  BY <1>1, <1>2, <2>1 DEF End, CollectMetric, GenerateReport
<1>3. ASSUME NEW s \in Sessions, Propose(s) \/ Accept(s) \/ Dispute(s) \/ Start(s)
      PROVE  filed'[z] = filed[z] /\ consumed'[z] = consumed[z] /\ taken'[z] = taken[z]
  BY <1>3 DEF Propose, Accept, Dispute, Start
<1>. QED  BY <1>2, <1>3 DEF SessionsNext, ClockTicks, Restart

(* Every report of a rented session is accounted for: it is in the          *)
(* settlement, none comes after it, none overlaps another, and without a    *)
(* restart none leaves out a sample.                                        *)
THEOREM SessionsReported == SessionsSpec => ReportsAccounted
<1>1. SessionsInv => SettledOnAllReports /\ ReportsCover
  BY DEF SessionsInv, SettledSound, SettledOnAllReports, ReportsCover, With
<1>2. SessionsSpec => [][SettledStay]_sessionVars
  BY SessionsInvHolds, StepSettledStay, PTL DEF SessionsSpec
<1>3. [][SettledStay]_sessionVars => NothingAfterSettlement
  BY PTL DEF NothingAfterSettlement, SettledStay
<1>. QED  BY <1>1, <1>2, <1>3, SessionsInvHolds, PTL DEF ReportsAccounted

-----------------------------------------------------------------------------
(* The files of an agreement.  Storing k files goes through k + 1 stages.   *)
Staged(f, s, files, names, k) ==
  f = [i \in 0..k |-> IF i = 0 THEN s ELSE Stored(f[i - 1], names[i], files[names[i]])]

LEMMA StagesExist ==
  ASSUME NEW s, NEW files, NEW names, NEW k \in Nat
  PROVE  \E f : Staged(f, s, files, names, k)
<1> DEFINE G == {j \in 0..k : \E f : Staged(f, s, files, names, j)}
<1>1. 0 \in G
  <2>1. Staged([i \in 0..0 |-> s], s, files, names, 0)
    BY DEF Staged
  <2>. QED  BY <2>1
<1>2. ASSUME NEW j \in 1..k, j - 1 \in G PROVE j \in G
  <2>1. PICK f : Staged(f, s, files, names, j - 1)
    BY <1>2
  <2> DEFINE g == [i \in 0..j |-> IF i = j THEN Stored(f[j - 1], names[j], files[names[j]])
                                            ELSE f[i]]
  <2>2. DOMAIN g = 0..j /\ g[j] = Stored(f[j - 1], names[j], files[names[j]])
        /\ \A i \in 0..(j - 1) : g[i] = f[i]
    OBVIOUS
  <2>3. /\ f[0] = s
        /\ \A i \in 1..(j - 1) : f[i] = Stored(f[i - 1], names[i], files[names[i]])
    <3>1. f = [i \in 0..(j - 1) |-> IF i = 0 THEN s ELSE Stored(f[i - 1], names[i], files[names[i]])]
      BY <2>1 DEF Staged
    <3>2. 0 \in 0..(j - 1) /\ \A i \in 1..(j - 1) : i \in 0..(j - 1) /\ i # 0
      OBVIOUS
    <3>. QED  BY <3>1, <3>2, Zenon
  <2>4. g[0] = s
    BY <2>2, <2>3
  <2>5. ASSUME NEW i \in 1..j PROVE g[i] = Stored(g[i - 1], names[i], files[names[i]])
    BY <2>2, <2>3
  <2>6. g = [i \in 0..j |-> g[i]]
    OBVIOUS
  <2>. HIDE DEF g
  <2>7. \A i \in 0..j : g[i] = IF i = 0 THEN s ELSE Stored(g[i - 1], names[i], files[names[i]])
    <3>1. \A i \in 0..j : i = 0 \/ i \in 1..j
      OBVIOUS
    <3>2. \A i \in 1..j : i # 0
      OBVIOUS
    <3>. QED  BY <2>4, <2>5, <3>1, <3>2
  <2>8. [i \in 0..j |-> g[i]] =
        [i \in 0..j |-> IF i = 0 THEN s ELSE Stored(g[i - 1], names[i], files[names[i]])]
    BY <2>7
  <2>9. Staged(g, s, files, names, j)
    BY <2>6, <2>8 DEF Staged
  <2>. QED  BY <2>9
<1>. HIDE DEF G
<1>3. 0..k \subseteq G
  BY <1>1, <1>2, UpTo
<1>. QED  BY <1>3 DEF G

LEMMA StagesOfStoreAll ==
  ASSUME NEW s, NEW files, NEW names, NEW k \in Nat
  PROVE  \E f : /\ f[0] = s /\ f[k] = StoreAll(s, files, names, k)
                /\ \A i \in 1..k : f[i] = Stored(f[i - 1], names[i], files[names[i]])
<1> DEFINE F == CHOOSE f : Staged(f, s, files, names, k)
<1>1. Staged(F, s, files, names, k)
  BY StagesExist
<1>2. StoreAll(s, files, names, k) = F[k]
  BY DEF StoreAll, Staged
<1>. HIDE DEF F
<1> DEFINE Then(i) == Stored(F[i - 1], names[i], files[names[i]])
<1>3. \A i \in 0..k : F[i] = IF i = 0 THEN s ELSE Then(i)
  BY <1>1 DEF Staged
<1>. HIDE DEF Then
<1>4. F[0] = s
  BY <1>3
<1>5. \A i \in 1..k : F[i] = Then(i)
  BY <1>3
<1>6. /\ F[0] = s /\ F[k] = StoreAll(s, files, names, k)
      /\ \A i \in 1..k : F[i] = Stored(F[i - 1], names[i], files[names[i]])
  BY <1>2, <1>4, <1>5 DEF Then
<1>. QED  BY <1>6

StoreType == [disk : Files, listed : BOOLEAN, manifest : Files]

(* A manifest lists what is on disk, what was committed stays, and a manifest *)
(* that is missing counts as empty; while no crash came between two writes,  *)
(* everything is listed and fits.                                           *)
StoreSound(s, cm, clean) ==
  /\ s \in StoreType
  /\ \A n \in Present(s.manifest) : s.manifest[n] = s.disk[n]
  /\ \A n \in Present(cm) : s.disk[n] = cm[n] /\ (s.listed => s.manifest[n] = cm[n])
  /\ ~s.listed => s.manifest = Empty
  /\ clean => s.manifest = s.disk /\ TotalSize(s.disk) <= MaxJobSize

(* The client keeps files that its manifest lists; it is done when it has    *)
(* them all and their root is the one it was told.                           *)
ClientSound ==
  /\ \A n \in Present(client.got) : client.got[n] = client.manifest[n]
  /\ client.at = "idle" => client.got = Empty
  /\ client.at = "ok" => /\ Present(client.got) = Present(client.manifest)
                         /\ RootOf(client.manifest) = client.root

FilesInv == DeliveryTypeOK /\ StoreSound(store, committed, storeCrashes = 0) /\ ClientSound

SizeIn(files) == [n \in Names |-> IF files[n] = Absent THEN 0 ELSE SizeOf[files[n]]]

LEMMA SizeTypes ==
  ASSUME NEW files \in Files
  PROVE  /\ SizeIn(files) \in [Names -> Nat] /\ IsFiniteSet(Names)
         /\ TotalSize(files) = SumFunctionOnSet(SizeIn(files), Names) /\ TotalSize(files) \in Nat
<1>1. SizeIn(files) \in [Names -> Nat] /\ IsFiniteSet(Names)
  BY DeliveryAssumption DEF SizeIn, Files
<1>2. TotalSize(files) = SumFunction(SizeIn(files)) /\ DOMAIN SizeIn(files) = Names
  BY DEF TotalSize, SizeIn
<1>. PICK f \in [Names -> Nat] : f = SizeIn(files)
  BY <1>1
<1>3. SumFunctionOnSet(f, Names) \in Nat
  BY <1>1, SumNat
<1>4. SumFunction(f) = SumFunctionOnSet(f, Names)
  BY DEF SumFunction
<1>. QED  BY <1>1, <1>2, <1>3, <1>4

LEMMA SizeOfEmpty == Empty \in Files /\ TotalSize(Empty) = 0 /\ Present(Empty) = {}
<1>1. Empty \in Files /\ Present(Empty) = {}
  BY DEF Empty, Files, Present
<1>2. \A n \in Names : SizeIn(Empty)[n] = 0
  BY DEF SizeIn, Empty
<1>3. SumFunctionOnSet(SizeIn(Empty), Names) = 0
  BY <1>1, <1>2, SizeTypes, SumZero
<1>. QED  BY <1>1, <1>3, SizeTypes

(* A file more adds its size. *)
LEMMA SizeGrows ==
  ASSUME NEW files \in Files, NEW n \in Names, files[n] = Absent, NEW c \in Contents
  PROVE  /\ [files EXCEPT ![n] = c] \in Files
         /\ TotalSize([files EXCEPT ![n] = c]) = TotalSize(files) + SizeOf[c]
<1> DEFINE more == [files EXCEPT ![n] = c]
<1>1. more \in Files /\ more[n] = c /\ \A m \in Names \ {n} : more[m] = files[m]
  BY DEF Files
<1>2. SizeOf[c] \in Nat /\ c # Absent
  BY DeliveryAssumption
<1>. HIDE DEF more
<1>. PICK d \in Nat : d = SizeOf[c]
  BY <1>2
<1>. PICK f \in [Names -> Nat] : f = SizeIn(files)
  BY SizeTypes
<1>. PICK g \in [Names -> Nat] : g = SizeIn(more)
  BY <1>1, SizeTypes
<1>3. g[n] = f[n] + d /\ \A m \in Names \ {n} : g[m] = f[m]
  BY <1>1, <1>2 DEF SizeIn
<1>4. SumFunctionOnSet(g, Names) = SumFunctionOnSet(f, Names) + d
  BY <1>3, SizeTypes, SumRaise
<1>5. TotalSize(more) = TotalSize(files) + d
  BY <1>1, <1>4, SizeTypes
<1>. QED  BY <1>1, <1>5 DEF more

LEMMA RecomputedSound ==
  ASSUME NEW s, NEW cm, NEW clean \in BOOLEAN, StoreSound(s, cm, clean)
  PROVE  StoreSound(Recomputed(s), cm, clean)
<1> DEFINE t == Recomputed(s)
<1>1. t \in StoreType /\ t.disk = s.disk /\ t.manifest = s.disk /\ t.listed
  BY DEF StoreSound, StoreType, Recomputed
<1>. HIDE DEF t
<1>2. StoreSound(t, cm, clean)
  BY <1>1 DEF StoreSound
<1>. QED  BY <1>2 DEF t

Writable == Contents \cup {CutShort}

WithFile(s, n, c) == [s EXCEPT !.disk[n] = c]

(* A new file on disk, listed or not.                                        *)
LEMMA WrittenSound ==
  ASSUME NEW s, NEW cm \in Files, NEW clean \in BOOLEAN, StoreSound(s, cm, clean),
         NEW n \in Names, NEW c \in Writable, s.disk[n] = Absent,
         NEW t, t = WithFile(s, n, c)
  PROVE  t \in StoreType /\ StoreSound(t, cm, FALSE)
<1>1. s \in StoreType /\ s.disk \in Files /\ s.manifest \in Files
  BY DEF StoreSound, StoreType
<1>2. t.disk = [s.disk EXCEPT ![n] = c] /\ t.manifest = s.manifest /\ t.listed = s.listed
  BY <1>1 DEF StoreType, WithFile
<1>3. [s.disk EXCEPT ![n] = c] \in Files
  BY <1>1 DEF Files, Writable
<1>4. t \in StoreType
  BY <1>1, <1>3 DEF StoreType, WithFile
<1>5. \A m \in Names : s.disk[m] # Absent => m # n /\ t.disk[m] = s.disk[m]
  BY <1>1, <1>2 DEF Files
<1>6. \A m \in Names : s.manifest[m] # Absent => s.disk[m] # Absent
  BY DEF StoreSound, Present
<1>7. StoreSound(t, cm, FALSE)
  BY <1>2, <1>4, <1>5 DEF StoreSound, Present
<1>. QED  BY <1>4, <1>7

(* storeFile, whether it stores the file or refuses it.                      *)
LEMMA StoredSound ==
  ASSUME NEW s, NEW cm \in Files, NEW clean \in BOOLEAN, StoreSound(s, cm, clean),
         NEW n \in Names, NEW c \in Contents
  PROVE  StoreSound(Stored(s, n, c), cm, clean)
<1>1. CASE Fits(s, n, c)
  <2> DEFINE t == [s EXCEPT !.disk[n] = c]
             u == Recomputed(t)
  <2>1. s.disk \in Files /\ s.manifest \in Files /\ s.disk[n] = Absent /\ s \in StoreType
    BY <1>1 DEF StoreSound, StoreType, Fits
  <2>2. /\ t \in StoreType /\ t.disk = [s.disk EXCEPT ![n] = c] /\ StoreSound(t, cm, FALSE)
    <3>1. c \in Writable /\ t = WithFile(s, n, c)
      BY DEF Writable, WithFile
    <3>2. t.disk = [s.disk EXCEPT ![n] = c]
      BY <2>1 DEF StoreType
    <3>. HIDE DEF t
    <3>3. t \in StoreType /\ StoreSound(t, cm, FALSE)
      BY <2>1, <3>1, WrittenSound
    <3>. QED  BY <3>2, <3>3
  <2>. HIDE DEF t
  <2>3. StoreSound(u, cm, FALSE)
    BY <2>2, RecomputedSound
  <2>4. u.manifest = t.disk /\ u.disk = t.disk
    BY <2>2 DEF Recomputed, StoreType
  <2>5. ASSUME clean PROVE TotalSize(t.disk) <= MaxJobSize
    <3>1. s.manifest = s.disk
      BY <2>5 DEF StoreSound
    <3>2. TotalSize(t.disk) = TotalSize(s.disk) + SizeOf[c]
      BY <2>1, <2>2, SizeGrows
    <3>3. (IF s.listed THEN TotalSize(s.manifest) ELSE 0) + SizeOf[c] <= MaxJobSize
      BY <1>1 DEF Fits
    <3>4. ~s.listed => TotalSize(s.disk) = 0
      BY <3>1, SizeOfEmpty DEF StoreSound
    <3>. QED  BY <3>1, <3>2, <3>3, <3>4
  <2>6. Stored(s, n, c) = u
    BY <1>1 DEF Stored, t
  <2>. HIDE DEF u
  <2>7. StoreSound(u, cm, clean)
    BY <2>3, <2>4, <2>5 DEF StoreSound
  <2>. QED  BY <2>6, <2>7
<1>2. CASE ~Fits(s, n, c)
  <2>1. Stored(s, n, c) \in {s, Recomputed(s)}
    BY <1>2 DEF Stored
  <2>. QED  BY <2>1, RecomputedSound
<1>. QED  BY <1>1, <1>2

(* The same while it crashes. *)
LEMMA CrashSound ==
  ASSUME NEW s, NEW cm \in Files, NEW clean \in BOOLEAN, StoreSound(s, cm, clean),
         NEW n \in Names, NEW c \in Contents, NEW t \in CrashLeaves(s, n, c)
  PROVE  StoreSound(t, cm, FALSE)
<1>1. CASE Fits(s, n, c)
  <2> DEFINE w == [s EXCEPT !.disk[n] = c]
  <2>1. s.disk[n] = Absent
    BY <1>1 DEF Fits
  <2>2. w \in StoreType /\ StoreSound(w, cm, FALSE)
    <3>1. c \in Writable /\ w = WithFile(s, n, c)
      BY DEF Writable, WithFile
    <3>. HIDE DEF w
    <3>. QED  BY <2>1, <3>1, WrittenSound
  <2>3. StoreSound([s EXCEPT !.disk[n] = CutShort], cm, FALSE)
    <3>. PICK v : v = WithFile(s, n, CutShort)
      OBVIOUS
    <3>1. CutShort \in Writable
      BY DEF Writable
    <3>2. StoreSound(v, cm, FALSE)
      BY <2>1, <3>1, WrittenSound
    <3>. QED  BY <3>2 DEF WithFile
  <2>4. t \in {[s EXCEPT !.disk[n] = CutShort], w, [w EXCEPT !.listed = FALSE, !.manifest = Empty]}
    BY <1>1 DEF CrashLeaves
  <2>. HIDE DEF w
  <2>5. StoreSound([w EXCEPT !.listed = FALSE, !.manifest = Empty], cm, FALSE)
    <3>. DEFINE v == [w EXCEPT !.listed = FALSE, !.manifest = Empty]
    <3>1. v \in StoreType /\ v.disk = w.disk /\ ~v.listed /\ v.manifest = Empty
      BY <2>2, SizeOfEmpty DEF StoreType
    <3>. HIDE DEF v
    <3>2. StoreSound(v, cm, FALSE)
      BY <2>2, <3>1, SizeOfEmpty DEF StoreSound
    <3>. QED  BY <3>2 DEF v
  <2>. QED  BY <2>2, <2>3, <2>4, <2>5
<1>2. CASE ~Fits(s, n, c)
  <2>1. t = s
    BY <1>2 DEF CrashLeaves
  <2>. QED  BY <2>1 DEF StoreSound
<1>. QED  BY <1>1, <1>2

(* storeDirectory, up to any of its files. *)
LEMMA StoreAllSound ==
  ASSUME NEW s, NEW cm \in Files, NEW clean \in BOOLEAN, StoreSound(s, cm, clean),
         NEW files, NEW names, NEW k \in Nat,
         \A i \in 1..k : names[i] \in Names /\ files[names[i]] \in Contents
  PROVE  StoreSound(StoreAll(s, files, names, k), cm, clean)
<1>1. PICK f : /\ f[0] = s /\ f[k] = StoreAll(s, files, names, k)
               /\ \A i \in 1..k : f[i] = Stored(f[i - 1], names[i], files[names[i]])
  BY StagesOfStoreAll
<1> DEFINE G == {i \in 0..k : StoreSound(f[i], cm, clean)}
<1>2. 0 \in G
  BY <1>1
<1>3. ASSUME NEW i \in 1..k, i - 1 \in G PROVE i \in G
  <2>1. StoreSound(f[i - 1], cm, clean)
    BY <1>3
  <2>2. StoreSound(Stored(f[i - 1], names[i], files[names[i]]), cm, clean)
    BY <2>1, StoredSound
  <2>. QED  BY <1>1, <2>2
<1>. HIDE DEF G
<1>4. k \in G
  BY <1>2, <1>3, UpTo
<1>. QED  BY <1>1, <1>4 DEF G

(* The names of a job's output, in any order. *)
LEMMA OutputNames ==
  ASSUME NEW files \in Outputs, NEW names \in SetToSeqs(Present(files))
  PROVE  /\ Len(names) \in Nat
         /\ \A i \in 1..Len(names) : names[i] \in Names /\ files[names[i]] \in Contents
<1>1. Present(files) \subseteq Names /\ \A n \in Present(files) : files[n] \in Contents
  BY DEF Outputs, Present
<1>2. IsFiniteSet(Present(files))
  BY <1>1, DeliveryAssumption, FS_Subset
<1>3. PICK m \in Nat : m = Cardinality(Present(files))
  BY <1>2, FS_CardinalityType
<1>4. names \in [1..m -> Present(files)]
  BY <1>3 DEF SetToSeqs
<1>5. names \in Seq(Present(files)) /\ Len(names) = m
  BY <1>4
<1>. QED  BY <1>1, <1>4, <1>5

-----------------------------------------------------------------------------
LEMMA FilesInitInv == DeliveryInit => FilesInv
<1> SUFFICES ASSUME DeliveryInit PROVE FilesInv
  OBVIOUS
<1>1. NoFiles \in StoreType /\ NoFiles.disk = Empty /\ NoFiles.manifest = Empty /\ ~NoFiles.listed
  BY SizeOfEmpty DEF NoFiles, StoreType
<1>2. StoreSound(NoFiles, Empty, TRUE)
  BY <1>1, SizeOfEmpty, DeliveryAssumption DEF StoreSound
<1>3. ClientSound
  BY SizeOfEmpty DEF DeliveryInit, ClientSound, NoClient
<1>4. RootOf(Empty) \in {RootOf(files) : files \in Files}
  BY SizeOfEmpty
<1>5. NoClient \in Client
  BY <1>4, SizeOfEmpty DEF NoClient, Client
<1>6. DeliveryTypeOK
  BY <1>1, <1>5, SizeOfEmpty, DeliveryAssumption DEF DeliveryInit, DeliveryTypeOK, StoreType
<1>. QED  BY <1>2, <1>3, <1>6 DEF FilesInv, DeliveryInit

(* A step that changes the store only. *)
LEMMA StoreStep ==
  ASSUME FilesInv, UNCHANGED <<gated, committed, client>>, storeCrashes' \in 0..MaxStoreCrashes,
         StoreSound(store', committed, storeCrashes' = 0)
  PROVE  FilesInv'
<1>1. store' \in [disk : Files, listed : BOOLEAN, manifest : Files]
  BY DEF StoreSound, StoreType
<1>2. DeliveryTypeOK'
  BY <1>1 DEF FilesInv, DeliveryTypeOK
<1>3. ClientSound'
  BY DEF FilesInv, ClientSound
<1>. QED  BY <1>2, <1>3 DEF FilesInv

(* A step that changes the client only. *)
LEMMA ClientStep ==
  ASSUME FilesInv, UNCHANGED <<gated, store, committed, storeCrashes>>, ClientSound',
         client' \in Client
  PROVE  FilesInv'
  BY DEF FilesInv, DeliveryTypeOK

LEMMA UploadInv ==
  ASSUME FilesInv, NEW n \in Names, NEW c \in Contents, Upload(n, c)
  PROVE  FilesInv'
<1>1. StoreSound(store, committed, storeCrashes = 0) /\ committed \in Files
      /\ storeCrashes \in 0..MaxStoreCrashes
  BY DEF FilesInv, DeliveryTypeOK
<1>. PICK clean \in BOOLEAN : clean = (storeCrashes = 0)
  OBVIOUS
<1>2. StoreSound(Stored(store, n, c), committed, clean)
  BY <1>1, StoredSound
<1>3. StoreSound(store', committed, storeCrashes' = 0)
  BY <1>2 DEF Upload
<1>. QED  BY <1>1, <1>3, StoreStep DEF Upload

LEMMA StoreCrashesInv ==
  ASSUME FilesInv, NEW files \in Outputs, NEW names \in SetToSeqs(Present(files)),
         NEW k \in 1..Len(names), StoreCrashes(files, names, k)
  PROVE  FilesInv'
<1>1. StoreSound(store, committed, storeCrashes = 0) /\ committed \in Files
      /\ storeCrashes \in 0..MaxStoreCrashes /\ MaxStoreCrashes \in Nat
  BY DeliveryAssumption DEF FilesInv, DeliveryTypeOK
<1>. PICK clean \in BOOLEAN : clean = (storeCrashes = 0)
  OBVIOUS
<1>2. /\ k - 1 \in Nat /\ names[k] \in Names /\ files[names[k]] \in Contents
      /\ \A i \in 1..(k - 1) : names[i] \in Names /\ files[names[i]] \in Contents
  BY OutputNames
<1>. PICK s : s = StoreAll(store, files, names, k - 1)
  OBVIOUS
<1>3. StoreSound(s, committed, clean)
  BY <1>1, <1>2, StoreAllSound
<1>4. /\ store' \in CrashLeaves(s, names[k], files[names[k]])
      /\ storeCrashes' = storeCrashes + 1 /\ storeCrashes < MaxStoreCrashes
      /\ UNCHANGED <<gated, committed, client>>
  BY DEF StoreCrashes
<1>5. StoreSound(store', committed, FALSE)
  BY <1>1, <1>2, <1>3, <1>4, CrashSound
<1>6. storeCrashes' # 0 /\ storeCrashes' \in 0..MaxStoreCrashes
  BY <1>1, <1>4
<1>7. StoreSound(store', committed, storeCrashes' = 0)
  BY <1>5, <1>6 DEF StoreSound
<1>. QED  BY <1>4, <1>6, <1>7, StoreStep

LEMMA CollectDeliverablesInv ==
  ASSUME FilesInv, NEW files \in Outputs, NEW names \in SetToSeqs(Present(files)),
         CollectDeliverables(files, names)
  PROVE  FilesInv'
<1>1. StoreSound(store, committed, storeCrashes = 0) /\ committed \in Files /\ committed = Empty
  BY DEF FilesInv, DeliveryTypeOK, CollectDeliverables
<1>. PICK clean \in BOOLEAN : clean = (storeCrashes = 0)
  OBVIOUS
<1>. PICK s : s = StoreAll(store, files, names, Len(names))
  OBVIOUS
<1>2. StoreSound(s, Empty, clean)
  BY <1>1, OutputNames, StoreAllSound
<1>3. StoreSound(Recomputed(s), Empty, clean)
  BY <1>2, RecomputedSound
<1>4. store' = Recomputed(s) /\ committed' = store'.manifest
      /\ UNCHANGED <<gated, storeCrashes, client>>
  BY DEF CollectDeliverables
<1>5. /\ store' \in StoreType /\ store'.manifest = store'.disk /\ store'.listed
  BY <1>2, <1>4 DEF StoreSound, StoreType, Recomputed
<1>. PICK t : t = store'
  OBVIOUS
<1>6. StoreSound(t, t.manifest, clean)
  BY <1>3, <1>4, <1>5 DEF StoreSound
<1>7. StoreSound(store, committed, storeCrashes = 0)'
  BY <1>4, <1>6
<1>8. ClientSound'
  BY <1>1, <1>4 DEF FilesInv, ClientSound
<1>9. DeliveryTypeOK'
  BY <1>4, <1>5 DEF FilesInv, DeliveryTypeOK, StoreType
<1>. QED  BY <1>7, <1>8, <1>9 DEF FilesInv

LEMMA FetchManifestInv ==
  ASSUME FilesInv, NEW root \in Announced, NEW other \in BOOLEAN, FetchManifest(root, other)
  PROVE  FilesInv'
<1>1. client \in Client /\ client.at = "idle"
  BY DEF FilesInv, DeliveryTypeOK, FetchManifest
<1>2. PICK files \in Files : client' = IF ~other /\ (gated \/ ~store.listed)
                                      THEN [client EXCEPT !.at = "failed"]
                                      ELSE [client EXCEPT !.at = "fetching", !.root = root,
                                                          !.other = other, !.manifest = files]
  <2>1. OtherFiles \subseteq Files /\ store.manifest \in Files
    BY DeliveryAssumption DEF FilesInv, DeliveryTypeOK, Files
  <2>. QED  BY <2>1 DEF FetchManifest
<1>3. root \in {RootOf(f) : f \in Files}
  BY DeliveryAssumption DEF Announced, FilesInv, DeliveryTypeOK, Files
<1>4. client' \in Client /\ client'.got = client.got
      /\ client'.at \in {"failed", "fetching"}
  BY <1>1, <1>2, <1>3 DEF Client
<1>5. \A n \in Present(client'.got) : client'.got[n] = client'.manifest[n]
  BY <1>1, <1>4, SizeOfEmpty DEF FilesInv, ClientSound
<1>6. ClientSound'
  BY <1>4, <1>5 DEF ClientSound
<1>. QED  BY <1>4, <1>6, ClientStep DEF FetchManifest

LEMMA FetchFileInv ==
  ASSUME FilesInv, NEW n \in Names, FetchFile(n)
  PROVE  FilesInv'
<1>1. client \in Client /\ client.at = "fetching"
  BY DEF FilesInv, DeliveryTypeOK, FetchFile
<1>2. CASE client' = [client EXCEPT !.at = "failed"]
  <2>1. client' \in Client /\ client'.at = "failed" /\ client'.got = client.got
        /\ client'.manifest = client.manifest
    BY <1>1, <1>2 DEF Client
  <2>2. ClientSound'
    BY <2>1 DEF FilesInv, ClientSound
  <2>. QED  BY <2>1, <2>2, ClientStep DEF FetchFile
<1>3. CASE client' = [client EXCEPT !.got[n] = client.manifest[n]]
  <2> DEFINE got == [client.got EXCEPT ![n] = client.manifest[n]]
  <2>1. got \in Files /\ got[n] = client.manifest[n] /\ \A m \in Names \ {n} : got[m] = client.got[m]
    BY <1>1 DEF Client, Files
  <2>2. client'.got = got /\ client'.at = client.at /\ client'.manifest = client.manifest
    BY <1>1, <1>3 DEF Client
  <2>. HIDE DEF got
  <2>3. client' \in Client
    BY <1>1, <1>3, <2>1 DEF Client, got
  <2>4. \A m \in Present(got) : got[m] = client.manifest[m]
    BY <2>1 DEF FilesInv, ClientSound, Present
  <2>5. ClientSound'
    BY <1>1, <2>2, <2>4 DEF ClientSound
  <2>. QED  BY <2>3, <2>5, ClientStep DEF FetchFile
<1>. QED  BY <1>2, <1>3 DEF FetchFile

LEMMA VerifyInv ==
  ASSUME FilesInv, Verify
  PROVE  FilesInv'
<1>1. client \in Client
      /\ Present(client.got) = Present(client.manifest)
  BY DEF FilesInv, DeliveryTypeOK, Verify
<1>2. /\ client' \in Client /\ client'.got = client.got /\ client'.manifest = client.manifest
      /\ client'.at \in {"ok", "failed"}
      /\ client'.at = "ok" => RootOf(client'.manifest) = client'.root
  BY <1>1 DEF Verify, Client
<1>3. ClientSound'
  BY <1>1, <1>2 DEF FilesInv, ClientSound
<1>. QED  BY <1>2, <1>3, ClientStep DEF Verify, Client

LEMMA ConnectionLostInv ==
  ASSUME FilesInv, ConnectionLost
  PROVE  FilesInv'
<1>1. client \in Client
  BY DEF FilesInv, DeliveryTypeOK
<1>2. /\ client' \in Client /\ client'.got = client.got /\ client'.manifest = client.manifest
      /\ client'.at = "failed"
  BY <1>1 DEF ConnectionLost, Client
<1>3. ClientSound'
  BY <1>2 DEF FilesInv, ClientSound
<1>. QED  BY <1>2, <1>3, ClientStep DEF ConnectionLost, Client

LEMMA FilesInvHonest == FilesInv => DeliveryHonest
<1> SUFFICES ASSUME FilesInv PROVE DeliveryHonest
  OBVIOUS
<1>1. DeliveryAccounted
  BY DEF FilesInv, StoreSound, DeliveryAccounted
<1>2. ASSUME client.at = "ok" PROVE RootOf(client.got) = client.root
  <2>1. client.got \in Files /\ client.manifest \in Files
    BY DEF FilesInv, DeliveryTypeOK, Client
  <2>2. \A n \in Names : client.got[n] = client.manifest[n]
    BY <1>2 DEF FilesInv, ClientSound, Present
  <2>3. client.got = client.manifest
    BY <2>1, <2>2 DEF Files
  <2>. QED  BY <1>2, <2>3 DEF FilesInv, ClientSound
<1>. QED  BY <1>1, <1>2 DEF DeliveryHonest, VerifiedIsAnnounced

(* Whatever crashes come between the writes of a file and of its manifest,   *)
(* what a manifest lists is there, what was committed stays, and what a      *)
(* client accepts has the root it was told.                                 *)
THEOREM DeliveriesAreHonest == DeliverySpec => [](DeliveryTypeOK /\ DeliveryHonest)
<1>1. FilesInv /\ [DeliveryNext]_deliveryVars => FilesInv'
  <2> SUFFICES ASSUME FilesInv, [DeliveryNext]_deliveryVars PROVE FilesInv'
    OBVIOUS
  <2>1. ASSUME NEW n \in Names, NEW c \in Contents, Upload(n, c) PROVE FilesInv'
    BY <2>1, UploadInv
  <2>2. ASSUME NEW files \in Outputs, NEW names \in SetToSeqs(Present(files)),
               CollectDeliverables(files, names)
        PROVE  FilesInv'
    BY <2>2, CollectDeliverablesInv
  <2>3. ASSUME NEW files \in Outputs, NEW names \in SetToSeqs(Present(files)),
               NEW k \in 1..Len(names), StoreCrashes(files, names, k)
        PROVE  FilesInv'
    BY <2>3, StoreCrashesInv
  <2>4. ASSUME NEW root \in Announced, NEW other \in BOOLEAN, FetchManifest(root, other)
        PROVE  FilesInv'
    BY <2>4, FetchManifestInv
  <2>5. CASE Verify
    BY <2>5, VerifyInv
  <2>6. CASE ConnectionLost
    BY <2>6, ConnectionLostInv
  <2>7. ASSUME NEW n \in Names, FetchFile(n) PROVE FilesInv'
    BY <2>7, FetchFileInv
  <2>8. CASE UNCHANGED deliveryVars
    BY <2>8 DEF deliveryVars, FilesInv, DeliveryTypeOK, StoreSound, ClientSound, RootOf
  <2>. QED  BY <2>1, <2>2, <2>3, <2>4, <2>5, <2>6, <2>7, <2>8 DEF DeliveryNext
<1>2. FilesInv => DeliveryTypeOK /\ DeliveryHonest
  BY FilesInvHonest DEF FilesInv
<1>. QED  BY FilesInitInv, <1>1, <1>2, PTL DEF DeliverySpec

-----------------------------------------------------------------------------
(* The arena's pool: it can pay whoever may still come, and a round is       *)
(* decided by its quorum and pays equal stakes equally, for every number of  *)
(* agents, watchtowers and rounds and every choice of the fee.               *)
RoundType == [pot : [Sides -> Nat], stakingClosesAt : Nat, resolvesAt : Nat,
              minEntry : Nat, resolved : BOOLEAN, outcome : Statuses, fee : 0..MAX_FEE_BPS]

EntryType == [side : Statuses, amount : Nat]

(* What the agents put on one side of a round.                              *)
Staked(r, s) == [a \in Agents |-> IF entries[r][a].side = s THEN entries[r][a].amount ELSE 0]

(* The pots are what the agents put in, and a round that does not exist has *)
(* no entries.                                                              *)
Booked(r) ==
  /\ \A s \in Sides : rounds[r].pot[s] = SumFunctionOnSet(Staked(r, s), Agents)
  /\ \A a \in Agents :
       entries[r][a] = NoEntry \/ (entries[r][a].side \in Sides /\ r < nextRound)
  /\ rounds[r].resolved => rounds[r].outcome \in Sides /\ r < nextRound

(* Who has left a round had entered it, and left one that is not resolved   *)
(* by a refund.                                                             *)
LeftHonestly(r) ==
  /\ claimed[r] \subseteq Entered(r) /\ refunded[r] \subseteq claimed[r]
  /\ ~rounds[r].resolved => claimed[r] = refunded[r]

(* What an agent that claims is paid, by its round and its stake only.       *)
Prize(r, a) ==
  IF NobodyWon(r) THEN entries[r][a].amount ELSE Winnings(rounds[r], entries[r][a].amount)

PaidByStake(r) == \A a \in claimed[r] \ refunded[r] : received[r][a] = Prize(r, a)

Backed(r) == rounds[r].resolved => Votes(r, rounds[r].outcome) >= RESOLUTION_QUORUM

RoundSound(r) == Booked(r) /\ LeftHonestly(r) /\ PaidByStake(r) /\ Backed(r)

RoundDue(r) == SumFunctionOnSet([a \in Agents |-> Due(r, a)], Agents)

AllDue == SumFunctionOnSet([r \in Rounds |-> RoundDue(r)], Rounds)

(* The same as Solvent.                                                     *)
Covered == (\A r \in Rounds : ~LateResolved(r)) => AllDue <= vault

PoolInv == TypeOK /\ (\A r \in Rounds : RoundSound(r)) /\ Covered

-----------------------------------------------------------------------------
(* The types of a round and of an entry.                                    *)
LEMMA RoundFields ==
  ASSUME NEW round \in RoundType
  PROVE  /\ round.pot \in [Sides -> Nat] /\ round.outcome \in Statuses
         /\ round.fee \in Nat /\ round.fee <= MAX_FEE_BPS
         /\ round.resolvesAt \in Nat /\ round.stakingClosesAt \in Nat
         /\ round.minEntry \in Nat
  BY DEF RoundType, MAX_FEE_BPS

LEMMA StateTypes ==
  ASSUME TypeOK, NEW r \in Rounds
  PROVE  /\ rounds \in [Rounds -> RoundType] /\ rounds[r] \in RoundType
         /\ entries \in [Rounds -> [Agents -> EntryType]]
         /\ entries[r] \in [Agents -> EntryType]
         /\ \A a \in Agents : /\ entries[r][a] \in EntryType
                              /\ entries[r][a].amount \in Nat /\ entries[r][a].side \in Statuses
  BY DEF TypeOK, RoundType, EntryType

LEMMA FiniteSets ==
  IsFiniteSet(Agents) /\ IsFiniteSet(Watchtowers) /\ IsFiniteSet(Rounds)
  BY ArenaPoolAssumption, FS_Interval DEF Rounds

LEMMA OtherSide ==
  /\ \A s \in Sides : Other(s) \in Sides /\ Other(s) # s
  /\ Sides \subseteq Statuses /\ "none" \notin Sides /\ "none" \in Statuses
  BY DEF Other, Sides, Statuses

(* What a claim pays is a number, and at most the stake's part of the        *)
(* losers' pot.                                                             *)
LEMMA ClaimBounds ==
  ASSUME NEW round \in RoundType, round.outcome \in Sides, round.pot[round.outcome] > 0,
         NEW stake \in Nat
  PROVE  LET W == round.pot[round.outcome]
             L == round.pot[Other(round.outcome)]
             fee == (L * round.fee) \div BPS_DENOMINATOR
             gain == (stake * (L - fee)) \div W
         IN /\ W \in Nat /\ L \in Nat /\ L * round.fee \in Nat
            /\ fee \in Nat /\ L - fee \in Nat
            /\ Winnings(round, stake) = stake + gain
            /\ gain \in Nat /\ W * gain <= stake * (L - fee)
            /\ FeeShare(round, stake) \in Nat
            /\ (BPS_DENOMINATOR * W) * FeeShare(round, stake) <= stake * (L * round.fee)
<1> DEFINE W == round.pot[round.outcome]
           L == round.pot[Other(round.outcome)]
           f == round.fee
           fee == (L * f) \div BPS_DENOMINATOR
           gain == (stake * (L - fee)) \div W
           share == (L * f * stake) \div (BPS_DENOMINATOR * W)
<1>1. W \in Nat /\ W > 0 /\ L \in Nat /\ f \in Nat /\ f <= 1000
  BY RoundFields, OtherSide DEF MAX_FEE_BPS
<1>2. Winnings(round, stake) = stake + gain /\ FeeShare(round, stake) = share
  BY DEF Winnings, FeeShare
<1>. HIDE DEF W, L, f
<1>3. L * f \in Nat /\ L * f <= L * 1000 /\ L * 1000 <= L * 10000
  BY <1>1, TimesBounds
<1>4. BPS_DENOMINATOR \in Nat /\ BPS_DENOMINATOR > 0 /\ BPS_DENOMINATOR = 10000
  BY DEF BPS_DENOMINATOR
<1>5. fee \in Nat /\ BPS_DENOMINATOR * fee <= L * f
  BY <1>3, <1>4, QuotientBounds
<1>. HIDE DEF fee
<1>6. L - fee \in Nat
  <2>1. 10000 * fee <= 10000 * L
    BY <1>1, <1>3, <1>4, <1>5
  <2>2. fee <= L
    BY <1>1, <1>5, <2>1
  <2>. QED  BY <1>1, <1>5, <2>2
<1>7. gain \in Nat /\ W * gain <= stake * (L - fee)
  <2>1. stake * (L - fee) \in Nat
    BY <1>6, TimesBounds
  <2>. QED  BY <1>1, <2>1, QuotientBounds
<1>8. share \in Nat /\ (BPS_DENOMINATOR * W) * share <= stake * (L * f)
  <2>1. BPS_DENOMINATOR * W \in Nat /\ BPS_DENOMINATOR * W > 0
    BY <1>1, <1>4
  <2>2. (L * f) * stake \in Nat /\ (L * f) * stake = stake * (L * f)
    BY <1>3, TimesBounds
  <2>. QED  BY <2>1, <2>2, QuotientBounds
<1>. HIDE DEF gain, share
<1>. QED  BY <1>1, <1>2, <1>3, <1>5, <1>6, <1>7, <1>8 DEF W, L, f, fee, gain

LEMMA ClaimTypes ==
  ASSUME NEW round \in RoundType, round.outcome \in Sides, round.pot[round.outcome] > 0,
         NEW stake \in Nat
  PROVE  Winnings(round, stake) \in Nat /\ FeeShare(round, stake) \in Nat
<1> DEFINE gain == (stake * (round.pot[Other(round.outcome)]
                               - ((round.pot[Other(round.outcome)] * round.fee) \div BPS_DENOMINATOR)))
                     \div round.pot[round.outcome]
<1>1. Winnings(round, stake) = stake + gain /\ gain \in Nat /\ FeeShare(round, stake) \in Nat
  BY ClaimBounds
<1>. HIDE DEF gain
<1>. QED  BY <1>1

(* All claims of a resolved round together pay no more than its two pots,    *)
(* however the divisions round.                                             *)
LEMMA ClaimsFit ==
  ASSUME NEW round \in RoundType, round.outcome \in Sides, round.pot[round.outcome] > 0,
         NEW stake \in [Agents -> Nat],
         SumFunctionOnSet(stake, Agents) = round.pot[round.outcome],
         NEW pay,
         \A a \in Agents : pay[a] = Winnings(round, stake[a]) + FeeShare(round, stake[a])
  PROVE  SumFunctionOnSet(pay, Agents)
           <= round.pot[round.outcome] + round.pot[Other(round.outcome)]
<1> DEFINE W == round.pot[round.outcome]
           L == round.pot[Other(round.outcome)]
           fee == (L * round.fee) \div BPS_DENOMINATOR
           gain == [a \in Agents |-> (stake[a] * (L - fee)) \div W]
           share == [a \in Agents |-> FeeShare(round, stake[a])]
<1>1. /\ W \in Nat /\ W > 0 /\ L \in Nat /\ L * round.fee \in Nat
      /\ fee \in Nat /\ L - fee \in Nat
  BY ClaimBounds, 0 \in Nat
<1>2. ASSUME NEW a \in Agents
      PROVE  /\ stake[a] \in Nat
             /\ pay[a] = stake[a] + gain[a] + share[a]
             /\ gain[a] \in Nat /\ W * gain[a] <= stake[a] * (L - fee)
             /\ share[a] \in Nat
             /\ (BPS_DENOMINATOR * W) * share[a] <= stake[a] * (L * round.fee)
  <2>1. stake[a] \in Nat
    OBVIOUS
  <2>2. gain[a] = (stake[a] * (L - fee)) \div W /\ share[a] = FeeShare(round, stake[a])
    OBVIOUS
  <2>3. Winnings(round, stake[a]) = stake[a] + gain[a]
    BY <2>1, <2>2, ClaimBounds
  <2>. QED  BY <2>1, <2>2, <2>3, ClaimBounds
<1>3. BPS_DENOMINATOR \in Nat /\ BPS_DENOMINATOR > 0
  BY DEF BPS_DENOMINATOR
<1>4. fee = (L * round.fee) \div BPS_DENOMINATOR /\ W = SumFunctionOnSet(stake, Agents)
  OBVIOUS
<1>5. W = round.pot[round.outcome] /\ L = round.pot[Other(round.outcome)]
  OBVIOUS
<1>. HIDE DEF W, L, fee, gain, share
<1>. PICK lost \in Nat : lost = L * round.fee
  BY <1>1
<1>6. SumFunctionOnSet(gain, Agents) <= L - fee
  <2>1. \A a \in Agents : (1 * W) * gain[a] <= stake[a] * (L - fee)
    BY <1>1, <1>2
  <2>2. 1 * SumFunctionOnSet(gain, Agents) <= L - fee
    BY <1>1, <1>2, <1>4, <2>1, FiniteSets, SharesFit
  <2>3. SumFunctionOnSet(gain, Agents) \in Nat
    BY <1>2, FiniteSets, SumNat
  <2>. QED  BY <2>2, <2>3
<1>7. SumFunctionOnSet(share, Agents) <= fee
  <2>1. \A a \in Agents : (BPS_DENOMINATOR * W) * share[a] <= stake[a] * lost
    BY <1>2
  <2>2. BPS_DENOMINATOR * SumFunctionOnSet(share, Agents) <= lost
    BY <1>1, <1>2, <1>3, <1>4, <2>1, FiniteSets, SharesFit
  <2>3. SumFunctionOnSet(share, Agents) \in Nat
    BY <1>2, FiniteSets, SumNat
  <2>4. fee = lost \div BPS_DENOMINATOR
    BY <1>4
  <2>. QED  BY <1>3, <2>2, <2>3, <2>4, QuotientBounds
<1>8. SumFunctionOnSet(pay, Agents)
        = SumFunctionOnSet(stake, Agents) + SumFunctionOnSet(gain, Agents)
            + SumFunctionOnSet(share, Agents)
  <2> DEFINE both == [a \in Agents |-> stake[a] + gain[a]]
  <2>1. \A a \in Agents : /\ stake[a] \in Int /\ gain[a] \in Int /\ both[a] = stake[a] + gain[a]
                          /\ both[a] \in Int /\ share[a] \in Int /\ pay[a] = both[a] + share[a]
    BY <1>2
  <2>. HIDE DEF both
  <2>2. SumFunctionOnSet(both, Agents)
          = SumFunctionOnSet(stake, Agents) + SumFunctionOnSet(gain, Agents)
    BY <2>1, FiniteSets, SumAdd
  <2>3. SumFunctionOnSet(pay, Agents)
          = SumFunctionOnSet(both, Agents) + SumFunctionOnSet(share, Agents)
    BY <2>1, FiniteSets, SumAdd
  <2>. QED  BY <2>2, <2>3
<1>9. SumFunctionOnSet(gain, Agents) \in Nat /\ SumFunctionOnSet(share, Agents) \in Nat
  BY <1>2, FiniteSets, SumNat
<1>. QED  BY <1>1, <1>4, <1>5, <1>6, <1>7, <1>8, <1>9

-----------------------------------------------------------------------------
(* What is due is a number, and the sums of it are.                         *)
LEMMA DueType ==
  ASSUME TypeOK, NEW r \in Rounds, Booked(r), NEW a \in Agents
  PROVE  Due(r, a) \in Nat
<1>1. rounds[r] \in RoundType /\ entries[r][a].amount \in Nat
  BY StateTypes
<1>2. CASE a \notin Entered(r) \ claimed[r] \/ ~rounds[r].resolved \/ NobodyWon(r)
  BY <1>1, <1>2 DEF Due
<1>3. CASE rounds[r].resolved /\ ~NobodyWon(r)
  <2>1. rounds[r].outcome \in Sides /\ rounds[r].pot[rounds[r].outcome] > 0
    BY <1>1, <1>3, RoundFields DEF Booked, NobodyWon
  <2>2. /\ Winnings(rounds[r], entries[r][a].amount) \in Nat
        /\ FeeShare(rounds[r], entries[r][a].amount) \in Nat
    BY <1>1, <2>1, ClaimTypes
  <2>. QED  BY <1>3, <2>2 DEF Due
<1>. QED  BY <1>2, <1>3

LEMMA RoundDueType ==
  ASSUME TypeOK, NEW r \in Rounds, Booked(r)
  PROVE  RoundDue(r) \in Nat
<1> DEFINE due == [a \in Agents |-> Due(r, a)]
<1>1. \A a \in Agents : due[a] \in Nat
  BY DueType
<1>. HIDE DEF due
<1>2. SumFunctionOnSet(due, Agents) \in Nat
  BY <1>1, FiniteSets, SumNat
<1>. QED  BY <1>2 DEF RoundDue, due

LEMMA SolventIsCovered == Solvent <=> Covered
<1>1. ASSUME NEW r \in Rounds PROVE SumFunction([a \in Agents |-> Due(r, a)]) = RoundDue(r)
  <2> DEFINE due == [a \in Agents |-> Due(r, a)]
  <2>1. DOMAIN due = Agents
    OBVIOUS
  <2>. HIDE DEF due
  <2>2. SumFunction(due) = SumFunctionOnSet(due, Agents)
    BY <2>1 DEF SumFunction
  <2>. QED  BY <2>2 DEF RoundDue, due
<1> DEFINE sums == [r \in Rounds |-> SumFunction([a \in Agents |-> Due(r, a)])]
<1>2. sums = [r \in Rounds |-> RoundDue(r)] /\ DOMAIN sums = Rounds
  BY <1>1
<1>. HIDE DEF sums
<1>3. SumFunction(sums) = AllDue
  BY <1>2 DEF SumFunction, AllDue
<1>. QED  BY <1>3 DEF Solvent, Covered, sums

-----------------------------------------------------------------------------
(* A step that leaves the records of round z alone.                         *)
Untouched(z) ==
  /\ rounds'[z] = rounds[z] /\ entries'[z] = entries[z] /\ attested'[z] = attested[z]
  /\ claimed'[z] = claimed[z] /\ received'[z] = received[z] /\ refunded'[z] = refunded[z]

LEMMA UntouchedSound ==
  ASSUME NEW z \in Rounds, Untouched(z), RoundSound(z),
         nextRound \in Nat, nextRound' \in Nat, nextRound <= nextRound'
  PROVE  /\ RoundSound(z)' /\ RoundDue(z)' = RoundDue(z)
         /\ LateResolved(z)' <=> LateResolved(z)
<1>1. z \in Int
  BY DEF Rounds
<1>2. \A s \in Sides : Staked(z, s)' = Staked(z, s)
  BY DEF Untouched, Staked
<1>3. Booked(z)'
  BY <1>1, <1>2 DEF RoundSound, Booked, Untouched
<1>4. NobodyWon(z)' = NobodyWon(z) /\ Entered(z)' = Entered(z)
  BY DEF NobodyWon, Entered, Untouched
<1>5. LeftHonestly(z)' /\ Backed(z)'
  BY <1>4 DEF RoundSound, LeftHonestly, Backed, Votes, Untouched
<1>6. PaidByStake(z)'
  BY <1>4 DEF RoundSound, PaidByStake, Prize, Untouched
<1>7. \A a \in Agents : Due(z, a)' = Due(z, a)
  BY <1>4 DEF Due, Winner, Untouched
<1>8. RoundDue(z)' = RoundDue(z)
  BY <1>7 DEF RoundDue
<1>9. LateResolved(z)' <=> LateResolved(z)
  BY <1>4 DEF LateResolved, Untouched
<1>. QED  BY <1>3, <1>5, <1>6, <1>8, <1>9 DEF RoundSound

AllSound == TypeOK /\ \A z \in Rounds : RoundSound(z)
DuesAreNumbers == \A z \in Rounds : RoundDue(z) \in Nat

LEMMA SoundDues == AllSound => DuesAreNumbers
  BY RoundDueType DEF AllSound, DuesAreNumbers, RoundSound

(* A step that touches no round, and takes nothing out.                     *)
LEMMA NoRoundTouched ==
  ASSUME PoolInv, TypeOK', nextRound' = nextRound, vault' = vault,
         \A z \in Rounds : Untouched(z)
  PROVE  PoolInv'
<1>1. nextRound \in Nat /\ nextRound <= nextRound'
  BY DEF PoolInv, TypeOK
<1>2. \A z \in Rounds : /\ RoundSound(z)' /\ RoundDue(z)' = RoundDue(z)
                        /\ LateResolved(z)' <=> LateResolved(z)
  BY <1>1, UntouchedSound DEF PoolInv
<1>3. AllDue' = AllDue
  BY <1>2 DEF AllDue
<1>. QED  BY <1>2, <1>3 DEF PoolInv, Covered

(* A step that touches one round, and changes what is due for it by no more *)
(* than what the contract holds.                                            *)
LEMMA OneRoundTouched ==
  ASSUME PoolInv, TypeOK', NEW r \in Rounds, nextRound <= nextRound',
         \A z \in Rounds \ {r} : Untouched(z),
         RoundSound(r)',
         LateResolved(r) => LateResolved(r)',
         ~LateResolved(r)' => RoundDue(r)' - vault' <= RoundDue(r) - vault
  PROVE  PoolInv'
<1>1. nextRound \in Nat /\ nextRound' \in Nat /\ vault \in Nat /\ vault' \in Nat
  BY DEF PoolInv, TypeOK
<1>2. \A z \in Rounds \ {r} : /\ RoundSound(z)' /\ RoundDue(z)' = RoundDue(z)
                              /\ LateResolved(z)' <=> LateResolved(z)
  BY <1>1, UntouchedSound DEF PoolInv
<1>3. \A z \in Rounds : RoundSound(z)'
  BY <1>2
<1>4. \A z \in Rounds : RoundDue(z) \in Nat /\ RoundDue(z)' \in Nat
  <2>1. AllSound /\ AllSound'
    BY <1>3 DEF PoolInv, AllSound
  <2>2. DuesAreNumbers /\ DuesAreNumbers'
    BY <2>1, SoundDues, PTL
  <2>. QED  BY <2>2 DEF DuesAreNumbers
<1>5. AllDue' = AllDue - RoundDue(r) + RoundDue(r)'
  <2> DEFINE f == [z \in Rounds |-> RoundDue(z)]
             g == [z \in Rounds |-> RoundDue(z)']
  <2>1. /\ \A z \in Rounds : f[z] \in Int /\ g[z] \in Int
        /\ \A z \in Rounds \ {r} : g[z] = f[z]
        /\ f[r] = RoundDue(r) /\ g[r] = RoundDue(r)'
    BY <1>2, <1>4
  <2>2. AllDue = SumFunctionOnSet(f, Rounds) /\ AllDue' = SumFunctionOnSet(g, Rounds)
    BY DEF AllDue
  <2>. HIDE DEF f, g
  <2>. QED  BY <2>1, <2>2, FiniteSets, SumChange
<1>6. AllDue \in Int
  <2> DEFINE f == [z \in Rounds |-> RoundDue(z)]
  <2>1. \A z \in Rounds : f[z] \in Int
    BY <1>4
  <2>. HIDE DEF f
  <2>2. SumFunctionOnSet(f, Rounds) \in Int
    BY <2>1, FiniteSets, SumType
  <2>. QED  BY <2>2 DEF AllDue, f
<1>7. Covered'
  <2> SUFFICES ASSUME \A z \in Rounds : ~LateResolved(z)'
               PROVE  AllDue' <= vault'
    BY DEF Covered
  <2>1. AllDue <= vault
    BY <1>2 DEF PoolInv, Covered
  <2>. QED  BY <1>1, <1>4, <1>5, <1>6, <2>1
<1>. QED  BY <1>3, <1>7 DEF PoolInv

-----------------------------------------------------------------------------
LEMMA PoolInitInv == Init => PoolInv
<1> SUFFICES ASSUME Init PROVE PoolInv
  OBVIOUS
<1> USE ArenaPoolAssumption
<1>1. NoRound \in RoundType /\ NoEntry \in EntryType
  BY DEF NoRound, RoundType, NoEntry, EntryType, Statuses, Sides, MAX_FEE_BPS
<1>2. TypeOK
  <2>1. now \in 1..MaxTime /\ feeBps \in 0..MAX_FEE_BPS /\ nextRound \in 0..MaxRounds
    BY DEF Init, MAX_FEE_BPS
  <2>2. rounds \in [Rounds -> RoundType] /\ entries \in [Rounds -> [Agents -> EntryType]]
    BY <1>1 DEF Init
  <2>3. attested \in [Rounds -> [Watchtowers -> Statuses]]
    BY DEF Init, Statuses
  <2>4. /\ claimed \in [Rounds -> SUBSET Agents] /\ received \in [Rounds -> [Agents -> Nat]]
        /\ feesPaid \in [Rounds -> Nat] /\ refunded \in [Rounds -> SUBSET Agents] /\ vault \in Nat
    BY DEF Init
  <2>. QED  BY <2>1, <2>2, <2>3, <2>4 DEF TypeOK, RoundType, EntryType
<1>3. ASSUME NEW r \in Rounds PROVE RoundSound(r) /\ RoundDue(r) = 0
  <2>1. /\ rounds[r] = NoRound /\ claimed[r] = {} /\ refunded[r] = {} /\ ~NoRound.resolved
        /\ \A a \in Agents : entries[r][a] = NoEntry
        /\ \A s \in Sides : NoRound.pot[s] = 0
    BY DEF Init, NoRound
  <2>2. \A s \in Sides : \A a \in Agents : Staked(r, s)[a] = 0
    BY <2>1 DEF Staked, NoEntry, Sides
  <2>3. Booked(r)
    BY <2>1, <2>2, FiniteSets, SumZero DEF Booked
  <2>4. LeftHonestly(r) /\ PaidByStake(r) /\ Backed(r)
    BY <2>1 DEF LeftHonestly, PaidByStake, Backed
  <2>5. \A a \in Agents : Due(r, a) = 0
    BY <2>1 DEF Due, Entered
  <2> DEFINE due == [a \in Agents |-> Due(r, a)]
  <2>6. \A a \in Agents : due[a] = 0
    BY <2>5
  <2>. HIDE DEF due
  <2>7. SumFunctionOnSet(due, Agents) = 0
    BY <2>6, FiniteSets, SumZero
  <2>. QED  BY <2>3, <2>4, <2>7 DEF RoundSound, RoundDue, due
<1>4. AllDue = 0
  <2> DEFINE dues == [r \in Rounds |-> RoundDue(r)]
  <2>1. \A r \in Rounds : dues[r] = 0
    BY <1>3
  <2>. HIDE DEF dues
  <2>2. SumFunctionOnSet(dues, Rounds) = 0
    BY <2>1, FiniteSets, SumZero
  <2>. QED  BY <2>2 DEF AllDue, dues
<1>. QED  BY <1>2, <1>3, <1>4 DEF PoolInv, Covered, Init

(* Time, and the fee of later rounds.                                       *)
LEMMA QuietInv ==
  ASSUME PoolInv, Tick \/ (\E f \in FeeChoices : SetFeeBps(f)) \/ UNCHANGED vars
  PROVE  PoolInv'
<1>1. UNCHANGED <<nextRound, rounds, entries, attested, claimed, received, feesPaid, refunded, vault>>
  BY DEF Tick, SetFeeBps, vars
<1>2. now' \in 1..MaxTime /\ feeBps' \in 0..MAX_FEE_BPS
  <2>1. now \in 1..MaxTime /\ feeBps \in 0..1000 /\ FeeChoices \subseteq Nat /\ MaxTime \in Nat
    BY ArenaPoolAssumption DEF PoolInv, TypeOK, MAX_FEE_BPS
  <2>2. CASE Tick
    BY <2>1, <2>2 DEF Tick, MAX_FEE_BPS
  <2>3. CASE \E f \in FeeChoices : SetFeeBps(f)
    BY <2>1, <2>3 DEF SetFeeBps, MAX_FEE_BPS
  <2>. QED  BY <2>1, <2>2, <2>3 DEF vars, MAX_FEE_BPS
<1>3. TypeOK'
  BY <1>1, <1>2 DEF PoolInv, TypeOK
<1>. QED  BY <1>1, <1>3, NoRoundTouched DEF Untouched

(* A new round is empty.                                                    *)
LEMMA CreateRoundInv ==
  ASSUME PoolInv, NEW d \in Durations, NEW m \in MinEntries, CreateRound(d, m)
  PROVE  PoolInv'
<1> USE ArenaPoolAssumption
<1>1. PICK r \in Rounds : r = nextRound
  BY DEF CreateRound, Rounds, PoolInv, TypeOK
<1> DEFINE new == [NoRound EXCEPT !.resolvesAt = now + d,
                     !.stakingClosesAt = now + d - STAKING_CUTOFF_BEFORE_RESOLVE, !.minEntry = m]
<1>2. new \in RoundType
  <2>1. /\ now + d \in Nat /\ now + d - STAKING_CUTOFF_BEFORE_RESOLVE \in Nat /\ m \in Nat
    BY DEF CreateRound, PoolInv, TypeOK
  <2>2. NoRound \in RoundType
    BY DEF NoRound, RoundType, Statuses, MAX_FEE_BPS
  <2>. QED  BY <2>1, <2>2 DEF RoundType
<1>3. new.pot = [s \in Sides |-> 0] /\ ~new.resolved
  BY DEF NoRound
<1>4. /\ rounds' = [rounds EXCEPT ![r] = new] /\ nextRound' = nextRound + 1
      /\ UNCHANGED <<now, feeBps, entries, attested, claimed, received, feesPaid, refunded, vault>>
  BY <1>1 DEF CreateRound
<1>. HIDE DEF new
<1>5. /\ rounds' \in [Rounds -> RoundType] /\ rounds'[r] = new
      /\ \A z \in Rounds \ {r} : rounds'[z] = rounds[z]
  BY <1>2, <1>4, StateTypes DEF PoolInv
<1>6. nextRound' \in 0..MaxRounds /\ nextRound <= nextRound'
  BY <1>4 DEF CreateRound, PoolInv, TypeOK
<1>7. TypeOK'
  BY <1>4, <1>5, <1>6 DEF PoolInv, TypeOK, RoundType
<1>8. \A z \in Rounds \ {r} : Untouched(z)
  BY <1>4, <1>5 DEF Untouched
<1>9. /\ \A a \in Agents : entries[r][a] = NoEntry
      /\ claimed[r] = {} /\ refunded[r] = {} /\ nextRound \in Nat
  <2>1. RoundSound(r) /\ nextRound \in Nat
    BY DEF PoolInv, TypeOK
  <2>2. \A a \in Agents : entries[r][a] = NoEntry
    BY <1>1, <2>1 DEF RoundSound, Booked
  <2>. QED  BY <2>1, <2>2 DEF RoundSound, LeftHonestly, Entered
<1>10. RoundSound(r)'
  <2>1. \A s \in Sides : \A a \in Agents : Staked(r, s)'[a] = 0
    BY <1>4, <1>9 DEF Staked, NoEntry, Sides
  <2>2. \A s \in Sides : SumFunctionOnSet(Staked(r, s)', Agents) = 0
    BY <2>1, FiniteSets, SumZero
  <2>3. Booked(r)'
    BY <1>3, <1>4, <1>5, <1>9, <2>2 DEF Booked
  <2>4. LeftHonestly(r)' /\ PaidByStake(r)' /\ Backed(r)'
    BY <1>3, <1>4, <1>5, <1>9 DEF LeftHonestly, PaidByStake, Backed
  <2>. QED  BY <2>3, <2>4 DEF RoundSound
<1>11. \A a \in Agents : Due(r, a) = 0 /\ Due(r, a)' = 0
  BY <1>4, <1>9 DEF Due, Entered
<1>12. RoundDue(r)' = RoundDue(r) /\ RoundDue(r) \in Nat
  BY <1>11, RoundDueType DEF RoundDue, PoolInv, RoundSound
<1>13. LateResolved(r) => LateResolved(r)'
  BY <1>9 DEF LateResolved
<1>14. RoundDue(r)' - vault' <= RoundDue(r) - vault
  BY <1>4, <1>12 DEF PoolInv, TypeOK
<1>. QED  BY <1>6, <1>7, <1>8, <1>10, <1>13, <1>14, OneRoundTouched

(* A stake goes to one pot; it is due as soon as it is in the contract.     *)
LEMMA EnterRoundInv ==
  ASSUME PoolInv, NEW r \in Rounds, NEW a \in Agents, NEW s \in Sides, NEW amount \in Amounts,
         EnterRound(r, a, s, amount)
  PROVE  PoolInv'
<1> USE ArenaPoolAssumption
<1> DEFINE entry == [side |-> s, amount |-> amount]
           pot == [rounds[r].pot EXCEPT ![s] = @ + amount]
           new == [rounds[r] EXCEPT !.pot = pot]
<1>1. /\ r < nextRound /\ ~rounds[r].resolved /\ entries[r][a] = NoEntry
      /\ vault' = vault + amount /\ amount \in Nat
      /\ UNCHANGED <<now, feeBps, nextRound, attested, claimed, received, feesPaid, refunded>>
  BY DEF EnterRound, Exists
<1>2. /\ TypeOK /\ RoundSound(r) /\ rounds[r] \in RoundType /\ rounds[r].pot \in [Sides -> Nat]
      /\ entries[r] \in [Agents -> EntryType]
  BY StateTypes, RoundFields DEF PoolInv
<1>3. pot \in [Sides -> Nat] /\ entry \in EntryType /\ entry.side = s /\ entry.amount = amount
  BY <1>1, <1>2, OtherSide DEF EntryType
<1>4. rounds' = [rounds EXCEPT ![r] = new] /\ entries' = [entries EXCEPT ![r] = [@ EXCEPT ![a] = entry]]
  BY DEF EnterRound
<1>5. \A z \in Sides : pot[z] = rounds[r].pot[z] + (IF z = s THEN amount ELSE 0)
  BY <1>1, <1>2
<1>. HIDE DEF pot
<1>6. new \in RoundType
  BY <1>2, <1>3 DEF RoundType
<1>7. new.pot = pot
  BY <1>2 DEF RoundType
<1>8. ~new.resolved
  BY <1>1, <1>2, Zenon DEF RoundType
<1>. HIDE DEF new, entry
<1>9. /\ rounds' \in [Rounds -> RoundType] /\ rounds'[r] = new
      /\ \A z \in Rounds \ {r} : rounds'[z] = rounds[z]
  BY <1>2, <1>4, <1>6, StateTypes
<1>10. /\ entries' \in [Rounds -> [Agents -> EntryType]] /\ entries'[r][a] = entry
       /\ \A z \in Rounds \ {r} : entries'[z] = entries[z]
       /\ \A b \in Agents \ {a} : entries'[r][b] = entries[r][b]
  BY <1>2, <1>3, <1>4, StateTypes
<1>11. TypeOK'
  <2>1. vault' \in Nat
    BY <1>1, <1>2 DEF TypeOK
  <2>. QED  BY <1>1, <1>2, <1>9, <1>10, <2>1 DEF TypeOK, RoundType, EntryType
<1>12. \A z \in Rounds \ {r} : Untouched(z)
  BY <1>1, <1>9, <1>10 DEF Untouched
<1>13. entry # NoEntry /\ entry.side \in Sides
  BY <1>3, OtherSide DEF NoEntry
<1>14. ASSUME NEW z \in Sides
       PROVE  new.pot[z] = SumFunctionOnSet(Staked(r, z)', Agents)
  <2>1. /\ \A b \in Agents : Staked(r, z)[b] \in Int /\ Staked(r, z)'[b] \in Int
        /\ \A b \in Agents \ {a} : Staked(r, z)'[b] = Staked(r, z)[b]
    <3>1. \A b \in Agents : entries[r][b].amount \in Nat /\ entries'[r][b].amount \in Nat
      BY <1>2, <1>10, StateTypes DEF EntryType
    <3>2. /\ Staked(r, z) = [b \in Agents |->
                               IF entries[r][b].side = z THEN entries[r][b].amount ELSE 0]
          /\ Staked(r, z)' = [b \in Agents |->
                               IF entries'[r][b].side = z THEN entries'[r][b].amount ELSE 0]
      BY DEF Staked
    <3>. QED  BY <1>10, <3>1, <3>2
  <2>2. Staked(r, z)[a] = 0 /\ Staked(r, z)'[a] = IF z = s THEN amount ELSE 0
    BY <1>1, <1>3, <1>10, OtherSide DEF Staked, NoEntry
  <2>3. SumFunctionOnSet(Staked(r, z)', Agents)
          = SumFunctionOnSet(Staked(r, z), Agents) - Staked(r, z)[a] + Staked(r, z)'[a]
    BY <2>1, FiniteSets, SumChange
  <2>4. SumFunctionOnSet(Staked(r, z), Agents) = rounds[r].pot[z] /\ rounds[r].pot[z] \in Nat
    BY <1>2 DEF RoundSound, Booked
  <2>. QED  BY <1>1, <1>5, <1>7, <2>2, <2>3, <2>4
<1>15. Booked(r)'
  BY <1>1, <1>2, <1>8, <1>9, <1>10, <1>13, <1>14 DEF RoundSound, Booked
<1>16. Entered(r)' = Entered(r) \cup {a} /\ a \notin Entered(r) /\ a \notin claimed[r]
  <2>1. a \notin Entered(r) /\ claimed[r] \subseteq Entered(r)
    BY <1>1, <1>2 DEF Entered, RoundSound, LeftHonestly
  <2>. QED  BY <1>10, <1>13, <2>1 DEF Entered
<1>17. LeftHonestly(r)' /\ PaidByStake(r)' /\ Backed(r)'
  BY <1>1, <1>2, <1>8, <1>9, <1>16 DEF RoundSound, LeftHonestly, PaidByStake, Backed
<1>18. RoundDue(r)' = RoundDue(r) + amount
  <2> DEFINE f == [b \in Agents |-> Due(r, b)]
             g == [b \in Agents |-> Due(r, b)']
  <2>1. \A b \in Agents : f[b] = IF b \notin Entered(r) \ claimed[r] THEN 0 ELSE entries[r][b].amount
    BY <1>1 DEF Due
  <2>2. \A b \in Agents : g[b] = IF b \notin Entered(r)' \ claimed[r] THEN 0 ELSE entries'[r][b].amount
    BY <1>1, <1>8, <1>9 DEF Due
  <2>3. RoundDue(r) = SumFunctionOnSet(f, Agents) /\ RoundDue(r)' = SumFunctionOnSet(g, Agents)
    BY DEF RoundDue
  <2>. HIDE DEF f, g
  <2>4. \A b \in Agents : entries[r][b].amount \in Nat /\ entries'[r][b].amount \in Nat
    BY <1>2, <1>10, StateTypes DEF EntryType
  <2>5. /\ \A b \in Agents : f[b] \in Int /\ g[b] \in Int
        /\ \A b \in Agents \ {a} : g[b] = f[b]
        /\ f[a] = 0 /\ g[a] = amount
    BY <1>3, <1>10, <1>16, <2>1, <2>2, <2>4, SMTT(30)
  <2>6. SumFunctionOnSet(f, Agents) \in Int
    BY <2>5, FiniteSets, SumType
  <2>7. SumFunctionOnSet(g, Agents) = SumFunctionOnSet(f, Agents) - f[a] + g[a]
    BY <2>5, FiniteSets, SumChange
  <2>. QED  BY <1>1, <2>3, <2>5, <2>6, <2>7
<1>19. RoundDue(r)' - vault' <= RoundDue(r) - vault
  <2>1. RoundDue(r) \in Nat /\ vault \in Nat
    BY <1>2, RoundDueType DEF RoundSound, TypeOK
  <2>. QED  BY <1>1, <1>18, <2>1
<1>20. ~LateResolved(r)
  BY <1>1 DEF LateResolved
<1>21. nextRound <= nextRound'
  BY <1>1, <1>2 DEF TypeOK
<1>. QED  BY <1>11, <1>12, <1>15, <1>17, <1>19, <1>20, <1>21, OneRoundTouched DEF RoundSound

(* When nobody has left and somebody won, the claims of the round that is    *)
(* resolved fit what was due for it as refunds.                             *)
LEMMA ResolutionFits ==
  ASSUME TypeOK, TypeOK', NEW r \in Rounds, Booked(r), Booked(r)',
         ~rounds[r].resolved, rounds'[r].resolved, ~NobodyWon(r)', claimed[r] = {}, claimed'[r] = {},
         entries' = entries, rounds'[r].pot = rounds[r].pot
  PROVE  RoundDue(r)' <= RoundDue(r)
<1> DEFINE round == rounds'[r]
           o == rounds'[r].outcome
           mine == Staked(r, o)
           theirs == Staked(r, Other(o))
           pay == [a \in Agents |-> Winnings(round, mine[a]) + FeeShare(round, mine[a])]
           before == [a \in Agents |-> Due(r, a)]
           after == [a \in Agents |-> Due(r, a)']
<1>1. /\ rounds[r] \in RoundType /\ entries[r] \in [Agents -> EntryType]
      /\ \A a \in Agents : entries[r][a].amount \in Nat
  BY StateTypes
<1>2. round \in RoundType
  BY DEF TypeOK, RoundType
<1>3. o \in Sides /\ Other(o) \in Sides /\ Other(o) # o
  BY OtherSide DEF Booked
<1>4. \A s \in Sides : /\ rounds[r].pot[s] \in Nat /\ round.pot[s] = rounds[r].pot[s]
                       /\ rounds[r].pot[s] = SumFunctionOnSet(Staked(r, s), Agents)
  BY <1>1, RoundFields DEF Booked
<1>5. round.pot[o] > 0
  BY <1>3, <1>4 DEF NobodyWon
<1>6. \A s \in Sides : /\ Staked(r, s) \in [Agents -> Nat]
                       /\ \A a \in Agents : Staked(r, s)[a] =
                            IF entries[r][a].side = s THEN entries[r][a].amount ELSE 0
  BY <1>1 DEF Staked
<1>7. ASSUME NEW a \in Agents
      PROVE  /\ before[a] = entries[r][a].amount
             /\ mine[a] \in Nat /\ theirs[a] \in Nat
             /\ mine[a] + theirs[a] = entries[r][a].amount
  <2>1. before[a] = IF entries[r][a] = NoEntry THEN 0 ELSE entries[r][a].amount
    BY DEF Due, Entered
  <2>2. entries[r][a] = NoEntry => entries[r][a].amount = 0 /\ entries[r][a].side \notin Sides
    BY OtherSide DEF NoEntry
  <2>3. entries[r][a] # NoEntry => entries[r][a].side = o \/ entries[r][a].side = Other(o)
    BY <1>3 DEF Booked, Sides, Other
  <2>. QED  BY <1>1, <1>3, <1>6, <2>1, <2>2, <2>3
<1>8. SumFunctionOnSet(before, Agents) = round.pot[o] + round.pot[Other(o)]
  <2>1. \A a \in Agents : /\ mine[a] \in Int /\ theirs[a] \in Int
                          /\ before[a] = mine[a] + theirs[a]
    BY <1>7
  <2>2. /\ SumFunctionOnSet(mine, Agents) = round.pot[o]
        /\ SumFunctionOnSet(theirs, Agents) = round.pot[Other(o)]
    BY <1>3, <1>4
  <2>. HIDE DEF before, mine, theirs, round, o
  <2>3. SumFunctionOnSet(before, Agents)
          = SumFunctionOnSet(mine, Agents) + SumFunctionOnSet(theirs, Agents)
    BY <2>1, FiniteSets, SumAdd
  <2>. QED  BY <2>2, <2>3
<1>9. SumFunctionOnSet(pay, Agents) <= round.pot[o] + round.pot[Other(o)]
  <2>1. mine \in [Agents -> Nat] /\ SumFunctionOnSet(mine, Agents) = round.pot[o]
    BY <1>3, <1>4, <1>6
  <2>2. \A a \in Agents : pay[a] = Winnings(round, mine[a]) + FeeShare(round, mine[a])
    OBVIOUS
  <2>3. round.outcome = o
    OBVIOUS
  <2>. HIDE DEF pay, mine, round, o
  <2>. QED  BY <1>2, <1>3, <1>5, <2>1, <2>2, <2>3, ClaimsFit
<1>10. ASSUME NEW a \in Agents
       PROVE  after[a] \in Int /\ pay[a] \in Int /\ after[a] <= pay[a]
  <2>1. pay[a] \in Nat /\ pay[a] = Winnings(round, mine[a]) + FeeShare(round, mine[a])
    <3>1. mine[a] \in Nat
      BY <1>7
    <3>2. round.outcome = o /\ pay[a] = Winnings(round, mine[a]) + FeeShare(round, mine[a])
      OBVIOUS
    <3>. HIDE DEF pay, mine, round, o
    <3>3. /\ Winnings(round, mine[a]) \in Nat /\ FeeShare(round, mine[a]) \in Nat
      BY <1>2, <1>3, <1>5, <3>1, <3>2, ClaimTypes
    <3>. QED  BY <3>2, <3>3
  <2>2. after[a] = IF entries[r][a] = NoEntry \/ entries[r][a].side # o THEN 0
                   ELSE Winnings(round, entries[r][a].amount) + FeeShare(round, entries[r][a].amount)
    BY DEF Due, Entered, Winner
  <2>3. entries[r][a].side = o => mine[a] = entries[r][a].amount
    BY <1>3, <1>6
  <2>. HIDE DEF after, pay, mine, round, o
  <2>. QED  BY <2>1, <2>2, <2>3
<1>11. RoundDue(r) = SumFunctionOnSet(before, Agents) /\ RoundDue(r)' = SumFunctionOnSet(after, Agents)
  BY DEF RoundDue
<1>12. \A s \in Sides : round.pot[s] \in Nat
  BY <1>4
<1>13. SumFunctionOnSet(after, Agents) <= SumFunctionOnSet(pay, Agents)
  <2>. HIDE DEF after, pay
  <2>. QED  BY <1>10, FiniteSets, SumMonotone
<1>14. SumFunctionOnSet(after, Agents) \in Int /\ SumFunctionOnSet(pay, Agents) \in Int
  <2>. HIDE DEF after, pay
  <2>. QED  BY <1>10, FiniteSets, SumType
<1>. HIDE DEF before, after, pay, round, o
<1>. QED  BY <1>3, <1>8, <1>9, <1>11, <1>12, <1>13, <1>14

(* A vote: the one that completes the quorum of its side resolves the round. *)
LEMMA SubmitResolutionInv ==
  ASSUME PoolInv, NEW r \in Rounds, NEW w \in Watchtowers, NEW s \in Sides,
         SubmitResolution(r, w, s)
  PROVE  PoolInv'
<1> USE ArenaPoolAssumption
<1> DEFINE verdict == [rounds[r] EXCEPT !.resolved = TRUE, !.outcome = s, !.fee = feeBps]
           decides == Votes(r, s) + 1 >= RESOLUTION_QUORUM
<1>1. /\ r < nextRound /\ ~rounds[r].resolved /\ attested[r][w] = "none"
      /\ attested' = [attested EXCEPT ![r] = [@ EXCEPT ![w] = s]]
      /\ UNCHANGED <<now, feeBps, nextRound, entries, claimed, received, feesPaid, refunded, vault>>
  BY DEF SubmitResolution, Exists
<1>2. /\ TypeOK /\ RoundSound(r) /\ rounds[r] \in RoundType
      /\ entries[r] \in [Agents -> EntryType]
  BY StateTypes DEF PoolInv
<1>3. rounds' = IF decides THEN [rounds EXCEPT ![r] = verdict] ELSE rounds
  BY DEF SubmitResolution
<1>4. verdict \in RoundType
  <2>1. feeBps \in 0..MAX_FEE_BPS /\ s \in Statuses
    BY <1>2, OtherSide DEF TypeOK
  <2>. QED  BY <1>2, <2>1 DEF RoundType
<1>5. verdict.resolved
  BY <1>2, Zenon DEF RoundType
<1>6. verdict.outcome = s /\ verdict.pot = rounds[r].pot
  BY <1>2 DEF RoundType
<1>. HIDE DEF verdict
<1>7. attested[r] \in [Watchtowers -> Statuses] /\ attested \in [Rounds -> [Watchtowers -> Statuses]]
  BY <1>2 DEF TypeOK
<1>8. /\ attested' \in [Rounds -> [Watchtowers -> Statuses]]
      /\ \A z \in Rounds \ {r} : attested'[z] = attested[z]
      /\ \A v \in Watchtowers : attested'[r][v] = IF v = w THEN s ELSE attested[r][v]
  BY <1>1, <1>7, OtherSide
<1>9. /\ rounds' \in [Rounds -> RoundType]
      /\ \A z \in Rounds \ {r} : rounds'[z] = rounds[z]
      /\ decides => rounds'[r] = verdict
      /\ ~decides => rounds'[r] = rounds[r]
  BY <1>2, <1>3, <1>4, StateTypes
<1>10. TypeOK'
  BY <1>1, <1>2, <1>8, <1>9 DEF TypeOK, RoundType
<1>11. \A z \in Rounds \ {r} : Untouched(z)
  BY <1>1, <1>8, <1>9 DEF Untouched
<1>12. Votes(r, s)' = Votes(r, s) + 1
  <2> DEFINE for == {v \in Watchtowers : attested[r][v] = s}
  <2>1. {v \in Watchtowers : attested'[r][v] = s} = for \cup {w} /\ w \notin for
    BY <1>1, <1>8, OtherSide
  <2>2. IsFiniteSet(for)
    BY FiniteSets, FS_Subset
  <2>. HIDE DEF for
  <2>3. Cardinality(for \cup {w}) = Cardinality(for) + 1
    BY <2>1, <2>2, FS_AddElement
  <2>. QED  BY <2>1, <2>3 DEF Votes, for
<1>13. rounds'[r].pot = rounds[r].pot
  BY <1>6, <1>9
<1>14. Booked(r)'
  <2>1. \A z \in Sides : Staked(r, z)' = Staked(r, z)
    BY <1>1 DEF Staked
  <2>2. rounds'[r].resolved => rounds'[r].outcome \in Sides
    BY <1>1, <1>6, <1>9
  <2>. QED  BY <1>1, <1>2, <1>13, <2>1, <2>2 DEF RoundSound, Booked
<1>15. Entered(r)' = Entered(r) /\ claimed'[r] = refunded'[r] /\ claimed[r] = refunded[r]
       /\ claimed[r] \subseteq Entered(r)
  BY <1>1, <1>2 DEF Entered, RoundSound, LeftHonestly
<1>16. LeftHonestly(r)' /\ PaidByStake(r)'
  BY <1>1, <1>15 DEF LeftHonestly, PaidByStake
<1>17. Backed(r)'
  <2>1. CASE decides
    <3>1. rounds'[r].outcome = s
      BY <1>6, <1>9, <2>1
    <3>2. Votes(r, s)' >= RESOLUTION_QUORUM
      BY <1>12, <2>1
    <3>3. Votes(r, rounds[r].outcome)' = Votes(r, s)'
      BY <3>1 DEF Votes
    <3>. QED  BY <3>2, <3>3 DEF Backed
  <2>2. CASE ~decides
    BY <1>1, <1>9, <2>2 DEF Backed
  <2>. QED  BY <2>1, <2>2
<1>18. ASSUME ~LateResolved(r)' PROVE RoundDue(r)' <= RoundDue(r)
  <2>1. RoundDue(r) \in Nat
    BY <1>2, RoundDueType DEF RoundSound
  <2>2. CASE ~rounds'[r].resolved \/ NobodyWon(r)'
    <3>1. \A a \in Agents : Due(r, a)' = Due(r, a)
      BY <1>1, <1>15, <2>2 DEF Due
    <3>. QED  BY <2>1, <3>1 DEF RoundDue
  <2>3. CASE rounds'[r].resolved /\ ~NobodyWon(r)'
    <3>1. claimed[r] = {} /\ claimed'[r] = {}
      BY <1>1, <1>15, <1>18, <2>3 DEF LateResolved
    <3>. QED  BY <1>1, <1>2, <1>10, <1>13, <1>14, <2>3, <3>1, ResolutionFits DEF RoundSound
  <2>. QED  BY <2>2, <2>3
<1>19. ~LateResolved(r)' => RoundDue(r)' - vault' <= RoundDue(r) - vault
  <2>1. AllSound /\ AllSound'
    BY <1>2, <1>10, <1>14, <1>16, <1>17, <1>11, UntouchedSound, <1>1 DEF PoolInv, AllSound, RoundSound, TypeOK
  <2>2. DuesAreNumbers /\ DuesAreNumbers'
    BY <2>1, SoundDues, PTL
  <2>3. vault \in Nat /\ RoundDue(r) \in Nat /\ RoundDue(r)' \in Nat
    BY <1>2, <2>2 DEF DuesAreNumbers, TypeOK
  <2>. QED  BY <1>1, <1>18, <2>3
<1>20. ~LateResolved(r) /\ nextRound <= nextRound'
  BY <1>1, <1>2 DEF LateResolved, TypeOK
<1>. QED  BY <1>10, <1>11, <1>14, <1>16, <1>17, <1>19, <1>20, OneRoundTouched DEF RoundSound

-----------------------------------------------------------------------------
(* An agent leaves with what is due to it, and nothing else changes.        *)
LEMMA LeaveInv ==
  ASSUME PoolInv, NEW r \in Rounds, NEW a \in Agents, CanLeave(r, a),
         NEW amount \in Nat, NEW fee \in Nat, PayOut(r, a, amount, fee),
         amount + fee = Due(r, a),
         refunded' = [refunded EXCEPT ![r] = refunded'[r]],
         \/ rounds[r].resolved /\ refunded'[r] = refunded[r] /\ amount = Prize(r, a)
         \/ ~rounds[r].resolved /\ refunded'[r] = refunded[r] \cup {a}
  PROVE  PoolInv'
<1>1. /\ vault >= amount + fee /\ vault' = vault - amount - fee
      /\ claimed' = [claimed EXCEPT ![r] = @ \cup {a}]
      /\ received' = [received EXCEPT ![r] = [@ EXCEPT ![a] = amount]]
      /\ feesPaid' = [feesPaid EXCEPT ![r] = @ + fee]
      /\ UNCHANGED <<now, feeBps, nextRound, rounds, entries, attested>>
  BY DEF PayOut
<1>2. TypeOK /\ RoundSound(r) /\ a \in Entered(r) /\ a \notin claimed[r]
  BY DEF PoolInv, CanLeave
<1>3. /\ claimed \in [Rounds -> SUBSET Agents] /\ refunded \in [Rounds -> SUBSET Agents]
      /\ received \in [Rounds -> [Agents -> Nat]] /\ feesPaid \in [Rounds -> Nat] /\ vault \in Nat
  BY <1>2 DEF TypeOK
<1>4. refunded'[r] \in SUBSET Agents
  BY <1>3
<1>5. /\ claimed' \in [Rounds -> SUBSET Agents] /\ claimed'[r] = claimed[r] \cup {a}
      /\ \A z \in Rounds \ {r} : claimed'[z] = claimed[z]
  BY <1>1, <1>3
<1>6. /\ refunded' \in [Rounds -> SUBSET Agents]
      /\ \A z \in Rounds \ {r} : refunded'[z] = refunded[z]
  <2>1. PICK R \in SUBSET Agents : R = refunded'[r]
    BY <1>4
  <2>2. refunded' = [refunded EXCEPT ![r] = R]
    BY <2>1
  <2>. QED  BY <1>3, <2>2
<1>7. /\ received' \in [Rounds -> [Agents -> Nat]]
      /\ \A z \in Rounds \ {r} : received'[z] = received[z]
      /\ received'[r][a] = amount
      /\ \A b \in Agents \ {a} : received'[r][b] = received[r][b]
  BY <1>1, <1>3
<1>8. feesPaid' \in [Rounds -> Nat] /\ vault' \in Nat
  BY <1>1, <1>3
<1>9. TypeOK'
  BY <1>1, <1>2, <1>5, <1>6, <1>7, <1>8 DEF TypeOK
<1>10. \A z \in Rounds \ {r} : Untouched(z)
  BY <1>1, <1>5, <1>6, <1>7 DEF Untouched
<1>11. Booked(r)' /\ Backed(r)'
  <2>1. \A s \in Sides : Staked(r, s)' = Staked(r, s)
    BY <1>1 DEF Staked
  <2>. QED  BY <1>1, <1>2, <2>1 DEF RoundSound, Booked, Backed, Votes
<1>12. Entered(r)' = Entered(r) /\ NobodyWon(r)' = NobodyWon(r)
  BY <1>1 DEF Entered, NobodyWon
<1>13. /\ claimed[r] \subseteq Entered(r) /\ refunded[r] \subseteq claimed[r]
       /\ ~rounds[r].resolved => claimed[r] = refunded[r]
       /\ \A b \in claimed[r] \ refunded[r] : received[r][b] = Prize(r, b)
  BY <1>2 DEF RoundSound, LeftHonestly, PaidByStake
<1>14. LeftHonestly(r)'
  BY <1>1, <1>2, <1>5, <1>12, <1>13 DEF LeftHonestly
<1>15. PaidByStake(r)'
  <2>1. \A b \in Agents : Prize(r, b)' = Prize(r, b)
    BY <1>1, <1>12 DEF Prize
  <2>2. ASSUME NEW b \in claimed'[r] \ refunded'[r]
        PROVE  received'[r][b] = Prize(r, b)
    <3>1. b \in Agents
      BY <1>5
    <3>2. CASE b = a
      BY <1>2, <1>7, <1>13, <3>2
    <3>3. CASE b # a
      BY <1>5, <1>7, <1>13, <3>1, <3>3
    <3>. QED  BY <3>2, <3>3
  <2>. QED  BY <1>5, <2>1, <2>2 DEF PaidByStake
<1>16. RoundDue(r)' = RoundDue(r) - (amount + fee)
  <2> DEFINE f == [b \in Agents |-> Due(r, b)]
             g == [b \in Agents |-> Due(r, b)']
  <2>1. \A b \in Agents : f[b] \in Int
    BY <1>2, DueType DEF RoundSound
  <2>2. f[a] = amount + fee
    OBVIOUS
  <2>3. \A b \in Agents : g[b] = IF b = a THEN 0 ELSE f[b]
    <3>1. \A b \in Agents : Due(r, b)' = IF b = a THEN 0 ELSE Due(r, b)
      BY <1>1, <1>5, <1>12 DEF Due, Winner
    <3>. QED  BY <3>1
  <2>4. RoundDue(r) = SumFunctionOnSet(f, Agents) /\ RoundDue(r)' = SumFunctionOnSet(g, Agents)
    BY DEF RoundDue
  <2>. HIDE DEF f, g
  <2>5. /\ \A b \in Agents : g[b] \in Int
        /\ \A b \in Agents \ {a} : g[b] = f[b]
        /\ g[a] = 0
    BY <2>1, <2>3
  <2>6. SumFunctionOnSet(f, Agents) \in Int
    BY <2>1, FiniteSets, SumType
  <2>7. SumFunctionOnSet(g, Agents) = SumFunctionOnSet(f, Agents) - f[a] + g[a]
    BY <2>1, <2>5, FiniteSets, SumChange
  <2>. QED  BY <2>2, <2>4, <2>5, <2>6, <2>7
<1>17. RoundDue(r)' - vault' <= RoundDue(r) - vault
  <2>1. RoundDue(r) \in Nat
    BY <1>2, RoundDueType DEF RoundSound
  <2>. QED  BY <1>1, <1>3, <1>16, <2>1
<1>18. LateResolved(r) => LateResolved(r)'
  BY <1>1, <1>12 DEF LateResolved
<1>19. nextRound <= nextRound'
  BY <1>1, <1>2 DEF TypeOK
<1>. QED  BY <1>9, <1>10, <1>11, <1>14, <1>15, <1>17, <1>18, <1>19, OneRoundTouched DEF RoundSound

LEMMA ClaimInv ==
  ASSUME PoolInv, NEW r \in Rounds, NEW a \in Agents, Claim(r, a)
  PROVE  PoolInv'
<1>1. /\ CanLeave(r, a) /\ rounds[r].resolved /\ UNCHANGED refunded
      /\ TypeOK /\ Booked(r)
  BY DEF Claim, PoolInv, RoundSound
<1>2. /\ entries[r][a].amount \in Nat /\ rounds[r] \in RoundType
      /\ refunded \in [Rounds -> SUBSET Agents]
  BY <1>1, StateTypes DEF TypeOK
<1>3. refunded' = [refunded EXCEPT ![r] = refunded'[r]] /\ refunded'[r] = refunded[r]
  BY <1>1, <1>2
<1>4. a \in Entered(r) \ claimed[r]
  BY <1>1 DEF CanLeave
<1>5. CASE rounds[r].pot[rounds[r].outcome] = 0
  <2>1. NobodyWon(r)
    BY <1>1, <1>5 DEF NobodyWon
  <2>2. PayOut(r, a, entries[r][a].amount, 0)
    BY <1>5 DEF Claim
  <2>3. Due(r, a) = entries[r][a].amount /\ Prize(r, a) = entries[r][a].amount
    BY <1>4, <2>1 DEF Due, Prize
  <2>. QED  BY <1>1, <1>2, <1>3, <2>2, <2>3, LeaveInv
<1>6. CASE rounds[r].pot[rounds[r].outcome] > 0
  <2> DEFINE win == Winnings(rounds[r], entries[r][a].amount)
             share == FeeShare(rounds[r], entries[r][a].amount)
  <2>1. rounds[r].outcome \in Sides
    BY <1>1 DEF Booked
  <2>2. win \in Nat /\ share \in Nat
    BY <1>2, <1>6, <2>1, ClaimTypes
  <2>3. ~NobodyWon(r)
    BY <1>6 DEF NobodyWon
  <2>4. Winner(r, a) /\ PayOut(r, a, win, share)
    BY <1>6 DEF Claim, Winner
  <2>5. Due(r, a) = win + share /\ Prize(r, a) = win
    BY <1>1, <1>4, <2>3, <2>4 DEF Due, Prize
  <2>. HIDE DEF win, share
  <2>. QED  BY <1>1, <1>3, <2>2, <2>4, <2>5, LeaveInv
<1>. QED  BY <1>1, <1>5, <1>6 DEF Claim

LEMMA RefundInv ==
  ASSUME PoolInv, NEW r \in Rounds, NEW a \in Agents, EmergencyRefund(r, a) \/ RefundUnresolved(r, a)
  PROVE  PoolInv'
<1>1. /\ CanLeave(r, a) /\ ~rounds[r].resolved /\ TypeOK
      /\ PayOut(r, a, entries[r][a].amount, 0)
      /\ refunded' = [refunded EXCEPT ![r] = @ \cup {a}]
  BY DEF EmergencyRefund, RefundUnresolved, Refund, PoolInv
<1>2. entries[r][a].amount \in Nat /\ refunded \in [Rounds -> SUBSET Agents]
  BY <1>1, StateTypes DEF TypeOK
<1>3. refunded'[r] = refunded[r] \cup {a} /\ refunded' = [refunded EXCEPT ![r] = refunded'[r]]
  BY <1>1, <1>2
<1>4. Due(r, a) = entries[r][a].amount
  BY <1>1 DEF CanLeave, Due
<1>5. PICK amount \in Nat : amount = entries[r][a].amount
  BY <1>2
<1>6. PayOut(r, a, amount, 0) /\ amount + 0 = Due(r, a) /\ 0 \in Nat
  BY <1>1, <1>4, <1>5
<1>. QED  BY <1>1, <1>3, <1>6, LeaveInv

LEMMA PoolStepInv == PoolInv /\ [Next]_vars => PoolInv'
<1> SUFFICES ASSUME PoolInv, [Next]_vars PROVE PoolInv'
  OBVIOUS
<1>1. ASSUME NEW r \in Rounds, NEW w \in Watchtowers, NEW s \in Sides, SubmitResolution(r, w, s)
      PROVE  PoolInv'
  BY <1>1, SubmitResolutionInv
<1>2. ASSUME NEW r \in Rounds, NEW a \in Agents,
             NEW s \in Sides, NEW amount \in Amounts, EnterRound(r, a, s, amount)
      PROVE  PoolInv'
  BY <1>2, EnterRoundInv
<1>3. ASSUME NEW r \in Rounds, NEW a \in Agents,
             Claim(r, a) \/ EmergencyRefund(r, a) \/ RefundUnresolved(r, a)
      PROVE  PoolInv'
  BY <1>3, ClaimInv, RefundInv
<1>4. ASSUME NEW d \in Durations, NEW m \in MinEntries, CreateRound(d, m)
      PROVE  PoolInv'
  BY <1>4, CreateRoundInv
<1>. QED  BY <1>1, <1>2, <1>3, <1>4, QuietInv DEF Next

LEMMA PoolInvHolds == Spec => []PoolInv
  BY PoolInitInv, PoolStepInv, PTL DEF Spec

(* The pool can always pay whoever may still claim or be refunded, in any    *)
(* order and however the divisions round, as long as no round was resolved  *)
(* after a refund.                                                          *)
THEOREM PoolIsSolvent == Spec => [](TypeOK /\ Solvent)
<1>1. PoolInv => TypeOK /\ Solvent
  BY SolventIsCovered DEF PoolInv
<1>. QED  BY <1>1, PoolInvHolds, PTL

(* A round is decided by a quorum of different watchtowers, and it pays      *)
(* equal stakes equally, whatever happens to the fee between two claims.    *)
THEOREM RoundsAreFair == Spec => []RoundsFair
<1>1. PoolInv => EqualStakesEqualPayouts
  <2> SUFFICES ASSUME PoolInv, NEW r \in Rounds, NEW a \in claimed[r] \ refunded[r],
                      NEW b \in claimed[r] \ refunded[r], entries[r][a] = entries[r][b]
               PROVE  received[r][a] = received[r][b]
    BY DEF EqualStakesEqualPayouts
  <2>1. received[r][a] = Prize(r, a) /\ received[r][b] = Prize(r, b)
    BY DEF PoolInv, RoundSound, PaidByStake
  <2>. QED  BY <2>1 DEF Prize
<1>2. PoolInv => QuorumBacked
  BY DEF PoolInv, RoundSound, Backed, QuorumBacked, Votes
<1>. QED  BY <1>1, <1>2, PoolInvHolds, PTL DEF RoundsFair
=============================================================================
