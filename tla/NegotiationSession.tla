------------------------- MODULE NegotiationSession -------------------------
(***************************************************************************)
(* A negotiation as a client keeps it on disk until it hires               *)
(* (reference/sdk/src/session-manager.ts; commands/negotiate.ts and        *)
(* commands/hire.ts of packages/arc402-cli).  Each command is a process of *)
(* its own: it loads the file, signs or sends, loads it again, and writes  *)
(* it in place, so commands overlap, may be killed anywhere, and a write   *)
(* that is cut off leaves a file that no command can read.                 *)
(*                                                                         *)
(* The terms of a message are a price and a deadline; a transcript hash is *)
(* the sequence of messages it was made of.  There is one negotiation.     *)
(***************************************************************************)
EXTENDS Naturals, Sequences

CONSTANTS
  Terms, NoTerms,
  Commands,        \* calls of the command line
  MaxTalk          \* bound: messages of the session

ASSUME TalkAssumption == NoTerms \notin Terms /\ MaxTalk \in Nat

VARIABLES
  negotiation,  \* the file
  call,         \* each process
  agreements    \* proposed on chain, oldest first

talkVars == <<negotiation, call, agreements>>

NewNegotiation ==
  [messages |-> <<>>, state |-> "OPEN", agreed |-> NoTerms, transcript |-> <<>>, onChainId |-> 0]
NoNegotiation == [NewNegotiation EXCEPT !.state = "none"]
Torn == [NewNegotiation EXCEPT !.state = "torn"]
NoCall == [at |-> "none", message |-> [type |-> "none", terms |-> NoTerms], copy |-> NoNegotiation]

TalkInit ==
  /\ negotiation = NoNegotiation
  /\ call = [c \in Commands |-> NoCall]
  /\ agreements = <<>>

Loadable == negotiation \notin {NoNegotiation, Torn}
Types == {"COUNTER", "ACCEPT", "REJECT"}

Goes(c, at, message, copy) ==
  call' = [call EXCEPT ![c] = [at |-> at, message |-> message, copy |-> copy]]

(* negotiate propose makes the session and goes on to sign its proposal.    *)
NegotiatePropose(c, t) ==
  /\ call[c] = NoCall /\ negotiation = NoNegotiation
  /\ negotiation' = NewNegotiation
  /\ Goes(c, "signing", [type |-> "PROPOSE", terms |-> t], NoNegotiation)
  /\ UNCHANGED agreements

(* negotiate counter, accept and reject read the last message first.        *)
NegotiateAnswer(c, type, t) ==
  /\ call[c] = NoCall
  /\ Loadable /\ negotiation.messages # <<>>
  /\ type = "REJECT" <=> t = NoTerms
  /\ Goes(c, "signing", [type |-> type, terms |-> t], NoNegotiation)
  /\ UNCHANGED <<negotiation, agreements>>

(* Faulty variant: the hash of a closed session is not made again.          *)
AddMessage_FirstHash(s, m) ==
  LET messages == Append(s.messages, m)
      closed == [s EXCEPT !.messages = messages,
                          !.transcript = IF @ = <<>> THEN messages ELSE @]
  IN CASE m.type = "ACCEPT" -> [closed EXCEPT !.state = "ACCEPTED", !.agreed = m.terms]
       [] m.type = "REJECT" -> [closed EXCEPT !.state = "REJECTED"]
       [] OTHER -> [s EXCEPT !.messages = messages]

(* addMessage in memory; any state of the session will do.                  *)
AddMessage(s, m) ==
  LET messages == Append(s.messages, m)
      closed == [s EXCEPT !.messages = messages, !.transcript = messages]
  IN CASE m.type = "ACCEPT" -> [closed EXCEPT !.state = "ACCEPTED", !.agreed = m.terms]
       [] m.type = "REJECT" -> [closed EXCEPT !.state = "REJECTED"]
       [] OTHER -> [s EXCEPT !.messages = messages]

(* addMessage loads the session again.                                      *)
LoadToAdd(c) ==
  /\ call[c].at = "signing" /\ Loadable
  /\ Len(negotiation.messages) < MaxTalk
  /\ Goes(c, "saving", call[c].message, AddMessage(negotiation, call[c].message))
  /\ UNCHANGED <<negotiation, agreements>>

(* save empties the file, and writes it.                                    *)
SaveBegins(c) ==
  /\ call[c].at = "saving"
  /\ negotiation' = Torn
  /\ call' = [call EXCEPT ![c].at = "writing"]
  /\ UNCHANGED agreements

(* What another process has written meanwhile may stick out at the end.     *)
SaveEnds(c) ==
  /\ call[c].at = "writing"
  /\ \/ negotiation' = call[c].copy
     \/ Loadable /\ negotiation' = Torn
  /\ call' = [call EXCEPT ![c].at = "over"]
  /\ UNCHANGED agreements

(* hire --session takes price, deadline and transcript of the negotiation.  *)
HireSession(c) ==
  /\ call[c] = NoCall
  /\ Loadable /\ negotiation.state = "ACCEPTED"
  /\ Goes(c, "hiring", [type |-> "HIRE", terms |-> negotiation.agreed], negotiation)
  /\ UNCHANGED <<negotiation, agreements>>

HireProposed(c) ==
  /\ call[c].at = "hiring"
  /\ agreements' = Append(agreements, [terms |-> call[c].message.terms,
                                       transcript |-> call[c].copy.transcript])
  /\ call' = [call EXCEPT ![c].at = "proposed",
                                ![c].copy.onChainId = Len(agreements) + 1]
  /\ UNCHANGED negotiation

(* setOnChainId *)
LoadToSetId(c) ==
  /\ call[c].at = "proposed" /\ Loadable
  /\ Goes(c, "saving", call[c].message,
          [negotiation EXCEPT !.onChainId = call[c].copy.onChainId])
  /\ UNCHANGED <<negotiation, agreements>>

(* A command is killed, or ends with an error.                              *)
CommandEnds(c) ==
  /\ call[c].at \notin {"none", "over"}
  /\ call' = [call EXCEPT ![c].at = "over"]
  /\ UNCHANGED <<negotiation, agreements>>

TalkNext ==
  \E c \in Commands :
    \/ \E t \in Terms : NegotiatePropose(c, t)
    \/ \E type \in Types, t \in Terms \cup {NoTerms} : NegotiateAnswer(c, type, t)
    \/ LoadToAdd(c) \/ SaveBegins(c) \/ SaveEnds(c)
    \/ HireSession(c) \/ HireProposed(c) \/ LoadToSetId(c) \/ CommandEnds(c)

TalkSpec == TalkInit /\ [][TalkNext]_talkVars

-----------------------------------------------------------------------------
MessageType == [type : Types \cup {"PROPOSE", "HIRE", "none"}, terms : Terms \cup {NoTerms}]

SessionType ==
  [messages : Seq(MessageType), state : {"none", "torn", "OPEN", "ACCEPTED", "REJECTED"},
   agreed : Terms \cup {NoTerms}, transcript : Seq(MessageType), onChainId : Nat]

CallType ==
  [at : {"none", "signing", "saving", "writing", "hiring", "proposed", "over"},
   message : MessageType, copy : SessionType]

TalkTypeOK ==
  /\ negotiation \in SessionType /\ Len(negotiation.messages) <= MaxTalk
  /\ call \in [Commands -> CallType]
  /\ agreements \in Seq([terms : Terms, transcript : Seq(MessageType)])

(* What is proposed on chain is what was agreed: price and deadline are     *)
(* those of the answer that ends the transcript its hash commits to, an     *)
(* acceptance, whatever commands ran at the same time, were killed, or      *)
(* answered a session that was closed before.                               *)
HiredAsAgreed ==
  \A i \in DOMAIN agreements :
    LET last == agreements[i].transcript[Len(agreements[i].transcript)]
    IN last.type = "ACCEPT" /\ last.terms = agreements[i].terms
=============================================================================
