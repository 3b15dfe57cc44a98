---------------------------- MODULE AuthSessions -----------------------------
(***************************************************************************)
(* Owner sign-in at the provider's daemon                                  *)
(* (packages/arc402-daemon/src/auth-server.ts and session-manager.ts, with *)
(* the /auth endpoints of server.ts): a challenge is signed, the wallet's  *)
(* owner is read from the chain, and a session of SESSION_TTL_MS is made.  *)
(*                                                                         *)
(* Between the check of the challenge and its mark as used the daemon      *)
(* waits twice, for the owner and for the list of the owner's wallets;     *)
(* other requests run meanwhile.  A session has the id of the sign-in that *)
(* made it.  Whether the signer is the owner is one choice of the chain's. *)
(***************************************************************************)
EXTENDS Integers, FiniteSets

CONSTANTS
  AuthWallets, SignIns, AuthChallenges,
  ChallengeTTL,          \* CHALLENGE_TTL_MS
  AuthSessionTTL,        \* SESSION_TTL_MS
  MaxAuthTime            \* bound

ASSUME AuthAssumption ==
  /\ "none" \notin AuthWallets
  /\ ChallengeTTL \in Nat /\ AuthSessionTTL \in Nat \ {0} /\ MaxAuthTime \in Nat

VARIABLES
  authTime,
  challenge,    \* auth_challenges
  signIn,       \* the requests POST /auth/session under way
  session,      \* sessions, by the sign-in that made them
  overlapped,   \* challenges two requests answered at a time
  revoked       \* sessions revoked at some time

authVars == <<authTime, challenge, signIn, session, overlapped, revoked>>

NoChallenge == [wallet |-> "none", expires |-> 0, used |-> FALSE]
NoSession == [wallet |-> "none", expires |-> 0, revoked |-> FALSE]
NotBegun == [at |-> "new"]

AuthInit ==
  /\ authTime = 0
  /\ challenge = [d \in AuthChallenges |-> NoChallenge]
  /\ signIn = [r \in SignIns |-> NotBegun]
  /\ session = [r \in SignIns |-> NoSession]
  /\ overlapped = {} /\ revoked = {}

IssueChallenge(d, w) ==
  /\ challenge[d] = NoChallenge
  /\ challenge' = [challenge EXCEPT ![d] =
       [wallet |-> w, expires |-> authTime + ChallengeTTL, used |-> FALSE]]
  /\ UNCHANGED <<authTime, signIn, session, overlapped, revoked>>

UnderWay(d) == {r \in SignIns : signIn[r].at \in {"owner", "wallets"} /\ signIn[r].challenge = d}

(* consumeAuthChallenge up to its first wait *)
BeginSignIn(r, d) ==
  /\ signIn[r] = NotBegun
  /\ challenge[d] # NoChallenge /\ ~challenge[d].used /\ authTime <= challenge[d].expires
  /\ signIn' = [signIn EXCEPT ![r] = [at |-> "owner", challenge |-> d]]
  /\ overlapped' = IF UnderWay(d) = {} THEN overlapped ELSE overlapped \cup {d}
  /\ UNCHANGED <<authTime, challenge, session, revoked>>

(* The signer is the owner, or is not, or the chain cannot be read.         *)
OwnerRead(r, isOwner) ==
  /\ signIn[r].at = "owner"
  /\ signIn' = [signIn EXCEPT ![r].at = IF isOwner THEN "wallets" ELSE "refused"]
  /\ UNCHANGED <<authTime, challenge, session, overlapped, revoked>>

NewSession(r) ==
  session' = [session EXCEPT ![r] = [wallet |-> challenge[signIn[r].challenge].wallet,
                expires |-> authTime + AuthSessionTTL, revoked |-> FALSE]]

(* Faulty variant: the challenge is not marked as used. *)
EndSignIn_Unmarked(r) ==
  /\ signIn[r].at = "wallets"
  /\ NewSession(r)
  /\ signIn' = [signIn EXCEPT ![r].at = "done"]
  /\ UNCHANGED <<authTime, challenge, overlapped, revoked>>

(* The list of wallets arrives, or fails, which is ignored. *)
EndSignIn(r) ==
  /\ signIn[r].at = "wallets"
  /\ challenge' = [challenge EXCEPT ![signIn[r].challenge].used = TRUE]
  /\ NewSession(r)
  /\ signIn' = [signIn EXCEPT ![r].at = "done"]
  /\ UNCHANGED <<authTime, overlapped, revoked>>

(* validateSession *)
Valid(r) == session[r].expires > authTime /\ ~session[r].revoked

(* POST /auth/revoke: every session of the wallet of a valid one *)
Revoke(r) ==
  LET all == {o \in SignIns : session[o].wallet = session[r].wallet}
  IN /\ Valid(r)
     /\ session' = [o \in SignIns |-> IF o \in all
                      THEN [session[o] EXCEPT !.revoked = TRUE, !.expires = 0] ELSE session[o]]
     /\ revoked' = revoked \cup all
     /\ UNCHANGED <<authTime, challenge, signIn, overlapped>>

(* grantStepUp, which nothing calls yet: a session lives on, whatever it   *)
(* was.                                                                     *)
GrantStepUp(r) ==
  /\ session[r] # NoSession
  /\ session' = [session EXCEPT ![r].expires = authTime + AuthSessionTTL]
  /\ UNCHANGED <<authTime, challenge, signIn, overlapped, revoked>>

AuthTick ==
  /\ authTime < MaxAuthTime
  /\ authTime' = authTime + 1
  /\ UNCHANGED <<challenge, signIn, session, overlapped, revoked>>

AuthNext ==
  \/ AuthTick
  \/ \E d \in AuthChallenges, w \in AuthWallets : IssueChallenge(d, w)
  \/ \E r \in SignIns :
       \/ \E d \in AuthChallenges : BeginSignIn(r, d)
       \/ \E isOwner \in BOOLEAN : OwnerRead(r, isOwner)
       \/ EndSignIn(r) \/ Revoke(r) \/ GrantStepUp(r)

AuthSpec == AuthInit /\ [][AuthNext]_authVars

-----------------------------------------------------------------------------
AuthTypeOK ==
  /\ authTime \in 0..MaxAuthTime
  /\ challenge \in [AuthChallenges -> {NoChallenge} \cup
                       [wallet : AuthWallets, expires : Nat, used : BOOLEAN]]
  /\ signIn \in [SignIns -> {NotBegun} \cup
                    [at : {"owner", "wallets", "refused", "done"}, challenge : AuthChallenges]]
  /\ session \in [SignIns -> {NoSession} \cup
                     [wallet : AuthWallets, expires : Nat, revoked : BOOLEAN]]
  /\ overlapped \subseteq AuthChallenges /\ revoked \subseteq SignIns

SessionsOf(d) == {r \in SignIns : signIn[r].at = "done" /\ signIn[r].challenge = d}

(* A challenge makes one session at most, unless two requests answered it   *)
(* at the same time; and a session that was revoked is never valid again,   *)
(* whatever its expiry is set to later.                                     *)
SignInsHonest ==
  /\ \A d \in AuthChallenges :
       d \notin overlapped => Cardinality(SessionsOf(d)) <= 1
  /\ \A r \in revoked : ~Valid(r)
=============================================================================
