----------------------------- MODULE ClientAuth -----------------------------
(***************************************************************************)
(* The client's token and the interceptor that drops it (D-01, D-17):      *)
(* TokenStore and AuthInterceptor of data/net/Interceptors.kt, used by     *)
(* several calls at once.  A call reads the token, is answered by the      *)
(* server, and takes two separate atomic steps on a 401: getAndSet on the  *)
(* latch, then clear on the store.                                         *)
(*                                                                         *)
(* Pairing, unpairing and revocation happen around it at any time: they    *)
(* are external, the server being asked as Authenticator.Require answers.  *)
(***************************************************************************)
EXTENDS Integers, FiniteSets, FiniteSetsExt

CONSTANTS
  Calls,      \* calls that may be in flight (three uploads, D-17)
  MaxTokens   \* tokens this device is ever paired with

ASSUME ClientAuthAssumption == MaxTokens \in Nat /\ IsFiniteSet(Calls)

None == 0              \* no token
Tokens == 1..MaxTokens \* each pairing mints a new one

VARIABLES
  store,    \* InMemoryTokenStore: the current token
  latch,    \* clearedToken: the token last found rejected
  pc,       \* what each call does next
  sent,     \* the token each call carries
  status,   \* the answer to each call
  paired,   \* tokens minted so far: 1..paired
  revoked,  \* tokens the server no longer accepts
  rejected, \* tokens the client has seen a 401 for
  clears,   \* clears caused by a 401 for each token
  alone     \* tokens stored while no call carried another token

vars == <<store, latch, pc, sent, status, paired, revoked, rejected, clears, alone>>
client == <<store, latch>>
server == <<paired, revoked>>
history == <<rejected, clears, alone>>

-----------------------------------------------------------------------------

TypeOK ==
  /\ store \in Tokens \cup {None}
  /\ latch \in Tokens \cup {None}
  /\ pc \in [Calls -> {"idle", "sent", "answered", "clearing"}]
  /\ sent \in [Calls -> Tokens \cup {None}]
  /\ status \in [Calls -> {0, 200, 401}]
  /\ paired \in 0..MaxTokens
  /\ revoked \subseteq 1..paired
  /\ rejected \subseteq Tokens
  /\ clears \in [Tokens -> 0..Cardinality(Calls)]
  /\ alone \subseteq Tokens

Init ==
  /\ store = None
  /\ latch = None
  /\ pc = [c \in Calls |-> "idle"]
  /\ sent = [c \in Calls |-> None]
  /\ status = [c \in Calls |-> 0]
  /\ paired = 0
  /\ revoked = {}
  /\ rejected = {}
  /\ clears = [t \in Tokens |-> 0]
  /\ alone = {}

-----------------------------------------------------------------------------
(* AuthInterceptor.intercept *)

Send(c) ==
  /\ pc[c] = "idle"
  /\ pc' = [pc EXCEPT ![c] = "sent"]
  /\ sent' = [sent EXCEPT ![c] = store]
  /\ UNCHANGED <<client, status, server, history>>

\* A revocation bites on the next request; no token is no access.
Serve(c) ==
  /\ pc[c] = "sent"
  /\ pc' = [pc EXCEPT ![c] = "answered"]
  /\ status' = [status EXCEPT ![c] =
       IF sent[c] \in (1..paired) \ revoked THEN 200 ELSE 401]
  /\ UNCHANGED <<client, sent, server, history>>

\* A bug: a 401 to a call without a token counts too.
RejectedAnyway(c) == status[c] = 401

Rejected(c) == status[c] = 401 /\ sent[c] # None
Finish(c) ==
  /\ pc' = [pc EXCEPT ![c] = "idle"]
  /\ sent' = [sent EXCEPT ![c] = None]
  /\ status' = [status EXCEPT ![c] = 0]

\* A bug: the latch is for the process, not for the token.
LatchForGood(c) ==
  /\ pc[c] = "answered"
  /\ IF Rejected(c) /\ latch = None
     THEN /\ pc' = [pc EXCEPT ![c] = "clearing"]
          /\ UNCHANGED <<sent, status>>
     ELSE Finish(c)
  /\ latch' = IF Rejected(c) THEN sent[c] ELSE latch
  /\ rejected' = IF Rejected(c) THEN rejected \cup {sent[c]} ELSE rejected
  /\ UNCHANGED <<store, server, clears, alone>>

\* A bug: the latch is read here and written with the clear.
LatchUnset(c) ==
  /\ pc[c] = "answered"
  /\ IF Rejected(c) /\ latch # sent[c]
     THEN /\ pc' = [pc EXCEPT ![c] = "clearing"]
          /\ UNCHANGED <<sent, status>>
     ELSE Finish(c)
  /\ rejected' = IF Rejected(c) THEN rejected \cup {sent[c]} ELSE rejected
  /\ UNCHANGED <<client, server, clears, alone>>

\* clearedToken.getAndSet(token) != token
Latch(c) ==
  /\ pc[c] = "answered"
  /\ IF Rejected(c) /\ latch # sent[c]
     THEN /\ pc' = [pc EXCEPT ![c] = "clearing"]
          /\ UNCHANGED <<sent, status>>
     ELSE Finish(c)
  /\ latch' = IF Rejected(c) THEN sent[c] ELSE latch
  /\ rejected' = IF Rejected(c) THEN rejected \cup {sent[c]} ELSE rejected
  /\ UNCHANGED <<store, server, clears, alone>>

\* A bug: the call goes on to clear again.
ClearRepeatedly(c) ==
  /\ pc[c] = "clearing"
  /\ store' = None
  /\ clears' = [clears EXCEPT ![sent[c]] = @ + 1]
  /\ UNCHANGED <<latch, pc, sent, status, server, rejected, alone>>

\* tokenStore.clear(), whatever the store holds by now
Clear(c) ==
  /\ pc[c] = "clearing"
  /\ store' = None
  /\ clears' = [clears EXCEPT ![sent[c]] = @ + 1]
  /\ Finish(c)
  /\ UNCHANGED <<latch, server, rejected, alone>>

-----------------------------------------------------------------------------
(* Around it *)

\* Pairing, or pairing again, stores a freshly minted token.
Pair ==
  /\ paired < MaxTokens
  /\ paired' = paired + 1
  /\ store' = paired'
  /\ alone' = IF \A c \in Calls : sent[c] = None THEN alone \cup {paired'} ELSE alone
  /\ UNCHANGED <<latch, pc, sent, status, revoked, rejected, clears>>

Revoke(t) ==
  /\ t \in (1..paired) \ revoked
  /\ revoked' = revoked \cup {t}
  /\ UNCHANGED <<client, pc, sent, status, paired, history>>

Intercept(c) == Serve(c) \/ Latch(c) \/ Clear(c)

Next ==
  \/ \E c \in Calls : Send(c) \/ Intercept(c)
  \/ Pair
  \/ \E t \in Tokens : Revoke(t)

Spec == Init /\ [][Next]_vars

\* A call that was sent is answered or times out; its thread runs on.
Fairness == \A c \in Calls : WF_vars(Intercept(c))
FairSpec == Spec /\ Fairness

-----------------------------------------------------------------------------
(* Properties *)

\* What AuthInterceptor says of itself (Interceptors.kt:184-190, "drops the token on a
\* 401 -- exactly once per token"): no token causes a second clear.  It does, when late
\* 401s of an older and of a newer token re-arm the latch for each other.
ClearedOncePerToken == \A t \in Tokens : clears[t] <= 1

\* What the latch does give: simultaneous 401s for one token clear the store once,
\* however the calls interleave, and a second clear for it takes a clear for another
\* token in between.
ClearsAlternate ==
  \A t \in Tokens :
    clears[t] <= 1 + MapThenSumSet(LAMBDA u : clears[u], Tokens \ {t})
                   + Cardinality({c \in Calls : pc[c] = "clearing" /\ sent[c] # t})

\* A token stored while no call carried an older one is dropped only after the
\* server has rejected that very token.
LoneTokenKept ==
  [][(store \in alone /\ store' = None) => store \in rejected]_vars

\* A token the server rejects does not stay in the store (02-API: drop token,
\* re-pair), also when several calls learn of it at once.
RejectedTokenDropped ==
  \A t \in Tokens :
    (\E c \in Calls : pc[c] = "answered" /\ status[c] = 401 /\ sent[c] = t)
      ~> store # t
=============================================================================
