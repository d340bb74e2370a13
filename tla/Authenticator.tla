----------------------------- MODULE Authenticator -----------------------------
(* client.go: before every attempt of a request the hook of the shared client    *)
(* takes the token of the Authenticator, which fetches a new one when its own has *)
(* expired: by a request of the same client, with the mutex held. The client     *)
(* retries what got no answer, and what the hook refused. A token is known by the *)
(* time at which Port issued it; time passes in ticks.                           *)
EXTENDS Integers

CONSTANTS Requester,   \* goroutines with a request, each
          Lifetime,    \* of a token, in ticks
          RetryCount,  \* 5 in the code, for a request and for a token request
          MaxClock,
          MaxUnanswered  \* attempts without an answer, or with a retryable one

NoOne == "no one"

ASSUME AuthenticatorAssumption ==
  /\ NoOne \notin Requester
  /\ Lifetime \in Nat \ {0} /\ RetryCount \in Nat
  /\ MaxClock \in Nat /\ MaxUnanswered \in Nat

VARIABLES
  clock,
  AccessToken, ExpiresIn, LastRefresh,  \* the Authenticator
  AuthMutex,     \* who holds it
  call,          \* per goroutine: its request
  unanswered

authVars ==
  <<clock, AccessToken, ExpiresIn, LastRefresh, AuthMutex, call, unanswered>>

Time == 0..MaxClock
NoCall == [at |-> "idle", attempt |-> 0, tokenAttempt |-> 0, token |-> 0,
           handed |-> 0, travelled |-> 0, ended |-> 0]

AuthenticatorTypeOK ==
  /\ clock \in Time /\ AccessToken \in Time /\ LastRefresh \in Time
  /\ ExpiresIn \in {0, Lifetime}
  /\ AuthMutex \in Requester \cup {NoOne}
  /\ call \in [Requester ->
       [at : {"idle", "hook", "locked", "tokenHook", "asked", "issued", "sent",
              "answered", "failed", "rejected"},
        attempt : 0..RetryCount, tokenAttempt : 0..RetryCount, token : Time,
        handed : Time, travelled : Time, ended : Time]]
  /\ unanswered \in 0..MaxUnanswered

AuthenticatorInit ==
  /\ clock = 0
  /\ AccessToken = 0 /\ ExpiresIn = 0 /\ LastRefresh = 0
  /\ AuthMutex = NoOne
  /\ call = [r \in Requester |-> NoCall]
  /\ unanswered = 0

Pass ==
  /\ clock < MaxClock
  /\ clock' = clock + 1
  /\ UNCHANGED <<AccessToken, ExpiresIn, LastRefresh, AuthMutex, call, unanswered>>

Sets(r, new) == call' = [call EXCEPT ![r] = new]
KeepsToken == UNCHANGED <<clock, AccessToken, ExpiresIn, LastRefresh>>

\* Fault: one attempt too many.
RetriedOnceMore(r) ==
  IF call[r].attempt <= RetryCount
  THEN [call[r] EXCEPT !.at = "hook", !.attempt = call[r].attempt + 1]
  ELSE [call[r] EXCEPT !.at = "failed"]

\* A failed attempt; the last one fails the request.
Retried(r) ==
  IF call[r].attempt < RetryCount
  THEN [call[r] EXCEPT !.at = "hook", !.attempt = call[r].attempt + 1]
  ELSE [call[r] EXCEPT !.at = "failed"]

Begin(r) ==
  /\ call[r].at = "idle"
  /\ Sets(r, [NoCall EXCEPT !.at = "hook"])
  /\ KeepsToken /\ UNCHANGED <<AuthMutex, unanswered>>

\* AuthenticateClient takes the mutex.
Authenticate(r) ==
  /\ call[r].at = "hook"
  /\ AuthMutex = NoOne
  /\ AuthMutex' = r
  /\ Sets(r, [call[r] EXCEPT !.at = "locked"])
  /\ KeepsToken /\ UNCHANGED unanswered

\* Fault: the token is used a tick longer than Port told.
ExpiredLate == ExpiresIn = 0 \/ clock - LastRefresh > ExpiresIn + 1

Expired == ExpiresIn = 0 \/ clock - LastRefresh > ExpiresIn

\* The token is valid, as far as the Authenticator knows: the request is sent.
HandOut(r) ==
  /\ call[r].at = "locked" /\ ~Expired
  /\ AuthMutex' = NoOne
  /\ Sets(r, [call[r] EXCEPT !.at = "sent", !.token = AccessToken, !.handed = clock,
                             !.travelled = LastRefresh - AccessToken])
  /\ KeepsToken /\ UNCHANGED unanswered

Refresh(r) ==
  /\ call[r].at = "locked" /\ Expired
  /\ Sets(r, [call[r] EXCEPT !.at = "tokenHook", !.tokenAttempt = 0])
  /\ KeepsToken /\ UNCHANGED <<AuthMutex, unanswered>>

AuthTokenEndpoint == "v1/auth/access_token"

\* Fault: the endpoint is not excepted.
NeverSkips(method, endpoint) == FALSE

\* The hook's test: a token request must not authenticate, which would wait for the
\* mutex that its own goroutine holds.
SkipsAuthentication(method, endpoint) ==
  method = "POST" /\ endpoint = AuthTokenEndpoint

AskForToken(r) ==
  /\ call[r].at = "tokenHook"
  /\ SkipsAuthentication("POST", AuthTokenEndpoint) \/ AuthMutex = NoOne
  /\ Sets(r, [call[r] EXCEPT !.at = "asked"])
  /\ KeepsToken /\ UNCHANGED <<AuthMutex, unanswered>>

\* Port issues a token, which travels, or does not answer, which is retried, or
\* refuses: the failed hook is retried with its request.
IssueToken(r) ==
  /\ call[r].at = "asked"
  /\ \/ /\ Sets(r, [call[r] EXCEPT !.at = "issued", !.token = clock])
        /\ UNCHANGED <<AuthMutex, unanswered>>
     \/ /\ unanswered < MaxUnanswered
        /\ unanswered' = unanswered + 1
        /\ \/ /\ call[r].tokenAttempt < RetryCount
              /\ Sets(r, [call[r] EXCEPT !.at = "tokenHook",
                             !.tokenAttempt = call[r].tokenAttempt + 1])
              /\ UNCHANGED AuthMutex
           \/ Sets(r, Retried(r)) /\ AuthMutex' = NoOne
  /\ KeepsToken

\* refreshAccessToken, and the rest of AuthenticateClient.
ReceiveToken(r) ==
  /\ call[r].at = "issued"
  /\ AccessToken' = call[r].token
  /\ ExpiresIn' = Lifetime
  /\ LastRefresh' = clock
  /\ AuthMutex' = NoOne
  /\ Sets(r, [call[r] EXCEPT !.at = "sent", !.handed = clock,
                             !.travelled = clock - call[r].token])
  /\ UNCHANGED <<clock, unanswered>>

\* Port refuses an expired token with an answer that is not retried.
Answer(r) ==
  /\ call[r].at = "sent"
  /\ IF clock - call[r].token > Lifetime
     THEN Sets(r, [call[r] EXCEPT !.at = "rejected", !.ended = clock])
          /\ UNCHANGED unanswered
     ELSE \/ Sets(r, [call[r] EXCEPT !.at = "answered"]) /\ UNCHANGED unanswered
          \/ /\ unanswered < MaxUnanswered
             /\ unanswered' = unanswered + 1
             /\ Sets(r, Retried(r))
  /\ KeepsToken /\ UNCHANGED AuthMutex

RequestStep(r) ==
  \/ Authenticate(r) \/ HandOut(r) \/ Refresh(r) \/ AskForToken(r)
  \/ IssueToken(r) \/ ReceiveToken(r) \/ Answer(r)

AuthenticatorNext == Pass \/ \E r \in Requester : Begin(r) \/ RequestStep(r)
AuthenticatorSpec == AuthenticatorInit /\ [][AuthenticatorNext]_authVars

-----------------------------------------------------------------------------
\* A request is refused for its token only when time passed on its way, or on the
\* way of the token's answer: a token is handed out for no longer than Port told,
\* and every attempt, a retry too, takes it anew.
RejectedOnTheWay ==
  \A r \in Requester :
    call[r].at = "rejected" =>
      call[r].ended > call[r].handed \/ call[r].travelled > 0

\* Every request ends, with a token or without: the token request does not wait
\* for the mutex that its caller holds, and the retries of both are bounded.
RequestsEnd ==
  \A r \in Requester :
    call[r].at = "hook" ~> call[r].at \in {"answered", "failed", "rejected"}
=============================================================================
