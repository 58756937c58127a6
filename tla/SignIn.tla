-------------------------------- MODULE SignIn --------------------------------
(***************************************************************************)
(* Signing in and presenting tokens: the authorization codes of the         *)
(* development identity provider, the exchange of a code for tokens, and    *)
(* the verification of a token against a cached, rotating key set.          *)
(*                                                                         *)
(* Code: internal/platform/authn (devidp.go, oidc.go, jwks.go, jwt.go).     *)
(* The issuer's rotation of its keys is external.                          *)
(*                                                                         *)
(* A login is one authorization request with its own nonce and PKCE         *)
(* verifier, and its code is named after it.  An exchange is one callback   *)
(* of the browser: it may be repeated, and it may carry the code of another *)
(* login.  Every lock the code takes, and every answer it waits for, is a   *)
(* step.                                                                   *)
(***************************************************************************)
EXTENDS Integers, FiniteSets, FiniteSetsExt

CONSTANTS
    Logins,
    Exchanges,    \* callbacks
    Kids,         \* key ids, in the order 1 .. of their rotation
    CodeTTL,      \* the life of a code
    GcTTL,        \* the age at which a code is dropped
    TokenTTL,     \* the life of a token
    ClockSkew,
    TTL,          \* how long a fetched key set is fresh
    MinRefresh,   \* the least time between a refresh and the next
    FetchTime,    \* the timeout of the client that fetches
    MaxClock,
    None

Clock == 0 .. MaxClock

ASSUME RangesAssumption ==
    /\ {CodeTTL, GcTTL, TokenTTL, ClockSkew, TTL, MinRefresh, FetchTime, MaxClock} \subseteq Nat
    /\ Kids \subseteq Nat /\ Kids # {}

Tokens == [kid: Nat, nonce: Logins, iat: Nat, exp: Nat]

ASSUME NoneAssumption == None \notin Nat \cup Logins \cup Tokens

\* minRefreshIn is 30 seconds, the timeout of the client 10.
ASSUME TimeoutAssumption == FetchTime <= MinRefresh

VARIABLES
    clock,
    withdrawn,    \* the issuer: when each key was withdrawn, and None while it is published
    signing,      \* the issuer: the key it signs with
    codes,        \* codes: by login
    began,        \* logins whose authorization request was answered with a code
    cache,        \* JWKSCache: the key set, fetchedAt, lastRefresh
    ex            \* each exchange: its step and what it holds

vars == <<clock, withdrawn, signing, codes, began, cache, ex>>

Published == {k \in DOMAIN withdrawn : withdrawn[k] = None}

Idle == [step |-> "new", login |-> None, code |-> None, token |-> None, src |-> {}, at |-> 0, old |-> FALSE]

Init ==
    /\ clock = 0
    /\ signing = Min(Kids) /\ withdrawn = [k \in {Min(Kids)} |-> None]
    /\ codes = [l \in {} |-> None] /\ began = {}
    /\ cache = [keys |-> {Min(Kids)}, at |-> 0]
    /\ ex = [e \in Exchanges |-> Idle]

----------------------------------------------------------------------------
(* The issuer. *)

\* A new key is published, and used from the next token on; then the old one is withdrawn.
PublishKey(k) ==
    /\ k \notin DOMAIN withdrawn /\ k - 1 \in Published
    /\ withdrawn' = [j \in DOMAIN withdrawn \cup {k} |-> IF j = k THEN None ELSE withdrawn[j]]
    /\ signing' = k
    /\ UNCHANGED <<clock, codes, began, cache, ex>>

WithdrawKey(k) ==
    /\ k \in Published /\ k < signing
    /\ withdrawn' = [withdrawn EXCEPT ![k] = clock]
    /\ UNCHANGED <<clock, signing, codes, began, cache, ex>>

----------------------------------------------------------------------------
(* The development identity provider. *)

gcCodes(cs) == {l \in DOMAIN cs : clock - cs[l].at <= GcTTL}

\* handleAuthorize: a code bound to the nonce and the challenge of the login.
Authorize(l) ==
    /\ l \notin began /\ began' = began \cup {l}
    /\ codes' = [m \in gcCodes(codes) \cup {l} |->
                    IF m = l THEN [at |-> clock, used |-> FALSE] ELSE codes[m]]
    /\ UNCHANGED <<clock, withdrawn, signing, cache, ex>>

Refuse(e) == ex' = [ex EXCEPT ![e] = [Idle EXCEPT !.step = "refused"]]

\* The code is looked up and not marked (mutation of Spend).
SpendNot(cs, l) == cs

Spend(cs, l) == [cs EXCEPT ![l].used = TRUE]

\* handleToken, under the lock: a code that was used or is stale is dropped, another is
\* spent, before the verifier is looked at.  The browser is that of login m.
Redeem(e, m, l) ==
    /\ ex[e].step = "new" /\ {m, l} \subseteq began
    /\ LET ok == l \in DOMAIN codes /\ ~codes[l].used /\ clock - codes[l].at <= CodeTTL
       IN IF ok THEN /\ codes' = Spend(codes, l)
                     /\ ex' = [ex EXCEPT ![e] = [Idle EXCEPT !.step = "redeemed", !.login = m, !.code = l]]
          ELSE /\ codes' = [x \in DOMAIN codes \ {l} |-> codes[x]]
               /\ Refuse(e)
    /\ UNCHANGED <<clock, withdrawn, signing, began, cache>>

\* The challenge of the code is that of the login it was made for.
VerifyPKCE(m, l) == m = l

\* The rest of handleToken: the tokens of the login the code was made for; or a refusal, of
\* another verifier or redirect_uri, or because the token could not be signed.
issueToken(e) ==
    LET l == ex[e].code
    IN /\ ex[e].step = "redeemed"
       /\ \/ /\ VerifyPKCE(ex[e].login, l)
             /\ ex' = [ex EXCEPT ![e] = [@ EXCEPT !.step = "verify",
                         !.token = [kid |-> signing, nonce |-> l, iat |-> clock, exp |-> clock + TokenTTL]]]
          \/ Refuse(e)
       /\ UNCHANGED <<clock, withdrawn, signing, codes, began, cache>>

\* The client never gets the answer: the code is spent all the same.
ExchangeFails(e) ==
    /\ ex[e].step = "verify" /\ Refuse(e)
    /\ UNCHANGED <<clock, withdrawn, signing, codes, began, cache>>

----------------------------------------------------------------------------
(* Verify: the key first, then the claims. *)

\* The claims are looked at before the key is asked for (mutation of validNow).
validAtStart(t, since) == since <= t.exp + ClockSkew /\ t.iat - ClockSkew <= since

validNow(t, since) == clock <= t.exp + ClockSkew /\ t.iat - ClockSkew <= clock

\* Verify of the client: the nonce is that of the login.
expectNonce(e) == ex[e].login

\* Issuer, audience, subject and expiry are there; an access token has no nonce to compare.
validateClaims(e) == validNow(ex[e].token, ex[e].at) /\ ex[e].token.nonce = expectNonce(e)

\* The key set is consulted and the token decided on; `old' tells of a set that may be
\* older than its TTL.
Decide(e, keys, old) ==
    IF ex[e].token.kid \in keys /\ validateClaims(e)
    THEN ex' = [ex EXCEPT ![e] = [@ EXCEPT !.step = "accepted", !.src = {}, !.at = clock, !.old = old]]
    ELSE Refuse(e)

\* The freshness of the set is not looked at (mutation of Fresh).
FreshAlways == TRUE

Fresh == clock - cache.at < TTL

\* The first part of PublicKey: a fresh set that has the key decides.
LookUp(e) ==
    /\ ex[e].step = "verify"
    /\ IF Fresh /\ ex[e].token.kid \in cache.keys THEN Decide(e, cache.keys, FALSE)
       ELSE ex' = [ex EXCEPT ![e] = [@ EXCEPT !.step = "miss", !.src = cache.keys, !.at = clock]]
    /\ UNCHANGED <<clock, withdrawn, signing, codes, began, cache>>

\* When a set was fetched lately there is no other fetch, and the one first read decides,
\* also when the fetch of another request has replaced it since.
Missed(e) ==
    /\ ex[e].step = "miss"
    /\ IF clock - cache.at >= MinRefresh THEN ex' = [ex EXCEPT ![e] = [@ EXCEPT !.step = "fetch", !.at = clock]]
       ELSE Decide(e, ex[e].src, TRUE)
    /\ UNCHANGED <<clock, withdrawn, signing, codes, began, cache>>

\* The issuer answers with what it publishes now, or with nothing that can be used.
Answer(e) ==
    /\ ex[e].step = "fetch"
    /\ \E keys \in {Published, {}} :
          ex' = [ex EXCEPT ![e] = [@ EXCEPT !.step = "answer", !.src = keys]]
    /\ UNCHANGED <<clock, withdrawn, signing, codes, began, cache>>

\* NewStaticKeySource skips malformed keys and refuses a set with no key left.
Usable(keys) == keys # {}

\* The answer is stored, whichever answer was stored before it.
Refresh(e) ==
    /\ ex[e].step = "answer" /\ Usable(ex[e].src)
    /\ cache' = [keys |-> ex[e].src, at |-> clock]
    /\ ex' = [ex EXCEPT ![e] = [@ EXCEPT !.step = "reread", !.src = {}]]
    /\ UNCHANGED <<clock, withdrawn, signing, codes, began>>

\* noteFailure: the set there is is used, however old.
RefreshFails(e) ==
    /\ ex[e].step \in {"fetch", "answer"}
    /\ ex' = [ex EXCEPT ![e] = [@ EXCEPT !.step = "reread", !.src = {}, !.old = TRUE]]
    /\ UNCHANGED <<clock, withdrawn, signing, codes, began, cache>>

\* The second look: whatever set is stored now decides.
Reread(e) ==
    /\ ex[e].step = "reread" /\ Decide(e, cache.keys, ex[e].old)
    /\ UNCHANGED <<clock, withdrawn, signing, codes, began, cache>>

\* The access token is presented again.
Present(e) ==
    /\ ex[e].step = "accepted"
    /\ ex' = [ex EXCEPT ![e] = [@ EXCEPT !.step = "verify", !.old = FALSE]]
    /\ UNCHANGED <<clock, withdrawn, signing, codes, began, cache>>

\* Time passes; what is under way is over within FetchTime.
Tick ==
    /\ clock < MaxClock /\ clock' = clock + 1
    /\ \A e \in Exchanges :
          ex[e].step \in {"miss", "fetch", "answer", "reread"} => clock - ex[e].at < FetchTime
    /\ UNCHANGED <<withdrawn, signing, codes, began, cache, ex>>

Next ==
    \/ \E k \in Kids : PublishKey(k) \/ WithdrawKey(k)
    \/ \E l \in Logins : Authorize(l)
    \/ \E e \in Exchanges : \/ \E m, l \in Logins : Redeem(e, m, l)
                            \/ issueToken(e) \/ ExchangeFails(e) \/ LookUp(e) \/ Missed(e) \/ Answer(e)
                            \/ Refresh(e) \/ RefreshFails(e) \/ Reread(e) \/ Present(e)
    \/ Tick

Spec == Init /\ [][Next]_vars

----------------------------------------------------------------------------
(* Properties. *)

Steps == {"new", "redeemed", "verify", "miss", "fetch", "answer", "reread", "accepted", "refused"}

Held == [step: Steps, login: Logins \cup {None}, code: Logins \cup {None},
         token: Tokens \cup {None}, src: SUBSET Nat, at: Nat, old: BOOLEAN]

\* The variables have their types, and what is cached or was answered was published once.
TypeOK ==
    /\ clock \in Nat
    /\ DOMAIN withdrawn \subseteq Nat /\ withdrawn \in [DOMAIN withdrawn -> Nat \cup {None}]
    /\ signing \in Published
    /\ cache \in [keys: SUBSET DOMAIN withdrawn, at: Nat] /\ cache.keys # {}
    /\ DOMAIN codes \subseteq began /\ began \subseteq Logins
    /\ codes \in [DOMAIN codes -> [at: Nat, used: BOOLEAN]]
    /\ ex \in [Exchanges -> Held]
    /\ \A e \in Exchanges : ex[e].src \subseteq DOMAIN withdrawn

\* A code is worth tokens once, however often and however close together the browser
\* repeats the callback, and only to the login it was made for (handleToken).
OneGrantPerCode ==
    \A e \in Exchanges : ex[e].token # None =>
        /\ ex[e].token.nonce = ex[e].login
        /\ \A f \in Exchanges \ {e} : ex[f].token # None => ex[f].code # ex[e].code

\* A token is accepted only while it is valid, though the key it needs may take time to
\* fetch (Verify: the key first, then the claims).
AcceptedWhileValid ==
    \A e \in Exchanges : ex[e].step = "accepted" => ex[e].at <= ex[e].token.exp + ClockSkew

\* A key the issuer has withdrawn is accepted no longer than a key set may be cached and
\* fetched, in whatever order answers come in, unless the fetch made for the token failed
\* or another request's fetch came between the two looks at the cache, which leaves the
\* set first read to decide (JWKSCache.PublicKey).
WithdrawnKeyEnds ==
    \A e \in Exchanges : ex[e].step = "accepted" /\ ~ex[e].old =>
        LET w == withdrawn[ex[e].token.kid]
        IN w # None => ex[e].at <= w + Max({TTL, MinRefresh}) + FetchTime
===============================================================================
