----------------------------- MODULE SignInProofs -----------------------------
(***************************************************************************)
(* Proofs about SignIn, for any logins, callbacks, keys and lives of codes, *)
(* tokens and key sets: a code is worth one grant, and a token is accepted  *)
(* neither when it has expired nor long after its key was withdrawn.        *)
(***************************************************************************)
EXTENDS SignIn, WellFoundedInduction, TLAPS

----------------------------------------------------------------------------
(* The inductive invariant. *)

\* A code that an exchange holds is spent: it is marked, or was dropped, and a login gets
\* no second code.
CodesSpent ==
    \A e \in Exchanges : ex[e].code # None =>
        ex[e].code \in began /\ (ex[e].code \in DOMAIN codes => codes[ex[e].code].used)

\* No two exchanges hold the same code.
CodesApart ==
    \A e, f \in Exchanges : e # f /\ ex[e].code # None => ex[e].code # ex[f].code

\* The tokens of an exchange are those of the code it redeemed, for its own login, and it
\* has one or the other while it goes on.
TokensOwn ==
    \A e \in Exchanges :
        /\ ex[e].token # None => /\ ex[e].code # None /\ ex[e].token.nonce = ex[e].code
                                 /\ ex[e].login = ex[e].code
        /\ ex[e].step = "redeemed" => ex[e].code # None
        /\ ex[e].step \in Steps \ {"new", "redeemed", "refused"} => ex[e].token # None

InFlight == {"miss", "fetch", "answer", "reread"}

\* What is under way began lately, and nothing happened in the future.
Timely ==
    /\ cache.at <= clock
    /\ \A e \in Exchanges : /\ ex[e].at <= clock
                            /\ ex[e].step \in InFlight => clock <= ex[e].at + FetchTime

\* A key that is cached was published when the fetch of the set began.
CacheRecent ==
    \A k \in cache.keys : withdrawn[k] # None => cache.at <= withdrawn[k] + FetchTime

\* The same of an answer that is not stored yet, and a set that was stored for an exchange
\* is not older than the fetch it made.
AnswersRecent ==
    \A e \in Exchanges :
        /\ ex[e].step = "answer" =>
              \A k \in ex[e].src : withdrawn[k] # None => ex[e].at <= withdrawn[k]
        /\ ex[e].step = "reread" /\ ~ex[e].old => ex[e].at <= cache.at

\* The key of a token that was accepted is one the issuer published.
AcceptedKnown ==
    \A e \in Exchanges : ex[e].step = "accepted" => ex[e].token.kid \in DOMAIN withdrawn

IInv ==
    /\ TypeOK /\ CodesSpent /\ CodesApart /\ TokensOwn
    /\ Timely /\ CacheRecent /\ AnswersRecent /\ AcceptedKnown
    /\ AcceptedWhileValid /\ WithdrawnKeyEnds

----------------------------------------------------------------------------
(* Constants. *)

LEMMA Naturals ==
    /\ CodeTTL \in Nat /\ GcTTL \in Nat /\ TokenTTL \in Nat /\ ClockSkew \in Nat
    /\ TTL \in Nat /\ MinRefresh \in Nat /\ FetchTime \in Nat /\ MaxClock \in Nat
  BY RangesAssumption

LEMMA Longest ==
    /\ Max({TTL, MinRefresh}) \in Nat
    /\ TTL <= Max({TTL, MinRefresh}) /\ FetchTime <= Max({TTL, MinRefresh})
  <1>1. TTL \in Nat /\ MinRefresh \in Nat /\ FetchTime \in Nat /\ FetchTime <= MinRefresh
    BY Naturals, TimeoutAssumption
  <1>2. \E x \in {TTL, MinRefresh} : \A y \in {TTL, MinRefresh} : x >= y
    BY <1>1
  <1>3. /\ Max({TTL, MinRefresh}) \in {TTL, MinRefresh}
        /\ \A y \in {TTL, MinRefresh} : Max({TTL, MinRefresh}) >= y
    BY <1>2 DEF Max
  <1> QED BY <1>1, <1>3

\* There is a first key.
LEMMA FirstKey == Min(Kids) \in Nat
  <1>1. PICK x \in Kids : \A y \in Kids : <<y, x>> \notin OpToRel(<, Nat)
    BY NatLessThanWellFounded, WFMin, RangesAssumption
  <1>2. \A y \in Kids : x <= y
    <2> TAKE y \in Kids
    <2>1. x \in Nat /\ y \in Nat
      BY RangesAssumption
    <2>2. ~(y < x)
      BY <1>1, <2>1 DEF OpToRel
    <2> QED BY <2>1, <2>2
  <1>3. Min(Kids) \in Kids
    BY <1>2 DEF Min
  <1> QED BY <1>3, RangesAssumption

----------------------------------------------------------------------------

LEMMA InitInv == Init => IInv
  <1> SUFFICES ASSUME Init PROVE IInv
    OBVIOUS
  <1>1. Idle \in Held /\ Idle.code = None /\ Idle.token = None /\ Idle.step = "new"
        /\ Idle.at = 0 /\ Idle.src = {}
    BY DEF Idle, Held, Steps
  <1>2. \A e \in Exchanges : ex[e] = Idle
    BY DEF Init
  <1> DEFINE m == Min(Kids)
  <1>3. m \in Nat /\ FetchTime \in Nat
    BY FirstKey, Naturals
  <1>4. /\ clock = 0 /\ signing = m /\ withdrawn = [k \in {m} |-> None]
        /\ DOMAIN codes = {} /\ began = {} /\ cache = [keys |-> {m}, at |-> 0]
        /\ ex \in [Exchanges -> Held] /\ codes \in [DOMAIN codes -> [at: Nat, used: BOOLEAN]]
    BY <1>1 DEF Init
  <1> HIDE DEF m
  <1>5. TypeOK
    BY <1>1, <1>2, <1>3, <1>4 DEF TypeOK, Published
  <1>6. CodesSpent /\ CodesApart /\ TokensOwn
    BY <1>1, <1>2 DEF CodesSpent, CodesApart, TokensOwn, Steps
  <1>7. Timely /\ CacheRecent
    BY <1>1, <1>2, <1>3, <1>4 DEF Timely, CacheRecent, InFlight
  <1>8. AnswersRecent /\ AcceptedKnown /\ AcceptedWhileValid /\ WithdrawnKeyEnds
    BY <1>1, <1>2 DEF AnswersRecent, AcceptedKnown, AcceptedWhileValid, WithdrawnKeyEnds
  <1> QED BY <1>5, <1>6, <1>7, <1>8 DEF IInv

----------------------------------------------------------------------------
(* One exchange moves on. *)

\* It suffices that what the exchange holds is right, and that codes stay spent and the
\* cache does not go back.
LEMMA ExStep ==
    ASSUME IInv, NEW e \in Exchanges, NEW h \in Held, ex' = [ex EXCEPT ![e] = h],
           UNCHANGED <<clock, withdrawn, signing, began>>,
           DOMAIN codes' \subseteq began, codes' \in [DOMAIN codes' -> [at: Nat, used: BOOLEAN]],
           \A l \in began : (l \in DOMAIN codes => codes[l].used) =>
                              (l \in DOMAIN codes' => codes'[l].used),
           cache' \in [keys: SUBSET DOMAIN withdrawn, at: Nat], cache'.keys # {},
           cache.at <= cache'.at, cache'.at <= clock,
           \A k \in cache'.keys : withdrawn[k] # None => cache'.at <= withdrawn[k] + FetchTime,
           h.src \subseteq DOMAIN withdrawn,
           h.code # None => h.code \in began /\ (h.code \in DOMAIN codes' => codes'[h.code].used),
           h.code # None => \A f \in Exchanges : f # e => ex[f].code # h.code,
           h.token # None => h.code # None /\ h.token.nonce = h.code /\ h.login = h.code,
           h.step = "redeemed" => h.code # None,
           h.step \in Steps \ {"new", "redeemed", "refused"} => h.token # None,
           h.at <= clock, h.step \in InFlight => clock <= h.at + FetchTime,
           h.step = "answer" => \A k \in h.src : withdrawn[k] # None => h.at <= withdrawn[k],
           h.step = "reread" /\ ~h.old => h.at <= cache'.at,
           h.step = "accepted" => h.token.kid \in DOMAIN withdrawn /\ h.at <= h.token.exp + ClockSkew,
           h.step = "accepted" /\ ~h.old /\ withdrawn[h.token.kid] # None =>
              h.at <= withdrawn[h.token.kid] + Max({TTL, MinRefresh}) + FetchTime
    PROVE  IInv'
  <1>1. ex \in [Exchanges -> Held] /\ ex' \in [Exchanges -> Held] /\ TypeOK
    BY DEF IInv, TypeOK
  <1>2. ex'[e] = h /\ \A f \in Exchanges : f # e => ex'[f] = ex[f]
    BY <1>1
  <1>3. TypeOK'
    <2>1. \A f \in Exchanges : ex'[f].src \subseteq DOMAIN withdrawn'
      BY <1>1, <1>2 DEF TypeOK
    <2> QED BY <1>1, <2>1 DEF TypeOK, Published
  <1>4. CodesSpent'
    <2> SUFFICES ASSUME NEW f \in Exchanges, ex'[f].code # None
                 PROVE  ex'[f].code \in began' /\
                          (ex'[f].code \in DOMAIN codes' => codes'[ex'[f].code].used)
      BY DEF CodesSpent
    <2>1. CASE f = e
      BY <1>2, <2>1
    <2>2. CASE f # e
      BY <1>2, <2>2 DEF IInv, CodesSpent
    <2> QED BY <2>1, <2>2
  <1>5. CodesApart'
    BY <1>2 DEF IInv, CodesApart
  <1>6. TokensOwn'
    <2> SUFFICES ASSUME NEW f \in Exchanges
                 PROVE  /\ ex'[f].token # None => /\ ex'[f].code # None
                                                  /\ ex'[f].token.nonce = ex'[f].code
                                                  /\ ex'[f].login = ex'[f].code
                        /\ ex'[f].step = "redeemed" => ex'[f].code # None
                        /\ ex'[f].step \in Steps \ {"new", "redeemed", "refused"} =>
                             ex'[f].token # None
      BY DEF TokensOwn
    <2>1. CASE f = e
      BY <1>2, <2>1
    <2>2. CASE f # e
      BY <1>2, <2>2 DEF IInv, TokensOwn
    <2> QED BY <2>1, <2>2
  <1>7. Timely'
    BY <1>2 DEF IInv, Timely
  <1>8. CacheRecent'
    BY DEF CacheRecent
  <1>9. AnswersRecent'
    <2> SUFFICES ASSUME NEW f \in Exchanges
                 PROVE  /\ ex'[f].step = "answer" =>
                             \A k \in ex'[f].src : withdrawn'[k] # None => ex'[f].at <= withdrawn'[k]
                        /\ ex'[f].step = "reread" /\ ~ex'[f].old => ex'[f].at <= cache'.at
      BY DEF AnswersRecent
    <2>1. CASE f = e
      BY <1>2, <2>1
    <2>2. CASE f # e
      <3>1. /\ ex[f].step = "answer" =>
                  \A k \in ex[f].src : withdrawn[k] # None => ex[f].at <= withdrawn[k]
            /\ ex[f].step = "reread" /\ ~ex[f].old => ex[f].at <= cache.at
        BY DEF IInv, AnswersRecent
      <3>2. ex[f].at \in Nat /\ cache.at \in Nat /\ cache'.at \in Nat
        BY <1>1 DEF Held, TypeOK
      <3> QED BY <1>2, <2>2, <3>1, <3>2
    <2> QED BY <2>1, <2>2
  <1>10. AcceptedKnown' /\ AcceptedWhileValid'
    BY <1>2 DEF IInv, AcceptedKnown, AcceptedWhileValid
  <1>11. WithdrawnKeyEnds'
    <2> SUFFICES ASSUME NEW f \in Exchanges, ex'[f].step = "accepted", ~ex'[f].old,
                        withdrawn[ex'[f].token.kid] # None
                 PROVE  ex'[f].at <= withdrawn[ex'[f].token.kid] + Max({TTL, MinRefresh}) + FetchTime
      BY DEF WithdrawnKeyEnds
    <2>1. CASE f = e
      BY <1>2, <2>1
    <2>2. CASE f # e
      BY <1>2, <2>2 DEF IInv, WithdrawnKeyEnds
    <2> QED BY <2>1, <2>2
  <1> QED BY <1>3, <1>4, <1>5, <1>6, <1>7, <1>8, <1>9, <1>10, <1>11 DEF IInv

\* What an exchange holds when only codes and the cache stay as they are.
LEMMA SameStep ==
    ASSUME IInv, UNCHANGED <<codes, cache>>
    PROVE  /\ DOMAIN codes' = DOMAIN codes
           /\ DOMAIN codes' \subseteq began /\ codes' \in [DOMAIN codes' -> [at: Nat, used: BOOLEAN]]
           /\ \A l \in began : (l \in DOMAIN codes => codes[l].used) =>
                                 (l \in DOMAIN codes' => codes'[l].used)
           /\ cache' \in [keys: SUBSET DOMAIN withdrawn, at: Nat] /\ cache'.keys # {}
           /\ cache.at <= cache'.at /\ cache'.at <= clock
           /\ \A k \in cache'.keys : withdrawn[k] # None => cache'.at <= withdrawn[k] + FetchTime
  <1>1. cache.at \in Nat
    BY DEF IInv, TypeOK
  <1>2. /\ DOMAIN codes \subseteq began /\ codes \in [DOMAIN codes -> [at: Nat, used: BOOLEAN]]
        /\ cache \in [keys: SUBSET DOMAIN withdrawn, at: Nat] /\ cache.keys # {}
    BY DEF IInv, TypeOK
  <1>3. /\ cache.at <= clock
        /\ \A k \in cache.keys : withdrawn[k] # None => cache.at <= withdrawn[k] + FetchTime
    BY DEF IInv, Timely, CacheRecent
  <1> QED BY <1>1, <1>2, <1>3

\* A refused exchange holds nothing.
LEMMA RefuseStep ==
    ASSUME IInv, NEW e \in Exchanges, Refuse(e),
           UNCHANGED <<clock, withdrawn, signing, began, cache>>,
           DOMAIN codes' \subseteq began, codes' \in [DOMAIN codes' -> [at: Nat, used: BOOLEAN]],
           \A l \in began : (l \in DOMAIN codes => codes[l].used) =>
                              (l \in DOMAIN codes' => codes'[l].used)
    PROVE  IInv'
  <1>0. PICK h : h = [Idle EXCEPT !.step = "refused"]
    OBVIOUS
  <1>1. /\ h \in Held /\ h.step = "refused" /\ h.code = None /\ h.token = None
        /\ h.src = {} /\ h.at = 0
    BY <1>0 DEF Idle, Held, Steps
  <1>2. ex' = [ex EXCEPT ![e] = h]
    BY <1>0 DEF Refuse
  <1>3. clock \in Nat /\ cache' = cache /\ cache.at \in Nat
    BY DEF IInv, TypeOK
  <1>4. h.at <= clock /\ h.step \notin InFlight /\ h.step # "accepted"
        /\ h.step \notin Steps \ {"new", "redeemed", "refused"}
    BY <1>1, <1>3 DEF InFlight
  <1>5. /\ cache' \in [keys: SUBSET DOMAIN withdrawn, at: Nat] /\ cache'.keys # {}
        /\ cache.at <= cache'.at /\ cache'.at <= clock
        /\ \A k \in cache'.keys : withdrawn[k] # None => cache'.at <= withdrawn[k] + FetchTime
    BY <1>3 DEF IInv, TypeOK, Timely, CacheRecent
  <1>6. h.src \subseteq DOMAIN withdrawn /\ h.step # "answer" /\ h.step # "reread"
    BY <1>1
  <1> QED BY <1>1, <1>2, <1>4, <1>5, <1>6, ExStep

\* The steps of a verification keep the code, the login and the tokens.
LEMMA MoveStep ==
    ASSUME IInv, NEW e \in Exchanges, NEW h \in Held, ex' = [ex EXCEPT ![e] = h],
           UNCHANGED <<clock, withdrawn, signing, began, codes>>,
           cache' \in [keys: SUBSET DOMAIN withdrawn, at: Nat], cache'.keys # {},
           cache.at <= cache'.at, cache'.at <= clock,
           \A k \in cache'.keys : withdrawn[k] # None => cache'.at <= withdrawn[k] + FetchTime,
           ex[e].step \in Steps \ {"new", "redeemed", "refused"},
           h.code = ex[e].code, h.token = ex[e].token, h.login = ex[e].login,
           h.src \subseteq DOMAIN withdrawn,
           h.at <= clock, h.step \in InFlight => clock <= h.at + FetchTime,
           h.step = "answer" => \A k \in h.src : withdrawn[k] # None => h.at <= withdrawn[k],
           h.step = "reread" /\ ~h.old => h.at <= cache'.at,
           h.step = "accepted" => h.token.kid \in DOMAIN withdrawn /\ h.at <= h.token.exp + ClockSkew,
           h.step = "accepted" /\ ~h.old /\ withdrawn[h.token.kid] # None =>
              h.at <= withdrawn[h.token.kid] + Max({TTL, MinRefresh}) + FetchTime
    PROVE  IInv'
  <1>1. /\ h.token # None /\ h.code # None /\ h.token.nonce = h.code /\ h.login = h.code
    BY DEF IInv, TokensOwn
  <1>2. h.code \in began /\ (h.code \in DOMAIN codes' => codes'[h.code].used)
    BY <1>1 DEF IInv, CodesSpent
  <1>3. \A f \in Exchanges : f # e => ex[f].code # h.code
    BY <1>1 DEF IInv, CodesApart
  <1>4. DOMAIN codes' \subseteq began /\ codes' \in [DOMAIN codes' -> [at: Nat, used: BOOLEAN]]
    BY DEF IInv, TypeOK
  <1>5. \A l \in began : (l \in DOMAIN codes => codes[l].used) =>
                           (l \in DOMAIN codes' => codes'[l].used)
    OBVIOUS
  <1> QED BY <1>1, <1>2, <1>3, <1>4, <1>5, ExStep

\* A token is accepted with a key of the set consulted, while its claims hold.
LEMMA DecideStep ==
    ASSUME IInv, NEW e \in Exchanges, NEW keys \in SUBSET DOMAIN withdrawn, NEW old \in BOOLEAN,
           Decide(e, keys, old), UNCHANGED <<clock, withdrawn, signing, codes, began, cache>>,
           ex[e].step \in Steps \ {"new", "redeemed", "refused"},
           ~old => \A k \in keys : withdrawn[k] # None =>
                      clock <= withdrawn[k] + Max({TTL, MinRefresh}) + FetchTime
    PROVE  IInv'
  <1>1. /\ DOMAIN codes' \subseteq began /\ codes' \in [DOMAIN codes' -> [at: Nat, used: BOOLEAN]]
        /\ \A l \in began : (l \in DOMAIN codes => codes[l].used) =>
                              (l \in DOMAIN codes' => codes'[l].used)
        /\ cache' \in [keys: SUBSET DOMAIN withdrawn, at: Nat] /\ cache'.keys # {}
        /\ cache.at <= cache'.at /\ cache'.at <= clock
        /\ \A k \in cache'.keys : withdrawn[k] # None => cache'.at <= withdrawn[k] + FetchTime
    BY SameStep
  <1>2. CASE Refuse(e)
    BY <1>1, <1>2, RefuseStep
  <1>3. CASE ~Refuse(e)
    <2>0. PICK h : h = [ex[e] EXCEPT !.step = "accepted", !.src = {}, !.at = clock, !.old = old]
      OBVIOUS
    <2>1. /\ ex' = [ex EXCEPT ![e] = h]
          /\ ex[e].token.kid \in keys /\ validateClaims(e)
      BY <1>3, <2>0 DEF Decide, IInv, TypeOK
    <2>2. ex[e] \in Held /\ clock \in Nat
      BY DEF IInv, TypeOK
    <2>3. /\ h \in Held /\ h.step = "accepted" /\ h.src = {} /\ h.at = clock /\ h.old = old
          /\ h.code = ex[e].code /\ h.token = ex[e].token /\ h.login = ex[e].login
      BY <2>0, <2>2 DEF Held, Steps
    <2>4. h.token.kid \in DOMAIN withdrawn /\ h.at <= h.token.exp + ClockSkew
      BY <2>1, <2>3 DEF validateClaims, validNow
    <2>5. ~h.old /\ withdrawn[h.token.kid] # None =>
             h.at <= withdrawn[h.token.kid] + Max({TTL, MinRefresh}) + FetchTime
      BY <2>1, <2>3
    <2>6. h.at <= clock /\ h.step \notin InFlight /\ h.step # "answer" /\ h.step # "reread"
          /\ h.src \subseteq DOMAIN withdrawn
      BY <2>2, <2>3 DEF InFlight
    <2> QED BY <1>1, <2>1, <2>3, <2>4, <2>5, <2>6, MoveStep
  <1> QED BY <1>2, <1>3

----------------------------------------------------------------------------
(* The steps of an exchange. *)

\* The code is spent before anything else is looked at, so no other exchange holds it.
LEMMA RedeemInv ==
    ASSUME IInv, NEW e \in Exchanges, NEW m \in Logins, NEW l \in Logins, Redeem(e, m, l)
    PROVE  IInv'
  <1>1. /\ UNCHANGED <<clock, withdrawn, signing, began, cache>> /\ {m, l} \subseteq began
        /\ DOMAIN codes \subseteq began /\ codes \in [DOMAIN codes -> [at: Nat, used: BOOLEAN]]
    BY DEF Redeem, IInv, TypeOK
  <1>2. CASE /\ l \in DOMAIN codes /\ ~codes[l].used
             /\ codes' = Spend(codes, l)
             /\ ex' = [ex EXCEPT ![e] = [Idle EXCEPT !.step = "redeemed", !.login = m, !.code = l]]
    <2>0. PICK h : h = [Idle EXCEPT !.step = "redeemed", !.login = m, !.code = l]
      OBVIOUS
    <2>1. /\ h \in Held /\ h.step = "redeemed" /\ h.code = l /\ h.token = None
          /\ h.src = {} /\ h.at = 0 /\ l # None
      BY <2>0, NoneAssumption DEF Idle, Held, Steps
    <2>2. ex' = [ex EXCEPT ![e] = h]
      BY <1>2, <2>0
    <2>3. /\ DOMAIN codes' = DOMAIN codes /\ codes' \in [DOMAIN codes -> [at: Nat, used: BOOLEAN]]
          /\ codes'[l].used /\ \A x \in DOMAIN codes : x # l => codes'[x] = codes[x]
      BY <1>1, <1>2 DEF Spend
    <2>4. \A x \in began : (x \in DOMAIN codes => codes[x].used) =>
                             (x \in DOMAIN codes' => codes'[x].used)
      BY <2>3
    <2>5. \A f \in Exchanges : ex[f].code # l
      <3> TAKE f \in Exchanges
      <3> QED BY <1>2, <2>1 DEF IInv, CodesSpent
    <2>6. /\ clock \in Nat /\ cache' = cache /\ cache.at \in Nat
          /\ h.at <= clock /\ h.step \notin InFlight /\ h.step # "accepted"
          /\ h.step \notin Steps \ {"new", "redeemed", "refused"}
          /\ h.step # "answer" /\ h.step # "reread" /\ h.src \subseteq DOMAIN withdrawn
      BY <1>1, <2>1 DEF InFlight, IInv, TypeOK
    <2>7. /\ cache' \in [keys: SUBSET DOMAIN withdrawn, at: Nat] /\ cache'.keys # {}
          /\ cache.at <= cache'.at /\ cache'.at <= clock
          /\ \A k \in cache'.keys : withdrawn[k] # None => cache'.at <= withdrawn[k] + FetchTime
      BY <2>6 DEF IInv, TypeOK, Timely, CacheRecent
    <2>8. l \in began
      BY <1>1
    <2> QED BY <1>1, <2>1, <2>2, <2>3, <2>4, <2>5, <2>6, <2>7, <2>8, ExStep
  <1>3. CASE Refuse(e) /\ codes' = [x \in DOMAIN codes \ {l} |-> codes[x]]
    BY <1>1, <1>3, RefuseStep
  <1> QED BY <1>2, <1>3 DEF Redeem

LEMMA issueTokenInv ==
    ASSUME IInv, NEW e \in Exchanges, issueToken(e) PROVE IInv'
  <1>1. UNCHANGED <<clock, withdrawn, signing, codes, began, cache>> /\ ex[e].step = "redeemed"
    BY DEF issueToken
  <1>2. /\ DOMAIN codes' \subseteq began /\ codes' \in [DOMAIN codes' -> [at: Nat, used: BOOLEAN]]
        /\ \A l \in began : (l \in DOMAIN codes => codes[l].used) =>
                              (l \in DOMAIN codes' => codes'[l].used)
        /\ cache' \in [keys: SUBSET DOMAIN withdrawn, at: Nat] /\ cache'.keys # {}
        /\ cache.at <= cache'.at /\ cache'.at <= clock
        /\ \A k \in cache'.keys : withdrawn[k] # None => cache'.at <= withdrawn[k] + FetchTime
    BY <1>1, SameStep
  <1>3. CASE Refuse(e)
    BY <1>1, <1>2, <1>3, RefuseStep
  <1>4. CASE ~Refuse(e)
    <2>0. PICK h : h = [ex[e] EXCEPT !.step = "verify",
                           !.token = [kid |-> signing, nonce |-> ex[e].code, iat |-> clock,
                                      exp |-> clock + TokenTTL]]
      OBVIOUS
    <2>1. ex' = [ex EXCEPT ![e] = h] /\ ex[e].login = ex[e].code
      BY <1>4, <2>0 DEF issueToken, VerifyPKCE, IInv, TypeOK
    <2>2. ex[e] \in Held /\ clock \in Nat /\ signing \in Nat /\ TokenTTL \in Nat
      BY Naturals DEF IInv, TypeOK, Published
    <2>3. ex[e].code # None
      BY <1>1 DEF IInv, TokensOwn
    <2>4. [kid |-> signing, nonce |-> ex[e].code, iat |-> clock, exp |-> clock + TokenTTL] \in Tokens
      BY <2>2, <2>3 DEF Tokens, Held
    <2>5. /\ h \in Held /\ h.step = "verify" /\ h.code = ex[e].code /\ h.login = ex[e].login
          /\ h.token.nonce = ex[e].code /\ h.src = ex[e].src /\ h.at = ex[e].at
          /\ h.token \in Tokens /\ h.token # None
      BY <2>0, <2>2, <2>4, NoneAssumption DEF Held, Steps, Tokens
    <2>6. /\ h.code \in began /\ (h.code \in DOMAIN codes' => codes'[h.code].used)
          /\ \A f \in Exchanges : f # e => ex[f].code # h.code
      BY <1>1, <2>3, <2>5 DEF IInv, CodesSpent, CodesApart
    <2>7. /\ h.at <= clock /\ h.step \notin InFlight /\ h.step # "accepted"
          /\ h.step # "answer" /\ h.step # "reread" /\ h.src \subseteq DOMAIN withdrawn
      BY <2>5 DEF IInv, TypeOK, Timely, InFlight
    <2> QED BY <1>1, <1>2, <2>1, <2>3, <2>5, <2>6, <2>7, ExStep
  <1> QED BY <1>3, <1>4

LEMMA ExchangeFailsInv ==
    ASSUME IInv, NEW e \in Exchanges, ExchangeFails(e) PROVE IInv'
  BY SameStep, RefuseStep DEF ExchangeFails

\* A set that is fresh was fetched within TTL, and published FetchTime before that.
LEMMA LookUpInv ==
    ASSUME IInv, NEW e \in Exchanges, LookUp(e) PROVE IInv'
  <1>1. UNCHANGED <<clock, withdrawn, signing, codes, began, cache>> /\ ex[e].step = "verify"
    BY DEF LookUp
  <1>2. /\ cache' \in [keys: SUBSET DOMAIN withdrawn, at: Nat] /\ cache'.keys # {}
        /\ cache.at <= cache'.at /\ cache'.at <= clock
        /\ \A k \in cache'.keys : withdrawn[k] # None => cache'.at <= withdrawn[k] + FetchTime
    BY <1>1, SameStep
  <1>3. /\ cache.keys \in SUBSET DOMAIN withdrawn /\ cache.at \in Nat /\ clock \in Nat
        /\ withdrawn \in [DOMAIN withdrawn -> Nat \cup {None}] /\ ex[e] \in Held
        /\ "verify" \in Steps \ {"new", "redeemed", "refused"}
    BY DEF IInv, TypeOK, Steps
  <1>4. CASE Fresh /\ Decide(e, cache.keys, FALSE)
    <2>1. ASSUME NEW k \in cache.keys, withdrawn[k] # None
          PROVE  clock <= withdrawn[k] + Max({TTL, MinRefresh}) + FetchTime
      <3>1. cache.at <= withdrawn[k] + FetchTime /\ withdrawn[k] \in Nat
        BY <1>3, <2>1 DEF IInv, CacheRecent
      <3>2. clock - cache.at < TTL
        BY <1>4 DEF Fresh
      <3> QED BY <1>3, <3>1, <3>2, Naturals, Longest
    <2> QED BY <1>1, <1>3, <1>4, <2>1, DecideStep
  <1>5. CASE ex' = [ex EXCEPT ![e] = [@ EXCEPT !.step = "miss", !.src = cache.keys, !.at = clock]]
    <2>0. PICK h : h = [ex[e] EXCEPT !.step = "miss", !.src = cache.keys, !.at = clock]
      OBVIOUS
    <2>1. ex' = [ex EXCEPT ![e] = h]
      BY <1>5, <2>0 DEF IInv, TypeOK
    <2>2. cache.keys \in SUBSET Nat
      BY <1>3 DEF IInv, TypeOK
    <2>3. /\ h \in Held /\ h.step = "miss" /\ h.src = cache.keys /\ h.at = clock
          /\ h.code = ex[e].code /\ h.token = ex[e].token /\ h.login = ex[e].login
      BY <1>3, <2>0, <2>2 DEF Held, Steps
    <2>4. h.at <= clock /\ clock <= h.at + FetchTime /\ h.src \subseteq DOMAIN withdrawn
          /\ h.step \notin {"answer", "reread", "accepted"}
      BY <1>3, <2>3, Naturals
    <2> QED BY <1>1, <1>2, <1>3, <2>1, <2>3, <2>4, MoveStep
  <1> QED BY <1>4, <1>5 DEF LookUp

LEMMA MissedInv ==
    ASSUME IInv, NEW e \in Exchanges, Missed(e) PROVE IInv'
  <1>1. UNCHANGED <<clock, withdrawn, signing, codes, began, cache>> /\ ex[e].step = "miss"
    BY DEF Missed
  <1>2. /\ cache' \in [keys: SUBSET DOMAIN withdrawn, at: Nat] /\ cache'.keys # {}
        /\ cache.at <= cache'.at /\ cache'.at <= clock
        /\ \A k \in cache'.keys : withdrawn[k] # None => cache'.at <= withdrawn[k] + FetchTime
    BY <1>1, SameStep
  <1>3. /\ ex[e] \in Held /\ ex[e].src \in SUBSET DOMAIN withdrawn /\ clock \in Nat
        /\ "miss" \in Steps \ {"new", "redeemed", "refused"}
    BY DEF IInv, TypeOK, Steps
  <1>4. CASE Decide(e, ex[e].src, TRUE)
    BY <1>1, <1>3, <1>4, DecideStep
  <1>5. CASE ex' = [ex EXCEPT ![e] = [@ EXCEPT !.step = "fetch", !.at = clock]]
    <2>0. PICK h : h = [ex[e] EXCEPT !.step = "fetch", !.at = clock]
      OBVIOUS
    <2>1. ex' = [ex EXCEPT ![e] = h]
      BY <1>5, <2>0 DEF IInv, TypeOK
    <2>2. /\ h \in Held /\ h.step = "fetch" /\ h.src = ex[e].src /\ h.at = clock
          /\ h.code = ex[e].code /\ h.token = ex[e].token /\ h.login = ex[e].login
      BY <1>3, <2>0 DEF Held, Steps
    <2>3. h.at <= clock /\ clock <= h.at + FetchTime /\ h.src \subseteq DOMAIN withdrawn
          /\ h.step \notin {"answer", "reread", "accepted"}
      BY <1>3, <2>2, Naturals
    <2> QED BY <1>1, <1>2, <1>3, <2>1, <2>2, <2>3, MoveStep
  <1> QED BY <1>4, <1>5 DEF Missed

\* The keys of an answer are published when it is given.
LEMMA AnswerInv ==
    ASSUME IInv, NEW e \in Exchanges, Answer(e) PROVE IInv'
  <1>1. UNCHANGED <<clock, withdrawn, signing, codes, began, cache>> /\ ex[e].step = "fetch"
    BY DEF Answer
  <1>2. /\ cache' \in [keys: SUBSET DOMAIN withdrawn, at: Nat] /\ cache'.keys # {}
        /\ cache.at <= cache'.at /\ cache'.at <= clock
        /\ \A k \in cache'.keys : withdrawn[k] # None => cache'.at <= withdrawn[k] + FetchTime
    BY <1>1, SameStep
  <1>3. /\ ex[e] \in Held /\ clock \in Nat /\ DOMAIN withdrawn \subseteq Nat
        /\ "fetch" \in Steps \ {"new", "redeemed", "refused"}
    BY DEF IInv, TypeOK, Steps
  <1>4. PICK keys \in {Published, {}} :
          ex' = [ex EXCEPT ![e] = [@ EXCEPT !.step = "answer", !.src = keys]]
    BY DEF Answer
  <1>5. keys \subseteq DOMAIN withdrawn /\ keys \in SUBSET Nat /\ \A k \in keys : withdrawn[k] = None
    BY <1>3, <1>4 DEF Published
  <1>6. PICK h : h = [ex[e] EXCEPT !.step = "answer", !.src = keys]
    OBVIOUS
  <1>7. ex' = [ex EXCEPT ![e] = h]
    BY <1>4, <1>6 DEF IInv, TypeOK
  <1>8. /\ h \in Held /\ h.step = "answer" /\ h.src = keys /\ h.at = ex[e].at
        /\ h.code = ex[e].code /\ h.token = ex[e].token /\ h.login = ex[e].login
    BY <1>3, <1>5, <1>6 DEF Held, Steps
  <1>9. ex[e].at <= clock /\ clock <= ex[e].at + FetchTime
    BY <1>1 DEF IInv, Timely, InFlight
  <1>10. h.step \notin {"reread", "accepted"} /\ h.src \subseteq DOMAIN withdrawn
         /\ \A k \in h.src : withdrawn[k] # None => h.at <= withdrawn[k]
    BY <1>5, <1>8
  <1> QED BY <1>1, <1>2, <1>3, <1>7, <1>8, <1>9, <1>10, MoveStep

\* An answer is stored within FetchTime of the fetch.
LEMMA RefreshInv ==
    ASSUME IInv, NEW e \in Exchanges, Refresh(e) PROVE IInv'
  <1>1. /\ UNCHANGED <<clock, withdrawn, signing, codes, began>> /\ ex[e].step = "answer"
        /\ cache' = [keys |-> ex[e].src, at |-> clock] /\ ex[e].src # {}
    BY DEF Refresh, Usable
  <1>2. /\ ex[e] \in Held /\ clock \in Nat /\ cache.at \in Nat /\ ex[e].at \in Nat
        /\ "answer" \in Steps \ {"new", "redeemed", "refused"}
        /\ ex[e].src \subseteq DOMAIN withdrawn
        /\ withdrawn \in [DOMAIN withdrawn -> Nat \cup {None}]
    BY DEF IInv, TypeOK, Steps, Held
  <1>3. /\ ex[e].at <= clock /\ clock <= ex[e].at + FetchTime /\ cache.at <= clock
        /\ \A k \in ex[e].src : withdrawn[k] # None => ex[e].at <= withdrawn[k]
    BY <1>1 DEF IInv, Timely, InFlight, AnswersRecent
  <1>4. cache'.keys = ex[e].src /\ cache'.at = clock
        /\ cache' \in [keys: SUBSET DOMAIN withdrawn, at: Nat]
    BY <1>1, <1>2
  <1>5. ASSUME NEW k \in cache'.keys, withdrawn[k] # None
        PROVE  cache'.at <= withdrawn[k] + FetchTime
    <2>1. ex[e].at <= withdrawn[k] /\ withdrawn[k] \in Nat
      BY <1>2, <1>3, <1>4, <1>5
    <2> QED BY <1>2, <1>3, <1>4, <2>1, Naturals
  <1>6. PICK h : h = [ex[e] EXCEPT !.step = "reread", !.src = {}]
    OBVIOUS
  <1>7. ex' = [ex EXCEPT ![e] = h]
    BY <1>6 DEF Refresh, IInv, TypeOK
  <1>8. /\ h \in Held /\ h.step = "reread" /\ h.src = {} /\ h.at = ex[e].at
        /\ h.code = ex[e].code /\ h.token = ex[e].token /\ h.login = ex[e].login
    BY <1>2, <1>6 DEF Held, Steps
  <1>9. h.step \notin {"answer", "accepted"} /\ h.src \subseteq DOMAIN withdrawn
        /\ cache.at <= cache'.at /\ cache'.at <= clock /\ h.at <= cache'.at
    BY <1>2, <1>3, <1>4, <1>8
  <1> QED BY <1>1, <1>2, <1>3, <1>4, <1>5, <1>7, <1>8, <1>9, MoveStep

LEMMA RefreshFailsInv ==
    ASSUME IInv, NEW e \in Exchanges, RefreshFails(e) PROVE IInv'
  <1>1. UNCHANGED <<clock, withdrawn, signing, codes, began, cache>> /\ ex[e].step \in {"fetch", "answer"}
    BY DEF RefreshFails
  <1>2. /\ cache' \in [keys: SUBSET DOMAIN withdrawn, at: Nat] /\ cache'.keys # {}
        /\ cache.at <= cache'.at /\ cache'.at <= clock
        /\ \A k \in cache'.keys : withdrawn[k] # None => cache'.at <= withdrawn[k] + FetchTime
    BY <1>1, SameStep
  <1>3. ex[e] \in Held /\ ex[e].step \in Steps \ {"new", "redeemed", "refused"}
    BY <1>1 DEF IInv, TypeOK, Steps
  <1>4. PICK h : h = [ex[e] EXCEPT !.step = "reread", !.src = {}, !.old = TRUE]
    OBVIOUS
  <1>5. ex' = [ex EXCEPT ![e] = h]
    BY <1>4 DEF RefreshFails, IInv, TypeOK
  <1>6. /\ h \in Held /\ h.step = "reread" /\ h.src = {} /\ h.at = ex[e].at /\ h.old = TRUE
        /\ h.code = ex[e].code /\ h.token = ex[e].token /\ h.login = ex[e].login
    BY <1>3, <1>4 DEF Held, Steps
  <1>7. ex[e].at <= clock /\ clock <= ex[e].at + FetchTime
    BY <1>1 DEF IInv, Timely, InFlight
  <1>8. h.step \notin {"answer", "accepted"} /\ h.src \subseteq DOMAIN withdrawn
    BY <1>6
  <1> QED BY <1>1, <1>2, <1>3, <1>5, <1>6, <1>7, <1>8, MoveStep

\* After a fetch of its own the set is not older than that fetch, whoever stored it: its
\* keys were published at most FetchTime before, and that was at most FetchTime ago.
LEMMA RereadInv ==
    ASSUME IInv, NEW e \in Exchanges, Reread(e) PROVE IInv'
  <1>1. /\ UNCHANGED <<clock, withdrawn, signing, codes, began, cache>> /\ ex[e].step = "reread"
        /\ Decide(e, cache.keys, ex[e].old)
    BY DEF Reread
  <1>2. /\ ex[e] \in Held /\ clock \in Nat /\ cache.at \in Nat /\ ex[e].at \in Nat
        /\ "reread" \in Steps \ {"new", "redeemed", "refused"} /\ ex[e].old \in BOOLEAN
        /\ cache.keys \in SUBSET DOMAIN withdrawn
        /\ withdrawn \in [DOMAIN withdrawn -> Nat \cup {None}]
    BY DEF IInv, TypeOK, Steps, Held
  <1>3. ASSUME ~ex[e].old, NEW k \in cache.keys, withdrawn[k] # None
        PROVE  clock <= withdrawn[k] + Max({TTL, MinRefresh}) + FetchTime
    <2>1. cache.at <= withdrawn[k] + FetchTime /\ withdrawn[k] \in Nat
      BY <1>2, <1>3 DEF IInv, CacheRecent
    <2>2. ex[e].at <= cache.at
      BY <1>1, <1>3 DEF IInv, AnswersRecent
    <2>3. clock <= ex[e].at + FetchTime
      BY <1>1 DEF IInv, Timely, InFlight
    <2> QED BY <1>2, <2>1, <2>2, <2>3, Naturals, Longest
  <1> QED BY <1>1, <1>2, <1>3, DecideStep

LEMMA PresentInv ==
    ASSUME IInv, NEW e \in Exchanges, Present(e) PROVE IInv'
  <1>1. UNCHANGED <<clock, withdrawn, signing, codes, began, cache>> /\ ex[e].step = "accepted"
    BY DEF Present
  <1>2. /\ cache' \in [keys: SUBSET DOMAIN withdrawn, at: Nat] /\ cache'.keys # {}
        /\ cache.at <= cache'.at /\ cache'.at <= clock
        /\ \A k \in cache'.keys : withdrawn[k] # None => cache'.at <= withdrawn[k] + FetchTime
    BY <1>1, SameStep
  <1>3. ex[e] \in Held /\ "accepted" \in Steps \ {"new", "redeemed", "refused"}
        /\ ex[e].src \subseteq DOMAIN withdrawn /\ ex[e].at <= clock
    BY DEF IInv, TypeOK, Steps, Timely
  <1>4. PICK h : h = [ex[e] EXCEPT !.step = "verify", !.old = FALSE]
    OBVIOUS
  <1>5. ex' = [ex EXCEPT ![e] = h]
    BY <1>4 DEF Present, IInv, TypeOK
  <1>6. /\ h \in Held /\ h.step = "verify" /\ h.src = ex[e].src /\ h.at = ex[e].at
        /\ h.code = ex[e].code /\ h.token = ex[e].token /\ h.login = ex[e].login
    BY <1>3, <1>4 DEF Held, Steps
  <1>7. h.step \notin InFlight /\ h.step \notin {"answer", "reread", "accepted"}
    BY <1>6 DEF InFlight
  <1> QED BY <1>1, <1>2, <1>3, <1>5, <1>6, <1>7, MoveStep

----------------------------------------------------------------------------
(* The issuer, new logins and time. *)

\* What does not depend on the keys or the time.
LEMMA GrantsStay ==
    ASSUME IInv, UNCHANGED <<codes, began, ex>>
    PROVE  CodesSpent' /\ CodesApart' /\ TokensOwn'
  BY DEF IInv, CodesSpent, CodesApart, TokensOwn

LEMMA PublishKeyInv ==
    ASSUME IInv, NEW k \in Kids, PublishKey(k) PROVE IInv'
  <1>1. /\ UNCHANGED <<clock, codes, began, cache, ex>> /\ signing' = k
        /\ k \notin DOMAIN withdrawn /\ k \in Nat
        /\ withdrawn' = [j \in DOMAIN withdrawn \cup {k} |-> IF j = k THEN None ELSE withdrawn[j]]
    BY RangesAssumption DEF PublishKey
  <1>2. TypeOK
    BY DEF IInv
  <1>3. /\ DOMAIN withdrawn' = DOMAIN withdrawn \cup {k} /\ withdrawn'[k] = None
        /\ \A j \in DOMAIN withdrawn : withdrawn'[j] = withdrawn[j]
        /\ withdrawn' \in [DOMAIN withdrawn' -> Nat \cup {None}]
    BY <1>1, <1>2 DEF TypeOK
  <1>4. TypeOK'
    <2>1. /\ signing' \in {j \in DOMAIN withdrawn' : withdrawn'[j] = None}
          /\ DOMAIN withdrawn' \subseteq Nat
      BY <1>1, <1>2, <1>3 DEF TypeOK
    <2>2. cache' \in [keys: SUBSET DOMAIN withdrawn', at: Nat] /\ cache'.keys # {}
      BY <1>1, <1>2, <1>3 DEF TypeOK
    <2>3. \A e \in Exchanges : ex'[e].src \subseteq DOMAIN withdrawn'
      BY <1>1, <1>2, <1>3 DEF TypeOK
    <2> QED BY <1>1, <1>2, <1>3, <2>1, <2>2, <2>3 DEF TypeOK, Published
  <1>5. CodesSpent' /\ CodesApart' /\ TokensOwn'
    BY <1>1, GrantsStay
  <1>6. Timely' /\ AcceptedWhileValid'
    BY <1>1 DEF IInv, Timely, AcceptedWhileValid
  <1>7. CacheRecent'
    BY <1>1, <1>2, <1>3 DEF IInv, CacheRecent, TypeOK
  <1>8. AnswersRecent'
    BY <1>1, <1>2, <1>3 DEF IInv, AnswersRecent, TypeOK
  <1>9. AcceptedKnown' /\ WithdrawnKeyEnds'
    BY <1>1, <1>3 DEF IInv, AcceptedKnown, WithdrawnKeyEnds
  <1> QED BY <1>4, <1>5, <1>6, <1>7, <1>8, <1>9 DEF IInv

\* A key that is withdrawn now was published until now, and nothing that relied on it lies
\* in the future.
LEMMA WithdrawKeyInv ==
    ASSUME IInv, NEW k \in Kids, WithdrawKey(k) PROVE IInv'
  <1>1. /\ UNCHANGED <<clock, signing, codes, began, cache, ex>>
        /\ k \in DOMAIN withdrawn /\ k < signing /\ k \in Nat
        /\ withdrawn' = [withdrawn EXCEPT ![k] = clock]
    BY RangesAssumption DEF WithdrawKey, Published
  <1>2. TypeOK /\ clock \in Nat /\ signing \in Nat /\ k # signing
    BY <1>1 DEF IInv, TypeOK, Published
  <1>3. /\ DOMAIN withdrawn' = DOMAIN withdrawn /\ withdrawn'[k] = clock
        /\ \A j \in DOMAIN withdrawn : j # k => withdrawn'[j] = withdrawn[j]
        /\ withdrawn' \in [DOMAIN withdrawn' -> Nat \cup {None}]
    BY <1>1, <1>2 DEF TypeOK
  <1>4. TypeOK'
    <2>1. signing' \in {j \in DOMAIN withdrawn' : withdrawn'[j] = None}
      BY <1>1, <1>2, <1>3 DEF TypeOK, Published
    <2> QED BY <1>1, <1>2, <1>3, <2>1 DEF TypeOK, Published
  <1>5. CodesSpent' /\ CodesApart' /\ TokensOwn'
    BY <1>1, GrantsStay
  <1>6. Timely' /\ AcceptedWhileValid'
    BY <1>1 DEF IInv, Timely, AcceptedWhileValid
  <1>7. CacheRecent'
    <2> SUFFICES ASSUME NEW j \in cache.keys, withdrawn'[j] # None
                 PROVE  cache.at <= withdrawn'[j] + FetchTime
      BY <1>1 DEF CacheRecent
    <2>1. cache.at \in Nat /\ j \in DOMAIN withdrawn /\ cache.at <= clock
      BY <1>2 DEF TypeOK, IInv, Timely
    <2>2. CASE j = k
      BY <1>2, <1>3, <2>1, <2>2, Naturals
    <2>3. CASE j # k
      BY <1>3, <2>1, <2>3 DEF IInv, CacheRecent
    <2> QED BY <2>2, <2>3
  <1>8. AnswersRecent'
    <2> SUFFICES ASSUME NEW e \in Exchanges, ex[e].step = "answer",
                        NEW j \in ex[e].src, withdrawn'[j] # None
                 PROVE  ex[e].at <= withdrawn'[j]
      BY <1>1 DEF IInv, AnswersRecent
    <2>1. j \in DOMAIN withdrawn /\ ex[e].at <= clock
      BY <1>2 DEF TypeOK, IInv, Timely
    <2>2. CASE j = k
      BY <1>3, <2>1, <2>2
    <2>3. CASE j # k
      BY <1>3, <2>1, <2>3 DEF IInv, AnswersRecent
    <2> QED BY <2>2, <2>3
  <1>9. AcceptedKnown'
    BY <1>1, <1>3 DEF IInv, AcceptedKnown
  <1>10. WithdrawnKeyEnds'
    <2> SUFFICES ASSUME NEW e \in Exchanges, ex[e].step = "accepted", ~ex[e].old,
                        withdrawn'[ex[e].token.kid] # None
                 PROVE  ex[e].at <= withdrawn'[ex[e].token.kid] + Max({TTL, MinRefresh}) + FetchTime
      BY <1>1 DEF WithdrawnKeyEnds
    <2>1. ex[e].token.kid \in DOMAIN withdrawn /\ ex[e].at <= clock /\ ex[e].at \in Nat
      BY <1>2 DEF IInv, AcceptedKnown, Timely, TypeOK, Held
    <2>2. CASE ex[e].token.kid = k
      BY <1>2, <1>3, <2>1, <2>2, Naturals, Longest
    <2>3. CASE ex[e].token.kid # k
      BY <1>3, <2>1, <2>3 DEF IInv, WithdrawnKeyEnds
    <2> QED BY <2>2, <2>3
  <1> QED BY <1>4, <1>5, <1>6, <1>7, <1>8, <1>9, <1>10 DEF IInv

\* A login gets one code, so none that an exchange holds is made anew.
LEMMA AuthorizeInv ==
    ASSUME IInv, NEW l \in Logins, Authorize(l) PROVE IInv'
  <1>1. /\ UNCHANGED <<clock, withdrawn, signing, cache, ex>>
        /\ l \notin began /\ began' = began \cup {l}
        /\ codes' = [m \in gcCodes(codes) \cup {l} |->
                       IF m = l THEN [at |-> clock, used |-> FALSE] ELSE codes[m]]
    BY DEF Authorize
  <1>2. TypeOK /\ clock \in Nat
    BY DEF IInv, TypeOK
  <1>3. gcCodes(codes) \subseteq DOMAIN codes /\ DOMAIN codes \subseteq began
    BY <1>2 DEF gcCodes, TypeOK
  <1>4. /\ DOMAIN codes' \subseteq DOMAIN codes \cup {l}
        /\ \A m \in DOMAIN codes' : m # l => codes'[m] = codes[m]
        /\ codes' \in [DOMAIN codes' -> [at: Nat, used: BOOLEAN]]
    BY <1>1, <1>2, <1>3 DEF TypeOK
  <1>5. TypeOK'
    BY <1>1, <1>2, <1>3, <1>4 DEF TypeOK, Published
  <1>6. CodesSpent'
    <2> SUFFICES ASSUME NEW e \in Exchanges, ex[e].code # None
                 PROVE  ex[e].code \in began' /\
                          (ex[e].code \in DOMAIN codes' => codes'[ex[e].code].used)
      BY <1>1 DEF CodesSpent
    <2>1. ex[e].code \in began /\ (ex[e].code \in DOMAIN codes => codes[ex[e].code].used)
      BY DEF IInv, CodesSpent
    <2>2. ex[e].code # l
      BY <1>1, <2>1
    <2> QED BY <1>1, <1>4, <2>1, <2>2
  <1>7. CodesApart' /\ TokensOwn'
    BY <1>1 DEF IInv, CodesApart, TokensOwn
  <1>8. Timely' /\ CacheRecent' /\ AnswersRecent'
    BY <1>1 DEF IInv, Timely, CacheRecent, AnswersRecent
  <1>9. AcceptedKnown' /\ AcceptedWhileValid' /\ WithdrawnKeyEnds'
    BY <1>1 DEF IInv, AcceptedKnown, AcceptedWhileValid, WithdrawnKeyEnds
  <1> QED BY <1>5, <1>6, <1>7, <1>8, <1>9 DEF IInv

LEMMA TickInv ==
    ASSUME IInv, Tick PROVE IInv'
  <1>1. /\ UNCHANGED <<withdrawn, signing, codes, began, cache, ex>> /\ clock' = clock + 1
        /\ \A e \in Exchanges : ex[e].step \in InFlight => clock - ex[e].at < FetchTime
    BY DEF Tick, InFlight
  <1>2. TypeOK /\ clock \in Nat
    BY DEF IInv, TypeOK
  <1>3. TypeOK'
    BY <1>1, <1>2 DEF TypeOK, Published
  <1>4. CodesSpent' /\ CodesApart' /\ TokensOwn'
    BY <1>1, GrantsStay
  <1>5. Timely'
    <2>1. cache.at \in Nat /\ FetchTime \in Nat /\ \A e \in Exchanges : ex[e].at \in Nat
      BY <1>2, Naturals DEF TypeOK, Held
    <2> QED BY <1>1, <1>2, <2>1 DEF IInv, Timely
  <1>6. CacheRecent' /\ AnswersRecent'
    BY <1>1 DEF IInv, CacheRecent, AnswersRecent
  <1>7. AcceptedKnown' /\ AcceptedWhileValid' /\ WithdrawnKeyEnds'
    BY <1>1 DEF IInv, AcceptedKnown, AcceptedWhileValid, WithdrawnKeyEnds
  <1> QED BY <1>3, <1>4, <1>5, <1>6, <1>7 DEF IInv

----------------------------------------------------------------------------
(* The theorems. *)

LEMMA NextInv == IInv /\ [Next]_vars => IInv'
  <1> SUFFICES ASSUME IInv, [Next]_vars PROVE IInv'
    OBVIOUS
  <1>1. CASE UNCHANGED vars
    <2>1. UNCHANGED <<clock, withdrawn, signing, codes, began, cache, ex>>
      BY <1>1 DEF vars
    <2>2. TypeOK'
      BY <2>1 DEF IInv, TypeOK, Published
    <2>3. CodesSpent' /\ CodesApart' /\ TokensOwn'
      BY <2>1, GrantsStay
    <2>4. Timely' /\ CacheRecent' /\ AnswersRecent'
      BY <2>1 DEF IInv, Timely, CacheRecent, AnswersRecent
    <2>5. AcceptedKnown' /\ AcceptedWhileValid' /\ WithdrawnKeyEnds'
      BY <2>1 DEF IInv, AcceptedKnown, AcceptedWhileValid, WithdrawnKeyEnds
    <2> QED BY <2>2, <2>3, <2>4, <2>5 DEF IInv
  <1>2. ASSUME NEW k \in Kids, PublishKey(k) \/ WithdrawKey(k) PROVE IInv'
    BY <1>2, PublishKeyInv, WithdrawKeyInv
  <1>3. ASSUME NEW l \in Logins, Authorize(l) PROVE IInv'
    BY <1>3, AuthorizeInv
  <1>4. ASSUME NEW e \in Exchanges, \E m, l \in Logins : Redeem(e, m, l) PROVE IInv'
    BY <1>4, RedeemInv
  <1>5. ASSUME NEW e \in Exchanges,
               \/ issueToken(e) \/ ExchangeFails(e) \/ LookUp(e) \/ Missed(e) \/ Answer(e)
               \/ Refresh(e) \/ RefreshFails(e) \/ Reread(e) \/ Present(e)
        PROVE  IInv'
    BY <1>5, issueTokenInv, ExchangeFailsInv, LookUpInv, MissedInv, AnswerInv, RefreshInv,
       RefreshFailsInv, RereadInv, PresentInv
  <1>6. CASE Tick
    BY <1>6, TickInv
  <1> QED BY <1>1, <1>2, <1>3, <1>4, <1>5, <1>6 DEF Next

LEMMA Inductive == Spec => []IInv
  BY InitInv, NextInv, PTL DEF Spec

\* The variables keep their types, and what is cached or was answered was published once.
THEOREM TypeCorrect == Spec => []TypeOK
  <1>1. IInv => TypeOK
    BY DEF IInv
  <1> QED BY <1>1, Inductive, PTL

\* A code is worth tokens once and only to the login it was made for, however many callbacks
\* repeat it or carry another's: handleToken spends it under the lock, before it looks at
\* the verifier.
THEOREM OneGrant == Spec => []OneGrantPerCode
  <1>1. IInv => OneGrantPerCode
    BY DEF IInv, TokensOwn, CodesApart, OneGrantPerCode
  <1> QED BY <1>1, Inductive, PTL

\* A token is accepted only while it is valid, however long its key took to fetch.
THEOREM NeverAcceptedLate == Spec => []AcceptedWhileValid
  <1>1. IInv => AcceptedWhileValid
    BY DEF IInv
  <1> QED BY <1>1, Inductive, PTL

\* In whatever order fetches begin, answer and store, a withdrawn key is accepted no longer
\* than a set may be cached and fetched: it needs the client's timeout to be shorter than
\* the least time between two refreshes, as it is.
THEOREM WithdrawnKeysEnd == Spec => []WithdrawnKeyEnds
  <1>1. IInv => WithdrawnKeyEnds
    BY DEF IInv
  <1> QED BY <1>1, Inductive, PTL

===============================================================================
