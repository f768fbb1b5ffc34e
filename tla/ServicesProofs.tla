--------------------------- MODULE ServicesProofs ----------------------------
(***************************************************************************)
(* Proofs about the parts of Services, for any numbers of channels,        *)
(* sessions, keys, shares, jobs, streams, requests in progress and         *)
(* requests to come.                                                       *)
(***************************************************************************)
EXTENDS Services, FiniteSetTheorems, WellFoundedInduction, TLAPS

-----------------------------------------------------------------------------
(* Sessions and API keys.  RevocationHolds is inductive among states of    *)
(* the right types: what a revocation under way still has to drop from the *)
(* cache is told by where it is.                                           *)

CheckOK(c) ==
  /\ c \in [st : {"idle", "read", "fill", "readkey", "pick", "fillkey", "uncache", "pattern", "rotate"},
            s : Session \cup {NoSession}, k : APIKey \cup {NoSession}]
  /\ c.st \in {"read", "fill", "fillkey", "uncache", "rotate"} => c.s \in Session
  /\ c.st \in {"readkey", "pick", "fillkey"} => c.k \in APIKey

SeTypes ==
  /\ session \in [Session -> {"none", "live", "revoked"}] /\ bySession \subseteq Session
  /\ key \in [APIKey -> {"none", "live", "expired", "revoked"}]
  /\ byKey \in [APIKey -> Session \cup {NoSession}]
  /\ refresh \subseteq Session
  /\ DOMAIN check = Checker /\ check = [p \in Checker |-> check[p]]
  /\ \A p \in Checker : CheckOK(check[p])

SeInv == SeTypes /\ RevocationHolds

LEMMA SessionsInit == SeInit => SeInv
BY SessionsAssumption DEF SeInit, SeInv, SeTypes, RevocationHolds, CheckOK, NoCheck

\* A request that goes on from c to d: what others have yet to do, they still have.
LEMMA PendingKept ==
  ASSUME SeTypes, NEW p \in Checker, NEW d, check' = [check EXCEPT ![p] = d],
         NEW st, NEW s, NEW k, Pending(st, s, k), check[p] # [st |-> st, s |-> s, k |-> k]
  PROVE  Pending(st, s, k)'
BY DEF Pending, SeTypes

LEMMA PendingNew ==
  ASSUME SeTypes, NEW p \in Checker, NEW st, NEW s, NEW k,
         check' = [check EXCEPT ![p] = [st |-> st, s |-> s, k |-> k]]
  PROVE  Pending(st, s, k)'
BY DEF Pending, SeTypes

\* Steps of a check up to the moment it fills the cache.
LEMMA CheckGoesOn ==
  ASSUME SeInv, NEW p \in Checker, check[p].st \notin {"uncache", "pattern"},
         NEW d, CheckOK(d), check' = [check EXCEPT ![p] = d],
         UNCHANGED <<session, key, bySession, byKey, refresh, stale>>
  PROVE  SeInv'
<1>1. ASSUME NEW st \in {"uncache", "pattern"}, NEW s, NEW k, Pending(st, s, k)
      PROVE  Pending(st, s, k)'
  <2>1. [st |-> st, s |-> s, k |-> k].st = st
    OBVIOUS
  <2>2. check[p] # [st |-> st, s |-> s, k |-> k]
    BY <2>1
  <2> QED  BY <1>1, <2>2, PendingKept DEF SeInv
<1>2. SeTypes'
  BY DEF SeInv, SeTypes
<1>3. RevocationHolds'
  BY <1>1 DEF SeInv, RevocationHolds
<1> QED  BY <1>2, <1>3 DEF SeInv

LEMMA ChecksStep ==
  ASSUME SeInv, NEW p \in Checker,
         \/ \E s \in Session : VerifyUser(p, s) \/ Refresh(p, s)
         \/ \E k \in APIKey : VerifyAPIKey(p, k)
         \/ ReadSession(p) \/ ReadKey(p) \/ PickSession(p)
  PROVE  SeInv'
<1>1. CheckOK(check[p]) /\ CheckOK(NoCheck)
  BY DEF SeInv, SeTypes, CheckOK, NoCheck
<1>2. ASSUME NEW st, NEW s \in Session \cup {NoSession}, NEW k \in APIKey \cup {NoSession},
             \/ st = "read" /\ s \in Session
             \/ st = "rotate" /\ s \in Session
             \/ st = "readkey" /\ k \in APIKey,
             Starts(p, st, s, k), UNCHANGED <<session, key, bySession, byKey, refresh, stale>>
      PROVE  SeInv'
  <2>1. CheckOK([st |-> st, s |-> s, k |-> k])
    BY <1>2 DEF CheckOK
  <2> QED  BY <1>2, <2>1, CheckGoesOn DEF Starts
<1>3. ASSUME Ends(p), check[p].st \in {"read", "readkey", "pick"},
             UNCHANGED <<session, key, bySession, byKey, refresh, stale>>
      PROVE  SeInv'
  BY <1>1, <1>3, CheckGoesOn DEF Ends
<1>4. CASE \E s \in Session : VerifyUser(p, s) \/ Refresh(p, s)
  BY <1>2, <1>4 DEF VerifyUser, Refresh
<1>5. CASE \E k \in APIKey : VerifyAPIKey(p, k)
  BY <1>2, <1>5 DEF VerifyAPIKey
<1>6. CASE ReadSession(p)
  <2>1. CASE Goes(p, "fill") /\ check[p].st = "read"
    <3>1. CheckOK([check[p] EXCEPT !.st = "fill"])
      BY <1>1, <2>1 DEF CheckOK
    <3> QED  BY <1>6, <2>1, <3>1, CheckGoesOn DEF ReadSession, Goes, SeInv, SeTypes
  <2> QED  BY <1>3, <1>6, <2>1 DEF ReadSession
<1>7. CASE ReadKey(p)
  <2>1. CASE Goes(p, "pick") /\ check[p].st = "readkey"
    <3>1. CheckOK([check[p] EXCEPT !.st = "pick"])
      BY <1>1, <2>1 DEF CheckOK
    <3> QED  BY <1>7, <2>1, <3>1, CheckGoesOn DEF ReadKey, Goes, SeInv, SeTypes
  <2> QED  BY <1>3, <1>7, <2>1 DEF ReadKey
<1>8. CASE PickSession(p)
  <2>1. ASSUME NEW s \in Session, check[p].st = "pick",
               check' = [check EXCEPT ![p].st = "fillkey", ![p].s = s]
        PROVE  SeInv'
    <3>1. PICK d : d = [check[p] EXCEPT !.st = "fillkey", !.s = s]
      OBVIOUS
    <3>2. CheckOK(d)
      BY <1>1, <2>1, <3>1 DEF CheckOK
    <3>3. check' = [check EXCEPT ![p] = d]
      BY <2>1, <3>1 DEF SeInv, SeTypes
    <3>4. UNCHANGED <<session, key, bySession, byKey, refresh, stale>>
      BY <1>8 DEF PickSession
    <3> QED  BY <2>1, <3>2, <3>3, <3>4, CheckGoesOn
  <2> QED  BY <1>3, <1>8, <2>1 DEF PickSession
<1> QED  BY <1>4, <1>5, <1>6, <1>7, <1>8

\* A check fills the cache with what it has read; what was revoked meanwhile, and
\* is no longer about to be dropped, is recorded as stale.
LEMMA FillsStep ==
  ASSUME SeInv, NEW p \in Checker, FillSession(p) \/ FillKey(p) PROVE SeInv'
<1>1. CheckOK(check[p]) /\ CheckOK(NoCheck)
  BY DEF SeInv, SeTypes, CheckOK, NoCheck
<1>2. Ends(p) /\ check[p].st \in {"fill", "fillkey"} /\ UNCHANGED <<session, key, refresh>>
  BY DEF FillSession, FillKey
<1>3. ASSUME NEW st \in {"uncache", "pattern"}, NEW s, NEW k, Pending(st, s, k)
      PROVE  Pending(st, s, k)'
  <2>1. [st |-> st, s |-> s, k |-> k].st = st
    OBVIOUS
  <2>2. check[p] # [st |-> st, s |-> s, k |-> k]
    BY <1>2, <2>1
  <2> QED  BY <1>2, <1>3, <2>2, PendingKept DEF SeInv, Ends
<1>4. CASE FillSession(p)
  <2>1. PICK s : s = check[p].s /\ s \in Session
    BY <1>1, <1>4 DEF FillSession, CheckOK
  <2>2. /\ bySession' = bySession \cup {s} /\ byKey' = byKey
        /\ stale' = IF session[s] = "revoked" /\ ~Pending("uncache", s, NoSession)
                    THEN stale \cup {s} ELSE stale
    BY <1>4, <2>1 DEF FillSession
  <2>3. SeTypes'
    BY <1>1, <1>2, <2>1, <2>2 DEF SeInv, SeTypes, Ends
  <2>4. stale \subseteq stale'
    BY <2>2
  <2>5. \A t \in bySession' : session[t] = "revoked" /\ t \notin stale' => Pending("uncache", t, NoSession)
    BY <2>2 DEF SeInv, RevocationHolds
  <2>6. RevocationHolds'
    BY <1>2, <1>3, <2>2, <2>4, <2>5 DEF SeInv, RevocationHolds
  <2> QED  BY <2>3, <2>6 DEF SeInv
<1>5. CASE FillKey(p)
  <2>1. PICK s, k : s = check[p].s /\ k = check[p].k /\ s \in Session /\ k \in APIKey
    BY <1>1, <1>5 DEF FillKey, CheckOK
  <2>2. /\ bySession' = bySession /\ byKey' = [byKey EXCEPT ![k] = s]
        /\ stale' = IF TooLate(s, k) THEN stale \cup {k} ELSE stale \ {k}
    BY <1>5, <2>1 DEF FillKey
  <2>3. SeTypes'
    BY <1>1, <1>2, <2>1, <2>2 DEF SeInv, SeTypes, Ends
  <2>4. stale \ {k} \subseteq stale' /\ k \notin Session
    BY <2>1, <2>2, SessionsAssumption
  <2>5. ASSUME NEW l \in APIKey \ stale', byKey'[l] # NoSession
        PROVE  /\ session[byKey'[l]] = "revoked"
                    => Pending("uncache", byKey'[l], NoSession) \/ Pending("pattern", byKey'[l], NoSession)
               /\ key[l] = "revoked" => Pending("pattern", NoSession, l)
    <3>1. CASE l = k
      <4>1. byKey'[l] = s
        BY <2>1, <2>2, <3>1 DEF SeInv, SeTypes
      <4>2. ~TooLate(s, k)
        BY <2>2, <2>5, <3>1
      <4> QED  BY <3>1, <4>1, <4>2 DEF TooLate
    <3>2. CASE l # k
      <4>1. byKey'[l] = byKey[l] /\ l \notin stale
        BY <2>2, <2>4, <2>5, <3>2 DEF SeInv, SeTypes
      <4> QED  BY <2>5, <4>1 DEF SeInv, RevocationHolds
    <3> QED  BY <3>1, <3>2
  <2>6. \A t \in bySession : t \notin stale' => t \notin stale
    BY <2>4 DEF SeInv, SeTypes
  <2>7. RevocationHolds'
    BY <1>2, <1>3, <2>2, <2>5, <2>6 DEF SeInv, RevocationHolds
  <2> QED  BY <2>3, <2>7 DEF SeInv
<1> QED  BY <1>4, <1>5

\* A revocation writes the table, then drops what is cached, in steps.
LEMMA RevokesStep ==
  ASSUME SeInv, NEW p \in Checker,
         \/ \E s \in Session : RevokeSession(p, s)
         \/ \E k \in APIKey : RevokeKey(p, k)
  PROVE  SeInv'
<1>1. ASSUME NEW st, NEW s, NEW k, check[p].st = "idle", NEW d, check' = [check EXCEPT ![p] = d],
             NEW su \in {"uncache", "pattern"}, Pending(su, s, k)
      PROVE  Pending(su, s, k)'
  <2>1. [st |-> su, s |-> s, k |-> k].st = su
    OBVIOUS
  <2>2. check[p] # [st |-> su, s |-> s, k |-> k]
    BY <1>1, <2>1
  <2> QED  BY <1>1, <2>2, PendingKept DEF SeInv
<1>2. ASSUME NEW s \in Session, RevokeSession(p, s) PROVE SeInv'
  <2>1. /\ check[p].st = "idle"
        /\ check' = [check EXCEPT ![p] = [st |-> "uncache", s |-> s, k |-> NoSession]]
        /\ session' = [session EXCEPT ![s] = "revoked"] /\ refresh' = refresh \ {s}
        /\ UNCHANGED <<key, bySession, byKey, stale>>
    BY <1>2 DEF RevokeSession, Starts
  <2>2. Pending("uncache", s, NoSession)'
    BY <2>1, PendingNew DEF SeInv
  <2>3. CheckOK([st |-> "uncache", s |-> s, k |-> NoSession])
    BY DEF CheckOK
  <2>4. SeTypes'
    BY <2>1, <2>3 DEF SeInv, SeTypes
  <2>5. \A su \in {"uncache", "pattern"} : \A t, k : Pending(su, t, k) => Pending(su, t, k)'
    BY <1>1, <2>1
  <2>6. \A t \in Session : t # s => session'[t] = session[t]
    BY <2>1 DEF SeInv, SeTypes
  <2>7. \A t \in refresh' : session'[t] # "revoked"
    BY <2>1, <2>6 DEF SeInv, SeTypes, RevocationHolds
  <2>8. \A t \in bySession : session'[t] = "revoked" /\ t \notin stale => Pending("uncache", t, NoSession)'
    BY <2>2, <2>5, <2>6 DEF SeInv, SeTypes, RevocationHolds
  <2>9. ASSUME NEW k \in APIKey \ stale, byKey[k] # NoSession
        PROVE  /\ session'[byKey[k]] = "revoked"
                    => Pending("uncache", byKey[k], NoSession)' \/ Pending("pattern", byKey[k], NoSession)'
               /\ key[k] = "revoked" => Pending("pattern", NoSession, k)'
    <3>1. PICK t \in Session : t = byKey[k]
      BY <2>9 DEF SeInv, SeTypes
    <3>2. /\ session[t] = "revoked"
               => Pending("uncache", t, NoSession) \/ Pending("pattern", t, NoSession)
          /\ key[k] = "revoked" => Pending("pattern", NoSession, k)
      BY <2>9, <3>1 DEF SeInv, RevocationHolds
    <3>3. /\ Pending("uncache", t, NoSession) => Pending("uncache", t, NoSession)'
          /\ Pending("pattern", t, NoSession) => Pending("pattern", t, NoSession)'
          /\ Pending("pattern", NoSession, k) => Pending("pattern", NoSession, k)'
      BY <2>5
    <3>4. session'[t] = "revoked"
            => Pending("uncache", t, NoSession)' \/ Pending("pattern", t, NoSession)'
      <4>1. CASE t = s
        BY <2>2, <4>1
      <4>2. CASE t # s
        BY <2>6, <3>2, <3>3, <4>2
      <4> QED  BY <4>1, <4>2
    <3>5. key[k] = "revoked" => Pending("pattern", NoSession, k)'
      BY <3>2, <3>3
    <3>6. session'[byKey[k]] = "revoked"
            => Pending("uncache", byKey[k], NoSession)' \/ Pending("pattern", byKey[k], NoSession)'
      BY <2>1, <3>1, <3>4
    <3> QED  BY <3>5, <3>6
  <2>10. RevocationHolds'
    BY <2>1, <2>7, <2>8, <2>9 DEF RevocationHolds
  <2> QED  BY <2>4, <2>10 DEF SeInv
<1>3. ASSUME NEW k \in APIKey, RevokeKey(p, k) PROVE SeInv'
  <2>1. /\ check[p].st = "idle"
        /\ check' = [check EXCEPT ![p] = [st |-> "pattern", s |-> NoSession, k |-> k]]
        /\ key' = [key EXCEPT ![k] = "revoked"]
        /\ UNCHANGED <<session, bySession, byKey, stale, refresh>>
    BY <1>3 DEF RevokeKey, Starts
  <2>2. Pending("pattern", NoSession, k)'
    BY <2>1, PendingNew DEF SeInv
  <2>3. CheckOK([st |-> "pattern", s |-> NoSession, k |-> k])
    BY DEF CheckOK
  <2>4. SeTypes'
    BY <2>1, <2>3 DEF SeInv, SeTypes
  <2>5. \A su \in {"uncache", "pattern"} : \A t, l : Pending(su, t, l) => Pending(su, t, l)'
    BY <1>1, <2>1
  <2>6. \A l \in APIKey : l # k => key'[l] = key[l]
    BY <2>1 DEF SeInv, SeTypes
  <2>7. RevocationHolds'
    BY <2>1, <2>2, <2>5, <2>6 DEF SeInv, RevocationHolds
  <2> QED  BY <2>4, <2>7 DEF SeInv
<1> QED  BY <1>2, <1>3

LEMMA DropsStep ==
  ASSUME SeInv, NEW p \in Checker, UncacheSession(p) \/ UncacheKeys(p) \/ RotateToken(p)
  PROVE  SeInv'
<1>1. CheckOK(check[p]) /\ CheckOK(NoCheck)
  BY DEF SeInv, SeTypes, CheckOK, NoCheck
<1>2. CASE UncacheSession(p)
  <2>1. PICK s, d : s = check[p].s /\ s \in Session /\ d = [check[p] EXCEPT !.st = "pattern"]
    BY <1>1, <1>2 DEF UncacheSession, CheckOK
  <2>2. /\ check[p].st = "uncache" /\ check' = [check EXCEPT ![p] = d]
        /\ \/ bySession' = bySession \ {s} /\ stale' = stale \ {s}
           \/ bySession' = bySession /\ stale' = stale \cup ({s} \cap bySession)
        /\ UNCHANGED <<session, key, byKey, refresh>>
    BY <1>2, <2>1 DEF UncacheSession, Goes, SeInv, SeTypes
  <2>3. CheckOK(d)
    BY <1>1, <2>1, <2>2 DEF CheckOK
  <2>4. SeTypes'
    BY <2>2, <2>3 DEF SeInv, SeTypes
  <2>5. ASSUME NEW t, NEW k, Pending("pattern", t, k) PROVE Pending("pattern", t, k)'
    <3>1. [st |-> "pattern", s |-> t, k |-> k].st = "pattern"
      OBVIOUS
    <3>2. check[p] # [st |-> "pattern", s |-> t, k |-> k]
      BY <2>2, <3>1
    <3> QED  BY <2>2, <2>5, <3>2, PendingKept DEF SeInv
  <2>6. ASSUME NEW t, t # s, Pending("uncache", t, NoSession) PROVE Pending("uncache", t, NoSession)'
    <3>1. [st |-> "uncache", s |-> t, k |-> NoSession].s = t
      OBVIOUS
    <3>2. check[p] # [st |-> "uncache", s |-> t, k |-> NoSession]
      BY <2>1, <2>6, <3>1
    <3> QED  BY <2>2, <2>6, <3>2, PendingKept DEF SeInv
  <2>7. ASSUME Pending("uncache", s, NoSession)
        PROVE  Pending("uncache", s, NoSession)' \/ Pending("pattern", s, NoSession)'
    <3>1. CASE check[p] = [st |-> "uncache", s |-> s, k |-> NoSession]
      <4>1. d = [st |-> "pattern", s |-> s, k |-> NoSession]
        BY <2>1, <3>1
      <4> QED  BY <2>2, <4>1, PendingNew DEF SeInv
    <3>2. CASE check[p] # [st |-> "uncache", s |-> s, k |-> NoSession]
      BY <2>2, <2>7, <3>2, PendingKept DEF SeInv
    <3> QED  BY <3>1, <3>2
  <2>8. \A t \in bySession' : t \notin stale' => t \in bySession /\ t # s /\ t \notin stale
    BY <2>2
  <2>9. \A k \in APIKey : k \notin stale' => k \notin stale
    BY <2>1, <2>2, SessionsAssumption
  <2>10. RevocationHolds'
    BY <2>2, <2>5, <2>6, <2>7, <2>8, <2>9 DEF SeInv, RevocationHolds
  <2> QED  BY <2>4, <2>10 DEF SeInv
<1>3. CASE UncacheKeys(p)
  <2>1. PICK kept \in SUBSET APIKey :
          /\ byKey' = [k \in APIKey |-> IF k \in APIKey \ kept THEN NoSession ELSE byKey[k]]
          /\ stale' = (stale \ (APIKey \ kept)) \cup {k \in kept : Outlives(k)}
    BY <1>3 DEF UncacheKeys, EveryKey
  <2>2. /\ check[p].st = "pattern" /\ check' = [check EXCEPT ![p] = NoCheck]
        /\ UNCHANGED <<session, key, bySession, refresh>>
    BY <1>3 DEF UncacheKeys, Ends
  <2>3. SeTypes'
    BY <1>1, <2>1, <2>2 DEF SeInv, SeTypes
  <2>4. ASSUME NEW t, Pending("uncache", t, NoSession) PROVE Pending("uncache", t, NoSession)'
    <3>1. [st |-> "uncache", s |-> t, k |-> NoSession].st = "uncache"
      OBVIOUS
    <3>2. check[p] # [st |-> "uncache", s |-> t, k |-> NoSession]
      BY <2>2, <3>1
    <3> QED  BY <2>2, <2>4, <3>2, PendingKept DEF SeInv
  <2>5. \A t \in bySession : t \notin stale' => t \notin stale
    BY <2>1, SessionsAssumption DEF SeInv, SeTypes
  <2>6. ASSUME NEW k \in APIKey \ stale', byKey'[k] # NoSession
        PROVE  session[byKey'[k]] # "revoked" /\ key[k] # "revoked"
    <3>1. k \in kept /\ byKey'[k] = byKey[k] /\ ~Outlives(k)
      BY <2>1, <2>6
    <3> QED  BY <2>6, <3>1 DEF Outlives
  <2>7. RevocationHolds'
    BY <2>2, <2>4, <2>5, <2>6 DEF SeInv, RevocationHolds
  <2> QED  BY <2>3, <2>7 DEF SeInv
<1>4. CASE RotateToken(p)
  <2>1. PICK s : s = check[p].s /\ s \in Session
    BY <1>1, <1>4 DEF RotateToken, CheckOK
  <2>2. /\ check[p].st = "rotate" /\ check' = [check EXCEPT ![p] = NoCheck]
        /\ refresh' = IF session[s] = "live" THEN refresh \cup {s} ELSE refresh
        /\ UNCHANGED <<session, key, bySession, byKey, stale>>
    BY <1>4, <2>1 DEF RotateToken, Ends, Rotated
  <2>3. SeTypes'
    BY <1>1, <2>1, <2>2 DEF SeInv, SeTypes
  <2>4. ASSUME NEW st \in {"uncache", "pattern"}, NEW t, NEW k, Pending(st, t, k)
        PROVE  Pending(st, t, k)'
    <3>1. [st |-> st, s |-> t, k |-> k].st = st
      OBVIOUS
    <3>2. check[p] # [st |-> st, s |-> t, k |-> k]
      BY <2>2, <3>1
    <3> QED  BY <2>2, <2>4, <3>2, PendingKept DEF SeInv
  <2>5. RevocationHolds'
    BY <2>2, <2>4 DEF SeInv, RevocationHolds
  <2> QED  BY <2>3, <2>5 DEF SeInv
<1> QED  BY <1>2, <1>3, <1>4

LEMMA SessionsStep == SeInv /\ [SeNext]_seVars => SeInv'
<1> SUFFICES ASSUME SeInv, [SeNext]_seVars PROVE SeInv'
  OBVIOUS
<1>1. ASSUME UNCHANGED check PROVE \A st, s, k : Pending(st, s, k) => Pending(st, s, k)'
  BY <1>1 DEF Pending
<1>2. ASSUME NEW s \in Session, Login(s) PROVE SeInv'
  <2>1. SeTypes'
    BY <1>2 DEF Login, SeInv, SeTypes
  <2>2. RevocationHolds'
    BY <1>1, <1>2 DEF Login, SeInv, SeTypes, RevocationHolds
  <2> QED  BY <2>1, <2>2 DEF SeInv
<1>3. ASSUME NEW k \in APIKey, CreateKey(k) \/ KeyExpires(k) PROVE SeInv'
  <2>1. SeTypes'
    BY <1>3 DEF CreateKey, KeyExpires, SeInv, SeTypes
  <2>2. RevocationHolds'
    BY <1>1, <1>3 DEF CreateKey, KeyExpires, SeInv, SeTypes, RevocationHolds
  <2> QED  BY <2>1, <2>2 DEF SeInv
<1>4. CASE Evict
  <2>1. SeTypes' /\ UNCHANGED <<session, key, check, refresh>>
    BY <1>4 DEF Evict, SeInv, SeTypes
  <2>2. \A t \in bySession' : t \notin stale' => t \in bySession /\ t \notin stale
    BY <1>4, SessionsAssumption DEF Evict, SeInv, SeTypes
  <2>3. \A k \in APIKey : k \notin stale' /\ byKey'[k] # NoSession => byKey'[k] = byKey[k] /\ k \notin stale
    BY <1>4, SessionsAssumption DEF Evict, SeInv, SeTypes
  <2>4. RevocationHolds'
    BY <1>1, <2>1, <2>2, <2>3 DEF SeInv, RevocationHolds
  <2> QED  BY <2>1, <2>4 DEF SeInv
<1>5. CASE UNCHANGED seVars
  BY <1>5 DEF seVars, SeInv, SeTypes, RevocationHolds, Pending
<1> QED  BY <1>2, <1>3, <1>4, <1>5, ChecksStep, FillsStep, RevokesStep, DropsStep DEF SeNext

-----------------------------------------------------------------------------
(* Shares.  A share keeps its password, so that what a visitor read of it  *)
(* and what the cache has agree with the table on that for good.           *)

ShareRow == [there : BOOLEAN, protected : BOOLEAN, expired : BOOLEAN]

\* What a request in progress knows of the share it asks for.
VisitOK(p) ==
  LET v == visit[p] IN
  /\ v \in [st : {"idle", "uncache", "fetch", "fill", "token"}, share : Share \cup {NoShare},
            token : BOOLEAN, got : ShareRow \cup {NoShare}]
  /\ v.st # "idle" => v.share \in Share /\ shares[v.share] # NoShare
  /\ v.st \in {"fill", "token"} => v.got # NoShare /\ v.got.protected = shares[v.share].protected

ShTypes ==
  /\ shares \in [Share -> ShareRow \cup {NoShare}] /\ shareCache \in [Share -> ShareRow \cup {NoShare}]
  /\ DOMAIN visit = Visitor /\ visit = [p \in Visitor |-> visit[p]]
  /\ \A p \in Visitor : VisitOK(p)

CacheAgrees ==
  \A h \in Share : shareCache[h] # NoShare =>
    shares[h] # NoShare /\ shareCache[h].protected = shares[h].protected

ShInv ==
  /\ ShTypes /\ CacheAgrees /\ RemovalHolds
  /\ \A h \in Share : <<h, FALSE>> \in shown => shares[h] # NoShare

LEMMA ShareRowIs == NoShare \notin ShareRow
BY SharesAssumption DEF ShareRow

LEMMA SharesInit == ShInit => ShInv
<1> SUFFICES ASSUME ShInit PROVE ShInv
  OBVIOUS
<1>1. ShTypes
  BY DEF ShInit, ShTypes, VisitOK, NoVisit
<1>2. CacheAgrees /\ RemovalHolds
  BY DEF ShInit, CacheAgrees, RemovalHolds
<1>3. \A h \in Share : <<h, FALSE>> \notin shown
  BY DEF ShInit
<1> QED  BY <1>1, <1>2, <1>3 DEF ShInv

\* The table changes: shares are made, expire, are removed; none gets or loses a
\* password.
LEMMA TableStep ==
  ASSUME ShInv, NEW h \in Share, CreateShare(h) \/ ShareExpires(h) PROVE ShInv'
<1>1. /\ shares' \in [Share -> ShareRow \cup {NoShare}] /\ UNCHANGED <<visit, shareCache, shown, late>>
      /\ \A g \in Share : shares[g] # NoShare =>
            /\ shares'[g] # NoShare /\ shares'[g].protected = shares[g].protected
            /\ shares'[g].there = shares[g].there
  <2>1. ASSUME NEW r \in ShareRow, shares' = [shares EXCEPT ![h] = r],
               shares[h] # NoShare => r.protected = shares[h].protected /\ r.there = shares[h].there
        PROVE  /\ shares' \in [Share -> ShareRow \cup {NoShare}]
               /\ \A g \in Share : shares[g] # NoShare =>
                     /\ shares'[g] # NoShare /\ shares'[g].protected = shares[g].protected
                     /\ shares'[g].there = shares[g].there
    BY <2>1, ShareRowIs DEF ShInv, ShTypes
  <2>2. CASE CreateShare(h)
    <3>1. PICK secret \in BOOLEAN :
            shares' = [shares EXCEPT ![h] = [there |-> TRUE, protected |-> secret, expired |-> FALSE]]
      BY <2>2 DEF CreateShare
    <3>2. [there |-> TRUE, protected |-> secret, expired |-> FALSE] \in ShareRow
      BY DEF ShareRow
    <3> QED  BY <2>1, <2>2, <3>1, <3>2 DEF CreateShare
  <2>3. CASE ShareExpires(h)
    <3>1. PICK r : r = [shares[h] EXCEPT !.expired = TRUE]
      OBVIOUS
    <3>2. shares[h] \in ShareRow /\ shares' = [shares EXCEPT ![h] = r]
      BY <2>3, <3>1 DEF ShareExpires, ShInv, ShTypes
    <3>3. r \in ShareRow /\ r.protected = shares[h].protected /\ r.there = shares[h].there
      BY <3>1, <3>2 DEF ShareRow
    <3> QED  BY <2>1, <2>3, <3>2, <3>3 DEF ShareExpires
  <2> QED  BY <2>2, <2>3 DEF CreateShare, ShareExpires
<1>2. ShTypes'
  BY <1>1 DEF ShInv, ShTypes, VisitOK
<1>3. CacheAgrees'
  BY <1>1 DEF ShInv, CacheAgrees
<1>4. \A g \in Share : Removing(g) => Removing(g)'
  BY <1>1 DEF Removing
<1>5. RemovalHolds'
  BY <1>1, <1>4 DEF ShInv, CacheAgrees, RemovalHolds
<1> QED  BY <1>1, <1>2, <1>3, <1>5 DEF ShInv

\* A request that goes on: what others know stays, and what this one knows must be
\* right.
LEMMA VisitMoves ==
  ASSUME ShTypes, NEW p \in Visitor, NEW v, visit' = [visit EXCEPT ![p] = v],
         \A h \in Share : shares[h] # NoShare =>
            shares'[h] # NoShare /\ shares'[h].protected = shares[h].protected,
         v \in [st : {"idle", "uncache", "fetch", "fill", "token"}, share : Share \cup {NoShare},
                token : BOOLEAN, got : ShareRow \cup {NoShare}],
         v.st # "idle" => v.share \in Share /\ shares'[v.share] # NoShare,
         v.st \in {"fill", "token"} => v.got # NoShare /\ v.got.protected = shares'[v.share].protected
  PROVE  /\ DOMAIN visit' = Visitor /\ visit' = [q \in Visitor |-> visit'[q]]
         /\ \A q \in Visitor : VisitOK(q)'
<1>1. DOMAIN visit' = Visitor /\ visit' = [q \in Visitor |-> visit'[q]] /\ visit'[p] = v
  BY DEF ShTypes
<1>2. ASSUME NEW q \in Visitor PROVE VisitOK(q)'
  <2>1. CASE q = p
    BY <1>1, <2>1 DEF VisitOK
  <2>2. CASE q # p
    <3>1. visit'[q] = visit[q] /\ VisitOK(q)
      BY <2>2 DEF ShTypes
    <3> QED  BY <3>1 DEF VisitOK
  <2> QED  BY <2>1, <2>2
<1> QED  BY <1>1, <1>2

LEMMA RemovingKept ==
  ASSUME ShTypes, NEW p \in Visitor, NEW v, visit' = [visit EXCEPT ![p] = v], NEW h,
         Removing(h), visit[p].st = "uncache" => visit[p].share # h
  PROVE  Removing(h)'
BY DEF Removing, ShTypes

LEMMA RemovingNew ==
  ASSUME ShTypes, NEW p \in Visitor, NEW v, visit' = [visit EXCEPT ![p] = v],
         v.st = "uncache"
  PROVE  \A h : h = v.share => Removing(h)'
BY DEF Removing, ShTypes

LEMMA DeletesStep ==
  ASSUME ShInv, NEW p \in Visitor, NEW h \in Share, DeleteShare(p, h) PROVE ShInv'
<1>1. PICK v : v = [NoVisit EXCEPT !.st = "uncache", !.share = h, !.token = FALSE]
  OBVIOUS
<1>2. /\ visit[p].st = "idle" /\ visit' = [visit EXCEPT ![p] = v] /\ shares[h] # NoShare
      /\ shares' = [shares EXCEPT ![h].there = FALSE] /\ UNCHANGED <<shareCache, shown, late>>
  BY <1>1 DEF DeleteShare, Enters
<1>3. v.st = "uncache" /\ v.share = h
      /\ v \in [st : {"idle", "uncache", "fetch", "fill", "token"}, share : Share \cup {NoShare},
                token : BOOLEAN, got : ShareRow \cup {NoShare}]
  BY <1>1 DEF NoVisit
<1>4. /\ shares' \in [Share -> ShareRow \cup {NoShare}]
      /\ \A g \in Share : shares[g] # NoShare =>
            shares'[g] # NoShare /\ shares'[g].protected = shares[g].protected
      /\ \A g \in Share : g # h => shares'[g] = shares[g]
  <2>1. PICK r : r = [shares[h] EXCEPT !.there = FALSE]
    OBVIOUS
  <2>2. shares[h] \in ShareRow /\ shares' = [shares EXCEPT ![h] = r]
    BY <1>2, <2>1 DEF ShInv, ShTypes
  <2>3. r \in ShareRow /\ r.protected = shares[h].protected
    BY <2>1, <2>2 DEF ShareRow
  <2> QED  BY <2>2, <2>3, ShareRowIs DEF ShInv, ShTypes
<1>5. ShTypes'
  <2>1. shares'[v.share] # NoShare
    BY <1>2, <1>3, <1>4
  <2> QED  BY <1>2, <1>3, <1>4, <2>1, VisitMoves DEF ShInv, ShTypes
<1>6. CacheAgrees'
  BY <1>2, <1>4 DEF ShInv, CacheAgrees
<1>7. Removing(h)'
  BY <1>2, <1>3, RemovingNew DEF ShInv
<1>8. \A g : Removing(g) => Removing(g)'
  BY <1>2, RemovingKept DEF ShInv
<1>9. RemovalHolds'
  BY <1>2, <1>4, <1>7, <1>8 DEF ShInv, RemovalHolds
<1> QED  BY <1>2, <1>4, <1>5, <1>6, <1>9 DEF ShInv

\* Requests that read, and what they read.
LEMMA VisitsGoOn ==
  ASSUME ShInv, NEW p \in Visitor, visit[p].st # "uncache", NEW v,
         visit' = [visit EXCEPT ![p] = v], UNCHANGED <<shares, shareCache, late>>,
         v \in [st : {"idle", "uncache", "fetch", "fill", "token"}, share : Share \cup {NoShare},
                token : BOOLEAN, got : ShareRow \cup {NoShare}],
         v.st # "idle" => v.share \in Share /\ shares[v.share] # NoShare,
         v.st \in {"fill", "token"} => v.got # NoShare /\ v.got.protected = shares[v.share].protected,
         \A h \in Share : <<h, FALSE>> \in shown' =>
            <<h, FALSE>> \in shown \/ (shares[h] # NoShare /\ ~shares[h].protected)
  PROVE  ShInv'
<1>1. ShTypes'
  BY VisitMoves DEF ShInv, ShTypes
<1>2. CacheAgrees'
  BY DEF ShInv, CacheAgrees
<1>3. \A h : Removing(h) => Removing(h)'
  BY RemovingKept DEF ShInv
<1>4. RemovalHolds'
  BY <1>3 DEF ShInv, RemovalHolds
<1> QED  BY <1>1, <1>2, <1>4 DEF ShInv

LEMMA LeavesOK ==
  ASSUME ShInv, NEW p \in Visitor, visit[p].st # "uncache", Leaves(p),
         UNCHANGED <<shares, shareCache, late>>,
         \A h \in Share : <<h, FALSE>> \in shown' =>
            <<h, FALSE>> \in shown \/ (shares[h] # NoShare /\ ~shares[h].protected)
  PROVE  ShInv'
<1>1. NoVisit \in [st : {"idle", "uncache", "fetch", "fill", "token"}, share : Share \cup {NoShare},
                   token : BOOLEAN, got : ShareRow \cup {NoShare}] /\ NoVisit.st = "idle"
  BY DEF NoVisit
<1> QED  BY <1>1, VisitsGoOn DEF Leaves

LEMMA VisitsStep ==
  ASSUME ShInv, NEW p \in Visitor,
         (\E h \in Share : BeginVisit(p, h)) \/ FetchShare(p) \/ ShowShare(p)
  PROVE  ShInv'
<1>1. VisitOK(p)
  BY DEF ShInv, ShTypes
<1>2. ASSUME NEW h \in Share, BeginVisit(p, h) PROVE ShInv'
  <2>1. PICK token \in BOOLEAN : Enters(p, "fetch", h, token)
    BY <1>2 DEF BeginVisit
  <2>2. PICK v : v = [NoVisit EXCEPT !.st = "fetch", !.share = h, !.token = token]
    OBVIOUS
  <2>3. v \in [st : {"idle", "uncache", "fetch", "fill", "token"}, share : Share \cup {NoShare},
               token : BOOLEAN, got : ShareRow \cup {NoShare}] /\ v.st = "fetch" /\ v.share = h
    BY <2>1, <2>2 DEF NoVisit
  <2>4. visit[p].st = "idle" /\ visit' = [visit EXCEPT ![p] = v]
    BY <2>1, <2>2 DEF Enters
  <2> QED  BY <1>2, <2>3, <2>4, VisitsGoOn DEF BeginVisit
<1>3. CASE FetchShare(p)
  <2>1. PICK h : h = visit[p].share /\ h \in Share /\ shares[h] # NoShare
    BY <1>1, <1>3 DEF FetchShare, VisitOK
  <2>2. visit[p].st = "fetch" /\ UNCHANGED <<shares, shareCache, late, shown>>
    BY <1>3 DEF FetchShare
  <2>3. ASSUME NEW st \in {"fill", "token"}, NEW g \in ShareRow, g.protected = shares[h].protected,
               visit' = [visit EXCEPT ![p].st = st, ![p].got = g]
        PROVE  ShInv'
    <3>1. PICK v : v = [visit[p] EXCEPT !.st = st, !.got = g]
      OBVIOUS
    <3>2. v \in [st : {"idle", "uncache", "fetch", "fill", "token"}, share : Share \cup {NoShare},
                 token : BOOLEAN, got : ShareRow \cup {NoShare}]
          /\ v.st = st /\ v.share = h /\ v.got = g
      BY <1>1, <2>1, <2>3, <3>1 DEF VisitOK
    <3>3. visit' = [visit EXCEPT ![p] = v]
      BY <2>3, <3>1 DEF ShInv, ShTypes
    <3>4. visit[p].st # "uncache" /\ (v.st # "idle" => v.share \in Share /\ shares[v.share] # NoShare)
      BY <2>1, <2>2, <3>2
    <3>5. v.got # NoShare /\ v.got.protected = shares[v.share].protected
      BY <2>3, <3>2, ShareRowIs
    <3> QED  BY <2>2, <3>2, <3>3, <3>4, <3>5, VisitsGoOn
  <2>4. CASE /\ shareCache[h] # NoShare
             /\ visit' = [visit EXCEPT ![p].st = "token", ![p].got = shareCache[h]]
    BY <2>1, <2>3, <2>4 DEF ShInv, ShTypes, CacheAgrees
  <2>5. CASE Valid(h) /\ visit' = [visit EXCEPT ![p].st = "fill", ![p].got = shares[h]]
    BY <2>1, <2>3, <2>5 DEF ShInv, ShTypes
  <2>6. CASE Leaves(p)
    BY <2>2, <2>6, LeavesOK
  <2> QED  BY <1>3, <2>1, <2>4, <2>5, <2>6 DEF FetchShare
<1>4. CASE ShowShare(p)
  <2>1. PICK v : v = visit[p]
    OBVIOUS
  <2>2. /\ v.share \in Share /\ shares[v.share] # NoShare /\ v.token \in BOOLEAN
        /\ v.got.protected = shares[v.share].protected /\ v.got # NoShare /\ v.st = "token"
    BY <1>1, <1>4, <2>1 DEF ShowShare, VisitOK
  <2>3. ASSUME NEW h \in Share, <<h, FALSE>> \in shown', <<h, FALSE>> \notin shown
        PROVE  shares[h] # NoShare /\ ~shares[h].protected
    <3>1. Admitted(p) /\ <<h, FALSE>> = <<v.share, v.token>>
      BY <1>4, <2>1, <2>3 DEF ShowShare
    <3>2. h = v.share /\ v.token = FALSE
      BY <3>1
    <3>3. ~v.got.protected
      BY <2>1, <3>1, <3>2 DEF Admitted
    <3> QED  BY <2>2, <3>2, <3>3
  <2> QED  BY <1>4, <2>1, <2>2, <2>3, LeavesOK DEF ShowShare
<1> QED  BY <1>2, <1>3, <1>4

\* The cache is filled with what was read before; when the share was removed
\* meanwhile and nobody is about to drop it, it is recorded as late.
LEMMA ShareFills ==
  ASSUME ShInv, NEW p \in Visitor, FillShare(p) PROVE ShInv'
<1>1. PICK h, g : h = visit[p].share /\ g = visit[p].got
  OBVIOUS
<1>2. /\ visit[p].st = "fill" /\ h \in Share /\ shares[h] # NoShare
      /\ g \in ShareRow /\ g.protected = shares[h].protected
  BY <1>1 DEF FillShare, ShInv, ShTypes, VisitOK
<1>3. PICK v : v = [visit[p] EXCEPT !.st = "token"]
  OBVIOUS
<1>4. /\ visit' = [visit EXCEPT ![p] = v] /\ shareCache' = [shareCache EXCEPT ![h] = g]
      /\ late' = IF ~shares[h].there /\ ~Removing(h) THEN late \cup {h} ELSE late
      /\ UNCHANGED <<shares, shown>>
  BY <1>1, <1>3 DEF FillShare, ShInv, ShTypes
<1>5. v \in [st : {"idle", "uncache", "fetch", "fill", "token"}, share : Share \cup {NoShare},
             token : BOOLEAN, got : ShareRow \cup {NoShare}]
      /\ v.st = "token" /\ v.share = h /\ v.got = g
  BY <1>1, <1>2, <1>3 DEF ShInv, ShTypes, VisitOK
<1>6. ShTypes'
  <2>1. v.got # NoShare /\ v.got.protected = shares'[v.share].protected /\ shares'[v.share] # NoShare
    BY <1>2, <1>4, <1>5, ShareRowIs
  <2>2. shareCache' \in [Share -> ShareRow \cup {NoShare}]
    BY <1>2, <1>4 DEF ShInv, ShTypes
  <2> QED  BY <1>4, <1>5, <2>1, <2>2, VisitMoves DEF ShInv, ShTypes
<1>7. CacheAgrees'
  BY <1>2, <1>4, ShareRowIs DEF ShInv, ShTypes, CacheAgrees
<1>8. \A f : Removing(f) => Removing(f)'
  BY <1>2, <1>4, RemovingKept DEF ShInv
<1>9. \A f \in Share : shareCache'[f] # NoShare /\ ~shares[f].there /\ f \notin late' => Removing(f)
  BY <1>4 DEF ShInv, ShTypes, RemovalHolds
<1>10. RemovalHolds'
  BY <1>4, <1>8, <1>9 DEF ShInv, RemovalHolds
<1> QED  BY <1>4, <1>6, <1>7, <1>10 DEF ShInv

LEMMA ShareDropped ==
  ASSUME ShInv, NEW p \in Visitor, UncacheShare(p) PROVE ShInv'
<1>1. PICK h : h = visit[p].share
  OBVIOUS
<1>2. /\ visit[p].st = "uncache" /\ h \in Share /\ visit' = [visit EXCEPT ![p] = NoVisit]
      /\ \/ shareCache' = [shareCache EXCEPT ![h] = NoShare] /\ late' = late \ {h}
         \/ shareCache' = shareCache /\ late' = late \cup {h}
      /\ UNCHANGED <<shares, shown>>
  BY <1>1 DEF UncacheShare, Leaves, ShInv, ShTypes, VisitOK
<1>3. NoVisit \in [st : {"idle", "uncache", "fetch", "fill", "token"}, share : Share \cup {NoShare},
                   token : BOOLEAN, got : ShareRow \cup {NoShare}] /\ NoVisit.st = "idle"
  BY DEF NoVisit
<1>4. ShTypes'
  BY <1>2, <1>3, VisitMoves DEF ShInv, ShTypes
<1>5. CacheAgrees'
  BY <1>2 DEF ShInv, ShTypes, CacheAgrees
<1>6. \A f : f # h /\ Removing(f) => Removing(f)'
  BY <1>1, <1>2, RemovingKept DEF ShInv
<1>7. \A f \in Share : shareCache'[f] # NoShare /\ f \notin late' =>
                      f # h /\ shareCache[f] # NoShare /\ f \notin late
  BY <1>2 DEF ShInv, ShTypes
<1>8. RemovalHolds'
  BY <1>2, <1>6, <1>7 DEF ShInv, RemovalHolds
<1> QED  BY <1>2, <1>4, <1>5, <1>8 DEF ShInv

LEMMA SharesStep == ShInv /\ [ShNext]_shVars => ShInv'
<1> SUFFICES ASSUME ShInv, [ShNext]_shVars PROVE ShInv'
  OBVIOUS
<1>1. ASSUME UNCHANGED <<shares, shareCache, visit, late, shown>> PROVE ShInv'
  <2>1. ShTypes'
    BY <1>1 DEF ShInv, ShTypes, VisitOK
  <2>2. CacheAgrees' /\ RemovalHolds'
    BY <1>1 DEF ShInv, CacheAgrees, RemovalHolds, Removing
  <2> QED  BY <1>1, <2>1, <2>2 DEF ShInv
<1>2. ASSUME NEW h \in Share, EvictShare(h) PROVE ShInv'
  <2>1. ShTypes'
    BY <1>2 DEF EvictShare, ShInv, ShTypes, VisitOK
  <2>2. CacheAgrees'
    BY <1>2 DEF EvictShare, ShInv, ShTypes, CacheAgrees
  <2>3. RemovalHolds'
    BY <1>2 DEF EvictShare, ShInv, ShTypes, RemovalHolds, Removing
  <2> QED  BY <1>2, <2>1, <2>2, <2>3 DEF EvictShare, ShInv
<1>3. ASSUME NEW h \in Share, SharesUnlock(h) \/ TokenExpires(h) PROVE ShInv'
  BY <1>1, <1>3 DEF SharesUnlock, TokenExpires
<1>4. CASE UNCHANGED shVars
  BY <1>1, <1>4 DEF shVars
<1> QED
  BY <1>2, <1>3, <1>4, TableStep, DeletesStep, VisitsStep, ShareFills, ShareDropped DEF ShNext

-----------------------------------------------------------------------------
(* Start and stop.  What is on is told by the phase and the hook that comes *)
(* next, but for the hook that is being stopped; while the grace period     *)
(* lasts, so is what may be at work.                                        *)

Below(i) == {Hook[j] : j \in 1..i}
Level    == IF phase \in {"new", "start"} THEN hook - 1 ELSE hook
Workers  == {"events", "queue", "http"}

AppTypes ==
  /\ phase \in {"new", "start", "run", "stop", "over"} /\ hook \in 0..5
  /\ work \in [Workers -> Nat] /\ draining \in BOOLEAN /\ grace \in BOOLEAN

OnBelow ==
  /\ on \subseteq Below(Level) /\ \A i \in 0..5 : i < Level => Below(i) \subseteq on
  /\ phase = "new" => hook \in 1..4 /\ on = Below(hook - 1)
  /\ phase = "start" => hook \in 4..5 /\ on = Below(hook - 1)
  /\ phase = "run" => hook = 5
  /\ phase = "over" => hook = 0
  /\ draining => phase = "stop" /\ hook > 0 /\ Hook[hook] \notin on

WorkBelow == grace => \A h \in Workers : work[h] > 0 => h \in Below(Level)

AppInv == AppTypes /\ OnBelow /\ WorkBelow

LEMMA Hooks ==
  /\ Len(Hook) = 5 /\ Hook[1] = "database" /\ Hook[2] = "redis" /\ Hook[3] = "events"
  /\ Hook[4] = "queue" /\ Hook[5] = "http"
BY DEF Hook

LEMMA BelowIs ==
  /\ Below(0) = {} /\ Below(1) = {"database"} /\ Below(2) = {"database", "redis"}
  /\ Below(3) = {"database", "redis", "events"}
  /\ Below(4) = {"database", "redis", "events", "queue"}
  /\ Below(5) = {"database", "redis", "events", "queue", "http"}
<1>1. Below(0) = {}
  BY DEF Below
<1>2. 1..1 = {1} /\ 1..2 = {1, 2} /\ 1..3 = {1, 2, 3} /\ 1..4 = {1, 2, 3, 4} /\ 1..5 = {1, 2, 3, 4, 5}
  OBVIOUS
<1> QED  BY <1>1, <1>2, Hooks DEF Below

LEMMA BelowNext ==
  ASSUME NEW i \in 1..5
  PROVE  /\ Below(i) = Below(i - 1) \cup {Hook[i]} /\ Hook[i] \notin Below(i - 1)
         /\ \A j \in 0..5 : j < i => Below(j) \subseteq Below(i - 1)
<1>1. CASE i = 1  BY <1>1, Hooks, BelowIs
<1>2. CASE i = 2  BY <1>2, Hooks, BelowIs
<1>3. CASE i = 3  BY <1>3, Hooks, BelowIs
<1>4. CASE i = 4  BY <1>4, Hooks, BelowIs
<1>5. CASE i = 5  BY <1>5, Hooks, BelowIs
<1> QED  BY <1>1, <1>2, <1>3, <1>4, <1>5

LEMMA AppStarts == AppInit => AppInv
<1> SUFFICES ASSUME AppInit PROVE AppInv
  OBVIOUS
<1>1. AppTypes
  <2>1. work \in [Workers -> Nat]
    BY DEF AppInit, Workers
  <2>2. hook \in 0..5
    BY DEF AppInit
  <2>3. phase \in {"new", "start", "run", "stop", "over"} /\ draining \in BOOLEAN /\ grace \in BOOLEAN
    BY Zenon DEF AppInit
  <2> QED  BY <2>1, <2>2, <2>3 DEF AppTypes
<1>2. OnBelow
  BY BelowIs DEF AppInit, OnBelow, Level
<1>3. WorkBelow
  BY DEF AppInit, WorkBelow, Workers
<1> QED  BY <1>1, <1>2, <1>3 DEF AppInv

LEMMA AppClosed == AppInv => ClosedAfterUse
<1> SUFFICES ASSUME AppInv PROVE ClosedAfterUse
  OBVIOUS
<1>1. Level \in 0..5
  BY DEF AppInv, AppTypes, OnBelow, Level
<1>2. phase = "over" => on = {}
  BY BelowIs DEF AppInv, OnBelow, Level
<1>3. ASSUME grace, Working("events") PROVE {"database", "redis"} \subseteq on
  <2>1. "events" \in Below(Level)
    BY <1>3 DEF Working, AppInv, AppTypes, WorkBelow, Workers
  <2>2. Level \in 3..5
    BY <1>1, <2>1, BelowIs
  <2>3. Below(2) \subseteq on /\ Below(2) = {"database", "redis"}
    BY <2>2, BelowIs DEF AppInv, OnBelow
  <2> QED  BY <2>3
<1>4. ASSUME grace, Working("queue") \/ Working("http") PROVE Opens \subseteq on
  <2>1. "queue" \in Below(Level) \/ "http" \in Below(Level)
    BY <1>4 DEF Working, AppInv, AppTypes, WorkBelow, Workers
  <2>2. Level \in 4..5
    BY <1>1, <2>1, BelowIs
  <2>3. Below(3) \subseteq on /\ Below(3) = Opens
    BY <2>2, BelowIs DEF AppInv, OnBelow, Opens
  <2> QED  BY <2>3
<1> QED  BY <1>2, <1>3, <1>4 DEF ClosedAfterUse

\* New and Run: what is opened or started is the next hook.
LEMMA OpensStep == AppInv /\ Open => AppInv'
<1> SUFFICES ASSUME AppInv, Open PROVE AppInv'
  OBVIOUS
<1>1. /\ phase = "new" /\ hook \in 1..4 /\ Hook[hook] \in Opens /\ on = Below(hook - 1)
      /\ ~draining /\ Level = hook - 1 /\ UNCHANGED <<draining, grace>>
  BY DEF Open, AppInv, AppTypes, OnBelow, Level
<1>2. hook \in 1..3
  BY <1>1, Hooks DEF Opens
<1>3. CASE on' = on \cup {Hook[hook]} /\ hook' = hook + 1 /\ phase' = phase
           /\ work' = IF Hook[hook] = "events" THEN [work EXCEPT !["events"] = 1] ELSE work
  <2>1. Level' = hook /\ on' = Below(hook) /\ Below(hook - 1) \subseteq Below(hook)
    BY <1>1, <1>2, <1>3, BelowNext DEF Level
  <2>2. work' \in [Workers -> Nat]
    BY <1>3 DEF AppInv, AppTypes, Workers
  <2>3. AppTypes'
    BY <1>1, <1>2, <1>3, <2>2 DEF AppInv, AppTypes
  <2>4. OnBelow'
    <3>1. \A i \in 0..5 : i < hook => Below(i) \subseteq Below(hook)
      BY <1>2, <2>1, BelowNext
    <3>2. hook' - 1 = hook /\ hook' \in 1..4
      BY <1>2, <1>3
    <3> QED  BY <1>1, <1>3, <2>1, <3>1, <3>2 DEF OnBelow
  <2>5. ASSUME grace, NEW h \in Workers, work'[h] > 0 PROVE h \in Below(hook)
    <3>1. CASE work'[h] = work[h]
      BY <1>1, <2>1, <2>5, <3>1 DEF AppInv, WorkBelow
    <3>2. CASE work'[h] # work[h]
      <4>1. h = "events" /\ Hook[hook] = "events"
        BY <1>3, <2>5, <3>2 DEF AppInv, AppTypes
      <4> QED  BY <1>2, <4>1, BelowNext
    <3> QED  BY <3>1, <3>2
  <2>6. WorkBelow'
    BY <1>1, <2>1, <2>5 DEF WorkBelow
  <2> QED  BY <2>3, <2>4, <2>6 DEF AppInv
<1>4. CASE phase' = "stop" /\ hook' = hook - 1 /\ UNCHANGED <<on, work>>
  <2>1. Level' = Level
    BY <1>1, <1>4 DEF Level
  <2>2. AppTypes'
    BY <1>1, <1>2, <1>4 DEF AppInv, AppTypes
  <2>3. OnBelow'
    BY <1>1, <1>4, <2>1 DEF AppInv, OnBelow
  <2>4. WorkBelow'
    BY <1>1, <1>4, <2>1 DEF AppInv, WorkBelow
  <2> QED  BY <2>2, <2>3, <2>4 DEF AppInv
<1> QED  BY <1>3, <1>4 DEF Open

LEMMA BuildsStep == AppInv /\ Build => AppInv'
<1> SUFFICES ASSUME AppInv, Build PROVE AppInv'
  OBVIOUS
<1>1. /\ phase = "new" /\ hook \in 1..4 /\ Hook[hook] \notin Opens /\ on = Below(hook - 1)
      /\ ~draining /\ Level = hook - 1 /\ UNCHANGED <<on, work, draining, grace>>
      /\ (phase' = "start" /\ hook' = hook) \/ (phase' = "stop" /\ hook' = hook - 1)
  BY DEF Build, AppInv, AppTypes, OnBelow, Level
<1>2. hook = 4
  BY <1>1, Hooks DEF Opens
<1>3. Level' = Level
  BY <1>1 DEF Level
<1>4. AppTypes'
  BY <1>1, <1>2 DEF AppInv, AppTypes
<1>5. OnBelow'
  BY <1>1, <1>2, <1>3 DEF AppInv, OnBelow
<1>6. WorkBelow'
  BY <1>1, <1>3 DEF AppInv, WorkBelow
<1> QED  BY <1>4, <1>5, <1>6 DEF AppInv

LEMMA StartsStep == AppInv /\ StartHook => AppInv'
<1> SUFFICES ASSUME AppInv, StartHook PROVE AppInv'
  OBVIOUS
<1>1. /\ phase = "start" /\ hook \in 4..5 /\ on = Below(hook - 1) /\ ~draining
      /\ Level = hook - 1 /\ UNCHANGED <<work, draining, grace>>
  BY DEF StartHook, AppInv, AppTypes, OnBelow, Level
<1>2. CASE phase' = "stop" /\ hook' = hook - 1 /\ on' = on
  <2>1. Level' = Level
    BY <1>1, <1>2 DEF Level
  <2>2. AppTypes'
    BY <1>1, <1>2 DEF AppInv, AppTypes
  <2>3. OnBelow'
    BY <1>1, <1>2, <2>1 DEF AppInv, OnBelow
  <2>4. WorkBelow'
    BY <1>1, <1>2, <2>1 DEF AppInv, WorkBelow
  <2> QED  BY <2>2, <2>3, <2>4 DEF AppInv
<1>3. CASE /\ on' = on \cup {Hook[hook]}
           /\ \/ hook = 5 /\ phase' = "run" /\ hook' = hook
              \/ hook # 5 /\ hook' = hook + 1 /\ phase' = phase
  <2>1. Level' = hook /\ on' = Below(hook) /\ Below(hook - 1) \subseteq Below(hook)
    BY <1>1, <1>3, BelowNext DEF Level
  <2>2. AppTypes'
    BY <1>1, <1>3 DEF AppInv, AppTypes
  <2>3. OnBelow'
    <3>1. \A i \in 0..5 : i < hook => Below(i) \subseteq Below(hook)
      BY <1>1, <2>1, BelowNext
    <3>2. phase' = "start" => hook' - 1 = hook /\ hook' \in 4..5
      BY <1>1, <1>3
    <3> QED  BY <1>1, <1>3, <2>1, <3>1, <3>2 DEF OnBelow
  <2>4. WorkBelow'
    BY <1>1, <1>3, <2>1 DEF AppInv, WorkBelow
  <2> QED  BY <2>2, <2>3, <2>4 DEF AppInv
<1> QED  BY <1>2, <1>3, Hooks DEF StartHook

\* A hook is stopped before those under it, and not passed while work is in
\* progress there, unless the grace period is over.
LEMMA StopsStep == AppInv /\ (StopHook \/ Waited) => AppInv'
<1> SUFFICES ASSUME AppInv, StopHook \/ Waited PROVE AppInv'
  OBVIOUS
<1>1. /\ phase = "stop" /\ hook \in 1..5 /\ Level = hook /\ Stopped(hook) = hook
      /\ UNCHANGED <<phase, work, grace>>
  BY DEF StopHook, Waited, AppInv, AppTypes, OnBelow, Level, Stopped
<1>2. /\ Below(hook) = Below(hook - 1) \cup {Hook[hook]} /\ Hook[hook] \notin Below(hook - 1)
      /\ \A j \in 0..5 : j < hook => Below(j) \subseteq Below(hook - 1)
  BY <1>1, BelowNext
<1>3. on \subseteq Below(hook) /\ Below(hook - 1) \subseteq on
  BY <1>1 DEF AppInv, OnBelow
<1>4. CASE draining' = TRUE /\ hook' = hook /\ on' = on \ {Hook[hook]}
  <2>1. Level' = hook /\ Below(hook - 1) \subseteq on' /\ on' \subseteq Below(hook)
    BY <1>1, <1>2, <1>3, <1>4 DEF Level
  <2>2. AppTypes'
    BY <1>1, <1>4 DEF AppInv, AppTypes
  <2>3. OnBelow'
    BY <1>1, <1>2, <1>4, <2>1 DEF OnBelow
  <2>4. WorkBelow'
    BY <1>1, <2>1 DEF AppInv, WorkBelow
  <2> QED  BY <2>2, <2>3, <2>4 DEF AppInv
<1>5. CASE /\ draining' = FALSE /\ hook' = hook - 1 /\ on' = on \ {Hook[hook]}
           /\ grace /\ Hook[hook] \in Workers => work[Hook[hook]] = 0
  <2>1. Level' = hook - 1 /\ on' = Below(hook - 1)
    BY <1>1, <1>2, <1>3, <1>5 DEF Level
  <2>2. AppTypes'
    <3>1. hook' = hook - 1 /\ draining' = FALSE
      BY <1>5
    <3>2. hook' \in 0..5
      BY <1>1, <3>1
    <3> QED  BY <1>1, <3>1, <3>2 DEF AppInv, AppTypes
  <2>3. OnBelow'
    BY <1>1, <1>2, <1>5, <2>1 DEF OnBelow
  <2>4. WorkBelow'
    BY <1>1, <1>2, <1>5, <2>1 DEF AppInv, WorkBelow
  <2> QED  BY <2>2, <2>3, <2>4 DEF AppInv
<1>6. CASE StopHook
  BY <1>1, <1>4, <1>5, <1>6 DEF StopHook, AppInv, AppTypes
<1>7. CASE Waited
  <2>1. Hook[hook] \notin on /\ draining' = FALSE /\ hook' = hook - 1 /\ on' = on
    BY <1>7 DEF Waited, AppInv, OnBelow
  <2>2. grace /\ Hook[hook] \in Workers => work[Hook[hook]] = 0
    BY <1>1, <1>7 DEF Waited, Working, AppInv, AppTypes
  <2> QED  BY <1>5, <2>1, <2>2
<1> QED  BY <1>6, <1>7

\* Requests, jobs and workers come only while what serves them is on; the server
\* may fail by itself.
LEMMA WorksStep ==
  ASSUME AppInv, NEW h \in Workers, BeginWork(h) \/ EndWork(h) PROVE AppInv'
<1>1. /\ UNCHANGED <<phase, hook, on, draining, grace>> /\ work' \in [Workers -> Nat]
      /\ \A w \in Workers : work'[w] > 0 => w \in on \/ work[w] > 0
  <2>1. CASE BeginWork(h)
    BY <2>1 DEF BeginWork, AppInv, AppTypes
  <2>2. CASE EndWork(h)
    BY <2>2 DEF EndWork, Working, AppInv, AppTypes
  <2> QED  BY <2>1, <2>2
<1>2. Level' = Level
  BY <1>1 DEF Level
<1>3. AppTypes'
  BY <1>1 DEF AppInv, AppTypes
<1>4. OnBelow'
  BY <1>1, <1>2 DEF AppInv, OnBelow
<1>5. WorkBelow'
  BY <1>1, <1>2 DEF AppInv, OnBelow, WorkBelow
<1> QED  BY <1>3, <1>4, <1>5 DEF AppInv

LEMMA FailsStep == AppInv /\ Crash => AppInv'
<1> SUFFICES ASSUME AppInv, Crash PROVE AppInv'
  OBVIOUS
<1>1. /\ "http" \in on /\ on' = on \ {"http"} /\ UNCHANGED <<phase, hook, work, draining, grace>>
  BY DEF Crash
<1>2. Level \in 0..5 /\ Level' = Level
  BY <1>1 DEF AppInv, AppTypes, OnBelow, Level
<1>3. Level = 5
  BY <1>1, <1>2, BelowIs DEF AppInv, OnBelow
<1>4. \A i \in 0..5 : i < 5 => "http" \notin Below(i)
  BY BelowIs
<1>5. AppTypes'
  BY <1>1 DEF AppInv, AppTypes
<1>6. OnBelow'
  <2>1. phase \notin {"new", "start"}
    BY <1>3 DEF AppInv, OnBelow, Level
  <2> QED  BY <1>1, <1>2, <1>3, <1>4, <2>1 DEF AppInv, OnBelow
<1>7. WorkBelow'
  BY <1>1, <1>2 DEF AppInv, WorkBelow
<1> QED  BY <1>5, <1>6, <1>7 DEF AppInv

LEMMA AppStep == AppInv /\ [AppNext]_appVars => AppInv'
<1> SUFFICES ASSUME AppInv, [AppNext]_appVars PROVE AppInv'
  OBVIOUS
<1>1. ASSUME UNCHANGED <<phase, hook, on, work, draining>>, grace' = grace \/ grace' = FALSE
      PROVE  AppInv'
  <2>1. Level' = Level
    BY <1>1 DEF Level
  <2>2. AppTypes'
    BY <1>1 DEF AppInv, AppTypes
  <2>3. OnBelow'
    BY <1>1, <2>1 DEF AppInv, OnBelow
  <2>4. WorkBelow'
    BY <1>1, <2>1 DEF AppInv, WorkBelow
  <2> QED  BY <2>2, <2>3, <2>4 DEF AppInv
<1>2. CASE EndRun \/ Return
  <2>1. /\ UNCHANGED <<hook, on, work, draining, grace>> /\ hook \in 0..5 /\ ~draining
        /\ \/ phase = "run" /\ phase' = "stop" /\ hook = 5
           \/ phase = "stop" /\ phase' = "over" /\ hook = 0
    BY <1>2 DEF EndRun, Return, AppInv, AppTypes, OnBelow
  <2>2. Level' = Level
    BY <2>1 DEF Level
  <2>3. AppTypes'
    BY <2>1 DEF AppInv, AppTypes
  <2>4. OnBelow'
    BY <2>1, <2>2 DEF AppInv, OnBelow
  <2>5. WorkBelow'
    BY <2>1, <2>2 DEF AppInv, WorkBelow
  <2> QED  BY <2>3, <2>4, <2>5 DEF AppInv
<1>3. CASE Signal \/ GraceEnds
  BY <1>1, <1>3 DEF Signal, GraceEnds
<1>4. CASE UNCHANGED appVars
  BY <1>1, <1>4 DEF appVars
<1>5. CASE \E h \in DOMAIN work : BeginWork(h) \/ EndWork(h)
  BY <1>5, WorksStep DEF AppInv, AppTypes
<1> QED
  BY <1>2, <1>3, <1>4, <1>5, OpensStep, BuildsStep, StartsStep, StopsStep, FailsStep DEF AppNext

-----------------------------------------------------------------------------
(* Events through Redis.  What a stream was given its instance has seen;   *)
(* and so it is given once.                                                *)

Counts == got \in [Instance -> [Event -> Nat]]

SeenInv ==
  /\ Counts
  /\ recent \in [Instance -> SUBSET Event] /\ inbox \in [Instance -> Seq(Event)]
  /\ \A i \in Instance, e \in Event : got[i][e] = 0 \/ (got[i][e] = 1 /\ e \in recent[i])

LEMMA SeenInit == ReInit => SeenInv
BY DEF ReInit, SeenInv, Counts

\* Only Receive and Join change what was given or seen; the rest moves messages.
LEMMA SeenStep == SeenInv /\ [ReNext]_reVars => SeenInv'
<1> SUFFICES ASSUME SeenInv, [ReNext]_reVars PROVE SeenInv'
  OBVIOUS
<1> USE DEF SeenInv, Counts
<1>1. ASSUME NEW i \in Instance, Receive(i) PROVE SeenInv'
  <2> DEFINE e == Head(inbox[i])
             sent == ShouldProcess(i, e) /\ i \in joined /\ Len(channel[i]) < StreamSize
  <2>1. e \in Event /\ Tail(inbox[i]) \in Seq(Event)
    BY <1>1 DEF Receive
  <2>2. /\ inbox' = [inbox EXCEPT ![i] = Tail(@)]
        /\ recent' = [recent EXCEPT ![i] = @ \cup {e}]
        /\ got' = IF sent THEN [got EXCEPT ![i][e] = @ + 1] ELSE got
    BY <1>1 DEF Receive
  <2>3. sent => e \notin recent[i]
    BY DEF ShouldProcess
  <2> HIDE DEF e, sent
  <2>4. recent' \in [Instance -> SUBSET Event] /\ inbox' \in [Instance -> Seq(Event)]
    BY <2>1, <2>2
  <2>5. CASE sent
    <3>1. got[i][e] = 0
      BY <2>1, <2>3, <2>5
    <3>2. got' = [got EXCEPT ![i] = [got[i] EXCEPT ![e] = 1]]
      BY <2>2, <2>5, <3>1
    <3>3. Counts'
      BY <2>1, <3>2
    <3>4. ASSUME NEW j \in Instance, NEW d \in Event
          PROVE  got'[j][d] = 0 \/ (got'[j][d] = 1 /\ d \in recent'[j])
      BY <2>1, <2>2, <3>2
    <3> QED  BY <2>4, <3>3, <3>4
  <2>6. CASE ~sent
    BY <2>2, <2>4, <2>6
  <2> QED  BY <2>5, <2>6
<1>2. ASSUME NEW i \in Instance, Join(i) PROVE SeenInv'
  BY <1>2 DEF Join
<1>3. ASSUME NEW e \in Event, Publish(e) PROVE SeenInv'
  <2>1. inbox' \in [Instance -> Seq(Event)]
    BY <1>3 DEF Publish, Delivered
  <2> QED  BY <1>3, <2>1 DEF Publish
<1>4. ASSUME NEW i \in Instance, StopInstance(i) PROVE SeenInv'
  <2>1. inbox' \in [Instance -> Seq(Event)]
    BY <1>4 DEF StopInstance
  <2> QED  BY <1>4, <2>1 DEF StopInstance
<1>5. CASE UNCHANGED reVars
  BY <1>5 DEF reVars
<1>6. ASSUME UNCHANGED <<inbox, recent, got>> PROVE SeenInv'
  BY <1>6
<1> QED
  BY <1>1, <1>2, <1>3, <1>4, <1>5, <1>6
  DEF ReNext, Record, PublishFails, Connect, LoseConnection, Leave, StreamSends, SaveEvent

-----------------------------------------------------------------------------
(* Channels.  A call that chooses a channel finds the row of it or has     *)
(* written one, so that its transaction ends with a channel selected.      *)

ChStep == {"idle", "upload", "create", "addbots", "dropbots", "select", "delete", "limit", "fill",
         "telegram", "bots", "fillbots", "adding", "pick", "insert", "list", "update",
         "insertsel", "commit", "cache", "delrow", "uncache"}
ChGoal == {"idle", "pick", "adding"}
ChCall == [op : {"none", "upload", "create", "addbots", "dropbots", "select", "delete"},
         st : ChStep, ch : Channel \cup {NoChannel}, next : ChGoal, list : SUBSET Channel,
         count : Nat, pend : UNION {[S -> BOOLEAN] : S \in SUBSET Channel}]
ChRow == [there : BOOLEAN, selected : BOOLEAN, recent : BOOLEAN]

ChTyped ==
  /\ rows \in [Channel -> ChRow]
  /\ call \in [Caller -> ChCall]
  /\ current \in Channel \cup {NoChannel} /\ bots \in Nat /\ botCache \in Nat
  /\ deleted \in BOOLEAN

\* A transaction knows its channel, and so does the creation before it.
KnowsChannel(p) ==
  /\ call[p].st = "addbots" => call[p].op = "addbots"
  /\ \/ call[p].st \in {"select", "delete", "delrow", "list", "update", "insertsel", "commit", "insert"}
     \/ call[p].op # "addbots" /\ call[p].st = "adding"
     \/ call[p].st \in {"bots", "fillbots"} /\ call[p].next = "adding"
     => call[p].ch \in Channel

\* The transaction of p wrote that its channel is selected.
HasChosen(p) == call[p].ch \in DOMAIN call[p].pend /\ call[p].pend[call[p].ch]

\* A choice by the user finds the row of its channel, or wrote it.
WillChoose(p) ==
  /\ call[p].st = "commit" => HasChosen(p)
  /\ call[p].op = "select" /\ call[p].st = "list" => rows[call[p].ch].there \/ HasChosen(p)
  /\ call[p].op = "select" /\ call[p].st = "update" =>
       \/ HasChosen(p)
       \/ call[p].ch \in call[p].list /\ rows[call[p].ch].there

ChInv ==
  /\ ChTyped
  /\ \A p \in Caller : KnowsChannel(p)
  /\ ~deleted => \A p \in Caller : WillChoose(p)
  /\ SomeSelected

LEMMA ChannelsInit == ChInit => ChInv
<1> SUFFICES ASSUME ChInit PROVE ChInv
  OBVIOUS
<1>1. NoCall \in ChCall
  <2>1. <<>> \in [{} -> BOOLEAN]
    OBVIOUS
  <2> QED  BY <2>1, ChannelsAssumption DEF NoCall, ChCall, ChStep, ChGoal
<1>2. ChTyped
  <2>1. NoRowOf \in ChRow
    BY DEF NoRowOf, ChRow
  <2>2. NoCount \in Nat
    BY ChannelsAssumption DEF NoCount
  <2>3. rows \in [Channel -> ChRow] /\ call \in [Caller -> ChCall]
    BY <1>1, <2>1 DEF ChInit
  <2> QED  BY <2>2, <2>3 DEF ChInit, ChTyped
<1> QED  BY <1>2 DEF ChInit, ChInv, NoCall, KnowsChannel, WillChoose, HasChosen, SomeSelected

-----------------------------------------------------------------------------
(* What a step of one caller has to keep.                                  *)

\* Rows stay, unless a deletion is recorded.
RowsStay == \A c \in Channel : rows[c].there /\ ~deleted' => rows'[c].there

\* The other callers keep what is said of them.
LEMMA OneCaller ==
  ASSUME ChInv, NEW p \in Caller, NEW f \in ChCall, call' = [call EXCEPT ![p] = f],
         ChTyped', SomeSelected', RowsStay, deleted => deleted', KnowsChannel(p)',
         ~deleted' => WillChoose(p)'
  PROVE  ChInv'
<1>1. ASSUME NEW q \in Caller PROVE KnowsChannel(q)'
  <2>1. CASE q = p
    BY <2>1
  <2>2. CASE q # p
    <3>1. call'[q] = call[q]
      BY <2>2 DEF ChInv, ChTyped
    <3> QED  BY <3>1 DEF ChInv, KnowsChannel
  <2> QED  BY <2>1, <2>2
<1>2. ASSUME ~deleted', NEW q \in Caller PROVE WillChoose(q)'
  <2>1. CASE q = p
    BY <1>2, <2>1
  <2>2. CASE q # p
    <3>1. call'[q] = call[q]
      BY <2>2 DEF ChInv, ChTyped
    <3>2. WillChoose(q) /\ KnowsChannel(q)
      BY <1>2 DEF ChInv
    <3>3. call[q].st \in {"list", "update"} => call[q].ch \in Channel
      BY <3>2 DEF KnowsChannel
    <3> QED  BY <1>2, <3>1, <3>2, <3>3 DEF WillChoose, HasChosen, RowsStay
  <2> QED  BY <2>1, <2>2
<1> QED  BY <1>1, <1>2 DEF ChInv

\* A step of a caller that leaves the table alone.
LEMMA RowsAlone ==
  ASSUME ChInv, NEW p \in Caller, NEW f \in ChCall, call' = [call EXCEPT ![p] = f],
         UNCHANGED <<rows, chosen, deleted>>,
         current' \in Channel \cup {NoChannel}, bots' \in Nat, botCache' \in Nat,
         KnowsChannel(p)', ~deleted => WillChoose(p)'
  PROVE  ChInv'
<1>1. ChTyped'
  BY DEF ChInv, ChTyped
<1>2. SomeSelected' /\ RowsStay
  BY DEF ChInv, SomeSelected, Selected, Saved, RowsStay
<1> QED  BY <1>1, <1>2, OneCaller

-----------------------------------------------------------------------------
(* Steps outside of transactions.                                          *)

\* Where nothing is said of a call but its channel.
Plain(f) ==
  /\ f.st \notin {"list", "update", "commit"}
  /\ f.st = "addbots" => f.op = "addbots"
  /\ \/ f.st \in {"select", "delete", "delrow", "insertsel", "insert"}
     \/ f.op # "addbots" /\ f.st = "adding"
     \/ f.st \in {"bots", "fillbots"} /\ f.next = "adding"
     => f.ch \in Channel

LEMMA PlainStep ==
  ASSUME ChInv, NEW p \in Caller, NEW f \in ChCall, Plain(f), call' = [call EXCEPT ![p] = f],
         UNCHANGED <<rows, chosen, deleted>>,
         current' \in Channel \cup {NoChannel}, bots' \in Nat, botCache' \in Nat
  PROVE  ChInv'
<1>1. call'[p] = f
  BY DEF ChInv, ChTyped
<1>2. KnowsChannel(p)' /\ WillChoose(p)'
  BY <1>1 DEF Plain, KnowsChannel, WillChoose
<1> QED  BY <1>2, RowsAlone

LEMMA NoCallIsPlain == NoCall \in ChCall /\ Plain(NoCall)
<1>1. <<>> \in [{} -> BOOLEAN]
  OBVIOUS
<1> QED  BY <1>1, ChannelsAssumption DEF NoCall, ChCall, ChStep, ChGoal, Plain
\* BeginCall, and what a call does with caches and Telegram.
LEMMA CallsBegin == ASSUME ChInv, NEW p \in Caller, BeginCall(p) PROVE ChInv'
<1>1. ASSUME NEW op \in {"upload", "create", "addbots", "dropbots"},
             call' = [call EXCEPT ![p] = [NoCall EXCEPT !.op = op, !.st = op]]
      PROVE  ChInv'
  <2> DEFINE f == [NoCall EXCEPT !.op = op, !.st = op]
  <2>1. f \in ChCall /\ Plain(f)
    BY NoCallIsPlain DEF NoCall, ChCall, ChStep, ChGoal, Plain
  <2> HIDE DEF f
  <2> QED  BY <1>1, <2>1, PlainStep DEF BeginCall, ChInv, ChTyped, f
<1>2. ASSUME NEW op \in {"select", "delete"}, NEW c \in Channel,
             call' = [call EXCEPT ![p] = [NoCall EXCEPT !.op = op, !.st = op, !.ch = c]]
      PROVE  ChInv'
  <2> DEFINE f == [NoCall EXCEPT !.op = op, !.st = op, !.ch = c]
  <2>1. f \in ChCall /\ Plain(f)
    BY NoCallIsPlain DEF NoCall, ChCall, ChStep, ChGoal, Plain
  <2> HIDE DEF f
  <2> QED  BY <1>2, <2>1, PlainStep DEF BeginCall, ChInv, ChTyped, f
<1> QED  BY <1>1, <1>2 DEF BeginCall

\* Other steps change the state of the call, what comes next, its channel and
\* the number of bots.
LEMMA Advancing ==
  ASSUME ChInv, NEW p \in Caller, NEW st \in ChStep, NEW next \in ChGoal,
         NEW c \in Channel \cup {NoChannel}, NEW n \in Nat,
         call' = [call EXCEPT ![p] = [call[p] EXCEPT !.st = st, !.next = next, !.ch = c,
                                                     !.count = n]],
         Plain([call[p] EXCEPT !.st = st, !.next = next, !.ch = c, !.count = n]),
         UNCHANGED <<rows, chosen, deleted>>,
         current' \in Channel \cup {NoChannel}, bots' \in Nat, botCache' \in Nat
  PROVE  ChInv'
<1> DEFINE f == [call[p] EXCEPT !.st = st, !.next = next, !.ch = c, !.count = n]
<1>1. call[p] \in ChCall
  BY DEF ChInv, ChTyped
<1>2. f \in ChCall
  BY <1>1 DEF ChCall
<1> HIDE DEF f
<1>3. Plain(f) /\ call' = [call EXCEPT ![p] = f]
  BY DEF f
<1> QED  BY <1>2, <1>3, PlainStep

LEMMA Answering ==
  ASSUME ChInv, NEW p \in Caller, Answered(p), UNCHANGED <<rows, chosen, deleted>>,
         current' \in Channel \cup {NoChannel}, bots' \in Nat, botCache' \in Nat
  PROVE  ChInv'
BY NoCallIsPlain, PlainStep DEF Answered

LEMMA Uploading ==
  ASSUME ChInv, NEW p \in Caller,
         \/ CurrentChannel(p) \/ FillCurrent(p) \/ CheckLimit(p) \/ FindRecent(p)
         \/ CreateChannel(p) \/ BotTokens(p) \/ FillBots(p) \/ PickBot(p)
         \/ DeleteAtTelegram(p) \/ SaveBots(p) \/ RemoveBots(p) \/ UncacheBots(p)
  PROVE  ChInv'
<1> DEFINE q == call[p]
<1>1. q \in ChCall /\ KnowsChannel(p)
  BY DEF ChInv, ChTyped
<1>2. /\ UNCHANGED <<rows, chosen, deleted>>
      /\ current' \in Channel \cup {NoChannel} /\ bots' \in Nat /\ botCache' \in Nat
  <2>1. NoCount \in Nat
    BY ChannelsAssumption DEF NoCount
  <2> QED
    BY <1>1, <2>1 DEF CurrentChannel, FillCurrent, CheckLimit, FindRecent, CreateChannel, BotTokens,
      FillBots, PickBot, DeleteAtTelegram, SaveBots, RemoveBots, UncacheBots, ChInv, ChTyped, ChCall
<1>3. \/ Answered(p)
      \/ \E st \in ChStep, next \in ChGoal, c \in Channel \cup {NoChannel}, n \in Nat :
           /\ call' = [call EXCEPT ![p] = [q EXCEPT !.st = st, !.next = next, !.ch = c, !.count = n]]
           /\ Plain([q EXCEPT !.st = st, !.next = next, !.ch = c, !.count = n])
  <2> DEFINE GoesTo(st, next, c, n) ==
        /\ st \in ChStep /\ next \in ChGoal /\ c \in Channel \cup {NoChannel} /\ n \in Nat
        /\ call' = [call EXCEPT ![p] = [q EXCEPT !.st = st, !.next = next, !.ch = c, !.count = n]]
        /\ Plain([q EXCEPT !.st = st, !.next = next, !.ch = c, !.count = n])
  <2>1. CASE CurrentChannel(p)
    <3>1. CASE current # NoChannel /\ call' = [call EXCEPT ![p].st = "limit", ![p].ch = current]
      <4>1. GoesTo("limit", q.next, current, q.count)
        BY <1>1, <3>1 DEF ChCall, ChStep, ChGoal, Plain, ChInv, ChTyped
      <4> QED  BY <4>1
    <3>2. ASSUME NEW c \in Selected, call' = [call EXCEPT ![p].st = "fill", ![p].ch = c]
          PROVE  \E d \in Channel : GoesTo("fill", q.next, d, q.count)
      <4>1. c \in Channel
        BY DEF Selected, Saved
      <4>2. GoesTo("fill", q.next, c, q.count)
        BY <1>1, <3>2, <4>1 DEF ChCall, ChStep, ChGoal, Plain, ChInv, ChTyped
      <4> QED  BY <4>1, <4>2
    <3> QED  BY <2>1, <3>1, <3>2 DEF CurrentChannel
  <2>2. CASE FillCurrent(p)
    <3>1. GoesTo("limit", q.next, q.ch, q.count)
      BY <1>1, <2>2 DEF FillCurrent, Go, ChCall, ChStep, ChGoal, Plain, ChInv, ChTyped
    <3> QED  BY <3>1
  <2>3. CASE CheckLimit(p)
    <3>1. GoesTo("bots", "pick", q.ch, q.count) \/ GoesTo("create", q.next, q.ch, q.count)
      BY <1>1, <2>3 DEF CheckLimit, Go, ChCall, ChStep, ChGoal, Plain, ChInv, ChTyped
    <3> QED  BY <3>1
  <2>4. CASE FindRecent(p)
    <3>1. ASSUME NEW c \in Fresh, call' = [call EXCEPT ![p].st = "bots", ![p].next = "pick", ![p].ch = c]
          PROVE  \E d \in Channel : GoesTo("bots", "pick", d, q.count)
      <4>1. c \in Channel
        BY DEF Fresh, Saved
      <4>2. GoesTo("bots", "pick", c, q.count)
        BY <1>1, <3>1, <4>1 DEF ChCall, ChStep, ChGoal, Plain, ChInv, ChTyped
      <4> QED  BY <4>1, <4>2
    <3>2. CASE Go(p, "telegram")
      <4>1. GoesTo("telegram", q.next, q.ch, q.count)
        BY <1>1, <3>2 DEF Go, ChCall, ChStep, ChGoal, Plain, ChInv, ChTyped
      <4> QED  BY <4>1
    <3> QED  BY <2>4, <3>1, <3>2 DEF FindRecent
  <2>5. CASE CreateChannel(p)
    <3>1. ASSUME NEW c \in Channel,
                 call' = [call EXCEPT ![p].st = "bots", ![p].next = "adding", ![p].ch = c]
          PROVE  GoesTo("bots", "adding", c, q.count)
      BY <1>1, <3>1 DEF ChCall, ChStep, ChGoal, Plain, ChInv, ChTyped
    <3> QED  BY <2>5, <3>1 DEF CreateChannel
  <2>6. CASE BotTokens(p)
    <3>1. CASE call' = [call EXCEPT ![p].st = call[p].next, ![p].count = botCache]
      <4>1. call' = [call EXCEPT ![p] = [q EXCEPT !.st = q.next, !.next = q.next, !.ch = q.ch,
                                                  !.count = botCache]]
        BY <1>1, <3>1 DEF ChCall, ChInv, ChTyped
      <4>2. q.st = "bots" /\ q.next \in ChGoal \cap ChStep
        BY <1>1, <2>6 DEF BotTokens, At, ChCall, ChGoal, ChStep
      <4>3. Plain([q EXCEPT !.st = q.next, !.next = q.next, !.ch = q.ch, !.count = botCache])
        BY <1>1, <4>2 DEF KnowsChannel, ChCall, ChGoal, Plain
      <4>4. GoesTo(q.next, q.next, q.ch, botCache)
        BY <1>1, <4>1, <4>2, <4>3 DEF ChCall, ChInv, ChTyped
      <4> QED  BY <1>1, <4>2, <4>4 DEF ChCall, ChInv, ChTyped
    <3>2. CASE call' = [call EXCEPT ![p].st = "fillbots", ![p].count = bots]
      <4>1. GoesTo("fillbots", q.next, q.ch, bots)
        BY <1>1, <2>6, <3>2 DEF BotTokens, At, KnowsChannel, ChCall, ChStep, ChGoal, Plain, ChInv, ChTyped
      <4> QED  BY <4>1
    <3> QED  BY <2>6, <3>1, <3>2 DEF BotTokens
  <2>7. CASE FillBots(p)
    <3>1. GoesTo(q.next, q.next, q.ch, q.count)
      BY <1>1, <2>7 DEF FillBots, At, Go, KnowsChannel, ChCall, ChStep, ChGoal, Plain, ChInv, ChTyped
    <3> QED  BY <3>1
  <2>8. CASE DeleteAtTelegram(p)
    <3>1. Answered(p) \/ GoesTo("delrow", q.next, q.ch, q.count)
      BY <1>1, <2>8 DEF DeleteAtTelegram, At, Go, KnowsChannel, ChCall, ChStep, ChGoal, Plain, ChInv, ChTyped
    <3> QED  BY <3>1
  <2>9. CASE SaveBots(p)
    <3>1. GoesTo("uncache", q.next, q.ch, q.count) \/ GoesTo("adding", q.next, q.ch, q.count)
      BY <1>1, <2>9 DEF SaveBots, At, Go, KnowsChannel, ChCall, ChStep, ChGoal, Plain, ChInv, ChTyped
    <3> QED  BY <3>1
  <2>10. CASE RemoveBots(p)
    <3>1. GoesTo("uncache", q.next, q.ch, q.count)
      BY <1>1, <2>10 DEF RemoveBots, At, Go, KnowsChannel, ChCall, ChStep, ChGoal, Plain, ChInv, ChTyped
    <3> QED  BY <3>1
  <2>11. Answered(p) \/ ~(PickBot(p) \/ UncacheBots(p))
    BY DEF PickBot, UncacheBots
  <2> HIDE DEF GoesTo
  <2> QED
    BY <2>1, <2>2, <2>3, <2>4, <2>5, <2>6, <2>7, <2>8, <2>9, <2>10, <2>11
<1> QED  BY <1>2, <1>3, Answering, Advancing
LEMMA AddingBots == ASSUME ChInv, NEW p \in Caller, AddBotsToChannel(p) PROVE ChInv'
<1> DEFINE q == call[p]
<1>1. q \in ChCall /\ KnowsChannel(p) /\ At(p, "adding") /\ (deleted \/ WillChoose(p))
  BY DEF AddBotsToChannel, ChInv, ChTyped
<1>2. /\ UNCHANGED <<rows, chosen, deleted>>
      /\ current' \in Channel \cup {NoChannel} /\ bots' \in Nat /\ botCache' \in Nat
  BY DEF AddBotsToChannel, ChInv, ChTyped
<1>3. CASE q.op = "upload" /\ Go(p, "list")
  <2> DEFINE f == [q EXCEPT !.st = "list"]
  <2>1. f \in ChCall /\ call' = [call EXCEPT ![p] = f] /\ call'[p] = f
    BY <1>1, <1>3 DEF Go, ChCall, ChStep, ChInv, ChTyped
  <2>2. KnowsChannel(p)' /\ WillChoose(p)'
    BY <1>1, <1>3, <2>1 DEF At, KnowsChannel, WillChoose, ChCall
  <2> HIDE DEF f
  <2> QED  BY <1>2, <2>1, <2>2, RowsAlone
<1>4. ASSUME NEW st \in {"insert", "uncache"}, Go(p, st), st = "insert" => q.op = "create"
      PROVE  ChInv'
  <2>1. Plain([q EXCEPT !.st = st, !.next = q.next, !.ch = q.ch, !.count = q.count])
    BY <1>1, <1>4 DEF At, KnowsChannel, Plain, ChCall
  <2>2. call' = [call EXCEPT ![p] = [q EXCEPT !.st = st, !.next = q.next, !.ch = q.ch,
                                              !.count = q.count]]
    BY <1>1, <1>4 DEF Go, ChCall, ChInv, ChTyped
  <2>3. st \in ChStep /\ q.next \in ChGoal /\ q.ch \in Channel \cup {NoChannel} /\ q.count \in Nat
    BY <1>1 DEF ChCall, ChStep
  <2> HIDE DEF q
  <2> QED  BY <1>2, <2>1, <2>2, <2>3, Advancing DEF q
<1> QED  BY <1>2, <1>3, <1>4, Answering DEF AddBotsToChannel

-----------------------------------------------------------------------------
(* Transactions.                                                           *)

\* One more row written, the others as before.
LEMMA CallWrites ==
  ASSUME NEW c \in Channel, NEW sel \in BOOLEAN,
         NEW pend \in UNION {[S -> BOOLEAN] : S \in SUBSET Channel}
  PROVE  LET new == With(pend, c, sel) IN
         /\ new \in UNION {[S -> BOOLEAN] : S \in SUBSET Channel}
         /\ c \in DOMAIN new /\ new[c] = sel
         /\ \A d \in DOMAIN pend : d \in DOMAIN new /\ (d # c => new[d] = pend[d])
<1> DEFINE new == With(pend, c, sel)
<1>1. PICK S \in SUBSET Channel : pend \in [S -> BOOLEAN]
  OBVIOUS
<1>2. new = [d \in {c} \cup S |-> IF d = c THEN sel ELSE pend[d]]
  BY <1>1 DEF With
<1>3. new \in [{c} \cup S -> BOOLEAN] /\ {c} \cup S \in SUBSET Channel
  BY <1>1, <1>2
<1> QED  BY <1>1, <1>2, <1>3

LEMMA Selecting ==
  ASSUME ChInv, NEW p \in Caller, SelectRow(p) \/ InsertSelected(p) \/ ListRows(p)
  PROVE  ChInv'
<1> DEFINE q == call[p]
<1>1. q \in ChCall /\ KnowsChannel(p) /\ (~deleted => WillChoose(p))
  BY DEF ChInv, ChTyped
<1>2. /\ UNCHANGED <<rows, chosen, deleted>>
      /\ current' \in Channel \cup {NoChannel} /\ bots' \in Nat /\ botCache' \in Nat
  BY DEF SelectRow, InsertSelected, ListRows, ChInv, ChTyped
<1>3. CASE SelectRow(p)
  <2>1. PICK st \in {"list", "insertsel"} :
          Go(p, st) /\ (st = "list" => rows[q.ch].there)
    BY <1>3 DEF SelectRow
  <2> DEFINE f == [q EXCEPT !.st = st]
  <2>2. f \in ChCall /\ call' = [call EXCEPT ![p] = f] /\ call'[p] = f
    BY <1>1, <2>1 DEF Go, ChCall, ChStep, ChInv, ChTyped
  <2>3. KnowsChannel(p)' /\ WillChoose(p)'
    BY <1>1, <1>2, <1>3, <2>1, <2>2 DEF SelectRow, At, KnowsChannel, WillChoose, ChCall
  <2> HIDE DEF f
  <2> QED  BY <1>2, <2>2, <2>3, RowsAlone
<1>4. CASE InsertSelected(p) /\ ~rows[q.ch].there
  <2>1. PICK st \in {"list", "commit"} :
          call' = [call EXCEPT ![p].pend = With(@, q.ch, TRUE), ![p].st = st]
    BY <1>4 DEF InsertSelected
  <2> DEFINE new == With(q.pend, q.ch, TRUE)
             f == [q EXCEPT !.pend = new, !.st = st]
  <2>2. q.ch \in Channel
    BY <1>1, <1>4 DEF InsertSelected, At, KnowsChannel
  <2>3. /\ new \in UNION {[S -> BOOLEAN] : S \in SUBSET Channel}
        /\ q.ch \in DOMAIN new /\ new[q.ch]
    BY <1>1, <2>2, CallWrites DEF ChCall
  <2>4. call' = [call EXCEPT ![p] = f]
    BY <2>1, <1>1 DEF ChInv, ChTyped, ChCall
  <2> HIDE DEF new
  <2>5. f \in ChCall /\ call'[p] = f
    BY <1>1, <2>3, <2>4 DEF ChCall, ChStep, ChInv, ChTyped
  <2>6. KnowsChannel(p)' /\ WillChoose(p)'
    BY <1>1, <2>2, <2>3, <2>5 DEF KnowsChannel, WillChoose, HasChosen, ChCall
  <2> HIDE DEF f
  <2> QED  BY <1>2, <2>4, <2>5, <2>6, RowsAlone
<1>5. CASE ListRows(p)
  <2> DEFINE all == Saved \cup DOMAIN q.pend
             f == [q EXCEPT !.st = "update", !.list = all]
  <2>1. all \in SUBSET Channel
    BY <1>1 DEF Saved, ChCall
  <2>2. f \in ChCall /\ call' = [call EXCEPT ![p] = f] /\ call'[p] = f
    BY <1>1, <1>5, <2>1 DEF ListRows, ChCall, ChStep, ChInv, ChTyped
  <2>3. q.ch \in Channel
    BY <1>1, <1>5 DEF ListRows, At, KnowsChannel
  <2>4. KnowsChannel(p)'
    BY <2>2, <2>3, <1>1 DEF KnowsChannel, ChCall
  <2>5. ~deleted => WillChoose(p)'
    BY <1>1, <1>2, <1>5, <2>2, <2>3 DEF ListRows, At, WillChoose, HasChosen, Saved, ChCall
  <2> HIDE DEF f
  <2> QED  BY <1>2, <2>2, <2>4, <2>5, RowsAlone
<1> QED  BY <1>2, <1>3, <1>4, <1>5, Answering DEF InsertSelected
LEMMA Updating == ASSUME ChInv, NEW p \in Caller, UpdateRow(p) PROVE ChInv'
<1> DEFINE q == call[p]
<1>1. q \in ChCall /\ KnowsChannel(p) /\ (~deleted => WillChoose(p)) /\ q.st = "update"
  BY DEF UpdateRow, At, ChInv, ChTyped
<1>2. /\ UNCHANGED <<rows, chosen, deleted>>
      /\ current' \in Channel \cup {NoChannel} /\ bots' \in Nat /\ botCache' \in Nat
  BY DEF UpdateRow, ChInv, ChTyped
<1>3. q.ch \in Channel
  BY <1>1 DEF KnowsChannel
<1>4. ASSUME NEW c \in q.list, Write(p, c, IF Wanted(p, c) THEN TRUE ELSE FALSE)
      PROVE  ChInv'
  <2> DEFINE sel == IF Wanted(p, c) THEN TRUE ELSE FALSE
             new == With(q.pend, c, sel)
             f == [q EXCEPT !.pend = new, !.list = @ \ {c}]
  <2>1. c \in Channel /\ sel \in BOOLEAN
    BY <1>1 DEF ChCall
  <2>2. q.op = "select" /\ c = q.ch => sel
    BY DEF Wanted
  <2> HIDE DEF sel
  <2>3. /\ new \in UNION {[S -> BOOLEAN] : S \in SUBSET Channel}
        /\ c \in DOMAIN new /\ new[c] = sel
        /\ \A d \in DOMAIN q.pend : d \in DOMAIN new /\ (d # c => new[d] = q.pend[d])
    BY <1>1, <2>1, CallWrites DEF ChCall
  <2>4. call' = [call EXCEPT ![p] = f]
    BY <1>1, <1>4 DEF Write, ChCall, ChInv, ChTyped, sel
  <2> HIDE DEF new
  <2>5. f \in ChCall /\ call'[p] = f
    BY <1>1, <2>3, <2>4 DEF ChCall, ChStep, ChInv, ChTyped
  <2>6. KnowsChannel(p)'
    BY <1>1, <1>3, <2>5 DEF KnowsChannel, ChCall
  <2>7. ~deleted => WillChoose(p)'
    <3> SUFFICES ASSUME ~deleted, q.op = "select"
                 PROVE  HasChosen(p)' \/ (q.ch \in f.list /\ rows[q.ch].there)
      BY <1>1, <1>2, <2>5 DEF WillChoose, ChCall
    <3>1. CASE c = q.ch
      <4>1. new[q.ch] /\ q.ch \in DOMAIN new
        BY <2>2, <2>3, <3>1
      <4>2. call'[p].ch = q.ch /\ call'[p].pend = new
        BY <1>1, <2>5 DEF ChCall
      <4> QED  BY <4>1, <4>2 DEF HasChosen
    <3>2. CASE c # q.ch
      BY <1>1, <2>3, <2>5, <3>2 DEF HasChosen, WillChoose, ChCall
    <3> QED  BY <3>1, <3>2
  <2> HIDE DEF f
  <2> QED  BY <1>2, <2>4, <2>5, <2>6, <2>7, RowsAlone
<1>5. ASSUME NEW c \in q.list, ~rows[c].there, call' = [call EXCEPT ![p].list = @ \ {c}]
      PROVE  ChInv'
  <2> DEFINE f == [q EXCEPT !.list = @ \ {c}]
  <2>1. f \in ChCall /\ call' = [call EXCEPT ![p] = f] /\ call'[p] = f
    BY <1>1, <1>5 DEF ChCall, ChInv, ChTyped
  <2>2. KnowsChannel(p)' /\ (~deleted => WillChoose(p)')
    BY <1>1, <1>2, <1>3, <1>5, <2>1 DEF KnowsChannel, WillChoose, HasChosen, ChCall
  <2> HIDE DEF f
  <2> QED  BY <1>2, <2>1, <2>2, RowsAlone
<1>6. CASE q.list = {} /\ Go(p, IF q.op = "select" THEN "commit" ELSE "insertsel")
  <2> DEFINE f == [q EXCEPT !.st = IF q.op = "select" THEN "commit" ELSE "insertsel"]
  <2>1. f \in ChCall /\ call' = [call EXCEPT ![p] = f] /\ call'[p] = f
    BY <1>1, <1>6 DEF Go, ChCall, ChStep, ChInv, ChTyped
  <2>2. KnowsChannel(p)' /\ (~deleted => WillChoose(p)')
    BY <1>1, <1>2, <1>3, <1>6, <2>1 DEF KnowsChannel, WillChoose, HasChosen, ChCall
  <2> HIDE DEF f
  <2> QED  BY <1>2, <2>1, <2>2, RowsAlone
<1> QED  BY <1>4, <1>5, <1>6 DEF UpdateRow

\* Commit sets the row of the channel that the transaction chose.
LEMMA Committing == ASSUME ChInv, NEW p \in Caller, Commit(p) PROVE ChInv'
<1> DEFINE q == call[p]
           f == [q EXCEPT !.st = "cache", !.pend = <<>>]
<1>1. q \in ChCall /\ KnowsChannel(p) /\ (~deleted => WillChoose(p)) /\ q.st = "commit"
  BY DEF Commit, At, ChInv, ChTyped
<1>2. f \in ChCall
  <2>1. <<>> \in [{} -> BOOLEAN] /\ {} \in SUBSET Channel
    OBVIOUS
  <2>2. <<>> \in UNION {[S -> BOOLEAN] : S \in SUBSET Channel}
    BY <2>1
  <2> QED  BY <1>1, <2>2 DEF ChCall, ChStep
<1>3. call' = [call EXCEPT ![p] = f] /\ call'[p] = f
  BY <1>1 DEF Commit, ChCall, ChInv, ChTyped
<1>4. PICK S \in SUBSET Channel : q.pend \in [S -> BOOLEAN]
  BY <1>1 DEF ChCall
<1>5. \A c \in Channel :
        IF c \in S THEN \E r \in BOOLEAN : rows'[c] = [there |-> TRUE, selected |-> q.pend[c], recent |-> r]
        ELSE rows'[c] = rows[c]
  <2> SUFFICES ASSUME NEW c \in Channel
               PROVE  IF c \in S THEN \E r \in BOOLEAN : rows'[c] = [there |-> TRUE, selected |-> q.pend[c], recent |-> r]
                      ELSE rows'[c] = rows[c]
    OBVIOUS
  <2> DEFINE r == IF rows[c].there THEN rows[c].recent ELSE TRUE
  <2>1. r \in BOOLEAN
    BY DEF ChInv, ChTyped, ChRow
  <2>2. rows'[c] = IF c \in S THEN [there |-> TRUE, selected |-> q.pend[c], recent |-> r] ELSE rows[c]
    BY <1>4 DEF Commit
  <2> QED  BY <2>1, <2>2
<1>6. rows' \in [Channel -> ChRow]
  <2>1. \A c \in Channel : rows'[c] \in ChRow
    <3> SUFFICES ASSUME NEW c \in Channel PROVE rows'[c] \in ChRow
      OBVIOUS
    <3>1. CASE c \in S
      <4>1. q.pend[c] \in BOOLEAN
        BY <1>4, <3>1
      <4>2. PICK r \in BOOLEAN : rows'[c] = [there |-> TRUE, selected |-> q.pend[c], recent |-> r]
        BY <1>5, <3>1
      <4> QED  BY <4>1, <4>2 DEF ChRow
    <3>2. CASE c \notin S
      BY <1>5, <3>2 DEF ChInv, ChTyped
    <3> QED  BY <3>1, <3>2
  <2> QED  BY <2>1 DEF Commit
<1>7. ChTyped' /\ UNCHANGED deleted
  BY <1>2, <1>3, <1>6 DEF Commit, ChInv, ChTyped
<1>8. RowsStay
  <2> SUFFICES ASSUME NEW c \in Channel, rows[c].there PROVE rows'[c].there
    BY DEF RowsStay
  <2>1. CASE c \in S
    <3>1. PICK r \in BOOLEAN : rows'[c] = [there |-> TRUE, selected |-> q.pend[c], recent |-> r]
      BY <1>5, <2>1
    <3> QED  BY <3>1
  <2>2. CASE c \notin S
    BY <1>5, <2>2
  <2> QED  BY <2>1, <2>2
<1>9. SomeSelected'
  <2> SUFFICES ASSUME ~deleted PROVE \E c \in Channel : rows'[c].there /\ rows'[c].selected
    BY <1>7 DEF SomeSelected, Selected, Saved
  <2>1. q.ch \in Channel /\ q.ch \in S /\ q.pend[q.ch]
    BY <1>1, <1>4 DEF KnowsChannel, WillChoose, HasChosen
  <2>2. PICK r : rows'[q.ch] = [there |-> TRUE, selected |-> q.pend[q.ch], recent |-> r]
    BY <1>5, <2>1
  <2> QED  BY <2>1, <2>2
<1>10. KnowsChannel(p)' /\ WillChoose(p)'
  <2>1. call'[p].st = "cache" /\ call'[p].op = q.op /\ call'[p].next = q.next
    <3>1. f.st = "cache" /\ f.op = q.op /\ f.next = q.next
      BY <1>1 DEF ChCall
    <3> HIDE DEF f
    <3> QED  BY <1>3, <3>1
  <2> QED  BY <2>1 DEF KnowsChannel, WillChoose
<1> HIDE DEF f
<1> QED  BY <1>2, <1>3, <1>7, <1>8, <1>9, <1>10, OneCaller
\* After the commit, when it fails, and the steps of other requests.
LEMMA Ending ==
  ASSUME ChInv, NEW p \in Caller, RollBack(p) \/ AfterCommit(p) PROVE ChInv'
<1> DEFINE q == call[p]
<1>1. q \in ChCall
  BY DEF ChInv, ChTyped
<1>2. /\ UNCHANGED <<rows, chosen, deleted>>
      /\ bots' \in Nat /\ botCache' \in Nat
  BY DEF RollBack, AfterCommit, ChInv, ChTyped
<1>3. current' \in Channel \cup {NoChannel}
  BY <1>1 DEF RollBack, AfterCommit, ChInv, ChTyped, ChCall
<1>4. CASE call' = [call EXCEPT ![p].st = "bots", ![p].next = "pick"]
  <2>1. call' = [call EXCEPT ![p] = [q EXCEPT !.st = "bots", !.next = "pick", !.ch = q.ch,
                                              !.count = q.count]]
    BY <1>1, <1>4 DEF ChCall, ChInv, ChTyped
  <2>2. Plain([q EXCEPT !.st = "bots", !.next = "pick", !.ch = q.ch, !.count = q.count])
    BY <1>1 DEF ChCall, Plain
  <2>3. "bots" \in ChStep /\ "pick" \in ChGoal /\ q.ch \in Channel \cup {NoChannel} /\ q.count \in Nat
    BY <1>1 DEF ChCall, ChStep, ChGoal
  <2> HIDE DEF q
  <2> QED  BY <1>2, <1>3, <2>1, <2>2, <2>3, Advancing DEF q
<1> QED  BY <1>2, <1>3, <1>4, Answering DEF RollBack, AfterCommit

LEMMA OtherRows ==
  ASSUME ChInv, NEW p \in Caller, InsertChannel(p) \/ DeleteRow(p) PROVE ChInv'
<1> DEFINE q == call[p]
<1>1. q \in ChCall /\ q.ch \in Channel
  BY DEF InsertChannel, DeleteRow, At, KnowsChannel, ChInv, ChTyped
<1>2. rows' \in [Channel -> ChRow]
  <2>1. NoRowOf \in ChRow /\ [there |-> TRUE, selected |-> FALSE, recent |-> TRUE] \in ChRow
    BY DEF NoRowOf, ChRow
  <2>2. rows \in [Channel -> ChRow]
    BY DEF ChInv, ChTyped
  <2>3. PICK r \in ChRow : rows' = rows \/ rows' = [rows EXCEPT ![q.ch] = r]
    BY <2>1 DEF InsertChannel, DeleteRow
  <2> QED  BY <1>1, <2>2, <2>3
<1>3. ChTyped' /\ NoCall \in ChCall /\ call' = [call EXCEPT ![p] = NoCall]
  BY <1>2, NoCallIsPlain DEF InsertChannel, DeleteRow, Answered, ChInv, ChTyped
<1>4. RowsStay /\ (deleted => deleted')
  BY <1>1 DEF InsertChannel, DeleteRow, RowsStay, ChRow, ChInv, ChTyped
<1>5. SomeSelected'
  <2>1. CASE InsertChannel(p)
    <3>1. \A c \in Channel : rows[c].there => rows'[c] = rows[c]
      BY <1>1, <2>1 DEF InsertChannel, ChInv, ChTyped
    <3> QED  BY <2>1, <3>1 DEF InsertChannel, SomeSelected, Selected, Saved, ChInv
  <2>2. CASE DeleteRow(p)
    BY <2>2 DEF DeleteRow, SomeSelected
  <2> QED  BY <2>1, <2>2
<1>6. call'[p] = NoCall
  BY <1>3 DEF ChInv, ChTyped
<1>7. KnowsChannel(p)' /\ WillChoose(p)'
  BY <1>6 DEF NoCall, KnowsChannel, WillChoose
<1> QED  BY <1>3, <1>4, <1>5, <1>7, OneCaller

LEMMA Passing ==
  ASSUME ChInv, Later \/ (\E c \in Channel : FillChannel(c)) \/ UNCHANGED chVars PROVE ChInv'
<1>1. UNCHANGED <<call, current, bots, botCache, chosen, deleted>>
  BY DEF Later, FillChannel, chVars
<1>2. \A c \in Channel : /\ rows'[c].there = rows[c].there
                         /\ rows'[c].selected = rows[c].selected
  BY DEF Later, FillChannel, chVars, ChInv, ChTyped, ChRow
<1>3. rows' \in [Channel -> ChRow]
  BY DEF Later, FillChannel, chVars, ChInv, ChTyped, ChRow
<1>4. SomeSelected' /\ ChTyped'
  BY <1>1, <1>2, <1>3 DEF SomeSelected, Selected, Saved, ChInv, ChTyped
<1>5. ASSUME NEW p \in Caller PROVE KnowsChannel(p)' /\ (~deleted => WillChoose(p)')
  <2>1. KnowsChannel(p) /\ (~deleted => WillChoose(p))
    BY DEF ChInv
  <2>2. call[p].st \in {"list", "update"} => call[p].ch \in Channel
    BY <2>1 DEF KnowsChannel
  <2> QED  BY <1>1, <1>2, <2>1, <2>2 DEF KnowsChannel, WillChoose, HasChosen
<1> QED  BY <1>1, <1>4, <1>5 DEF ChInv

LEMMA ChannelsStep == ChInv /\ [ChNext]_chVars => ChInv'
BY CallsBegin, Uploading, AddingBots, Selecting, Updating, Committing, Ending, OtherRows, Passing
DEF ChNext

-----------------------------------------------------------------------------
(* Periodic jobs.  A request alone on its job knows the row; unless the job *)
(* was left out of step before, the registry is that of the row until the  *)
(* request writes.                                                         *)

JobRow  == [cron : Cron, enabled : BOOLEAN]
PjStage  == {"idle", "insert", "read", "reread", "write", "sync", "unregister", "delete"}
PjReq  == [op : {"none", "create", "update", "enable", "disable", "delete", "ensure"},
           st : PjStage, job : Job \cup {NoJob}, seen : JobRow \cup {NoJob}]

PjTyped ==
  /\ row \in [Job -> JobRow \cup {NoJob}] /\ registry \in [Job -> Cron \cup {NoJob}]
  /\ client \in [Client -> PjReq] /\ mixed \subseteq off /\ off \subseteq Job
  /\ \A p \in Client : /\ client[p].st # "idle" => client[p].job \in Job
                       /\ client[p].st \in {"write", "sync"} => client[p].seen \in JobRow

\* What River should insert for the job.
Due(j, r) == IF r = NoJob THEN NoJob ELSE Runtime(j, r)
Right(j)  == registry[j] = Due(j, row[j])

\* A request that is alone on its job: what it has in hand stands for the row.
Agrees(j, s, r) == r # NoJob /\ s.enabled = r.enabled /\ Normal(j, s.cron) = Normal(j, r.cron)
Alone(p) ==
  LET q == client[p] IN
  /\ q.st \in {"write", "sync"} => Agrees(q.job, q.seen, row[q.job])
  /\ q.st = "delete" => registry[q.job] = NoJob

\* The registry, of a job that was in step when the request began; a job that
\* create or ensure leaves alone has nothing registered.
Settled(p) ==
  LET q == client[p] IN
  /\ q.st \in {"read", "insert", "write"} => Right(q.job)
  /\ q.st = "reread" \/ (q.st = "sync" /\ KeepsAsIs(q)) => registry[q.job] = NoJob

PjInv ==
  /\ PjTyped
  /\ \A j \in Job \ mixed : \A p \in Busy(j) : Busy(j) \subseteq {p} /\ Alone(p)
  /\ \A j \in Job \ off : /\ \A p \in Busy(j) : Settled(p)
                          /\ Busy(j) = {} => Right(j)

LEMMA RightIsInStep == PjInv => InStep
<1> SUFFICES ASSUME PjInv, NEW j \in Job \ off, Busy(j) = {}
             PROVE  registry[j] = Registered(row)[j]
  BY DEF InStep
<1> QED  BY DEF PjInv, Right, Due, Registered

LEMMA NormalIsCron ==
  ASSUME NEW j \in Job, NEW c \in Cron
  PROVE  Normal(j, c) \in Cron /\ Normal(j, Normal(j, c)) = Normal(j, c)
BY PeriodicAssumption DEF Normal

LEMMA DueType == ASSUME NEW j \in Job, NEW r \in JobRow \cup {NoJob}
                 PROVE  Due(j, r) \in Cron \cup {NoJob}
BY NormalIsCron DEF Due, Runtime, JobRow

\* What stands for a row is due as the row is.
LEMMA AgreesDue ==
  ASSUME NEW j \in Job, NEW s \in JobRow, NEW r, Agrees(j, s, r)
  PROVE  Runtime(j, s) = Due(j, r)
BY DEF Agrees, Due, Runtime

LEMMA ReadAgrees ==
  ASSUME NEW j \in Job, row[j] \in JobRow
  PROVE  AsRead(j) \in JobRow /\ Agrees(j, AsRead(j), row[j]) /\ AsRead(j).enabled = row[j].enabled
<1>1. PICK r \in JobRow : r = row[j]
  OBVIOUS
<1>2. AsRead(j) = [cron |-> Normal(j, r.cron), enabled |-> r.enabled]
  BY <1>1 DEF AsRead, JobRow
<1>3. r.cron \in Cron /\ r.enabled \in BOOLEAN /\ r # NoJob
  BY <1>1, PeriodicAssumption DEF JobRow
<1>4. /\ AsRead(j).cron = Normal(j, r.cron) /\ AsRead(j).enabled = r.enabled
      /\ AsRead(j) \in JobRow
  BY <1>2, <1>3, NormalIsCron DEF JobRow
<1> QED  BY <1>1, <1>3, <1>4, NormalIsCron DEF Agrees

LEMMA PeriodicInit == PjInit => PjInv
<1> SUFFICES ASSUME PjInit PROVE PjInv
  OBVIOUS
<1>1. row \in [Job -> JobRow \cup {NoJob}]
  BY PeriodicAssumption DEF PjInit, JobRow
<1>2. \A j \in Job : registry[j] = Due(j, row[j])
  BY DEF PjInit, Registered, Due
<1>3. registry \in [Job -> Cron \cup {NoJob}]
  BY <1>1, <1>2, DueType DEF PjInit, Registered
<1>4. Resting \in PjReq
  BY DEF Resting, PjReq, PjStage
<1>5. \A p \in Client : client[p].st = "idle"
  BY DEF PjInit, Resting
<1>6. PjTyped
  BY <1>1, <1>3, <1>4, <1>5 DEF PjInit, PjTyped
<1> QED  BY <1>2, <1>5, <1>6 DEF PjInv, Busy, Right

-----------------------------------------------------------------------------
\* A step of a request changes nothing of other jobs and requests.
LEMMA OneClient ==
  ASSUME PjInv, NEW p \in Client, NEW j \in Job, NEW f \in PjReq,
         client' = [client EXCEPT ![p] = f], f.st # "idle" => f.job = j,
         f.st \in {"write", "sync"} => f.seen \in JobRow,
         client[p].st = "idle" \/ client[p].job = j,
         row' \in [Job -> JobRow \cup {NoJob}], registry' \in [Job -> Cron \cup {NoJob}],
         \A k \in Job \ {j} : row'[k] = row[k] /\ registry'[k] = registry[k],
         mixed' \ {j} = mixed \ {j}, off' \ {j} = off \ {j}, mixed' \subseteq off',
         j \notin mixed' => Busy(j) \subseteq {p} /\ (f.st # "idle" => Alone(p)'),
         j \notin off' => IF f.st = "idle" THEN Right(j)' ELSE Settled(p)'
  PROVE  PjInv'
<1>1. client'[p] = f /\ \A q \in Client \ {p} : client'[q] = client[q]
  BY DEF PjInv, PjTyped
<1>2. PjTyped'
  BY <1>1 DEF PjInv, PjTyped
<1>3. ASSUME NEW k \in Job, k # j
      PROVE  /\ Busy(k)' = Busy(k) /\ \A q \in Busy(k) : Alone(q)' = Alone(q) /\ Settled(q)' = Settled(q)
             /\ Right(k)' = Right(k) /\ (k \in mixed' <=> k \in mixed) /\ (k \in off' <=> k \in off)
  <2>1. Busy(k)' = Busy(k) /\ p \notin Busy(k)
    BY <1>1, <1>3 DEF Busy
  <2>2. \A q \in Busy(k) : q \in Client /\ client'[q] = client[q] /\ client[q].job = k
    BY <1>1, <2>1 DEF Busy
  <2>3. row'[k] = row[k] /\ registry'[k] = registry[k]
    BY <1>3
  <2>4. Right(k)' = Right(k)
    BY <2>3 DEF Right
  <2>5. \A q \in Busy(k) : Alone(q)' = Alone(q)
    BY <2>2, <2>3 DEF Alone
  <2>6. \A q \in Busy(k) : Settled(q)' = Settled(q)
    BY <2>2, <2>3 DEF Settled, Right
  <2>7. (k \in mixed' <=> k \in mixed) /\ (k \in off' <=> k \in off)
    BY <1>3
  <2> QED  BY <2>1, <2>4, <2>5, <2>6, <2>7
<1>4. j \notin mixed' => Busy(j)' = IF f.st = "idle" THEN {} ELSE {p}
  BY <1>1 DEF Busy
<1>5. ASSUME NEW k \in Job \ mixed', NEW q \in Busy(k)' PROVE Busy(k)' \subseteq {q} /\ Alone(q)'
  <2>1. CASE k = j
    <3>1. f.st # "idle" /\ q = p /\ Busy(k)' = {p}
      BY <1>4, <1>5, <2>1
    <3> QED  BY <1>5, <2>1, <3>1
  <2>2. CASE k # j
    <3>1. k \in Job \ mixed /\ q \in Busy(k) /\ Busy(k)' = Busy(k) /\ Alone(q)' = Alone(q)
      BY <1>3, <1>5, <2>2
    <3> QED  BY <3>1 DEF PjInv
  <2> QED  BY <2>1, <2>2
<1>6. ASSUME NEW k \in Job \ off'
      PROVE  /\ \A q \in Busy(k)' : Settled(q)'
             /\ Busy(k)' = {} => Right(k)'
  <2>1. CASE k = j
    BY <1>4, <1>6, <2>1
  <2>2. CASE k # j
    <3>1. /\ k \in Job \ off /\ Busy(k)' = Busy(k) /\ Right(k)' = Right(k)
          /\ \A q \in Busy(k) : Settled(q)' = Settled(q)
      BY <1>3, <1>6, <2>2
    <3> QED  BY <3>1 DEF PjInv
  <2> QED  BY <2>1, <2>2
<1> QED  BY <1>2, <1>5, <1>6 DEF PjInv

\* A request that is busy on a job which none disturbed.
LEMMA Undisturbed ==
  ASSUME PjInv, NEW p \in Client, client[p].st # "idle"
  PROVE  /\ client[p] \in PjReq /\ client[p].job \in Job /\ mixed \subseteq off /\ off \subseteq Job
         /\ client[p].st \in {"write", "sync"} => client[p].seen \in JobRow
         /\ row[client[p].job] \in JobRow \cup {NoJob}
         /\ client[p].job \notin mixed => Busy(client[p].job) \subseteq {p} /\ Alone(p)
         /\ client[p].job \notin off => Settled(p)
<1> DEFINE j == client[p].job
<1>1. /\ client[p] \in PjReq /\ j \in Job /\ mixed \subseteq off /\ off \subseteq Job
      /\ client[p].st \in {"write", "sync"} => client[p].seen \in JobRow
  BY DEF PjInv, PjTyped
<1>2. row[j] \in JobRow \cup {NoJob}
  BY <1>1 DEF PjInv, PjTyped
<1>3. p \in Busy(j)
  BY DEF Busy
<1>4. j \notin mixed => Busy(j) \subseteq {p} /\ Alone(p)
  BY <1>1, <1>3 DEF PjInv
<1>5. j \notin off => Settled(p)
  BY <1>1, <1>3 DEF PjInv
<1> QED  BY <1>1, <1>2, <1>4, <1>5

LEMMA RequestsBegin ==
  ASSUME PjInv, NEW p \in Client, NEW j \in Job,
         NEW op \in {"create", "update", "enable", "disable", "delete", "ensure"},
         BeginRequestOn(p, op, j)
  PROVE  PjInv'
<1> DEFINE f == [Resting EXCEPT !.op = op, !.job = j, !.st = IF op = "create" THEN "insert" ELSE "read"]
<1>1. f \in PjReq /\ f.job = j /\ f.st \in {"insert", "read"}
  BY DEF Resting, PjReq, PjStage
<1>2. client' = [client EXCEPT ![p] = f] /\ client[p].st = "idle" /\ UNCHANGED <<row, registry>>
  BY DEF BeginRequestOn
<1>3. /\ mixed' \ {j} = mixed \ {j} /\ off' \ {j} = off \ {j} /\ mixed' \subseteq off'
      /\ j \notin mixed' => Busy(j) = {}
      /\ j \notin off' => j \notin off /\ Busy(j) = {}
  BY DEF BeginRequestOn, PjInv, PjTyped
<1>4. client'[p] = f
  BY <1>2 DEF PjInv, PjTyped
<1> HIDE DEF f
<1>5. Alone(p)'
  BY <1>1, <1>4 DEF Alone
<1>6. j \notin off' => Settled(p)'
  BY <1>1, <1>2, <1>3, <1>4 DEF Settled, Right, PjInv
<1>7. f.st # "idle"
  BY <1>1
<1>8. row' \in [Job -> JobRow \cup {NoJob}] /\ registry' \in [Job -> Cron \cup {NoJob}]
  BY <1>2 DEF PjInv, PjTyped
<1> QED  BY <1>1, <1>2, <1>3, <1>5, <1>6, <1>7, <1>8, OneClient

\* Most steps: the request goes to a stage with a row in hand, or ends, and
\* writes a row or the registry of its job.
CanTake(p, st, sn, r, e) ==
  LET j == client[p].job IN
  /\ client[p].st # "idle" /\ st \in PjStage \ {"idle"} /\ sn \in JobRow \cup {NoJob}
  /\ st \in {"write", "sync"} => sn \in JobRow
  /\ r \in JobRow \cup {NoJob} /\ row' = [row EXCEPT ![j] = r]
  /\ e \in Cron \cup {NoJob} /\ registry' = [registry EXCEPT ![j] = e]
  /\ Takes(p, st, sn) /\ UNCHANGED <<mixed, off>>
  /\ Alone(p) => /\ st \in {"write", "sync"} => Agrees(j, sn, r)
                 /\ st = "delete" => e = NoJob
  /\ Alone(p) /\ Settled(p)
       => /\ st \in {"read", "insert", "write"} => e = Due(j, r)
          /\ st = "reread" => e = NoJob
          /\ st = "sync" /\ client[p].op \in {"create", "ensure"} /\ ~sn.enabled => e = NoJob
LEMMA Taking ==
  ASSUME PjInv, NEW p \in Client, NEW st, NEW sn, NEW r, NEW e, CanTake(p, st, sn, r, e)
  PROVE  PjInv'
<1> DEFINE f == [client[p] EXCEPT !.st = st, !.seen = sn]
           j == client[p].job
<1>1. /\ client[p] \in PjReq /\ j \in Job /\ mixed \subseteq off
      /\ j \notin mixed => Busy(j) \subseteq {p} /\ Alone(p)
      /\ j \notin off => Settled(p)
  BY Undisturbed DEF CanTake
<1>2. f \in PjReq /\ f.job = j /\ f.st = st /\ f.seen = sn /\ f.op = client[p].op
  BY <1>1 DEF CanTake, PjReq
<1>3. client' = [client EXCEPT ![p] = f] /\ client'[p] = f
  BY <1>1 DEF CanTake, Takes, PjReq, PjInv, PjTyped
<1>4. /\ row' \in [Job -> JobRow \cup {NoJob}] /\ registry' \in [Job -> Cron \cup {NoJob}]
      /\ row'[j] = r /\ registry'[j] = e
      /\ \A k \in Job \ {j} : row'[k] = row[k] /\ registry'[k] = registry[k]
  BY <1>1 DEF CanTake, PjInv, PjTyped
<1>5. mixed' = mixed /\ off' = off
  BY DEF CanTake
<1> HIDE DEF f
<1>6. j \notin mixed => Alone(p)'
  BY <1>1, <1>2, <1>3, <1>4 DEF CanTake, Alone
<1>7. j \notin off => Settled(p)'
  BY <1>1, <1>2, <1>3, <1>4 DEF CanTake, Settled, Right, KeepsAsIs
<1>8. /\ client[p].st = "idle" \/ client[p].job = j
      /\ f.st # "idle" /\ (f.st \in {"write", "sync"} => f.seen \in JobRow)
      /\ mixed' \ {j} = mixed \ {j} /\ off' \ {j} = off \ {j} /\ mixed' \subseteq off'
      /\ j \notin mixed' => Busy(j) \subseteq {p}
  BY <1>1, <1>2, <1>5 DEF CanTake
<1> QED  BY <1>1, <1>2, <1>3, <1>4, <1>5, <1>6, <1>7, <1>8, OneClient

LEMMA Leaving ==
  ASSUME PjInv, NEW p \in Client, client[p].st # "idle", Rests(p), UNCHANGED mixed,
         NEW r \in JobRow \cup {NoJob}, row' = [row EXCEPT ![client[p].job] = r],
         NEW e \in Cron \cup {NoJob}, registry' = [registry EXCEPT ![client[p].job] = e],
         off' \in {off, off \cup {client[p].job}}
           \/ (client[p].job \notin mixed /\ off' = off \ {client[p].job}),
         client[p].job \notin off' /\ Alone(p) /\ (client[p].job \notin off => Settled(p))
           => e = Due(client[p].job, r)
  PROVE  PjInv'
<1>1. PICK j \in Job : j = client[p].job
  BY Undisturbed
<1>2. /\ client[p] \in PjReq /\ mixed \subseteq off
      /\ j \notin mixed => Busy(j) \subseteq {p} /\ Alone(p)
      /\ j \notin off => Settled(p)
  BY <1>1, Undisturbed
<1>3. Resting \in PjReq /\ Resting.st = "idle"
  BY DEF Resting, PjReq, PjStage
<1>4. /\ row' \in [Job -> JobRow \cup {NoJob}] /\ registry' \in [Job -> Cron \cup {NoJob}]
      /\ row'[j] = r /\ registry'[j] = e
      /\ \A k \in Job \ {j} : row'[k] = row[k] /\ registry'[k] = registry[k]
  BY <1>1 DEF PjInv, PjTyped
<1>5. mixed' \subseteq off' /\ mixed' \ {j} = mixed \ {j} /\ off' \ {j} = off \ {j}
  BY <1>1, <1>2
<1>6. j \notin off' => Right(j)'
  BY <1>1, <1>2, <1>4, <1>5 DEF Right
<1>7. /\ client' = [client EXCEPT ![p] = Resting] /\ client[p].job = j
      /\ j \notin mixed' => Busy(j) \subseteq {p}
  BY <1>1, <1>2 DEF Rests
<1> QED  BY <1>3, <1>4, <1>5, <1>6, <1>7, OneClient

\* What a request leaves alone, in the form of these lemmas.
LEMMA LeftAlone ==
  ASSUME PjInv, NEW p \in Client, client[p].st # "idle"
  PROVE  /\ row = [row EXCEPT ![client[p].job] = row[client[p].job]]
         /\ registry = [registry EXCEPT ![client[p].job] = registry[client[p].job]]
         /\ row[client[p].job] \in JobRow \cup {NoJob} /\ registry[client[p].job] \in Cron \cup {NoJob}
BY Undisturbed DEF PjInv, PjTyped

\* A request that fails half way marks its job; one that fails before it wrote
\* leaves the job as it was.
LEMMA Breaking ==
  ASSUME PjInv, NEW p \in Client, client[p].st # "idle", Breaks(p), UNCHANGED mixed,
         NEW r \in JobRow \cup {NoJob}, row' = [row EXCEPT ![client[p].job] = r],
         registry' = registry
  PROVE  PjInv'
BY LeftAlone, Leaving DEF Breaks

LEMMA Resigning ==
  ASSUME PjInv, NEW p \in Client, client[p].st \in {"read", "insert", "write"}, Rests(p),
         UNCHANGED <<row, registry, mixed, off>>
  PROVE  PjInv'
<1>1. Settled(p) => registry[client[p].job] = Due(client[p].job, row[client[p].job])
  BY DEF Settled, Right
<1> QED  BY <1>1, LeftAlone, Leaving

-----------------------------------------------------------------------------
LEMMA Reading == ASSUME PjInv, NEW p \in Client, ReadRow(p) PROVE PjInv'
<1> DEFINE q == client[p]
           j == q.job
<1>1. /\ q.st = "read" /\ UNCHANGED <<row, registry, mixed, off>>
      /\ q \in PjReq /\ j \in Job /\ row[j] \in JobRow \cup {NoJob}
      /\ registry[j] \in Cron \cup {NoJob}
      /\ row' = [row EXCEPT ![j] = row[j]] /\ registry' = [registry EXCEPT ![j] = registry[j]]
  BY Undisturbed, LeftAlone DEF ReadRow
<1>2. Settled(p) => registry[j] = Due(j, row[j])
  BY <1>1 DEF Settled, Right
<1>3. ASSUME row[j] # NoJob, NEW st \in {"unregister", "sync", "write"}, Takes(p, st, AsRead(j)),
             st = "sync" => q.op = "ensure"
      PROVE  PjInv'
  <2>1. row[j] \in JobRow
    BY <1>1, <1>3
  <2>2. AsRead(j) \in JobRow /\ Agrees(j, AsRead(j), row[j]) /\ AsRead(j).enabled = row[j].enabled
    BY <1>1, <2>1, ReadAgrees
  <2>3. ~AsRead(j).enabled /\ Settled(p) => registry[j] = NoJob
    BY <1>2, <2>2 DEF Due, Runtime
  <2>4. st \in PjStage \ {"idle"}
    BY DEF PjStage
  <2>5. CanTake(p, st, AsRead(j), row[j], registry[j])
    BY <1>1, <1>2, <1>3, <2>1, <2>2, <2>3, <2>4 DEF CanTake
  <2> QED  BY <2>5, Taking
<1>4. ASSUME row[j] = NoJob, Takes(p, "insert", NoJob) PROVE PjInv'
  <2>1. "insert" \in PjStage \ {"idle"} /\ NoJob \in JobRow \cup {NoJob}
    BY DEF PjStage
  <2>2. CanTake(p, "insert", NoJob, row[j], registry[j])
    BY <1>1, <1>2, <1>4, <2>1 DEF CanTake
  <2> QED  BY <2>2, Taking
<1>5. CASE Rests(p)
  BY <1>1, <1>5, Resigning
<1> QED  BY <1>3, <1>4, <1>5 DEF ReadRow

LEMMA Inserting == ASSUME PjInv, NEW p \in Client, InsertRow(p) PROVE PjInv'
<1> DEFINE q == client[p]
           j == q.job
<1>1. /\ q.st = "insert" /\ UNCHANGED <<registry, mixed, off>>
      /\ q \in PjReq /\ j \in Job /\ row[j] \in JobRow \cup {NoJob}
      /\ registry[j] \in Cron \cup {NoJob} /\ registry' = [registry EXCEPT ![j] = registry[j]]
  BY Undisturbed, LeftAlone DEF InsertRow
<1>2. Settled(p) => registry[j] = Due(j, row[j])
  BY <1>1 DEF Settled, Right
<1>3. CASE Rests(p) /\ UNCHANGED row
  BY <1>1, <1>3, Resigning
<1>4. ASSUME row[j] = NoJob, NEW new \in Made(j), row' = [row EXCEPT ![j] = new],
             Takes(p, "reread", NoJob)
      PROVE  PjInv'
  <2>1. new \in JobRow \cup {NoJob}
    BY PeriodicAssumption DEF Made, JobRow
  <2>2. "reread" \in PjStage \ {"idle"} /\ NoJob \in JobRow \cup {NoJob}
    BY DEF PjStage
  <2>3. Settled(p) => registry[j] = NoJob
    BY <1>2, <1>4 DEF Due
  <2>4. CanTake(p, "reread", NoJob, new, registry[j])
    BY <1>1, <1>4, <2>1, <2>2, <2>3 DEF CanTake
  <2> QED  BY <2>4, Taking
<1> QED  BY <1>3, <1>4 DEF InsertRow

LEMMA ReadingAgain == ASSUME PjInv, NEW p \in Client, ReadAgain(p) PROVE PjInv'
<1> DEFINE q == client[p]
           j == q.job
<1>1. /\ q.st = "reread" /\ UNCHANGED <<row, registry, mixed>>
      /\ q \in PjReq /\ j \in Job /\ row[j] \in JobRow \cup {NoJob}
      /\ registry[j] \in Cron \cup {NoJob}
      /\ row' = [row EXCEPT ![j] = row[j]] /\ registry' = [registry EXCEPT ![j] = registry[j]]
  BY Undisturbed, LeftAlone DEF ReadAgain
<1>2. Settled(p) => registry[j] = NoJob
  BY <1>1 DEF Settled
<1>3. CASE row[j] = NoJob /\ Rests(p) /\ UNCHANGED off
  <2>1. Settled(p) => registry[j] = Due(j, row[j])
    BY <1>2, <1>3 DEF Due
  <2> QED  BY <1>1, <1>3, <2>1, Leaving
<1>4. CASE row[j] # NoJob /\ Takes(p, "sync", AsRead(j)) /\ UNCHANGED off
  <2>1. "sync" \in PjStage \ {"idle"}
    BY DEF PjStage
  <2>2. AsRead(j) \in JobRow /\ Agrees(j, AsRead(j), row[j])
    BY <1>1, <1>4, ReadAgrees
  <2>3. CanTake(p, "sync", AsRead(j), row[j], registry[j])
    BY <1>1, <1>2, <1>4, <2>1, <2>2 DEF CanTake
  <2> QED  BY <2>3, Taking
<1>5. CASE Breaks(p)
  BY <1>1, <1>5, Breaking
<1> QED  BY <1>3, <1>4, <1>5 DEF ReadAgain

\* What the request has in hand after its write stands for the row it wrote.
LEMMA Writing == ASSUME PjInv, NEW p \in Client, WriteRow(p) PROVE PjInv'
<1> DEFINE q == client[p]
           j == q.job
<1>1. /\ q.st = "write" /\ UNCHANGED <<registry, mixed>>
      /\ q \in PjReq /\ j \in Job /\ row[j] \in JobRow \cup {NoJob} /\ q.seen \in JobRow
      /\ registry[j] \in Cron \cup {NoJob}
      /\ row = [row EXCEPT ![j] = row[j]] /\ registry' = [registry EXCEPT ![j] = registry[j]]
  BY Undisturbed, LeftAlone DEF WriteRow
<1>2. Alone(p) => Agrees(j, q.seen, row[j])
  BY <1>1 DEF Alone
<1>3. CASE Rests(p) /\ UNCHANGED <<row, off>>
  BY <1>1, <1>3, Resigning
<1>4. ASSUME NEW new, Written(p, new), row[j] # NoJob => new \in JobRow,
             NEW sn \in JobRow, GoesOn(p, sn),
             Alone(p) => Agrees(j, sn, new), q.op \in {"update", "enable", "disable"}
      PROVE  PjInv'
  <2>1. PICK r : r = IF row[j] = NoJob THEN NoJob ELSE new
    OBVIOUS
  <2>2. r \in JobRow \cup {NoJob} /\ row' = [row EXCEPT ![j] = r]
    BY <1>1, <1>4, <2>1 DEF Written
  <2>3. Alone(p) => Agrees(j, sn, r)
    BY <1>2, <1>4, <2>1 DEF Agrees
  <2>4. CASE Breaks(p)
    BY <1>1, <2>2, <2>4, Breaking
  <2>5. CASE Takes(p, "sync", sn) /\ UNCHANGED off
    <3>1. "sync" \in PjStage \ {"idle"}
      BY DEF PjStage
    <3>2. CanTake(p, "sync", sn, r, registry[j])
      BY <1>1, <1>4, <2>2, <2>3, <2>5, <3>1 DEF CanTake
    <3> QED  BY <3>2, Taking
  <2> QED  BY <1>4, <2>4, <2>5 DEF GoesOn
<1>5. ASSUME q.op = "update", NEW c \in Writable(q.seen.cron), NEW e \in BOOLEAN,
             Written(p, [cron |-> c, enabled |-> e]), GoesOn(p, [cron |-> c, enabled |-> e])
      PROVE  PjInv'
  <2>1. PICK new : new = [cron |-> c, enabled |-> e]
    OBVIOUS
  <2>2. new \in JobRow /\ new # NoJob
    BY <1>1, <2>1, PeriodicAssumption DEF Writable, JobRow
  <2>3. Agrees(j, new, new)
    BY <2>2 DEF Agrees
  <2> QED  BY <1>4, <1>5, <2>1, <2>2, <2>3
<1>6. ASSUME NEW b \in BOOLEAN, Written(p, [row[j] EXCEPT !.enabled = b]),
             GoesOn(p, [q.seen EXCEPT !.enabled = b]), q.op \in {"update", "enable", "disable"}
      PROVE  PjInv'
  <2>1. PICK new, sn : new = [row[j] EXCEPT !.enabled = b] /\ sn = [q.seen EXCEPT !.enabled = b]
    OBVIOUS
  <2>2. row[j] # NoJob => /\ new \in JobRow /\ new # NoJob
                          /\ new.enabled = b /\ new.cron = row[j].cron
    BY <1>1, <2>1, PeriodicAssumption DEF JobRow
  <2>3. sn \in JobRow /\ sn.enabled = b /\ sn.cron = q.seen.cron
    BY <1>1, <2>1 DEF JobRow
  <2>4. Alone(p) => Agrees(j, sn, new)
    BY <1>2, <2>2, <2>3 DEF Agrees
  <2> QED  BY <1>4, <1>6, <2>1, <2>2, <2>3, <2>4
<1>7. CASE q.op = "update"
  BY <1>3, <1>5, <1>7 DEF WriteRow
<1>8. CASE q.op \in {"enable", "disable"}
  <2>1. PICK b \in BOOLEAN : b = (q.op = "enable")
    OBVIOUS
  <2> QED  BY <1>3, <1>6, <1>8, <2>1 DEF WriteRow
<1> QED  BY <1>3, <1>7, <1>8 DEF WriteRow

\* The registry gets what is due for the row in hand.
LEMMA Syncing == ASSUME PjInv, NEW p \in Client, SyncRegistry(p) PROVE PjInv'
<1> DEFINE q == client[p]
           j == q.job
<1>1. /\ q.st = "sync" /\ UNCHANGED <<row, mixed>> /\ Rests(p)
      /\ q \in PjReq /\ j \in Job /\ row[j] \in JobRow \cup {NoJob}
      /\ registry[j] \in Cron \cup {NoJob} /\ q.seen \in JobRow
      /\ row' = [row EXCEPT ![j] = row[j]] /\ mixed \subseteq off
  BY Undisturbed, LeftAlone DEF SyncRegistry
<1>2. PICK e : e = IF q.seen.enabled THEN Runtime(j, q.seen)
                   ELSE IF KeepsAsIs(q) THEN registry[j] ELSE NoJob
  OBVIOUS
<1>3. registry' = [registry EXCEPT ![j] = e]
  BY <1>2 DEF SyncRegistry, Replaced
<1>4. e \in Cron \cup {NoJob}
  BY <1>1, <1>2, NormalIsCron DEF Runtime, JobRow
<1>5. off' = IF j \in mixed \/ KeepsAsIs(q) THEN off ELSE off \ {j}
  BY DEF SyncRegistry
<1>6. Alone(p) => Runtime(j, q.seen) = Due(j, row[j])
  BY <1>1, AgreesDue DEF Alone
<1>7. ~KeepsAsIs(q) => e = Runtime(j, q.seen)
  BY <1>2 DEF Runtime
<1>8. KeepsAsIs(q) /\ Settled(p) => e = Runtime(j, q.seen)
  BY <1>1, <1>2 DEF Settled, KeepsAsIs, Runtime
<1>9. j \notin off' /\ Alone(p) /\ (j \notin off => Settled(p)) => e = Due(j, row[j])
  BY <1>5, <1>6, <1>7, <1>8
<1>10. off' = off \/ (j \notin mixed /\ off' = off \ {j})
  BY <1>5
<1> QED  BY <1>1, <1>3, <1>4, <1>9, <1>10, Leaving

LEMMA Deleting == ASSUME PjInv, NEW p \in Client, Unregister(p) \/ DeleteJob(p) PROVE PjInv'
<1> DEFINE q == client[p]
           j == q.job
<1>1. /\ q.st \in {"unregister", "delete"}
      /\ q \in PjReq /\ j \in Job /\ row[j] \in JobRow \cup {NoJob}
      /\ registry[j] \in Cron \cup {NoJob}
      /\ row = [row EXCEPT ![j] = row[j]] /\ registry = [registry EXCEPT ![j] = registry[j]]
  BY Undisturbed, LeftAlone DEF Unregister, DeleteJob
<1>2. CASE Unregister(p)
  <2>1. /\ Takes(p, "delete", q.seen) /\ UNCHANGED <<row, mixed, off>> /\ q.seen \in JobRow \cup {NoJob}
        /\ registry' = [registry EXCEPT ![j] = NoJob] /\ "delete" \in PjStage \ {"idle"}
    BY <1>1, <1>2 DEF Unregister, PjReq, PjStage
  <2>2. CanTake(p, "delete", q.seen, row[j], NoJob)
    BY <1>1, <2>1 DEF CanTake
  <2> QED  BY <2>2, Taking
<1>3. CASE DeleteJob(p)
  <2>1. q.st = "delete" /\ registry' = registry /\ mixed' = mixed
    BY <1>3 DEF DeleteJob
  <2>2. Alone(p) => registry[j] = Due(j, NoJob)
    BY <2>1 DEF Alone, Due
  <2>3. CASE row' = [row EXCEPT ![j] = NoJob] /\ Rests(p) /\ off' = IF j \in mixed THEN off ELSE off \ {j}
    BY <1>1, <2>1, <2>2, <2>3, Leaving
  <2>4. CASE Breaks(p) /\ UNCHANGED row
    BY <1>1, <2>1, <2>4, Breaking
  <2> QED  BY <1>3, <2>3, <2>4 DEF DeleteJob
<1> QED  BY <1>2, <1>3

LEMMA Restarting == PjInv /\ Restart => PjInv'
<1> SUFFICES ASSUME PjInv, Restart PROVE PjInv'
  OBVIOUS
<1>1. row' = row /\ row \in [Job -> JobRow \cup {NoJob}]
  BY DEF Restart, PjInv, PjTyped
<1>2. \A j \in Job : registry'[j] = Due(j, row'[j])
  BY <1>1 DEF Restart, Registered, Due
<1>3. registry' \in [Job -> Cron \cup {NoJob}]
  BY <1>1, <1>2, DueType DEF Restart, Registered
<1>4. Resting \in PjReq
  BY DEF Resting, PjReq, PjStage
<1>5. \A p \in Client : client'[p].st = "idle"
  BY DEF Restart, Resting
<1>6. PjTyped'
  BY <1>1, <1>3, <1>4, <1>5 DEF Restart, PjTyped
<1> QED  BY <1>2, <1>5, <1>6 DEF PjInv, Busy, Right

LEMMA PeriodicStep == PjInv /\ [PjNext]_pjVars => PjInv'
<1> SUFFICES ASSUME PjInv, [PjNext]_pjVars PROVE PjInv'
  OBVIOUS
<1>1. CASE UNCHANGED pjVars
  BY <1>1 DEF pjVars, PjInv, PjTyped, Busy, Alone, Settled, Right
<1>2. ASSUME NEW p \in Client, BeginJobRequest(p) PROVE PjInv'
  BY <1>2, RequestsBegin DEF BeginJobRequest, Job
<1> QED
  BY <1>1, <1>2, Reading, Inserting, ReadingAgain, Writing, Syncing, Deleting, Restarting
  DEF PjNext

-----------------------------------------------------------------------------
(* Listing.  A page is the first of what matches, counted by the rank in   *)
(* the page order; so the cursor has what was given before it and what is  *)
(* to come after it, and a steady entry does not change sides.             *)

LEMMA LeastNatural ==
  ASSUME NEW T, T \subseteq Nat, T # {}
  PROVE  \E x \in T : \A y \in T : x <= y
<1>1. PICK x \in T : \A y \in T : ~ (<<y, x>> \in OpToRel(<, Nat))
  BY NatLessThanWellFounded, WFMin
<1>2. \A y \in T : ~ (y < x)
  BY <1>1 DEF OpToRel
<1> QED  BY <1>2

\* Keys are numbers, NULL above all of them, and an entry that is gone has none.
LEMMA KeysAre ==
  /\ NullKey \in Nat /\ Gone \in Nat /\ NullKey < Gone
  /\ SortKey \subseteq Nat /\ \A k \in SortKey : k < NullKey
<1>1. \E k \in SortKey : \A l \in SortKey : l <= k
  BY ListAssumption
<1>2. PICK m : m = CHOOSE k \in SortKey : \A l \in SortKey : l <= k
  OBVIOUS
<1>3. m \in SortKey /\ \A l \in SortKey : l <= m
  BY <1>1, <1>2
<1>4. NullKey = 1 + m
  BY <1>2 DEF NullKey
<1> QED  BY <1>3, <1>4, ListAssumption DEF Gone

CursorOf == [key : SortKey \cup {Gone}, id : Entry \cup {0}]
LiTypes ==
  /\ keys \in [Entry -> SortKey \cup {NullKey, Gone}] /\ seen \in [Entry -> Nat]
  /\ listing \in [st : {"none", "open", "done", "failed"}, asc : BOOLEAN, asked : Nat, cursor : CursorOf]
  /\ steady \subseteq There

\* The cursor is after the entries that were given, and before the others.
LiInv ==
  /\ LiTypes
  /\ listing.st = "none" => listing = Unlisted /\ \A i \in Entry : seen[i] = 0
  /\ listing.st = "open" =>
       /\ listing.asked \in Asked
       /\ listing.cursor = NoCursor => \A i \in Entry : seen[i] = 0
       /\ listing.cursor # NoCursor =>
            /\ listing.cursor.key \in SortKey /\ listing.cursor.id \in Entry
            /\ \A i \in steady : keys[i] # NullKey => seen[i] = IF Beyond(i) THEN 0 ELSE 1
  /\ ListedOnce

LEMMA Ordered ==
  ASSUME LiTypes
  PROVE  /\ \A i \in Entry : ~Precedes(i, i)
         /\ \A i, j, k \in Entry : Precedes(i, j) /\ Precedes(j, k) => Precedes(i, k)
         /\ \A i, j \in Entry : i # j => Precedes(i, j) \/ Precedes(j, i)
<1>1. \A i \in Entry : keys[i] \in Nat /\ i \in Nat
  BY KeysAre, ListAssumption DEF LiTypes
<1> QED  BY <1>1 DEF Precedes, Smaller

Rank(M, i) == Cardinality({j \in M : Precedes(j, i)})

LEMMA Ranks ==
  ASSUME LiTypes, NEW M \in SUBSET Entry
  PROVE  /\ \A i \in M : Rank(M, i) \in Nat
         /\ \A i, j \in M : Precedes(i, j) => Rank(M, i) < Rank(M, j)
<1> DEFINE Pre(i) == {j \in M : Precedes(j, i)}
<1>1. \A i \in M : IsFiniteSet(Pre(i)) /\ Cardinality(Pre(i)) \in Nat
  <2> TAKE i \in M
  <2>1. Pre(i) \in SUBSET Entry
    OBVIOUS
  <2>2. IsFiniteSet(Pre(i))
    BY <2>1, ListAssumption, FS_Subset
  <2> QED  BY <2>2, FS_CardinalityType
<1>2. ASSUME NEW i \in M, NEW j \in M, Precedes(i, j) PROVE Cardinality(Pre(i)) < Cardinality(Pre(j))
  <2>1. Pre(i) \subseteq Pre(j) /\ i \in Pre(j) /\ i \notin Pre(i)
    BY <1>2, Ordered
  <2>2. Pre(i) \in SUBSET Pre(j) /\ Pre(i) # Pre(j)
    BY <2>1
  <2> HIDE DEF Pre
  <2>3. Cardinality(Pre(i)) <= Cardinality(Pre(j)) /\ Cardinality(Pre(j)) # Cardinality(Pre(i))
    BY <1>1, <2>2, FS_Subset
  <2> QED  BY <1>1, <2>3
<1> QED  BY <1>1, <1>2 DEF Rank

\* A page is the first entries in the order: all that there are, or as many as
\* its limit.
LEMMA PageIs ==
  ASSUME LiTypes, NEW M \in SUBSET Entry, NEW limit \in Nat \ {0},
         NEW page, page = {i \in M : Rank(M, i) < limit}
  PROVE  /\ page = M \/ Cardinality(page) = limit
         /\ page # {} => LastOf(page) \in page /\ \A j \in page \ {LastOf(page)} : Precedes(j, LastOf(page))
         /\ \A i \in page, j \in M \ page : Precedes(i, j)
<1>1. /\ \A i \in M : Rank(M, i) \in Nat
      /\ \A i, j \in M : Precedes(i, j) => Rank(M, i) < Rank(M, j)
  BY Ranks
<1>2. IsFiniteSet(page) /\ Cardinality(page) \in Nat /\ page \subseteq M
  <2>1. page \in SUBSET Entry
    OBVIOUS
  <2>2. IsFiniteSet(page)
    BY <2>1, ListAssumption, FS_Subset
  <2> QED  BY <2>2, FS_CardinalityType
<1>3. \A i \in page, j \in M \ page : Precedes(i, j)
  <2> SUFFICES ASSUME NEW i \in page, NEW j \in M \ page PROVE Precedes(i, j)
    OBVIOUS
  <2>1. Rank(M, i) < Rank(M, j)
    BY <1>1, <1>2
  <2>2. ~(Rank(M, j) < Rank(M, i)) /\ i # j
    BY <1>1, <1>2, <2>1
  <2> QED  BY <1>1, <1>2, <2>2, Ordered
<1>4. page # {} => \E l \in page : \A j \in page \ {l} : Precedes(j, l)
  <2> SUFFICES ASSUME page # {} PROVE \E l \in page : \A j \in page \ {l} : Precedes(j, l)
    OBVIOUS
  <2> DEFINE T == {limit - Rank(M, i) : i \in page}
  <2>1. T \subseteq Nat /\ T # {}
    BY <1>1
  <2>2. PICK x \in T : \A y \in T : x <= y
    BY <2>1, LeastNatural
  <2>3. PICK l \in page : x = limit - Rank(M, l)
    OBVIOUS
  <2>4. \A j \in page : Rank(M, j) <= Rank(M, l)
    <3> TAKE j \in page
    <3>1. limit - Rank(M, l) <= limit - Rank(M, j)
      BY <2>2, <2>3
    <3> QED  BY <1>1, <1>2, <3>1
  <2>5. \A j \in page \ {l} : Precedes(j, l)
    <3> TAKE j \in page \ {l}
    <3>1. ~(Rank(M, l) < Rank(M, j))
      BY <1>1, <1>2, <2>4
    <3> QED  BY <1>1, <1>2, <3>1, Ordered
  <2> QED  BY <2>5
<1>5. page # {} => LastOf(page) \in page /\ \A j \in page \ {LastOf(page)} : Precedes(j, LastOf(page))
  BY <1>4 DEF LastOf
<1>6. ASSUME page # M PROVE Cardinality(page) = limit
  <2> DEFINE T == {Rank(M, i) : i \in M \ page}
  <2>1. T \subseteq Nat /\ T # {}
    BY <1>1, <1>2, <1>6
  <2>2. PICK x \in T : \A y \in T : x <= y
    BY <2>1, LeastNatural
  <2>3. PICK m \in M \ page : x = Rank(M, m)
    OBVIOUS
  <2>4. \A j \in M \ page : Rank(M, m) <= Rank(M, j)
    BY <2>2, <2>3
  <2>5. {j \in M : Precedes(j, m)} = page
    <3>1. ASSUME NEW j \in M, Precedes(j, m) PROVE j \in page
      BY <1>1, <2>4, <3>1
    <3> QED  BY <1>2, <1>3, <3>1
  <2>6. Cardinality(page) = Rank(M, m) /\ ~(Rank(M, m) < limit)
    BY <2>5 DEF Rank
  <2>7. page # {}
    BY <1>2, <2>6, FS_EmptySet
  <2>8. PICK l \in page : \A j \in page \ {l} : Precedes(j, l)
    BY <1>4, <2>7
  <2>9. {j \in M : Precedes(j, l)} = page \ {l}
    <3>1. ASSUME NEW j \in M, Precedes(j, l) PROVE j \in page \ {l}
      <4>1. j # l
        BY <1>2, <3>1, Ordered
      <4>2. Rank(M, j) < Rank(M, l) /\ Rank(M, l) < limit
        BY <1>1, <1>2, <3>1
      <4> QED  BY <1>1, <1>2, <4>1, <4>2
    <3> QED  BY <1>2, <2>8, <3>1
  <2>10. Rank(M, l) = Cardinality(page) - 1
    <3>1. Cardinality(page \ {l}) = Cardinality(page) - 1
      BY <1>2, FS_RemoveElement
    <3> QED  BY <2>9, <3>1 DEF Rank
  <2>11. Rank(M, l) < limit /\ Rank(M, l) \in Nat /\ Rank(M, m) \in Nat
    BY <1>1, <1>2
  <2> QED  BY <1>2, <2>6, <2>10, <2>11
<1> QED  BY <1>3, <1>5, <1>6

LEMMA ListStarts == ListInit => LiInv
<1> SUFFICES ASSUME ListInit PROVE LiInv
  OBVIOUS
<1>1. NoCursor \in CursorOf
  BY DEF NoCursor, CursorOf
<1>2. (CHOOSE k \in SortKey : TRUE) \in SortKey
  BY ListAssumption
<1>3. LiTypes
  BY <1>1, <1>2 DEF ListInit, LiTypes, Unlisted
<1> QED  BY <1>3 DEF LiInv, ListInit, ListedOnce, Unlisted

LEMMA ListBegins ==
  ASSUME LiInv, NEW asc \in BOOLEAN, NEW asked \in Asked, ListBegin(asc, asked)
  PROVE  LiInv'
<1>1. listing = Unlisted /\ \A i \in Entry : seen[i] = 0
  BY DEF LiInv, ListBegin
<1>2. /\ listing'.st = "open" /\ listing'.asc = asc /\ listing'.asked = asked
      /\ listing'.cursor = NoCursor /\ UNCHANGED <<keys, seen>> /\ steady' = There
  BY DEF ListBegin, Unlisted
<1>3. LiTypes'
  <2>1. NoCursor \in CursorOf /\ asked \in Nat
    BY ListAssumption DEF NoCursor, CursorOf
  <2>2. There' = There
    BY <1>2 DEF There
  <2>3. listing' = [st |-> "open", asc |-> asc, asked |-> asked, cursor |-> NoCursor]
    BY DEF ListBegin, Unlisted
  <2> QED  BY <1>2, <2>1, <2>2, <2>3 DEF LiInv, LiTypes
<1>4. \A i \in Entry : seen'[i] = 0
  BY <1>1, <1>2
<1>5. ListedOnce'
  BY <1>2, <1>3, <1>4 DEF ListedOnce, LiTypes, There
<1> QED  BY <1>2, <1>3, <1>4, <1>5 DEF LiInv

LEMMA ListChanged ==
  ASSUME LiInv, NEW i \in Entry, NEW k \in SortKey \cup {NullKey, Gone}, EntryChange(i, k)
  PROVE  LiInv'
<1>1. /\ UNCHANGED <<listing, seen>> /\ steady' = steady \ {i}
      /\ \A j \in Entry : j # i => keys'[j] = keys[j]
      /\ keys' \in [Entry -> SortKey \cup {NullKey, Gone}]
  BY DEF EntryChange, LiInv, LiTypes
<1>2. LiTypes'
  BY <1>1 DEF LiInv, LiTypes, There
<1>3. \A j \in steady' : j \in steady /\ j \in Entry /\ keys'[j] = keys[j]
  BY <1>1 DEF LiInv, LiTypes, There
<1>4. \A j \in steady' : Beyond(j)' = Beyond(j)
  BY <1>1, <1>3 DEF Beyond
<1>5. ListedOnce'
  BY <1>1, <1>3 DEF LiInv, ListedOnce
<1> QED  BY <1>1, <1>2, <1>3, <1>4, <1>5 DEF LiInv

\* The rows that follow the cursor, one page of them.
LEMMA ListPages ==
  ASSUME Asked \subseteq 1..MaxPage, LiInv, ListPage
  PROVE  LiInv'
<1> DEFINE limit == listing.asked
           page == PageOf(Limit(listing.asked))
           last == LastOf(page)
<1>1. /\ LiTypes /\ ListedOnce /\ listing.st = "open" /\ limit \in Asked
      /\ UNCHANGED <<keys, steady>>
  BY DEF LiInv, ListPage
<1>2. limit \in Nat \ {0} /\ Limit(listing.asked) = limit
  <2>1. limit \in 1..MaxPage
    BY <1>1
  <2> QED  BY <2>1, ListAssumption DEF Limit
<1>3. Matching \in SUBSET Entry
  BY DEF Matching, There
<1>4. page = {i \in Matching : Rank(Matching, i) < limit}
  BY <1>2 DEF PageOf, Rank
<1> HIDE DEF page, last
<1>5. /\ page = Matching \/ Cardinality(page) = limit
      /\ page # {} => last \in page /\ \A j \in page \ {last} : Precedes(j, last)
      /\ \A i \in page, j \in Matching \ page : Precedes(i, j)
  <2>1. PICK n \in Nat \ {0} : n = limit
    BY <1>2
  <2>2. PICK M \in SUBSET Entry : M = Matching
    BY <1>3
  <2>3. page = {i \in M : Rank(M, i) < n}
    BY <1>4, <2>1, <2>2
  <2>4. /\ page = M \/ Cardinality(page) = n
        /\ page # {} => LastOf(page) \in page /\ \A j \in page \ {LastOf(page)} : Precedes(j, LastOf(page))
        /\ \A i \in page, j \in M \ page : Precedes(i, j)
    BY <1>1, <2>3, PageIs
  <2> QED  BY <2>1, <2>2, <2>4 DEF last
<1>6. page \subseteq Matching
  BY <1>4
<1>7. \A i \in Entry : keys[i] \in Nat /\ i \in Nat \ {0} /\ seen[i] \in Nat
  BY <1>1, KeysAre, ListAssumption DEF LiTypes
<1>8. \A i \in steady : i \in There /\ i \in Entry /\ keys[i] # Gone
  BY <1>1 DEF LiTypes, There
\* What was given before is not given again.
<1>9. \A i \in steady : /\ i \in Matching => seen[i] = 0
                        /\ i \notin Matching /\ keys[i] # NullKey => seen[i] = 1
  <2>1. CASE listing.cursor = NoCursor
    BY <1>1, <1>8, <2>1 DEF LiInv, Matching
  <2>2. CASE listing.cursor # NoCursor
    <3>1. \A i \in steady : i \in Matching <=> Beyond(i)
      BY <1>8, <2>2 DEF Matching
    <3>2. \A i \in steady : keys[i] # NullKey => seen[i] = IF Beyond(i) THEN 0 ELSE 1
      BY <1>1, <2>2 DEF LiInv
    <3>3. \A i \in steady : Beyond(i) => keys[i] # NullKey
      BY DEF Beyond
    <3> QED  BY <3>1, <3>2, <3>3
  <2> QED  BY <2>1, <2>2
<1>10. \A i \in steady : seen[i] <= 1
  BY <1>1 DEF ListedOnce
<1>11. ASSUME seen' = [i \in Entry |-> seen[i] + IF i \in page THEN 1 ELSE 0]
       PROVE  /\ seen' \in [Entry -> Nat]
              /\ \A i \in steady : seen'[i] <= 1
              /\ \A i \in steady : keys[i] # NullKey =>
                   seen'[i] = IF i \in Matching /\ i \notin page THEN 0 ELSE 1
  <2>1. \A i \in Entry : seen'[i] = seen[i] + IF i \in page THEN 1 ELSE 0
    BY <1>11
  <2> QED  BY <1>6, <1>7, <1>8, <1>9, <1>10, <1>11, <2>1
<1>12. CASE /\ Cardinality(page) # limit \/ page = {}
            /\ listing' = [listing EXCEPT !.st = "done"]
            /\ seen' = [i \in Entry |-> seen[i] + IF i \in page THEN 1 ELSE 0]
  <2>1. page = Matching
    <3>1. CASE page = {}
      <4>1. Cardinality(page) = 0
        BY <3>1, FS_EmptySet
      <4> QED  BY <1>2, <1>5, <4>1
    <3> QED  BY <1>5, <1>12, <3>1
  <2>2. \A i \in steady : keys[i] # NullKey => seen'[i] = 1
    BY <1>11, <1>12, <2>1
  <2>3. LiTypes'
    BY <1>1, <1>11, <1>12 DEF LiTypes, There
  <2>4. ListedOnce'
    BY <1>1, <1>11, <1>12, <2>2 DEF ListedOnce
  <2>5. listing'.st = "done"
    BY <1>1, <1>12 DEF LiTypes
  <2> QED  BY <2>3, <2>4, <2>5 DEF LiInv
<1>13. CASE /\ Cardinality(page) = limit /\ page # {} /\ keys[last] = NullKey
            /\ listing' = [listing EXCEPT !.st = "failed"]
            /\ UNCHANGED seen
  <2>1. LiTypes' /\ listing'.st = "failed"
    BY <1>1, <1>13 DEF LiTypes, There
  <2>2. ListedOnce'
    BY <1>1, <1>13, <2>1 DEF ListedOnce
  <2> QED  BY <2>1, <2>2 DEF LiInv
<1>14. CASE /\ Cardinality(page) = limit /\ page # {} /\ keys[last] # NullKey
            /\ listing' = [listing EXCEPT !.cursor = [key |-> keys[last], id |-> last]]
            /\ seen' = [i \in Entry |-> seen[i] + IF i \in page THEN 1 ELSE 0]
  <2>1. last \in page /\ last \in Entry /\ last \in Matching
    BY <1>3, <1>5, <1>6, <1>14
  <2>2. keys[last] \in SortKey
    BY <1>1, <1>14, <2>1 DEF LiTypes, Matching, There
  <2>3. PICK c : c = [key |-> keys[last], id |-> last]
    OBVIOUS
  <2>4. c \in CursorOf /\ c.key = keys[last] /\ c.id = last /\ c # NoCursor
    <3>1. last # 0
      BY <1>7, <2>1
    <3> QED  BY <2>1, <2>2, <2>3, <3>1 DEF CursorOf, NoCursor
  <2>5. /\ listing'.st = "open" /\ listing'.asc = listing.asc /\ listing'.asked = limit
        /\ listing'.cursor = c
    BY <1>1, <1>14, <2>3 DEF LiTypes
  <2>6. LiTypes'
    BY <1>1, <1>11, <1>14, <2>3, <2>4 DEF LiTypes, There
  \* An entry is beyond the new cursor when it comes after the last one given.
  <2>7. \A i \in steady : keys[i] # NullKey => (Beyond(i)' <=> Precedes(last, i))
    BY <1>1, <2>4, <2>5 DEF Beyond, Precedes
  <2>8. \A i \in steady : keys[i] # NullKey /\ i \notin Matching => ~Precedes(last, i)
    <3> SUFFICES ASSUME NEW i \in steady, keys[i] # NullKey, i \notin Matching, Precedes(last, i)
                 PROVE  FALSE
      OBVIOUS
    <3>1. listing.cursor # NoCursor /\ ~Beyond(i)
      BY <1>8 DEF Matching
    <3>2. Beyond(last)
      BY <2>1, <3>1 DEF Matching
    <3>3. listing.cursor.key \in SortKey /\ listing.cursor.id \in Entry
      BY <1>1, <3>1 DEF LiInv
    <3>4. listing.cursor.key \in Nat /\ listing.cursor.id \in Nat
      BY <3>3, KeysAre, ListAssumption
    <3> QED  BY <1>7, <1>8, <2>1, <3>1, <3>2, <3>4 DEF Beyond, Precedes, Smaller
  <2>9. \A i \in page : ~Precedes(last, i)
    BY <1>1, <1>3, <1>5, <1>6, <2>1, Ordered
  <2>10. \A i \in steady : keys[i] # NullKey => seen'[i] = IF Beyond(i)' THEN 0 ELSE 1
    <3> SUFFICES ASSUME NEW i \in steady, keys[i] # NullKey
                 PROVE  Beyond(i)' <=> i \in Matching /\ i \notin page
      BY <1>11, <1>14
    <3> QED  BY <1>5, <2>1, <2>7, <2>8, <2>9
  <2>11. ListedOnce'
    BY <1>1, <1>11, <1>14, <2>5 DEF ListedOnce
  <2> QED  BY <1>1, <2>2, <2>4, <2>5, <2>1, <2>6, <2>10, <2>11 DEF LiInv
<1> QED  BY <1>2, <1>12, <1>13, <1>14 DEF ListPage, page, last

LEMMA ListStep == Asked \subseteq 1..MaxPage /\ LiInv /\ [ListNext]_listVars => LiInv'
<1> SUFFICES ASSUME Asked \subseteq 1..MaxPage, LiInv, [ListNext]_listVars PROVE LiInv'
  OBVIOUS
<1>1. CASE UNCHANGED listVars
  BY <1>1 DEF listVars, LiInv, LiTypes, ListedOnce, Beyond, There
<1> QED  BY <1>1, ListBegins, ListPages, ListChanged DEF ListNext

-----------------------------------------------------------------------------
(* Types and bounds that no other invariant has.                           *)

LiTyped ==
  /\ keys \in [Entry -> SortKey \cup {NullKey, Gone}] /\ seen \in [Entry -> Nat]
  /\ DOMAIN listing = {"st", "asc", "asked", "cursor"}
  /\ listing.st \in {"none", "open", "done", "failed"}
  /\ steady \subseteq There

LEMMA ListTypes == (ListInit => LiTyped) /\ (LiTyped /\ [ListNext]_listVars => LiTyped')
<1>1. ASSUME ListInit PROVE LiTyped
  <2>1. (CHOOSE k \in SortKey : TRUE) \in SortKey
    BY ListAssumption
  <2> QED  BY <1>1, <2>1 DEF ListInit, LiTyped, Unlisted
<1> SUFFICES ASSUME LiTyped, [ListNext]_listVars PROVE LiTyped'
  BY <1>1
<1>2. ASSUME UNCHANGED keys PROVE There' = There
  BY <1>2 DEF There
<1>3. ASSUME NEW asc \in BOOLEAN, NEW asked \in Asked, ListBegin(asc, asked) PROVE LiTyped'
  <2>1. listing' = [st |-> "open", asc |-> asc, asked |-> asked, cursor |-> NoCursor]
    BY <1>3 DEF ListBegin, Unlisted
  <2> QED  BY <1>2, <1>3, <2>1 DEF ListBegin, LiTyped
<1>4. CASE ListPage
  <2> DEFINE page == PageOf(Limit(listing.asked))
             last == LastOf(page)
  <2> HIDE DEF page, last
  <2>1. ASSUME seen' = [i \in Entry |-> seen[i] + IF i \in page THEN 1 ELSE 0]
        PROVE  seen' \in [Entry -> Nat]
    BY <2>1 DEF LiTyped
  <2>2. seen' \in [Entry -> Nat]
    BY <1>4, <2>1 DEF ListPage, LiTyped, page
  <2>3. \/ listing' = [listing EXCEPT !.st = "done"] \/ listing' = [listing EXCEPT !.st = "failed"]
        \/ listing' = [listing EXCEPT !.cursor = [key |-> keys[last], id |-> last]]
    BY <1>4 DEF ListPage, page, last
  <2>4. /\ DOMAIN listing' = {"st", "asc", "asked", "cursor"}
        /\ listing'.st \in {"none", "open", "done", "failed"}
    BY <2>3 DEF LiTyped
  <2> QED  BY <1>2, <1>4, <2>2, <2>4 DEF ListPage, LiTyped
<1>5. ASSUME NEW i \in Entry, NEW k \in SortKey \cup {NullKey, Gone}, EntryChange(i, k)
      PROVE  LiTyped'
  BY <1>5 DEF EntryChange, LiTyped, There
<1>6. CASE UNCHANGED listVars
  BY <1>2, <1>6 DEF listVars, LiTyped
<1> QED  BY <1>3, <1>4, <1>5, <1>6 DEF ListNext

-----------------------------------------------------------------------------
\* The index of the next bot is that of a list some call was given, and these
\* are no longer than the list of bots can be.
ChBounded ==
  /\ tg \in [Channel -> {"new", "there", "deleted"}] /\ full \subseteq Channel
  /\ bots \in 0..MaxBots /\ botCache \in 0..NoCount /\ turn \in 0..(MaxBots - 1)
  /\ \A p \in Caller : call[p].count \in 0..MaxBots

LEMMA BoundsStart == ChInit => ChBounded
<1> SUFFICES ASSUME ChInit PROVE ChBounded
  OBVIOUS
<1>1. NoCall.count = 0
  BY DEF NoCall
<1>2. 0 \in 0..MaxBots /\ 1 \in 0..MaxBots /\ 0 \in 0..(MaxBots - 1) /\ NoCount \in 0..NoCount
  BY ChannelsAssumption DEF NoCount
<1> QED  BY <1>1, <1>2 DEF ChInit, ChBounded

\* A step after which the callers still have the lists that they had, or none.
LEMMA BoundsKept ==
  ASSUME ChInv, ChBounded, \A q \in Caller : call'[q].count \in {0, call[q].count},
         UNCHANGED <<tg, bots, botCache, turn, full>>
  PROVE  ChBounded'
<1>1. \A q \in Caller : call'[q].count \in 0..MaxBots
  BY ChannelsAssumption DEF ChBounded
<1> QED  BY <1>1 DEF ChBounded

LEMMA BoundsPlain ==
  ASSUME ChInv, ChBounded, NEW p \in Caller,
         \/ BeginCall(p) \/ CurrentChannel(p) \/ FillCurrent(p) \/ CheckLimit(p) \/ FindRecent(p)
         \/ AddBotsToChannel(p) \/ InsertChannel(p) \/ SelectRow(p) \/ InsertSelected(p)
         \/ ListRows(p) \/ UpdateRow(p) \/ Commit(p) \/ RollBack(p) \/ AfterCommit(p) \/ DeleteRow(p)
  PROVE  /\ \A q \in Caller : call'[q].count \in {0, call[q].count}
         /\ UNCHANGED <<tg, bots, botCache, turn>> /\ full' = full
<1>1. call \in [Caller -> ChCall]
  BY DEF ChInv, ChTyped
<1>2. DOMAIN call = Caller /\ call[p] \in ChCall /\ NoCall.count = 0
  BY <1>1 DEF NoCall
<1>3. DOMAIN call[p] = {"op", "st", "ch", "next", "list", "count", "pend"}
  BY <1>2 DEF ChCall
<1> USE <1>2, <1>3 DEF Go, Answered
<1>4. CASE BeginCall(p)
  BY <1>4 DEF BeginCall, NoCall
<1>5. CASE CurrentChannel(p)
  BY <1>5 DEF CurrentChannel
<1>6. CASE FillCurrent(p)
  BY <1>6 DEF FillCurrent
<1>7. CASE CheckLimit(p)
  BY <1>7 DEF CheckLimit
<1>8. CASE FindRecent(p)
  BY <1>8 DEF FindRecent
<1>9. CASE AddBotsToChannel(p)
  BY <1>9 DEF AddBotsToChannel
<1>10. CASE InsertChannel(p)
  BY <1>10 DEF InsertChannel
<1>11. CASE SelectRow(p)
  BY <1>11 DEF SelectRow
<1>12. CASE InsertSelected(p)
  <2>1. PICK pe : pe = With(call[p].pend, call[p].ch, TRUE)
    OBVIOUS
  <2>2. \/ call' = [call EXCEPT ![p] = NoCall]
        \/ call' = [call EXCEPT ![p].pend = pe, ![p].st = "list"]
        \/ call' = [call EXCEPT ![p].pend = pe, ![p].st = "commit"]
    BY <1>12, <2>1 DEF InsertSelected
  <2>3. UNCHANGED <<tg, bots, botCache, turn, full>>
    BY <1>12 DEF InsertSelected
  <2> QED  BY <2>2, <2>3
<1>13. CASE ListRows(p)
  BY <1>13 DEF ListRows
<1>14. CASE UpdateRow(p)
  <2>1. \/ \E pe, l : call' = [call EXCEPT ![p].pend = pe, ![p].list = l]
        \/ \E l : call' = [call EXCEPT ![p].list = l]
        \/ call' = [call EXCEPT ![p].st = "commit"]
        \/ call' = [call EXCEPT ![p].st = "insertsel"]
    BY <1>14, ZenonT(60) DEF UpdateRow, Write
  <2>2. UNCHANGED <<tg, bots, botCache, turn, full>>
    BY <1>14 DEF UpdateRow
  <2>3. ASSUME NEW pe, NEW l, call' = [call EXCEPT ![p].pend = pe, ![p].list = l]
        PROVE  \A q \in Caller : call'[q].count \in {0, call[q].count}
    BY <2>3
  <2>4. ASSUME NEW l, call' = [call EXCEPT ![p].list = l]
        PROVE  \A q \in Caller : call'[q].count \in {0, call[q].count}
    BY <2>4
  <2>5. ASSUME NEW st, call' = [call EXCEPT ![p].st = st]
        PROVE  \A q \in Caller : call'[q].count \in {0, call[q].count}
    BY <2>5
  <2> QED  BY <2>1, <2>2, <2>3, <2>4, <2>5
<1>15. CASE Commit(p)
  BY <1>15 DEF Commit
<1>16. CASE RollBack(p)
  BY <1>16 DEF RollBack
<1>17. CASE AfterCommit(p)
  BY <1>17 DEF AfterCommit
<1>18. CASE DeleteRow(p)
  BY <1>18 DEF DeleteRow
<1> QED
  BY <1>4, <1>5, <1>6, <1>7, <1>8, <1>9, <1>10, <1>11, <1>12, <1>13, <1>14, <1>15, <1>16, <1>17, <1>18

LEMMA BoundsStep == ChInv /\ ChBounded /\ [ChNext]_chVars => ChBounded'
<1> SUFFICES ASSUME ChInv, ChBounded, [ChNext]_chVars PROVE ChBounded'
  OBVIOUS
<1>0. /\ call \in [Caller -> ChCall] /\ NoCall.count = 0
      /\ \A p \in Caller : DOMAIN call[p] = {"op", "st", "ch", "next", "list", "count", "pend"}
  BY DEF ChInv, ChTyped, ChCall, NoCall
<1>1. CASE \E p \in Caller :
             \/ BeginCall(p) \/ CurrentChannel(p) \/ FillCurrent(p) \/ CheckLimit(p) \/ FindRecent(p)
             \/ AddBotsToChannel(p) \/ InsertChannel(p) \/ SelectRow(p) \/ InsertSelected(p)
             \/ ListRows(p) \/ UpdateRow(p) \/ Commit(p) \/ RollBack(p) \/ AfterCommit(p) \/ DeleteRow(p)
  BY <1>1, BoundsPlain, BoundsKept
\* The other steps give the caller no new list, but for BotTokens.
<1>2. ASSUME NEW p \in Caller,
             \/ CreateChannel(p) \/ FillBots(p) \/ PickBot(p)
             \/ DeleteAtTelegram(p) \/ SaveBots(p) \/ RemoveBots(p) \/ UncacheBots(p)
      PROVE  \A q \in Caller : call'[q].count \in {0, call[q].count}
  <2> USE <1>0 DEF Go, Answered
  <2>1. CASE CreateChannel(p)
    BY <2>1 DEF CreateChannel
  <2>2. CASE FillBots(p)
    BY <2>2 DEF FillBots
  <2>3. CASE PickBot(p)
    BY <2>3 DEF PickBot
  <2>4. CASE DeleteAtTelegram(p)
    BY <2>4 DEF DeleteAtTelegram
  <2>5. CASE SaveBots(p) \/ RemoveBots(p) \/ UncacheBots(p)
    BY <2>5 DEF SaveBots, RemoveBots, UncacheBots
  <2> QED  BY <1>2, <2>1, <2>2, <2>3, <2>4, <2>5
<1>3. ASSUME \A q \in Caller : call'[q].count \in {0, call[q].count}
      PROVE  \A q \in Caller : call'[q].count \in 0..MaxBots
  BY <1>3, ChannelsAssumption DEF ChBounded
<1>4. ASSUME NEW p \in Caller, CreateChannel(p) \/ DeleteAtTelegram(p) PROVE ChBounded'
  <2>1. tg' \in [Channel -> {"new", "there", "deleted"}]
    BY <1>4 DEF CreateChannel, DeleteAtTelegram, ChBounded
  <2>2. UNCHANGED <<bots, botCache, turn, full>>
    BY <1>4 DEF CreateChannel, DeleteAtTelegram
  <2> QED  BY <1>2, <1>3, <1>4, <2>1, <2>2 DEF ChBounded
<1>5. ASSUME NEW p \in Caller, BotTokens(p) PROVE ChBounded'
  <2>1. call[p].count \in 0..MaxBots /\ (botCache # NoCount => botCache \in 0..MaxBots)
    BY ChannelsAssumption DEF ChBounded, NoCount
  <2>2. \A q \in Caller : q # p => call'[q].count = call[q].count
    BY <1>0, <1>5 DEF BotTokens
  <2>3. call'[p].count \in 0..MaxBots
    BY <1>0, <1>5, <2>1 DEF BotTokens, ChBounded
  <2>4. UNCHANGED <<tg, bots, botCache, turn, full>>
    BY <1>5 DEF BotTokens
  <2> QED  BY <2>2, <2>3, <2>4 DEF ChBounded
<1>6. ASSUME NEW p \in Caller, FillBots(p) \/ UncacheBots(p) PROVE ChBounded'
  <2>1. botCache' \in 0..NoCount
    BY <1>6, ChannelsAssumption DEF FillBots, UncacheBots, ChBounded, NoCount
  <2>2. UNCHANGED <<tg, bots, turn, full>>
    BY <1>6 DEF FillBots, UncacheBots
  <2> QED  BY <1>2, <1>3, <1>6, <2>1, <2>2 DEF ChBounded
<1>7. ASSUME NEW p \in Caller, PickBot(p) PROVE ChBounded'
  <2>1. PICK n \in 0..MaxBots : n = call[p].count
    BY DEF ChBounded
  <2>2. turn' = IF n = 0 THEN turn ELSE (turn + 1) % n
    BY <1>7, <2>1 DEF PickBot
  <2>3. turn' \in 0..(MaxBots - 1)
    <3>1. turn + 1 \in Nat /\ n \in Nat
      BY <2>1, ChannelsAssumption DEF ChBounded
    <3>2. n # 0 => (turn + 1) % n \in 0..(n - 1)
      BY <3>1
    <3> QED  BY <2>1, <2>2, <3>1, <3>2, ChannelsAssumption DEF ChBounded
  <2>4. UNCHANGED <<tg, bots, botCache, full>>
    BY <1>7 DEF PickBot
  <2> QED  BY <1>2, <1>3, <1>7, <2>3, <2>4 DEF ChBounded
<1>8. ASSUME NEW p \in Caller, SaveBots(p) \/ RemoveBots(p) PROVE ChBounded'
  <2>1. bots' \in 0..MaxBots
    BY <1>8, ChannelsAssumption DEF SaveBots, RemoveBots, ChBounded
  <2>2. UNCHANGED <<tg, botCache, turn, full>>
    BY <1>8 DEF SaveBots, RemoveBots
  <2> QED  BY <1>2, <1>3, <1>8, <2>1, <2>2 DEF ChBounded
<1>9. CASE Later \/ UNCHANGED chVars
  BY <1>9 DEF Later, chVars, ChBounded
<1>10. ASSUME NEW c \in Channel, FillChannel(c) PROVE ChBounded'
  BY <1>10 DEF FillChannel, ChBounded
<1> QED  BY <1>1, <1>4, <1>5, <1>6, <1>7, <1>8, <1>9, <1>10 DEF ChNext

-----------------------------------------------------------------------------
(* A login attempt.                                                        *)

AtTyped ==
  /\ attempt \in [there : BOOLEAN, session : BOOLEAN,
                  state : {"created", "qr_pending", "code_sent", "password_required",
                           "authenticated", "failed", "expired"}]
  /\ worker \in Command \cup {"none", "idle", "qr", "stopping", "over"}
  /\ queue \in Seq(Command \cup {"qr"}) /\ Len(queue) <= QueueCap
  /\ ctx \in {"none", "live", "cancelled", "deadline"} /\ timers \in [due : Nat, marked : Nat]
  /\ slot \in [Slot -> [st : {"free", "found"}, cmd : Command \cup {"delete", "none"}]]

LEMMA AttemptStarts == AtInit => AtTyped
BY AttemptAssumption DEF AtInit, AtTyped, FreeSlotOf

LEMMA AttemptStep == AtTyped /\ [AtNext]_atVars => AtTyped'
<1> SUFFICES ASSUME AtTyped, [AtNext]_atVars PROVE AtTyped'
  OBVIOUS
<1> USE DEF AtTyped
<1>1. CASE CreateAttempt
  <2>1. <<"qr">> \in Seq(Command \cup {"qr"}) /\ <<"send">> \in Seq(Command \cup {"qr"})
        /\ <<>> \in Seq(Command \cup {"qr"})
    BY DEF Command
  <2>2. queue' \in Seq(Command \cup {"qr"}) /\ Len(queue') <= QueueCap
    <3>1. Len(<<"qr">>) = 1 /\ Len(<<"send">>) = 1 /\ Len(<<>>) = 0
      OBVIOUS
    <3>2. \E first \in {<<"qr">>, <<"send">>, <<>>} : queue' = first
      BY <1>1 DEF CreateAttempt
    <3>3. 0 <= QueueCap /\ 1 <= QueueCap
      BY AttemptAssumption
    <3> QED  BY <2>1, <3>1, <3>2, <3>3
  <2> QED  BY <1>1, <2>2 DEF CreateAttempt
<1>2. ASSUME NEW r \in Slot, NEW cmd \in Command \cup {"delete"}, BeginRequest(r, cmd) PROVE AtTyped'
  BY <1>2 DEF BeginRequest
<1>3. ASSUME NEW r \in Slot, Enqueue(r) PROVE AtTyped'
  <2>1. slot' \in [Slot -> [st : {"free", "found"}, cmd : Command \cup {"delete", "none"}]]
    BY <1>3 DEF Enqueue, FreeSlotOf
  <2>2. queue' \in Seq(Command \cup {"qr"}) /\ Len(queue') <= QueueCap
    <3>1. CASE UNCHANGED queue
      BY <3>1
    <3>2. CASE HasRoom /\ queue' = Append(queue, slot[r].cmd)
      <4>1. slot[r].cmd \in Command \cup {"qr"}
        BY <1>3 DEF Enqueue
      <4>2. Len(queue') = Len(queue) + 1 /\ queue' \in Seq(Command \cup {"qr"})
        BY <3>2, <4>1
      <4> QED  BY <3>2, <4>2, AttemptAssumption DEF HasRoom
    <3> QED  BY <1>3, <3>1, <3>2 DEF Enqueue
  <2> QED  BY <1>3, <2>1, <2>2 DEF Enqueue
<1>4. ASSUME NEW r \in Slot, DeleteAttempt(r) PROVE AtTyped'
  BY <1>4 DEF DeleteAttempt, FreeSlotOf, Closed
<1>5. CASE TakeCommand
  <2>1. Head(queue) \in Command \cup {"qr"} /\ Tail(queue) \in Seq(Command \cup {"qr"})
        /\ Len(Tail(queue)) = Len(queue) - 1
    BY <1>5 DEF TakeCommand
  <2>2. Len(queue') <= QueueCap
    BY <1>5, <2>1, AttemptAssumption DEF TakeCommand
  <2> QED  BY <1>5, <2>1, <2>2 DEF TakeCommand
<1>6. CASE QRToken
  BY <1>6 DEF QRToken, Shown
<1>7. CASE CodeSent \/ PasswordRequired \/ CommandFails
  BY <1>7 DEF CodeSent, PasswordRequired, CommandFails, Answer, Shown
<1>8. CASE Success
  <2>1. PICK t \in [due : Nat, marked : Nat] : t = timers
    OBVIOUS
  <2>2. [t EXCEPT !.due = t.due + 1] \in [due : Nat, marked : Nat]
    OBVIOUS
  <2>3. timers' \in [due : Nat, marked : Nat]
    BY <1>8, <2>1, <2>2 DEF Success, Scheduled
  <2> QED  BY <1>8, <2>3 DEF Success
<1>9. CASE CommandCancelled
  BY <1>9 DEF CommandCancelled
<1>10. CASE RunReturns
  BY <1>10 DEF RunReturns, Shown
<1>11. CASE WorkerEnds
  BY <1>11 DEF WorkerEnds, Scheduled, Closed
<1>12. CASE TimeToLive
  BY <1>12 DEF TimeToLive
<1>13. CASE CleanupMark
  BY <1>13 DEF CleanupMark, Shown
<1>14. CASE CleanupDelete
  <2>1. PICK t \in [due : Nat, marked : Nat] : t = timers
    OBVIOUS
  <2>2. t.marked > 0 /\ timers' = [t EXCEPT !.marked = t.marked - 1]
    BY <1>14, <2>1 DEF CleanupDelete
  <2>3. timers' \in [due : Nat, marked : Nat]
    BY <2>2
  <2> QED  BY <1>14, <2>3 DEF CleanupDelete, Closed
<1>15. CASE UNCHANGED atVars
  BY <1>15 DEF atVars
<1> QED
  BY <1>1, <1>2, <1>3, <1>4, <1>5, <1>6, <1>7, <1>8, <1>9, <1>10, <1>11, <1>12, <1>13, <1>14, <1>15
  DEF AtNext

-----------------------------------------------------------------------------
(* Events through Redis: what waits to be saved was recorded.              *)

Sent == {e \in Event : origin[e] # {}}
ReTyped ==
  /\ origin \in [Event -> SUBSET Instance] /\ saved \subseteq Sent
  /\ inbox \in [Instance -> Seq(Event)] /\ channel \in [Instance -> Seq(Event)]
  /\ waiting \in [Instance -> Seq(Event)]
  /\ \A i \in Instance : /\ Len(inbox[i]) <= InboxSize /\ Len(waiting[i]) <= QueueSize
                         /\ Len(channel[i]) <= StreamSize
                         /\ \A k \in 1..Len(waiting[i]) : waiting[i][k] \in Sent

LEMMA RedisStarts == ReInit => ReTyped
BY RedisAssumption DEF ReInit, ReTyped

LEMMA RedisStep == ReTyped /\ [ReNext]_reVars => ReTyped'
<1> SUFFICES ASSUME ReTyped, [ReNext]_reVars PROVE ReTyped'
  OBVIOUS
<1>0. {InboxSize, StreamSize, QueueSize} \subseteq Nat \ {0}
  BY RedisAssumption
<1> DEFINE InboxOK   == inbox \in [Instance -> Seq(Event)] /\ \A i \in Instance : Len(inbox[i]) <= InboxSize
           ChannelOK == channel \in [Instance -> Seq(Event)] /\ \A i \in Instance : Len(channel[i]) <= StreamSize
           WaitingOK == /\ origin \in [Event -> SUBSET Instance] /\ saved \subseteq Sent
                        /\ waiting \in [Instance -> Seq(Event)]
                        /\ \A i \in Instance : /\ Len(waiting[i]) <= QueueSize
                                               /\ \A k \in 1..Len(waiting[i]) : waiting[i][k] \in Sent
<1>1. InboxOK /\ ChannelOK /\ WaitingOK
  BY DEF ReTyped
<1>2. ASSUME InboxOK', ChannelOK', WaitingOK' PROVE ReTyped'
  BY <1>2 DEF ReTyped
<1>3. UNCHANGED inbox => InboxOK'
  BY <1>1
<1>4. UNCHANGED channel => ChannelOK'
  BY <1>1
<1>5. UNCHANGED <<origin, saved, waiting>> => WaitingOK'
  BY <1>1 DEF Sent
\* Taking the first of a sequence, adding a last one that has room.
<1>6. ASSUME NEW s \in Seq(Event), NEW n \in Nat, Len(s) <= n, s # <<>>
      PROVE  /\ Tail(s) \in Seq(Event) /\ Len(Tail(s)) <= n /\ Head(s) = s[1] /\ 1 \in 1..Len(s)
             /\ \A k \in 1..Len(Tail(s)) : k + 1 \in 1..Len(s) /\ Tail(s)[k] = s[k + 1]
  <2>1. Len(s) \in Nat \ {0} /\ Len(Tail(s)) = Len(s) - 1
    BY <1>6
  <2> QED  BY <1>6, <2>1
<1>7. ASSUME NEW s \in Seq(Event), NEW n \in Nat, Len(s) < n, NEW e \in Event
      PROVE  /\ Append(s, e) \in Seq(Event) /\ Len(Append(s, e)) <= n
             /\ \A k \in 1..Len(Append(s, e)) : Append(s, e)[k] = e \/ (k \in 1..Len(s) /\ Append(s, e)[k] = s[k])
  <2>1. Len(Append(s, e)) = Len(s) + 1 /\ Len(s) \in Nat
    OBVIOUS
  <2> QED  BY <1>7, <2>1
<1>8. QueueSize \in Nat /\ InboxSize \in Nat /\ StreamSize \in Nat
  BY <1>0
<1> HIDE DEF InboxOK, ChannelOK, WaitingOK
<1>10. ASSUME NEW i \in Instance, NEW e \in Event, Record(i, e) PROVE ReTyped'
  <2>1. /\ UNCHANGED <<inbox, channel, saved>> /\ origin' = [origin EXCEPT ![e] = {i}]
        /\ waiting' = IF Len(waiting[i]) < QueueSize THEN [waiting EXCEPT ![i] = Append(@, e)] ELSE waiting
    BY <1>10 DEF Record
  <2>2. origin' \in [Event -> SUBSET Instance] /\ Sent \subseteq Sent' /\ e \in Sent'
    BY <1>1, <2>1 DEF WaitingOK, Sent
  <2>3. waiting' \in [Instance -> Seq(Event)]
    BY <1>1, <2>1 DEF WaitingOK
  <2>4. ASSUME NEW j \in Instance
        PROVE  /\ Len(waiting'[j]) <= QueueSize
               /\ \A k \in 1..Len(waiting'[j]) : waiting'[j][k] \in Sent'
    <3>1. CASE waiting'[j] = waiting[j]
      BY <1>1, <2>2, <3>1 DEF WaitingOK
    <3>2. CASE j = i /\ Len(waiting[i]) < QueueSize
      <4>1. PICK s \in Seq(Event) : s = waiting[i]
        BY <1>1 DEF WaitingOK
      <4>2. waiting'[j] = Append(s, e)
        BY <1>1, <2>1, <3>2, <4>1 DEF WaitingOK
      <4>3. \A k \in 1..Len(s) : s[k] \in Sent
        BY <1>1, <4>1 DEF WaitingOK
      <4> QED  BY <1>7, <1>8, <2>2, <3>2, <4>1, <4>2, <4>3
    <3> QED  BY <1>1, <2>1, <3>1, <3>2 DEF WaitingOK
  <2>5. WaitingOK'
    BY <1>1, <2>1, <2>2, <2>3, <2>4 DEF WaitingOK
  <2> QED  BY <1>2, <1>3, <1>4, <2>1, <2>5
<1>11. ASSUME NEW e \in Event, Publish(e) PROVE ReTyped'
  <2>1. /\ UNCHANGED <<channel, origin, saved, waiting>>
        /\ inbox' = [i \in Instance |-> IF i \in link /\ Len(inbox[i]) < InboxSize
                                        THEN Append(inbox[i], e) ELSE inbox[i]]
    BY <1>11 DEF Publish, Delivered
  <2>2. ASSUME NEW i \in Instance PROVE inbox'[i] \in Seq(Event) /\ Len(inbox'[i]) <= InboxSize
    <3>1. inbox[i] \in Seq(Event) /\ Len(inbox[i]) <= InboxSize
      BY <1>1 DEF InboxOK
    <3>2. (inbox'[i] = Append(inbox[i], e) /\ Len(inbox[i]) < InboxSize) \/ inbox'[i] = inbox[i]
      BY <2>1
    <3> QED  BY <1>7, <1>8, <3>1, <3>2
  <2>3. InboxOK'
    BY <2>1, <2>2 DEF InboxOK
  <2> QED  BY <1>2, <1>4, <1>5, <2>1, <2>3
<1>12. ASSUME NEW i \in Instance, Receive(i) PROVE ReTyped'
  <2>1. /\ UNCHANGED <<origin, saved, waiting>> /\ inbox' = [inbox EXCEPT ![i] = Tail(@)] /\ inbox[i] # <<>>
        /\ \/ UNCHANGED channel
           \/ Len(channel[i]) < StreamSize /\ channel' = [channel EXCEPT ![i] = Append(@, Head(inbox[i]))]
    BY <1>12 DEF Receive
  <2>2. inbox[i] \in Seq(Event) /\ Len(inbox[i]) <= InboxSize
    BY <1>1 DEF InboxOK
  <2>3. Tail(inbox[i]) \in Seq(Event) /\ Len(Tail(inbox[i])) <= InboxSize /\ Head(inbox[i]) \in Event
    BY <1>6, <1>8, <2>1, <2>2
  <2>4. InboxOK'
    BY <1>1, <2>1, <2>3 DEF InboxOK
  <2>5. ChannelOK'
    <3>1. CASE UNCHANGED channel
      BY <1>4, <3>1
    <3>2. CASE Len(channel[i]) < StreamSize /\ channel' = [channel EXCEPT ![i] = Append(@, Head(inbox[i]))]
      <4>1. PICK e \in Event : e = Head(inbox[i])
        BY <2>3
      <4>2. channel[i] \in Seq(Event)
        BY <1>1 DEF ChannelOK
      <4>3. Append(channel[i], e) \in Seq(Event) /\ Len(Append(channel[i], e)) <= StreamSize
        BY <1>7, <1>8, <3>2, <4>2
      <4> QED  BY <1>1, <3>2, <4>1, <4>3 DEF ChannelOK
    <3> QED  BY <2>1, <3>1, <3>2
  <2> QED  BY <1>2, <1>5, <2>1, <2>4, <2>5
<1>13. ASSUME NEW i \in Instance, Join(i) PROVE ReTyped'
  <2>1. UNCHANGED <<inbox, origin, saved, waiting>> /\ channel' = [channel EXCEPT ![i] = <<>>]
    BY <1>13 DEF Join
  <2>2. ChannelOK'
    BY <1>1, <1>8, <2>1 DEF ChannelOK
  <2> QED  BY <1>2, <1>3, <1>5, <2>1, <2>2
<1>14. ASSUME NEW i \in Instance, StreamSends(i) PROVE ReTyped'
  <2>1. UNCHANGED <<inbox, origin, saved, waiting>> /\ channel[i] # <<>> /\ channel' = [channel EXCEPT ![i] = Tail(@)]
    BY <1>14 DEF StreamSends
  <2>2. channel[i] \in Seq(Event) /\ Len(channel[i]) <= StreamSize
    BY <1>1 DEF ChannelOK
  <2>3. Tail(channel[i]) \in Seq(Event) /\ Len(Tail(channel[i])) <= StreamSize
    BY <1>6, <1>8, <2>1, <2>2
  <2>4. ChannelOK'
    BY <1>1, <2>1, <2>3 DEF ChannelOK
  <2> QED  BY <1>2, <1>3, <1>5, <2>1, <2>4
<1>15. ASSUME NEW i \in Instance, SaveEvent(i) PROVE ReTyped'
  <2>1. /\ UNCHANGED <<inbox, origin, channel>> /\ waiting[i] # <<>>
        /\ waiting' = [waiting EXCEPT ![i] = Tail(@)] /\ saved' \in {saved, saved \cup {Head(waiting[i])}}
    BY <1>15 DEF SaveEvent
  <2>2. PICK s \in Seq(Event) : s = waiting[i]
    BY <1>1 DEF WaitingOK
  <2>3. Len(s) <= QueueSize /\ s # <<>> /\ \A k \in 1..Len(s) : s[k] \in Sent
    BY <1>1, <2>1, <2>2 DEF WaitingOK
  <2>4. /\ Tail(s) \in Seq(Event) /\ Len(Tail(s)) <= QueueSize /\ Head(s) \in Sent
        /\ \A k \in 1..Len(Tail(s)) : Tail(s)[k] \in Sent
    BY <1>6, <1>8, <2>3
  <2>5. Sent' = Sent
    BY <2>1 DEF Sent
  <2>6. ASSUME NEW j \in Instance
        PROVE  /\ waiting'[j] \in Seq(Event) /\ Len(waiting'[j]) <= QueueSize
               /\ \A k \in 1..Len(waiting'[j]) : waiting'[j][k] \in Sent
    <3>1. waiting'[j] = IF j = i THEN Tail(s) ELSE waiting[j]
      BY <1>1, <2>1, <2>2 DEF WaitingOK
    <3> QED  BY <1>1, <2>4, <3>1 DEF WaitingOK
  <2>7. waiting' \in [Instance -> Seq(Event)]
    BY <1>1, <2>1, <2>2, <2>4 DEF WaitingOK
  <2>8. WaitingOK'
    BY <1>1, <2>1, <2>2, <2>4, <2>5, <2>6, <2>7 DEF WaitingOK
  <2> QED  BY <1>2, <1>3, <1>4, <2>1, <2>8
<1>16. ASSUME NEW i \in Instance, StopInstance(i) PROVE ReTyped'
  <2>1. UNCHANGED <<channel, origin, saved, waiting>> /\ inbox' = [inbox EXCEPT ![i] = <<>>]
    BY <1>16 DEF StopInstance
  <2>2. InboxOK'
    BY <1>1, <1>8, <2>1 DEF InboxOK
  <2> QED  BY <1>2, <1>4, <1>5, <2>1, <2>2
<1>17. ASSUME UNCHANGED <<origin, saved, inbox, channel, waiting>> PROVE ReTyped'
  BY <1>2, <1>3, <1>4, <1>5, <1>17
<1> QED
  BY <1>10, <1>11, <1>12, <1>13, <1>14, <1>15, <1>16, <1>17
  DEF ReNext, reVars, PublishFails, Connect, LoseConnection, Leave

-----------------------------------------------------------------------------
(* All parts: a step of the program is a step of one of them, in which the *)
(* others rest.                                                            *)

LEMMA PartsStart ==
  ServicesInit => ListInit /\ ChInit /\ SeInit /\ PjInit /\ ReInit /\ ShInit /\ AppInit
BY DEF ServicesInit

LEMMA PartsStep ==
  [ServicesNext]_servicesVars =>
    /\ [ListNext]_listVars /\ [ChNext]_chVars /\ [SeNext]_seVars /\ [PjNext]_pjVars
    /\ [ReNext]_reVars /\ [ShNext]_shVars /\ [AppNext]_appVars
BY DEF ServicesNext, servicesVars

\* When the request that revoked a session or an API key, or removed a share, is
\* over, no cache lets it in, but by an entry that a request which had read the
\* table before filled in later, or that the cache failed to drop; no refresh
\* token lets in a revoked session; and a share with a password is shown only with
\* a token.  For any number of requests that fill and drop the caches (VerifyUser,
\* verifyAPIKey, AuthRefresh, AuthLogout, UsersRemoveSession, UsersRemoveApiKey;
\* validFileShare and FilesDeleteShare).
THEOREM NothingComesBack == ServicesSpec => []NothingRevived
<1>1. SeInv /\ ShInv => NothingRevived
  BY DEF SeInv, ShInv, NothingRevived
<1> QED
  BY <1>1, PartsStart, PartsStep, SessionsInit, SessionsStep, SharesInit, SharesStep, PTL
  DEF ServicesSpec

\* However New, Run and stop fail or are interrupted, and for any number of
\* requests and jobs in progress, what was opened is closed in the end, and
\* nothing is closed under a user of it before the grace period is over.
THEOREM HooksCloseInOrder == ServicesSpec => []ClosedAfterUse
BY PartsStart, PartsStep, AppStarts, AppStep, AppClosed, PTL DEF ServicesSpec

\* A stream gets an event at most once, for any number of instances and events
\* and however often messages are repeated (shouldProcess before broadcast).
THEOREM StreamedOnceHolds == ServicesSpec => []StreamedOnce
<1>1. SeenInv => StreamedOnce
  BY DEF SeenInv, Counts, StreamedOnce
<1> QED  BY <1>1, PartsStart, PartsStep, SeenInit, SeenStep, PTL DEF ServicesSpec

\* Once a channel is selected there is one until the user deletes some, for any
\* number of callers whose transactions overlap in any way: each of them leaves
\* at least its own channel selected, and only deletions remove rows
\* (CreateNewChannel, UsersUpdateChannel).
THEOREM SomeSelectedHolds == ServicesSpec => []SomeSelected
<1>1. ChInv => SomeSelected
  BY DEF ChInv
<1> QED  BY <1>1, PartsStart, PartsStep, ChannelsInit, ChannelsStep, PTL DEF ServicesSpec

\* Between requests River has what is due, for any jobs, schedules and clients,
\* after any sequence of requests and restarts; but for jobs on which requests
\* overlapped or one failed after its first write, until a request that has the
\* job to itself reaches the registry, or the program starts again
\* (syncPeriodicJobRegistry, RegisterPeriodicJobs).
THEOREM InStepHolds == ServicesSpec => []InStep
BY RightIsInStep, PartsStart, PartsStep, PeriodicInit, PeriodicStep, PTL DEF ServicesSpec

\* A client that asks for pages no longer than the cap is given each entry that
\* stays once, whatever is inserted, removed and renamed between its pages, for
\* any number of entries, keys and changes (FilesList, normalize).  Run pages
\* has what becomes of one that asks for more.
THEOREM ListedOnceHolds ==
  ASSUME Asked \subseteq 1..MaxPage
  PROVE  ServicesSpec => []ListedOnce
<1>1. LiInv => ListedOnce
  BY DEF LiInv
<1>2. LiInv /\ [ListNext]_listVars => LiInv'
  BY ListStep
<1> QED  BY <1>1, <1>2, PartsStart, PartsStep, ListStarts, PTL DEF ServicesSpec

\* Every part keeps its variables within their types and bounds, for any capacity:
\* the queue of a login attempt, the channels of streams and of database workers.
\* The turn that the selector of bots stores is below the length of the longest
\* list there can be; that it is an index of the list at hand is not said.
THEOREM ServicesTypeCorrect == ServicesSpec => []ServicesTypeOK
<1> DEFINE Typed == /\ LiTyped /\ ChInv /\ ChBounded /\ AtTyped /\ SeInv /\ PjInv /\ ReTyped
                    /\ ShInv /\ AppInv
<1>1. ServicesInit => Typed
  BY ListTypes, ChannelsInit, BoundsStart, AttemptStarts, SessionsInit, PeriodicInit, RedisStarts,
     SharesInit, AppStarts DEF ServicesInit
<1>2. Typed /\ [ServicesNext]_servicesVars => Typed'
  <2>1. [ServicesNext]_servicesVars => [AtNext]_atVars
    BY DEF ServicesNext, servicesVars
  <2> QED
    BY <2>1, PartsStep, ListTypes, ChannelsStep, BoundsStep, AttemptStep, SessionsStep, PeriodicStep,
       RedisStep, SharesStep, AppStep
<1>3. Typed => ServicesTypeOK
  <2> SUFFICES ASSUME Typed PROVE ServicesTypeOK
    OBVIOUS
  <2>1. MaxBots > 0 => turn < MaxBots
    BY ChannelsAssumption DEF ChBounded
  <2>2. rows \in [Channel -> [there : BOOLEAN, selected : BOOLEAN, recent : BOOLEAN]]
        /\ current \in Channel \cup {NoChannel}
    BY DEF ChInv, ChTyped, ChRow
  <2>3. attempt.state \in {"created", "qr_pending", "code_sent", "password_required",
                          "authenticated", "failed", "expired"}
    BY DEF AtTyped
  <2>4. /\ session \in [Session -> {"none", "live", "revoked"}] /\ bySession \subseteq Session
        /\ key \in [APIKey -> {"none", "live", "expired", "revoked"}]
        /\ byKey \in [APIKey -> Session \cup {NoSession}]
    BY DEF SeInv, SeTypes
  <2>5. /\ row \in [Job -> [cron : Cron, enabled : BOOLEAN] \cup {NoJob}]
        /\ registry \in [Job -> Cron \cup {NoJob}]
    BY DEF PjInv, PjTyped, JobRow
  <2>6. saved \subseteq {e \in Event : origin[e] # {}}
    BY DEF ReTyped, Sent
  <2>7. shareCache \in [Share -> [there : BOOLEAN, protected : BOOLEAN, expired : BOOLEAN] \cup {NoShare}]
    BY DEF ShInv, ShTypes, ShareRow
  <2>8. hook \in 0..Len(Hook) /\ on \subseteq {Hook[i] : i \in 1..Len(Hook)}
    <3>1. Len(Hook) = 5 /\ hook \in 0..5
      BY Hooks DEF AppInv, AppTypes
    <3>2. Level \in Int /\ Level <= 5
      BY <3>1 DEF Level
    <3>3. on \subseteq Below(Level)
      BY DEF AppInv, OnBelow
    <3>4. 1..Level \subseteq 1..5
      BY <3>2
    <3> QED  BY <3>1, <3>3, <3>4 DEF Below
  <2>9. /\ keys \in [Entry -> SortKey \cup {NullKey, Gone}] /\ seen \in [Entry -> Nat]
        /\ listing.st \in {"none", "open", "done", "failed"} /\ steady \subseteq There
    BY DEF LiTyped
  <2>10. /\ tg \in [Channel -> {"new", "there", "deleted"}] /\ full \subseteq Channel
         /\ bots \in 0..MaxBots /\ botCache \in 0..NoCount
    BY DEF ChBounded
  <2>11. /\ queue \in Seq(Command \cup {"qr"}) /\ Len(queue) <= QueueCap
         /\ ctx \in {"none", "live", "cancelled", "deadline"} /\ timers \in [due : Nat, marked : Nat]
    BY DEF AtTyped
  <2>12. \A i \in Instance : /\ Len(inbox[i]) <= InboxSize /\ Len(waiting[i]) <= QueueSize
                            /\ Len(channel[i]) <= StreamSize
    BY DEF ReTyped
  <2> QED
    BY <2>1, <2>2, <2>3, <2>4, <2>5, <2>6, <2>7, <2>8, <2>9, <2>10, <2>11, <2>12 DEF ServicesTypeOK
<1> HIDE DEF Typed
<1> QED  BY <1>1, <1>2, <1>3, PTL DEF ServicesSpec
=============================================================================
