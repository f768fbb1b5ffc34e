------------------------------ MODULE Sessions -------------------------------
(***************************************************************************)
(* The sessions and API keys of one user, and the cache in front of both   *)
(* tables.  A check that misses the cache reads the tables and then fills  *)
(* the cache, in steps; a revocation writes the table and then drops what  *)
(* is cached, in steps, and does not ask whether the cache did: an entry   *)
(* is kept when Redis fails, and when the request or the process ends      *)
(* after the row was written.                                              *)
(***************************************************************************)
EXTENDS Naturals

CONSTANTS
  Session,    \* sessions
  APIKey,     \* API keys
  NoSession,  \* nothing cached for a key
  Checker,    \* requests in progress at a time
  Uses        \* bound: requests

ASSUME SessionsAssumption ==
  NoSession \notin Session /\ Session \cap APIKey = {} /\ Uses \in Nat

VARIABLES
  session,   \* session[s]: "none", "live" or "revoked" in the table
  key,       \* key[k]: "none", "live", "expired" or "revoked" in the table
  bySession, \* sessions cached
  byKey,     \* byKey[k]: the session cached for the key, or NoSession
  refresh,   \* sessions whose row has the hash of a refresh token
  check,     \* check[p]: a request in progress
  stale,     \* history: what is cached of sessions, and for keys, that a check
             \* filled after the revocation was over, or that the cache kept
  uses       \* requests still to come

seVars == <<session, key, bySession, byKey, refresh, check, stale, uses>>

NoCheck == [st |-> "idle", s |-> NoSession, k |-> NoSession]
Starts(p, st, s, k) ==
  /\ check[p].st = "idle" /\ uses > 0 /\ uses' = uses - 1
  /\ check' = [check EXCEPT ![p] = [st |-> st, s |-> s, k |-> k]]
Goes(p, st) == check' = [check EXCEPT ![p].st = st]
Ends(p)     == check' = [check EXCEPT ![p] = NoCheck]
Pending(st, s, k) == \E p \in Checker : check[p] = [st |-> st, s |-> s, k |-> k]

\* What is cached for the key would let in a session or a key that is revoked.
Outlives(k) ==
  byKey[k] # NoSession /\ (session[byKey[k]] = "revoked" \/ key[k] = "revoked")

-----------------------------------------------------------------------------
\* AuthLogin: a row of its own, the cached list of sessions is left alone.
Login(s) ==
  /\ session[s] = "none" /\ session' = [session EXCEPT ![s] = "live"]
  /\ refresh' = refresh \cup {s}
  /\ UNCHANGED <<key, bySession, byKey, check, stale, uses>>

CreateKey(k) ==
  /\ key[k] = "none" /\ key' = [key EXCEPT ![k] = "live"]
  /\ UNCHANGED <<session, bySession, byKey, check, stale, uses, refresh>>

KeyExpires(k) ==
  /\ key[k] = "live" /\ key' = [key EXCEPT ![k] = "expired"]
  /\ UNCHANGED <<session, bySession, byKey, check, stale, uses, refresh>>

\* VerifyUser with SessionByID: a token of the session arrives.
VerifyUser(p, s) ==
  /\ session[s] # "none" /\ s \notin bySession
  /\ Starts(p, "read", s, NoSession)
  /\ UNCHANGED <<session, key, bySession, byKey, stale, refresh>>

ReadSession(p) ==
  /\ check[p].st = "read"
  /\ IF session[check[p].s] = "live" THEN Goes(p, "fill") ELSE Ends(p)
  /\ UNCHANGED <<session, key, bySession, byKey, stale, uses, refresh>>

FillSession(p) ==
  LET s == check[p].s IN
  /\ check[p].st = "fill" /\ Ends(p)
  /\ bySession' = bySession \cup {s}
  /\ stale' = IF session[s] = "revoked" /\ ~Pending("uncache", s, NoSession)
              THEN stale \cup {s} ELSE stale
  /\ UNCHANGED <<session, key, byKey, uses, refresh>>

\* verifyAPIKey through cache.Fetch: the key, then the sessions of its user.
VerifyAPIKey(p, k) ==
  /\ key[k] # "none" /\ byKey[k] = NoSession
  /\ Starts(p, "readkey", NoSession, k)
  /\ UNCHANGED <<session, key, bySession, byKey, stale, refresh>>

ReadKey(p) ==
  /\ check[p].st = "readkey"
  /\ IF key[check[p].k] = "live" THEN Goes(p, "pick") ELSE Ends(p)
  /\ UNCHANGED <<session, key, bySession, byKey, stale, uses, refresh>>

\* GetByUserID: sessions not revoked, the last one first.
PickSession(p) ==
  /\ check[p].st = "pick"
  /\ \/ \E s \in Session : /\ session[s] = "live"
                           /\ check' = [check EXCEPT ![p].st = "fillkey", ![p].s = s]
     \/ (\A s \in Session : session[s] # "live") /\ Ends(p)
  /\ UNCHANGED <<session, key, bySession, byKey, stale, uses, refresh>>

\* The session or the key is revoked, and nobody is about to drop the entry.
TooLate(s, k) ==
  \/ session[s] = "revoked" /\ ~Pending("uncache", s, NoSession) /\ ~Pending("pattern", s, NoSession)
  \/ key[k] = "revoked" /\ ~Pending("pattern", NoSession, k)
FillKey(p) ==
  LET s == check[p].s
      k == check[p].k IN
  /\ check[p].st = "fillkey" /\ Ends(p)
  /\ byKey' = [byKey EXCEPT ![k] = s]
  /\ stale' = IF TooLate(s, k) THEN stale \cup {k} ELSE stale \ {k}
  /\ UNCHANGED <<session, key, bySession, uses, refresh>>

-----------------------------------------------------------------------------
\* AuthLogout and UsersRemoveSession: the row, what is cached for the session,
\* then every cached key, because it may name the session.
RevokeSession(p, s) ==
  /\ session[s] # "none" /\ Starts(p, "uncache", s, NoSession)
  /\ session' = [session EXCEPT ![s] = "revoked"] /\ refresh' = refresh \ {s}
  /\ UNCHANGED <<key, bySession, byKey, stale>>

\* The cache drops the session, or fails and keeps it; the request goes on.
UncacheSession(p) ==
  LET s == check[p].s IN
  /\ check[p].st = "uncache" /\ Goes(p, "pattern")
  /\ \/ bySession' = bySession \ {s} /\ stale' = stale \ {s}
     \/ stale' = stale \cup ({s} \cap bySession) /\ UNCHANGED bySession
  /\ UNCHANGED <<session, key, byKey, uses, refresh>>

\* AuthRefresh: the session of the token, then a new token in place of it, unless
\* the session was revoked meanwhile.  Reissued is a faulty variant.
Refresh(p, s) ==
  /\ s \in refresh /\ Starts(p, "rotate", s, NoSession)
  /\ UNCHANGED <<session, key, bySession, byKey, refresh, stale>>

Reissued(s) == refresh \cup {s}
Rotated(s)  == IF session[s] = "live" THEN refresh \cup {s} ELSE refresh
RotateToken(p) ==
  /\ check[p].st = "rotate" /\ Ends(p)
  /\ refresh' = Rotated(check[p].s)
  /\ UNCHANGED <<session, key, bySession, byKey, stale, uses>>

\* UsersRemoveApiKey.
RevokeKey(p, k) ==
  /\ key[k] \in {"live", "expired"} /\ Starts(p, "pattern", NoSession, k)
  /\ key' = [key EXCEPT ![k] = "revoked"]
  /\ UNCHANGED <<session, bySession, byKey, stale, refresh>>

\* DeletePattern deletes key by key, and goes on past those that it fails to
\* delete.  OwnKey is a faulty variant that drops only the request's key.
OwnKey(p)    == {check[p].k} \cap APIKey
EveryKey(p)  == APIKey
UncacheKeys(p) ==
  /\ check[p].st = "pattern" /\ Ends(p)
  /\ \E kept \in SUBSET EveryKey(p) :
       LET dropped == EveryKey(p) \ kept IN
       /\ byKey' = [k \in APIKey |-> IF k \in dropped THEN NoSession ELSE byKey[k]]
       /\ stale' = (stale \ dropped) \cup {k \in kept : Outlives(k)}
  /\ UNCHANGED <<session, key, bySession, uses, refresh>>

\* Entries are evicted, or expire after a day; the memory cache is lost with the
\* process.
Evict ==
  \/ /\ \E s \in bySession : bySession' = bySession \ {s} /\ stale' = stale \ {s}
     /\ UNCHANGED <<session, key, byKey, check, uses, refresh>>
  \/ /\ \E k \in APIKey : /\ byKey[k] # NoSession /\ stale' = stale \ {k}
                          /\ byKey' = [byKey EXCEPT ![k] = NoSession]
     /\ UNCHANGED <<session, key, bySession, check, uses, refresh>>

-----------------------------------------------------------------------------
SeInit ==
  /\ session = [s \in Session |-> "none"] /\ key = [k \in APIKey |-> "none"]
  /\ bySession = {} /\ byKey = [k \in APIKey |-> NoSession]
  /\ check = [p \in Checker |-> NoCheck]
  /\ refresh = {} /\ stale = {} /\ uses = Uses

SeNext ==
  \/ \E s \in Session : Login(s)
  \/ \E k \in APIKey : CreateKey(k) \/ KeyExpires(k)
  \/ \E p \in Checker :
       \/ \E s \in Session : VerifyUser(p, s) \/ RevokeSession(p, s) \/ Refresh(p, s)
       \/ \E k \in APIKey : VerifyAPIKey(p, k) \/ RevokeKey(p, k)
       \/ ReadSession(p) \/ FillSession(p) \/ ReadKey(p) \/ PickSession(p) \/ FillKey(p)
       \/ UncacheSession(p) \/ UncacheKeys(p) \/ RotateToken(p)
  \/ Evict

SeSpec == SeInit /\ [][SeNext]_seVars

-----------------------------------------------------------------------------
\* When a revocation is over, neither the session nor a key that names it is
\* accepted from the cache, but for entries that a check which had read the table
\* before filled in afterwards, or that the cache failed to drop; and no refresh
\* under way gives the session a token again.
RevocationHolds ==
  /\ \A s \in refresh : session[s] # "revoked"
  /\ \A s \in bySession : session[s] = "revoked" /\ s \notin stale => Pending("uncache", s, NoSession)
  /\ \A k \in APIKey \ stale : byKey[k] # NoSession =>
       /\ session[byKey[k]] = "revoked"
            => Pending("uncache", byKey[k], NoSession) \/ Pending("pattern", byKey[k], NoSession)
       /\ key[k] = "revoked" => Pending("pattern", NoSession, k)
=============================================================================
