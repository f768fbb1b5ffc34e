------------------------------ MODULE Services -------------------------------
(***************************************************************************)
(* The parts of the program that share nothing: the listing of a folder,   *)
(* the storage channels, a login attempt, sessions and API keys, periodic  *)
(* jobs, events through Redis, shares, and the start and stop of the       *)
(* server.  A behaviour is a behaviour of one of them while the others     *)
(* rest; as they have no variable in common, every state of one of them    *)
(* is reached this way.                                                    *)
(***************************************************************************)
EXTENDS FileList, Channels, AuthAttempts, Sessions, PeriodicJobs, RedisEvents, Shares,
        AppHooks

VARIABLE part  \* the part that runs

servicesVars == <<part, listVars, chVars, atVars, seVars, pjVars, reVars, shVars, appVars>>

ServicesInit ==
  /\ part \in {"list", "channels", "login", "sessions", "periodic", "redis", "shares", "app"}
  /\ ListInit /\ ChInit /\ AtInit /\ SeInit /\ PjInit /\ ReInit /\ ShInit /\ AppInit
  /\ part # "periodic" => row = [j \in Job |-> NoJob]   \* one state for those that rest

ServicesNext ==
  /\ UNCHANGED part
  /\ \/ part = "list" /\ ListNext /\ UNCHANGED <<chVars, atVars, seVars, pjVars, reVars, shVars, appVars>>
     \/ part = "channels" /\ ChNext /\ UNCHANGED <<listVars, atVars, seVars, pjVars, reVars, shVars, appVars>>
     \/ part = "login" /\ AtNext /\ UNCHANGED <<listVars, chVars, seVars, pjVars, reVars, shVars, appVars>>
     \/ part = "sessions" /\ SeNext /\ UNCHANGED <<listVars, chVars, atVars, pjVars, reVars, shVars, appVars>>
     \/ part = "periodic" /\ PjNext /\ UNCHANGED <<listVars, chVars, atVars, seVars, reVars, shVars, appVars>>
     \/ part = "redis" /\ ReNext /\ UNCHANGED <<listVars, chVars, atVars, seVars, pjVars, shVars, appVars>>
     \/ part = "shares" /\ ShNext /\ UNCHANGED <<listVars, chVars, atVars, seVars, pjVars, reVars, appVars>>
     \/ part = "app" /\ AppNext /\ UNCHANGED <<listVars, chVars, atVars, seVars, pjVars, reVars, shVars>>

\* Only the login attempt needs fairness; its actions are not enabled while it
\* rests.
ServicesSpec == ServicesInit /\ [][ServicesNext]_servicesVars /\ AtFairness

-----------------------------------------------------------------------------
\* Every part keeps its variables within their types and bounds: the queue of a
\* login attempt, the channels of streams and of database workers, the turn that
\* the selector of bots stores (it may lie beyond a list that shrank).
ServicesTypeOK ==
  /\ keys \in [Entry -> SortKey \cup {NullKey, Gone}] /\ seen \in [Entry -> Nat]
  /\ listing.st \in {"none", "open", "done", "failed"} /\ steady \subseteq There
  /\ tg \in [Channel -> {"new", "there", "deleted"}]
  /\ rows \in [Channel -> [there : BOOLEAN, selected : BOOLEAN, recent : BOOLEAN]]
  /\ current \in Channel \cup {NoChannel} /\ full \subseteq Channel
  /\ bots \in 0..MaxBots /\ botCache \in 0..NoCount /\ (MaxBots > 0 => turn < MaxBots)
  /\ attempt.state \in {"created", "qr_pending", "code_sent", "password_required",
                        "authenticated", "failed", "expired"}
  /\ queue \in Seq(Command \cup {"qr"}) /\ Len(queue) <= QueueCap
  /\ ctx \in {"none", "live", "cancelled", "deadline"} /\ timers \in [due : Nat, marked : Nat]
  /\ session \in [Session -> {"none", "live", "revoked"}] /\ bySession \subseteq Session
  /\ key \in [APIKey -> {"none", "live", "expired", "revoked"}]
  /\ byKey \in [APIKey -> Session \cup {NoSession}]
  /\ row \in [Job -> [cron : Cron, enabled : BOOLEAN] \cup {NoJob}]
  /\ registry \in [Job -> Cron \cup {NoJob}]
  /\ \A i \in Instance : /\ Len(inbox[i]) <= InboxSize /\ Len(waiting[i]) <= QueueSize
                         /\ Len(channel[i]) <= StreamSize
  /\ saved \subseteq {e \in Event : origin[e] # {}}
  /\ shareCache \in [Share -> [there : BOOLEAN, protected : BOOLEAN, expired : BOOLEAN]
                                \cup {NoShare}]
  /\ hook \in 0..Len(Hook) /\ on \subseteq {Hook[i] : i \in 1..Len(Hook)}

\* What was revoked or removed is let in again by a cache only where a request
\* filled it late or the cache failed to drop it, and by no refresh token: sessions,
\* API keys and shares, whose caches requests fill and drop in any order.
NothingRevived == RevocationHolds /\ RemovalHolds
=============================================================================
