------------------------------- MODULE Shares --------------------------------
(***************************************************************************)
(* Shares of files and folders: their table, the tokens of visitors who    *)
(* gave the password, and the cache through which a visitor's requests     *)
(* read a share.  An owner's edit is addressed to the row whose id is that *)
(* of the file, so that it changes no share.                               *)
(***************************************************************************)
EXTENDS Naturals

CONSTANTS
  Share,     \* shares, none is made twice
  NoShare,   \* nothing cached, nothing read
  Visitor,   \* requests in progress at a time
  Visits     \* bound: requests

ASSUME SharesAssumption ==
  Visits \in Nat /\ NoShare \notin [there : BOOLEAN, protected : BOOLEAN, expired : BOOLEAN]

VARIABLES
  shares,    \* shares[h]: [there, protected, expired], or NoShare before it is made
  shareCache,\* shareCache[h]: what validFileShare fetched, or NoShare
  visit,     \* visit[p]: [st, share, token, got]
  tokens,    \* shares for which some visitor holds a token
  late,      \* history: shares whose entry in the cache was filled after their
             \* removal was over, or was kept by it
  shown,     \* history: shares shown, with and without a token
  visits     \* requests still to come

shVars == <<shares, shareCache, visit, tokens, late, shown, visits>>

NoVisit == [st |-> "idle", share |-> NoShare, token |-> FALSE, got |-> NoShare]
Valid(h) == shares[h] # NoShare /\ shares[h].there /\ ~shares[h].expired
Removing(h) == \E p \in Visitor : visit[p].st = "uncache" /\ visit[p].share = h
Enters(p, st, h, token) ==
  /\ visit[p].st = "idle" /\ visits > 0 /\ visits' = visits - 1
  /\ visit' = [visit EXCEPT ![p] = [NoVisit EXCEPT !.st = st, !.share = h, !.token = token]]
Leaves(p) == visit' = [visit EXCEPT ![p] = NoVisit]

-----------------------------------------------------------------------------
CreateShare(h) ==
  /\ shares[h] = NoShare
  /\ \E secret \in BOOLEAN :
       shares' = [shares EXCEPT ![h] = [there |-> TRUE, protected |-> secret, expired |-> FALSE]]
  /\ UNCHANGED <<shareCache, visit, tokens, late, shown, visits>>

\* Its tokens expire with it; otherwise only a share that is read from the
\* table is found to be expired.
ShareExpires(h) ==
  /\ shares[h] # NoShare /\ ~shares[h].expired
  /\ shares' = [shares EXCEPT ![h].expired = TRUE] /\ tokens' = tokens \ {h}
  /\ UNCHANGED <<shareCache, visit, late, shown, visits>>

\* FilesDeleteShare: the row, then the cache, which may fail and keep the share;
\* the request does not ask.
DeleteShare(p, h) ==
  /\ shares[h] # NoShare /\ Enters(p, "uncache", h, FALSE)
  /\ shares' = [shares EXCEPT ![h].there = FALSE]
  /\ UNCHANGED <<shareCache, tokens, late, shown>>

UncacheShare(p) ==
  LET h == visit[p].share IN
  /\ visit[p].st = "uncache" /\ Leaves(p)
  /\ \/ shareCache' = [shareCache EXCEPT ![h] = NoShare] /\ late' = late \ {h}
     \/ shareCache[h] # NoShare /\ late' = late \cup {h} /\ UNCHANGED shareCache
  /\ UNCHANGED <<shares, tokens, shown, visits>>

\* SharesUnlock asks the table, and gives a token for the right password; the
\* token of a share that expired is of no use.
SharesUnlock(h) ==
  /\ shares[h] # NoShare /\ shares[h].there /\ shares[h].protected /\ ~shares[h].expired
  /\ tokens' = tokens \cup {h}
  /\ UNCHANGED <<shares, shareCache, visit, late, shown, visits>>

\* ... and ends after a day.
TokenExpires(h) ==
  /\ h \in tokens /\ tokens' = tokens \ {h}
  /\ UNCHANGED <<shares, shareCache, visit, late, shown, visits>>

-----------------------------------------------------------------------------
\* SharesListFiles and SharesStream, with the token for the share or without.
BeginVisit(p, h) ==
  /\ shares[h] # NoShare
  /\ \E token \in BOOLEAN : (token => h \in tokens) /\ Enters(p, "fetch", h, token)
  /\ UNCHANGED <<shares, shareCache, tokens, late, shown>>

\* validFileShare: the cache, or else the table, the file and its path.
FetchShare(p) ==
  LET h == visit[p].share IN
  /\ visit[p].st = "fetch"
  /\ \/ shareCache[h] # NoShare
        /\ visit' = [visit EXCEPT ![p].st = "token", ![p].got = shareCache[h]]
     \/ shareCache[h] = NoShare /\ Valid(h)
        /\ visit' = [visit EXCEPT ![p].st = "fill", ![p].got = shares[h]]
     \/ shareCache[h] = NoShare /\ Leaves(p)      \* not there, expired, or the file is gone
  /\ UNCHANGED <<shares, shareCache, tokens, late, shown, visits>>

FillShare(p) ==
  LET h == visit[p].share IN
  /\ visit[p].st = "fill" /\ visit' = [visit EXCEPT ![p].st = "token"]
  /\ shareCache' = [shareCache EXCEPT ![h] = visit[p].got]
  /\ late' = IF ~shares[h].there /\ ~Removing(h) THEN late \cup {h} ELSE late
  /\ UNCHANGED <<shares, tokens, shown, visits>>

Admitted(p) == visit[p].got.protected => visit[p].token /\ visit[p].share \in tokens
ShowShare(p) ==
  /\ visit[p].st = "token" /\ Leaves(p)
  /\ shown' = IF Admitted(p) THEN shown \cup {<<visit[p].share, visit[p].token>>} ELSE shown
  /\ UNCHANGED <<shares, shareCache, tokens, late, visits>>

EvictShare(h) ==
  /\ shareCache[h] # NoShare /\ shareCache' = [shareCache EXCEPT ![h] = NoShare]
  /\ late' = late \ {h}
  /\ UNCHANGED <<shares, visit, tokens, shown, visits>>

-----------------------------------------------------------------------------
ShInit ==
  /\ shares = [h \in Share |-> NoShare] /\ shareCache = [h \in Share |-> NoShare]
  /\ visit = [p \in Visitor |-> NoVisit] /\ tokens = {} /\ late = {} /\ shown = {}
  /\ visits = Visits

ShNext ==
  \/ \E h \in Share : CreateShare(h) \/ ShareExpires(h) \/ SharesUnlock(h) \/ TokenExpires(h)
                      \/ EvictShare(h)
  \/ \E p \in Visitor :
       \/ \E h \in Share : DeleteShare(p, h) \/ BeginVisit(p, h)
       \/ UncacheShare(p) \/ FetchShare(p) \/ FillShare(p) \/ ShowShare(p)

-----------------------------------------------------------------------------
\* When the removal of a share is over, visitors are not shown it from the cache,
\* but for an entry that a visitor who had read the table before filled in
\* afterwards, or that the cache failed to drop; and a share with a password is
\* shown only with a token, however it was read.
RemovalHolds ==
  /\ \A h \in Share : shareCache[h] # NoShare /\ ~shares[h].there /\ h \notin late => Removing(h)
  /\ \A h \in Share : <<h, FALSE>> \in shown => ~shares[h].protected
=============================================================================
