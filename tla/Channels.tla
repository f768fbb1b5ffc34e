------------------------------ MODULE Channels -------------------------------
(***************************************************************************)
(* The storage channels of one user: which one uploads go to, the creation *)
(* of another when it is full, the choice of one by the user, and the bots *)
(* that send to it.  Uploads and requests run at the same time; the lock   *)
(* around the creation does nothing.  A transaction updates the rows of    *)
(* channels one by one, holding the lock of each until it commits.         *)
(***************************************************************************)
EXTENDS Naturals, FiniteSets

CONSTANTS
  Channel,      \* ids of channels, numbers
  Caller,       \* uploads and requests running at a time
  MaxBots,      \* bound: bots of the user
  Calls         \* bound: uploads and requests

ASSUME ChannelsAssumption ==
  Channel \subseteq Nat \ {0} /\ MaxBots \in Nat \ {0} /\ Calls \in Nat

NoChannel == 0
NoCount   == MaxBots + 1   \* nothing cached

VARIABLES
  tg,       \* tg[c]: "new", "there" or "deleted" at Telegram
  rows,     \* rows[c]: [there, selected, recent], the channels table
  call,     \* call[p]: a running upload or request
  current,  \* cached channel of the user, or NoChannel
  bots,     \* bots saved
  botCache, \* cached number of bots, or NoCount
  turn,     \* index of the bot that comes next
  full,     \* channels with as many parts as the limit
  chosen, deleted,  \* history: a channel was selected, some channel was deleted
  calls     \* calls still to come

chVars == <<tg, rows, call, current, bots, botCache, turn, full, chosen, deleted, calls>>

NoCall == [op |-> "none", st |-> "idle", ch |-> NoChannel, next |-> "idle", list |-> {},
           count |-> 0, pend |-> <<>>]
NoRowOf == [there |-> FALSE, selected |-> FALSE, recent |-> FALSE]

Saved    == {c \in Channel : rows[c].there}
Selected == {c \in Saved : rows[c].selected}
Fresh    == {c \in Saved : rows[c].recent}

At(p, st)     == call[p].st = st
Go(p, st)     == call' = [call EXCEPT ![p].st = st]
Answered(p)   == call' = [call EXCEPT ![p] = NoCall]
Locked(p, c)  == \E q \in Caller \ {p} : c \in DOMAIN call[q].pend

-----------------------------------------------------------------------------
BeginCall(p) ==
  /\ At(p, "idle") /\ calls > 0 /\ calls' = calls - 1
  /\ \/ \E op \in {"upload", "create", "addbots", "dropbots"} :
          call' = [call EXCEPT ![p] = [NoCall EXCEPT !.op = op, !.st = op]]
     \/ \E op \in {"select", "delete"}, c \in {d \in Channel : tg[d] = "there"} :
          call' = [call EXCEPT ![p] = [NoCall EXCEPT !.op = op, !.st = op, !.ch = c]]
  /\ UNCHANGED <<tg, rows, current, bots, botCache, turn, full, chosen, deleted>>

\* CurrentChannel: from the cache, or from the database and then into the cache.
\* Without a selected channel the error is not ErrNoDefaultChannel.
CurrentChannel(p) ==
  /\ At(p, "upload")
  /\ \/ current # NoChannel /\ call' = [call EXCEPT ![p].st = "limit", ![p].ch = current]
     \/ current = NoChannel /\ \E c \in Selected : call' = [call EXCEPT ![p].st = "fill", ![p].ch = c]
     \/ current = NoChannel /\ Selected = {} /\ Answered(p)
  /\ UNCHANGED <<tg, rows, current, bots, botCache, turn, full, chosen, deleted, calls>>

FillCurrent(p) ==
  /\ At(p, "fill") /\ current' = call[p].ch /\ Go(p, "limit")
  /\ UNCHANGED <<tg, rows, bots, botCache, turn, full, chosen, deleted, calls>>

CheckLimit(p) ==
  /\ At(p, "limit")
  /\ \/ call[p].ch \notin full /\ call' = [call EXCEPT ![p].st = "bots", ![p].next = "pick"]
     \/ call[p].ch \in full /\ Go(p, "create")
  /\ UNCHANGED <<tg, rows, current, bots, botCache, turn, full, chosen, deleted, calls>>

\* CreateNewChannel: a channel made in the last ten seconds will do.
FindRecent(p) ==
  /\ At(p, "create")
  /\ \/ \E c \in Fresh : IF call[p].op = "create" THEN Answered(p)
                         ELSE call' = [call EXCEPT ![p].st = "bots", ![p].next = "pick", ![p].ch = c]
     \/ Fresh = {} /\ Go(p, "telegram")
  /\ UNCHANGED <<tg, rows, current, bots, botCache, turn, full, chosen, deleted, calls>>

CreateChannel(p) ==
  /\ At(p, "telegram")
  /\ \/ \E c \in Channel :
          /\ tg[c] = "new" /\ \A d \in Channel : d < c => tg[d] # "new"
          /\ tg' = [tg EXCEPT ![c] = "there"]
          /\ call' = [call EXCEPT ![p].st = "bots", ![p].next = "adding", ![p].ch = c]
     \/ Answered(p) /\ UNCHANGED tg
  /\ UNCHANGED <<rows, current, bots, botCache, turn, full, chosen, deleted, calls>>

\* BotTokens, for the new channel or for the bot that uploads.
BotTokens(p) ==
  /\ At(p, "bots")
  /\ \/ botCache # NoCount /\ call' = [call EXCEPT ![p].st = call[p].next, ![p].count = botCache]
     \/ botCache = NoCount /\ call' = [call EXCEPT ![p].st = "fillbots", ![p].count = bots]
  /\ UNCHANGED <<tg, rows, current, bots, botCache, turn, full, chosen, deleted, calls>>

FillBots(p) ==
  /\ At(p, "fillbots") /\ botCache' = call[p].count /\ Go(p, call[p].next)
  /\ UNCHANGED <<tg, rows, current, bots, turn, full, chosen, deleted, calls>>

\* AddBotsToChannel makes each bot an administrator, or fails.
AddBotsToChannel(p) ==
  LET q == call[p] IN
  /\ At(p, "adding")
  /\ \/ q.op = "upload" /\ q.count > 0 /\ Go(p, "list")
     \/ q.op = "create" /\ q.count > 0 /\ Go(p, "insert")
     \/ q.op = "addbots" /\ Go(p, "uncache")
     \/ Answered(p)
  /\ UNCHANGED <<tg, rows, current, bots, botCache, turn, full, chosen, deleted, calls>>

\* MemoryBotSelector.Next: an index beyond the list stops the request, but the
\* next one starts again.
PickBot(p) ==
  /\ At(p, "pick") /\ Answered(p)
  /\ turn' = IF call[p].count = 0 THEN turn ELSE (turn + 1) % call[p].count
  /\ UNCHANGED <<tg, rows, current, bots, botCache, full, chosen, deleted, calls>>

\* UsersCreateChannel: the row on its own, not selected.
InsertChannel(p) ==
  LET c == call[p].ch IN
  /\ At(p, "insert") /\ ~Locked(p, c) /\ Answered(p)
  /\ rows' = IF rows[c].there THEN rows
             ELSE [rows EXCEPT ![c] = [there |-> TRUE, selected |-> FALSE, recent |-> TRUE]]
  /\ UNCHANGED <<tg, current, bots, botCache, turn, full, chosen, deleted, calls>>

-----------------------------------------------------------------------------
(* The transactions of CreateNewChannel (op "upload") and of               *)
(* UsersUpdateChannel (op "select").                                       *)

With(pend, c, sel) == [d \in {c} \cup DOMAIN pend |-> IF d = c THEN sel ELSE pend[d]]
Write(p, c, sel) == call' = [call EXCEPT ![p].pend = With(@, c, sel), ![p].list = @ \ {c}]

SelectRow(p) ==
  /\ At(p, "select")
  /\ Go(p, IF rows[call[p].ch].there THEN "list" ELSE "insertsel")
  /\ UNCHANGED <<tg, rows, current, bots, botCache, turn, full, chosen, deleted, calls>>

\* An insert waits for another that did not commit yet, and fails when the row
\* is there.
InsertSelected(p) ==
  LET c == call[p].ch IN
  /\ At(p, "insertsel") /\ ~Locked(p, c)
  /\ IF rows[c].there THEN Answered(p)
     ELSE call' = [call EXCEPT ![p].pend = With(@, c, TRUE),
                               ![p].st = IF call[p].op = "select" THEN "list" ELSE "commit"]
  /\ UNCHANGED <<tg, rows, current, bots, botCache, turn, full, chosen, deleted, calls>>

ListRows(p) ==
  /\ At(p, "list")
  /\ call' = [call EXCEPT ![p].st = "update", ![p].list = Saved \cup DOMAIN call[p].pend]
  /\ UNCHANGED <<tg, rows, current, bots, botCache, turn, full, chosen, deleted, calls>>

\* Wanted: what the row is set to.  Unselected is a faulty variant.
Unselected(p, c) == FALSE
Wanted(p, c)     == call[p].op = "select" /\ c = call[p].ch
UpdateRow(p) ==
  /\ At(p, "update")
  /\ \/ \E c \in call[p].list :
          /\ \A d \in call[p].list : c <= d
          /\ ~Locked(p, c)
          /\ IF rows[c].there \/ c \in DOMAIN call[p].pend
             THEN Write(p, c, IF Wanted(p, c) THEN TRUE ELSE FALSE)
             ELSE call' = [call EXCEPT ![p].list = @ \ {c}]
     \/ call[p].list = {} /\ Go(p, IF call[p].op = "select" THEN "commit" ELSE "insertsel")
  /\ UNCHANGED <<tg, rows, current, bots, botCache, turn, full, chosen, deleted, calls>>

Commit(p) ==
  LET pend == call[p].pend IN
  /\ At(p, "commit")
  /\ rows' = [c \in Channel |->
                IF c \in DOMAIN pend
                THEN [there |-> TRUE, selected |-> pend[c],
                      recent |-> IF rows[c].there THEN rows[c].recent ELSE TRUE]
                ELSE rows[c]]
  /\ chosen' = TRUE
  /\ call' = [call EXCEPT ![p].st = "cache", ![p].pend = <<>>]
  /\ UNCHANGED <<tg, current, bots, botCache, turn, full, deleted, calls>>

RollBack(p) ==
  /\ call[p].st \in {"list", "update", "insertsel", "commit"} /\ Answered(p)
  /\ UNCHANGED <<tg, rows, current, bots, botCache, turn, full, chosen, deleted, calls>>

\* A new channel drops the cached one, a selected channel takes its place.
AfterCommit(p) ==
  /\ At(p, "cache")
  /\ \/ /\ call[p].op = "upload" /\ current' = NoChannel
        /\ call' = [call EXCEPT ![p].st = "bots", ![p].next = "pick"]
     \/ call[p].op = "select" /\ current' = call[p].ch /\ Answered(p)
  /\ UNCHANGED <<tg, rows, bots, botCache, turn, full, chosen, deleted, calls>>

-----------------------------------------------------------------------------
\* UsersDeleteChannel: at Telegram, then the row; the cache is left alone.
DeleteAtTelegram(p) ==
  /\ At(p, "delete")
  /\ \/ tg' = [tg EXCEPT ![call[p].ch] = "deleted"] /\ Go(p, "delrow")
     \/ Answered(p) /\ UNCHANGED tg
  /\ UNCHANGED <<rows, current, bots, botCache, turn, full, chosen, deleted, calls>>

DeleteRow(p) ==
  /\ At(p, "delrow") /\ ~Locked(p, call[p].ch) /\ Answered(p)
  /\ rows' = [rows EXCEPT ![call[p].ch] = NoRowOf]
  /\ deleted' = TRUE
  /\ UNCHANGED <<tg, current, bots, botCache, turn, full, chosen, calls>>

\* UsersAddBots saves the bots, adds them to every channel, and only then drops
\* the cached list; UsersRemoveBots deletes them all.
SaveBots(p) ==
  /\ At(p, "addbots") /\ bots < MaxBots /\ bots' = bots + 1
  /\ Go(p, IF Saved = {} THEN "uncache" ELSE "adding")
  /\ UNCHANGED <<tg, rows, current, botCache, turn, full, chosen, deleted, calls>>

RemoveBots(p) ==
  /\ At(p, "dropbots") /\ bots' = 0 /\ Go(p, "uncache")
  /\ UNCHANGED <<tg, rows, current, botCache, turn, full, chosen, deleted, calls>>

UncacheBots(p) ==
  /\ At(p, "uncache") /\ botCache' = NoCount /\ Answered(p)
  /\ UNCHANGED <<tg, rows, current, bots, turn, full, chosen, deleted, calls>>

\* Ten seconds pass; a channel fills up.
Later ==
  /\ Fresh # {} /\ rows' = [c \in Channel |-> [rows[c] EXCEPT !.recent = FALSE]]
  /\ UNCHANGED <<tg, call, current, bots, botCache, turn, full, chosen, deleted, calls>>

FillChannel(c) ==
  /\ rows[c].there /\ c \notin full /\ full' = full \cup {c}
  /\ UNCHANGED <<tg, rows, call, current, bots, botCache, turn, chosen, deleted, calls>>

-----------------------------------------------------------------------------
\* A user with one bot and a channel of their own that is not selected yet.
ChInit ==
  /\ tg = [c \in Channel |-> IF c = 1 THEN "there" ELSE "new"]
  /\ rows = [c \in Channel |-> NoRowOf]
  /\ call = [p \in Caller |-> NoCall]
  /\ current = NoChannel
  /\ bots = 1 /\ botCache = NoCount /\ turn = 0
  /\ full = {} /\ chosen = FALSE /\ deleted = FALSE /\ calls = Calls

ChNext ==
  \/ \E p \in Caller :
       \/ BeginCall(p) \/ CurrentChannel(p) \/ FillCurrent(p) \/ CheckLimit(p) \/ FindRecent(p)
       \/ CreateChannel(p) \/ BotTokens(p) \/ FillBots(p) \/ AddBotsToChannel(p) \/ PickBot(p)
       \/ InsertChannel(p) \/ SelectRow(p) \/ InsertSelected(p) \/ ListRows(p) \/ UpdateRow(p)
       \/ Commit(p) \/ RollBack(p) \/ AfterCommit(p)
       \/ DeleteAtTelegram(p) \/ DeleteRow(p) \/ SaveBots(p) \/ RemoveBots(p) \/ UncacheBots(p)
  \/ Later
  \/ \E c \in Channel : FillChannel(c)

ChSpec == ChInit /\ [][ChNext]_chVars

-----------------------------------------------------------------------------
\* Once a channel is selected, uploads have a channel: transactions that select
\* and roll over at the same time may leave two selected but never none, unless
\* the user deletes channels.
SomeSelected == chosen /\ ~deleted => Selected # {}
=============================================================================
