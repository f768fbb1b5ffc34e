------------------------------ MODULE FileList -------------------------------
(***************************************************************************)
(* A folder, or what a search finds, listed page by page while it changes: *)
(* every page is a query of its own that goes on after the last entry of   *)
(* the page before, by sort key and then by id.  Public shares are listed  *)
(* by the same query.                                                      *)
(***************************************************************************)
EXTENDS Naturals, FiniteSets

CONSTANTS
  Entry,        \* ids of entries, numbers
  SortKey,      \* values of the column sorted by, numbers
  MaxPage,      \* the most rows a query returns (100 in the code)
  Asked,        \* values of the request's limit
  ListChanges   \* bound: entries inserted, removed or touched

NullKey == 1 + CHOOSE k \in SortKey : \A l \in SortKey : l <= k  \* sorts last
Gone    == NullKey + 1      \* not among the rows that the conditions select
NoCursor == [key |-> Gone, id |-> 0]

ASSUME ListAssumption ==
  /\ Entry \subseteq Nat \ {0} /\ IsFiniteSet(Entry)
  /\ SortKey \subseteq Nat /\ \E k \in SortKey : \A l \in SortKey : l <= k
  /\ MaxPage \in Nat \ {0} /\ Asked \subseteq Nat /\ ListChanges \in Nat

VARIABLES
  keys,      \* keys[i]: sort key of the entry, NullKey, or Gone
  listing,   \* [st, asc, asked, cursor]
  seen,      \* seen[i]: times the client was given the entry
  steady,    \* history: entries there since the first page, and not changed
  changes    \* changes still to come

listVars == <<keys, listing, seen, steady, changes>>

There == {i \in Entry : keys[i] # Gone}
Unlisted == [st |-> "none", asc |-> TRUE, asked |-> 0, cursor |-> NoCursor]

-----------------------------------------------------------------------------
\* normalize.
Limit(asked) == IF asked \in 1..MaxPage THEN asked ELSE MaxPage

\* applySort: by key, then by id; NULL is above every key.
Smaller(k, i, l, j) == k < l \/ (k = l /\ i < j)
Precedes(i, j) == IF listing.asc THEN Smaller(keys[i], i, keys[j], j)
                  ELSE Smaller(keys[j], j, keys[i], i)

\* BuildCondition: a NULL key is never beyond a cursor.  BeyondKey is a faulty
\* variant that compares the keys only.
BeyondKey(i) == IF listing.asc THEN keys[i] > listing.cursor.key ELSE keys[i] < listing.cursor.key
Beyond(i) ==
  /\ keys[i] # NullKey
  /\ IF listing.asc THEN Smaller(listing.cursor.key, listing.cursor.id, keys[i], i)
     ELSE Smaller(keys[i], i, listing.cursor.key, listing.cursor.id)

Matching == {i \in There : listing.cursor = NoCursor \/ Beyond(i)}
PageOf(limit) == {i \in Matching : Cardinality({j \in Matching : Precedes(j, i)}) < limit}
LastOf(page) == CHOOSE i \in page : \A j \in page \ {i} : Precedes(j, i)

-----------------------------------------------------------------------------
\* The first page; asc and asked come from the request.
ListBegin(asc, asked) ==
  /\ listing.st = "none"
  /\ listing' = [Unlisted EXCEPT !.st = "open", !.asc = asc, !.asked = asked]
  /\ steady' = There
  /\ UNCHANGED <<keys, seen, changes>>

\* FilesList: there is a cursor when the page is as long as the client asked.
ListPage ==
  LET page == PageOf(Limit(listing.asked))
      last == LastOf(page) IN
  /\ listing.st = "open"
  /\ \/ /\ Cardinality(page) # listing.asked \/ page = {}
        /\ listing' = [listing EXCEPT !.st = "done"]
        /\ seen' = [i \in Entry |-> seen[i] + IF i \in page THEN 1 ELSE 0]
     \/ /\ Cardinality(page) = listing.asked /\ page # {} /\ keys[last] # NullKey
        /\ listing' = [listing EXCEPT !.cursor = [key |-> keys[last], id |-> last]]
        /\ seen' = [i \in Entry |-> seen[i] + IF i \in page THEN 1 ELSE 0]
     \/ /\ Cardinality(page) = listing.asked /\ page # {} /\ keys[last] = NullKey
        /\ listing' = [listing EXCEPT !.st = "failed"]  \* *last.Size of nil
        /\ UNCHANGED seen
  /\ UNCHANGED <<keys, steady, changes>>

\* Others insert, remove, rename, write or refresh entries between two pages.
EntryChange(i, k) ==
  /\ changes > 0 /\ changes' = changes - 1
  /\ keys[i] # k
  /\ keys' = [keys EXCEPT ![i] = k]
  /\ steady' = steady \ {i}
  /\ UNCHANGED <<listing, seen>>

-----------------------------------------------------------------------------
\* Entries before the first page come about by changes as well.
ListInit ==
  /\ keys = [i \in Entry |-> CHOOSE k \in SortKey : TRUE]
  /\ listing = Unlisted
  /\ seen = [i \in Entry |-> 0]
  /\ steady = {} /\ changes = ListChanges

ListNext ==
  \/ \E asc \in BOOLEAN, asked \in Asked : ListBegin(asc, asked)
  \/ ListPage
  \/ \E i \in Entry, k \in SortKey \cup {NullKey, Gone} : EntryChange(i, k)

ListSpec == ListInit /\ [][ListNext]_listVars

-----------------------------------------------------------------------------
\* A listing that ended gave each entry that was there all the while, and not
\* changed, exactly once, unless its key is NULL; and none of them twice before
\* (the cursor of FilesList against its LIMIT).
ListedOnce ==
  \A i \in steady : /\ seen[i] <= 1
                    /\ listing.st = "done" /\ keys[i] # NullKey => seen[i] = 1
=============================================================================
