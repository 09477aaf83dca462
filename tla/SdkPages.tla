------------------------------ MODULE SdkPages ------------------------------
(***************************************************************************)
(* The paginated lists of the SDK: attachPaginator (utils/paginator.ts)    *)
(* over the pages a list method fetches.  The list lives at an API that    *)
(* answers a cursor with the items behind it, as the paginator expects;    *)
(* the one of this repository answers every list with a single page.  The  *)
(* list changes while a program walks through it.                          *)
(***************************************************************************)
EXTENDS Naturals, FiniteSets

CONSTANTS
  Walks,     \* the iterations over one result, each with its own generator
  MaxItem,   \* the items are 1..MaxItem, in the order of the list
  PageSize,  \* items in a page, at most
  MaxEdits   \* items that come or go, at most

ASSUME SdkPagesAssumption == MaxItem \in Nat /\ PageSize \in Nat \ {0} /\ MaxEdits \in Nat

VARIABLES
  listed,    \* the items that are there
  lasting,   \* those that have been there all the time
  edits,     \* how often the list has changed
  firstPage, \* the page the list method fetched, or NoPage
  walk,      \* the generators
  stopped    \* the AbortSignal of the list method has fired

pagesVars == <<listed, lasting, edits, firstPage, walk, stopped>>

Items == 1..MaxItem

NoPage == [items |-> {}, next |-> 0, known |-> FALSE]

\* The items of s that at most n others of s come before.
Foremost(s, n) == {i \in s : Cardinality({j \in s : j < i}) < n}

\* The page the API answers a cursor with: a cursor is the last item before
\* the page, and the next one is null (0) on the last page.
PageAfter(cursor) ==
  LET rest == {i \in listed : i > cursor}
      items == Foremost(rest, PageSize)
  IN [items |-> items, known |-> TRUE,
      next |-> IF items = rest THEN 0 ELSE CHOOSE i \in items : \A j \in items : j <= i]

NoWalk == [pc |-> "idle", page |-> NoPage, left |-> {}, got |-> {}, last |-> 0]

PagesInit ==
  /\ listed = Items \ {2} /\ lasting = Items \ {2} /\ edits = 0
  /\ firstPage = NoPage
  /\ walk = [w \in Walks |-> NoWalk]
  /\ stopped = FALSE

\* Something is made or removed.
Edit(i) ==
  /\ edits < MaxEdits
  /\ listed' = IF i \in listed THEN listed \ {i} ELSE listed \cup {i}
  /\ lasting' = lasting \ {i}
  /\ edits' = edits + 1
  /\ UNCHANGED <<firstPage, walk, stopped>>

\* A list method fetches its first page and attaches a paginator to it.
FetchFirst ==
  /\ ~firstPage.known /\ ~stopped
  /\ firstPage' = PageAfter(0)
  /\ UNCHANGED <<listed, lasting, edits, walk, stopped>>

ListSandboxes     == FetchFirst
ListSessions      == FetchFirst
ListSnapshots     == FetchFirst
SnapshotList      == FetchFirst
SnapshotTree      == FetchFirst

StopPages ==
  /\ firstPage.known /\ ~stopped
  /\ stopped' = TRUE
  /\ UNCHANGED <<listed, lasting, edits, firstPage, walk>>

Walked(w) == walk' = [walk EXCEPT ![w].pc = "done"]
Thrown(w) == walk' = [walk EXCEPT ![w].pc = "error"]

\* for await begins: the first page is the one that was fetched, however long ago.
IterateItems(w) ==
  /\ firstPage.known /\ walk[w].pc = "idle"
  /\ IF stopped THEN Thrown(w)
     ELSE walk' = [walk EXCEPT ![w].pc = "items", ![w].page = firstPage,
                               ![w].left = firstPage.items]
  /\ UNCHANGED <<listed, lasting, edits, firstPage, stopped>>

\* The next item of the page.
YieldItem(w) ==
  /\ walk[w].pc = "items" /\ walk[w].left # {}
  /\ IF stopped THEN Thrown(w)
     ELSE LET i == CHOOSE i \in walk[w].left : \A j \in walk[w].left : i <= j
          IN walk' = [walk EXCEPT ![w].left = @ \ {i}, ![w].got = @ \cup {i}, ![w].last = i]
  /\ UNCHANGED <<listed, lasting, edits, firstPage, stopped>>

\* mutant: the cursor of the first page is used for every page
NextPageOfFirst(w) ==
  /\ walk[w].pc = "items" /\ walk[w].left = {}
  /\ CASE walk[w].page.next = 0 -> Walked(w)
       [] walk[w].page.next # 0 /\ stopped -> Thrown(w)
       [] OTHER -> LET page == PageAfter(firstPage.next)
                   IN walk' = [walk EXCEPT ![w].page = page, ![w].left = page.items]
  /\ UNCHANGED <<listed, lasting, edits, firstPage, stopped>>

\* Behind the last item of a page the next one is fetched, if there is one.
NextPage(w) ==
  /\ walk[w].pc = "items" /\ walk[w].left = {}
  /\ CASE walk[w].page.next = 0 -> Walked(w)
       [] walk[w].page.next # 0 /\ stopped -> Thrown(w)
       [] OTHER -> \/ Thrown(w)
                   \/ LET page == PageAfter(walk[w].page.next)
                      IN walk' = [walk EXCEPT ![w].page = page, ![w].left = page.items]
  /\ UNCHANGED <<listed, lasting, edits, firstPage, stopped>>

PagesNext ==
  \/ \E i \in Items : Edit(i)
  \/ ListSandboxes \/ ListSessions \/ ListSnapshots \/ SnapshotList \/ SnapshotTree
  \/ StopPages
  \/ \E w \in Walks : IterateItems(w) \/ YieldItem(w) \/ NextPage(w)

PagesSpec == PagesInit /\ [][PagesNext]_pagesVars

-----------------------------------------------------------------------------

\* Every walk yields each item at most once and in the order of the list, and
\* one that comes to its end has missed nothing that was there all the time.
PagesComplete ==
  /\ \A w \in Walks : walk[w].pc = "done" => lasting \subseteq walk[w].got
  /\ \A w \in Walks : \A i \in walk[w].left : i > walk[w].last

=============================================================================
