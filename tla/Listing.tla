------------------------------- MODULE Listing -------------------------------
(****************************************************************************)
(* GET /tasks by a client that pages through a filter while tasks are       *)
(* submitted and change their status.  A page is one SELECT: newest first,  *)
(* OFFSET and LIMIT of what is committed and matches when it runs.          *)
(*                                                                          *)
(* created_at is the database's now(), the start of the INSERT's            *)
(* transaction: a task may become visible after later ones, and two may     *)
(* have the same.  A task id is a UUID, hence in no order of time.          *)
(****************************************************************************)
EXTENDS Naturals, FiniteSets

CONSTANTS Ids,    \* task ids, numbers for their order
          Times,  \* what created_at may be
          Limit   \* the page's limit

ASSUME ListingAssumption == /\ Ids \subseteq Nat /\ Times \subseteq Nat
                            /\ Limit \in Nat \ {0}

VARIABLES
  created_at,  \* task id -> created_at, of the rows there are
  matching,    \* the ids whose rows pass the filter
  client       \* a record of Client

listingVars == <<created_at, matching, client>>

\* listed: how often each task has been on a page.  wanted, left and joined are
\* history: what passed the filter when the client began, and what has stopped
\* or begun to since then.
Client == [offset : Nat, done : BOOLEAN, listed : [Ids -> Nat],
           wanted : SUBSET Ids, left : SUBSET Ids, joined : SUBSET Ids]

ListingInit == /\ created_at = <<>>
               /\ matching = {}
               /\ client = [offset |-> 0, done |-> FALSE,
                            listed |-> [t \in Ids |-> 0],
                            wanted |-> {}, left |-> {}, joined |-> {}]

\* Mutant of Before: rows of the same instant are in any order, here one that
\* depends on the page.
Before_NoTieBreak(t, u) ==
  \/ created_at[t] > created_at[u]
  \/ created_at[t] = created_at[u] /\ (client.offset = 0 <=> t > u) /\ t # u

\* ORDER BY created_at DESC, id DESC.
Before(t, u) == \/ created_at[t] > created_at[u]
                \/ created_at[t] = created_at[u] /\ t > u

\* The rows of the result that come before a row.
Preceding(t) == {u \in matching : Before(u, t)}

\* OFFSET passes over the first rows, LIMIT takes as many of the rest.
Page(offset) ==
  {t \in matching : /\ Cardinality(Preceding(t)) >= offset
                    /\ Cardinality(Preceding(t)) < offset + Limit}

-----------------------------------------------------------------------------
Paging == client.offset > 0 /\ ~client.done

\* What changes under a client that pages is remembered.
Matches(now_matching) ==
  /\ matching' = now_matching
  /\ client' = [client EXCEPT
       !.left   = IF Paging THEN @ \cup (matching \ now_matching) ELSE @,
       !.joined = IF Paging THEN @ \cup (now_matching \ matching) ELSE @]

\* A submission's INSERT becomes visible; it may pass the filter or not.
Insert(t, at) ==
  /\ t \notin DOMAIN created_at
  /\ created_at' = [u \in DOMAIN created_at \cup {t} |->
                      IF u = t THEN at ELSE created_at[u]]
  /\ Matches(matching) \/ Matches(matching \cup {t})

\* A change of status makes it pass the filter, or not any more.
ChangeStatus(t) ==
  /\ t \in DOMAIN created_at
  /\ Matches(IF t \in matching THEN matching \ {t} ELSE matching \cup {t})
  /\ UNCHANGED created_at

\* One page; the client goes on until a page is not full.
ReadPage ==
  LET page == Page(client.offset) IN
  /\ ~client.done
  /\ client' = [client EXCEPT
       !.offset = @ + Limit,
       !.done   = Cardinality(page) < Limit,
       !.listed = [t \in Ids |-> IF t \in page THEN @[t] + 1 ELSE @[t]],
       !.wanted = IF Paging THEN @ ELSE matching]
  /\ UNCHANGED <<created_at, matching>>

ListingNext == \/ \E t \in Ids, at \in Times : Insert(t, at)
               \/ \E t \in Ids : ChangeStatus(t)
               \/ ReadPage

ListingSpec == ListingInit /\ [][ListingNext]_listingVars

-----------------------------------------------------------------------------
(* Properties *)

\* A task that passed the filter all the time is listed, unless one that is
\* listed before it stopped to pass.  In particular a list that is filtered by
\* nothing, by priority or by type misses no task, whatever is submitted.
NothingIsMissed ==
  client.done => \A t \in client.wanted \ client.left :
    client.listed[t] > 0 \/ \E u \in client.left : Before(u, t)

\* No task is listed twice, unless one has joined that is listed before it, or
\* is itself one that came back.
ListedOnce ==
  \A t \in Ids : client.listed[t] > 1 =>
    t \in client.joined \/ \E u \in client.joined : Before(u, t)

(* The inductive invariant behind both *)

ListingTypeOK ==
  /\ DOMAIN created_at \subseteq Ids
  /\ created_at \in [DOMAIN created_at -> Times]
  /\ matching \subseteq DOMAIN created_at /\ IsFiniteSet(matching)
  /\ client \in Client

\* The client remembers rows there are, and none before it begins.
RemembersRows ==
  /\ client.wanted \cup client.left \cup client.joined \subseteq DOMAIN created_at
  /\ \A t \in Ids : client.listed[t] > 0 => t \in DOMAIN created_at
  /\ client.offset = 0 =>
       /\ ~client.done /\ \A t \in Ids : client.listed[t] = 0
       /\ client.wanted \cup client.left \cup client.joined = {}

\* A row that the next page would already have passed over.
Passed(t) == Cardinality(Preceding(t)) < client.offset

\* Only what leaves moves a row to the front, past the client ...
WantedIsAhead ==
  Paging => \A t \in client.wanted \ client.left :
    /\ t \in matching
    /\ client.listed[t] > 0 \/ ~Passed(t) \/ \E u \in client.left : Before(u, t)

\* ... and only what joins moves it back, before the client.
ListedIsPassed ==
  ~client.done => \A t \in matching : client.listed[t] > 0 =>
    Passed(t) \/ t \in client.joined \/ \E u \in client.joined : Before(u, t)

ListingInv == /\ ListingTypeOK /\ RemembersRows /\ WantedIsAhead /\ ListedIsPassed
              /\ NothingIsMissed /\ ListedOnce
=============================================================================
