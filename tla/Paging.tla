------------------------------- MODULE Paging -------------------------------
(***************************************************************************)
(* The management client's iterators: page after page of a list, each      *)
(* asked for with the cursor of the one before, while rows are created and *)
(* deleted beside it.  A caller iterates at its own pace and may stop.      *)
(*                                                                         *)
(* The API is external.  It keeps rows in the order of their ids and a     *)
(* cursor is the place of a row in it.  An answer may be wrong up to        *)
(* MaxFaults times, and an API that is stuck answers one cursor for ever.  *)
(***************************************************************************)
EXTENDS Integers, FiniteSets

CONSTANTS
  Ids,          \* ids a row can have, numbered in the list's order
  Limits,       \* limits a caller may ask for
  MaxPageSize,  \* MAX_PAGE_SIZE
  DefaultSize,  \* the API's page size when no limit is sent
  StuckOn,      \* cursors an API may be stuck on
  MaxFaults,    \* bound: wrong answers of an API that is not stuck
  MaxChanges,   \* bound: rows created and deleted
  None,         \* no limit, or no cursor
  Blank         \* the cursor ""

ASSUME IdsAssumption == Ids \subseteq Nat \ {0}
ASSUME SizesAssumption == Limits \subseteq Int /\ MaxPageSize \in Nat \ {0} /\ DefaultSize \in Nat \ {0}
ASSUME StuckAssumption == StuckOn \subseteq Ids
ASSUME BoundsAssumption == MaxFaults \in Nat /\ MaxChanges \in Nat
ASSUME NoneAssumption == None \notin Int /\ Blank \notin Int /\ None # Blank

VARIABLES
  stuck,     \* the cursor the API is stuck on, None when it is not
  rows,      \* what the list holds
  standing,  \* of that, what it held ever since the first page was asked for
  pc,        \* where the iterator is
  limit,     \* the limit of its pages
  after,     \* the cursor it sends
  page,      \* what it has yet to yield of the page it was answered
  next,      \* that page's next_cursor
  yielded,   \* what the caller was given
  again,     \* whether it was given anything twice
  faults,    \* wrong answers so far
  changes    \* rows created and deleted so far

api == <<stuck, rows, faults, changes>>
iterator == <<pc, limit, after, page, next, yielded, again>>
vars == <<stuck, rows, standing, pc, limit, after, page, next, yielded, again, faults, changes>>

Init ==
  /\ stuck \in StuckOn \cup {None}
  /\ rows \in SUBSET Ids
  /\ standing = {}
  /\ pc = "idle" /\ limit = None /\ after = None
  /\ page = {} /\ next = None
  /\ yielded = {} /\ again = FALSE
  /\ faults = 0 /\ changes = 0

(* _check_limit *)
GoodLimit(l) == l = None \/ l \in 1..MaxPageSize

(* iter_...(limit=l): the limit is checked at once, no page is asked for.    *)
Begin(l) ==
  /\ pc = "idle"
  /\ limit' = l
  /\ pc' = IF GoodLimit(l) THEN "made" ELSE "refused"
  /\ UNCHANGED <<api, standing, after, page, next, yielded, again>>

(* The first next(): the generator starts, and asks for the first page.      *)
Start ==
  /\ pc = "made"
  /\ pc' = "asking"
  /\ standing' = rows
  /\ UNCHANGED <<api, limit, after, page, next, yielded, again>>

(* A page and its cursor have come back and hold a list under "data".        *)
ReceiveMutantEnds(items, cursor) ==
  /\ pc = "asking"
  /\ pc' = IF cursor = None THEN "done" ELSE "yielding"
  /\ page' = items
  /\ next' = cursor
  /\ UNCHANGED <<stuck, rows, standing, limit, after, yielded, again, changes>>
Receive(items, cursor) ==
  /\ pc = "asking"
  /\ pc' = "yielding"
  /\ page' = items
  /\ next' = cursor
  /\ UNCHANGED <<stuck, rows, standing, limit, after, yielded, again, changes>>

(* The API: the rows after a cursor up to some place, no more than the limit, *)
(* and that place as the next cursor unless nothing is beyond it.             *)
Position(cursor) == IF cursor = None THEN 0 ELSE cursor
Size == IF limit = None THEN DefaultSize ELSE limit
Between(low, high) == {i \in rows : low < i /\ i <= high}

Answer ==
  /\ stuck = None
  /\ \E last \in {i \in Ids \cup {Position(after)} : i >= Position(after)} :
       \E cursor \in {last, None} :
         /\ Cardinality(Between(Position(after), last)) <= Size
         /\ cursor = None => \A i \in rows : i <= last
         /\ cursor # None => last > Position(after)
         /\ Receive(Between(Position(after), last), cursor)
  /\ UNCHANGED faults

(* It errs: any rows, with any cursor.                                       *)
AnswerWrongly ==
  /\ stuck = None
  /\ faults < MaxFaults
  /\ faults' = faults + 1
  /\ \E items \in SUBSET Ids, cursor \in Ids \cup {None, Blank} : Receive(items, cursor)

(* It is stuck: whatever it is asked for, any page, with the same cursor.     *)
AnswerStuck ==
  /\ stuck # None
  /\ \E items \in SUBSET rows : Cardinality(items) <= Size /\ Receive(items, stuck)
  /\ UNCHANGED faults

(* No page comes back: the transport raises, or the answer has no list under  *)
(* "data".  The exception ends the generator.                                 *)
Fail ==
  /\ pc = "asking"
  /\ pc' = "failed"
  /\ UNCHANGED <<api, standing, limit, after, page, next, yielded, again>>

(* The caller's next() is given an item of the page, in the page's order.    *)
Yield(i) ==
  /\ pc = "yielding"
  /\ i \in page /\ \A j \in page : i <= j
  /\ page' = page \ {i}
  /\ again' = (again \/ i \in yielded)
  /\ yielded' = yielded \cup {i}
  /\ UNCHANGED <<api, standing, pc, limit, after, next>>

(* The one after the page's last: the end, an error, or the next page.       *)
Falsy(cursor) == cursor \in {None, Blank}

AdvanceMutantUnguarded ==
  /\ pc = "yielding" /\ page = {}
  /\ pc' = IF Falsy(next) THEN "done" ELSE "asking"
  /\ after' = IF Falsy(next) THEN after ELSE next
  /\ UNCHANGED <<api, standing, limit, page, next, yielded, again>>
AdvanceMutantHasMore ==
  /\ pc = "yielding" /\ page = {}
  /\ pc' = IF next = None THEN "done" ELSE IF next = after THEN "repeated" ELSE "asking"
  /\ after' = IF pc' = "asking" THEN next ELSE after
  /\ UNCHANGED <<api, standing, limit, page, next, yielded, again>>
Advance ==
  /\ pc = "yielding" /\ page = {}
  /\ \/ /\ Falsy(next)
        /\ pc' = "done" /\ after' = after
     \/ /\ ~Falsy(next) /\ next = after
        /\ pc' = "repeated" /\ after' = after
     \/ /\ ~Falsy(next) /\ next # after
        /\ pc' = "asking" /\ after' = next
  /\ UNCHANGED <<api, standing, limit, page, next, yielded, again>>

(* The caller drops the iterator: it is closed where it last yielded.        *)
Abandon ==
  /\ pc \in {"made", "yielding"}
  /\ pc' = "dropped"
  /\ UNCHANGED <<api, standing, limit, after, page, next, yielded, again>>

(* Others change the list meanwhile.                                         *)
Create(i) ==
  /\ changes < MaxChanges
  /\ changes' = changes + 1
  /\ rows' = rows \cup {i}
  /\ UNCHANGED <<stuck, faults, standing, iterator>>

Delete(i) ==
  /\ changes < MaxChanges
  /\ changes' = changes + 1
  /\ rows' = rows \ {i}
  /\ standing' = standing \ {i}
  /\ UNCHANGED <<stuck, faults, iterator>>

Answers == Answer \/ AnswerWrongly \/ AnswerStuck \/ Fail
Asks == Start \/ (\E i \in Ids : Yield(i)) \/ Advance

Next ==
  \/ \E l \in Limits \cup {None} : Begin(l)
  \/ Asks \/ Answers \/ Abandon
  \/ \E i \in Ids : Create(i) \/ Delete(i)

Spec == Init /\ [][Next]_vars

(* The transport's timeouts end every wait for a page, and a caller that     *)
(* does not drop the iterator takes what it yields.                           *)
FairSpec == Spec /\ WF_vars(Answers) /\ WF_vars(Asks)

-----------------------------------------------------------------------------
Places == {"idle", "refused", "made", "asking", "yielding", "done", "repeated", "failed", "dropped"}
Over == {"done", "repeated", "failed", "dropped"}

(* The values the variables take.  Among them, what is sent as `after`: a     *)
(* cursor the API gave, never an empty one (management/client.py:348).        *)
TypeOK ==
  /\ stuck \in StuckOn \cup {None}
  /\ rows \subseteq Ids /\ standing \subseteq rows
  /\ pc \in Places
  /\ limit \in Limits \cup {None}
  /\ pc \notin {"idle", "refused"} => GoodLimit(limit)
  /\ after \in Ids \cup {None} /\ next \in Ids \cup {None, Blank}
  /\ page \subseteq Ids /\ yielded \subseteq Ids /\ again \in BOOLEAN
  /\ faults \in 0..MaxFaults /\ changes \in 0..MaxChanges

(* The API has answered as it should so far.                                 *)
Right == stuck = None /\ faults = 0

(* Over a list that changes beside it an iteration is exact: what is in the  *)
(* list all the while is yielded by the time it is done, wherever pages end;  *)
(* nothing is yielded twice, though it may be deleted and created again; and  *)
(* the check for a repeated cursor (management/client.py:350) never stops it. *)
ExactScan ==
  Right =>
    /\ pc = "done" => standing \subseteq yielded
    /\ ~again
    /\ pc # "repeated"

(* An iteration that has begun ends, also over an API that answers one        *)
(* cursor for ever: that is what the check is for (management/client.py:351). *)
IterationEnds == pc = "asking" ~> pc \in Over
=============================================================================
