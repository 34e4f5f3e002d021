---------------------------- MODULE PagingProofs ----------------------------
(* Theorems about Paging, for any ids, limits and sizes, any number of wrong *)
(* answers and changes, and any cursors an API may be stuck on.              *)
EXTENDS Paging, TLAPS

USE IdsAssumption, NoneAssumption

-----------------------------------------------------------------------------
(* Types. *)
LEMMA TypeInit == Init => TypeOK
<1> SUFFICES ASSUME Init PROVE TypeOK
  OBVIOUS
<1>1. faults \in 0..MaxFaults /\ changes \in 0..MaxChanges
  BY BoundsAssumption DEF Init
<1>2. rows \subseteq Ids /\ standing \subseteq rows /\ page \subseteq Ids /\ yielded \subseteq Ids
  BY DEF Init
<1>3. QED BY <1>1, <1>2 DEF Init, TypeOK, Places

LEMMA ReceiveTyped ==
  ASSUME TypeOK, NEW items \in SUBSET Ids, NEW cursor \in Ids \cup {None, Blank},
         Receive(items, cursor), faults' \in 0..MaxFaults
  PROVE  TypeOK'
BY DEF TypeOK, Receive, Places, GoodLimit

LEMMA TypeNext ==
  ASSUME TypeOK, [Next]_vars
  PROVE  TypeOK'
<1> USE DEF TypeOK, Places, GoodLimit
<1>1. CASE UNCHANGED vars
  BY <1>1 DEF vars
<1>2. ASSUME NEW l \in Limits \cup {None}, Begin(l) PROVE TypeOK'
  BY <1>2 DEF Begin, api
<1>3. CASE Start
  BY <1>3 DEF Start, api
<1>4. ASSUME NEW i \in Ids, Yield(i) PROVE TypeOK'
  BY <1>4 DEF Yield, api
<1>5. CASE Advance
  BY <1>5 DEF Advance, Falsy, api
<1>6. CASE Answer
  <2>1. PICK last \in Ids \cup {Position(after)}, cursor \in Ids \cup {Position(after), None} :
          /\ cursor # None => last > Position(after)
          /\ Receive(Between(Position(after), last), cursor)
    BY <1>6 DEF Answer
  <2>2. cursor \in Ids \cup {None}
    BY <2>1 DEF Position
  <2>3. Between(Position(after), last) \subseteq Ids
    BY DEF Between
  <2>4. faults' \in 0..MaxFaults
    BY <1>6 DEF Answer
  <2>5. QED BY <2>1, <2>2, <2>3, <2>4, ReceiveTyped
<1>7. CASE AnswerWrongly
  <2>1. faults' \in 0..MaxFaults
    BY <1>7, BoundsAssumption DEF AnswerWrongly
  <2>2. QED BY <1>7, <2>1, ReceiveTyped DEF AnswerWrongly
<1>8. CASE AnswerStuck
  <2>1. PICK items \in SUBSET rows : Receive(items, stuck)
    BY <1>8 DEF AnswerStuck
  <2>2. stuck \in Ids /\ items \in SUBSET Ids /\ faults' \in 0..MaxFaults
    BY <1>8, <2>1, StuckAssumption DEF AnswerStuck
  <2>3. QED BY <2>1, <2>2, ReceiveTyped
<1>9. CASE Fail
  BY <1>9 DEF Fail, api
<1>10. CASE Abandon
  BY <1>10 DEF Abandon, api
<1>11. ASSUME NEW i \in Ids, Create(i) PROVE TypeOK'
  BY <1>11, BoundsAssumption DEF Create, iterator
<1>12. ASSUME NEW i \in Ids, Delete(i) PROVE TypeOK'
  BY <1>12, BoundsAssumption DEF Delete, iterator
<1>13. QED
  BY <1>1, <1>2, <1>3, <1>4, <1>5, <1>6, <1>7, <1>8, <1>9, <1>10, <1>11, <1>12
  DEF Next, Answers, Asks

(* The variables have their types; in particular no request is sent with an   *)
(* empty `after`.                                                             *)
THEOREM TypeCorrect == Spec => []TypeOK
BY TypeInit, TypeNext, PTL DEF Spec

-----------------------------------------------------------------------------
(* How far the iteration has come, in the order of the list: what was         *)
(* yielded is behind, what is to come is ahead, and of the rows that stand    *)
(* all those behind were yielded.                                             *)

(* Before the first page is asked for.                                        *)
Untouched == after = None /\ standing = {} /\ yielded = {} /\ page = {}

(* Everything up to the cursor that is sent has been dealt with.              *)
Swept ==
  /\ \A i \in yielded : i <= Position(after)
  /\ \A i \in standing : i <= Position(after) => i \in yielded

(* So will everything be up to the next one, once the page is yielded.        *)
Sweeping ==
  /\ next # Blank
  /\ \A i \in yielded, j \in page : i < j
  /\ next # None => /\ next > Position(after)
                    /\ \A i \in yielded \cup page : i <= next
  /\ \A i \in standing : next = None \/ i <= next => i \in yielded \cup page

Progress ==
  /\ pc \in {"idle", "refused", "made"} => Untouched
  /\ pc = "asking" => Swept
  /\ pc = "yielding" => Sweeping
  /\ pc = "done" => standing \subseteq yielded
  /\ pc # "repeated"
  /\ ~again

Inv == TypeOK /\ (Right => Progress)

LEMMA ProgressInit == Init => Progress
BY DEF Init, Progress, Untouched

(* An API that was right up to a state was right up to the one before.        *)
LEMMA RightBefore ==
  ASSUME TypeOK, [Next]_vars, Right'
  PROVE  Right
<1>1. stuck' = stuck /\ (faults' = faults \/ faults' = faults + 1)
  BY DEF Next, Asks, Answers, vars, api, Begin, Start, Yield, Advance, Answer, AnswerWrongly,
         AnswerStuck, Receive, Fail, Abandon, Create, Delete
<1>2. faults \in Nat
  BY DEF TypeOK
<1>3. QED BY <1>1, <1>2 DEF Right

(* A right answer takes up where the last one ended.                          *)
LEMMA AnswerSweeps ==
  ASSUME TypeOK, Progress, Answer
  PROVE  Progress'
<1>1. PICK last \in {i \in Ids \cup {Position(after)} : i >= Position(after)},
             cursor \in Ids \cup {Position(after), None} :
        /\ cursor \in {last, None}
        /\ cursor = None => \A i \in rows : i <= last
        /\ cursor # None => last > Position(after)
        /\ Receive(Between(Position(after), last), cursor)
  BY DEF Answer
<1> DEFINE at == Position(after)
<1>2. at \in Nat /\ last \in Nat /\ at <= last
  BY <1>1 DEF TypeOK, Position
<1>3. Swept
  BY <1>1 DEF Receive, Progress
<1>4. /\ pc' = "yielding" /\ page' = Between(at, last) /\ next' = cursor
      /\ UNCHANGED <<after, standing, yielded, again>>
  BY <1>1 DEF Receive
<1>5. cursor # Blank /\ (cursor # None => cursor = last)
  BY <1>1, <1>2
<1>6. yielded \subseteq Nat /\ standing \subseteq Nat /\ standing \subseteq rows
  BY DEF TypeOK
<1>7. \A i \in yielded, j \in page' : i < j
  BY <1>2, <1>3, <1>4, <1>6 DEF Between, Swept, TypeOK
<1>8. \A i \in yielded \cup page' : i <= last
  BY <1>2, <1>3, <1>4, <1>6 DEF Between, Swept
<1>9. \A i \in standing : cursor = None \/ i <= last => i \in yielded \cup page'
  BY <1>1, <1>2, <1>3, <1>4, <1>6 DEF Between, Swept
<1>10. Position(after)' = at
  BY <1>4 DEF Position
<1>11. Sweeping'
  BY <1>1, <1>4, <1>5, <1>7, <1>8, <1>9, <1>10 DEF Sweeping
<1>12. QED BY <1>4, <1>11 DEF Progress

(* Yielding the least item of a page keeps those behind it behind.            *)
LEMMA YieldSweeps ==
  ASSUME TypeOK, Progress, NEW i \in Ids, Yield(i)
  PROVE  Progress'
<1>1. /\ i \in page /\ (\A j \in page : i <= j)
      /\ page' = page \ {i} /\ yielded' = yielded \cup {i}
      /\ pc = "yielding" /\ again' = (again \/ i \in yielded)
      /\ UNCHANGED <<pc, after, next, standing>>
  BY DEF Yield
<1>2. Sweeping
  BY <1>1 DEF Progress
<1>3. page \subseteq Nat /\ yielded \subseteq Nat
  BY DEF TypeOK
<1>4. \A k \in yielded', j \in page' : k < j
  BY <1>1, <1>2, <1>3 DEF Sweeping
<1>5. (yielded \cup page)' = yielded \cup page /\ Position(after)' = Position(after)
  BY <1>1 DEF Position
<1>6. Sweeping'
  BY <1>1, <1>2, <1>4, <1>5 DEF Sweeping
<1>7. i \notin yielded
  BY <1>1, <1>2, <1>3 DEF Sweeping
<1>8. QED BY <1>1, <1>6, <1>7 DEF Progress

(* After the page's last item all up to its cursor is dealt with, and that    *)
(* cursor is a new one.                                                       *)
LEMMA AdvanceSweeps ==
  ASSUME TypeOK, Progress, Advance
  PROVE  Progress'
<1>1. Sweeping /\ page = {} /\ ~again
  BY DEF Advance, Progress
<1>2. UNCHANGED <<standing, yielded, again>>
  BY DEF Advance
<1>3. CASE Falsy(next)
  <2>1. next = None /\ pc' = "done"
    BY <1>1, <1>3 DEF Falsy, Sweeping, Advance
  <2>2. standing \subseteq yielded
    BY <1>1, <2>1 DEF Sweeping
  <2>3. QED BY <1>1, <1>2, <2>1, <2>2 DEF Progress
<1>4. CASE ~Falsy(next)
  <2>1. next \in Ids /\ next > Position(after)
    BY <1>1, <1>4 DEF Falsy, Sweeping, TypeOK
  <2>2. next # after
    BY <2>1 DEF Position
  <2>3. pc' = "asking" /\ after' = next
    BY <1>4, <2>2 DEF Advance
  <2>4. Position(after)' = next
    BY <2>1, <2>3 DEF Position
  <2>5. Swept'
    BY <1>1, <1>2, <2>1, <2>4 DEF Sweeping, Swept
  <2>6. QED BY <1>1, <1>2, <2>3, <2>5 DEF Progress
<1>5. QED BY <1>3, <1>4

(* Rows created or deleted only take from what stands.                        *)
LEMMA ChangesSweep ==
  ASSUME TypeOK, Progress, UNCHANGED iterator, standing' \subseteq standing
  PROVE  Progress'
<1>1. UNCHANGED <<pc, after, page, next, yielded, again>> /\ Position(after)' = Position(after)
  BY DEF iterator, Position
<1>2. Untouched => Untouched'
  BY <1>1 DEF Untouched
<1>3. Swept => Swept'
  BY <1>1 DEF Swept
<1>4. Sweeping => Sweeping'
  BY <1>1 DEF Sweeping
<1>5. QED BY <1>1, <1>2, <1>3, <1>4 DEF Progress

LEMMA InvNext ==
  ASSUME Inv, [Next]_vars
  PROVE  Inv'
<1>1. TypeOK /\ TypeOK'
  BY TypeNext DEF Inv
<1> SUFFICES ASSUME Right' PROVE Progress'
  BY <1>1 DEF Inv
<1>2. Right /\ Progress
  BY <1>1, RightBefore DEF Inv
<1>3. CASE UNCHANGED vars
  BY <1>1, <1>2, <1>3, ChangesSweep DEF vars, iterator
<1>4. ASSUME NEW l \in Limits \cup {None}, Begin(l) PROVE Progress'
  BY <1>2, <1>4 DEF Begin, Progress, Untouched
<1>5. CASE Start
  <2>1. Untouched /\ pc' = "asking" /\ standing' = rows /\ UNCHANGED <<after, yielded, again>>
    BY <1>2, <1>5 DEF Start, Progress
  <2>2. Swept'
    BY <1>1, <2>1 DEF Untouched, Swept, Position, TypeOK
  <2>3. QED BY <1>2, <2>1, <2>2 DEF Progress
<1>6. ASSUME NEW i \in Ids, Yield(i) PROVE Progress'
  BY <1>1, <1>2, <1>6, YieldSweeps
<1>7. CASE Advance
  BY <1>1, <1>2, <1>7, AdvanceSweeps
<1>8. CASE Answer
  BY <1>1, <1>2, <1>8, AnswerSweeps
<1>9. ~AnswerWrongly
  BY <1>1, <1>2 DEF AnswerWrongly, Right, TypeOK
<1>10. ~AnswerStuck
  BY <1>2 DEF AnswerStuck, Right
<1>11. CASE Fail
  BY <1>2, <1>11 DEF Fail, Progress
<1>12. CASE Abandon
  BY <1>2, <1>12 DEF Abandon, Progress
<1>13. ASSUME NEW i \in Ids, Create(i) PROVE Progress'
  BY <1>1, <1>2, <1>13, ChangesSweep DEF Create
<1>14. ASSUME NEW i \in Ids, Delete(i) PROVE Progress'
  BY <1>1, <1>2, <1>14, ChangesSweep DEF Delete
<1>15. QED
  BY <1>3, <1>4, <1>5, <1>6, <1>7, <1>8, <1>9, <1>10, <1>11, <1>12, <1>13, <1>14
  DEF Next, Answers, Asks

THEOREM Invariance == Spec => []Inv
<1>1. Init => Inv
  BY TypeInit, ProgressInit DEF Inv
<1>2. QED BY <1>1, InvNext, PTL DEF Spec

(* Over an API that answers as it should an iteration misses nothing, repeats *)
(* nothing and is not stopped for a repeated cursor.                          *)
THEOREM ScansAreExact == Spec => []ExactScan
<1>1. Inv => ExactScan
  BY DEF Inv, Progress, ExactScan
<1>2. QED BY <1>1, Invariance, PTL
=============================================================================
