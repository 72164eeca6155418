------------------------- MODULE CategoryTreeProofs -------------------------
(* What CategoryTree promises for any set of identities, any number of     *)
(* requests at once and any brake of the recursive query.                  *)
EXTENDS CategoryTree, FiniteSetTheorems, TLAPS

LEMMA StateTyped ==
  ASSUME NEW pc \in {"idle", "found", "checked", "deleting", "written"},
         NEW c \in Ids \cup {Absent}, NEW p \in Ids \cup {NoParent},
         NEW done \in Actions, NEW stale \in BOOLEAN
  PROVE  State(pc, c, p, done, stale) \in HandlerState
  BY DEF State, HandlerState

(* What the two updates of a handler return.                               *)
LEMMA Updates ==
  ASSUME NEW s \in HandlerState, NEW pc \in {"idle", "found", "checked", "deleting", "written"}
  PROVE  /\ Goto(s, pc) \in HandlerState /\ Outdated(s) \in HandlerState
         /\ Goto(s, pc).pc = pc /\ Goto(s, pc).id = s.id
         /\ Goto(s, pc).wanted = s.wanted /\ Goto(s, pc).action = s.action
         /\ Goto(s, pc).stale = s.stale
         /\ Outdated(s).pc = s.pc /\ Outdated(s).id = s.id
         /\ Outdated(s).action = s.action
         /\ s.pc = "checked" => Outdated(s).stale
<1>1. /\ s.pc \in {"idle", "found", "checked", "deleting", "written"}
      /\ s.id \in Ids \cup {Absent} /\ s.wanted \in Ids \cup {NoParent}
      /\ s.action \in Actions /\ s.stale \in BOOLEAN
  BY DEF HandlerState
<1>2. Goto(s, pc) \in HandlerState
  BY <1>1, StateTyped DEF Goto
<1>3. /\ Goto(s, pc).pc = pc /\ Goto(s, pc).id = s.id
      /\ Goto(s, pc).wanted = s.wanted /\ Goto(s, pc).action = s.action
      /\ Goto(s, pc).stale = s.stale
  BY DEF Goto, State
<1>4. CASE s.pc = "checked"
  <2>1. Outdated(s) = State("checked", s.id, s.wanted, s.action, TRUE)
    BY <1>4 DEF Outdated
  <2>2. Outdated(s) \in HandlerState
    BY <1>1, <2>1, StateTyped
  <2>3. /\ Outdated(s).pc = s.pc /\ Outdated(s).id = s.id
        /\ Outdated(s).action = s.action /\ Outdated(s).stale
    BY <1>4, <2>1 DEF State
  <2>4. QED
    BY <1>2, <1>3, <2>2, <2>3
<1>5. CASE s.pc # "checked"
  BY <1>2, <1>3, <1>5 DEF Outdated
<1>6. QED
  BY <1>4, <1>5

LEMMA IdleTyped == Idle \in HandlerState /\ Idle.pc = "idle"
  BY DEF Idle, State, HandlerState, Actions

(* Continue leaves the other handlers where they are.                      *)
LEMMA ContinueStep ==
  ASSUME NEW h \in Handlers, NEW s \in HandlerState, NEW moved \in BOOLEAN,
         handler \in [Handlers -> HandlerState], Continue(h, s, moved)
  PROVE  /\ handler' \in [Handlers -> HandlerState]
         /\ handler'[h] = s
         /\ \A k \in Handlers \ {h} :
              handler'[k] = IF moved THEN Outdated(handler[k]) ELSE handler[k]
  BY Updates DEF Continue

(* The part of TypeOK about the handlers.                                  *)
TypeHandler == handler \in [Handlers -> HandlerState]

LEMMA HandlerTyped == TypeOK /\ [Next]_vars => TypeHandler'
<1> SUFFICES ASSUME TypeOK, [Next]_vars PROVE TypeHandler'
  OBVIOUS
<1>1. handler \in [Handlers -> HandlerState]
  BY DEF TypeOK
<1>2. ASSUME NEW h \in Handlers, NEW c \in Ids, NEW p \in Ids \cup {NoParent},
             CategoryCreate(h, c, p)
      PROVE  TypeHandler'
  <2>1. State("written", c, NoParent, "created", FALSE) \in HandlerState
    BY StateTyped DEF Actions
  <2>2. QED
    BY <1>1, <1>2, <2>1, ContinueStep DEF CategoryCreate, TypeHandler
<1>3. ASSUME NEW h \in Handlers, NEW c \in Ids, NEW p \in Ids \cup {NoParent},
             FindForUpdate(h, c, p)
      PROVE  TypeHandler'
  <2>1. State("found", c, p, "changed", FALSE) \in HandlerState
    BY StateTyped DEF Actions
  <2>2. QED
    BY <1>1, <1>3, <2>1 DEF FindForUpdate, TypeHandler
<1>4. ASSUME NEW h \in Handlers, CheckCycle(h) PROVE TypeHandler'
  BY <1>1, <1>4, Updates, IdleTyped DEF CheckCycle, Step, TypeHandler
<1>5. ASSUME NEW h \in Handlers, UpdateParent(h) PROVE TypeHandler'
  <2>1. Goto(handler[h], "written") \in HandlerState /\ Exists(handler[h].id) \in BOOLEAN
    BY <1>1, Updates DEF Exists
  <2>2. QED
    BY <1>1, <1>5, <2>1, ContinueStep DEF UpdateParent, TypeHandler
<1>6. ASSUME NEW h \in Handlers, NEW c \in Ids, CategorySetActive(h, c) PROVE TypeHandler'
  <2>1. State("written", c, NoParent, "changed", FALSE) \in HandlerState
    BY StateTyped DEF Actions
  <2>2. QED
    BY <1>1, <1>6, <2>1 DEF CategorySetActive, TypeHandler
<1>7. ASSUME NEW h \in Handlers, NEW c \in Ids, FindForDelete(h, c) PROVE TypeHandler'
  <2>1. State("deleting", c, NoParent, "deleted", FALSE) \in HandlerState
    BY StateTyped DEF Actions
  <2>2. QED
    BY <1>1, <1>7, <2>1 DEF FindForDelete, TypeHandler
<1>8. ASSUME NEW h \in Handlers, DeleteCategory(h) PROVE TypeHandler'
  BY <1>1, <1>8, Updates DEF DeleteCategory, Step, TypeHandler
<1>9. ASSUME NEW h \in Handlers, Refuse(h) \/ Record(h) \/ RecordFails(h) PROVE TypeHandler'
  BY <1>1, <1>9, IdleTyped DEF Refuse, Record, RecordFails, TypeHandler
<1>10. CASE UNCHANGED handler
  BY <1>1, <1>10 DEF TypeHandler
<1>11. QED
  BY <1>2, <1>3, <1>4, <1>5, <1>6, <1>7, <1>8, <1>9, <1>10
     DEF Next, HandlerStep, NotFound, vars

(* Of the handlers, those that write know which category they work on.     *)
Working == \A h \in Handlers : handler[h].pc # "idle" => handler[h].id \in Ids

LEMMA WorkingStep == TypeOK /\ Working /\ [Next]_vars => Working'
<1> SUFFICES ASSUME TypeOK, Working, [Next]_vars PROVE Working'
  OBVIOUS
<1>1. handler \in [Handlers -> HandlerState]
  BY DEF TypeOK
<1>2. ASSUME NEW h \in Handlers, NEW c \in Ids, NEW p \in Ids \cup {NoParent},
             CategoryCreate(h, c, p)
      PROVE  Working'
  <2> DEFINE new == State("written", c, NoParent, "created", FALSE)
  <2>1. new \in HandlerState /\ new.id = c
    BY StateTyped DEF Actions, State
  <2>2. Continue(h, new, TRUE)
    BY <1>2 DEF CategoryCreate
  <2> HIDE DEF new
  <2>3. /\ handler'[h] = new
        /\ \A k \in Handlers \ {h} : handler'[k] = Outdated(handler[k])
    BY <1>1, <2>1, <2>2, ContinueStep
  <2>4. QED
    BY <1>1, <2>1, <2>3, Updates DEF Working
<1>3. ASSUME NEW h \in Handlers, UpdateParent(h) PROVE Working'
  <2>1. Goto(handler[h], "written") \in HandlerState /\ Exists(handler[h].id) \in BOOLEAN
    BY <1>1, Updates DEF Exists
  <2>2. QED
    BY <1>1, <1>3, <2>1, ContinueStep, Updates DEF UpdateParent, Working
<1>4. ASSUME NEW h \in Handlers, NEW c \in Ids, NEW p \in Ids \cup {NoParent},
             \/ FindForUpdate(h, c, p)
             \/ CategorySetActive(h, c)
             \/ FindForDelete(h, c)
      PROVE  Working'
  BY <1>1, <1>4 DEF FindForUpdate, CategorySetActive, FindForDelete, Working, State
<1>5. ASSUME NEW h \in Handlers, CheckCycle(h) \/ DeleteCategory(h) PROVE Working'
  BY <1>1, <1>5, Updates, IdleTyped DEF CheckCycle, DeleteCategory, Step, Working
<1>6. ASSUME NEW h \in Handlers, Refuse(h) \/ Record(h) \/ RecordFails(h) PROVE Working'
  BY <1>1, <1>6, IdleTyped DEF Refuse, Record, RecordFails, Working
<1>7. CASE UNCHANGED handler
  BY <1>7 DEF Working
<1>8. QED
  BY <1>2, <1>3, <1>4, <1>5, <1>6, <1>7 DEF Next, HandlerStep, NotFound, vars

(* TypeOK holds: every request and the table keep their shape.             *)
THEOREM TypeCorrect == Spec => []TypeOK
<1>1. Init => TypeOK /\ Working
  BY IdleTyped DEF Init, TypeOK, Working
<1>2. TypeOK /\ Working /\ [Next]_vars => TypeOK' /\ Working'
  <2> SUFFICES ASSUME TypeOK, Working, [Next]_vars PROVE TypeOK' /\ Working'
    OBVIOUS
  <2>1. TypeHandler' /\ Working'
    BY HandlerTyped, WorkingStep
  <2>2. parent' \in [Ids -> Ids \cup {NoParent, Absent}] /\ used' \subseteq Ids
    <3>1. ASSUME NEW h \in Handlers, NEW c \in Ids, NEW p \in Ids \cup {NoParent},
                 CategoryCreate(h, c, p)
          PROVE  parent' \in [Ids -> Ids \cup {NoParent, Absent}] /\ used' \subseteq Ids
      BY <3>1 DEF CategoryCreate, TypeOK
    <3>2. ASSUME NEW h \in Handlers, UpdateParent(h)
          PROVE  parent' \in [Ids -> Ids \cup {NoParent, Absent}] /\ used' \subseteq Ids
      <4>1. handler[h].wanted \in Ids \cup {NoParent}
        BY DEF TypeOK, HandlerState
      <4>2. QED
        BY <3>2, <4>1 DEF UpdateParent, TypeOK
    <3>3. ASSUME NEW h \in Handlers, DeleteCategory(h)
          PROVE  parent' \in [Ids -> Ids \cup {NoParent, Absent}] /\ used' \subseteq Ids
      BY <3>3 DEF DeleteCategory, TypeOK
    <3>4. CASE UNCHANGED <<parent, used>>
      BY <3>4 DEF TypeOK
    <3>5. QED
      BY <3>1, <3>2, <3>3, <3>4
         DEF Next, HandlerStep, NotFound, vars, FindForUpdate, CheckCycle,
             CategorySetActive, FindForDelete, Refuse, Record, RecordFails
  <2>3. trail' \subseteq {"created", "deleted"} \X Ids
    <3>1. ASSUME NEW h \in Handlers, Record(h)
          PROVE  trail' \subseteq {"created", "deleted"} \X Ids
      <4>1. handler[h].id \in Ids /\ handler[h].action \in Actions
        BY <3>1 DEF Record, TypeOK, Working, HandlerState
      <4>2. QED
        BY <3>1, <4>1 DEF Record, TypeOK, Actions
    <3>2. CASE UNCHANGED trail
      BY <3>2 DEF TypeOK
    <3>3. QED
      BY <3>1, <3>2
         DEF Next, HandlerStep, NotFound, vars, CategoryCreate, FindForUpdate, CheckCycle,
             UpdateParent, CategorySetActive, FindForDelete, DeleteCategory, Refuse, RecordFails
  <2>4. QED
    BY <2>1, <2>2, <2>3 DEF TypeOK, TypeHandler
<1>3. QED
  BY <1>1, <1>2, PTL DEF Spec

LEMMA AlwaysWorking == Spec => []Working
<1>1. Init => Working
  BY DEF Init, Working, Idle, State
<1>2. QED
  BY <1>1, TypeCorrect, WorkingStep, PTL DEF Spec

---------------------------------------------------------------------------
(* What the three writes do to the tree; every other step leaves it alone. *)
LEMMA TreeStep ==
  ASSUME TypeOK, Working, [Next]_vars
  PROVE  \/ \E h \in Handlers, c \in Ids, p \in Ids \cup {NoParent} : CategoryCreate(h, c, p)
         \/ \E h \in Handlers : UpdateParent(h) /\ handler[h].id \in Ids
                               /\ handler[h].wanted \in Ids \cup {NoParent}
         \/ \E h \in Handlers : DeleteCategory(h) /\ handler[h].id \in Ids
         \/ UNCHANGED <<parent, used>>
<1>1. \A h \in Handlers : UpdateParent(h) \/ DeleteCategory(h) => handler[h].id \in Ids
  BY DEF UpdateParent, DeleteCategory, Working
<1>2. \A h \in Handlers : handler[h].wanted \in Ids \cup {NoParent}
  BY DEF TypeOK, HandlerState
<1>3. QED
  BY <1>1, <1>2
     DEF Next, HandlerStep, NotFound, vars, FindForUpdate, CheckCycle,
         CategorySetActive, FindForDelete, Refuse, Record, RecordFails

(* Identities are not reused, and the foreign key holds.                   *)
TreeInv == Existing \subseteq used /\ ParentsExist

LEMMA TreeInvStep == TypeOK /\ Working /\ TreeInv /\ [Next]_vars => TreeInv'
<1> SUFFICES ASSUME TypeOK, Working, TreeInv, [Next]_vars PROVE TreeInv'
  OBVIOUS
<1>1. parent \in [Ids -> Ids \cup {NoParent, Absent}]
  BY DEF TypeOK
<1>2. ASSUME NEW h \in Handlers, NEW c \in Ids, NEW p \in Ids \cup {NoParent},
             CategoryCreate(h, c, p)
      PROVE  TreeInv'
  <2>1. /\ p \in Parents /\ p # Absent
        /\ parent' = [parent EXCEPT ![c] = p] /\ used' = used \cup {c}
    BY <1>2, NoneAreNotIds DEF CategoryCreate
  <2>2. \A d \in Ids : parent'[d] = IF d = c THEN p ELSE parent[d]
    BY <1>1, <2>1
  <2>3. Existing' = Existing \cup {c}
    BY <2>1, <2>2 DEF Existing, Exists
  <2>4. QED
    BY <2>1, <2>2, <2>3 DEF TreeInv, ParentsExist, Existing, Exists, Parents
<1>3. ASSUME NEW h \in Handlers, UpdateParent(h), handler[h].id \in Ids,
             handler[h].wanted \in Ids \cup {NoParent}
      PROVE  TreeInv'
  <2>1. CASE Exists(handler[h].id)
    <3>1. /\ handler[h].wanted \in Parents /\ handler[h].wanted # Absent
          /\ parent' = [parent EXCEPT ![handler[h].id] = handler[h].wanted] /\ used' = used
      BY <1>3, <2>1, NoneAreNotIds DEF UpdateParent
    <3>2. \A d \in Ids : parent'[d] = IF d = handler[h].id THEN handler[h].wanted ELSE parent[d]
      BY <1>1, <1>3, <3>1
    <3>3. Existing' = Existing
      BY <2>1, <3>1, <3>2 DEF Existing, Exists
    <3>4. QED
      BY <3>1, <3>2, <3>3 DEF TreeInv, ParentsExist, Existing, Exists, Parents
  <2>2. CASE ~ Exists(handler[h].id)
    BY <1>3, <2>2 DEF UpdateParent, TreeInv, ParentsExist, Existing, Exists
  <2>3. QED
    BY <2>1, <2>2
<1>4. ASSUME NEW h \in Handlers, DeleteCategory(h), handler[h].id \in Ids
      PROVE  TreeInv'
  <2>1. /\ Children(handler[h].id) = {}
        /\ parent' = [parent EXCEPT ![handler[h].id] = Absent] /\ used' = used
    BY <1>4 DEF DeleteCategory
  <2>2. \A d \in Ids : parent'[d] = IF d = handler[h].id THEN Absent ELSE parent[d]
    BY <1>1, <1>4, <2>1
  <2>3. Existing' = Existing \ {handler[h].id}
    BY <2>2 DEF Existing, Exists
  <2>4. QED
    BY <2>1, <2>2, <2>3 DEF TreeInv, ParentsExist, Existing, Exists, Children
<1>5. CASE UNCHANGED <<parent, used>>
  BY <1>5 DEF TreeInv, ParentsExist, Existing, Exists
<1>6. QED
  BY <1>2, <1>3, <1>4, <1>5, TreeStep

(* A parent that is set is there, whatever is created, moved and deleted   *)
(* at the same time.                                                       *)
THEOREM ForeignKeyHolds == Spec => []ParentsExist
<1>1. Init => TreeInv
  BY DEF Init, TreeInv, ParentsExist, Existing, Exists
<1>2. TreeInv => ParentsExist
  BY DEF TreeInv
<1>3. QED
  BY <1>1, <1>2, TypeCorrect, AlwaysWorking, TreeInvStep, PTL DEF Spec

---------------------------------------------------------------------------
(* A category recorded, or about to be recorded, as deleted was there once *)
(* and is not there now.                                                   *)
Gone(c) == c \in used /\ ~ Exists(c)
DeleteInv ==
  /\ \A c \in Ids : <<"deleted", c>> \in trail => Gone(c)
  /\ \A h \in Handlers :
       /\ handler[h].pc = "deleting" => handler[h].id \in used
       /\ handler[h].pc = "written" /\ handler[h].action = "deleted" => Gone(handler[h].id)
       /\ handler[h].pc \in {"found", "checked"} => handler[h].action = "changed"

LEMMA GoneStays ==
  ASSUME TypeOK, Working, TreeInv, [Next]_vars, NEW c \in Ids
  PROVE  /\ c \in used => c \in used'
         /\ Gone(c) => Gone(c)'
<1>1. parent \in [Ids -> Ids \cup {NoParent, Absent}]
  BY DEF TypeOK
<1>2. QED
  BY <1>1, TreeStep DEF Gone, Exists, CategoryCreate, UpdateParent, DeleteCategory

LEMMA DeleteInvStep == TypeOK /\ Working /\ TreeInv /\ DeleteInv /\ [Next]_vars => DeleteInv'
<1> SUFFICES ASSUME TypeOK, Working, TreeInv, DeleteInv, [Next]_vars PROVE DeleteInv'
  OBVIOUS
<1>1. handler \in [Handlers -> HandlerState]
  BY DEF TypeOK
<1>2. \A c \in Ids : (c \in used => c \in used') /\ (Gone(c) => Gone(c)')
  BY GoneStays
<1> DEFINE Fine(s) == /\ s.pc = "deleting" => s.id \in used'
                      /\ s.pc = "written" /\ s.action = "deleted" =>
                           s.id \in used' /\ parent'[s.id] = Absent
                      /\ s.pc \in {"found", "checked"} => s.action = "changed"
<1>3. ASSUME NEW h \in Handlers PROVE Fine(handler[h]) /\ Fine(Outdated(handler[h]))
  <2>1. handler[h].pc # "idle" => handler[h].id \in Ids
    BY DEF Working
  <2>2. Fine(handler[h])
    BY <1>2, <2>1 DEF DeleteInv, Gone, Exists
  <2>3. handler[h] \in HandlerState
    BY <1>1
  <2>4. QED
    BY <2>2, <2>3, Updates
<1>4. Fine(Idle)
  BY DEF Idle, State
<1>5. ASSUME \A h \in Handlers : Fine(handler'[h]), UNCHANGED trail PROVE DeleteInv'
  BY <1>2, <1>5 DEF DeleteInv, Gone, Exists
<1>6. ASSUME NEW h \in Handlers, NEW c \in Ids, NEW p \in Ids \cup {NoParent},
             CategoryCreate(h, c, p)
      PROVE  DeleteInv'
  <2> DEFINE new == State("written", c, NoParent, "created", FALSE)
  <2>1. new \in HandlerState /\ Fine(new)
    BY StateTyped DEF Actions, State
  <2>2. Continue(h, new, TRUE) /\ UNCHANGED trail
    BY <1>6 DEF CategoryCreate
  <2> HIDE DEF new, Fine
  <2>3. /\ handler'[h] = new
        /\ \A k \in Handlers \ {h} : handler'[k] = Outdated(handler[k])
    BY <1>1, <2>1, <2>2, ContinueStep
  <2>4. QED
    BY <1>3, <1>5, <2>1, <2>2, <2>3
<1>7. ASSUME NEW h \in Handlers, UpdateParent(h) PROVE DeleteInv'
  <2> DEFINE new == Goto(handler[h], "written")
  <2>1. new \in HandlerState /\ new.pc = "written" /\ new.action = "changed"
    BY <1>1, <1>7, Updates DEF UpdateParent, DeleteInv
  <2>2. Continue(h, new, Exists(handler[h].id)) /\ UNCHANGED trail
    BY <1>7 DEF UpdateParent
  <2>3. Fine(new)
    BY <2>1
  <2> HIDE DEF new, Fine
  <2>4. Exists(handler[h].id) \in BOOLEAN
    BY DEF Exists
  <2>5. /\ handler'[h] = new
        /\ \A k \in Handlers \ {h} : handler'[k] \in {Outdated(handler[k]), handler[k]}
    BY <1>1, <2>1, <2>2, <2>4, ContinueStep
  <2>6. QED
    BY <1>3, <1>5, <2>2, <2>3, <2>5
<1>8. ASSUME NEW h \in Handlers, NEW c \in Ids, NEW p \in Ids \cup {NoParent},
             \/ FindForUpdate(h, c, p)
             \/ CategorySetActive(h, c)
             \/ FindForDelete(h, c)
      PROVE  DeleteInv'
  <2>1. \E s : Fine(s) /\ handler' = [handler EXCEPT ![h] = s] /\ UNCHANGED trail
    <3>1. Exists(c) => c \in used'
      BY <1>2 DEF TreeInv, Existing
    <3>2. CASE FindForUpdate(h, c, p)
      BY <3>2 DEF FindForUpdate, State
    <3>3. CASE CategorySetActive(h, c)
      BY <3>3 DEF CategorySetActive, State
    <3>4. CASE FindForDelete(h, c)
      BY <3>1, <3>4 DEF FindForDelete, State
    <3>5. QED
      BY <1>8, <3>2, <3>3, <3>4
  <2> HIDE DEF Fine
  <2>2. QED
    BY <1>1, <1>3, <1>5, <2>1
<1>9. ASSUME NEW h \in Handlers, CheckCycle(h) PROVE DeleteInv'
  <2>1. Fine(Goto(handler[h], "checked"))
    BY <1>1, <1>9, Updates DEF CheckCycle, DeleteInv
  <2>2. /\ UNCHANGED trail
        /\ \/ handler' = [handler EXCEPT ![h] = Idle]
           \/ handler' = [handler EXCEPT ![h] = Goto(handler[h], "checked")]
    BY <1>9 DEF CheckCycle, Step
  <2> HIDE DEF Fine
  <2>3. QED
    BY <1>1, <1>3, <1>4, <1>5, <2>1, <2>2
<1>10. ASSUME NEW h \in Handlers, DeleteCategory(h) PROVE DeleteInv'
  <2>1. /\ handler[h].id \in Ids /\ handler[h].id \in used'
        /\ parent' = [parent EXCEPT ![handler[h].id] = Absent]
    BY <1>2, <1>10 DEF DeleteCategory, Working, DeleteInv
  <2>2. parent'[handler[h].id] = Absent
    BY <2>1 DEF TypeOK
  <2>3. Fine(Goto(handler[h], "written"))
    BY <1>1, <2>1, <2>2, Updates
  <2>4. UNCHANGED trail /\ handler' = [handler EXCEPT ![h] = Goto(handler[h], "written")]
    BY <1>10 DEF DeleteCategory, Step
  <2> HIDE DEF Fine
  <2>5. QED
    BY <1>1, <1>3, <1>5, <2>3, <2>4
<1>11. ASSUME NEW h \in Handlers, Record(h) PROVE DeleteInv'
  <2>1. /\ trail' \subseteq trail \cup {<<handler[h].action, handler[h].id>>}
        /\ handler' = [handler EXCEPT ![h] = Idle] /\ handler[h].pc = "written"
    BY <1>11 DEF Record
  <2>2. \A k \in Handlers : Fine(handler'[k])
    <3> HIDE DEF Fine
    <3> QED
      BY <1>1, <1>3, <1>4, <2>1
  <2>3. \A c \in Ids : <<"deleted", c>> \in trail' => Gone(c)
    BY <2>1 DEF DeleteInv
  <2>4. QED
    BY <1>2, <2>2, <2>3 DEF DeleteInv, Gone, Exists
<1>12. ASSUME NEW h \in Handlers, Refuse(h) \/ RecordFails(h) PROVE DeleteInv'
  <2>1. handler' = [handler EXCEPT ![h] = Idle] /\ UNCHANGED trail
    BY <1>12 DEF Refuse, RecordFails
  <2> HIDE DEF Fine
  <2>2. QED
    BY <1>1, <1>3, <1>4, <1>5, <2>1
<1>13. CASE UNCHANGED vars
  BY <1>13 DEF DeleteInv, Gone, Exists, vars
<1>14. QED
  BY <1>6, <1>7, <1>8, <1>9, <1>10, <1>11, <1>12, <1>13 DEF Next, HandlerStep, NotFound

(* A category recorded as deleted stays gone, whoever else deletes it or   *)
(* moves something below it at the same time.                              *)
THEOREM DeletionIsFinal == Spec => []DeletedAreGone
<1>1. Init => TreeInv /\ DeleteInv
  BY DEF Init, TreeInv, ParentsExist, DeleteInv, Existing, Exists, Idle, State
<1>2. DeleteInv => DeletedAreGone
  BY DEF DeleteInv, DeletedAreGone, Gone
<1>3. QED
  BY <1>1, <1>2, TypeCorrect, AlwaysWorking, TreeInvStep, DeleteInvStep, PTL DEF Spec

---------------------------------------------------------------------------
(* A chain that visits a category twice has a shortcut.                    *)
LEMMA Shortcut ==
  ASSUME NEW p, NEW q, NEW n \in Nat, NEW path \in [1 .. n -> Existing],
         path[1] = p, path[n] = q, \A i \in 1 .. n - 1 : parent[path[i]] = path[i + 1],
         NEW i \in 1 .. n, NEW j \in 1 .. n, i < j, path[i] = path[j]
  PROVE  \E m \in 1 .. n - 1 : Chain(p, q, m)
<1> DEFINE m == n - (j - i)
           short == [k \in 1 .. m |-> IF k <= i THEN path[k] ELSE path[k + (j - i)]]
<1>1. m \in 1 .. n - 1 /\ i <= m
  OBVIOUS
<1>2. short \in [1 .. m -> Existing]
  <2>1. ASSUME NEW k \in 1 .. m PROVE short[k] \in Existing
    <3>1. CASE k <= i
      BY <1>1, <3>1
    <3>2. CASE ~ (k <= i)
      <4>1. k + (j - i) \in 1 .. n
        BY <1>1
      <4>2. QED
        BY <3>2, <4>1
    <3>3. QED
      BY <3>1, <3>2
  <2>2. QED
    BY <2>1
<1>3. short[1] = p
  BY <1>1
<1>4. short[m] = q
  <2>1. CASE m <= i
    <3>1. m = i /\ j = n
      BY <1>1, <2>1
    <3>2. QED
      BY <1>1, <3>1
  <2>2. CASE ~ (m <= i)
    <3>1. m + (j - i) = n
      OBVIOUS
    <3>2. short[m] = path[m + (j - i)]
      BY <1>1, <2>2
    <3>3. QED
      BY <3>1, <3>2
  <2>3. QED
    BY <2>1, <2>2
<1>5. ASSUME NEW k \in 1 .. m - 1 PROVE parent[short[k]] = short[k + 1]
  <2>1. k \in 1 .. m /\ k + 1 \in 1 .. m
    BY <1>1
  <2>2. CASE k < i
    <3>1. k \in 1 .. n - 1 /\ short[k] = path[k] /\ short[k + 1] = path[k + 1]
      BY <1>1, <2>1, <2>2
    <3>2. QED
      BY <3>1
  <2>3. CASE k = i
    <3>1. j \in 1 .. n - 1 /\ (k + 1) + (j - i) = j + 1
      BY <1>1, <2>3
    <3>2. short[k] = path[j] /\ short[k + 1] = path[j + 1]
      BY <2>1, <2>3, <3>1
    <3>3. QED
      BY <3>1, <3>2
  <2>4. CASE k > i
    <3>1. /\ k + (j - i) \in 1 .. n - 1
          /\ (k + 1) + (j - i) = (k + (j - i)) + 1
      BY <1>1, <2>1
    <3>2. short[k] = path[k + (j - i)] /\ short[k + 1] = path[(k + (j - i)) + 1]
      BY <2>1, <2>4, <3>1
    <3>3. QED
      BY <3>1, <3>2
  <2>5. QED
    BY <1>1, <2>2, <2>3, <2>4
<1> HIDE DEF short, m
<1>6. Chain(p, q, m)
  BY <1>2, <1>3, <1>4, <1>5 DEF Chain
<1>7. QED
  BY <1>1, <1>6

(* The rows the query visits lead nowhere but to each other and to the top.*)
Shallow == \A p \in Existing : \A c \in Up(p) : parent[c] \in Up(p) \cup {NoParent}

(* With at most MaxDepth categories the brake cuts nothing short: a chain  *)
(* longer than that visits some category twice.                            *)
LEMMA FewAreShallow ==
  ASSUME TypeOK, ParentsExist, FewCategories
  PROVE  Shallow
<1> SUFFICES ASSUME NEW p \in Existing, NEW c \in Up(p), parent[c] # NoParent
             PROVE  parent[c] \in Up(p)
  BY DEF Shallow
<1> DEFINE q == parent[c]
<1>1. q \in Existing
  <2>1. c \in Existing
    BY DEF Up
  <2>2. Exists(parent[c])
    BY <2>1 DEF ParentsExist
  <2>3. parent[c] \in Ids
    BY <2>1, TypeOK DEF TypeOK, Existing, Exists
  <2>4. QED
    BY <2>2, <2>3 DEF Existing
<1>2. PICK n \in 1 .. MaxDepth : Chain(p, c, n)
  BY DEF Up
<1>3. PICK path \in [1 .. n -> Existing] :
        /\ path[1] = p /\ path[n] = c
        /\ \A i \in 1 .. n - 1 : parent[path[i]] = path[i + 1]
  BY <1>2 DEF Chain
<1> DEFINE long == [i \in 1 .. n + 1 |-> IF i <= n THEN path[i] ELSE q]
<1>4. n \in Nat /\ 1 <= n /\ n <= MaxDepth /\ MaxDepth \in Nat
  BY <1>2, DepthPositive
<1> HIDE DEF q
<1>5. long \in [1 .. n + 1 -> Existing]
  BY <1>1, <1>3, <1>4
<1>6. long[1] = p /\ long[n + 1] = q
  BY <1>3, <1>4
<1>7. ASSUME NEW i \in 1 .. n PROVE parent[long[i]] = long[i + 1]
  <2>1. CASE i = n
    BY <1>3, <1>4, <2>1 DEF q
  <2>2. CASE i # n
    <3>1. i \in 1 .. n - 1 /\ long[i] = path[i] /\ long[i + 1] = path[i + 1]
      BY <1>4, <2>2
    <3>2. QED
      BY <1>3, <3>1
  <2>3. QED
    BY <2>1, <2>2
<1> HIDE DEF long
<1>8. \E m \in 1 .. MaxDepth : Chain(p, q, m)
  <2>1. CASE n < MaxDepth
    <3>1. Chain(p, q, n + 1)
      <4>1. (n + 1) - 1 = n
        BY <1>4
      <4>2. QED
        BY <1>5, <1>6, <1>7, <4>1 DEF Chain
    <3>2. QED
      BY <1>4, <2>1, <3>1
  <2>2. CASE n = MaxDepth
    <3>1. IsFiniteSet(1 .. n + 1) /\ Cardinality(1 .. n + 1) = n + 1
      BY <1>4, FS_Interval
    <3>2. IsFiniteSet(Existing) /\ Cardinality(Existing) <= MaxDepth
      BY DEF FewCategories
    <3>3. Cardinality(Existing) \in Nat
      BY <3>2, FS_CardinalityType
    <3>4. \E x, y \in 1 .. n + 1 : x # y /\ long[x] = long[y]
      BY <1>4, <1>5, <2>2, <3>1, <3>2, <3>3, FS_PigeonHole
    <3>5. PICK i \in 1 .. n + 1, j \in 1 .. n + 1 : i < j /\ long[i] = long[j]
      BY <1>4, <3>4
    <3>6. \A k \in 1 .. (n + 1) - 1 : parent[long[k]] = long[k + 1]
      BY <1>4, <1>7
    <3>7. n + 1 \in Nat
      BY <1>4
    <3>8. \E m \in 1 .. (n + 1) - 1 : Chain(p, q, m)
      BY <1>5, <1>6, <3>5, <3>6, <3>7, Shortcut
    <3>9. QED
      BY <1>4, <2>2, <3>8
  <2>3. QED
    BY <1>4, <2>1, <2>2
<1>9. QED
  BY <1>1, <1>8 DEF Up, q

---------------------------------------------------------------------------
(* What a check that is not outdated knows: the ancestors of the wanted    *)
(* parent, a set T closed under parents, do not include the category.      *)
Above(T, c, p) ==
  /\ T \in SUBSET Existing /\ c \notin T
  /\ p \in Existing => p \in T
  /\ \A d \in T : parent[d] \in T \cup {NoParent}
CheckInv ==
  \A h \in Handlers :
    handler[h].pc = "checked" /\ ~ handler[h].stale /\ handler[h].wanted # NoParent =>
      \E T : Above(T, handler[h].id, handler[h].wanted)

(* Where wouldCreateCycle finds nothing, all that is above the wanted      *)
(* parent lies apart from the category.                                    *)
LEMMA UpIsAbove ==
  ASSUME TypeOK, ParentsExist, FewCategories, NEW c, NEW p, ~ WouldCreateCycle(c, p)
  PROVE  \E T : Above(T, c, p)
<1>1. Up(p) \in SUBSET Existing /\ c \notin Up(p)
  BY DEF Up, WouldCreateCycle
<1>2. CASE p \in Existing
  <2>1. \A d \in Up(p) : parent[d] \in Up(p) \cup {NoParent}
    BY <1>2, FewAreShallow DEF Shallow
  <2>2. p \in Up(p)
    <3>1. [i \in 1 .. 1 |-> p] \in [1 .. 1 -> Existing]
      BY <1>2
    <3>2. Chain(p, p, 1)
      <4>1. 1 .. 1 - 1 = {} /\ [i \in 1 .. 1 |-> p][1] = p
        OBVIOUS
      <4>2. QED
        BY <3>1, <4>1 DEF Chain
    <3>3. 1 \in 1 .. MaxDepth
      BY DepthPositive
    <3>4. QED
      BY <1>2, <3>2, <3>3 DEF Up
  <2>3. QED
    BY <1>1, <2>1, <2>2 DEF Above
<1>3. CASE p \notin Existing
  <2>1. Above({}, c, p)
    BY <1>3 DEF Above
  <2>2. QED
    BY <2>1
<1>4. QED
  BY <1>2, <1>3

LEMMA CheckInvStep ==
  ASSUME TypeOK, Working, TreeInv, FewCategories, CheckInv, [Next]_vars
  PROVE  CheckInv'
<1>1. /\ handler \in [Handlers -> HandlerState]
      /\ parent \in [Ids -> Ids \cup {NoParent, Absent}]
  BY DEF TypeOK
<1> DEFINE Knows(s) == s.pc = "checked" /\ ~ s.stale /\ s.wanted # NoParent
           Fits(s) == Knows(s) => \E T : Above(T, s.id, s.wanted)
<1>2. \A h \in Handlers : Fits(handler[h])
  BY DEF CheckInv
<1>3. ASSUME UNCHANGED parent, \A h \in Handlers : Fits(handler'[h]) PROVE CheckInv'
  BY <1>3 DEF CheckInv, Above, Existing, Exists
<1>4. ASSUME NEW h \in Handlers, NEW s, ~ Knows(s), Continue(h, s, TRUE), s \in HandlerState
      PROVE  CheckInv'
  <2>1. /\ handler'[h] = s
        /\ \A k \in Handlers \ {h} : handler'[k] = Outdated(handler[k])
    BY <1>1, <1>4, ContinueStep
  <2>2. \A k \in Handlers : ~ Knows(handler'[k])
    BY <1>1, <1>4, <2>1, Updates
  <2>3. QED
    BY <2>2 DEF CheckInv
<1>5. ASSUME NEW h \in Handlers, NEW c \in Ids, NEW p \in Ids \cup {NoParent},
             CategoryCreate(h, c, p)
      PROVE  CheckInv'
  <2> DEFINE new == State("written", c, NoParent, "created", FALSE)
  <2>1. new \in HandlerState /\ ~ Knows(new)
    BY StateTyped DEF Actions, State
  <2>2. QED
    BY <1>4, <1>5, <2>1 DEF CategoryCreate
<1>6. ASSUME NEW h \in Handlers, UpdateParent(h) PROVE CheckInv'
  <2> DEFINE new == Goto(handler[h], "written")
  <2>1. new \in HandlerState /\ ~ Knows(new)
    BY <1>1, Updates
  <2>2. CASE Exists(handler[h].id)
    <3>1. Continue(h, new, TRUE)
      BY <1>6, <2>2 DEF UpdateParent, Continue
    <3>2. QED
      BY <1>4, <2>1, <3>1
  <2>3. CASE ~ Exists(handler[h].id)
    <3>1. Continue(h, new, FALSE) /\ UNCHANGED parent
      BY <1>6, <2>3 DEF UpdateParent, Continue
    <3> HIDE DEF new
    <3>2. /\ handler'[h] = new
          /\ \A k \in Handlers \ {h} : handler'[k] = handler[k]
      BY <1>1, <2>1, <3>1, ContinueStep
    <3> HIDE DEF Knows
    <3>3. \A k \in Handlers : Fits(handler'[k])
      BY <1>2, <2>1, <3>2
    <3> HIDE DEF Fits
    <3>4. QED
      BY <1>3, <3>1, <3>3
  <2>4. QED
    BY <2>2, <2>3
<1>7. ASSUME NEW h \in Handlers, CheckCycle(h) PROVE CheckInv'
  <2>1. Fits(Goto(handler[h], "checked")) \/ handler' = [handler EXCEPT ![h] = Idle]
    <3> SUFFICES ASSUME handler[h].wanted # NoParent, 
                        ~ WouldCreateCycle(handler[h].id, handler[h].wanted)
                 PROVE  \E T : Above(T, handler[h].id, handler[h].wanted)
      BY <1>1, <1>7, Updates DEF CheckCycle
    <3>1. QED
      BY UpIsAbove DEF TreeInv
  <2>2. /\ UNCHANGED parent
        /\ \/ handler' = [handler EXCEPT ![h] = Idle]
           \/ handler' = [handler EXCEPT ![h] = Goto(handler[h], "checked")]
    BY <1>7 DEF CheckCycle, Step
  <2>3. Fits(Idle)
    BY IdleTyped
  <2> HIDE DEF Fits
  <2>4. QED
    BY <1>1, <1>2, <1>3, <2>1, <2>2, <2>3
<1>8. ASSUME NEW h \in Handlers, DeleteCategory(h) PROVE CheckInv'
  <2>0. PICK gone : gone = handler[h].id
    OBVIOUS
  <2>1. /\ Children(gone) = {} /\ gone \in Ids
        /\ parent' = [parent EXCEPT ![gone] = Absent]
        /\ handler' = [handler EXCEPT ![h] = Goto(handler[h], "written")]
    BY <1>8, <2>0 DEF DeleteCategory, Step, Working
  <2>2. \A d \in Ids : parent'[d] = IF d = gone THEN Absent ELSE parent[d]
    BY <1>1, <2>1
  <2>3. Existing' = Existing \ {gone}
    BY <2>2 DEF Existing, Exists
  <2>4. ASSUME NEW c, NEW p, NEW T, Above(T, c, p) PROVE Above(T \ {gone}, c, p)'
    <3>1. T \ {gone} \in SUBSET Existing' /\ c \notin T \ {gone}
      BY <2>3, <2>4 DEF Above
    <3>2. p \in Existing' => p \in T \ {gone}
      BY <2>3, <2>4 DEF Above
    <3>3. ASSUME NEW d \in T \ {gone} PROVE parent'[d] \in (T \ {gone}) \cup {NoParent}
      <4>1. d \in Existing /\ parent[d] \in T \cup {NoParent} /\ parent[d] # gone
        BY <2>1, <2>4, <3>3 DEF Above, Children
      <4>2. QED
        BY <2>2, <3>3, <4>1 DEF Existing
    <3>4. QED
      BY <3>1, <3>2, <3>3 DEF Above
  <2>5. ~ Knows(Goto(handler[h], "written"))
    BY <1>1, Updates
  <2>6. \A k \in Handlers : Knows(handler'[k]) => handler'[k] = handler[k]
    <3> HIDE DEF Knows
    <3> QED
      BY <1>1, <2>1, <2>5
  <2>7. QED
    BY <1>2, <2>4, <2>6 DEF CheckInv
<1>9. ASSUME NEW h \in Handlers, NEW c \in Ids, NEW p \in Ids \cup {NoParent},
             \/ FindForUpdate(h, c, p)
             \/ CategorySetActive(h, c)
             \/ FindForDelete(h, c)
      PROVE  CheckInv'
  <2>1. UNCHANGED parent /\ \E s : s.pc # "checked" /\ handler' = [handler EXCEPT ![h] = s]
    BY <1>9 DEF FindForUpdate, CategorySetActive, FindForDelete, State
  <2>2. QED
    BY <1>1, <1>2, <1>3, <2>1
<1>10. ASSUME NEW h \in Handlers, Refuse(h) \/ Record(h) \/ RecordFails(h) PROVE CheckInv'
  <2>1. UNCHANGED parent /\ handler' = [handler EXCEPT ![h] = Idle]
    BY <1>10 DEF Refuse, Record, RecordFails
  <2>2. QED
    BY <1>1, <1>2, <1>3, <2>1, IdleTyped
<1>11. CASE UNCHANGED vars
  BY <1>2, <1>3, <1>11 DEF vars
<1>12. QED
  BY <1>5, <1>6, <1>7, <1>8, <1>9, <1>10, <1>11 DEF Next, HandlerStep, NotFound

LEMMA StaysAcyclicHolds ==
  ASSUME TypeOK, Working, TreeInv, CheckInv, [Next]_vars
  PROVE  StaysAcyclic
<1> SUFFICES ASSUME Acyclic, ~ StaleUpdate,
                    NEW S \in SUBSET Existing', S # {},
                    \A d \in S : parent'[d] \in S
             PROVE  FALSE
  BY DEF StaysAcyclic, Acyclic
<1>1. parent \in [Ids -> Ids \cup {NoParent, Absent}]
  BY DEF TypeOK
<1>2. ASSUME NEW R \in SUBSET Existing, R # {}, \A d \in R : parent[d] \in R PROVE FALSE
  BY <1>2 DEF Acyclic
<1>3. ASSUME NEW h \in Handlers, NEW c \in Ids, NEW p \in Ids \cup {NoParent},
             CategoryCreate(h, c, p)
      PROVE  FALSE
  <2>1. /\ p \in Parents /\ c \notin Existing
        /\ \A d \in Ids : parent'[d] = IF d = c THEN p ELSE parent[d]
    BY <1>1, <1>3 DEF CategoryCreate, TreeInv
  <2>2. S \in SUBSET (Existing \cup {c})
    BY <2>1 DEF Existing, Exists
  <2>3. \A d \in S \ {c} : parent'[d] = parent[d] /\ parent[d] # c
    BY <2>1, <2>2, NoneAreNotIds DEF TreeInv, ParentsExist, Existing
  <2>4. \A d \in S \ {c} : parent[d] \in S \ {c}
    BY <2>3
  <2>5. S \ {c} # {}
    <3>1. CASE c \in S
      BY <2>1, <3>1, NoneAreNotIds DEF Parents
    <3>2. CASE c \notin S
      BY <3>2
    <3>3. QED
      BY <3>1, <3>2
  <2>6. QED
    BY <1>2, <2>2, <2>4, <2>5
<1>4. ASSUME NEW h \in Handlers, UpdateParent(h), handler[h].id \in Ids,
             handler[h].wanted \in Ids \cup {NoParent}
      PROVE  FALSE
  <2>0. PICK c, p : c = handler[h].id /\ p = handler[h].wanted
    OBVIOUS
  <2>1. CASE c \in Existing
    <3>1. /\ p \in Parents
          /\ \A d \in Ids : parent'[d] = IF d = c THEN p ELSE parent[d]
      BY <1>1, <1>4, <2>0, <2>1 DEF UpdateParent, Existing
    <3>2. p # Absent
      BY <1>4, <2>0, NoneAreNotIds
    <3>3. Existing' = Existing
      BY <1>4, <2>0, <2>1, <3>1, <3>2 DEF Existing, Exists
    <3>4. c \in S
      <4>1. SUFFICES ASSUME c \notin S PROVE FALSE
        OBVIOUS
      <4>2. \A d \in S : parent[d] = parent'[d]
        BY <3>1, <3>3, <4>1 DEF Existing
      <4>3. QED
        BY <1>2, <3>3, <4>2
    <3>5. p \in S /\ p \in Existing /\ p # NoParent
      BY <2>0, <1>4, <3>1, <3>3, <3>4, NoneAreNotIds DEF Existing
    <3>6. handler[h].pc = "checked" /\ ~ handler[h].stale
      <4>1. handler'[h].pc = "written"
        <5>1. handler \in [Handlers -> HandlerState]
          BY DEF TypeOK
        <5>2. handler'[h] = Goto(handler[h], "written")
          BY <1>4 DEF UpdateParent, Continue
        <5>3. QED
          BY <5>1, <5>2, Updates
      <4>2. QED
        BY <1>4, <4>1 DEF UpdateParent, StaleUpdate
    <3>7. PICK T : Above(T, c, p)
      BY <2>0, <3>5, <3>6 DEF CheckInv
    <3>8. p \in S \cap T /\ S \cap T \in SUBSET Existing /\ c \notin S \cap T
      BY <3>3, <3>5, <3>7 DEF Above
    <3>9. ASSUME NEW d \in S \cap T PROVE parent[d] \in S \cap T
      <4>1. d \in Existing /\ d # c
        BY <3>8, <3>9
      <4>2. parent[d] = parent'[d]
        BY <3>1, <4>1 DEF Existing
      <4>3. parent[d] \in S /\ parent[d] \in T \cup {NoParent}
        BY <3>7, <3>9, <4>2 DEF Above
      <4>4. NoParent \notin S
        BY NoneAreNotIds DEF Existing
      <4>5. QED
        BY <4>3, <4>4
    <3>10. QED
      BY <1>2, <3>8, <3>9
  <2>2. CASE c \notin Existing
    <3>1. UNCHANGED parent
      BY <1>4, <2>0, <2>2 DEF UpdateParent, Existing
    <3>2. QED
      BY <1>2, <3>1 DEF Existing, Exists
  <2>3. QED
    BY <2>1, <2>2
<1>5. ASSUME NEW h \in Handlers, DeleteCategory(h), handler[h].id \in Ids PROVE FALSE
  <2>1. PICK c : c = handler[h].id
    OBVIOUS
  <2>2. \A d \in Ids : parent'[d] = IF d = c THEN Absent ELSE parent[d]
    BY <1>1, <1>5, <2>1 DEF DeleteCategory
  <2>3. S \in SUBSET Existing /\ c \notin S
    BY <2>2 DEF Existing, Exists
  <2>4. \A d \in S : parent[d] = parent'[d]
    BY <2>2, <2>3 DEF Existing
  <2>5. QED
    BY <1>2, <2>3, <2>4
<1>6. CASE UNCHANGED <<parent, used>>
  BY <1>2, <1>6 DEF Existing, Exists
<1>7. QED
  BY <1>3, <1>4, <1>5, <1>6, TreeStep

(* As long as the table holds no more categories than the recursive query  *)
(* looks at, an update closes a cycle only if another request created or   *)
(* moved a category after its wouldCreateCycle.                            *)
THEOREM ChecksThatAreFreshAreRight ==
  Spec /\ []FewCategories => OnlyStaleChecksCloseCycles
<1>1. Init => TreeInv /\ CheckInv
  BY DEF Init, TreeInv, ParentsExist, CheckInv, Existing, Exists, Idle, State
<1>2. TypeOK /\ Working /\ TreeInv /\ FewCategories /\ CheckInv /\ [Next]_vars => CheckInv'
  BY CheckInvStep
<1>3. TypeOK /\ Working /\ TreeInv /\ CheckInv /\ [Next]_vars => [StaysAcyclic]_vars
  BY StaysAcyclicHolds
<1>4. QED
  BY <1>1, <1>2, <1>3, TypeCorrect, AlwaysWorking, TreeInvStep, PTL
     DEF Spec, OnlyStaleChecksCloseCycles

---------------------------------------------------------------------------
(* Tables of any size.  A check that is not outdated still says what it    *)
(* said: nothing but a deletion came since, and deletions lengthen no      *)
(* chain.                                                                  *)
FreshChecks ==
  \A h \in Handlers :
    handler[h].pc = "checked" /\ ~ handler[h].stale /\ handler[h].wanted # NoParent =>
      ~ WouldCreateCycle(handler[h].id, handler[h].wanted)

(* Where rows only went away, the query finds no more than before.         *)
LEMMA FindsNoMore ==
  ASSUME NEW c, NEW p, Existing' \subseteq Existing,
         \A d \in Existing' : parent'[d] = parent[d], WouldCreateCycle(c, p)'
  PROVE  WouldCreateCycle(c, p)
<1>1. CASE c = p
  BY <1>1 DEF WouldCreateCycle
<1>2. CASE c \in Up(p)'
  <2>1. PICK n \in 1 .. MaxDepth : Chain(p, c, n)'
    BY <1>2 DEF Up
  <2>2. PICK path \in [1 .. n -> Existing'] :
          /\ path[1] = p /\ path[n] = c
          /\ \A i \in 1 .. n - 1 : parent'[path[i]] = path[i + 1]
    BY <2>1 DEF Chain
  <2>3. n \in Nat /\ c \in Existing
    BY <1>2, <2>1, DepthPositive DEF Up
  <2>4. path \in [1 .. n -> Existing] /\ \A i \in 1 .. n - 1 : parent[path[i]] = path[i + 1]
    <3>1. ASSUME NEW i \in 1 .. n - 1 PROVE parent[path[i]] = path[i + 1]
      <4>1. i \in 1 .. n
        BY <2>3
      <4>2. QED
        BY <2>2, <4>1
    <3>2. QED
      BY <2>2, <3>1
  <2>5. Chain(p, c, n)
    BY <2>2, <2>4 DEF Chain
  <2>6. QED
    BY <2>3, <2>5 DEF Up, WouldCreateCycle
<1>3. QED
  BY <1>1, <1>2 DEF WouldCreateCycle

LEMMA FreshChecksStep ==
  ASSUME TypeOK, Working, TreeInv, FreshChecks, [Next]_vars
  PROVE  FreshChecks'
<1>1. /\ handler \in [Handlers -> HandlerState]
      /\ parent \in [Ids -> Ids \cup {NoParent, Absent}]
  BY DEF TypeOK
<1> DEFINE Knows(s) == s.pc = "checked" /\ ~ s.stale /\ s.wanted # NoParent
           Fits(s) == Knows(s) => ~ WouldCreateCycle(s.id, s.wanted)
<1>2. \A h \in Handlers : Fits(handler[h])
  BY DEF FreshChecks
<1>3. ASSUME Existing' \subseteq Existing, \A d \in Existing' : parent'[d] = parent[d],
             \A h \in Handlers : Fits(handler'[h])
      PROVE  FreshChecks'
  BY <1>3, FindsNoMore DEF FreshChecks
<1>4. ASSUME NEW h \in Handlers, NEW s, ~ Knows(s), Continue(h, s, TRUE), s \in HandlerState
      PROVE  FreshChecks'
  <2>1. /\ handler'[h] = s
        /\ \A k \in Handlers \ {h} : handler'[k] = Outdated(handler[k])
    BY <1>1, <1>4, ContinueStep
  <2>2. \A k \in Handlers : ~ Knows(handler'[k])
    BY <1>1, <1>4, <2>1, Updates
  <2>3. QED
    BY <2>2 DEF FreshChecks
<1>5. ASSUME NEW h \in Handlers, NEW c \in Ids, NEW p \in Ids \cup {NoParent},
             CategoryCreate(h, c, p)
      PROVE  FreshChecks'
  <2> DEFINE new == State("written", c, NoParent, "created", FALSE)
  <2>1. new \in HandlerState /\ ~ Knows(new)
    BY StateTyped DEF Actions, State
  <2>2. QED
    BY <1>4, <1>5, <2>1 DEF CategoryCreate
<1>6. ASSUME NEW h \in Handlers, UpdateParent(h) PROVE FreshChecks'
  <2> DEFINE new == Goto(handler[h], "written")
  <2>1. new \in HandlerState /\ ~ Knows(new)
    BY <1>1, Updates
  <2>2. CASE Exists(handler[h].id)
    <3>1. Continue(h, new, TRUE)
      BY <1>6, <2>2 DEF UpdateParent, Continue
    <3>2. QED
      BY <1>4, <2>1, <3>1
  <2>3. CASE ~ Exists(handler[h].id)
    <3>1. Continue(h, new, FALSE) /\ UNCHANGED parent
      BY <1>6, <2>3 DEF UpdateParent, Continue
    <3> HIDE DEF new
    <3>2. /\ handler'[h] = new
          /\ \A k \in Handlers \ {h} : handler'[k] = handler[k]
      BY <1>1, <2>1, <3>1, ContinueStep
    <3> HIDE DEF Knows
    <3>3. \A k \in Handlers : Fits(handler'[k])
      BY <1>2, <2>1, <3>2
    <3> HIDE DEF Fits
    <3>4. Existing' = Existing /\ parent' = parent
      BY <3>1 DEF Existing, Exists
    <3>5. QED
      BY <1>3, <3>3, <3>4
  <2>4. QED
    BY <2>2, <2>3
<1>7. ASSUME NEW h \in Handlers, CheckCycle(h) PROVE FreshChecks'
  <2>1. Fits(Goto(handler[h], "checked")) \/ handler' = [handler EXCEPT ![h] = Idle]
    BY <1>1, <1>7, Updates DEF CheckCycle
  <2>2. /\ Existing' = Existing /\ parent' = parent
        /\ \/ handler' = [handler EXCEPT ![h] = Idle]
           \/ handler' = [handler EXCEPT ![h] = Goto(handler[h], "checked")]
    BY <1>7 DEF CheckCycle, Step, Existing, Exists
  <2>3. Fits(Idle)
    BY IdleTyped
  <2> HIDE DEF Fits
  <2>4. QED
    BY <1>1, <1>2, <1>3, <2>1, <2>2, <2>3
<1>8. ASSUME NEW h \in Handlers, DeleteCategory(h) PROVE FreshChecks'
  <2>1. /\ parent' = [parent EXCEPT ![handler[h].id] = Absent]
        /\ handler' = [handler EXCEPT ![h] = Goto(handler[h], "written")]
    BY <1>8 DEF DeleteCategory, Step
  <2>2. Existing' \subseteq Existing /\ \A d \in Existing' : parent'[d] = parent[d]
    BY <1>1, <2>1 DEF Existing, Exists
  <2>3. Fits(Goto(handler[h], "written"))
    BY <1>1, Updates
  <2> HIDE DEF Fits
  <2>4. QED
    BY <1>1, <1>2, <1>3, <2>1, <2>2, <2>3
<1>9. ASSUME NEW h \in Handlers, NEW s, Fits(s), UNCHANGED parent,
             handler' = [handler EXCEPT ![h] = s]
      PROVE  FreshChecks'
  <2>1. Existing' = Existing /\ parent' = parent
    BY <1>9 DEF Existing, Exists
  <2> HIDE DEF Fits
  <2>2. QED
    BY <1>1, <1>2, <1>3, <1>9, <2>1
<1>10. ASSUME NEW h \in Handlers, NEW c \in Ids, NEW p \in Ids \cup {NoParent},
             \/ FindForUpdate(h, c, p) \/ CategorySetActive(h, c) \/ FindForDelete(h, c)
      PROVE  FreshChecks'
  <2>1. \E s : Fits(s) /\ handler' = [handler EXCEPT ![h] = s] /\ UNCHANGED parent
    BY <1>10 DEF FindForUpdate, CategorySetActive, FindForDelete, State
  <2> HIDE DEF Fits
  <2>2. QED
    BY <1>9, <2>1
<1>11. ASSUME NEW h \in Handlers, Refuse(h) \/ Record(h) \/ RecordFails(h)
      PROVE  FreshChecks'
  <2>1. Fits(Idle) /\ handler' = [handler EXCEPT ![h] = Idle] /\ UNCHANGED parent
    BY <1>11, IdleTyped DEF Refuse, Record, RecordFails
  <2> HIDE DEF Fits
  <2>2. QED
    BY <1>9, <2>1
<1>12. CASE UNCHANGED vars
  <2>1. Existing' = Existing /\ parent' = parent /\ handler' = handler
    BY <1>12 DEF vars, Existing, Exists
  <2>2. QED
    BY <1>2, <1>3, <2>1
<1>13. QED
  BY <1>5, <1>6, <1>7, <1>8, <1>10, <1>11, <1>12 DEF Next, HandlerStep, NotFound

(* What Cycle says of its path, for any tree f.                            *)
Circle(f, S, n, path) ==
  /\ path \in [1 .. n -> S]
  /\ \A i, j \in 1 .. n : path[i] = path[j] => i = j
  /\ \A i \in 1 .. n - 1 : f[path[i]] = path[i + 1]
  /\ f[path[n]] = path[1]

(* A circle of categories can be read from any of them on.                 *)
LEMMA Rotate ==
  ASSUME NEW f, NEW S, NEW n, NEW path, NEW k,
         n \in Nat \ {0}, Circle(f, S, n, path), k \in 1 .. n
  PROVE  \E turned : Circle(f, S, n, turned) /\ turned[n] = path[k]
<1>0. /\ n \in Nat \ {0} /\ k \in 1 .. n /\ path \in [1 .. n -> S]
      /\ \A i, j \in 1 .. n : path[i] = path[j] => i = j
      /\ \A i \in 1 .. n - 1 : f[path[i]] = path[i + 1]
      /\ f[path[n]] = path[1]
  BY DEF Circle
<1> DEFINE at(i) == IF i + k <= n THEN i + k ELSE i + k - n
           turned == [i \in 1 .. n |-> path[at(i)]]
<1>1. \A i \in 1 .. n : at(i) \in 1 .. n
  BY <1>0
<1>2. turned \in [1 .. n -> S]
  BY <1>0, <1>1
<1>3. ASSUME NEW i \in 1 .. n, NEW j \in 1 .. n, turned[i] = turned[j] PROVE i = j
  <2>1. at(i) = at(j)
    BY <1>0, <1>1, <1>3
  <2>2. QED
    BY <1>0, <2>1
<1>4. ASSUME NEW i \in 1 .. n PROVE f[path[i]] = path[IF i = n THEN 1 ELSE i + 1]
  <2>1. CASE i = n
    BY <1>0, <2>1
  <2>2. CASE i # n
    <3>1. i \in 1 .. n - 1
      BY <1>0, <2>2
    <3>2. QED
      BY <1>0, <2>2, <3>1
  <2>3. QED
    BY <2>1, <2>2
<1>5. ASSUME NEW i \in 1 .. n - 1 PROVE f[turned[i]] = turned[i + 1]
  <2>1. i \in 1 .. n /\ i + 1 \in 1 .. n
    BY <1>0
  <2>2. at(i + 1) = IF at(i) = n THEN 1 ELSE at(i) + 1
    BY <1>0, <2>1
  <2>3. f[path[at(i)]] = path[at(i + 1)]
    BY <1>1, <1>4, <2>1, <2>2
  <2>4. QED
    BY <2>1, <2>3
<1>6. n \in 1 .. n /\ 1 \in 1 .. n /\ at(n) = k
  BY <1>0
<1>7. f[turned[n]] = turned[1]
  <2>1. at(1) = IF k = n THEN 1 ELSE k + 1
    BY <1>0, <1>6
  <2>2. f[path[k]] = path[at(1)]
    BY <1>0, <1>4, <2>1
  <2>3. turned[n] = path[k] /\ turned[1] = path[at(1)]
    BY <1>6
  <2>4. QED
    BY <2>2, <2>3
<1>8. turned[n] = path[k]
  BY <1>6
<1> HIDE DEF turned
<1>9. QED
  BY <1>2, <1>3, <1>5, <1>7, <1>8 DEF Circle

(* The circle is read from the wanted parent on; it ends with the category,*)
(* and up to there nothing was moved: the query had found it.              *)
LEMMA ShortCyclesNeedStaleChecks ==
  ASSUME TypeOK, Working, TreeInv, FreshChecks, [Next]_vars, ~ ShortCycle, ShortCycle'
  PROVE  StaleUpdate
<1> SUFFICES ASSUME ~ StaleUpdate PROVE FALSE
  OBVIOUS
<1>1. parent \in [Ids -> Ids \cup {NoParent, Absent}]
  BY DEF TypeOK
<1>2. PICK n \in 1 .. MaxDepth : Cycle(n)'
  BY DEF ShortCycle
<1>3. PICK path \in [1 .. n -> Existing'] :
        /\ \A i, j \in 1 .. n : path[i] = path[j] => i = j
        /\ \A i \in 1 .. n - 1 : parent'[path[i]] = path[i + 1]
        /\ parent'[path[n]] = path[1]
  BY <1>2 DEF Cycle
<1>4. n \in Nat \ {0} /\ n <= MaxDepth
  BY <1>2, DepthPositive
<1>5. ASSUME \A i \in 1 .. n : path[i] \in Existing /\ parent'[path[i]] = parent[path[i]]
      PROVE  FALSE
  <2>1. path \in [1 .. n -> Existing]
    BY <1>3, <1>5
  <2>2. \A i \in 1 .. n - 1 : parent[path[i]] = path[i + 1]
    <3>1. ASSUME NEW i \in 1 .. n - 1 PROVE parent[path[i]] = path[i + 1]
      <4>1. i \in 1 .. n
        BY <1>4
      <4>2. QED
        BY <1>3, <1>5, <4>1
    <3>2. QED
      BY <3>1
  <2>3. n \in 1 .. n
    BY <1>4
  <2>4. parent[path[n]] = path[1]
    BY <1>3, <1>5, <2>3
  <2>5. Cycle(n)
    BY <1>3, <2>1, <2>2, <2>4 DEF Cycle
  <2>6. QED
    BY <1>2, <2>5 DEF ShortCycle
<1>6. \A d \in Existing' : d \in Ids /\ parent'[d] # Absent
  BY DEF Existing, Exists
<1>7. \A i \in 1 .. n : path[i] \in Ids /\ path[i] \in Existing' /\ parent'[path[i]] \in Ids
  <2>1. ASSUME NEW i \in 1 .. n PROVE parent'[path[i]] \in {path[j] : j \in 1 .. n}
    <3>1. CASE i = n
      <4>1. 1 \in 1 .. n
        BY <1>4
      <4>2. QED
        BY <1>3, <3>1, <4>1
    <3>2. CASE i # n
      <4>1. i \in 1 .. n - 1 /\ i + 1 \in 1 .. n
        BY <1>4, <3>2
      <4>2. QED
        BY <1>3, <4>1
    <3>3. QED
      BY <3>1, <3>2
  <2>2. QED
    BY <1>3, <1>6, <2>1
<1>8. ASSUME NEW h \in Handlers, NEW c \in Ids, NEW p \in Ids \cup {NoParent},
             CategoryCreate(h, c, p)
      PROVE  FALSE
  <2>1. /\ p \in Parents /\ c \notin Existing /\ p # c
        /\ \A d \in Ids : parent'[d] = IF d = c THEN p ELSE parent[d]
    BY <1>1, <1>8, NoneAreNotIds DEF CategoryCreate, TreeInv, Parents
  <2>2. \A d \in Ids : parent'[d] # c
    <3>1. ASSUME NEW d \in Ids, parent'[d] = c PROVE FALSE
      <4>1. d # c /\ parent[d] = c
        BY <2>1, <3>1
      <4>2. d \in Existing
        BY <1>8, <4>1, NoneAreNotIds DEF Existing, Exists
      <4>3. QED
        BY <1>8, <2>1, <4>1, <4>2, NoneAreNotIds DEF TreeInv, ParentsExist, Existing
    <3>2. QED
      BY <3>1
  <2>3. ASSUME NEW i \in 1 .. n PROVE path[i] # c
    <3>1. CASE i = 1
      <4>1. n \in 1 .. n
        BY <1>4
      <4>2. QED
        BY <1>3, <1>7, <2>2, <3>1, <4>1
    <3>2. CASE i # 1
      <4>1. i - 1 \in 1 .. n - 1 /\ i - 1 \in 1 .. n /\ (i - 1) + 1 = i
        BY <1>4, <3>2
      <4>2. parent'[path[i - 1]] = path[i]
        BY <1>3, <4>1
      <4>3. QED
        BY <1>7, <2>2, <4>1, <4>2
    <3>3. QED
      BY <3>1, <3>2
  <2>4. ASSUME NEW i \in 1 .. n
        PROVE  path[i] \in Existing /\ parent'[path[i]] = parent[path[i]]
    <3>1. path[i] \in Ids /\ path[i] # c /\ parent'[path[i]] # Absent
      BY <1>6, <1>7, <2>3
    <3>2. QED
      BY <2>1, <3>1 DEF Existing, Exists
  <2>5. QED
    BY <1>5, <2>4
<1>9. ASSUME NEW h \in Handlers, DeleteCategory(h), handler[h].id \in Ids PROVE FALSE
  <2>1. parent' = [parent EXCEPT ![handler[h].id] = Absent]
    BY <1>9 DEF DeleteCategory
  <2>2. \A d \in Existing' : d \in Existing /\ parent'[d] = parent[d]
    BY <1>1, <2>1 DEF Existing, Exists
  <2>3. QED
    BY <1>5, <1>7, <2>2
<1>10. ASSUME NEW h \in Handlers, UpdateParent(h), handler[h].id \in Ids,
              handler[h].wanted \in Ids \cup {NoParent}
       PROVE  FALSE
  <2>0. PICK c, p : c = handler[h].id /\ p = handler[h].wanted
    OBVIOUS
  <2>1. CASE c \notin Existing
    <3>1. parent' = parent
      BY <1>10, <2>0, <2>1 DEF UpdateParent, Existing
    <3>2. \A d \in Existing' : d \in Existing /\ parent'[d] = parent[d]
      BY <3>1 DEF Existing, Exists
    <3>3. QED
      BY <1>5, <1>7, <3>2
  <2>2. CASE c \in Existing
    <3>1. \A d \in Ids : parent'[d] = IF d = c THEN p ELSE parent[d]
      BY <1>1, <1>10, <2>0, <2>2 DEF UpdateParent, Existing
    <3>2. \A d \in Existing' : d \in Existing
      BY <2>2, <3>1 DEF Existing, Exists
    <3>3. PICK k \in 1 .. n : path[k] = c
      <4>1. SUFFICES ASSUME \A k \in 1 .. n : path[k] # c PROVE FALSE
        OBVIOUS
      <4>2. QED
        BY <1>5, <1>7, <3>1, <3>2, <4>1
    <3>4. PICK turned \in [1 .. n -> Existing'] :
            /\ \A i, j \in 1 .. n : turned[i] = turned[j] => i = j
            /\ \A i \in 1 .. n - 1 : parent'[turned[i]] = turned[i + 1]
            /\ parent'[turned[n]] = turned[1] /\ turned[n] = c
      <4>1. PICK f, S : f = parent' /\ S = Existing'
        OBVIOUS
      <4>2. Circle(f, S, n, path)
        BY <1>3, <4>1 DEF Circle
      <4>3. PICK turned : Circle(f, S, n, turned) /\ turned[n] = path[k]
        BY <1>4, <3>3, <4>2, Rotate
      <4>4. /\ turned \in [1 .. n -> S]
            /\ \A i, j \in 1 .. n : turned[i] = turned[j] => i = j
            /\ \A i \in 1 .. n - 1 : f[turned[i]] = turned[i + 1]
            /\ f[turned[n]] = turned[1]
        BY <4>3 DEF Circle
      <4>5. /\ turned \in [1 .. n -> Existing']
            /\ \A i \in 1 .. n - 1 : parent'[turned[i]] = turned[i + 1]
            /\ parent'[turned[n]] = turned[1] /\ turned[n] = c
        BY <3>3, <4>1, <4>3, <4>4
      <4>6. QED
        BY <4>4, <4>5
    <3>5. n \in 1 .. n /\ 1 \in 1 .. n
      BY <1>4
    <3>6. turned[1] = p /\ p \in Ids
      <4>1. parent'[c] = p
        BY <1>10, <2>0, <3>1
      <4>2. turned[1] = p /\ turned[1] \in Existing'
        BY <3>4, <3>5, <4>1
      <4>3. QED
        BY <1>6, <4>2
    <3>7. turned \in [1 .. n -> Existing]
      BY <3>2, <3>4
    <3>8. ASSUME NEW i \in 1 .. n - 1 PROVE parent[turned[i]] = turned[i + 1]
      <4>1. i \in 1 .. n /\ i # n
        BY <1>4
      <4>2. turned[i] # c /\ turned[i] \in Ids
        BY <1>6, <3>4, <3>5, <4>1
      <4>3. QED
        BY <3>1, <3>4, <4>2
    <3>9. Chain(p, c, n)
      BY <3>4, <3>6, <3>7, <3>8 DEF Chain
    <3>10. WouldCreateCycle(c, p)
      BY <1>2, <2>2, <3>9 DEF WouldCreateCycle, Up
    <3>11. handler[h].pc = "checked" /\ ~ handler[h].stale
      <4>1. handler \in [Handlers -> HandlerState]
        BY DEF TypeOK
      <4>2. handler'[h] = Goto(handler[h], "written")
        BY <1>10 DEF UpdateParent, Continue
      <4>3. handler'[h].pc = "written"
        BY <4>1, <4>2, Updates
      <4>4. QED
        BY <1>10, <4>3 DEF UpdateParent, StaleUpdate
    <3>12. p # NoParent
      BY <3>6, NoneAreNotIds
    <3>13. QED
      BY <2>0, <3>10, <3>11, <3>12 DEF FreshChecks
  <2>3. QED
    BY <2>1, <2>2
<1>11. CASE UNCHANGED <<parent, used>>
  <2>1. \A d \in Existing' : d \in Existing /\ parent'[d] = parent[d]
    BY <1>11 DEF Existing, Exists
  <2>2. QED
    BY <1>5, <1>7, <2>1
<1>12. QED
  BY <1>8, <1>9, <1>10, <1>11, TreeStep

(* In a table of any size, the brake of the query lets through only cycles *)
(* of more categories than the rows it looks at; a shorter one needs an    *)
(* update that another write overtook.                                     *)
THEOREM BrakeMissesLongCyclesOnly == Spec => OnlyLongCyclesEscape
<1>1. Init => TreeInv /\ FreshChecks
  BY DEF Init, TreeInv, ParentsExist, FreshChecks, Existing, Exists, Idle, State
<1>2. TypeOK /\ Working /\ TreeInv /\ FreshChecks /\ [Next]_vars => FreshChecks'
  BY FreshChecksStep
<1>3. TypeOK /\ Working /\ TreeInv /\ FreshChecks /\ [Next]_vars
        => [~ ShortCycle => ~ ShortCycle' \/ StaleUpdate]_vars
  BY ShortCyclesNeedStaleChecks, Zenon
<1>4. QED
  BY <1>1, <1>2, <1>3, TypeCorrect, AlwaysWorking, TreeInvStep, PTL
     DEF Spec, OnlyLongCyclesEscape

---------------------------------------------------------------------------
(* Requests that are served one after the other.                           *)
OneAtATime ==
  \A h, k \in Handlers : handler[h].pc # "idle" /\ handler[k].pc # "idle" => h = k
NeverStale ==
  \A h \in Handlers : handler[h].pc \in {"found", "checked"} => ~ handler[h].stale

LEMMA NeverStaleStep ==
  ASSUME TypeOK, NeverStale, OneAtATime', [Next]_vars
  PROVE  NeverStale'
<1>1. handler \in [Handlers -> HandlerState]
  BY DEF TypeOK
<1>2. ASSUME NEW h \in Handlers, NEW s \in HandlerState, NEW moved \in BOOLEAN,
             s.pc = "written", Continue(h, s, moved)
      PROVE  NeverStale'
  <2>1. /\ handler'[h] = s
        /\ \A k \in Handlers \ {h} :
             handler'[k] = IF moved THEN Outdated(handler[k]) ELSE handler[k]
    BY <1>1, <1>2, ContinueStep
  <2>2. ASSUME NEW k \in Handlers \ {h} PROVE handler'[k].pc \notin {"found", "checked"}
    BY <1>2, <2>1 DEF OneAtATime
  <2>3. QED
    BY <1>2, <2>1, <2>2 DEF NeverStale
<1>3. ASSUME NEW h \in Handlers, NEW c \in Ids, NEW p \in Ids \cup {NoParent},
             CategoryCreate(h, c, p)
      PROVE  NeverStale'
  <2> DEFINE new == State("written", c, NoParent, "created", FALSE)
  <2>1. new \in HandlerState /\ new.pc = "written"
    BY StateTyped DEF Actions, State
  <2>2. Continue(h, new, TRUE)
    BY <1>3 DEF CategoryCreate
  <2> HIDE DEF new
  <2>3. QED
    BY <1>2, <2>1, <2>2
<1>4. ASSUME NEW h \in Handlers, UpdateParent(h) PROVE NeverStale'
  <2>1. /\ Goto(handler[h], "written") \in HandlerState
        /\ Goto(handler[h], "written").pc = "written" /\ Exists(handler[h].id) \in BOOLEAN
    BY <1>1, Updates DEF Exists
  <2>2. QED
    BY <1>2, <1>4, <2>1 DEF UpdateParent
<1>5. ASSUME NEW h \in Handlers, NEW s, s.pc \in {"found", "checked"} => ~ s.stale,
             handler' = [handler EXCEPT ![h] = s]
      PROVE  NeverStale'
  BY <1>1, <1>5 DEF NeverStale
<1>6. ASSUME NEW h \in Handlers, NEW c \in Ids, NEW p \in Ids \cup {NoParent},
             \/ FindForUpdate(h, c, p)
             \/ CategorySetActive(h, c)
             \/ FindForDelete(h, c)
      PROVE  NeverStale'
  BY <1>1, <1>6 DEF FindForUpdate, CategorySetActive, FindForDelete, NeverStale, State
<1>7. ASSUME NEW h \in Handlers, CheckCycle(h) PROVE NeverStale'
  <2>1. handler' = [handler EXCEPT ![h] = Idle]
        \/ handler' = [handler EXCEPT ![h] = Goto(handler[h], "checked")]
    BY <1>7 DEF CheckCycle, Step
  <2>2. ~ Goto(handler[h], "checked").stale
    BY <1>7 DEF CheckCycle, Goto, State, NeverStale
  <2>3. QED
    BY <1>1, <1>5, <2>1, <2>2, IdleTyped
<1>8. ASSUME NEW h \in Handlers, DeleteCategory(h) PROVE NeverStale'
  <2>1. Goto(handler[h], "written").pc = "written"
    BY DEF Goto, State
  <2>2. QED
    BY <1>5, <1>8, <2>1 DEF DeleteCategory, Step
<1>9. ASSUME NEW h \in Handlers, Refuse(h) \/ Record(h) \/ RecordFails(h) PROVE NeverStale'
  BY <1>5, <1>9, IdleTyped DEF Refuse, Record, RecordFails
<1>10. CASE UNCHANGED handler
  BY <1>10 DEF NeverStale
<1>11. QED
  BY <1>3, <1>4, <1>6, <1>7, <1>8, <1>9, <1>10 DEF Next, HandlerStep, NotFound, vars

(* Requests that are served one after the other leave no cycle, in however *)
(* many tabs they were sent: only the interleaving of two can.             *)
THEOREM OneAfterTheOtherLeavesNoCycle ==
  Spec /\ []FewCategories /\ []OneAtATime => []Acyclic
<1>1. Init => NeverStale /\ Acyclic
  BY DEF Init, NeverStale, Acyclic, Existing, Exists, Idle, State
<1>2. TypeOK /\ NeverStale /\ OneAtATime' /\ [Next]_vars => NeverStale'
  BY NeverStaleStep
<1>3. NeverStale /\ Acyclic /\ [StaysAcyclic]_vars => Acyclic'
  <2>1. NeverStale => ~ StaleUpdate
    BY DEF NeverStale, StaleUpdate
  <2>2. vars' = vars => (Acyclic => Acyclic')
    BY DEF vars, Acyclic, Existing, Exists
  <2>3. QED
    BY <2>1, <2>2 DEF StaysAcyclic
<1>4. QED
  BY <1>1, <1>2, <1>3, TypeCorrect, ChecksThatAreFreshAreRight, PTL
     DEF Spec, OnlyStaleChecksCloseCycles

---------------------------------------------------------------------------
(* The question wouldCreateCycle asks, and what it is asked for: whether   *)
(* the table would hold a cycle with the category below that parent.       *)
Cyclic(f) ==
  \E S \in SUBSET {d \in Ids : f[d] # Absent} : S # {} /\ \A d \in S : f[d] \in S

LEMMA AcyclicIs == Acyclic <=> ~ Cyclic(parent)
BY DEF Acyclic, Cyclic, Existing, Exists

(* What is found above the parent closes a cycle: the chain that leads to  *)
(* the category and from there back to the parent.                         *)
LEMMA FoundClosesCycle ==
  ASSUME TypeOK, NEW c \in Existing, NEW p \in Existing, WouldCreateCycle(c, p)
  PROVE  Cyclic([parent EXCEPT ![c] = p])
<1> DEFINE f == [parent EXCEPT ![c] = p]
<1>1. /\ c \in Ids /\ p \in Ids /\ Absent \notin Ids
      /\ \A d \in Ids : f[d] = IF d = c THEN p ELSE parent[d]
      /\ \A d \in Existing : d \in Ids /\ f[d] # Absent
  BY NoneAreNotIds DEF TypeOK, Existing, Exists
<1> HIDE DEF f
<1>2. CASE c = p
  <2>1. {c} \in SUBSET {d \in Ids : f[d] # Absent} /\ f[c] \in {c}
    BY <1>1, <1>2
  <2>2. QED
    BY <2>1 DEF Cyclic, f
<1>3. CASE c \in Up(p)
  <2>1. PICK n \in 1 .. MaxDepth : Chain(p, c, n)
    BY <1>3 DEF Up
  <2>2. PICK path \in [1 .. n -> Existing] :
          /\ path[1] = p /\ path[n] = c
          /\ \A i \in 1 .. n - 1 : parent[path[i]] = path[i + 1]
    BY <2>1 DEF Chain
  <2>3. n \in Nat /\ 1 \in 1 .. n
    BY <2>1, DepthPositive
  <2> DEFINE S == {path[i] : i \in 1 .. n}
  <2>4. S \in SUBSET {d \in Ids : f[d] # Absent} /\ p \in S
    BY <1>1, <2>2, <2>3
  <2>5. ASSUME NEW i \in 1 .. n PROVE f[path[i]] \in S
    <3>1. CASE path[i] = c
      BY <1>1, <2>4, <3>1
    <3>2. CASE path[i] # c
      <4>1. i \in 1 .. n - 1 /\ i + 1 \in 1 .. n
        BY <2>2, <2>3, <3>2
      <4>2. f[path[i]] = path[i + 1]
        BY <1>1, <2>2, <3>2, <4>1
      <4>3. QED
        BY <4>1, <4>2
    <3>3. QED
      BY <3>1, <3>2
  <2>6. QED
    BY <2>4, <2>5 DEF Cyclic, f
<1>4. QED
  BY <1>2, <1>3 DEF WouldCreateCycle

(* And where nothing is found, there is none.                              *)
LEMMA NothingIsMissed ==
  ASSUME TypeOK, ParentsExist, FewCategories, Acyclic,
         NEW c \in Existing, NEW p \in Existing,
         Cyclic([parent EXCEPT ![c] = p])
  PROVE  WouldCreateCycle(c, p)
<1> SUFFICES ASSUME ~ WouldCreateCycle(c, p) PROVE FALSE
  OBVIOUS
<1> DEFINE f == [parent EXCEPT ![c] = p]
<1>1. /\ c \in Ids /\ p \in Ids /\ Absent \notin Ids
      /\ \A d \in Ids : f[d] = IF d = c THEN p ELSE parent[d]
  BY NoneAreNotIds DEF TypeOK, Existing, Exists
<1>2. PICK S \in SUBSET {d \in Ids : f[d] # Absent} : S # {} /\ \A d \in S : f[d] \in S
  BY DEF Cyclic
<1> HIDE DEF f
<1>3. S \in SUBSET Existing
  BY <1>1, <1>2 DEF Existing, Exists
<1>4. ASSUME NEW R \in SUBSET Existing, R # {}, \A d \in R : parent[d] \in R PROVE FALSE
  BY <1>4 DEF Acyclic
<1>5. c \in S
  <2>1. SUFFICES ASSUME c \notin S PROVE FALSE
    OBVIOUS
  <2>2. \A d \in S : parent[d] \in S
    BY <1>1, <1>2, <2>1
  <2>3. QED
    BY <1>2, <1>3, <1>4, <2>2
<1>6. p \in S
  BY <1>1, <1>2, <1>5
<1>7. PICK T : Above(T, c, p)
  BY UpIsAbove
<1>8. p \in S \cap T /\ S \cap T \in SUBSET Existing /\ c \notin S \cap T
  BY <1>3, <1>6, <1>7 DEF Above
<1>9. ASSUME NEW d \in S \cap T PROVE parent[d] \in S \cap T
  <2>1. parent[d] = f[d]
    BY <1>1, <1>2, <1>8, <1>9
  <2>2. parent[d] \in S /\ parent[d] \in T \cup {NoParent}
    BY <1>2, <1>7, <1>9, <2>1 DEF Above
  <2>3. NoParent \notin S
    BY <1>2, NoneAreNotIds
  <2>4. QED
    BY <2>2, <2>3
<1>10. QED
  BY <1>4, <1>8, <1>9

(* The check is exact: it refuses a parent if and only if the update would *)
(* leave a cycle in the table as it is then.                               *)
ChecksAreExact ==
  Acyclic => \A c, p \in Existing :
               WouldCreateCycle(c, p) <=> Cyclic([parent EXCEPT ![c] = p])

THEOREM CycleChecksAreExact == Spec /\ []FewCategories => []ChecksAreExact
<1>1. TypeOK /\ ParentsExist /\ FewCategories => ChecksAreExact
  BY FoundClosesCycle, NothingIsMissed DEF ChecksAreExact
<1>2. QED
  BY <1>1, TypeCorrect, ForeignKeyHolds, PTL
=============================================================================
