---------------------------- MODULE CategoryTree ----------------------------
(***************************************************************************)
(* The category tree and the admin handlers that write it                  *)
(* (controllers/adminCatalogController.js, db/repositories/categories.js). *)
(* The table only forbids a category to be its own parent; longer cycles   *)
(* are looked for by wouldCreateCycle, in a query of its own before the    *)
(* UPDATE.  Handlers of several administrators (or of one with two tabs)   *)
(* interleave at every query.                                              *)
(*                                                                         *)
(* A form is reduced to the parent it asks for.  Names, slugs and the      *)
(* order of display do not shape the tree; a form they make unacceptable   *)
(* is Refuse.                                                              *)
(***************************************************************************)
EXTENDS Naturals, FiniteSets

CONSTANTS
  Ids,        \* identities the table hands out, each once
  Handlers,   \* admin requests served at once
  MaxDepth,   \* the brake of wouldCreateCycle: rows it looks at (100 in the code)
  NoParent,   \* parent_id IS NULL
  Absent      \* no row has this identity

ASSUME NoneAreNotIds == NoParent \notin Ids /\ Absent \notin Ids /\ NoParent # Absent
ASSUME DepthPositive == MaxDepth \in Nat \ {0}

VARIABLES
  parent,    \* categories.parent_id, or Absent
  used,      \* identities handed out so far
  handler,   \* the requests being served
  trail      \* admin_audit_log: the creations and deletions it holds

vars == <<parent, used, handler, trail>>

Actions == {"created", "changed", "deleted"}

(* stale: history, whether another request created or moved a category     *)
(* since this one looked for a cycle.                                      *)
HandlerState == [pc : {"idle", "found", "checked", "deleting", "written"},
                 id : Ids \cup {Absent}, wanted : Ids \cup {NoParent},
                 action : Actions, stale : BOOLEAN]

State(pc, c, p, done, stale) ==
  [pc |-> pc, id |-> c, wanted |-> p, action |-> done, stale |-> stale]
Idle == State("idle", Absent, NoParent, "created", FALSE)
Goto(s, pc) == State(pc, s.id, s.wanted, s.action, s.stale)

Exists(c)  == parent[c] # Absent
Existing   == {c \in Ids : Exists(c)}
Parents    == Existing \cup {NoParent}   \* what the foreign key accepts
Children(c) == {d \in Existing : parent[d] = c}

TypeOK ==
  /\ parent \in [Ids -> Ids \cup {NoParent, Absent}]
  /\ used \subseteq Ids
  /\ handler \in [Handlers -> HandlerState]
  /\ trail \subseteq {"created", "deleted"} \X Ids

Init ==
  /\ parent = [c \in Ids |-> Absent]
  /\ used = {}
  /\ handler = [h \in Handlers |-> Idle]
  /\ trail = {}

(* The rows the recursive query visits: p, its parent and so on, MaxDepth  *)
(* rows at most.                                                           *)
Chain(p, c, n) ==
  \E path \in [1 .. n -> Existing] :
    /\ path[1] = p /\ path[n] = c
    /\ \A i \in 1 .. n - 1 : parent[path[i]] = path[i + 1]

(* The brake stops the recursion one row too early.                        *)
UpOneRowLess(p) == {c \in Existing : \E n \in 1 .. MaxDepth - 1 : Chain(p, c, n)}

Up(p) == {c \in Existing : \E n \in 1 .. MaxDepth : Chain(p, c, n)}

(* Only the category itself is looked at.                                  *)
OwnParentOnly(c, p) == c = p

WouldCreateCycle(c, p) == c = p \/ c \in Up(p)

Outdated(s) ==
  IF s.pc = "checked" THEN State("checked", s.id, s.wanted, s.action, TRUE) ELSE s

(* Handler h goes on with s, having created or moved a category, or not.   *)
Continue(h, s, moved) ==
  handler' = [k \in Handlers |->
    IF k = h THEN s ELSE IF moved THEN Outdated(handler[k]) ELSE handler[k]]

Step(h, pc) == handler' = [handler EXCEPT ![h] = Goto(@, pc)]

(* The missing parent_id of the form becomes undefined, not null.          *)
CreateUndefined(h, c, p) ==
  /\ handler[h].pc = "idle" /\ c \notin used
  /\ p \in Parents
  /\ parent' = [parent EXCEPT ![c] = <<p>>]
  /\ used' = used \cup {c}
  /\ Continue(h, State("written", c, NoParent, "created", FALSE), TRUE)
  /\ UNCHANGED trail

---------------------------------------------------------------------------
(* categoryCreate: one INSERT.  A parent that is not there violates the    *)
(* foreign key; the form is shown again.                                   *)
CategoryCreate(h, c, p) ==
  /\ handler[h].pc = "idle" /\ c \notin used
  /\ p \in Parents
  /\ parent' = [parent EXCEPT ![c] = p]
  /\ used' = used \cup {c}
  /\ Continue(h, State("written", c, NoParent, "created", FALSE), TRUE)
  /\ UNCHANGED trail

(* categoryUpdate reads the category; the parent the form asks for need    *)
(* not be there (any more).                                                *)
FindForUpdate(h, c, p) ==
  /\ handler[h].pc = "idle"
  /\ Exists(c)
  /\ handler' = [handler EXCEPT ![h] = State("found", c, p, "changed", FALSE)]
  /\ UNCHANGED <<parent, used, trail>>

(* A parent that would close a cycle: the form is shown again.             *)
CheckCycle(h) ==
  LET c == handler[h].id   p == handler[h].wanted IN
  /\ handler[h].pc = "found"
  /\ IF p # NoParent /\ WouldCreateCycle(c, p)
       THEN handler' = [handler EXCEPT ![h] = Idle]
       ELSE Step(h, "checked")
  /\ UNCHANGED <<parent, used, trail>>

(* categories.update.  A parent that is gone violates the foreign key; a   *)
(* category that is gone is updated nowhere, and the handler goes on.      *)
UpdateParent(h) ==
  LET c == handler[h].id   p == handler[h].wanted IN
  /\ handler[h].pc = "checked"
  /\ Exists(c) => p \in Parents
  /\ parent' = IF Exists(c) THEN [parent EXCEPT ![c] = p] ELSE parent
  /\ Continue(h, Goto(handler[h], "written"), Exists(c))
  /\ UNCHANGED <<used, trail>>

(* categorySetActive: one UPDATE of is_active, which shapes no tree.       *)
CategorySetActive(h, c) ==
  /\ handler[h].pc = "idle" /\ Exists(c)
  /\ handler' = [handler EXCEPT ![h] = State("written", c, NoParent, "changed", FALSE)]
  /\ UNCHANGED <<parent, used, trail>>

(* categoryDelete reads the category and finds the deletion confirmed.     *)
FindForDelete(h, c) ==
  /\ handler[h].pc = "idle" /\ Exists(c)
  /\ handler' = [handler EXCEPT ![h] = State("deleting", c, NoParent, "deleted", FALSE)]
  /\ UNCHANGED <<parent, used, trail>>

(* The children are deleted along with their parent's entry.               *)
DeleteUnrestricted(h) ==
  /\ handler[h].pc = "deleting"
  /\ parent' = [parent EXCEPT ![handler[h].id] = Absent]
  /\ Step(h, "written")
  /\ UNCHANGED <<used, trail>>

(* The restriction stops the DELETE, and the handler overlooks it.         *)
DeleteIgnoringRestrict(h) ==
  LET c == handler[h].id IN
  /\ handler[h].pc = "deleting"
  /\ parent' = IF Children(c) = {} THEN [parent EXCEPT ![c] = Absent] ELSE parent
  /\ Step(h, "written")
  /\ UNCHANGED <<used, trail>>

(* categories.remove: ON DELETE RESTRICT refuses a category with children  *)
(* (Refuse); one that is gone already is no error.                         *)
DeleteCategory(h) ==
  LET c == handler[h].id IN
  /\ handler[h].pc = "deleting"
  /\ Children(c) = {}
  /\ parent' = [parent EXCEPT ![c] = Absent]
  /\ Step(h, "written")
  /\ UNCHANGED <<used, trail>>

(* The category of the address is not there: a redirect (not_found).       *)
NotFound(h) ==
  /\ handler[h].pc = "idle" /\ Existing # Ids
  /\ UNCHANGED vars

(* The form is invalid, a constraint refuses the write (slug taken, parent *)
(* gone, children or products left) or a query fails: nothing was written  *)
(* and nothing is recorded.                                                *)
Refuse(h) ==
  /\ handler[h].pc \in {"found", "checked", "deleting"}
  /\ handler' = [handler EXCEPT ![h] = Idle]
  /\ UNCHANGED <<parent, used, trail>>

(* The write is recorded and answered with a redirect.  Entries about other*)
(* changes are written alike, but nothing here reads them.                 *)
Record(h) ==
  LET done == handler[h].action IN
  /\ handler[h].pc = "written"
  /\ trail' = IF done = "changed" THEN trail ELSE trail \cup {<<done, handler[h].id>>}
  /\ handler' = [handler EXCEPT ![h] = Idle]
  /\ UNCHANGED <<parent, used>>

(* audit.record swallows its own failure: the answer is the same.  A       *)
(* process that dies here leaves the same behind.                          *)
RecordFails(h) ==
  /\ handler[h].pc = "written"
  /\ handler' = [handler EXCEPT ![h] = Idle]
  /\ UNCHANGED <<parent, used, trail>>

HandlerStep(h) ==
  \/ \E c \in Ids, p \in Ids \cup {NoParent} : CategoryCreate(h, c, p)
  \/ \E c \in Ids, p \in Ids \cup {NoParent} : FindForUpdate(h, c, p)
  \/ CheckCycle(h)
  \/ UpdateParent(h)
  \/ \E c \in Ids : CategorySetActive(h, c) \/ FindForDelete(h, c)
  \/ DeleteCategory(h)
  \/ NotFound(h) \/ Refuse(h)
  \/ Record(h) \/ RecordFails(h)

Next == \E h \in Handlers : HandlerStep(h)

Spec == Init /\ [][Next]_vars

---------------------------------------------------------------------------
(* A parent that is set is there: no order of creating, moving and         *)
(* deleting leaves a category below one that is gone.                      *)
ParentsExist == \A c \in Existing : parent[c] = NoParent \/ Exists(parent[c])

(* No category is among its own ancestors: every set of categories has one *)
(* whose parent is outside.                                                *)
Acyclic == \A S \in SUBSET Existing : S # {} => \E c \in S : parent[c] \notin S

(* n categories in a circle: each is the parent of the one before.         *)
Cycle(n) ==
  \E path \in [1 .. n -> Existing] :
    /\ \A i, j \in 1 .. n : path[i] = path[j] => i = j
    /\ \A i \in 1 .. n - 1 : parent[path[i]] = path[i + 1]
    /\ parent[path[n]] = path[1]
ShortCycle == \E n \in 1 .. MaxDepth : Cycle(n)

(* No more categories than rows the query looks at.                        *)
FewCategories == IsFiniteSet(Existing) /\ Cardinality(Existing) <= MaxDepth

(* Where there are no more categories than rows the query looks at, an     *)
(* update closes a cycle only if another request created or moved a        *)
(* category between its wouldCreateCycle and its UPDATE: the check is      *)
(* right, only its age can be wrong (adminCatalogController.js:413 against *)
(* :425).                                                                  *)
StaleUpdate ==
  \E h \in Handlers : /\ handler[h].pc = "checked" /\ handler[h].stale
                      /\ handler'[h].pc = "written"
StaysAcyclic == Acyclic => Acyclic' \/ StaleUpdate
OnlyStaleChecksCloseCycles == [][StaysAcyclic]_vars

(* The brake of wouldCreateCycle (categories.js:138) lets through cycles   *)
(* of more categories than the rows it looks at, and no others: in a table *)
(* of any size and depth, whatever it holds already, an update that        *)
(* nothing overtook closes no cycle of up to MaxDepth categories.          *)
OnlyLongCyclesEscape == [][~ ShortCycle => ~ ShortCycle' \/ StaleUpdate]_vars

(* A category recorded as deleted is gone, also when two requests delete   *)
(* it, or a third moves something below it meanwhile.                      *)
DeletedAreGone == \A c \in Ids : <<"deleted", c>> \in trail => ~ Exists(c)
=============================================================================
