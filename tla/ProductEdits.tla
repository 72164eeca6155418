---------------------------- MODULE ProductEdits ----------------------------
(***************************************************************************)
(* What an admin's requests do to the rows of products: the form and its   *)
(* validation (services/validate.js, catalogAdminForm.js), the constraints *)
(* of the table it repeats (migrations/002_catalog.sql), and the names of  *)
(* the changed fields that go into the trail.                              *)
(*                                                                         *)
(* Handlers of several requests interleave at every await.  The trail only *)
(* grows and no handler reads it, so the entry a handler is about to write *)
(* stands for it.  Names, texts and references are left out: validation    *)
(* bounds their length only, and the fields kept here are compared alike.  *)
(***************************************************************************)
EXTENDS Integers

CONSTANTS
  Products,    \* ids of products, never used twice
  Handlers,    \* request handlers that can be running at once
  Bodies,      \* what the product form can send
  MoneyMax, StockMax, WeightMax,  \* LIMITS
  BigintMax, IntegerMax,          \* what the columns hold
  Null,        \* SQL's NULL, and a field left blank
  Text,        \* what is typed into a numeric field and is not an integer
  Specs,       \* specs as the form's rows spell them, one key after another
  Canonical,   \* the order of the keys in which a JSONB column returns them
  Absent       \* no such row

ASSUME CanonicalStays ==
  /\ Canonical \in [Specs -> Specs]
  /\ \A s \in Specs : Canonical[Canonical[s]] = Canonical[s]
ASSUME LimitsFit ==
  /\ MoneyMax \in Nat /\ StockMax \in Nat /\ WeightMax \in Nat
  /\ BigintMax \in Nat /\ IntegerMax \in Nat
  /\ MoneyMax <= BigintMax /\ StockMax <= IntegerMax /\ WeightMax <= IntegerMax

VARIABLES
  row,      \* products: the row of an id, or Absent
  used,     \* ids handed out so far
  handler,  \* where each handler stands
  lost,     \* handlers whose row another one deleted before their statement
  empty     \* handlers whose statement changed no row

vars == <<row, used, handler, lost, empty>>

Availabilities == {"in_stock", "out_of_stock", "on_order", "discontinued"}
Fields == {"priceToman", "salePriceToman", "stockQty", "availability",
           "weightGrams", "specs", "isActive"}

Number == Int \cup {Null, Text}
Form == [priceToman : Number, salePriceToman : Number, stockQty : Number,
         weightGrams : Number, availability : Availabilities \cup {Null, Text},
         specs : Specs, isActive : BOOLEAN]
ASSUME BodiesAreForms == \A body \in Bodies : body \in Form
ASSUME AbsentIsNoForm == Absent \notin Form
ASSUME NoNumbers == Null \notin Int /\ Text \notin Int /\ Null # Text

---------------------------------------------------------------------------
(* services/validate.js and parseProductForm                               *)

(* integer() of what may be blank, and of what is required.                *)
NumberError(raw, min, max) ==
  \/ raw = Text
  \/ raw \notin {Null, Text} /\ (raw < min \/ raw > max)
RequiredError(raw, min, max) == raw = Null \/ NumberError(raw, min, max)
NumberOf(raw) == IF raw = Text THEN Null ELSE raw

(* The sale price may equal the price.                                     *)
SaleNotAbove(sale, price) == sale # Null /\ price # Null /\ sale > price

(* There is a message: the sale price is not below the price.              *)
salePriceRule(sale, price) == sale # Null /\ price # Null /\ sale >= price

(* The fields of a body with an error message.                             *)
HasError(body, f) ==
  \/ /\ f = "priceToman"
     /\ RequiredError(body.priceToman, 0, MoneyMax)
  \/ /\ f = "salePriceToman"
     /\ \/ NumberError(body.salePriceToman, 0, MoneyMax)
        \/ salePriceRule(NumberOf(body.salePriceToman), NumberOf(body.priceToman))
  \/ f = "stockQty" /\ RequiredError(body.stockQty, 0, StockMax)
  \/ f = "weightGrams" /\ NumberError(body.weightGrams, 1, WeightMax)
  \/ f = "availability" /\ body.availability \notin Availabilities

Errors(body) == {f \in Fields : HasError(body, f)}

---------------------------------------------------------------------------
(* The constraints of the table and the width of its columns.              *)
Fits(v) ==
  /\ v.priceToman \in 0 .. BigintMax
  /\ v.salePriceToman = Null
     \/ v.salePriceToman \in 0 .. v.priceToman - 1
  /\ v.stockQty \in 0 .. IntegerMax
  /\ v.weightGrams = Null \/ v.weightGrams \in 1 .. IntegerMax
  /\ v.availability \in Availabilities

(* What a row holds once a form was written to it.                         *)
Stored(v) == [v EXCEPT !.specs = Canonical[@]]

(* A NULL on either side is taken for no difference, or for one.           *)
SameIfEitherNull(a, b) == a = Null \/ b = Null \/ a = b
SameIfNeitherNull(a, b) == a # Null /\ b # Null /\ a = b

(* specs are compared by their JSON text, in which keys have an order.     *)
sameValue(a, b) == a = b

(* changedFields: the names of the fields that differ.                     *)
changedFields(previous, values) ==
  {f \in Fields : ~ sameValue(previous[f], values[f])}

---------------------------------------------------------------------------
(* What a handler keeps: the id, the values of its form, the fields its    *)
(* entry will name, those it changed without naming them, and whether      *)
(* another write came between its findById and its UPDATE.                 *)
State(pc, id, values, fields, unnamed, overtaken) ==
  [pc |-> pc, id |-> id, values |-> values, fields |-> fields,
   unnamed |-> unnamed, overtaken |-> overtaken]
Idle == State("idle", Absent, Absent, {}, {}, FALSE)

HandlerState ==
  [pc : {"idle", "creating", "updating", "deleting", "written"},
   id : Products \cup {Absent}, values : Form \cup {Absent},
   fields : SUBSET Fields, unnamed : SUBSET Fields, overtaken : BOOLEAN]

Exists(p) == row[p] # Absent

TypeOK ==
  /\ row \in [Products -> Form \cup {Absent}]
  /\ used \in SUBSET Products
  /\ handler \in [Handlers -> HandlerState]
  /\ lost \in SUBSET Handlers /\ empty \in SUBSET Handlers
  /\ \A p \in Products : Exists(p) => p \in used /\ Fits(row[p]) /\ Stored(row[p]) = row[p]
  /\ \A h \in Handlers :
       /\ handler[h].pc \in {"creating", "updating"} => handler[h].values # Absent
       /\ handler[h].pc \in {"updating", "deleting", "written"} => handler[h].id \in used

Init ==
  /\ row = [p \in Products |-> Absent]
  /\ used = {}
  /\ handler = [h \in Handlers |-> Idle]
  /\ lost = {} /\ empty = {}

(* The other handlers that hold an answer about p when h writes it.        *)
Overtake(g, p) ==
  LET s == handler[g] IN
  IF s.pc = "updating" /\ s.id = p
    THEN State("updating", p, s.values, s.fields, s.unnamed, TRUE) ELSE s

(* The handlers that found p and did not come to their statement yet.      *)
Finders(p) ==
  {g \in Handlers : handler[g].pc \in {"updating", "deleting"} /\ handler[g].id = p}

(* h writes v to p, or to no row if v is Absent; the entry will name       *)
(* fields either way.                                                      *)
Write(h, p, v, fields) ==
  /\ row' = [row EXCEPT ![p] = v]
  /\ handler' = [g \in Handlers |->
       IF g = h
         THEN State("written", p, Absent, fields,
                    {f \in Fields \ fields : Exists(p) /\ row[p][f] # v[f]},
                    handler[h].overtaken)
         ELSE Overtake(g, p)]
  /\ empty' = IF v = Absent THEN empty \cup {h} ELSE empty
  /\ UNCHANGED <<used, lost>>

---------------------------------------------------------------------------
(* productCreate: a form with errors is shown again.  A good one goes on   *)
(* to the name of its brand, which create waits for.                       *)
StartCreate(h, body) ==
  /\ handler[h] = Idle
  /\ Errors(body) = {}
  /\ handler' = [handler EXCEPT ![h] = State("creating", Absent, body, {}, {}, FALSE)]
  /\ UNCHANGED <<row, used, lost, empty>>

(* INSERT; the entry names every field.                                    *)
Create(h, p) ==
  /\ handler[h].pc = "creating" /\ p \notin used
  /\ Fits(handler[h].values)
  /\ row' = [row EXCEPT ![p] = Stored(handler[h].values)]
  /\ used' = used \cup {p}
  /\ handler' = [handler EXCEPT ![h] = State("written", p, Absent, Fields, {}, FALSE)]
  /\ UNCHANGED <<lost, empty>>

(* productUpdate finds the row, validates the form and compares the two;   *)
(* then update waits for the name of the brand.                            *)
FindForUpdate(h, p, body) ==
  /\ handler[h] = Idle /\ Exists(p)
  /\ Errors(body) = {}
  /\ handler' = [handler EXCEPT ![h] =
       State("updating", p, body, changedFields(row[p], body), {}, FALSE)]
  /\ UNCHANGED <<row, used, lost, empty>>

(* The statement writes the row whether it is there or not.                *)
UpdateUpserting(h) ==
  LET s == handler[h] IN
  /\ s.pc = "updating" /\ Fits(s.values)
  /\ Write(h, s.id, Stored(s.values), s.fields)

(* The UPDATE of every column.  If the row is gone it changes nothing, and *)
(* the controller does not look at that.                                   *)
Update(h) ==
  LET s == handler[h] IN
  /\ s.pc = "updating"
  /\ Exists(s.id) => Fits(s.values)
  /\ Write(h, s.id, IF Exists(s.id) THEN Stored(s.values) ELSE Absent, s.fields)

(* productSetActive                                                        *)
SetActive(h, p, wanted) ==
  /\ handler[h] = Idle /\ Exists(p)
  /\ Write(h, p, [row[p] EXCEPT !.isActive = wanted], {"isActive"})

(* productStock: a blank availability leaves the stored one.               *)
Stock(h, p, qty, availability) ==
  /\ handler[h] = Idle /\ Exists(p)
  /\ ~ RequiredError(qty, 0, StockMax)
  /\ availability \in Availabilities \cup {Null}
  /\ LET v == [row[p] EXCEPT !.stockQty = qty,
                   !.availability = IF availability = Null THEN @ ELSE availability]
     IN Fits(v) /\ Write(h, p, v, {"stockQty", "availability"})

(* The row is not looked for.                                              *)
FindNothing(h, p) ==
  /\ handler[h] = Idle
  /\ handler' = [handler EXCEPT ![h] = State("deleting", p, Absent, {}, {}, FALSE)]
  /\ UNCHANGED <<row, used, lost, empty>>

(* productDelete with the box ticked finds the row ...                     *)
FindForDelete(h, p) ==
  /\ handler[h] = Idle /\ Exists(p)
  /\ handler' = [handler EXCEPT ![h] = State("deleting", p, Absent, {}, {}, FALSE)]
  /\ UNCHANGED <<row, used, lost, empty>>

(* ... and deletes it; whether there was still one is not looked at.       *)
Delete(h) ==
  LET p == handler[h].id IN
  /\ handler[h].pc = "deleting"
  /\ row' = [row EXCEPT ![p] = Absent]
  /\ handler' = [g \in Handlers |->
       IF g = h THEN State("written", p, Absent, {}, {}, FALSE) ELSE Overtake(g, p)]
  /\ lost' = IF Exists(p) THEN lost \cup (Finders(p) \ {h}) ELSE lost
  /\ empty' = IF Exists(p) THEN empty ELSE empty \cup {h}
  /\ UNCHANGED used

End(h) ==
  /\ handler' = [handler EXCEPT ![h] = Idle]
  /\ lost' = lost \ {h} /\ empty' = empty \ {h}
  /\ UNCHANGED <<row, used>>

(* The trail gets its entry, or audit.record swallows that it does not;    *)
(* the admin reads of a success.                                           *)
Record(h) == handler[h].pc = "written" /\ End(h)

(* A duplicate slug or code, a missing category or brand, a statement that *)
(* fails: the form comes back, or an error page.                           *)
Refuse(h) == handler[h].pc \in {"creating", "updating", "deleting"} /\ End(h)

HandlerStep(h) ==
  \/ \E body \in Bodies : StartCreate(h, body)
  \/ \E p \in Products : Create(h, p)
  \/ \E p \in Products, body \in Bodies : FindForUpdate(h, p, body)
  \/ Update(h)
  \/ \E p \in Products, wanted \in BOOLEAN : SetActive(h, p, wanted)
  \/ \E p \in Products, body \in Bodies :
       Stock(h, p, body.stockQty, body.availability)
  \/ \E p \in Products : FindForDelete(h, p)
  \/ Delete(h) \/ Record(h) \/ Refuse(h)

Next == \E h \in Handlers : HandlerStep(h)

Spec == Init /\ [][Next]_vars

---------------------------------------------------------------------------
(* The comment at validate.js:14-16: validation repeats the constraints of *)
(* the table, so that no form it accepts is answered with the database's   *)
(* vague message about a constraint (check_failed, catalogAdminForm.js:218)*)
(* or an overflow.                                                         *)
AcceptedFits ==
  \A h \in Handlers :
    handler[h].pc \in {"creating", "updating"} => Fits(handler[h].values)

(* README.md:106-108: the entry of a write names the fields it changed.  A *)
(* form that undoes what another admin changed since it was loaded does    *)
(* not do so silently.  Only a write between findById and the UPDATE of    *)
(* one request (adminCatalogController.js:226, :238) escapes the entry.    *)
EntryNamesChanges ==
  \A h \in Handlers :
    handler[h].pc = "written" /\ ~ handler[h].overtaken =>
      handler[h].unnamed = {}

(* An update's entry will name nothing that its UPDATE does not change     *)
(* ("only the names of changed fields", catalogAdminForm.js:161), except   *)
(* specs whose rows were typed in another order than JSONB keeps           *)
(* (catalogAdminForm.js:153-155).                                          *)
EntryNamesOnlyChanges ==
  \A h \in Handlers :
    handler[h].pc = "updating" /\ ~ handler[h].overtaken =>
      \A f \in handler[h].fields :
        \/ row[handler[h].id][f] # Stored(handler[h].values)[f]
        \/ f = "specs" /\ Stored(handler[h].values) # handler[h].values

(* Entry and success message of an update or a deletion are false -- its   *)
(* statement changed no row (adminCatalogController.js:237-244, :309-319)  *)
(* -- when another request deleted the row after this one had found it,    *)
(* and only then: of several deletions of a product one is true, and no    *)
(* late update brings the row back.                                        *)
EmptyWritesHaveCause ==
  \A h \in Handlers :
    handler[h].pc = "written" => (h \in empty <=> h \in lost)

(* README.md:92-95: deletion is for ever.  An update that found the row    *)
(* before (adminCatalogController.js:226) does not bring it back, and ids  *)
(* are not used again.                                                     *)
GoneStaysGone ==
  [][\A p \in Products : p \in used /\ ~ Exists(p) => row'[p] = Absent]_vars
=============================================================================
