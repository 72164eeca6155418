------------------------- MODULE ProductEditsProofs -------------------------
(* What ProductEdits promises for any forms, limits that fit the columns,  *)
(* any number of products and of requests at once.                         *)
EXTENDS ProductEdits, TLAPS

(* What integer() lets through is blank or in bounds.                      *)
LEMMA NumberInBounds ==
  ASSUME NEW raw \in Number, NEW min \in Int, NEW max \in Int,
         ~ NumberError(raw, min, max)
  PROVE  raw \in min .. max \/ raw = Null
  BY DEF NumberError, Number

(* Whatever the form: no error message, no constraint broken.              *)
LEMMA AcceptedFormsFit ==
  ASSUME NEW body \in Form, Errors(body) = {}
  PROVE  Fits(body)
<1>1. \A f \in Fields : ~ HasError(body, f)
  BY DEF Errors
<1>2. /\ body.priceToman \in Number /\ body.salePriceToman \in Number
      /\ body.stockQty \in Number /\ body.weightGrams \in Number
  BY DEF Form
<1>3. body.priceToman \in 0 .. MoneyMax
  <2>1. body.priceToman # Null /\ ~ NumberError(body.priceToman, 0, MoneyMax)
    BY <1>1 DEF Fields, HasError, RequiredError
  <2>2. QED
    BY <2>1, <1>2, NumberInBounds, LimitsFit
<1>4. body.stockQty \in 0 .. StockMax
  <2>1. body.stockQty # Null /\ ~ NumberError(body.stockQty, 0, StockMax)
    BY <1>1 DEF Fields, HasError, RequiredError
  <2>2. QED
    BY <2>1, <1>2, NumberInBounds, LimitsFit
<1>5. body.weightGrams = Null \/ body.weightGrams \in 1 .. WeightMax
  <2>1. ~ NumberError(body.weightGrams, 1, WeightMax)
    BY <1>1 DEF Fields, HasError, RequiredError
  <2>2. QED
    BY <2>1, <1>2, NumberInBounds, LimitsFit
<1>6. body.availability \in Availabilities
  BY <1>1 DEF Fields, HasError
<1>7. body.salePriceToman = Null \/ body.salePriceToman \in 0 .. body.priceToman - 1
  <2>1. /\ ~ NumberError(body.salePriceToman, 0, MoneyMax)
        /\ ~ salePriceRule(NumberOf(body.salePriceToman), NumberOf(body.priceToman))
    BY <1>1 DEF Fields, HasError
  <2>2. body.salePriceToman = Null \/ body.salePriceToman \in 0 .. MoneyMax
    BY <2>1, <1>2, NumberInBounds, LimitsFit
  <2>3. QED
    BY <2>1, <2>2, <1>3, NoNumbers, LimitsFit DEF NumberOf, salePriceRule
<1>8. QED
  BY <1>3, <1>4, <1>5, <1>6, <1>7, LimitsFit DEF Fits

(* Storing a form changes nothing but the order of its specs, and that     *)
(* only once.                                                              *)
LEMMA StoredForm ==
  ASSUME NEW v \in Form
  PROVE  /\ Stored(v) \in Form
         /\ Stored(v).specs = Canonical[v.specs]
         /\ \A f \in Fields \ {"specs"} : Stored(v)[f] = v[f]
         /\ Stored(Stored(v)) = Stored(v)
         /\ Fits(v) => Fits(Stored(v))
<1>1. v.specs \in Specs /\ Canonical[v.specs] \in Specs
  BY CanonicalStays DEF Form
<1>2. PICK w \in Form : w = Stored(v)
  BY <1>1 DEF Stored, Form
<1>3. /\ w.priceToman = v.priceToman /\ w.salePriceToman = v.salePriceToman
      /\ w.stockQty = v.stockQty /\ w.weightGrams = v.weightGrams
      /\ w.availability = v.availability /\ w.isActive = v.isActive
      /\ w.specs = Canonical[v.specs]
  BY <1>2 DEF Stored, Form
<1>4. \A f \in Fields \ {"specs"} : w[f] = v[f]
  BY <1>3 DEF Fields
<1>5. Stored(w) = w
  <2>1. Canonical[w.specs] = w.specs
    BY <1>1, <1>3, CanonicalStays
  <2>2. QED
    BY <2>1 DEF Stored, Form
<1>6. Fits(v) => Fits(w)
  BY <1>3 DEF Fits
<1>7. QED
  BY <1>2, <1>3, <1>4, <1>5, <1>6

(* What a row with other specs left alone still is: stored.                *)
LEMMA SpecsKept ==
  ASSUME NEW v \in Form, NEW w \in Form, Stored(v) = v, w.specs = v.specs
  PROVE  Stored(w) = w
<1>1. Canonical[w.specs] = w.specs
  BY StoredForm
<1>2. QED
  BY <1>1 DEF Stored, Form

LEMMA IdleTyped == Idle \in HandlerState /\ Idle.pc = "idle" /\ Idle.overtaken = FALSE
  BY DEF Idle, State, HandlerState

(* Another handler notices a write, and nothing else changes for it.       *)
LEMMA OvertakeTyped ==
  ASSUME TypeOK, NEW g \in Handlers, NEW p \in Products
  PROVE  /\ Overtake(g, p) \in HandlerState
         /\ Overtake(g, p).pc = handler[g].pc
         /\ Overtake(g, p).id = handler[g].id
         /\ Overtake(g, p).values = handler[g].values
         /\ Overtake(g, p).fields = handler[g].fields
         /\ Overtake(g, p).unnamed = handler[g].unnamed
         /\ \/ Overtake(g, p) = handler[g]
            \/ Overtake(g, p).pc = "updating" /\ Overtake(g, p).overtaken
         /\ handler[g].pc = "updating" /\ handler[g].id = p => Overtake(g, p).overtaken
<1>1. handler[g] \in HandlerState
  BY DEF TypeOK
<1>2. /\ handler[g].pc \in {"idle", "creating", "updating", "deleting", "written"}
      /\ handler[g].values \in Form \cup {Absent}
      /\ handler[g].fields \in SUBSET Fields /\ handler[g].unnamed \in SUBSET Fields
  BY <1>1 DEF HandlerState
<1>3. CASE handler[g].pc = "updating" /\ handler[g].id = p
  <2>1. Overtake(g, p) = State("updating", p, handler[g].values, handler[g].fields,
                               handler[g].unnamed, TRUE)
    BY <1>3 DEF Overtake
  <2>3. /\ Overtake(g, p) \in HandlerState
        /\ Overtake(g, p).pc = "updating" /\ Overtake(g, p).id = p
        /\ Overtake(g, p).values = handler[g].values
        /\ Overtake(g, p).fields = handler[g].fields
        /\ Overtake(g, p).unnamed = handler[g].unnamed
        /\ Overtake(g, p).overtaken = TRUE
    BY <1>2, <2>1 DEF State, HandlerState
  <2>4. QED
    BY <1>3, <2>3
<1>4. CASE ~ (handler[g].pc = "updating" /\ handler[g].id = p)
  <2>1. Overtake(g, p) = handler[g]
    BY <1>4 DEF Overtake
  <2>2. QED
    BY <1>1, <1>4, <2>1
<1>5. QED
  BY <1>3, <1>4

---------------------------------------------------------------------------
(* An update nothing overtook holds the names of the fields that differ.   *)
UpdatesCompared ==
  \A h \in Handlers :
    handler[h].pc = "updating" /\ ~ handler[h].overtaken =>
      /\ Exists(handler[h].id)
      /\ handler[h].fields = changedFields(row[handler[h].id], handler[h].values)

IInv == TypeOK /\ AcceptedFits /\ UpdatesCompared /\ EntryNamesChanges

LEMMA InitIInv == Init => IInv
<1> SUFFICES ASSUME Init PROVE IInv
  OBVIOUS
<1>1. \A h \in Handlers : handler[h] = Idle
  BY DEF Init
<1>2. \A p \in Products : ~ Exists(p)
  BY DEF Init, Exists
<1>3. TypeOK
  <2>1. handler \in [Handlers -> HandlerState]
    BY IdleTyped DEF Init
  <2>2. /\ row \in [Products -> Form \cup {Absent}] /\ used \in SUBSET Products
        /\ lost \in SUBSET Handlers /\ empty \in SUBSET Handlers
    BY DEF Init
  <2>3. QED
    BY <1>1, <1>2, <2>1, <2>2, IdleTyped DEF TypeOK
<1>4. QED
  BY <1>1, <1>3, IdleTyped DEF IInv, AcceptedFits, UpdatesCompared, EntryNamesChanges

(* A step of one handler that leaves the rows alone.                       *)
LEMMA QuietStep ==
  ASSUME IInv, NEW h \in Handlers, NEW s \in HandlerState,
         handler' = [handler EXCEPT ![h] = s], UNCHANGED <<row, used>>,
         lost' \in SUBSET Handlers, empty' \in SUBSET Handlers,
         s.pc \in {"creating", "updating"} => s.values # Absent /\ Fits(s.values),
         s.pc \in {"updating", "deleting", "written"} => s.id \in used,
         s.pc = "updating" => /\ Exists(s.id)
                              /\ s.fields = changedFields(row[s.id], s.values),
         s.pc # "written"
  PROVE  IInv'
<1>1. handler' \in [Handlers -> HandlerState] /\ handler'[h] = s
  BY DEF IInv, TypeOK
<1>2. \A g \in Handlers \ {h} : handler'[g] = handler[g]
  BY DEF IInv, TypeOK
<1>3. \A p : Exists(p)' <=> Exists(p)
  BY DEF Exists
<1>4. TypeOK'
  <2>1. \A g \in Handlers :
          /\ handler'[g].pc \in {"creating", "updating"} => handler'[g].values # Absent
          /\ handler'[g].pc \in {"updating", "deleting", "written"} => handler'[g].id \in used'
    BY <1>1, <1>2 DEF IInv, TypeOK
  <2>2. \A p \in Products : Exists(p)' => p \in used' /\ Fits(row'[p]) /\ Stored(row'[p]) = row'[p]
    BY <1>3 DEF IInv, TypeOK
  <2>3. row' \in [Products -> Form \cup {Absent}] /\ used' \in SUBSET Products
    BY DEF IInv, TypeOK
  <2>4. QED
    BY <1>1, <2>1, <2>2, <2>3 DEF TypeOK
<1>5. AcceptedFits'
  BY <1>1, <1>2 DEF IInv, AcceptedFits
<1>6. UpdatesCompared'
  BY <1>1, <1>2, <1>3 DEF IInv, UpdatesCompared
<1>7. EntryNamesChanges'
  BY <1>1, <1>2 DEF IInv, EntryNamesChanges
<1>8. QED
  BY <1>4, <1>5, <1>6, <1>7 DEF IInv

(* A step that changes a row: the other handlers are overtaken, the one    *)
(* that wrote is about to record.                                          *)
LEMMA WritingStep ==
  ASSUME IInv, NEW h \in Handlers, NEW p \in Products, NEW v \in Form \cup {Absent},
         NEW s \in HandlerState, s.pc = "written", s.id = p,
         row' = [row EXCEPT ![p] = v],
         handler' = [g \in Handlers |-> IF g = h THEN s ELSE Overtake(g, p)],
         UNCHANGED used, lost' \in SUBSET Handlers, empty' \in SUBSET Handlers,
         p \in used, v # Absent => Fits(v) /\ Stored(v) = v,
         ~ s.overtaken => s.unnamed = {}
  PROVE  IInv'
<1>0. TypeOK
  BY DEF IInv
<1>1. handler'[h] = s
  OBVIOUS
<1>2. \A g \in Handlers \ {h} : handler'[g] = Overtake(g, p)
  OBVIOUS
<1>3. handler' \in [Handlers -> HandlerState]
  <2>1. \A g \in Handlers : Overtake(g, p) \in HandlerState
    BY <1>0, OvertakeTyped
  <2>2. QED
    BY <2>1
<1>4. row' \in [Products -> Form \cup {Absent}] /\ row'[p] = v
      /\ \A q \in Products \ {p} : row'[q] = row[q]
  BY <1>0 DEF TypeOK
<1>5. TypeOK'
  <2>1. \A g \in Handlers :
          /\ handler'[g].pc \in {"creating", "updating"} => handler'[g].values # Absent
          /\ handler'[g].pc \in {"updating", "deleting", "written"} => handler'[g].id \in used'
    <3>1. SUFFICES ASSUME NEW g \in Handlers
                   PROVE /\ handler'[g].pc \in {"creating", "updating"} => handler'[g].values # Absent
                         /\ handler'[g].pc \in {"updating", "deleting", "written"} => handler'[g].id \in used'
      OBVIOUS
    <3>2. CASE g = h
      BY <1>1, <3>2
    <3>3. CASE g # h
      <4>1. /\ handler'[g].pc = handler[g].pc /\ handler'[g].id = handler[g].id
            /\ handler'[g].values = handler[g].values
        BY <1>0, <1>2, <3>3, OvertakeTyped
      <4>2. QED
        BY <1>0, <4>1 DEF TypeOK
    <3>4. QED
      BY <3>2, <3>3
  <2>2. \A q \in Products :
          Exists(q)' => q \in used' /\ Fits(row'[q]) /\ Stored(row'[q]) = row'[q]
    BY <1>0, <1>4 DEF TypeOK, Exists
  <2>3. used' \in SUBSET Products
    BY <1>0 DEF TypeOK
  <2>4. QED
    BY <1>3, <1>4, <2>1, <2>2, <2>3 DEF TypeOK
<1>6. AcceptedFits'
  <2>1. SUFFICES ASSUME NEW g \in Handlers, handler'[g].pc \in {"creating", "updating"}
                 PROVE Fits(handler'[g].values)
    BY DEF AcceptedFits
  <2>2. g # h
    BY <1>1, <2>1
  <2>3. handler'[g].pc = handler[g].pc /\ handler'[g].values = handler[g].values
    BY <1>0, <1>2, <2>2, OvertakeTyped
  <2>4. QED
    BY <2>1, <2>3 DEF IInv, AcceptedFits
<1>7. UpdatesCompared'
  <2>1. SUFFICES ASSUME NEW g \in Handlers, handler'[g].pc = "updating",
                        ~ handler'[g].overtaken
                 PROVE /\ row'[handler'[g].id] # Absent
                       /\ handler'[g].fields = changedFields(row'[handler'[g].id], handler'[g].values)
    BY DEF UpdatesCompared, Exists
  <2>2. g # h
    BY <1>1, <2>1
  <2>3. handler'[g] = handler[g] /\ handler[g].id # p
    <3>1. handler'[g] = Overtake(g, p)
      BY <1>2, <2>2
    <3>2. ~ Overtake(g, p).overtaken
      BY <2>1, <3>1
    <3>3. Overtake(g, p) = handler[g]
      BY <1>0, <3>2, OvertakeTyped, Zenon
    <3>4. handler[g].id # p
      BY <1>0, <2>1, <3>1, <3>2, <3>3, OvertakeTyped, Zenon
    <3>5. QED
      BY <3>1, <3>3, <3>4
  <2>4. handler[g].id \in Products
    BY <1>0, <2>1, <2>3 DEF TypeOK
  <2>5. /\ Exists(handler[g].id)
        /\ handler[g].fields = changedFields(row[handler[g].id], handler[g].values)
    BY <2>1, <2>3 DEF IInv, UpdatesCompared
  <2>6. row'[handler[g].id] = row[handler[g].id]
    BY <1>4, <2>3, <2>4
  <2>7. QED
    BY <2>3, <2>5, <2>6 DEF Exists, changedFields
<1>8. EntryNamesChanges'
  <2>1. SUFFICES ASSUME NEW g \in Handlers, handler'[g].pc = "written", ~ handler'[g].overtaken
                 PROVE handler'[g].unnamed = {}
    BY DEF EntryNamesChanges
  <2>2. CASE g = h
    BY <1>1, <2>1, <2>2
  <2>3. CASE g # h
    <3>1. handler'[g] = handler[g]
      BY <1>0, <1>2, <2>1, <2>3, OvertakeTyped
    <3>2. QED
      BY <2>1, <3>1 DEF IInv, EntryNamesChanges
  <2>4. QED
    BY <2>2, <2>3
<1>9. QED
  BY <1>5, <1>6, <1>7, <1>8 DEF IInv

(* Write, in the shape WritingStep asks for.                               *)
LEMMA WriteStep ==
  ASSUME IInv, NEW h \in Handlers, NEW p \in Products, NEW v \in Form \cup {Absent},
         NEW fields \in SUBSET Fields, Write(h, p, v, fields),
         p \in used, v # Absent => Fits(v) /\ Stored(v) = v,
         ~ handler[h].overtaken =>
           \A f \in Fields \ fields : Exists(p) => row[p][f] = v[f]
  PROVE  IInv'
<1>1. handler[h] \in HandlerState /\ handler[h].overtaken \in BOOLEAN
  BY DEF IInv, TypeOK, HandlerState
<1>2. PICK unnamed \in SUBSET Fields :
        unnamed = {f \in Fields \ fields : Exists(p) /\ row[p][f] # v[f]}
  OBVIOUS
<1>3. PICK overtaken \in BOOLEAN : overtaken = handler[h].overtaken
  BY <1>1
<1>4. PICK s : s = State("written", p, Absent, fields, unnamed, overtaken)
  OBVIOUS
<1>4a. /\ s \in HandlerState
      /\ s.pc = "written" /\ s.id = p /\ s.unnamed = unnamed /\ s.overtaken = overtaken
  BY <1>4 DEF State, HandlerState
<1>5. /\ row' = [row EXCEPT ![p] = v]
      /\ handler' = [g \in Handlers |-> IF g = h THEN s ELSE Overtake(g, p)]
      /\ UNCHANGED used
  BY <1>2, <1>3, <1>4, <1>4a DEF Write
<1>5a. lost' \in SUBSET Handlers /\ empty' \in SUBSET Handlers
  BY DEF Write, IInv, TypeOK
<1>6. ~ s.overtaken => s.unnamed = {}
  BY <1>2, <1>3, <1>4, <1>4a
<1>7. QED
  BY <1>4, <1>4a, <1>5, <1>5a, <1>6, WritingStep

LEMMA StartCreateStep ==
  ASSUME IInv, NEW h \in Handlers, NEW body \in Bodies, StartCreate(h, body)
  PROVE  IInv'
<1>1. body \in Form /\ body # Absent /\ Fits(body)
  BY BodiesAreForms, AbsentIsNoForm, AcceptedFormsFit DEF StartCreate
<1>2. PICK s : s = State("creating", Absent, body, {}, {}, FALSE)
  OBVIOUS
<1>2a. /\ s \in HandlerState
      /\ s.pc = "creating" /\ s.values = body
  BY <1>1, <1>2 DEF State, HandlerState
<1>3. QED
  BY <1>1, <1>2, <1>2a, QuietStep DEF StartCreate, IInv, TypeOK

LEMMA FindForUpdateStep ==
  ASSUME IInv, NEW h \in Handlers, NEW p \in Products, NEW body \in Bodies,
         FindForUpdate(h, p, body)
  PROVE  IInv'
<1>1. body \in Form /\ body # Absent /\ Fits(body)
  BY BodiesAreForms, AbsentIsNoForm, AcceptedFormsFit DEF FindForUpdate
<1>2. Exists(p) /\ p \in used
  BY DEF FindForUpdate, IInv, TypeOK
<1>3. PICK fields \in SUBSET Fields : fields = changedFields(row[p], body)
  BY DEF changedFields
<1>4. PICK s : s = State("updating", p, body, fields, {}, FALSE)
  OBVIOUS
<1>4a. /\ s \in HandlerState
      /\ s.pc = "updating" /\ s.id = p /\ s.values = body /\ s.fields = fields
  BY <1>1, <1>4 DEF State, HandlerState
<1>5. /\ handler' = [handler EXCEPT ![h] = s] /\ UNCHANGED <<row, used>>
      /\ lost' \in SUBSET Handlers /\ empty' \in SUBSET Handlers
  BY <1>3, <1>4, <1>4a DEF FindForUpdate, IInv, TypeOK
<1>6. QED
  BY <1>1, <1>2, <1>3, <1>4, <1>4a, <1>5, QuietStep

LEMMA FindForDeleteStep ==
  ASSUME IInv, NEW h \in Handlers, NEW p \in Products, FindForDelete(h, p)
  PROVE  IInv'
<1>1. p \in used
  BY DEF FindForDelete, IInv, TypeOK
<1>2. PICK s : s = State("deleting", p, Absent, {}, {}, FALSE)
  OBVIOUS
<1>2a. /\ s \in HandlerState
      /\ s.pc = "deleting" /\ s.id = p
  BY <1>2 DEF State, HandlerState
<1>3. QED
  BY <1>1, <1>2, <1>2a, QuietStep DEF FindForDelete, IInv, TypeOK

LEMMA EndStep ==
  ASSUME IInv, NEW h \in Handlers, Record(h) \/ Refuse(h)
  PROVE  IInv'
<1>1. /\ handler' = [handler EXCEPT ![h] = Idle] /\ UNCHANGED <<row, used>>
      /\ lost' \in SUBSET Handlers /\ empty' \in SUBSET Handlers
  BY DEF Record, Refuse, End, IInv, TypeOK
<1>2. QED
  BY <1>1, IdleTyped, QuietStep

(* The row of a new id: no other handler knows that id yet.                *)
LEMMA CreateStep ==
  ASSUME IInv, NEW h \in Handlers, NEW p \in Products, Create(h, p)
  PROVE  IInv'
<1>0. PICK values \in Form : values = handler[h].values /\ Fits(values)
  BY DEF Create, IInv, TypeOK, HandlerState
<1>1. PICK v \in Form : v = Stored(handler[h].values) /\ Fits(v) /\ Stored(v) = v
  BY <1>0, StoredForm
<1>2. PICK s : s = State("written", p, Absent, Fields, {}, FALSE)
  OBVIOUS
<1>2a. /\ s \in HandlerState
      /\ s.pc = "written" /\ s.id = p /\ s.unnamed = {}
  BY <1>2 DEF State, HandlerState
<1>3. /\ handler' \in [Handlers -> HandlerState] /\ handler'[h] = s
      /\ \A g \in Handlers \ {h} : handler'[g] = handler[g]
  BY <1>2, <1>2a DEF Create, IInv, TypeOK
<1>4. /\ row' \in [Products -> Form \cup {Absent}] /\ row'[p] = v
      /\ \A q \in Products \ {p} : row'[q] = row[q]
  BY <1>1 DEF Create, IInv, TypeOK
<1>5. used' = used \cup {p} /\ p \notin used
  BY DEF Create
<1>6. TypeOK'
  <2>1. \A g \in Handlers :
          /\ handler'[g].pc \in {"creating", "updating"} => handler'[g].values # Absent
          /\ handler'[g].pc \in {"updating", "deleting", "written"} => handler'[g].id \in used'
    BY <1>2, <1>2a, <1>3, <1>5 DEF IInv, TypeOK
  <2>2. \A q \in Products :
          Exists(q)' => q \in used' /\ Fits(row'[q]) /\ Stored(row'[q]) = row'[q]
    BY <1>1, <1>4, <1>5 DEF IInv, TypeOK, Exists
  <2>3. /\ used' \in SUBSET Products
        /\ lost' \in SUBSET Handlers /\ empty' \in SUBSET Handlers
    BY <1>5 DEF Create, IInv, TypeOK
  <2>4. QED
    BY <1>3, <1>4, <2>1, <2>2, <2>3 DEF TypeOK
<1>7. AcceptedFits'
  BY <1>2, <1>2a, <1>3 DEF IInv, AcceptedFits
<1>8. UpdatesCompared'
  <2>1. SUFFICES ASSUME NEW g \in Handlers, handler'[g].pc = "updating",
                        ~ handler'[g].overtaken
                 PROVE /\ row'[handler'[g].id] # Absent
                       /\ handler'[g].fields = changedFields(row'[handler'[g].id], handler'[g].values)
    BY DEF UpdatesCompared, Exists
  <2>2. g # h /\ handler'[g] = handler[g]
    BY <1>2, <1>2a, <1>3, <2>1
  <2>3. handler[g].id \in used /\ handler[g].id \in Products
    BY <2>1, <2>2 DEF IInv, TypeOK
  <2>4. row'[handler[g].id] = row[handler[g].id]
    BY <1>4, <1>5, <2>3
  <2>5. QED
    BY <2>1, <2>2, <2>4 DEF IInv, UpdatesCompared, Exists, changedFields
<1>9. EntryNamesChanges'
  BY <1>2, <1>2a, <1>3 DEF IInv, EntryNamesChanges
<1>10. QED
  BY <1>6, <1>7, <1>8, <1>9 DEF IInv

(* The names are those of the fields that differ from the row it found,    *)
(* and if nothing overtook it that is the row it writes.                   *)
LEMMA UpdateStep ==
  ASSUME IInv, NEW h \in Handlers, Update(h)
  PROVE  IInv'
<1>1. handler[h] \in HandlerState /\ handler[h].pc = "updating"
  BY DEF Update, IInv, TypeOK
<1>2. PICK p \in Products : p = handler[h].id /\ p \in used
  BY <1>1 DEF IInv, TypeOK
<1>3. PICK values \in Form : values = handler[h].values
  BY <1>1 DEF IInv, TypeOK, HandlerState
<1>4. PICK fields \in SUBSET Fields : fields = handler[h].fields
  BY <1>1 DEF HandlerState
<1>5. PICK v \in Form \cup {Absent} : v = IF Exists(p) THEN Stored(values) ELSE Absent
  BY StoredForm
<1>6. Write(h, p, v, fields) /\ (Exists(p) => Fits(values))
  BY <1>2, <1>3, <1>4, <1>5 DEF Update
<1>7. v # Absent => Fits(v) /\ Stored(v) = v
  BY <1>5, <1>6, StoredForm
<1>8. ASSUME ~ handler[h].overtaken
      PROVE  \A f \in Fields \ fields : Exists(p) => row[p][f] = v[f]
  <2>1. Exists(p) /\ fields = changedFields(row[p], values)
    BY <1>1, <1>2, <1>3, <1>4, <1>8 DEF IInv, UpdatesCompared
  <2>2. row[p] \in Form /\ Stored(row[p]) = row[p] /\ v = Stored(values)
    BY <1>5, <2>1 DEF IInv, TypeOK, Exists
  <2>3. SUFFICES ASSUME NEW f \in Fields \ fields PROVE row[p][f] = v[f]
    OBVIOUS
  <2>4. row[p][f] = values[f]
    BY <2>1 DEF changedFields, sameValue
  <2>5. CASE f = "specs"
    BY <2>2, <2>4, <2>5, StoredForm
  <2>6. CASE f # "specs"
    BY <2>2, <2>4, <2>6, StoredForm
  <2>7. QED
    BY <2>5, <2>6
<1>9. QED
  BY <1>2, <1>6, <1>7, <1>8, WriteStep

LEMMA SetActiveStep ==
  ASSUME IInv, NEW h \in Handlers, NEW p \in Products, NEW wanted \in BOOLEAN,
         SetActive(h, p, wanted)
  PROVE  IInv'
<1>1. p \in used /\ row[p] \in Form /\ Fits(row[p]) /\ Stored(row[p]) = row[p]
  BY DEF SetActive, IInv, TypeOK, Exists
<1>2. PICK v \in Form : v = [row[p] EXCEPT !.isActive = wanted]
  BY <1>1 DEF Form
<1>3. /\ v.priceToman = row[p].priceToman /\ v.salePriceToman = row[p].salePriceToman
      /\ v.stockQty = row[p].stockQty /\ v.weightGrams = row[p].weightGrams
      /\ v.availability = row[p].availability /\ v.specs = row[p].specs
  BY <1>1, <1>2 DEF Form
<1>4. Fits(v) /\ Stored(v) = v
  BY <1>1, <1>3, SpecsKept DEF Fits
<1>5. \A f \in Fields \ {"isActive"} : row[p][f] = v[f]
  BY <1>3 DEF Fields
<1>6. Write(h, p, v, {"isActive"}) /\ {"isActive"} \in SUBSET Fields
  BY <1>2 DEF SetActive, Fields
<1>7. QED
  BY <1>1, <1>4, <1>5, <1>6, WriteStep

LEMMA StockStep ==
  ASSUME IInv, NEW h \in Handlers, NEW p \in Products, NEW body \in Bodies,
         Stock(h, p, body.stockQty, body.availability)
  PROVE  IInv'
<1>1. p \in used /\ row[p] \in Form /\ Stored(row[p]) = row[p]
  BY DEF Stock, IInv, TypeOK, Exists
<1>2. PICK availability \in Availabilities \cup {Null, Text} :
        availability = IF body.availability = Null THEN row[p].availability
                                                   ELSE body.availability
  BY <1>1 DEF Stock, Form
<1>3. body.stockQty \in Number
  BY BodiesAreForms DEF Form
<1>4. PICK v \in Form :
        v = [row[p] EXCEPT !.stockQty = body.stockQty, !.availability = availability]
  BY <1>1, <1>2, <1>3 DEF Form
<1>5. /\ v.priceToman = row[p].priceToman /\ v.salePriceToman = row[p].salePriceToman
      /\ v.weightGrams = row[p].weightGrams /\ v.isActive = row[p].isActive
      /\ v.specs = row[p].specs
  BY <1>1, <1>4 DEF Form
<1>6. v = [row[p] EXCEPT !.stockQty = body.stockQty,
             !.availability = IF body.availability = Null THEN @ ELSE body.availability]
  BY <1>1, <1>2, <1>4 DEF Form
<1>7. Fits(v) /\ Stored(v) = v /\ Write(h, p, v, {"stockQty", "availability"})
  BY <1>1, <1>5, <1>6, SpecsKept DEF Stock
<1>8. \A f \in Fields \ {"stockQty", "availability"} : row[p][f] = v[f]
  BY <1>5 DEF Fields
<1>9. {"stockQty", "availability"} \in SUBSET Fields
  BY DEF Fields
<1>10. QED
  BY <1>1, <1>7, <1>8, <1>9, WriteStep

LEMMA DeleteStep ==
  ASSUME IInv, NEW h \in Handlers, Delete(h)
  PROVE  IInv'
<1>1. PICK p \in Products : p = handler[h].id /\ p \in used
  BY DEF Delete, IInv, TypeOK
<1>2. PICK s : s = State("written", p, Absent, {}, {}, FALSE)
  OBVIOUS
<1>2a. /\ s \in HandlerState
      /\ s.pc = "written" /\ s.id = p /\ s.unnamed = {}
  BY <1>2 DEF State, HandlerState
<1>3. PICK v \in Form \cup {Absent} : v = Absent
  OBVIOUS
<1>4. /\ row' = [row EXCEPT ![p] = v]
      /\ handler' = [g \in Handlers |-> IF g = h THEN s ELSE Overtake(g, p)]
      /\ UNCHANGED used
      /\ lost' \in SUBSET Handlers /\ empty' \in SUBSET Handlers
  BY <1>1, <1>2, <1>2a, <1>3 DEF Delete, Finders, IInv, TypeOK
<1>5. QED
  BY <1>1, <1>2, <1>2a, <1>3, <1>4, WritingStep

---------------------------------------------------------------------------
LEMMA StepKeepsIInv == IInv /\ [Next]_vars => IInv'
<1> SUFFICES ASSUME IInv, [Next]_vars PROVE IInv'
  OBVIOUS
<1>1. ASSUME NEW h \in Handlers, HandlerStep(h) PROVE IInv'
  <2>1. CASE \E body \in Bodies : StartCreate(h, body)
    BY <2>1, StartCreateStep
  <2>2. CASE \E p \in Products : Create(h, p)
    BY <2>2, CreateStep
  <2>3. CASE \E p \in Products, body \in Bodies : FindForUpdate(h, p, body)
    BY <2>3, FindForUpdateStep
  <2>4. CASE Update(h)
    BY <2>4, UpdateStep
  <2>5. CASE \E p \in Products, wanted \in BOOLEAN : SetActive(h, p, wanted)
    BY <2>5, SetActiveStep
  <2>6. CASE \E p \in Products, body \in Bodies : Stock(h, p, body.stockQty, body.availability)
    BY <2>6, StockStep
  <2>7. CASE \E p \in Products : FindForDelete(h, p)
    BY <2>7, FindForDeleteStep
  <2>8. CASE Delete(h)
    BY <2>8, DeleteStep
  <2>9. CASE Record(h) \/ Refuse(h)
    BY <2>9, EndStep
  <2>10. QED
    BY <1>1, <2>1, <2>2, <2>3, <2>4, <2>5, <2>6, <2>7, <2>8, <2>9 DEF HandlerStep
<1>2. CASE UNCHANGED vars
  BY <1>2 DEF vars, IInv, TypeOK, AcceptedFits, UpdatesCompared, EntryNamesChanges, Exists,
              changedFields, sameValue
<1>3. QED
  BY <1>1, <1>2 DEF Next

LEMMA Invariant == Spec => []IInv
  BY InitIInv, StepKeepsIInv, PTL DEF Spec

(* Rows, handlers and references are well formed, and every row satisfies  *)
(* the constraints of its table.                                           *)
THEOREM TypeCorrect == Spec => []TypeOK
<1>1. IInv => TypeOK
  BY DEF IInv
<1>2. QED
  BY <1>1, Invariant, PTL

(* No form that validation accepts is refused by a constraint of the table *)
(* (validate.js:14-16), whatever the limits, as long as they fit.          *)
THEOREM AcceptedFormsAreStorable == Spec => []AcceptedFits
<1>1. IInv => AcceptedFits
  BY DEF IInv
<1>2. QED
  BY <1>1, Invariant, PTL

(* The entry of every write that was not overtaken names all it changed    *)
(* (README.md:106-108).                                                    *)
THEOREM EntriesNameChanges == Spec => []EntryNamesChanges
<1>1. IInv => EntryNamesChanges
  BY DEF IInv
<1>2. QED
  BY <1>1, Invariant, PTL

(* The entry of an update that was not overtaken will name nothing else    *)
(* (catalogAdminForm.js:161), specs typed in another order of keys aside.  *)
THEOREM EntriesNameOnlyChanges == Spec => []EntryNamesOnlyChanges
<1>1. ASSUME IInv PROVE EntryNamesOnlyChanges
  <2>1. SUFFICES ASSUME NEW h \in Handlers,
                        handler[h].pc = "updating", ~ handler[h].overtaken,
                        NEW f \in handler[h].fields
                 PROVE  \/ row[handler[h].id][f] # Stored(handler[h].values)[f]
                        \/ f = "specs" /\ Stored(handler[h].values) # handler[h].values
    BY DEF EntryNamesOnlyChanges
  <2>2. PICK values \in Form : values = handler[h].values
    BY <1>1, <2>1 DEF IInv, TypeOK, HandlerState
  <2>3. f \in Fields /\ row[handler[h].id][f] # values[f]
    BY <1>1, <2>1, <2>2 DEF IInv, UpdatesCompared, changedFields, sameValue
  <2>4. CASE f = "specs" /\ Stored(values) # values
    BY <2>2, <2>4
  <2>5. CASE Stored(values) = values
    BY <2>2, <2>3, <2>5
  <2>6. CASE f # "specs"
    BY <2>2, <2>3, <2>6, StoredForm
  <2>7. QED
    BY <2>4, <2>5, <2>6
<1>2. QED
  BY <1>1, Invariant, PTL

---------------------------------------------------------------------------
(* A handler that found a row finds it no more exactly when another one    *)
(* deleted it, and ids are not used again.                                 *)
Fates ==
  \A h \in Handlers :
    /\ handler[h].pc \in {"idle", "creating"} => h \notin lost /\ h \notin empty
    /\ handler[h].pc \in {"updating", "deleting"} =>
         h \notin empty /\ (h \in lost <=> ~ Exists(handler[h].id))
    /\ handler[h].pc = "written" => (h \in empty <=> h \in lost)

LEMMA InitFates == Init => Fates
  BY IdleTyped DEF Init, Fates

(* A step of one handler that leaves the rows and the fates of others.     *)
LEMMA QuietFates ==
  ASSUME IInv, Fates, NEW h \in Handlers, NEW s \in HandlerState,
         handler' = [handler EXCEPT ![h] = s],
         \A g \in Handlers \ {h} : handler[g].pc \in {"updating", "deleting"} =>
           row'[handler[g].id] = row[handler[g].id],
         lost' \ {h} = lost \ {h}, empty' \ {h} = empty \ {h},
         h \notin lost', h \notin empty',
         s.pc \in {"updating", "deleting"} => row'[s.id] # Absent
  PROVE  Fates'
<1>1. handler'[h] = s /\ \A g \in Handlers \ {h} : handler'[g] = handler[g]
  BY DEF IInv, TypeOK
<1>2. \A g \in Handlers \ {h} : (g \in lost' <=> g \in lost) /\ (g \in empty' <=> g \in empty)
  OBVIOUS
<1>3. QED
  BY <1>1, <1>2 DEF Fates, Exists

(* A statement of h about p.                                               *)
LEMMA WritingFates ==
  ASSUME IInv, Fates, NEW h \in Handlers, NEW p \in Products,
         NEW v \in Form \cup {Absent}, NEW s, s.pc = "written",
         row' = [row EXCEPT ![p] = v],
         handler' = [g \in Handlers |-> IF g = h THEN s ELSE Overtake(g, p)],
         h \in lost <=> ~ Exists(p), h \notin empty,
         Exists(p) => empty' = empty, ~ Exists(p) => empty' = empty \cup {h},
         \/ (v # Absent <=> Exists(p)) /\ lost' = lost
         \/ v = Absent /\ lost' = IF Exists(p) THEN lost \cup (Finders(p) \ {h}) ELSE lost
  PROVE  Fates'
<1>0. TypeOK
  BY DEF IInv
<1>1. handler'[h] = s /\ h \in Handlers
  OBVIOUS
<1>2. row'[p] = v /\ \A q \in Products \ {p} : row'[q] = row[q]
  BY <1>0 DEF TypeOK
<1>3. (h \in lost' <=> h \in lost) /\ (h \in empty' <=> ~ Exists(p))
  OBVIOUS
<1>4. SUFFICES ASSUME NEW g \in Handlers, g # h
               PROVE /\ handler'[g].pc \in {"idle", "creating"} => g \notin lost' /\ g \notin empty'
                     /\ handler'[g].pc \in {"updating", "deleting"} =>
                          g \notin empty' /\ (g \in lost' <=> row'[handler'[g].id] = Absent)
                     /\ handler'[g].pc = "written" => (g \in empty' <=> g \in lost')
  BY <1>1, <1>3 DEF Fates, Exists
<1>5. handler'[g].pc = handler[g].pc /\ handler'[g].id = handler[g].id
  BY <1>0, <1>4, OvertakeTyped
<1>6. g \in empty' <=> g \in empty
  BY <1>4
<1>7. g \in lost' <=> g \in lost \/ (lost' # lost /\ g \in Finders(p))
  BY <1>4
<1>8. CASE handler[g].pc \in {"updating", "deleting"} /\ handler[g].id = p
  <2>1. g \in Finders(p)
    BY <1>8 DEF Finders
  <2>2. g \in lost <=> ~ Exists(p)
    BY <1>8 DEF Fates
  <2>3. g \in lost' <=> v = Absent
    BY <1>4, <2>1, <2>2
  <2>4. QED
    BY <1>2, <1>5, <1>6, <1>8, <2>3 DEF Fates
<1>9. CASE ~ (handler[g].pc \in {"updating", "deleting"} /\ handler[g].id = p)
  <2>1. g \in lost' <=> g \in lost
    BY <1>7, <1>9 DEF Finders
  <2>2. handler[g].pc \in {"updating", "deleting"} => row'[handler[g].id] = row[handler[g].id]
    BY <1>0, <1>2, <1>9 DEF TypeOK
  <2>3. QED
    BY <1>5, <1>6, <2>1, <2>2 DEF Fates, Exists
<1>10. QED
  BY <1>8, <1>9

LEMMA StepKeepsFates == IInv /\ Fates /\ [Next]_vars => Fates'
<1> SUFFICES ASSUME IInv, Fates, [Next]_vars PROVE Fates'
  OBVIOUS
<1>0. TypeOK
  BY DEF IInv
<1>1. ASSUME NEW h \in Handlers, HandlerStep(h) PROVE Fates'
  <2>1. ASSUME NEW body \in Bodies, StartCreate(h, body) PROVE Fates'
    <3>1. PICK s : s = State("creating", Absent, body, {}, {}, FALSE)
      OBVIOUS
    <3>2. s \in HandlerState /\ s.pc = "creating"
      BY <3>1, BodiesAreForms DEF State, HandlerState
    <3>3. h \notin lost /\ h \notin empty
      BY <2>1, IdleTyped DEF StartCreate, Fates
    <3>4. QED
      BY <2>1, <3>1, <3>2, <3>3, QuietFates DEF StartCreate
  <2>2. ASSUME NEW p \in Products, Create(h, p) PROVE Fates'
    <3>1. PICK s : s = State("written", p, Absent, Fields, {}, FALSE)
      OBVIOUS
    <3>2. s \in HandlerState /\ s.pc = "written"
      BY <3>1 DEF State, HandlerState
    <3>3. h \notin lost /\ h \notin empty
      BY <2>2 DEF Create, Fates
    <3>4. \A g \in Handlers \ {h} : handler[g].pc \in {"updating", "deleting"} =>
            row'[handler[g].id] = row[handler[g].id]
      BY <1>0, <2>2 DEF Create, TypeOK
    <3>5. QED
      BY <2>2, <3>1, <3>2, <3>3, <3>4, QuietFates DEF Create
  <2>3. ASSUME NEW p \in Products, NEW body \in Bodies, FindForUpdate(h, p, body) PROVE Fates'
    <3>1. PICK s : s = State("updating", p, body, changedFields(row[p], body), {}, FALSE)
      OBVIOUS
    <3>2. s \in HandlerState /\ s.pc = "updating" /\ s.id = p
      BY <3>1, BodiesAreForms DEF State, HandlerState, changedFields
    <3>3. h \notin lost /\ h \notin empty
      BY <2>3, IdleTyped DEF FindForUpdate, Fates
    <3>4. QED
      BY <2>3, <3>1, <3>2, <3>3, QuietFates DEF FindForUpdate, Exists
  <2>4. ASSUME Update(h) PROVE Fates'
    <3>1. PICK p \in Products : p = handler[h].id
      BY <1>0, <2>4 DEF Update, TypeOK
    <3>2. PICK values \in Form : values = handler[h].values
      BY <1>0, <2>4 DEF Update, TypeOK, HandlerState
    <3>3. PICK v \in Form \cup {Absent} :
            v = (IF Exists(p) THEN Stored(values) ELSE Absent) /\ (v # Absent <=> Exists(p))
      BY StoredForm, AbsentIsNoForm
    <3>4. Write(h, p, v, handler[h].fields)
      BY <2>4, <3>1, <3>2, <3>3 DEF Update
    <3>5. (h \in lost <=> ~ Exists(p)) /\ h \notin empty
      BY <2>4, <3>1 DEF Update, Fates
    <3>6. QED
      BY <3>3, <3>4, <3>5, WritingFates DEF Write, State
  <2>5. ASSUME NEW p \in Products, NEW v \in Form, NEW fields, Write(h, p, v, fields),
               handler[h] = Idle, Exists(p)
        PROVE  Fates'
    <3>1. h \notin lost /\ h \notin empty
      BY <2>5, IdleTyped DEF Fates
    <3>2. QED
      BY <2>5, <3>1, AbsentIsNoForm, WritingFates DEF Write, State
  <2>6. ASSUME NEW p \in Products, NEW wanted \in BOOLEAN, SetActive(h, p, wanted) PROVE Fates'
    <3>1. [row[p] EXCEPT !.isActive = wanted] \in Form
      BY <1>0, <2>6 DEF SetActive, TypeOK, Exists, Form
    <3>2. QED
      BY <2>5, <2>6, <3>1 DEF SetActive
  <2>7. ASSUME NEW p \in Products, NEW body \in Bodies,
               Stock(h, p, body.stockQty, body.availability)
        PROVE  Fates'
    <3>1. PICK availability \in Availabilities \cup {Null, Text} :
            availability = IF body.availability = Null THEN row[p].availability
                                                       ELSE body.availability
      BY <1>0, <2>7 DEF Stock, Form, TypeOK, Exists
    <3>2. PICK v \in Form :
            v = [row[p] EXCEPT !.stockQty = body.stockQty, !.availability = availability]
      BY <1>0, <2>7, <3>1, BodiesAreForms DEF Stock, Form, TypeOK, Exists
    <3>3. v = [row[p] EXCEPT !.stockQty = body.stockQty,
                 !.availability = IF body.availability = Null THEN @ ELSE body.availability]
      BY <1>0, <2>7, <3>1, <3>2 DEF Stock, Form, TypeOK, Exists
    <3>4. QED
      BY <2>5, <2>7, <3>2, <3>3 DEF Stock
  <2>8. ASSUME NEW p \in Products, FindForDelete(h, p) PROVE Fates'
    <3>1. PICK s : s = State("deleting", p, Absent, {}, {}, FALSE)
      OBVIOUS
    <3>2. s \in HandlerState /\ s.pc = "deleting" /\ s.id = p
      BY <3>1 DEF State, HandlerState
    <3>3. h \notin lost /\ h \notin empty
      BY <2>8, IdleTyped DEF FindForDelete, Fates
    <3>4. QED
      BY <2>8, <3>1, <3>2, <3>3, QuietFates DEF FindForDelete, Exists
  <2>9. ASSUME Delete(h) PROVE Fates'
    <3>1. PICK p \in Products : p = handler[h].id
      BY <1>0, <2>9 DEF Delete, TypeOK
    <3>2. PICK v \in Form \cup {Absent} : v = Absent
      OBVIOUS
    <3>3. PICK s : s = State("written", p, Absent, {}, {}, FALSE)
      OBVIOUS
    <3>3a. s.pc = "written"
      BY <3>3 DEF State
    <3>4. (h \in lost <=> ~ Exists(p)) /\ h \notin empty
      BY <2>9, <3>1 DEF Delete, Fates
    <3>5. QED
      BY <2>9, <3>1, <3>2, <3>3, <3>3a, <3>4, WritingFates DEF Delete
  <2>10. ASSUME Record(h) \/ Refuse(h) PROVE Fates'
    BY <2>10, IdleTyped, QuietFates DEF Record, Refuse, End
  <2>11. QED
    BY <1>1, <2>1, <2>2, <2>3, <2>4, <2>6, <2>7, <2>8, <2>9, <2>10 DEF HandlerStep
<1>2. CASE UNCHANGED vars
  BY <1>2 DEF vars, Fates, Exists
<1>3. QED
  BY <1>1, <1>2 DEF Next

(* Of all the requests that interleave, an update or a deletion is         *)
(* recorded and reported without having changed a row when another request *)
(* deleted it in between, and only then                                    *)
(* (adminCatalogController.js:237-244, :309-319).                          *)
THEOREM EmptyWritesAreOvertaken == Spec => []EmptyWritesHaveCause
<1>1. Fates => EmptyWritesHaveCause
  BY DEF Fates, EmptyWritesHaveCause
<1>2. QED
  BY <1>1, Invariant, InitFates, StepKeepsFates, PTL DEF Spec

(* A deleted product never comes back (README.md:92-95).                   *)
THEOREM DeletionIsFinal == Spec => GoneStaysGone
<1> DEFINE Gone == \A p \in Products : p \in used /\ ~ Exists(p) => row'[p] = Absent
<1>1. IInv /\ [Next]_vars => Gone
  <2> SUFFICES ASSUME IInv, [Next]_vars,
                      NEW p \in Products, p \in used, ~ Exists(p)
               PROVE  row'[p] = Absent
    OBVIOUS
  <2>1. row[p] = Absent /\ row \in [Products -> Form \cup {Absent}]
    BY DEF Exists, IInv, TypeOK
  <2>2. ASSUME NEW h \in Handlers, HandlerStep(h) PROVE row'[p] = Absent
    <3>1. CASE UNCHANGED row
      BY <2>1, <3>1
    <3>2. CASE \E q \in Products : Create(h, q)
      BY <2>1, <3>2 DEF Create
    <3>3. CASE Update(h)
      <4>1. row' = [row EXCEPT ![handler[h].id] = IF Exists(handler[h].id)
                                                   THEN Stored(handler[h].values)
                                                   ELSE Absent]
        BY <3>3 DEF Update, Write
      <4>2. QED
        BY <2>1, <4>1 DEF Exists
    <3>4. CASE \E q \in Products, wanted \in BOOLEAN : SetActive(h, q, wanted)
      BY <2>1, <3>4 DEF SetActive, Write, Exists
    <3>5. CASE \E q \in Products, body \in Bodies : Stock(h, q, body.stockQty, body.availability)
      BY <2>1, <3>5 DEF Stock, Write, Exists
    <3>6. CASE Delete(h)
      BY <2>1, <3>6 DEF Delete
    <3>7. QED
      BY <2>2, <3>1, <3>2, <3>3, <3>4, <3>5, <3>6
         DEF HandlerStep, StartCreate, FindForUpdate, FindForDelete, Record, Refuse, End
  <2>3. CASE UNCHANGED vars
    BY <2>1, <2>3 DEF vars
  <2>4. QED
    BY <2>2, <2>3 DEF Next
<1>2. [][Gone]_vars => GoneStaysGone
  BY PTL DEF GoneStaysGone
<1>3. QED
  BY <1>1, <1>2, Invariant, PTL DEF Spec
=============================================================================
