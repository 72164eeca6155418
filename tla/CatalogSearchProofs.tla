------------------------- MODULE CatalogSearchProofs -------------------------
(* What CatalogSearch promises for any catalogue and any number of         *)
(* requests at once.                                                       *)
EXTENDS CatalogSearch, TLAPS

(* What a request that holds s is about.                                   *)
Working(s) ==
  /\ s.pc \in {"creating", "updating"} => s.id \in Products /\ s.word \in Words
  /\ s.pc \in {"found", "renamed", "named", "read"} => s.id \in Brands
  /\ s.pc = "found" => s.name \in Names

(* What it has read is still so, unless it is outdated.                    *)
UpToDate(s) ==
  ~ s.outdated =>
    /\ s.pc \in {"creating", "updating"} => s.name = NameOf(s.brand)
    /\ s.pc = "found" => s.previous = brand[s.id]
    /\ s.pc \in {"named", "read"} => s.name = brand[s.id]
    /\ s.pc = "read" => \A p \in Products :
         s.rows[p] # None /\ Exists(p) =>
           product[p].word = s.rows[p] /\ product[p].brand = s.id

(* It is going to rebuild the text of p: it has still to read the rows of  *)
(* the brand, or has read that of p.                                       *)
Repairs(s, p) ==
  /\ s.pc \in Refreshing /\ s.id = product[p].brand
  /\ s.pc = "read" => s.rows[p] # None

ForeignKey ==
  \A p \in Products : Exists(p) /\ product[p].brand # None => brand[product[p].brand] # None

Repaired ==
  \A p \in Products : Exists(p) /\ ~ Right(p) =>
    excuse[p] # "no" \/ \E h \in Handlers : Repairs(handler[h], p)

IInv ==
  /\ TypeOK /\ ForeignKey /\ Repaired
  /\ \A h \in Handlers : Working(handler[h]) /\ UpToDate(handler[h])

LEMMA IdleTyped ==
  Idle \in HandlerState /\ Idle.pc = "idle" /\ Idle.outdated = FALSE
  BY DEF Idle, HandlerState, NoRows

LEMMA InitIInv == Init => IInv
<1> SUFFICES ASSUME Init PROVE IInv
  OBVIOUS
<1>1. TypeOK
  BY IdleTyped DEF Init, TypeOK
<1>2. \A h \in Handlers : Working(handler[h]) /\ UpToDate(handler[h])
  BY IdleTyped DEF Init, Working, UpToDate
<1>3. ForeignKey /\ Repaired
  BY DEF Init, ForeignKey, Repaired, Exists
<1>4. QED
  BY <1>1, <1>2, <1>3 DEF IInv

(* A row is its three fields.                                              *)
LEMMA RowTyped ==
  ASSUME TypeOK, NEW p \in Products, Exists(p)
  PROVE  /\ product[p] \in Product
         /\ product[p].word \in Words /\ product[p].brand \in Brands \cup {None}
  BY DEF TypeOK, Exists, Product

(* A step of h that changes neither products nor brands, and gives up no   *)
(* repair without an excuse.                                               *)
LEMMA QuietStep ==
  ASSUME IInv, NEW h \in Handlers, NEW s \in HandlerState, Working(s), UpToDate(s),
         handler' = [handler EXCEPT ![h] = s], UNCHANGED <<brand, product>>,
         excuse' \in [Products -> {"no", "race", "lost"}],
         \A p \in Products : excuse[p] # "no" => excuse'[p] # "no",
         \A p \in Products : Exists(p) /\ Repairs(handler[h], p) =>
                               Repairs(s, p) \/ excuse'[p] # "no"
  PROVE  IInv'
<1>1. TypeOK'
  BY DEF IInv, TypeOK
<1>2. /\ \A p : Exists(p)' <=> Exists(p)
      /\ \A p : Right(p)' <=> Right(p)
      /\ \A b : NameOf(b)' = NameOf(b)
  BY DEF Exists, Right, NameOf
<1>3. handler'[h] = s /\ \A k \in Handlers \ {h} : handler'[k] = handler[k]
  BY DEF IInv, TypeOK
<1>4. ForeignKey'
  BY <1>2 DEF IInv, ForeignKey
<1>5. \A t : (UpToDate(t) => UpToDate(t)') /\ \A p : Repairs(t, p) => Repairs(t, p)'
  BY <1>2 DEF UpToDate, Repairs
<1>6. Repaired'
  <2> SUFFICES ASSUME NEW p \in Products, Exists(p)', ~ Right(p)', excuse'[p] = "no"
               PROVE  \E k \in Handlers : Repairs(handler[k], p)'
    BY DEF Repaired
  <2>1. PICK k \in Handlers : Repairs(handler[k], p)
    BY <1>2 DEF IInv, Repaired
  <2>2. CASE k = h
    <3>1. Repairs(s, p)'
      BY <1>2, <1>5, <2>1, <2>2
    <3>2. QED
      BY <1>3, <3>1 DEF Repairs
  <2>3. CASE k # h
    BY <1>3, <1>5, <2>1, <2>3 DEF Repairs
  <2>4. QED
    BY <2>2, <2>3
<1>7. ASSUME NEW k \in Handlers PROVE Working(handler[k])' /\ UpToDate(handler[k])'
  <2>1. CASE k = h
    <3>1. Working(s) /\ UpToDate(s)'
      BY <1>5
    <3>2. QED
      BY <1>3, <2>1, <3>1 DEF Working, UpToDate
  <2>2. CASE k # h
    <3>1. Working(handler[k]) /\ UpToDate(handler[k])'
      BY <1>2 DEF IInv, UpToDate
    <3>2. QED
      BY <1>3, <2>2, <3>1 DEF IInv, Working, UpToDate
  <2>3. QED
    BY <2>1, <2>2
<1>8. QED
  BY <1>1, <1>4, <1>6, <1>7 DEF IInv

LEMMA ReadBrandNameStep ==
  ASSUME IInv, NEW h \in Handlers, NEW pc \in {"creating", "updating"}, NEW p \in Products,
         NEW w \in Words, NEW b \in Brands \cup {None}, ReadBrandName(h, pc, p, w, b)
  PROVE  IInv'
<1>1. NameOf(b) \in Names \cup {None}
  BY DEF IInv, TypeOK, NameOf
<1>2. PICK s : s = [Idle EXCEPT !.pc = pc, !.id = p, !.word = w, !.brand = b, !.name = NameOf(b)]
  OBVIOUS
<1>3. /\ s \in HandlerState
      /\ s.pc = pc /\ s.id = p /\ s.word = w /\ s.brand = b /\ s.name = NameOf(b)
  BY <1>1, <1>2 DEF Idle, HandlerState, NoRows
<1>4. Working(s) /\ UpToDate(s)
  BY <1>3 DEF Working, UpToDate
<1>5. \A q : ~ Repairs(handler[h], q)
  BY DEF ReadBrandName, Repairs, Refreshing
<1>6. handler' = [handler EXCEPT ![h] = s] /\ UNCHANGED <<brand, product, excuse>>
  BY <1>2 DEF ReadBrandName
<1>7. QED
  BY <1>3, <1>4, <1>5, <1>6, QuietStep DEF IInv, TypeOK

LEMMA FindBrandStep ==
  ASSUME IInv, NEW h \in Handlers, NEW b \in Brands, NEW n \in Names, FindBrand(h, b, n)
  PROVE  IInv'
<1>1. brand[b] \in Names \cup {None}
  BY DEF IInv, TypeOK
<1>2. PICK s : s = [Idle EXCEPT !.pc = "found", !.id = b, !.name = n, !.previous = brand[b]]
  OBVIOUS
<1>3. /\ s \in HandlerState
      /\ s.pc = "found" /\ s.id = b /\ s.name = n /\ s.previous = brand[b]
  BY <1>1, <1>2 DEF Idle, HandlerState, NoRows
<1>4. Working(s) /\ UpToDate(s)
  BY <1>3 DEF Working, UpToDate
<1>5. \A q : ~ Repairs(handler[h], q)
  BY DEF FindBrand, Repairs, Refreshing
<1>6. handler' = [handler EXCEPT ![h] = s] /\ UNCHANGED <<brand, product, excuse>>
  BY <1>2 DEF FindBrand
<1>7. QED
  BY <1>3, <1>4, <1>5, <1>6, QuietStep DEF IInv, TypeOK

LEMMA RefreshNameStep ==
  ASSUME IInv, NEW h \in Handlers, RefreshName(h)
  PROVE  IInv'
<1>1. PICK b \in Brands : b = handler[h].id
  BY DEF IInv, Working, RefreshName
<1>2. brand[b] \in Names \cup {None}
  BY DEF IInv, TypeOK
<1>3. PICK s : s = [Idle EXCEPT !.pc = "named", !.id = b, !.name = brand[b]]
  OBVIOUS
<1>4. /\ s \in HandlerState
      /\ s.pc = "named" /\ s.id = b /\ s.name = brand[b]
  BY <1>2, <1>3 DEF Idle, HandlerState, NoRows
<1>5. Working(s) /\ UpToDate(s)
  BY <1>4 DEF Working, UpToDate
<1>6. \A q : Repairs(handler[h], q) => Repairs(s, q)
  BY <1>1, <1>4 DEF Repairs, Refreshing
<1>7. handler' = [handler EXCEPT ![h] = s] /\ UNCHANGED <<brand, product, excuse>>
  BY <1>1, <1>3 DEF RefreshName
<1>8. QED
  BY <1>4, <1>5, <1>6, <1>7, QuietStep DEF IInv, TypeOK

LEMMA RefreshRowsStep ==
  ASSUME IInv, NEW h \in Handlers, RefreshRows(h)
  PROVE  IInv'
<1>1. PICK b \in Brands : b = handler[h].id
  BY DEF IInv, Working, RefreshRows
<1>2. handler[h] \in HandlerState /\ handler[h].pc = "named" /\ UpToDate(handler[h])
  BY DEF IInv, TypeOK, RefreshRows
<1>3. CASE Of(b) = {}
  <2>1. PICK s : s = [Idle EXCEPT !.pc = "written", !.id = b]
    OBVIOUS
  <2>2. s \in HandlerState /\ s.pc = "written"
    BY <2>1 DEF Idle, HandlerState, NoRows
  <2>3. Working(s) /\ UpToDate(s)
    BY <2>2 DEF Working, UpToDate
  <2>4. \A q \in Products : Exists(q) => ~ Repairs(handler[h], q)
    BY <1>1, <1>3 DEF Repairs, Of
  <2>5. handler' = [handler EXCEPT ![h] = s] /\ UNCHANGED <<brand, product, excuse>>
    BY <1>1, <1>3, <2>1 DEF RefreshRows
  <2>6. QED
    BY <2>2, <2>3, <2>4, <2>5, QuietStep DEF IInv, TypeOK
<1>4. CASE Of(b) # {}
  <2>1. PICK rows : rows = [p \in Products |-> IF p \in Of(b) THEN product[p].word ELSE None]
    OBVIOUS
  <2>2. \A p \in Of(b) : product[p].word \in Words /\ product[p].word # None
    BY RowTyped, NoneIsNothing DEF IInv, Of
  <2>3. rows \in [Products -> Words \cup {None}]
    BY <2>1, <2>2
  <2>4. PICK s : s = [handler[h] EXCEPT !.pc = "read", !.rows = rows]
    OBVIOUS
  <2>5. /\ s \in HandlerState
        /\ s.pc = "read" /\ s.id = b /\ s.rows = rows
        /\ s.name = handler[h].name /\ s.outdated = handler[h].outdated
    BY <1>1, <1>2, <2>3, <2>4 DEF HandlerState
  <2>6. Working(s)
    BY <2>5 DEF Working
  <2>7. UpToDate(s)
    BY <1>1, <1>2, <2>1, <2>5 DEF UpToDate, Of
  <2>8. \A q \in Products : Exists(q) /\ Repairs(handler[h], q) => Repairs(s, q)
    BY <1>1, <2>1, <2>2, <2>5 DEF Repairs, Refreshing, Of
  <2>9. handler' = [handler EXCEPT ![h] = s] /\ UNCHANGED <<brand, product, excuse>>
    BY <1>1, <1>4, <2>1, <2>4 DEF RefreshRows, IInv, TypeOK
  <2>10. QED
    BY <2>5, <2>6, <2>7, <2>8, <2>9, QuietStep DEF IInv, TypeOK
<1>5. QED
  BY <1>3, <1>4

(* The answer, the refusal, the update of nothing and the cut.             *)
LEMMA EndStep ==
  ASSUME IInv, NEW h \in Handlers, UpdateNowhere(h) \/ Refuse(h) \/ CutOff(h) \/ Answer(h)
  PROVE  IInv'
<1>1. PICK s : s = IF UpdateNowhere(h) THEN [Idle EXCEPT !.pc = "written"] ELSE Idle
  OBVIOUS
<1>2. s \in HandlerState /\ s.pc \in {"idle", "written"}
  BY <1>1, IdleTyped DEF Idle, HandlerState, NoRows
<1>3. Working(s) /\ UpToDate(s)
  BY <1>2 DEF Working, UpToDate
<1>4. handler' = [handler EXCEPT ![h] = s] /\ UNCHANGED <<brand, product>>
  BY <1>1 DEF UpdateNowhere, Refuse, CutOff, Answer
<1>5. CASE CutOff(h)
  <2>1. excuse' \in [Products -> {"no", "race", "lost"}]
    BY <1>5 DEF IInv, TypeOK, CutOff, Excuse
  <2>2. /\ \A p \in Products : excuse[p] # "no" => excuse'[p] # "no"
        /\ \A p \in Products : Exists(p) /\ Repairs(handler[h], p) => excuse'[p] # "no"
    BY <1>5 DEF CutOff, Excuse, Repairs, Of
  <2>3. QED
    BY <1>2, <1>3, <1>4, <2>1, <2>2, QuietStep
<1>6. CASE ~ CutOff(h)
  <2>1. UNCHANGED excuse /\ \A q : ~ Repairs(handler[h], q)
    BY <1>6 DEF UpdateNowhere, Refuse, Answer, Repairs, Refreshing
  <2>2. QED
    BY <1>2, <1>3, <1>4, <2>1, QuietStep DEF IInv, TypeOK
<1>7. QED
  BY <1>5, <1>6

---------------------------------------------------------------------------
(* m is t, perhaps outdated in addition.                                   *)
Marked(m, t) ==
  /\ m \in HandlerState
  /\ m.pc = t.pc /\ m.id = t.id /\ m.word = t.word /\ m.brand = t.brand
  /\ m.name = t.name /\ m.previous = t.previous /\ m.rows = t.rows
  /\ t.outdated => m.outdated

LEMMA ExceptMarks ==
  ASSUME NEW t \in HandlerState, NEW touched \in BOOLEAN
  PROVE  /\ Marked([t EXCEPT !.outdated = @ \/ touched], t)
         /\ touched => [t EXCEPT !.outdated = @ \/ touched].outdated
<1>1. PICK o \in BOOLEAN : o <=> t.outdated \/ touched
  BY DEF HandlerState
<1>2. (t.outdated \/ touched) \in BOOLEAN /\ o = (t.outdated \/ touched)
  BY <1>1
<1>3. [t EXCEPT !.outdated = @ \/ touched] = [t EXCEPT !.outdated = o]
  BY <1>2
<1>4. PICK m : m = [t EXCEPT !.outdated = o]
  OBVIOUS
<1>5. /\ m \in HandlerState
      /\ m.pc = t.pc /\ m.id = t.id /\ m.word = t.word /\ m.brand = t.brand
      /\ m.name = t.name /\ m.previous = t.previous /\ m.rows = t.rows
      /\ m.outdated = o
  BY <1>4 DEF HandlerState
<1>6. QED
  BY <1>1, <1>3, <1>4, <1>5 DEF Marked

LEMMA TouchedMarked ==
  ASSUME IInv, NEW k \in Handlers, NEW touched \in BOOLEAN,
         handler'[k] = [handler[k] EXCEPT !.outdated = @ \/ touched]
  PROVE  Marked(handler'[k], handler[k]) /\ (touched => handler'[k].outdated)
<1>1. PICK u \in HandlerState : u = handler[k]
  BY DEF IInv, TypeOK
<1>2. /\ Marked([u EXCEPT !.outdated = @ \/ touched], u)
      /\ touched => [u EXCEPT !.outdated = @ \/ touched].outdated
  BY ExceptMarks
<1>3. QED
  BY <1>1, <1>2

(* A write of h: the requests in T have read what it changes, the others   *)
(* have not, and every text that is not right now has an excuse, is for h  *)
(* to rebuild, or was not right before and not for h.                      *)
LEMMA WritingStep ==
  ASSUME IInv, NEW h \in Handlers, NEW s \in HandlerState, NEW T \in SUBSET Handlers,
         handler' \in [Handlers -> HandlerState], handler'[h] = s,
         \A k \in Handlers \ {h} : Marked(handler'[k], handler[k]),
         \A k \in T \ {h} : handler'[k].outdated,
         brand' \in [Brands -> Names \cup {None}],
         product' \in [Products -> Product \cup {None}],
         excuse' \in [Products -> {"no", "race", "lost"}],
         Working(s), UpToDate(s)', ForeignKey',
         \A k \in Handlers \ {h} : k \notin T => \A t \in HandlerState :
           t = handler[k] => UpToDate(t)',
         \A p \in Products : Exists(p)' /\ ~ Right(p)' =>
           \/ excuse'[p] # "no"
           \/ Repairs(s, p)'
           \/ /\ Exists(p) /\ ~ Right(p) /\ excuse[p] = "no"
              /\ product'[p].brand = product[p].brand
              /\ ~ Repairs(handler[h], p)
  PROVE  IInv'
<1>1. TypeOK'
  BY DEF TypeOK
<1>2. Repaired'
  <2> SUFFICES ASSUME NEW p \in Products, Exists(p)', ~ Right(p)', excuse'[p] = "no"
               PROVE  \E k \in Handlers : Repairs(handler[k], p)'
    BY DEF Repaired
  <2>1. CASE Repairs(s, p)'
    BY <2>1 DEF Repairs
  <2>2. CASE ~ Repairs(s, p)'
    <3>1. /\ Exists(p) /\ ~ Right(p) /\ excuse[p] = "no"
          /\ product'[p].brand = product[p].brand /\ ~ Repairs(handler[h], p)
      BY <2>2
    <3>2. PICK k \in Handlers : Repairs(handler[k], p)
      BY <3>1 DEF IInv, Repaired
    <3>3. k # h
      BY <3>1, <3>2
    <3>4. /\ handler'[k].pc = handler[k].pc /\ handler'[k].id = handler[k].id
          /\ handler'[k].rows = handler[k].rows
      BY <3>3 DEF Marked
    <3>5. QED
      BY <3>1, <3>2, <3>4 DEF Repairs
  <2>3. QED
    BY <2>1, <2>2
<1>3. ASSUME NEW k \in Handlers PROVE Working(handler[k])' /\ UpToDate(handler[k])'
  <2>1. CASE k = h
    BY <2>1 DEF Working, UpToDate
  <2>2. CASE k # h
    <3>1. Marked(handler'[k], handler[k])
      BY <2>2
    <3>2. Working(handler[k])'
      BY <3>1 DEF IInv, Working, Marked
    <3>3. CASE k \in T
      BY <2>2, <3>2, <3>3 DEF UpToDate
    <3>4. CASE k \notin T
      <4>1. PICK t \in HandlerState : t = handler[k]
        BY DEF IInv, TypeOK
      <4>2. UpToDate(t)' /\ Marked(handler'[k], t)
        BY <2>2, <3>1, <3>4, <4>1
      <4>3. QED
        BY <3>2, <4>2 DEF UpToDate, Marked, NameOf, Exists
    <3>5. QED
      BY <3>2, <3>3, <3>4
  <2>3. QED
    BY <2>1, <2>2
<1>4. QED
  BY <1>1, <1>2, <1>3 DEF IInv

(* The other requests do not notice.                                       *)
LEMMA OthersSame ==
  ASSUME TypeOK, NEW h \in Handlers, NEW s \in HandlerState,
         handler' = [handler EXCEPT ![h] = s]
  PROVE  /\ handler' \in [Handlers -> HandlerState] /\ handler'[h] = s
         /\ \A k \in Handlers \ {h} : Marked(handler'[k], handler[k])
  BY DEF TypeOK, Marked

(* The row of p with its text: it is right unless the name is outdated.    *)
LEMMA WriteProductStep ==
  ASSUME IInv, NEW h \in Handlers, WriteProduct(h)
  PROVE  IInv'
<1>1. PICK t \in HandlerState : t = handler[h] /\ Working(t) /\ UpToDate(t)
  BY DEF IInv, TypeOK
<1>2. t.pc \in {"creating", "updating"} /\ t.brand \in Accepted
  BY <1>1 DEF WriteProduct
<1>3. PICK p \in Products : p = t.id
  BY <1>1, <1>2 DEF Working
<1>4. t.word \in Words /\ t.brand \in Brands \cup {None} /\ t.name \in Names \cup {None}
  BY <1>1, <1>2 DEF Working, HandlerState
<1>5. PICK new : new = [word |-> t.word, brand |-> t.brand,
                        text |-> [word |-> t.word, name |-> t.name]]
  OBVIOUS
<1>6. /\ new \in Product /\ new # None /\ new.word = t.word /\ new.brand = t.brand
      /\ new.text = [word |-> t.word, name |-> t.name]
  BY <1>4, <1>5, NoneIsNoProduct DEF Product, Text
<1>7. PICK s : s = [Idle EXCEPT !.pc = "written"]
  OBVIOUS
<1>8. s \in HandlerState /\ s.pc = "written"
  BY <1>7 DEF Idle, HandlerState, NoRows
<1>9. Working(s) /\ UpToDate(s)'
  BY <1>8 DEF Working, UpToDate
<1>10. /\ product' = [product EXCEPT ![p] = new] /\ UNCHANGED brand
       /\ excuse' = [q \in Products |-> IF q = p THEN IF t.outdated THEN "race" ELSE "no"
                                                 ELSE excuse[q]]
  BY <1>1, <1>3, <1>5 DEF WriteProduct, Excuse
<1>11. /\ product' \in [Products -> Product \cup {None}] /\ product'[p] = new
       /\ \A q \in Products \ {p} : product'[q] = product[q]
       /\ excuse' \in [Products -> {"no", "race", "lost"}]
       /\ brand' \in [Brands -> Names \cup {None}]
  BY <1>6, <1>10 DEF IInv, TypeOK
<1>12. PICK T \in SUBSET Handlers : T = {k \in Handlers : HasRow(p, handler[k])}
  OBVIOUS
<1>13. /\ handler'[h] = s
       /\ \A k \in Handlers \ {h} :
            handler'[k] = [handler[k] EXCEPT !.outdated = @ \/ HasRow(p, handler[k])]
  BY <1>1, <1>3, <1>7 DEF WriteProduct, Written
<1>14. ASSUME NEW k \in Handlers \ {h}
       PROVE  Marked(handler'[k], handler[k]) /\ (k \in T => handler'[k].outdated)
  <2>1. PICK touched \in BOOLEAN : touched = HasRow(p, handler[k])
    BY DEF HasRow
  <2>2. handler'[k] = [handler[k] EXCEPT !.outdated = @ \/ touched]
    BY <1>13, <2>1
  <2>3. k \in T => touched
    BY <1>12, <2>1
  <2>4. QED
    BY <2>2, <2>3, TouchedMarked
<1>15. handler' \in [Handlers -> HandlerState]
  <2>1. handler' = [k \in Handlers |-> handler'[k]]
    BY DEF WriteProduct, Written
  <2>2. \A k \in Handlers : handler'[k] \in HandlerState
    BY <1>8, <1>13, <1>14 DEF Marked
  <2>3. QED
    BY <2>1, <2>2
<1>16. ForeignKey'
  <2>1. t.brand # None => brand[t.brand] # None
    BY <1>2 DEF Accepted
  <2>2. QED
    BY <1>6, <1>10, <1>11, <2>1 DEF IInv, ForeignKey, Exists
<1>17. ASSUME NEW k \in Handlers \ {h}, k \notin T, NEW u \in HandlerState, u = handler[k]
       PROVE  UpToDate(u)'
  <2>1. UpToDate(u) /\ u.rows[p] = None
    BY <1>12, <1>17 DEF IInv, HasRow
  <2>2. QED
    BY <1>10, <1>11, <2>1 DEF UpToDate, NameOf, Exists
<1>18. ASSUME NEW q \in Products, Exists(q)', ~ Right(q)', excuse'[q] = "no"
       PROVE  /\ Exists(q) /\ ~ Right(q) /\ excuse[q] = "no"
              /\ product'[q].brand = product[q].brand /\ ~ Repairs(handler[h], q)
  <2>1. q # p
    <3>1. SUFFICES ASSUME q = p PROVE FALSE
      OBVIOUS
    <3>2. ~ t.outdated
      BY <1>10, <1>18, <3>1
    <3>3. t.name = NameOf(t.brand)
      BY <1>1, <1>2, <3>2 DEF UpToDate
    <3>4. Right(p)'
      BY <1>6, <1>10, <1>11, <3>3 DEF Right, NameOf
    <3>5. QED
      BY <1>18, <3>1, <3>4
  <2>2. product'[q] = product[q] /\ excuse'[q] = excuse[q]
    BY <1>10, <1>11, <2>1
  <2>3. QED
    BY <1>1, <1>2, <1>10, <1>18, <2>2 DEF Exists, Right, NameOf, Repairs, Refreshing
<1>19. QED
  BY <1>8, <1>9, <1>11, <1>13, <1>14, <1>15, <1>16, <1>17, <1>18, WritingStep

LEMMA DeleteProductStep ==
  ASSUME IInv, NEW h \in Handlers, NEW p \in Products, DeleteProduct(h, p)
  PROVE  IInv'
<1>1. PICK s : s = [handler[h] EXCEPT !.pc = "written"]
  OBVIOUS
<1>2. s \in HandlerState /\ s.pc = "written"
  BY <1>1 DEF IInv, TypeOK, HandlerState
<1>3. Working(s) /\ UpToDate(s)'
  BY <1>2 DEF Working, UpToDate
<1>4. handler' = [handler EXCEPT ![h] = s]
  BY <1>1 DEF DeleteProduct, Goto
<1>5. /\ product' \in [Products -> Product \cup {None}] /\ product'[p] = None
      /\ \A q \in Products \ {p} : product'[q] = product[q] /\ excuse'[q] = excuse[q]
      /\ excuse' \in [Products -> {"no", "race", "lost"}]
      /\ brand' \in [Brands -> Names \cup {None}] /\ UNCHANGED brand
  BY DEF DeleteProduct, Excuse, IInv, TypeOK
<1>6. ForeignKey'
  BY <1>5 DEF IInv, ForeignKey, Exists
<1>7. ASSUME NEW k \in Handlers, NEW u \in HandlerState, u = handler[k]
      PROVE  UpToDate(u)'
  <2>1. UpToDate(u)
    BY <1>7 DEF IInv
  <2>2. QED
    BY <1>5, <2>1 DEF UpToDate, NameOf, Exists
<1>8. ASSUME NEW q \in Products, Exists(q)', ~ Right(q)', excuse'[q] = "no"
      PROVE  /\ Exists(q) /\ ~ Right(q) /\ excuse[q] = "no"
             /\ product'[q].brand = product[q].brand /\ ~ Repairs(handler[h], q)
  BY <1>5, <1>8 DEF Exists, Right, NameOf, Repairs, Refreshing, DeleteProduct
<1>9. TypeOK
  BY DEF IInv
<1>10. /\ handler' \in [Handlers -> HandlerState] /\ handler'[h] = s
       /\ \A k \in Handlers \ {h} : Marked(handler'[k], handler[k])
  BY <1>2, <1>4, <1>9, OthersSame
<1>11. PICK T \in SUBSET Handlers : T = {}
  OBVIOUS
<1>12. QED
  BY <1>2, <1>3, <1>5, <1>6, <1>7, <1>8, <1>10, <1>11, WritingStep

(* No request refers to a brand that is not there yet.                     *)
LEMMA CreateBrandStep ==
  ASSUME IInv, NEW h \in Handlers, NEW b \in Brands, NEW n \in Names, CreateBrand(h, b, n)
  PROVE  IInv'
<1>1. PICK s : s = [handler[h] EXCEPT !.pc = "written"]
  OBVIOUS
<1>2. s \in HandlerState /\ s.pc = "written"
  BY <1>1 DEF IInv, TypeOK, HandlerState
<1>3. Working(s) /\ UpToDate(s)'
  BY <1>2 DEF Working, UpToDate
<1>4. /\ brand' \in [Brands -> Names \cup {None}] /\ brand'[b] = n /\ brand[b] = None
      /\ \A c : c # b => brand'[c] = brand[c]
      /\ UNCHANGED <<product, excuse>>
      /\ handler' = [handler EXCEPT ![h] = s]
  BY <1>1 DEF CreateBrand, Goto, IInv, TypeOK
<1>5. n # None /\ b # None
  BY NoneIsNothing
<1>6. ForeignKey'
  BY <1>4, <1>5 DEF IInv, ForeignKey, Exists
<1>7. ASSUME NEW k \in Handlers, NEW u \in HandlerState, u = handler[k]
      PROVE  UpToDate(u)'
  <2>1. UpToDate(u) /\ u.id # b /\ u.brand # b
    BY <1>7 DEF IInv, CreateBrand, Unused
  <2>2. QED
    BY <1>4, <2>1 DEF UpToDate, NameOf, Exists
<1>8. ASSUME NEW q \in Products, Exists(q)', ~ Right(q)', excuse'[q] = "no"
      PROVE  /\ Exists(q) /\ ~ Right(q) /\ excuse[q] = "no"
             /\ product'[q].brand = product[q].brand /\ ~ Repairs(handler[h], q)
  <2>1. Exists(q) /\ product[q].brand # b
    BY <1>4, <1>5, <1>8 DEF IInv, ForeignKey, Exists
  <2>2. QED
    BY <1>4, <1>8, <2>1 DEF Right, NameOf, Repairs, Refreshing, CreateBrand
<1>9. TypeOK
  BY DEF IInv
<1>10. /\ handler' \in [Handlers -> HandlerState] /\ handler'[h] = s
       /\ \A k \in Handlers \ {h} : Marked(handler'[k], handler[k])
  BY <1>2, <1>4, <1>9, OthersSame
<1>11. PICK T \in SUBSET Handlers : T = {}
  OBVIOUS
<1>12. product' \in [Products -> Product \cup {None}]
       /\ excuse' \in [Products -> {"no", "race", "lost"}]
  BY <1>4, <1>9 DEF TypeOK
<1>13. QED
  BY <1>2, <1>3, <1>4, <1>6, <1>7, <1>8, <1>10, <1>11, <1>12, WritingStep

(* The rename: either the texts are going to be rebuilt, or the name stays *)
(* what it was, or another request renamed the brand first.                *)
LEMMA UpdateBrandStep ==
  ASSUME IInv, NEW h \in Handlers, UpdateBrand(h)
  PROVE  IInv'
<1>1. PICK t \in HandlerState : t = handler[h] /\ Working(t) /\ UpToDate(t)
  BY DEF IInv, TypeOK
<1>2. t.pc = "found"
  BY <1>1 DEF UpdateBrand
<1>3. PICK b \in Brands : b = t.id
  BY <1>1, <1>2 DEF Working
<1>4. t.name \in Names /\ t.name # None /\ b # None
  BY <1>1, <1>2, NoneIsNothing DEF Working
<1>5. PICK s : s = [Idle EXCEPT !.pc = IF t.name # t.previous THEN "renamed" ELSE "written",
                                !.id = b]
  OBVIOUS
<1>6. /\ s \in HandlerState /\ s.id = b
      /\ s.pc = IF t.name # t.previous THEN "renamed" ELSE "written"
  BY <1>5 DEF Idle, HandlerState, NoRows
<1>7. Working(s) /\ UpToDate(s)'
  BY <1>6 DEF Working, UpToDate
<1>8. /\ brand' = IF brand[b] = None THEN brand ELSE [brand EXCEPT ![b] = t.name]
      /\ UNCHANGED product
      /\ excuse' = [q \in Products |->
           IF q \in (IF t.outdated /\ ~ (t.name # t.previous) THEN Of(b) ELSE {})
             THEN "race" ELSE excuse[q]]
  BY <1>1, <1>3 DEF UpdateBrand, Excuse
<1>9. /\ brand' \in [Brands -> Names \cup {None}]
      /\ \A c : c # b => brand'[c] = brand[c]
      /\ brand[b] # None => brand'[b] = t.name
      /\ brand[b] = None => brand'[b] = None
  BY <1>4, <1>8 DEF IInv, TypeOK
<1>10. /\ product' \in [Products -> Product \cup {None}]
       /\ excuse' \in [Products -> {"no", "race", "lost"}]
  BY <1>8 DEF IInv, TypeOK
<1>11. PICK T \in SUBSET Handlers :
         T = {k \in Handlers : brand'[b] # brand[b] /\ HasName(b, handler[k])}
  OBVIOUS
<1>12. /\ handler'[h] = s
       /\ \A k \in Handlers \ {h} :
            handler'[k] = [handler[k] EXCEPT
              !.outdated = @ \/ (brand'[b] # brand[b] /\ HasName(b, handler[k]))]
  BY <1>1, <1>3, <1>5 DEF UpdateBrand, Written
<1>13. ASSUME NEW k \in Handlers \ {h}
       PROVE  Marked(handler'[k], handler[k]) /\ (k \in T => handler'[k].outdated)
  <2>1. PICK touched \in BOOLEAN : touched = (brand'[b] # brand[b] /\ HasName(b, handler[k]))
    OBVIOUS
  <2>2. handler'[k] = [handler[k] EXCEPT !.outdated = @ \/ touched]
    BY <1>12, <2>1
  <2>3. k \in T => touched
    BY <1>11, <2>1
  <2>4. QED
    BY <2>2, <2>3, TouchedMarked
<1>14. handler' \in [Handlers -> HandlerState]
  <2>1. handler' = [k \in Handlers |-> handler'[k]]
    BY DEF UpdateBrand, Written
  <2>2. \A k \in Handlers : handler'[k] \in HandlerState
    BY <1>6, <1>12, <1>13 DEF Marked
  <2>3. QED
    BY <2>1, <2>2
<1>15. ForeignKey'
  BY <1>4, <1>8, <1>9 DEF IInv, ForeignKey, Exists
<1>16. ASSUME NEW k \in Handlers \ {h}, k \notin T, NEW u \in HandlerState, u = handler[k]
       PROVE  UpToDate(u)'
  <2>1. UpToDate(u)
    BY <1>16 DEF IInv
  <2>2. CASE brand'[b] = brand[b]
    <3>1. \A c : brand'[c] = brand[c]
      BY <1>9, <2>2
    <3>2. QED
      BY <1>8, <2>1, <3>1 DEF UpToDate, NameOf, Exists
  <2>3. CASE brand'[b] # brand[b]
    <3>1. ~ HasName(b, u)
      BY <1>11, <1>16, <2>3
    <3>2. QED
      BY <1>8, <1>9, <2>1, <3>1 DEF UpToDate, HasName, NameOf, Exists
  <2>4. QED
    BY <2>2, <2>3
<1>17. ASSUME NEW q \in Products, Exists(q)', ~ Right(q)', excuse'[q] = "no"
       PROVE  \/ Repairs(s, q)'
              \/ /\ Exists(q) /\ ~ Right(q) /\ excuse[q] = "no"
                 /\ product'[q].brand = product[q].brand /\ ~ Repairs(handler[h], q)
  <2>1. /\ Exists(q) /\ excuse[q] = "no" /\ product'[q] = product[q]
        /\ ~ Repairs(handler[h], q)
    BY <1>1, <1>2, <1>8, <1>17 DEF Exists, Repairs, Refreshing
  <2>2. CASE product[q].brand # b
    BY <1>9, <1>17, <2>1, <2>2 DEF Right, NameOf
  <2>3. CASE product[q].brand = b /\ t.name # t.previous
    BY <1>6, <2>1, <2>3 DEF Repairs, Refreshing
  <2>4. CASE product[q].brand = b /\ t.name = t.previous
    <3>1. ~ t.outdated
      BY <1>8, <1>17, <2>1, <2>4 DEF Of
    <3>2. brand[b] = t.name
      BY <1>1, <1>2, <1>3, <2>4, <3>1 DEF UpToDate
    <3>3. \A c : brand'[c] = brand[c]
      BY <1>4, <1>9, <3>2
    <3>4. QED
      BY <1>17, <2>1, <3>3 DEF Right, NameOf
  <2>5. QED
    BY <2>2, <2>3, <2>4
<1>18. QED
  BY <1>6, <1>7, <1>9, <1>10, <1>12, <1>13, <1>14, <1>15, <1>16, <1>17, WritingStep

(* The texts of the rows that were read: right, unless something changed   *)
(* since.                                                                  *)
LEMMA RefreshWriteStep ==
  ASSUME IInv, NEW h \in Handlers, RefreshWrite(h)
  PROVE  IInv'
<1>1. PICK t \in HandlerState : t = handler[h] /\ Working(t) /\ UpToDate(t)
  BY DEF IInv, TypeOK
<1>2. t.pc = "read"
  BY <1>1 DEF RefreshWrite
<1>3. PICK b \in Brands : b = t.id /\ b # None
  BY <1>1, <1>2, NoneIsNothing DEF Working
<1>4. t.rows \in [Products -> Words \cup {None}] /\ t.name \in Names \cup {None}
  BY DEF HandlerState
<1>5. PICK rows \in SUBSET Products : rows = {p \in Products : t.rows[p] # None /\ Exists(p)}
  OBVIOUS
<1>6. PICK s : s = [Idle EXCEPT !.pc = "written", !.id = b]
  OBVIOUS
<1>7. s \in HandlerState /\ s.pc = "written"
  BY <1>6 DEF Idle, HandlerState, NoRows
<1>8. Working(s) /\ UpToDate(s)'
  BY <1>7 DEF Working, UpToDate
<1>9. /\ product' = [p \in Products |->
           IF p \in rows THEN [product[p] EXCEPT !.text = [word |-> t.rows[p], name |-> t.name]]
                         ELSE product[p]]
      /\ excuse' = [p \in Products |->
           IF p \in rows THEN IF t.outdated THEN "race" ELSE "no" ELSE excuse[p]]
      /\ handler' = [handler EXCEPT ![h] = s]
      /\ UNCHANGED brand
  BY <1>1, <1>3, <1>5, <1>6 DEF RefreshWrite, Excuse
<1>10. ASSUME NEW p \in rows
       PROVE  /\ product'[p] \in Product /\ product'[p] # None
              /\ product'[p].word = product[p].word /\ product'[p].brand = product[p].brand
              /\ product'[p].text = [word |-> t.rows[p], name |-> t.name]
  <2>1. product[p] \in Product /\ t.rows[p] \in Words
    BY <1>4, <1>5 DEF IInv, TypeOK, Exists
  <2>2. PICK text \in Text : text = [word |-> t.rows[p], name |-> t.name]
    BY <1>4, <2>1 DEF Text
  <2>3. product'[p] = [product[p] EXCEPT !.text = text]
    BY <1>9, <2>2
  <2>4. QED
    BY <2>1, <2>2, <2>3, NoneIsNoProduct DEF Product
<1>11. \A p \in Products \ rows : product'[p] = product[p] /\ excuse'[p] = excuse[p]
  BY <1>9
<1>12. /\ product' \in [Products -> Product \cup {None}]
       /\ excuse' \in [Products -> {"no", "race", "lost"}]
       /\ brand' \in [Brands -> Names \cup {None}]
  <2>1. \A p \in Products : product'[p] \in Product \cup {None}
    BY <1>10, <1>11 DEF IInv, TypeOK
  <2>2. QED
    BY <1>9, <2>1 DEF IInv, TypeOK
<1>13. \A p \in Products :
         /\ Exists(p)' <=> Exists(p)
         /\ Exists(p) => /\ product'[p].word = product[p].word
                         /\ product'[p].brand = product[p].brand
  BY <1>5, <1>10, <1>11 DEF Exists
<1>14. ForeignKey'
  BY <1>9, <1>13 DEF IInv, ForeignKey
<1>15. ASSUME NEW k \in Handlers, NEW u \in HandlerState, u = handler[k]
       PROVE  UpToDate(u)'
  <2>1. UpToDate(u)
    BY <1>15 DEF IInv
  <2>2. QED
    BY <1>9, <1>13, <2>1 DEF UpToDate, NameOf
<1>16. ASSUME NEW q \in Products, Exists(q)', ~ Right(q)', excuse'[q] = "no"
       PROVE  /\ Exists(q) /\ ~ Right(q) /\ excuse[q] = "no"
              /\ product'[q].brand = product[q].brand /\ ~ Repairs(handler[h], q)
  <2>1. CASE q \in rows
    <3>1. ~ t.outdated /\ Exists(q) /\ t.rows[q] # None
      BY <1>5, <1>9, <1>16, <2>1
    <3>2. /\ product[q].word = t.rows[q] /\ product[q].brand = b
          /\ t.name = brand[b]
      BY <1>1, <1>2, <1>3, <3>1 DEF UpToDate
    <3>3. Right(q)'
      BY <1>3, <1>9, <1>10, <2>1, <3>2 DEF Right, NameOf
    <3>4. QED
      BY <1>16, <3>3
  <2>2. CASE q \notin rows
    <3>1. Exists(q) /\ t.rows[q] = None
      BY <1>5, <1>13, <1>16, <2>2
    <3>2. QED
      BY <1>1, <1>2, <1>9, <1>11, <1>16, <2>2, <3>1 DEF Right, NameOf, Repairs
  <2>3. QED
    BY <2>1, <2>2
<1>17. TypeOK
  BY DEF IInv
<1>18. /\ handler' \in [Handlers -> HandlerState] /\ handler'[h] = s
       /\ \A k \in Handlers \ {h} : Marked(handler'[k], handler[k])
  BY <1>7, <1>9, <1>17, OthersSame
<1>19. PICK T \in SUBSET Handlers : T = {}
  OBVIOUS
<1>20. QED
  BY <1>7, <1>8, <1>12, <1>14, <1>15, <1>16, <1>18, <1>19, WritingStep

(* A brand without products: no text holds its name.                       *)
LEMMA DeleteBrandStep ==
  ASSUME IInv, NEW h \in Handlers, NEW b \in Brands, DeleteBrand(h, b)
  PROVE  IInv'
<1>1. PICK s : s = [Idle EXCEPT !.pc = "written"]
  OBVIOUS
<1>2. s \in HandlerState /\ s.pc = "written"
  BY <1>1 DEF Idle, HandlerState, NoRows
<1>3. Working(s) /\ UpToDate(s)'
  BY <1>2 DEF Working, UpToDate
<1>4. /\ brand' \in [Brands -> Names \cup {None}]
      /\ \A c : c # b => brand'[c] = brand[c]
      /\ UNCHANGED <<product, excuse>>
      /\ handler[h].pc = "idle" /\ Of(b) = {}
  BY DEF DeleteBrand, IInv, TypeOK
<1>5. PICK T \in SUBSET Handlers : T = {k \in Handlers : HasName(b, handler[k])}
  OBVIOUS
<1>6. /\ handler'[h] = s
      /\ \A k \in Handlers \ {h} :
           handler'[k] = [handler[k] EXCEPT !.outdated = @ \/ HasName(b, handler[k])]
  BY <1>1 DEF DeleteBrand, Written
<1>7. ASSUME NEW k \in Handlers \ {h}
      PROVE  Marked(handler'[k], handler[k]) /\ (k \in T => handler'[k].outdated)
  <2>1. PICK touched \in BOOLEAN : touched = HasName(b, handler[k])
    BY DEF HasName
  <2>2. handler'[k] = [handler[k] EXCEPT !.outdated = @ \/ touched]
    BY <1>6, <2>1
  <2>3. k \in T => touched
    BY <1>5, <2>1
  <2>4. QED
    BY <2>2, <2>3, TouchedMarked
<1>8. handler' \in [Handlers -> HandlerState]
  <2>1. handler' = [k \in Handlers |-> handler'[k]]
    BY DEF DeleteBrand, Written
  <2>2. \A k \in Handlers : handler'[k] \in HandlerState
    BY <1>2, <1>6, <1>7 DEF Marked
  <2>3. QED
    BY <2>1, <2>2
<1>9. \A q \in Products : Exists(q) => product[q].brand # b
  BY <1>4 DEF Of
<1>10. ForeignKey'
  BY <1>4, <1>9 DEF IInv, ForeignKey, Exists
<1>11. ASSUME NEW k \in Handlers \ {h}, k \notin T, NEW u \in HandlerState, u = handler[k]
       PROVE  UpToDate(u)'
  <2>1. UpToDate(u) /\ ~ HasName(b, u)
    BY <1>5, <1>11 DEF IInv
  <2>2. QED
    BY <1>4, <2>1 DEF UpToDate, HasName, NameOf, Exists
<1>12. ASSUME NEW q \in Products, Exists(q)', ~ Right(q)', excuse'[q] = "no"
       PROVE  /\ Exists(q) /\ ~ Right(q) /\ excuse[q] = "no"
              /\ product'[q].brand = product[q].brand /\ ~ Repairs(handler[h], q)
  BY <1>4, <1>9, <1>12 DEF Exists, Right, NameOf, Repairs, Refreshing
<1>13. product' \in [Products -> Product \cup {None}]
       /\ excuse' \in [Products -> {"no", "race", "lost"}]
  BY <1>4 DEF IInv, TypeOK
<1>14. QED
  BY <1>2, <1>3, <1>4, <1>6, <1>7, <1>8, <1>10, <1>11, <1>12, <1>13, WritingStep

---------------------------------------------------------------------------
LEMMA StepKeepsIInv == IInv /\ [Next]_vars => IInv'
<1> SUFFICES ASSUME IInv, [Next]_vars PROVE IInv'
  OBVIOUS
<1>1. ASSUME NEW h \in Handlers, HandlerStep(h) PROVE IInv'
  <2>1. CASE \E pc \in {"creating", "updating"}, p \in Products, w \in Words,
                b \in Brands \cup {None} : ReadBrandName(h, pc, p, w, b)
    BY <2>1, ReadBrandNameStep
  <2>2. CASE WriteProduct(h)
    BY <2>2, WriteProductStep
  <2>3. CASE \E p \in Products : DeleteProduct(h, p)
    BY <2>3, DeleteProductStep
  <2>4. CASE \E b \in Brands, n \in Names : CreateBrand(h, b, n)
    BY <2>4, CreateBrandStep
  <2>5. CASE \E b \in Brands, n \in Names : FindBrand(h, b, n)
    BY <2>5, FindBrandStep
  <2>6. CASE UpdateBrand(h)
    BY <2>6, UpdateBrandStep
  <2>7. CASE RefreshName(h)
    BY <2>7, RefreshNameStep
  <2>8. CASE RefreshRows(h)
    BY <2>8, RefreshRowsStep
  <2>9. CASE RefreshWrite(h)
    BY <2>9, RefreshWriteStep
  <2>10. CASE \E b \in Brands : DeleteBrand(h, b)
    BY <2>10, DeleteBrandStep
  <2>11. CASE UpdateNowhere(h) \/ Refuse(h) \/ Answer(h)
    BY <2>11, EndStep
  <2>12. QED
    BY <1>1, <2>1, <2>2, <2>3, <2>4, <2>5, <2>6, <2>7, <2>8, <2>9, <2>10, <2>11 DEF HandlerStep
<1>2. ASSUME NEW h \in Handlers, CutOff(h) PROVE IInv'
  BY <1>2, EndStep
<1>3. CASE UNCHANGED vars
  BY <1>3 DEF vars, IInv, TypeOK, ForeignKey, Repaired, Working, UpToDate, Repairs, Exists,
              Right, NameOf
<1>4. QED
  BY <1>1, <1>2, <1>3 DEF Next

LEMMA Invariant == Spec => []IInv
  BY InitIInv, StepKeepsIInv, PTL DEF Spec

---------------------------------------------------------------------------
(* Brands, products and the requests at work on them stay well formed.     *)
THEOREM TypeCorrect == Spec => []TypeOK
<1>1. IInv => TypeOK
  BY DEF IInv
<1>2. QED
  BY <1>1, Invariant, PTL

(* A text that does not match its product and brand was overtaken by       *)
(* another request, was left by a rebuilding that was cut off, or belongs  *)
(* to a brand whose texts are being rebuilt (products.js:507-516,          *)
(* adminCatalogController.js:546-548), for any number of requests.         *)
THEOREM StaleTextsHaveCause == Spec => []OutOfDateHasCause
<1>1. IInv => OutOfDateHasCause
  BY DEF IInv, Repaired, Repairs, OutOfDateHasCause
<1>2. QED
  BY <1>1, Invariant, PTL

---------------------------------------------------------------------------
(* What the README and the comments say of the texts is broken by requests *)
(* that overtake each other and by rebuildings that are cut off, and by    *)
(* nothing else: without them no text is ever excused.                     *)
NobodyOvertaken ==
  \A h \in Handlers : handler[h].pc \notin {"idle", "written"} => ~ handler[h].outdated
NoExcuse == \A p \in Products : excuse[p] = "no"

OneAtATime ==
  \A h, k \in Handlers : handler[h].pc # "idle" /\ handler[k].pc # "idle" => h = k

LEMMA ReliableIsNext == [\E h \in Handlers : HandlerStep(h)]_vars => [Next]_vars
  BY DEF Next

LEMMA ReliableInvariant == ReliableSpec => []IInv
  BY InitIInv, StepKeepsIInv, ReliableIsNext, PTL DEF ReliableSpec

LEMMA NoExcuseStep ==
  ASSUME NobodyOvertaken, NoExcuse, [\E h \in Handlers : HandlerStep(h)]_vars
  PROVE  NoExcuse'
<1>1. ASSUME NEW h \in Handlers, HandlerStep(h) PROVE NoExcuse'
  <2>1. CASE WriteProduct(h)
    <3>1. ~ handler[h].outdated
      BY <2>1 DEF WriteProduct, NobodyOvertaken
    <3>2. QED
      BY <2>1, <3>1 DEF WriteProduct, Excuse, NoExcuse
  <2>2. CASE UpdateBrand(h)
    <3>1. ~ handler[h].outdated
      BY <2>2 DEF UpdateBrand, NobodyOvertaken
    <3>2. QED
      BY <2>2, <3>1 DEF UpdateBrand, Excuse, NoExcuse
  <2>3. CASE RefreshWrite(h)
    <3>1. ~ handler[h].outdated
      BY <2>3 DEF RefreshWrite, NobodyOvertaken
    <3>2. QED
      BY <2>3, <3>1 DEF RefreshWrite, Excuse, NoExcuse
  <2>4. CASE \E p \in Products : DeleteProduct(h, p)
    BY <2>4 DEF DeleteProduct, Excuse, NoExcuse
  <2>5. CASE excuse' = excuse
    BY <2>5 DEF NoExcuse
  <2>6. QED
    BY <1>1, <2>1, <2>2, <2>3, <2>4, <2>5
       DEF HandlerStep, ReadBrandName, UpdateNowhere, CreateBrand, FindBrand, RefreshName,
           RefreshRows, DeleteBrand, Refuse, Answer
<1>2. CASE UNCHANGED vars
  BY <1>2 DEF vars, NoExcuse
<1>3. QED
  BY <1>1, <1>2

(* As long as no request writes from a reading another one has changed     *)
(* and no rebuilding is cut off, requests may run side by side as they     *)
(* like: when all are answered, every product is found by its own words    *)
(* and by the name of its brand (products.js:507-516).                     *)
THEOREM NotOvertakenTextsAreRight == ReliableSpec /\ []NobodyOvertaken => []QuietTextsRight
<1>1. Init => NoExcuse
  BY DEF Init, NoExcuse
<1>2. IInv /\ NoExcuse => QuietTextsRight
  BY DEF IInv, Repaired, Repairs, Refreshing, NoExcuse, QuietTextsRight
<1>3. QED
  BY <1>1, <1>2, ReliableInvariant, NoExcuseStep, PTL DEF ReliableSpec

(* A step changes what its own handler holds and may mark the others, no   *)
(* more; and it takes its handler out of "idle", or finds it outside.      *)
LEMMA OwnHandler ==
  ASSUME TypeOK, NEW h \in Handlers, HandlerStep(h)
  PROVE  /\ \A k \in Handlers \ {h} : handler'[k].pc = handler[k].pc
         /\ handler[h].pc # "idle" \/ handler'[h].pc # "idle"
<1>1. handler[h] \in HandlerState
  BY DEF TypeOK
<1>2. CASE handler[h].pc = "idle"
  <2>1. ASSUME NEW pc \in {"creating", "updating"}, NEW p \in Products, NEW w \in Words,
               NEW b \in Brands \cup {None}, ReadBrandName(h, pc, p, w, b)
        PROVE  /\ \A k \in Handlers \ {h} : handler'[k].pc = handler[k].pc
               /\ handler'[h].pc # "idle"
    BY <2>1 DEF ReadBrandName, TypeOK, Idle
  <2>2. ASSUME NEW b \in Brands, NEW n \in Names, FindBrand(h, b, n)
        PROVE  /\ \A k \in Handlers \ {h} : handler'[k].pc = handler[k].pc
               /\ handler'[h].pc # "idle"
    BY <2>2 DEF FindBrand, TypeOK, Idle
  <2>3. CASE Goto(h, "written")
    BY <2>3 DEF Goto, TypeOK, HandlerState
  <2>4. ASSUME NEW b \in Brands, DeleteBrand(h, b)
        PROVE  /\ \A k \in Handlers \ {h} : handler'[k].pc = handler[k].pc
               /\ handler'[h].pc # "idle"
    BY <2>4, IdleTyped DEF DeleteBrand, Written, TypeOK, HandlerState, Idle
  <2>5. QED
    BY <1>2, <2>1, <2>2, <2>3, <2>4
       DEF HandlerStep, WriteProduct, UpdateNowhere, DeleteProduct, CreateBrand, UpdateBrand,
           RefreshName, RefreshRows, RefreshWrite, Refuse, Answer
<1>3. CASE handler[h].pc # "idle"
  <2>1. CASE WriteProduct(h)
    BY <1>3, <2>1 DEF WriteProduct, Written, TypeOK, HandlerState
  <2>2. CASE UpdateBrand(h)
    BY <1>3, <2>2 DEF UpdateBrand, Written, TypeOK, HandlerState
  <2>3. CASE RefreshRows(h)
    BY <1>3, <2>3 DEF RefreshRows, TypeOK
  <2>4. CASE UpdateNowhere(h) \/ RefreshName(h) \/ RefreshWrite(h) \/ Refuse(h) \/ Answer(h)
    BY <1>3, <2>4 DEF UpdateNowhere, RefreshName, RefreshWrite, Refuse, Answer, TypeOK
  <2>5. QED
    BY <1>3, <2>1, <2>2, <2>3, <2>4
       DEF HandlerStep, ReadBrandName, DeleteProduct, CreateBrand, FindBrand, DeleteBrand
<1>4. QED
  BY <1>2, <1>3

(* One request at a time is never overtaken: its own steps begin from a    *)
(* reading of their own, and the step of another one would be a second.    *)
LEMMA AloneStep ==
  ASSUME TypeOK, OneAtATime, OneAtATime', NobodyOvertaken,
         [\E h \in Handlers : HandlerStep(h)]_vars
  PROVE  NobodyOvertaken'
<1>1. ASSUME NEW h \in Handlers, HandlerStep(h),
             NEW k \in Handlers, handler'[k].pc \notin {"idle", "written"}
      PROVE  ~ handler'[k].outdated
  <2>1. CASE k # h
    <3>1. handler[k].pc # "idle"
      BY <1>1, <2>1, OwnHandler
    <3>2. handler[h].pc = "idle" /\ handler'[h].pc = "idle"
      BY <1>1, <2>1, <3>1 DEF OneAtATime
    <3>3. QED
      BY <1>1, <3>2, OwnHandler
  <2>2. CASE k = h
    <3>1. handler[h] \in HandlerState
      BY DEF TypeOK
    <3>2. CASE \E pc \in {"creating", "updating"}, p \in Products, w \in Words,
                  b \in Brands \cup {None} : ReadBrandName(h, pc, p, w, b)
      BY <2>2, <3>2 DEF ReadBrandName, TypeOK, Idle
    <3>3. CASE \E b \in Brands, n \in Names : FindBrand(h, b, n)
      BY <2>2, <3>3 DEF FindBrand, TypeOK, Idle
    <3>4. CASE UpdateBrand(h)
      BY <2>2, <3>4 DEF UpdateBrand, Written, TypeOK, Idle
    <3>5. CASE RefreshName(h)
      BY <2>2, <3>5 DEF RefreshName, TypeOK, Idle
    <3>6. CASE RefreshRows(h)
      <4>1. handler[h].pc = "named" /\ ~ handler[h].outdated
        BY <3>6 DEF RefreshRows, NobodyOvertaken
      <4>2. Of(handler[h].id) # {}
        BY <1>1, <2>2, <3>6 DEF RefreshRows, TypeOK, Idle
      <4>3. PICK rows : handler' = [handler EXCEPT ![h].pc = "read", ![h].rows = rows]
        BY <3>6, <4>2 DEF RefreshRows
      <4>4. handler'[h].outdated = handler[h].outdated
        BY <3>1, <4>3 DEF TypeOK, HandlerState
      <4>5. QED
        BY <2>2, <4>1, <4>4
    <3>7. CASE Goto(h, "written")
      BY <1>1, <2>2, <3>1, <3>7 DEF Goto, TypeOK, HandlerState
    <3>8. CASE WriteProduct(h) \/ \E b \in Brands : DeleteBrand(h, b)
      BY <1>1, <2>2, <3>8 DEF WriteProduct, DeleteBrand, Written, Idle
    <3>9. CASE UpdateNowhere(h) \/ RefreshWrite(h) \/ Refuse(h) \/ Answer(h)
      <4>1. PICK s : /\ handler' = [handler EXCEPT ![h] = s]
                     /\ \/ s = Idle \/ s = [Idle EXCEPT !.pc = "written"]
                        \/ s = [Idle EXCEPT !.pc = "written", !.id = handler[h].id]
        BY <3>9 DEF UpdateNowhere, RefreshWrite, Refuse, Answer
      <4>2. s.pc \in {"idle", "written"}
        <5>1. CASE s = Idle
          BY <5>1 DEF Idle
        <5>2. CASE s = [Idle EXCEPT !.pc = "written"]
          BY <5>2 DEF Idle
        <5>3. CASE s = [Idle EXCEPT !.pc = "written", !.id = handler[h].id]
          BY <5>3 DEF Idle
        <5>4. QED
          BY <4>1, <5>1, <5>2, <5>3
      <4>3. handler'[h] = s
        BY <4>1, Zenon DEF TypeOK
      <4>4. QED
        BY <1>1, <2>2, <4>2, <4>3
    <3>10. QED
      BY <1>1, <3>2, <3>3, <3>4, <3>5, <3>6, <3>7, <3>8, <3>9
         DEF HandlerStep, DeleteProduct, CreateBrand
  <2>3. QED
    BY <2>1, <2>2
<1>2. CASE UNCHANGED vars
  BY <1>2 DEF vars, NobodyOvertaken
<1>3. QED
  BY <1>1, <1>2 DEF NobodyOvertaken

(* The README's promise about a rename holds for requests one at a time    *)
(* that are not cut off: when a rename is answered, the texts of all the   *)
(* brand's products hold its new name.                                     *)
THEOREM OneAtATimeRenameRebuilds == ReliableSpec /\ []OneAtATime => []RenameRebuilds
<1>1. Init => NobodyOvertaken /\ NoExcuse
  BY DEF Init, NobodyOvertaken, NoExcuse, Idle
<1>2. IInv /\ NoExcuse /\ OneAtATime => RenameRebuilds
  <2> SUFFICES ASSUME IInv, NoExcuse, OneAtATime, NEW h \in Handlers,
                      handler[h].pc = "written", handler[h].id \in Brands,
                      NEW p \in Of(handler[h].id)
               PROVE  product[p].text.name = brand[handler[h].id]
    BY DEF RenameRebuilds
  <2>1. \A k \in Handlers : handler[k].pc \notin Refreshing
    BY DEF OneAtATime, Refreshing
  <2>2. p \in Products /\ Exists(p) /\ product[p].brand = handler[h].id
    BY DEF Of
  <2>3. Right(p)
    BY <2>1, <2>2 DEF IInv, Repaired, Repairs, NoExcuse
  <2>4. QED
    BY <2>2, <2>3, NoneIsNothing DEF Right, NameOf
<1>3. IInv => TypeOK
  BY DEF IInv
<1>4. QED
  BY <1>1, <1>2, <1>3, ReliableInvariant, AloneStep, NoExcuseStep, PTL DEF ReliableSpec
=============================================================================
