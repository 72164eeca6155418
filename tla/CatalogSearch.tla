--------------------------- MODULE CatalogSearch ---------------------------
(***************************************************************************)
(* What a product is found by.  products.search_text holds the product's   *)
(* own words and the name of its brand, and is kept up to date by the      *)
(* repository (db/repositories/products.js), not by the database: every    *)
(* write of a product first reads the name of its brand, and a rename of a *)
(* brand is followed by three more statements that rebuild the texts of    *)
(* its products (adminCatalogController.js, refreshSearchTextForBrand).    *)
(* No transaction holds these statements together, so the handlers of      *)
(* several requests interleave between them and any of them may fail.      *)
(*                                                                         *)
(* A text is the pair of what it was built from.  Columns that do not      *)
(* enter it, and the statements that write only those (setActive,          *)
(* adjustStock), leave this state as it is.  An element of Products or     *)
(* Brands can stand for a new row once nothing refers to the old one.      *)
(***************************************************************************)
EXTENDS Naturals

CONSTANTS
  Products,  \* rows of products
  Brands,    \* rows of brands
  Words,     \* what the other fields of a product contribute to its text
  Names,     \* names of brands
  Handlers,  \* admin requests served at once
  None       \* no row, no brand, no name, no word

ASSUME NoneIsNothing == None \notin Products \cup Brands \cup Words \cup Names

Text    == [word : Words, name : Names \cup {None}]
Product == [word : Words, brand : Brands \cup {None}, text : Text]

ASSUME NoneIsNoProduct == None \notin Product

VARIABLES
  brand,    \* brands.name, or None
  product,  \* the table products
  handler,  \* the requests being served
  excuse    \* history: why the text of a product may be out of date

vars == <<brand, product, handler, excuse>>

(* name: the name read, for a request about a brand before its UPDATE the  *)
(* name to give it.  rows: the words of the products refresh has read.     *)
(* outdated: history, whether another request has changed since what this  *)
(* one read.                                                               *)
HandlerState ==
  [pc : {"idle", "creating", "updating", "found", "renamed", "named", "read", "written"},
   id : Products \cup Brands \cup {None}, word : Words \cup {None},
   brand : Brands \cup {None}, name : Names \cup {None}, previous : Names \cup {None},
   rows : [Products -> Words \cup {None}], outdated : BOOLEAN]

NoRows == [p \in Products |-> None]
Idle == [pc |-> "idle", id |-> None, word |-> None, brand |-> None, name |-> None,
         previous |-> None, rows |-> NoRows, outdated |-> FALSE]

TypeOK ==
  /\ brand \in [Brands -> Names \cup {None}]
  /\ product \in [Products -> Product \cup {None}]
  /\ handler \in [Handlers -> HandlerState]
  /\ excuse \in [Products -> {"no", "race", "lost"}]

Init ==
  /\ brand = [b \in Brands |-> None]
  /\ product = [p \in Products |-> None]
  /\ handler = [h \in Handlers |-> Idle]
  /\ excuse = [p \in Products |-> "no"]

Exists(p)   == product[p] # None
Accepted    == {b \in Brands : brand[b] # None} \cup {None}   \* by the foreign key
Of(b)       == {p \in Products : Exists(p) /\ product[p].brand = b}

(* The row of the brand instead of its name.                               *)
RowOf(b) == IF b = None THEN None ELSE [name |-> brand[b]]

(* brandNameFor.                                                           *)
NameOf(b) == IF b = None THEN None ELSE brand[b]

Right(p)    == product[p].text = [word |-> product[p].word, name |-> NameOf(product[p].brand)]
Refreshing  == {"renamed", "named", "read"}

Unused(x) == \A h \in Handlers : /\ x \notin {handler[h].id, handler[h].brand}
                                 /\ x \in Products => handler[h].rows[x] = None

Excuse(written, why) ==
  excuse' = [p \in Products |-> IF p \in written THEN why ELSE excuse[p]]

Goto(h, pc) == handler' = [handler EXCEPT ![h].pc = pc]

(* The handler h is done with its write; those for which touched holds     *)
(* have read what it changed.                                              *)
Written(h, s, touched(_)) ==
  handler' = [k \in Handlers |->
    IF k = h THEN s ELSE [handler[k] EXCEPT !.outdated = @ \/ touched(handler[k])]]

HasRow(p, s)   == s.rows[p] # None
HasName(b, s)  == \/ s.pc \in {"creating", "updating"} /\ s.brand = b
                  \/ s.pc \in {"found", "named", "read"} /\ s.id = b

---------------------------------------------------------------------------
(* productCreate and productUpdate read the name of the brand first        *)
(* (writeValues); the INSERT or UPDATE is a statement of its own.          *)
ReadBrandName(h, pc, p, w, b) ==
  /\ handler[h].pc = "idle"
  /\ \/ pc = "creating" /\ ~ Exists(p) /\ Unused(p)
     \/ pc = "updating" /\ Exists(p)
  /\ handler' = [handler EXCEPT ![h] =
       [Idle EXCEPT !.pc = pc, !.id = p, !.word = w, !.brand = b, !.name = NameOf(b)]]
  /\ UNCHANGED <<brand, product, excuse>>

(* The UPDATE leaves search_text alone.                                    *)
WriteProductKeepingText(h) ==
  LET s == handler[h]   p == s.id
      fresh == [word |-> s.word, name |-> s.name]
      text == IF s.pc = "updating" THEN product[p].text ELSE fresh IN
  /\ s.pc \in {"creating", "updating"} /\ (s.pc = "updating" => Exists(p))
  /\ s.brand \in Accepted
  /\ product' = [product EXCEPT ![p] = [word |-> s.word, brand |-> s.brand, text |-> text]]
  /\ Excuse({p}, IF s.outdated THEN "race" ELSE "no")
  /\ Written(h, [Idle EXCEPT !.pc = "written"], LAMBDA k : HasRow(p, k))
  /\ UNCHANGED brand

(* products.create and products.update write the whole row.  A brand that  *)
(* is gone violates the foreign key (Refuse); a product that is gone is      *)
(* updated nowhere.                                                        *)
WriteProduct(h) ==
  LET s == handler[h]   p == s.id
      new == [word |-> s.word, brand |-> s.brand, text |-> [word |-> s.word, name |-> s.name]] IN
  /\ s.pc \in {"creating", "updating"} /\ (s.pc = "updating" => Exists(p))
  /\ s.brand \in Accepted
  /\ product' = [product EXCEPT ![p] = new]
  /\ Excuse({p}, IF s.outdated THEN "race" ELSE "no")
  /\ Written(h, [Idle EXCEPT !.pc = "written"], LAMBDA k : HasRow(p, k))
  /\ UNCHANGED brand
UpdateNowhere(h) ==
  /\ handler[h].pc = "updating" /\ ~ Exists(handler[h].id)
  /\ handler' = [handler EXCEPT ![h] = [Idle EXCEPT !.pc = "written"]]
  /\ UNCHANGED <<brand, product, excuse>>

(* productDelete: what it read before the DELETE decides nothing but the   *)
(* answer.                                                                 *)
DeleteProduct(h, p) ==
  /\ handler[h].pc = "idle" /\ Exists(p)
  /\ product' = [product EXCEPT ![p] = None]
  /\ Excuse({p}, "no")
  /\ Goto(h, "written")
  /\ UNCHANGED brand

---------------------------------------------------------------------------
(* brandCreate.                                                            *)
CreateBrand(h, b, n) ==
  /\ handler[h].pc = "idle" /\ brand[b] = None /\ Unused(b)
  /\ brand' = [brand EXCEPT ![b] = n]
  /\ Goto(h, "written")
  /\ UNCHANGED <<product, excuse>>

(* brandUpdate reads the brand, whose name it compares with the form's.    *)
FindBrand(h, b, n) ==
  /\ handler[h].pc = "idle" /\ brand[b] # None
  /\ handler' = [handler EXCEPT ![h] =
       [Idle EXCEPT !.pc = "found", !.id = b, !.name = n, !.previous = brand[b]]]
  /\ UNCHANGED <<brand, product, excuse>>

(* brands.update writes the whole row, the name included, and the texts    *)
(* are rebuilt only if the name differs from the one read: an outdated     *)
(* reading makes the request rename the brand without knowing it.          *)
UpdateBrand(h) ==
  LET s == handler[h]   b == s.id
      renames == s.name # s.previous IN
  /\ s.pc = "found"
  /\ brand' = IF brand[b] = None THEN brand ELSE [brand EXCEPT ![b] = s.name]
  /\ Excuse(IF s.outdated /\ ~ renames THEN Of(b) ELSE {}, "race")
  /\ Written(h, [Idle EXCEPT !.pc = IF renames THEN "renamed" ELSE "written", !.id = b],
             LAMBDA k : brand'[b] # brand[b] /\ HasName(b, k))
  /\ UNCHANGED product

(* refreshSearchTextForBrand, first statement: the name again.             *)
RefreshName(h) ==
  /\ handler[h].pc = "renamed"
  /\ handler' = [handler EXCEPT ![h] =
       [Idle EXCEPT !.pc = "named", !.id = handler[h].id, !.name = brand[handler[h].id]]]
  /\ UNCHANGED <<brand, product, excuse>>

(* Second statement: the products of the brand.  Without any there is      *)
(* nothing to write.                                                       *)
RefreshRows(h) ==
  LET b == handler[h].id IN
  /\ handler[h].pc = "named"
  /\ IF Of(b) = {}
       THEN handler' = [handler EXCEPT ![h] = [Idle EXCEPT !.pc = "written", !.id = b]]
       ELSE handler' = [handler EXCEPT ![h].pc = "read", ![h].rows =
              [p \in Products |-> IF p \in Of(b) THEN product[p].word ELSE None]]
  /\ UNCHANGED <<brand, product, excuse>>

(* Third statement: one UPDATE of all the rows read that are still there,  *)
(* whatever brand they have by now.                                        *)
RefreshWrite(h) ==
  LET s == handler[h]
      rows == {p \in Products : s.rows[p] # None /\ Exists(p)} IN
  /\ s.pc = "read"
  /\ product' = [p \in Products |->
       IF p \in rows THEN [product[p] EXCEPT !.text = [word |-> s.rows[p], name |-> s.name]]
                     ELSE product[p]]
  /\ Excuse(rows, IF s.outdated THEN "race" ELSE "no")
  /\ handler' = [handler EXCEPT ![h] = [Idle EXCEPT !.pc = "written", !.id = s.id]]
  /\ UNCHANGED brand

(* brandDelete: ON DELETE RESTRICT refuses a brand that has products.      *)
DeleteBrand(h, b) ==
  /\ handler[h].pc = "idle" /\ brand[b] # None
  /\ Of(b) = {}
  /\ brand' = [brand EXCEPT ![b] = None]
  /\ Written(h, [Idle EXCEPT !.pc = "written"], LAMBDA k : HasName(b, k))
  /\ UNCHANGED <<product, excuse>>

---------------------------------------------------------------------------
(* A constraint refuses the write, or a statement before it fails: nothing *)
(* was written.                                                            *)
Refuse(h) ==
  /\ handler[h].pc \in {"creating", "updating", "found"}
  /\ handler' = [handler EXCEPT ![h] = Idle]
  /\ UNCHANGED <<brand, product, excuse>>

(* A statement of the rebuilding fails, or the process dies: the new name  *)
(* stays, the answer is an error, and the rebuilding is not resumed.       *)
CutOff(h) ==
  /\ handler[h].pc \in Refreshing
  /\ Excuse(Of(handler[h].id), "lost")
  /\ handler' = [handler EXCEPT ![h] = Idle]
  /\ UNCHANGED <<brand, product>>

(* The write is recorded (module CategoryTree has the trail) and answered. *)
Answer(h) ==
  /\ handler[h].pc = "written"
  /\ handler' = [handler EXCEPT ![h] = Idle]
  /\ UNCHANGED <<brand, product, excuse>>

HandlerStep(h) ==
  \/ \E pc \in {"creating", "updating"}, p \in Products, w \in Words, b \in Brands \cup {None} :
       ReadBrandName(h, pc, p, w, b)
  \/ WriteProduct(h) \/ UpdateNowhere(h)
  \/ \E p \in Products : DeleteProduct(h, p)
  \/ \E b \in Brands, n \in Names : CreateBrand(h, b, n) \/ FindBrand(h, b, n)
  \/ UpdateBrand(h)
  \/ RefreshName(h) \/ RefreshRows(h) \/ RefreshWrite(h)
  \/ \E b \in Brands : DeleteBrand(h, b)
  \/ Refuse(h) \/ Answer(h)

Next == \E h \in Handlers : HandlerStep(h) \/ CutOff(h)

Spec == Init /\ [][Next]_vars

(* Every rebuilding that is begun comes to its end.                        *)
ReliableSpec == Init /\ [][\E h \in Handlers : HandlerStep(h)]_vars

---------------------------------------------------------------------------
(* A product is found by its own words and by the name its brand has now,  *)
(* unless another request overtook the one that wrote its text, a          *)
(* rebuilding was cut off, or one is still under way (products.js:507-516, *)
(* adminCatalogController.js:546-548).                                     *)
OutOfDateHasCause ==
  \A p \in Products :
    Exists(p) /\ ~ Right(p) =>
      \/ excuse[p] # "no"
      \/ \E h \in Handlers : handler[h].pc \in Refreshing /\ handler[h].id = product[p].brand

(* What the README says of a rename: when it is answered, the texts of all *)
(* the brand's products hold the new name.                                 *)
RenameRebuilds ==
  \A h \in Handlers : handler[h].pc = "written" /\ handler[h].id \in Brands =>
    \A p \in Of(handler[h].id) : product[p].text.name = brand[handler[h].id]

(* What the comment of refreshSearchTextForBrand is about: when no request *)
(* is at work, every product is found by its own words and by the name of  *)
(* its brand.                                                              *)
QuietTextsRight ==
  (\A h \in Handlers : handler[h].pc = "idle") => \A p \in Products : Exists(p) => Right(p)
=============================================================================
