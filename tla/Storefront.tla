----------------------------- MODULE Storefront -----------------------------
(***************************************************************************)
(* A visitor walks through the pages of a listing or of a search while     *)
(* admins edit the catalogue (controllers/catalogController.js).  A        *)
(* category or brand is looked up, the matches are counted, a page of them *)
(* is read by LIMIT and OFFSET, and the numbers of the side bar are read,  *)
(* each by a statement of its own; each page is a request of its own, and  *)
(* services/pagination.js links it to the others.                          *)
(*                                                                         *)
(* A product that is not there yet, or not any more, is hidden like one    *)
(* that is not active; what the row of a hidden one holds is of no account.*)
(* Filing a product elsewhere, under another brand or as available again   *)
(* hides it here and shows another there.                                  *)
(***************************************************************************)
EXTENDS Integers, FiniteSets, FiniteSetsExt, SequencesExt

CONSTANTS
  Products,     \* product ids; numbers, ORDER BY ends with them
  Keys,         \* what ORDER BY compares first: a price, a time, a name
  Hidden,       \* the row of a product that is not active, or not there
  Categories,
  CategoryOf,   \* the category a product is filed under
  Brands,
  BrandOf,      \* the brand of a product, or None
  Availabilities,
  AvailabilityOf,
  None,         \* no brand, no restriction
  ByNumber,     \* products whose part number or code matches the term
  ByName,       \* products whose search text matches it
  PerPages,     \* rows on a page of a kind, as list and search are asked for
  Typed,        \* numbers of pages that are typed by hand
  MaxPage,      \* parsePage's cap, 10 000 in the program
  Span          \* pageWindow's span, 2 in the program

ASSUME PerPagesPositive ==
  PerPages \in [{"products", "category", "brand", "search"} -> SUBSET (Nat \ {0})]
ASSUME MaxPagePositive == MaxPage \in Nat \ {0} /\ Typed \subseteq Int
ASSUME HiddenIsNoKey == Hidden \notin Keys
ASSUME RowsAreFinite == IsFiniteSet(Products) /\ IsFiniteSet(Categories)
ASSUME OrderByNumbers == Keys \subseteq Int /\ Products \subseteq Int
ASSUME EveryProductIsFiled ==
  /\ CategoryOf \in [Products -> Categories] /\ BrandOf \in [Products -> Brands \cup {None}]
  /\ AvailabilityOf \in [Products -> Availabilities]
ASSUME NoneIsNothing == None \notin Categories \cup Brands \cup Availabilities
ASSUME SpanNumber == Span \in Nat

VARIABLES
  row,       \* products: the key of an active one, or Hidden
  shown,     \* categories: is_active
  offered,   \* brands: is_active
  visitor    \* where the visitor's request and walk stand

vars == <<row, shown, offered, visitor>>

Row == Keys \cup {Hidden}
Events == {"left", "entered", "torn", "switched", "tied"}

(* What a statement is restricted to: the filters of list, or a path of    *)
(* search.                                                                 *)
Path == [by : {"list", "number", "name"}, category : Categories \cup {None},
         brand : Brands \cup {None}, only : Availabilities \cup {None}]
Listing(c, b, a) == [by |-> "list", category |-> c, brand |-> b, only |-> a]
Everything == Listing(None, None, None)

(* /products and /category/... take ?brand= and ?availability=, /brand/... *)
(* takes ?availability=, /search neither.                                  *)
AddressOf(page, c, b, a) == [page |-> page, category |-> c, brand |-> b, only |-> a]
Address ==
  LET brands == Brands \cup {None}
      only   == Availabilities \cup {None}
  IN {AddressOf("products", None, b, a) : b \in brands, a \in only}
       \cup {AddressOf("category", c, b, a) : c \in Categories, b \in brands, a \in only}
       \cup {AddressOf("brand", None, b, a) : b \in Brands, a \in only}
       \cup {AddressOf("search", None, None, None)}

(* "empty" tells that the page has no rows.  The rest is history: whether  *)
(* nothing was edited since he asked, and how he came to the page: a       *)
(* "walk" leads from the first page to the next one and so on, with what   *)
(* it has been shown of the products that stay put and what happened       *)
(* meanwhile; "links" are any links; "free" is everything else.            *)
Visitor ==
  [pc : {"idle", "asked", "placed", "found", "noNumber", "counted", "read", "answered"},
   address : Address, path : Path, perPage : Nat \ {0}, page : 1 .. MaxPage,
   total : 0 .. Cardinality(Products), empty : BOOLEAN, quiet : BOOLEAN,
   way : {"walk", "links", "free"}, seen : [Products -> 0 .. 2],
   steady : SUBSET Products, events : SUBSET Events]

TypeOK ==
  /\ row \in [Products -> Row]
  /\ shown \in [Categories -> BOOLEAN]
  /\ offered \in [Brands -> BOOLEAN]
  /\ visitor \in Visitor

Unseen == [p \in Products |-> 0]
Away == [pc |-> "idle", address |-> AddressOf("products", None, None, None),
         path |-> Everything, perPage |-> 1, page |-> 1, total |-> 0,
         empty |-> FALSE, quiet |-> FALSE, way |-> "walk",
         seen |-> Unseen, steady |-> {}, events |-> {}]

(* Of a way on which a listing became another one, or on which products    *)
(* both left and entered, nothing is said any more.                        *)
Freed(v) ==
  IF \/ v.way = "free" \/ "switched" \in v.events \/ {"left", "entered"} \subseteq v.events
     \/ v.way = "links" /\ "left" \in v.events
  THEN [v EXCEPT !.way = "free", !.seen = Unseen, !.steady = {}, !.events = {}]
  ELSE IF v.way = "links" THEN [v EXCEPT !.seen = Unseen, !.steady = {}, !.events = {}]
  ELSE v

Init ==
  /\ row \in [Products -> Row]
  /\ shown = [c \in Categories |-> TRUE]
  /\ offered = [b \in Brands |-> TRUE]
  /\ visitor = Away

---------------------------------------------------------------------------
(* buildWhere: p.is_active = TRUE AND c.is_active = TRUE                   *)
VisibleIn(r, s) == {p \in Products : r[p] # Hidden /\ s[CategoryOf[p]]}
Visible == VisibleIn(row, shown)

Matching(path) ==
  CASE path.by = "number" -> Visible \cap ByNumber
    [] path.by = "name"   -> Visible \cap ByName
    [] path.by = "list"   -> {p \in Visible :
         /\ path.category \in {None, CategoryOf[p]}
         /\ path.brand \in {None, BrandOf[p]}
         /\ path.only \in {None, AvailabilityOf[p]}}

Searched(path) == path.by \in {"number", "name"}

(* SORTS without its p.id.                                                 *)
BeforeByKey(path, p, q) == row[p] <= row[q]

(* SORTS ends with p.id DESC; the two ORDER BYs of search end with p.name, *)
(* and rows of the same name come in any order.                            *)
Before(path, p, q) ==
  \/ row[p] < row[q]
  \/ row[p] = row[q] /\ (Searched(path) \/ p > q)

Orders(path) ==
  {s \in SetToSeqs(Matching(path)) :
     \A i, j \in 1 .. Len(s) : i < j => Before(path, s[i], s[j])}

Tied(path) == \E p, q \in Matching(path) : p # q /\ row[p] = row[q]

(* The page is taken for the number of the first row.                      *)
FirstIsPage(v) == v.page - 1
Offset(v) == (v.page - 1) * v.perPage

(* LIMIT and OFFSET                                                        *)
PageOf(s, v) ==
  {s[i] : i \in {j \in 1 .. Len(s) : j > Offset(v) /\ j <= Offset(v) + v.perPage}}

pageCount(v) == IF v.total = 0 THEN 1 ELSE (v.total + v.perPage - 1) \div v.perPage

(* The last page has a link to a next one.                                 *)
NextAtEnd(v) == v.page <= pageCount(v)
hasNext(v) == v.page < pageCount(v)

pageWindow(v) ==
  {n \in v.page - Span .. v.page + Span : 1 <= n /\ n <= pageCount(v)} \ {v.page}

(* buildPagination: a single page gets no links, whatever number it has.   *)
Links(v) ==
  IF pageCount(v) <= 1 THEN {}
  ELSE (IF v.page > 1 THEN {v.page - 1} ELSE {}) \cup pageWindow(v)
         \cup (IF hasNext(v) THEN {v.page + 1} ELSE {})

---------------------------------------------------------------------------
(* Whatever number is typed is taken.                                      *)
ParseTrusting(raw) == raw

(* catalogQuery.parsePage                                                  *)
parsePage(raw) == IF raw < 1 THEN 1 ELSE IF raw > MaxPage THEN MaxPage ELSE raw

(* The visitor asks for a page, by a link from elsewhere or with a number  *)
(* typed by hand.                                                          *)
Open(address, n, raw) ==
  /\ visitor = Away
  /\ visitor' = [Away EXCEPT !.pc = "asked", !.quiet = TRUE, !.address = address,
                             !.perPage = n, !.page = parsePage(raw),
                             !.way = IF parsePage(raw) = 1 THEN "walk" ELSE "free"]
  /\ UNCHANGED <<row, shown, offered>>

(* findBySlug finds active ones only.                                      *)
Lists(address) ==
  IF address.page = "category" THEN shown[address.category] ELSE offered[address.brand]

(* A category or a brand that is not listed is answered with 404 ...       *)
FindPlace ==
  LET next == IF visitor.address.page = "category" THEN "placed" ELSE "found" IN
  /\ visitor.pc = "asked" /\ visitor.address.page \in {"category", "brand"}
  /\ visitor' = IF Lists(visitor.address) THEN [visitor EXCEPT !.pc = next] ELSE Away
  /\ UNCHANGED <<row, shown, offered>>

(* ... but a brand to filter by that is not listed is no filter.           *)
BrandFilter(b) == IF b \in Brands /\ offered[b] THEN b ELSE None
Filtered(address) == Listing(address.category, BrandFilter(address.brand), address.only)

(* The count of a request whose walk goes on along path.  The first one    *)
(* remembers the products it found: "steady" are those nobody touches.     *)
Onto(path, v) ==
  [v EXCEPT !.path = path,
            !.events = IF visitor.page > 1 /\ visitor.path # path THEN @ \cup {"switched"} ELSE @]
Counted(path) ==
  visitor' = Freed(Onto(path, [visitor EXCEPT
    !.pc = "counted",
    !.total = Cardinality(Matching(path)),
    !.steady = IF visitor.page = 1 THEN Matching(path) ELSE @]))

(* resolveBrandFilter.  Its SELECT and the count are two statements; what  *)
(* the first found is kept in "path".                                      *)
ResolveBrandFilter ==
  /\ \/ visitor.pc = "asked" /\ visitor.address.page = "products"
     \/ visitor.pc = "placed"
  /\ visitor' = Freed(Onto(Filtered(visitor.address), [visitor EXCEPT !.pc = "found"]))
  /\ UNCHANGED <<row, shown, offered>>

(* The page of a brand takes no other brand to filter by.                  *)
CountList ==
  /\ visitor.pc = "found"
  /\ Counted(IF visitor.address.page = "brand"
             THEN Listing(None, visitor.address.brand, visitor.address.only)
             ELSE visitor.path)
  /\ UNCHANGED <<row, shown, offered>>

(* search looks for a part number first.                                   *)
Number == [Everything EXCEPT !.by = "number"]
Name   == [Everything EXCEPT !.by = "name"]

CountNumber ==
  /\ visitor.pc = "asked" /\ visitor.address.page = "search"
  /\ IF Matching(Number) # {} THEN Counted(Number)
                              ELSE visitor' = [visitor EXCEPT !.pc = "noNumber"]
  /\ UNCHANGED <<row, shown, offered>>

(* No part number matched: search goes on with the name.                   *)
CountName ==
  /\ visitor.pc = "noNumber"
  /\ Counted(Name)
  /\ UNCHANGED <<row, shown, offered>>

(* The rows of the page, in an order the ORDER BY allows.  Only who came   *)
(* by the links to the next page from the first is walking.                *)
ReadRows ==
  /\ visitor.pc = "counted"
  /\ \E s \in Orders(visitor.path) :
       visitor' = [visitor EXCEPT
         !.pc = "read",
         !.empty = PageOf(s, visitor) = {},
         !.seen = [p \in Products |->
                     IF p \in visitor.steady \cap PageOf(s, visitor) /\ @[p] < 2
                     THEN @[p] + 1 ELSE @[p]],
         !.events = IF visitor.way = "walk" /\ Searched(visitor.path) /\ Tied(visitor.path)
                    THEN @ \cup {"tied"} ELSE @]
  /\ UNCHANGED <<row, shown, offered>>

(* categories.listWithCounts, of one category; without its FILTER.         *)
CountEveryProduct(c) == Cardinality({p \in Products : CategoryOf[p] = c})
CategoryCount(c) == Cardinality({p \in Products : CategoryOf[p] = c /\ row[p] # Hidden})

(* brands.listWithCounts                                                   *)
BrandCount(b) == Cardinality({p \in Products : BrandOf[p] = b /\ row[p] # Hidden})

(* Switched-off ones are in neither answer.                                *)
ListedCategories == {c \in Categories : shown[c]}
ListedBrands == {b \in Brands : offered[b]}

(* listingChrome, and the answer.                                          *)
ReadSideBar ==
  /\ visitor.pc = "read"
  /\ visitor' = [visitor EXCEPT !.pc = "answered", !.quiet = FALSE]
  /\ UNCHANGED <<row, shown, offered>>

(* The visitor follows a link to another page; from the page of the cap    *)
(* the link to the next one leads to the same page again ...               *)
Follow(n) ==
  /\ visitor.pc = "answered" /\ n \in Links(visitor)
  /\ LET v == [visitor EXCEPT !.pc = "asked", !.page = parsePage(n),
                              !.total = 0, !.empty = FALSE, !.quiet = TRUE]
     IN visitor' = IF v.page = visitor.page + 1 \/ visitor.way = "free" THEN v
                   ELSE Freed([v EXCEPT !.way = "links"])
  /\ UNCHANGED <<row, shown, offered>>

(* ... or leaves.                                                          *)
Leave ==
  /\ visitor.pc = "answered"
  /\ visitor' = Away
  /\ UNCHANGED <<row, shown, offered>>

---------------------------------------------------------------------------
(* What an edit of the catalogue is for a walk: products that left the     *)
(* places before others, entered, or did so between count and rows.  A     *)
(* product whose key changed has left its place and entered another.       *)
Disturb(r, s) ==
  LET before == Visible
      after  == VisibleIn(r, s)
      moved  == {p \in before \cap after : r[p] # row[p]}
  IN \E left \in {(before \ after) \cup moved}, entered \in {(after \ before) \cup moved} :
       visitor' = IF visitor.pc = "idle" THEN visitor ELSE Freed(
         [visitor EXCEPT
           !.quiet = FALSE,
           !.steady = @ \ (left \cup entered),
           !.seen = [p \in Products |-> IF p \in left \cup entered THEN 0 ELSE @[p]],
           !.events = @ \cup (IF left = {} THEN {} ELSE {"left"})
                   \cup (IF entered = {} THEN {} ELSE {"entered"})
                   \cup (IF entered # {} /\ visitor.pc = "counted" THEN {"torn"} ELSE {})])

(* An admin creates, updates, hides, shows or deletes a product.           *)
EditProduct(p, r) ==
  /\ row[p] # r
  /\ row' = [row EXCEPT ![p] = r]
  /\ Disturb(row', shown)
  /\ UNCHANGED <<shown, offered>>

(* categorySetActive                                                       *)
EditCategory(c) ==
  /\ shown' = [shown EXCEPT ![c] = ~ @]
  /\ Disturb(row, shown')
  /\ UNCHANGED <<row, offered>>

(* brandSetActive: nothing becomes invisible by it.                        *)
EditBrand(b) ==
  /\ offered' = [offered EXCEPT ![b] = ~ @]
  /\ visitor' = [visitor EXCEPT !.quiet = FALSE]
  /\ UNCHANGED <<row, shown>>

Next ==
  \/ \E address \in Address, raw \in {1} \cup Typed :
       \E n \in PerPages[address.page] : Open(address, n, raw)
  \/ FindPlace \/ ResolveBrandFilter
  \/ CountList \/ CountNumber \/ CountName
  \/ ReadRows \/ ReadSideBar
  \/ \E n \in Links(visitor) : Follow(n)
  \/ Leave
  \/ \E p \in Products, r \in Row : EditProduct(p, r)
  \/ \E c \in Categories : EditCategory(c)
  \/ \E b \in Brands : EditBrand(b)

Spec == Init /\ [][Next]_vars

---------------------------------------------------------------------------
WalkDone == visitor.pc \in {"read", "answered"} /\ visitor.way = "walk" /\ ~ hasNext(visitor)

(* A visitor who follows the links to the end has been shown every product *)
(* that stayed where it was, unless another one left, came between the     *)
(* count and the rows of a page, made a search change its path or a filter *)
(* lapse, or two names of a search are the same (products.js:155-184,      *)
(* 229-287; catalogController.js:34-38; pagination.js:27-47).              *)
MissesHaveCause ==
  WalkDone /\ visitor.events \cap {"left", "torn", "tied"} = {} =>
    \A p \in visitor.steady : visitor.seen[p] > 0

(* He is shown such a product twice only after another one came, or for    *)
(* the same name, or because he is in another listing now: SORTS ends with *)
(* p.id so that a listing has one order (products.js:19-24).               *)
RepeatsHaveCause ==
  visitor.way = "walk" /\ visitor.events \cap {"entered", "tied"} = {} =>
    \A p \in visitor.steady : visitor.seen[p] < 2

(* Who comes to a page by links alone finds rows on it if there are any at *)
(* all, unless products left or the listing became another one on his way; *)
(* a number typed by hand may lie beyond the last page                     *)
(* (products.js:168-182, pagination.js:13-46).                             *)
EmptyPagesHaveCause ==
  visitor.pc \in {"read", "answered"} /\ visitor.empty /\ visitor.total > 0 =>
    visitor.way = "free" \/ "left" \in visitor.events

(* The active products of a brand in categories that are switched off.     *)
Astray(b) ==
  {p \in Products : BrandOf[p] = b /\ row[p] # Hidden /\ ~ shown[CategoryOf[p]]}

(* Two queries count the same products.  Unless an edit came between, the  *)
(* category or brand of a page is in the side bar the page is about to get *)
(* and its number is no less than the page's total.  The page of a category*)
(* without filters has that number of products, the shop's without filters *)
(* those of all categories together.  The number of a brand exceeds its    *)
(* page's by its Astray products and no more.  A brand may be listed with  *)
(* the number 0, which the comment at brands.js:42 does not expect         *)
(* (categories.js:52-62, brands.js:43-53, products.js:121-166,             *)
(* catalogController.js:33-130).                                           *)
SideBarAgrees ==
  visitor.pc = "read" /\ visitor.quiet /\ ~ Searched(visitor.path) =>
    LET c == visitor.path.category
        b == visitor.path.brand
        a == visitor.path.only
        n == visitor.total
    IN /\ c # None => c \in ListedCategories /\ n <= CategoryCount(c)
       /\ b # None => b \in ListedBrands /\ n <= BrandCount(b)
       /\ c # None /\ b = None /\ a = None => CategoryCount(c) = n
       /\ c = None /\ b # None /\ a = None => BrandCount(b) = n + Cardinality(Astray(b))
       /\ visitor.path = Everything => MapThenSumSet(CategoryCount, ListedCategories) = n
=============================================================================
