-------------------------- MODULE StorefrontProofs --------------------------
(* What the pages of the shop promise for any catalogue.                   *)
EXTENDS Storefront, FiniteSetTheorems, WellFoundedInduction, TLAPS

---------------------------------------------------------------------------
(* The arithmetic of services/pagination.js: the first row of a page that  *)
(* is no more than pageCount is one of those that were counted.            *)
LEMMA LinkedPagesBegin ==
  ASSUME NEW total \in Nat, total > 0, NEW n \in Nat \ {0}, NEW page \in Nat \ {0},
         page <= (total + n - 1) \div n
  PROVE  (page - 1) * n < total
<1> DEFINE q == (total + n - 1) \div n
<1>1. q \in Nat /\ q * n <= total + n - 1
  OBVIOUS
<1> HIDE DEF q
<1>2. page <= q
  BY DEF q
<1>3. page * n <= q * n
  BY <1>1, <1>2
<1>4. (page - 1) * n = page * n - n
  OBVIOUS
<1>5. page * n \in Int /\ q * n \in Int
  BY <1>1
<1>6. QED
  BY <1>1, <1>3, <1>4, <1>5

(* And where more was counted than the pages so far hold, one more follows.*)
LEMMA MorePagesFollow ==
  ASSUME NEW total \in Nat, NEW n \in Nat \ {0}, NEW page \in Nat \ {0}, page * n < total
  PROVE  page < (total + n - 1) \div n
<1> DEFINE q == (total + n - 1) \div n
<1>1. q \in Nat /\ total + n - 1 < (q + 1) * n
  OBVIOUS
<1> HIDE DEF q
<1>2. (q + 1) * n = q * n + n /\ q * n \in Nat /\ page * n \in Nat
  BY <1>1
<1>3. page * n < q * n
  BY <1>1, <1>2
<1>4. ASSUME q <= page PROVE FALSE
  <2>1. q * n <= page * n
    BY <1>1, <1>4
  <2>2. QED
    BY <1>2, <1>3, <2>1
<1>5. QED
  BY <1>1, <1>4 DEF q

LEMMA EarlierPagesBeginEarlier ==
  ASSUME NEW n \in Nat \ {0}, NEW page \in Nat \ {0}
  PROVE  (page - 1) * n < page * n
OBVIOUS

LEMMA ParsePageIs ==
  /\ \A raw \in Int : parsePage(raw) \in 1 .. MaxPage /\ (raw >= 1 => parsePage(raw) <= raw)
  /\ \A raw \in 1 .. MaxPage : parsePage(raw) = raw
BY MaxPagePositive DEF parsePage

---------------------------------------------------------------------------
(* Matches.                                                                *)
Found(path) == Cardinality(Matching(path))


LEMMA MatchesAreProducts ==
  ASSUME NEW path \in Path
  PROVE  /\ IsFiniteSet(Matching(path)) /\ IsFiniteSet(Matching(path)')
         /\ Found(path) \in 0 .. Cardinality(Products)
         /\ Found(path)' \in Nat
<1>1. path.by \in {"list", "number", "name"}
  BY DEF Path
<1>2. Matching(path) \subseteq Products /\ Matching(path)' \subseteq Products
  BY <1>1 DEF Matching, Visible, VisibleIn
<1>3. /\ IsFiniteSet(Matching(path)) /\ Cardinality(Matching(path)) <= Cardinality(Products)
      /\ IsFiniteSet(Matching(path)')
  BY <1>2, RowsAreFinite, FS_Subset
<1>4. /\ Cardinality(Matching(path)) \in Nat /\ Cardinality(Products) \in Nat
      /\ Cardinality(Matching(path)') \in Nat
  BY <1>3, RowsAreFinite, FS_CardinalityType
<1>5. QED
  BY <1>3, <1>4 DEF Found

LEMMA MatchesGrow ==
  ASSUME NEW path \in Path, Visible \subseteq Visible'
  PROVE  Found(path) <= Found(path)'
<1>1. path.by \in {"list", "number", "name"}
  BY DEF Path
<1>2. Matching(path) \subseteq Matching(path)'
  BY <1>1 DEF Matching
<1>3. QED
  BY <1>2, MatchesAreProducts, FS_Subset DEF Found

---------------------------------------------------------------------------
(* What each step makes of the visitor.                                    *)
Place(v) == <<v.address, v.path, v.perPage, v.page, v.total, v.empty>>

LEMMA FreedIs ==
  ASSUME NEW v \in Visitor
  PROVE  /\ Freed(v) \in Visitor
         /\ Freed(v).pc = v.pc /\ Place(Freed(v)) = Place(v)
         /\ Freed(v).way # "free" =>
              /\ Freed(v).way = v.way /\ "switched" \notin v.events
              /\ "left" \in v.events => "left" \in Freed(v).events
<1>1. Unseen \in [Products -> 0 .. 2]
  BY DEF Unseen
<1> DEFINE a == [v EXCEPT !.way = "free", !.seen = Unseen, !.steady = {}, !.events = {}]
           b == [v EXCEPT !.seen = Unseen, !.steady = {}, !.events = {}]
<1>2. a \in Visitor /\ a.pc = v.pc /\ Place(a) = Place(v) /\ a.way = "free"
  BY <1>1 DEF Visitor, Place
<1>3. b \in Visitor /\ b.pc = v.pc /\ Place(b) = Place(v) /\ b.way = v.way
  BY <1>1 DEF Visitor, Place
<1> HIDE DEF a, b
<1>4. \/ Freed(v) = a
      \/ /\ Freed(v) = b /\ v.way = "links" /\ "left" \notin v.events
         /\ "switched" \notin v.events
      \/ Freed(v) = v /\ "switched" \notin v.events
  BY DEF Freed, a, b
<1>5. QED
  BY <1>2, <1>3, <1>4

LEMMA AddressIs ==
  \A a \in Address :
    /\ a.page \in {"products", "category", "brand", "search"}
    /\ a.category \in Categories \cup {None} /\ a.brand \in Brands \cup {None}
    /\ a.only \in Availabilities \cup {None}
    /\ a.page = "category" => a.category \in Categories
    /\ a.page # "category" => a.category = None
    /\ a.page = "brand" => a.brand \in Brands
BY DEF Address, AddressOf

LEMMA PathsAre ==
  /\ Everything \in Path /\ Number \in Path /\ Name \in Path
  /\ \A c \in Categories \cup {None}, b \in Brands \cup {None},
        a \in Availabilities \cup {None} : Listing(c, b, a) \in Path
<1>1. \A c \in Categories \cup {None}, b \in Brands \cup {None},
        a \in Availabilities \cup {None} : Listing(c, b, a) \in Path
  BY DEF Listing, Path
<1>2. Everything \in Path
  BY <1>1 DEF Everything
<1>3. Number \in Path /\ Name \in Path
  BY <1>2 DEF Number, Name, Path
<1>4. QED
  BY <1>1, <1>2, <1>3

LEMMA FilteredIs == ASSUME NEW a \in Address PROVE Filtered(a) \in Path
<1>1. BrandFilter(a.brand) \in Brands \cup {None}
  BY DEF BrandFilter
<1>2. QED
  BY <1>1, AddressIs, PathsAre DEF Filtered

(* What CountList counts.                                                  *)
ToCount(v) == IF v.address.page = "brand" THEN Listing(None, v.address.brand, v.address.only)
              ELSE v.path

LEMMA ToCountIs == ASSUME NEW v \in Visitor PROVE ToCount(v) \in Path
<1>1. v.address \in Address /\ v.path \in Path
  BY DEF Visitor
<1>2. QED
  BY <1>1, AddressIs, PathsAre DEF ToCount

LEMMA AwayIs == Away \in Visitor
<1>1. Unseen \in [Products -> 0 .. 2] /\ 1 \in 1 .. MaxPage /\ 0 \in 0 .. Cardinality(Products)
  BY MaxPagePositive, RowsAreFinite, FS_CardinalityType DEF Unseen
<1>2. AddressOf("products", None, None, None) \in Address
  BY DEF Address
<1>3. Everything \in Path
  BY PathsAre
<1>4. 1 \in Nat \ {0} /\ {} \in SUBSET Products /\ {} \in SUBSET Events
  OBVIOUS
<1> DEFINE a == AddressOf("products", None, None, None)
<1> HIDE DEF a
<1>5. [pc |-> "idle", address |-> a, path |-> Everything, perPage |-> 1, page |-> 1, total |-> 0,
       empty |-> FALSE, quiet |-> FALSE, way |-> "walk",
       seen |-> Unseen, steady |-> {}, events |-> {}] \in Visitor
  BY <1>1, <1>2, <1>3, <1>4 DEF Visitor, a
<1>6. QED
  BY <1>5 DEF Away, a

(* Onto: a walk that goes on along another path is on its way no more.     *)
LEMMA OntoIs ==
  ASSUME visitor \in Visitor, NEW path \in Path, NEW v \in Visitor
  PROVE  LET w == Onto(path, v) IN
         /\ w \in Visitor /\ w.pc = v.pc /\ w.path = path /\ w.way = v.way
         /\ w.address = v.address /\ w.perPage = v.perPage /\ w.page = v.page
         /\ w.total = v.total /\ w.empty = v.empty
         /\ visitor.page > 1 /\ visitor.path # path => "switched" \in w.events
         /\ v.events \subseteq w.events
<1> DEFINE e == IF visitor.page > 1 /\ visitor.path # path THEN v.events \cup {"switched"}
                                                           ELSE v.events
<1>1. e \in SUBSET Events /\ v.events \subseteq e
      /\ (visitor.page > 1 /\ visitor.path # path => "switched" \in e)
  BY DEF Visitor, Events
<1>2. Onto(path, v) = [v EXCEPT !.path = path, !.events = e]
  BY DEF Onto
<1> HIDE DEF e
<1>3. QED
  BY <1>1, <1>2 DEF Visitor

(* A step of the visitor's request, or one of the admins' beside it, that  *)
(* leaves him on the page he asked for.  What it takes from his way it     *)
(* does not give back.                                                     *)
Onward(path) ==
  /\ visitor' \in Visitor
  /\ visitor'.address = visitor.address /\ visitor'.perPage = visitor.perPage
  /\ visitor'.page = visitor.page /\ visitor'.path = path
  /\ visitor'.way # "free" =>
       /\ visitor'.way = visitor.way
       /\ "left" \in visitor.events => "left" \in visitor'.events
       /\ visitor.page > 1 => visitor.path = path

LEMMA OntoGoesOnward ==
  ASSUME visitor \in Visitor, NEW path \in Path, NEW v \in Visitor,
         v.address = visitor.address, v.perPage = visitor.perPage, v.page = visitor.page,
         v.way = visitor.way, v.events = visitor.events,
         visitor' = Freed(Onto(path, v))
  PROVE  /\ Onward(path)
         /\ visitor'.pc = v.pc /\ visitor'.total = v.total /\ visitor'.empty = v.empty
<1> DEFINE w == Onto(path, v)
<1>1. /\ w \in Visitor /\ w.pc = v.pc /\ w.path = path /\ w.way = v.way
      /\ w.address = v.address /\ w.perPage = v.perPage /\ w.page = v.page
      /\ w.total = v.total /\ w.empty = v.empty
      /\ visitor.page > 1 /\ visitor.path # path => "switched" \in w.events
      /\ v.events \subseteq w.events
  BY OntoIs
<1> HIDE DEF w
<1>2. /\ Freed(w) \in Visitor
      /\ Freed(w).pc = w.pc /\ Place(Freed(w)) = Place(w)
      /\ Freed(w).way # "free" =>
           /\ Freed(w).way = w.way /\ "switched" \notin w.events
           /\ "left" \in w.events => "left" \in Freed(w).events
  BY <1>1, FreedIs
<1>3. visitor' = Freed(w)
  BY DEF w
<1>4. QED
  BY <1>1, <1>2, <1>3 DEF Onward, Place

LEMMA CountedIs ==
  ASSUME visitor \in Visitor, NEW path \in Path, Counted(path)
  PROVE  /\ Onward(path)
         /\ visitor'.pc = "counted" /\ visitor'.total = Found(path)
<1> DEFINE n == Found(path)
           m == IF visitor.page = 1 THEN Matching(path) ELSE visitor.steady
           c == [visitor EXCEPT !.pc = "counted", !.total = n, !.steady = m]
<1>1. n \in 0 .. Cardinality(Products)
  BY MatchesAreProducts
<1>2. m \in SUBSET Products
  BY DEF Visitor, Matching, Visible, VisibleIn, Path
<1>3. visitor' = Freed(Onto(path, c))
  BY DEF Counted, Found
<1> HIDE DEF n, m
<1>4. /\ c \in Visitor /\ c.pc = "counted" /\ c.total = n
      /\ c.address = visitor.address /\ c.perPage = visitor.perPage /\ c.page = visitor.page
      /\ c.way = visitor.way /\ c.events = visitor.events
  BY <1>1, <1>2 DEF Visitor
<1> HIDE DEF c
<1>5. QED
  BY <1>3, <1>4, OntoGoesOnward DEF n

LEMMA ResolveIs ==
  ASSUME visitor \in Visitor, ResolveBrandFilter
  PROVE  /\ \E path \in Path : Onward(path)
         /\ visitor'.pc = "found" /\ visitor'.total = visitor.total
<1> DEFINE path == Filtered(visitor.address)
           v == [visitor EXCEPT !.pc = "found"]
<1>1. path \in Path
  BY FilteredIs DEF Visitor
<1>2. visitor' = Freed(Onto(path, v))
  BY DEF ResolveBrandFilter
<1> HIDE DEF path
<1>3. /\ v \in Visitor /\ v.pc = "found" /\ v.total = visitor.total
      /\ v.address = visitor.address /\ v.perPage = visitor.perPage /\ v.page = visitor.page
      /\ v.way = visitor.way /\ v.events = visitor.events
  BY DEF Visitor
<1> HIDE DEF v
<1>4. QED
  BY <1>1, <1>2, <1>3, OntoGoesOnward

LEMMA StayingIsOnward ==
  ASSUME visitor \in Visitor,
         NEW pc \in {"idle", "asked", "placed", "found", "noNumber", "counted", "read", "answered"},
         NEW empty \in BOOLEAN, NEW quiet \in BOOLEAN, NEW seen \in [Products -> 0 .. 2],
         NEW events \in SUBSET Events, visitor.events \subseteq events,
         visitor' = [visitor EXCEPT !.pc = pc, !.empty = empty, !.quiet = quiet,
                                    !.seen = seen, !.events = events]
  PROVE  /\ Onward(visitor.path)
         /\ visitor'.pc = pc /\ visitor'.total = visitor.total /\ visitor'.empty = empty
         /\ visitor'.way = visitor.way /\ visitor'.events = events
BY DEF Visitor, Onward

LEMMA ReadIs ==
  ASSUME visitor \in Visitor, ReadRows
  PROVE  /\ Onward(visitor.path)
         /\ visitor'.pc = "read" /\ visitor'.total = visitor.total
         /\ visitor'.empty => \E s \in Orders(visitor.path) : PageOf(s, visitor) = {}
<1>1. PICK s \in Orders(visitor.path) :
       visitor' = [visitor EXCEPT
         !.pc = "read",
         !.empty = PageOf(s, visitor) = {},
         !.seen = [p \in Products |->
                     IF p \in visitor.steady \cap PageOf(s, visitor) /\ @[p] < 2
                     THEN @[p] + 1 ELSE @[p]],
         !.events = IF visitor.way = "walk" /\ Searched(visitor.path) /\ Tied(visitor.path)
                    THEN @ \cup {"tied"} ELSE @]
  BY DEF ReadRows
<1> DEFINE empty == PageOf(s, visitor) = {}
           seen == [p \in Products |->
                      IF p \in visitor.steady \cap PageOf(s, visitor) /\ visitor.seen[p] < 2
                      THEN visitor.seen[p] + 1 ELSE visitor.seen[p]]
           events == IF visitor.way = "walk" /\ Searched(visitor.path) /\ Tied(visitor.path)
                     THEN visitor.events \cup {"tied"} ELSE visitor.events
<1>2. empty \in BOOLEAN
  OBVIOUS
<1>3. seen \in [Products -> 0 .. 2]
  BY DEF Visitor
<1>4. events \in SUBSET Events /\ visitor.events \subseteq events
  BY DEF Visitor, Events
<1>5. visitor' = [visitor EXCEPT !.pc = "read", !.empty = empty, !.seen = seen, !.events = events]
  BY <1>1
<1> HIDE DEF empty, seen, events
<1>6. visitor.quiet \in BOOLEAN
  BY DEF Visitor
<1>7. visitor' = [visitor EXCEPT !.pc = "read", !.empty = empty, !.quiet = visitor.quiet,
                                 !.seen = seen, !.events = events]
  BY <1>5, <1>6 DEF Visitor
<1>8. "read" \in {"idle", "asked", "placed", "found", "noNumber", "counted", "read", "answered"}
  OBVIOUS
<1>9. /\ Onward(visitor.path)
      /\ visitor'.pc = "read" /\ visitor'.total = visitor.total /\ visitor'.empty = empty
  BY <1>2, <1>3, <1>4, <1>6, <1>7, <1>8, StayingIsOnward, Zenon
<1>10. QED
  BY <1>9 DEF empty

LEMMA DisturbIs ==
  ASSUME visitor \in Visitor, Disturb(row', shown'), visitor.pc # "idle"
  PROVE  /\ Onward(visitor.path)
         /\ visitor'.pc = visitor.pc /\ visitor'.total = visitor.total
         /\ visitor'.empty = visitor.empty
         /\ visitor'.way # "free" /\ "left" \notin visitor'.events => Visible \subseteq Visible'
<1> DEFINE after == VisibleIn(row', shown')
           moved == {p \in Visible \cap after : row[p] # row'[p]}
           left == (Visible \ after) \cup moved
           entered == (after \ Visible) \cup moved
           events == (IF left = {} THEN {} ELSE {"left"})
                       \cup (IF entered = {} THEN {} ELSE {"entered"})
                       \cup (IF entered # {} /\ visitor.pc = "counted" THEN {"torn"} ELSE {})
           e == visitor.events \cup events
           st == visitor.steady \ (left \cup entered)
           se == [p \in Products |-> IF p \in left \cup entered THEN 0 ELSE visitor.seen[p]]
           d == [visitor EXCEPT !.quiet = FALSE, !.steady = st, !.seen = se, !.events = e]
<1>1. visitor' = Freed(d)
  BY DEF Disturb
<1>2. "left" \in e \/ Visible \subseteq after
  OBVIOUS
<1>3. e \in SUBSET Events /\ visitor.events \subseteq e
  BY DEF Visitor, Events
<1>4. st \in SUBSET Products
  BY DEF Visitor
<1>5. se \in [Products -> 0 .. 2]
  BY DEF Visitor
<1>6. Visible' = after
  BY DEF Visible
<1> HIDE DEF after, e, st, se
<1>7. /\ d \in Visitor /\ d.pc = visitor.pc /\ Place(d) = Place(visitor)
      /\ d.way = visitor.way /\ d.events = e
  BY <1>3, <1>4, <1>5 DEF Visitor, Place
<1> HIDE DEF d
<1>8. /\ Freed(d) \in Visitor
      /\ Freed(d).pc = d.pc /\ Place(Freed(d)) = Place(d)
      /\ Freed(d).way # "free" =>
           /\ Freed(d).way = d.way
           /\ "left" \in d.events => "left" \in Freed(d).events
  BY <1>7, FreedIs
<1>9. QED
  BY <1>1, <1>2, <1>3, <1>6, <1>7, <1>8 DEF Onward, Place

---------------------------------------------------------------------------
(* Types hold.                                                             *)
RouteInv ==
  /\ visitor.pc = "found" => visitor.address.page # "search"
  /\ visitor.pc = "placed" => visitor.address.page = "category"

LEMMA OpenIs ==
  ASSUME NEW address \in Address, NEW raw \in {1} \cup Typed,
         NEW n \in PerPages[address.page], Open(address, n, raw)
  PROVE  /\ visitor' \in Visitor
         /\ visitor'.pc = "asked" /\ visitor'.total = 0
         /\ visitor'.way # "free" => visitor'.page = 1
<1> DEFINE k == parsePage(raw)
           way == IF k = 1 THEN "walk" ELSE "free"
<1>1. k \in 1 .. MaxPage /\ way \in {"walk", "free"} /\ (way # "free" => k = 1)
  BY MaxPagePositive, ParsePageIs
<1>2. n \in Nat \ {0}
  BY AddressIs, PerPagesPositive
<1>3. visitor' = [Away EXCEPT !.pc = "asked", !.quiet = TRUE, !.address = address,
                              !.perPage = n, !.page = k, !.way = way]
  BY DEF Open
<1> HIDE DEF k, way
<1>4. Away \in Visitor /\ Away.total = 0
  BY AwayIs DEF Away
<1>5. QED
  BY <1>1, <1>2, <1>3, <1>4 DEF Visitor

LEMMA LinksAreNumbers == ASSUME visitor \in Visitor PROVE Links(visitor) \subseteq Nat \ {0}
<1>1. visitor.page \in Nat \ {0} /\ visitor.perPage \in Nat \ {0} /\ visitor.total \in Nat
  BY MaxPagePositive DEF Visitor
<1>2. pageCount(visitor) \in Int
  BY <1>1 DEF pageCount
<1>3. pageWindow(visitor) \subseteq Nat \ {0}
  BY <1>1, <1>2, SpanNumber DEF pageWindow
<1>4. QED
  BY <1>1, <1>3 DEF Links

LEMMA FollowIs ==
  ASSUME visitor \in Visitor, NEW n \in Links(visitor), Follow(n)
  PROVE  /\ visitor' \in Visitor
         /\ visitor'.pc = "asked" /\ visitor'.total = 0
         /\ visitor'.page = parsePage(n)
         /\ visitor'.perPage = visitor.perPage /\ visitor'.path = visitor.path
         /\ visitor'.way # "free" => visitor.way # "free"
         /\ visitor'.way # "free" /\ "left" \in visitor.events => "left" \in visitor'.events
<1> DEFINE v == [visitor EXCEPT !.pc = "asked", !.page = parsePage(n),
                                !.total = 0, !.empty = FALSE, !.quiet = TRUE]
           w == [v EXCEPT !.way = "links"]
<1>1. 0 \in 0 .. Cardinality(Products) /\ parsePage(n) \in 1 .. MaxPage
  BY RowsAreFinite, FS_CardinalityType, ParsePageIs, LinksAreNumbers
<1>2. /\ v \in Visitor /\ v.pc = "asked" /\ v.total = 0 /\ v.page = parsePage(n)
      /\ v.perPage = visitor.perPage /\ v.path = visitor.path
      /\ v.way = visitor.way /\ v.events = visitor.events
  BY <1>1 DEF Visitor
<1>3. visitor' = v \/ (visitor' = Freed(w) /\ visitor.way # "free")
  BY DEF Follow
<1> HIDE DEF v
<1>4. /\ w \in Visitor /\ w.pc = "asked" /\ Place(w) = Place(v) /\ w.events = v.events
  BY <1>2 DEF Visitor, Place
<1> HIDE DEF w
<1>5. /\ Freed(w) \in Visitor
      /\ Freed(w).pc = w.pc /\ Place(Freed(w)) = Place(w)
      /\ Freed(w).way # "free" /\ "left" \in w.events => "left" \in Freed(w).events
  BY <1>4, FreedIs
<1>6. QED
  BY <1>2, <1>3, <1>4, <1>5 DEF Place

LEMMA FindPlaceIs ==
  ASSUME visitor \in Visitor, FindPlace
  PROVE  \/ visitor' = Away
         \/ /\ Onward(visitor.path) /\ visitor'.total = visitor.total
            /\ visitor.pc = "asked" /\ Lists(visitor.address)
            /\ \/ visitor'.pc = "found" /\ visitor.address.page = "brand"
               \/ visitor'.pc = "placed" /\ visitor.address.page = "category"
<1> DEFINE next == IF visitor.address.page = "category" THEN "placed" ELSE "found"
<1>1. CASE visitor' = [visitor EXCEPT !.pc = next] /\ Lists(visitor.address)
  <2>1. /\ Onward(visitor.path) /\ visitor'.pc = next /\ visitor'.total = visitor.total
    BY <1>1 DEF Visitor, Onward
  <2>2. QED
    BY <1>1, <2>1 DEF FindPlace
<1>2. QED
  BY <1>1 DEF FindPlace

LEMMA CountsAre ==
  ASSUME visitor \in Visitor, RouteInv, CountList \/ CountNumber \/ CountName
  PROVE  \E path \in Path : Onward(path) /\
           \/ visitor'.pc = "counted" /\ visitor'.total = Found(path)
           \/ /\ visitor'.pc = "noNumber" /\ visitor'.total = visitor.total
              /\ visitor.pc = "asked"
<1>1. CASE CountList
  <2> DEFINE path == ToCount(visitor)
  <2>1. path \in Path
    BY ToCountIs
  <2>2. Counted(path)
    BY <1>1 DEF CountList, ToCount
  <2> HIDE DEF path
  <2>3. QED
    BY <2>1, <2>2, CountedIs
<1>2. CASE CountNumber /\ Matching(Number) # {}
  BY <1>2, PathsAre, CountedIs DEF CountNumber
<1>3. CASE CountNumber /\ Matching(Number) = {}
  <2>1. visitor' = [visitor EXCEPT !.pc = "noNumber"] /\ visitor.pc = "asked"
    BY <1>3 DEF CountNumber
  <2>2. /\ Onward(visitor.path) /\ visitor'.pc = "noNumber" /\ visitor'.total = visitor.total
    BY <2>1 DEF Visitor, Onward
  <2>3. QED
    BY <2>1, <2>2 DEF Visitor
<1>4. CASE CountName
  BY <1>4, PathsAre, CountedIs DEF CountName
<1>5. QED
  BY <1>1, <1>2, <1>3, <1>4

(* Where no statement of a page was sent yet, nothing is counted.          *)
FreshInv ==
  /\ visitor.pc \in {"idle", "asked", "placed", "found", "noNumber"} => visitor.total = 0
  /\ visitor.pc = "idle" => visitor.page = 1

SoundInv == TypeOK /\ RouteInv /\ FreshInv

LEMMA SoundAtFirst == Init => SoundInv
BY AwayIs DEF Init, SoundInv, TypeOK, RouteInv, FreshInv, Away

LEMMA SoundStays == SoundInv /\ [Next]_vars => SoundInv'
<1> SUFFICES ASSUME SoundInv, [Next]_vars PROVE SoundInv'
  OBVIOUS
<1>1. /\ row \in [Products -> Row] /\ shown \in [Categories -> BOOLEAN]
      /\ offered \in [Brands -> BOOLEAN] /\ visitor \in Visitor /\ RouteInv /\ FreshInv
  BY DEF SoundInv, TypeOK
<1>2. ASSUME UNCHANGED <<row, shown, offered>>, visitor' \in Visitor, RouteInv', FreshInv'
      PROVE  SoundInv'
  BY <1>1, <1>2 DEF SoundInv, TypeOK
<1>3. ASSUME NEW address \in Address, NEW raw \in {1} \cup Typed,
             NEW n \in PerPages[address.page], Open(address, n, raw)
      PROVE  SoundInv'
  <2>1. UNCHANGED <<row, shown, offered>>
    BY <1>3 DEF Open
  <2>2. visitor' \in Visitor /\ visitor'.pc = "asked" /\ visitor'.total = 0
    BY <1>3, OpenIs
  <2>3. QED
    BY <1>2, <2>1, <2>2 DEF RouteInv, FreshInv
<1>4. CASE FindPlace
  <2>1. UNCHANGED <<row, shown, offered>>
    BY <1>4 DEF FindPlace
  <2>2. CASE visitor' = Away
    BY <1>2, <2>1, <2>2, AwayIs DEF Away, RouteInv, FreshInv
  <2>3. CASE /\ Onward(visitor.path) /\ visitor'.total = visitor.total
             /\ visitor.pc = "asked"
             /\ \/ visitor'.pc = "found" /\ visitor.address.page = "brand"
                \/ visitor'.pc = "placed" /\ visitor.address.page = "category"
    BY <1>1, <1>2, <2>1, <2>3 DEF Onward, RouteInv, FreshInv
  <2>4. QED
    BY <1>1, <1>4, <2>2, <2>3, FindPlaceIs
<1>5. CASE ResolveBrandFilter
  <2>1. UNCHANGED <<row, shown, offered>> /\ visitor.pc \in {"asked", "placed"}
        /\ visitor.address.page # "search"
    BY <1>1, <1>5 DEF ResolveBrandFilter, RouteInv
  <2>2. /\ visitor' \in Visitor /\ visitor'.address = visitor.address
        /\ visitor'.pc = "found" /\ visitor'.total = visitor.total
    BY <1>1, <1>5, ResolveIs DEF Onward
  <2>3. QED
    BY <1>1, <1>2, <2>1, <2>2 DEF RouteInv, FreshInv
<1>6. CASE CountList \/ CountNumber \/ CountName
  <2>1. UNCHANGED <<row, shown, offered>>
    BY <1>6 DEF CountList, CountNumber, CountName
  <2>2. /\ visitor' \in Visitor
        /\ \/ visitor'.pc = "counted"
           \/ /\ visitor'.pc = "noNumber" /\ visitor'.total = visitor.total
              /\ visitor.pc = "asked"
    BY <1>1, <1>6, CountsAre DEF Onward
  <2>3. QED
    BY <1>1, <1>2, <2>1, <2>2 DEF RouteInv, FreshInv
<1>7. CASE ReadRows
  <2>1. UNCHANGED <<row, shown, offered>>
    BY <1>7 DEF ReadRows
  <2>2. visitor' \in Visitor /\ visitor'.pc = "read"
    BY <1>1, <1>7, ReadIs DEF Onward
  <2>3. QED
    BY <1>2, <2>1, <2>2 DEF RouteInv, FreshInv
<1>8. CASE ReadSideBar
  <2>1. UNCHANGED <<row, shown, offered>>
    BY <1>8 DEF ReadSideBar
  <2>2. visitor' \in Visitor /\ visitor'.pc = "answered"
    BY <1>1, <1>8 DEF ReadSideBar, Visitor
  <2>3. QED
    BY <1>2, <2>1, <2>2 DEF RouteInv, FreshInv
<1>9. ASSUME NEW n \in Links(visitor), Follow(n) PROVE SoundInv'
  <2>1. UNCHANGED <<row, shown, offered>>
    BY <1>9 DEF Follow
  <2>2. visitor' \in Visitor /\ visitor'.pc = "asked" /\ visitor'.total = 0
    BY <1>1, <1>9, FollowIs
  <2>3. QED
    BY <1>2, <2>1, <2>2 DEF RouteInv, FreshInv
<1>10. CASE Leave
  BY <1>2, <1>10, AwayIs DEF Leave, Away, RouteInv, FreshInv
<1>11. ASSUME Disturb(row', shown') PROVE visitor' \in Visitor /\ RouteInv' /\ FreshInv'
  <2>1. CASE visitor.pc = "idle"
    BY <1>1, <1>11, <2>1 DEF Disturb, RouteInv, FreshInv
  <2>2. CASE visitor.pc # "idle"
    BY <1>1, <1>11, <2>2, DisturbIs DEF Onward, RouteInv, FreshInv
  <2>3. QED
    BY <2>1, <2>2
<1>12. ASSUME NEW p \in Products, NEW r \in Row, EditProduct(p, r) PROVE SoundInv'
  <2>1. /\ row' \in [Products -> Row] /\ UNCHANGED <<shown, offered>>
        /\ Disturb(row', shown')
    BY <1>1, <1>12 DEF EditProduct
  <2>2. QED
    BY <1>1, <1>11, <2>1 DEF SoundInv, TypeOK
<1>13. ASSUME NEW c \in Categories, EditCategory(c) PROVE SoundInv'
  <2>1. /\ shown' \in [Categories -> BOOLEAN] /\ UNCHANGED <<row, offered>>
        /\ Disturb(row', shown')
    BY <1>1, <1>13 DEF EditCategory
  <2>2. QED
    BY <1>1, <1>11, <2>1 DEF SoundInv, TypeOK
<1>14. ASSUME NEW b \in Brands, EditBrand(b) PROVE SoundInv'
  <2>1. offered' \in [Brands -> BOOLEAN] /\ UNCHANGED <<row, shown>>
    BY <1>1, <1>14 DEF EditBrand
  <2>2. visitor' \in Visitor /\ RouteInv' /\ FreshInv'
    BY <1>1, <1>14 DEF EditBrand, Visitor, RouteInv, FreshInv
  <2>3. QED
    BY <1>1, <2>1, <2>2 DEF SoundInv, TypeOK
<1>15. CASE UNCHANGED vars
  BY <1>15 DEF vars, SoundInv, TypeOK, RouteInv, FreshInv
<1>16. QED
  BY <1>3, <1>4, <1>5, <1>6, <1>7, <1>8, <1>9, <1>10, <1>12, <1>13, <1>14, <1>15 DEF Next

(* Types hold: in particular every page that is asked for lies between 1   *)
(* and the cap of parsePage.                                               *)
THEOREM TypeCorrect == Spec => []TypeOK
<1>1. SoundInv => TypeOK
  BY DEF SoundInv
<1>2. QED
  BY <1>1, SoundAtFirst, SoundStays, PTL DEF Spec

---------------------------------------------------------------------------
(* Empty pages.  While nothing leaves, a listing only grows: the first row *)
(* of a page a link leads to stays one of those that match, and no more    *)
(* was counted than matches.                                               *)
InPlace(v) == v.way # "free" /\ "left" \notin v.events
PlacedInv ==
  InPlace(visitor) =>
    /\ visitor.page = 1 \/ Offset(visitor) < Found(visitor.path)
    /\ visitor.total <= Found(visitor.path)

LEMMA NothingChanges ==
  ASSUME UNCHANGED <<row, shown>>, NEW path \in Path
  PROVE  Found(path)' = Found(path)
BY DEF Found, Matching, Visible, VisibleIn

LEMMA PlacedByOnward ==
  ASSUME SoundInv, PlacedInv, NEW path \in Path, Onward(path),
         InPlace(visitor') => \A q \in Path : Found(q) <= Found(q)',
         \/ visitor'.total = visitor.total /\ (path = visitor.path \/ visitor.total = 0)
         \/ visitor'.total = Found(path)'
  PROVE  PlacedInv'
<1> SUFFICES ASSUME InPlace(visitor')
             PROVE  /\ visitor'.page = 1 \/ Offset(visitor') < Found(path)'
                    /\ visitor'.total <= Found(path)'
  BY DEF PlacedInv, InPlace, Onward
<1>1. InPlace(visitor) /\ (visitor.page > 1 => visitor.path = path)
  BY DEF InPlace, Onward
<1>2. /\ visitor \in Visitor
      /\ visitor.page \in Nat \ {0} /\ visitor.perPage \in Nat /\ visitor.total \in Nat
      /\ visitor.path \in Path
  BY MaxPagePositive DEF SoundInv, TypeOK, Visitor
<1>3. /\ visitor.page = 1 \/ Offset(visitor) < Found(visitor.path)
      /\ visitor.total <= Found(visitor.path)
  BY <1>1 DEF PlacedInv
<1>4. Found(path) \in Nat /\ Found(path)' \in Nat /\ Found(path) <= Found(path)'
  BY MatchesAreProducts, FS_CardinalityType, RowsAreFinite
<1>5. visitor'.page = visitor.page /\ Offset(visitor') = Offset(visitor)
      /\ Offset(visitor) \in Int
  BY <1>2 DEF Onward, Offset
<1>6. visitor'.page = 1 \/ Offset(visitor') < Found(path)'
  BY <1>1, <1>2, <1>3, <1>4, <1>5
<1>7. visitor'.total <= Found(path)'
  BY <1>2, <1>3, <1>4
<1>8. QED
  BY <1>6, <1>7

LEMMA PlacedByFollow ==
  ASSUME SoundInv, PlacedInv, NEW n \in Links(visitor), Follow(n) PROVE PlacedInv'
<1>1. /\ visitor \in Visitor
      /\ visitor.page \in Nat \ {0} /\ visitor.perPage \in Nat \ {0} /\ visitor.total \in Nat
      /\ visitor.path \in Path
  BY MaxPagePositive DEF SoundInv, TypeOK, Visitor
<1> DEFINE k == parsePage(n)
<1>0. /\ n \in Nat \ {0} /\ visitor \in Visitor
      /\ k \in Nat \ {0} /\ k <= n
  BY LinksAreNumbers, ParsePageIs, MaxPagePositive DEF SoundInv, TypeOK
<1>2. /\ visitor'.total = 0 /\ visitor'.page = k /\ visitor'.perPage = visitor.perPage
      /\ visitor'.path = visitor.path
      /\ InPlace(visitor') => InPlace(visitor)
  BY <1>1, FollowIs DEF InPlace
<1> PICK path \in Path : path = visitor.path
  BY <1>1
<1> SUFFICES ASSUME InPlace(visitor')
             PROVE  /\ k = 1 \/ (k - 1) * visitor.perPage < Found(path)'
                    /\ 0 <= Found(path)'
  BY <1>2 DEF PlacedInv, Offset
<1>3. Found(path)' = Found(path) /\ Found(path) = Found(visitor.path) /\ Found(path) \in Nat
  <2>1. Found(path)' = Found(path)
    BY NothingChanges DEF Follow
  <2>2. Found(path) \in Nat
    BY MatchesAreProducts, RowsAreFinite, FS_CardinalityType
  <2>3. QED
    BY <2>1, <2>2
<1>4. /\ visitor.page = 1 \/ (visitor.page - 1) * visitor.perPage < Found(visitor.path)
      /\ visitor.total <= Found(visitor.path)
  BY <1>2 DEF PlacedInv, Offset
<1>5. /\ n \in Links(visitor)
      /\ visitor.total > 0
  BY <1>1 DEF Follow, Links, pageCount
<1> HIDE DEF k
<1>6. CASE visitor.page > 1 /\ n = visitor.page - 1
  <2>1. (k - 1) * visitor.perPage < k * visitor.perPage
    BY <1>0, <1>1, EarlierPagesBeginEarlier
  <2>2. k * visitor.perPage <= (visitor.page - 1) * visitor.perPage
    BY <1>0, <1>1, <1>6
  <2>3. /\ (k - 1) * visitor.perPage \in Int /\ k * visitor.perPage \in Int
        /\ (visitor.page - 1) * visitor.perPage \in Int
    BY <1>0, <1>1
  <2>4. QED
    BY <1>3, <1>4, <1>6, <2>1, <2>2, <2>3
<1>7. CASE n <= (visitor.total + visitor.perPage - 1) \div visitor.perPage
  <2>0. (visitor.total + visitor.perPage - 1) \div visitor.perPage \in Int
    BY <1>1
  <2>1. (k - 1) * visitor.perPage < visitor.total
    BY <1>0, <1>1, <1>5, <1>7, <2>0, LinkedPagesBegin
  <2>2. (k - 1) * visitor.perPage \in Int
    BY <1>0, <1>1
  <2>3. QED
    BY <1>1, <1>3, <1>4, <2>1, <2>2
<1>8. pageCount(visitor) = (visitor.total + visitor.perPage - 1) \div visitor.perPage
  BY <1>1, <1>5 DEF pageCount
<1>9. pageCount(visitor) \in Int
  BY <1>1, <1>8
<1>10. \/ visitor.page > 1 /\ n = visitor.page - 1
       \/ n <= pageCount(visitor)
  BY <1>0, <1>1, <1>5, <1>9 DEF Links, pageWindow, hasNext
<1>11. QED
  BY <1>6, <1>7, <1>8, <1>10

LEMMA RowsAreRead ==
  ASSUME SoundInv, PlacedInv, InPlace(visitor), visitor.total > 0,
         NEW s \in Orders(visitor.path)
  PROVE  PageOf(s, visitor) # {}
<1>1. /\ visitor.page \in Nat \ {0} /\ visitor.perPage \in Nat \ {0} /\ visitor.total \in Nat
      /\ visitor.path \in Path
  BY MaxPagePositive DEF SoundInv, TypeOK, Visitor
<1>2. Found(visitor.path) \in Nat
  BY <1>1, MatchesAreProducts, RowsAreFinite, FS_CardinalityType
<1>3. Offset(visitor) \in Nat
  BY <1>1 DEF Offset
<1>4. Offset(visitor) < Found(visitor.path)
  <2>1. visitor.page = 1 => Offset(visitor) = 0
    BY <1>1 DEF Offset
  <2>2. QED
    BY <1>1, <1>2, <2>1 DEF PlacedInv
<1>5. s \in [1 .. Found(visitor.path) -> Matching(visitor.path)]
  BY DEF Orders, SetToSeqs, Found
<1>6. Len(s) = Found(visitor.path)
  BY <1>2, <1>5
<1> DEFINE k == Offset(visitor) + 1
<1>7. k \in 1 .. Len(s) /\ k > Offset(visitor) /\ k <= Offset(visitor) + visitor.perPage
  BY <1>1, <1>2, <1>3, <1>4, <1>6
<1>8. s[k] \in PageOf(s, visitor)
  BY <1>7 DEF PageOf
<1>9. QED
  BY <1>8

LEMMA PlacedByEdit ==
  ASSUME SoundInv, PlacedInv, Disturb(row', shown')
  PROVE  PlacedInv'
<1>1. visitor \in Visitor /\ visitor.path \in Path
  BY DEF SoundInv, TypeOK, Visitor
<1>2. CASE visitor.pc = "idle"
  <2>1. visitor' = visitor /\ visitor.page = 1 /\ visitor.total = 0
    BY <1>2 DEF Disturb, SoundInv, FreshInv
  <2>2. PICK path \in Path : path = visitor.path
    BY <1>1
  <2>3. Found(path)' >= 0
    BY MatchesAreProducts
  <2>4. QED
    BY <2>1, <2>2, <2>3 DEF PlacedInv
<1>3. CASE visitor.pc # "idle"
  <2>1. /\ Onward(visitor.path) /\ visitor'.total = visitor.total
        /\ InPlace(visitor') => Visible \subseteq Visible'
    BY <1>1, <1>3, DisturbIs DEF InPlace
  <2>2. InPlace(visitor') => \A q \in Path : Found(q) <= Found(q)'
    BY <2>1, MatchesGrow
  <2>3. PICK path \in Path : path = visitor.path
    BY <1>1
  <2>4. Onward(path)
    BY <2>1, <2>3
  <2>5. QED
    BY <2>1, <2>2, <2>3, <2>4, PlacedByOnward
<1>4. QED
  BY <1>2, <1>3

LEMMA EmptyByEdit ==
  ASSUME SoundInv, EmptyPagesHaveCause, Disturb(row', shown') PROVE EmptyPagesHaveCause'
<1>1. visitor \in Visitor
  BY DEF SoundInv, TypeOK
<1>2. CASE visitor.pc = "idle"
  BY <1>2 DEF Disturb, EmptyPagesHaveCause
<1>3. CASE visitor.pc # "idle"
  BY <1>1, <1>3, DisturbIs DEF Onward, EmptyPagesHaveCause
<1>4. QED
  BY <1>2, <1>3

LEMMA PlacedStays ==
  SoundInv /\ PlacedInv /\ EmptyPagesHaveCause /\ [Next]_vars =>
    PlacedInv' /\ EmptyPagesHaveCause'
<1> SUFFICES ASSUME SoundInv, PlacedInv, EmptyPagesHaveCause, [Next]_vars
             PROVE  PlacedInv' /\ EmptyPagesHaveCause'
  OBVIOUS
<1>1. visitor \in Visitor /\ visitor.path \in Path /\ RouteInv /\ FreshInv
  BY DEF SoundInv, TypeOK, Visitor
<1>2. PICK path \in Path : path = visitor.path
  BY <1>1
<1>3. ASSUME NEW q \in Path PROVE Found(q)' \in Nat
  BY MatchesAreProducts
<1>4. ASSUME UNCHANGED <<row, shown>> PROVE \A q \in Path : Found(q) <= Found(q)'
  <2> TAKE q \in Path
  <2>1. Found(q)' = Found(q) /\ Found(q)' \in Nat
    BY <1>3, <1>4, NothingChanges
  <2>2. QED
    BY <2>1
<1>5. ASSUME visitor'.page = 1, visitor'.total = 0, visitor'.path \in Path,
             visitor'.pc \notin {"read", "answered"}
      PROVE  PlacedInv' /\ EmptyPagesHaveCause'
  <2>1. PICK q \in Path : q = visitor'.path
    BY <1>5
  <2>2. Found(q)' >= 0
    BY <1>3
  <2>3. QED
    BY <1>5, <2>1, <2>2 DEF PlacedInv, EmptyPagesHaveCause
<1>6. ASSUME NEW address \in Address, NEW raw \in {1} \cup Typed,
             NEW n \in PerPages[address.page], Open(address, n, raw)
      PROVE  PlacedInv' /\ EmptyPagesHaveCause'
  <2>1. /\ visitor' \in Visitor /\ visitor'.pc = "asked" /\ visitor'.total = 0
        /\ visitor'.way # "free" => visitor'.page = 1
    BY <1>6, OpenIs
  <2>2. CASE visitor'.way = "free"
    BY <2>1, <2>2 DEF PlacedInv, InPlace, EmptyPagesHaveCause
  <2>3. CASE visitor'.way # "free"
    BY <1>5, <2>1, <2>3 DEF Visitor
  <2>4. QED
    BY <2>2, <2>3
<1>7. ASSUME visitor' = Away PROVE PlacedInv' /\ EmptyPagesHaveCause'
  BY <1>5, <1>7, PathsAre DEF Away
<1>8. ASSUME NEW q \in Path, Onward(q), UNCHANGED <<row, shown>>,
             visitor'.pc \notin {"read", "answered"},
             \/ visitor'.total = visitor.total /\ (q = visitor.path \/ visitor.total = 0)
             \/ visitor'.total = Found(q)'
      PROVE  PlacedInv' /\ EmptyPagesHaveCause'
  BY <1>4, <1>8, PlacedByOnward DEF EmptyPagesHaveCause
<1>9. CASE FindPlace
  <2>1. UNCHANGED <<row, shown>>
    BY <1>9 DEF FindPlace
  <2>2. \/ visitor' = Away
        \/ /\ Onward(path) /\ visitor'.total = visitor.total
           /\ visitor'.pc \in {"found", "placed"}
    BY <1>1, <1>2, <1>9, FindPlaceIs
  <2>3. QED
    BY <1>2, <1>7, <1>8, <2>1, <2>2
<1>10. CASE ResolveBrandFilter
  <2>1. UNCHANGED <<row, shown>> /\ visitor.total = 0
    BY <1>1, <1>10 DEF ResolveBrandFilter, FreshInv
  <2>2. PICK q \in Path : Onward(q) /\ visitor'.pc = "found" /\ visitor'.total = visitor.total
    BY <1>1, <1>10, ResolveIs
  <2>3. QED
    BY <1>8, <2>1, <2>2
<1>11. CASE CountList \/ CountNumber \/ CountName
  <2>1. UNCHANGED <<row, shown>>
    BY <1>11 DEF CountList, CountNumber, CountName
  <2>2. PICK q \in Path : Onward(q) /\
           \/ visitor'.pc = "counted" /\ visitor'.total = Found(q)
           \/ /\ visitor'.pc = "noNumber" /\ visitor'.total = visitor.total
              /\ visitor.pc = "asked"
    BY <1>1, <1>11, CountsAre
  <2>3. Found(q)' = Found(q)
    BY <2>1, NothingChanges
  <2>4. visitor.pc = "asked" => visitor.total = 0
    BY <1>1 DEF FreshInv
  <2>5. QED
    BY <1>8, <2>1, <2>2, <2>3, <2>4
<1>12. CASE ReadRows
  <2>1. UNCHANGED <<row, shown>>
    BY <1>12 DEF ReadRows
  <2>2. /\ Onward(path) /\ visitor'.pc = "read" /\ visitor'.total = visitor.total
        /\ visitor'.empty => \E s \in Orders(visitor.path) : PageOf(s, visitor) = {}
    BY <1>1, <1>2, <1>12, ReadIs
  <2>3. PlacedInv'
    BY <1>2, <1>4, <2>1, <2>2, PlacedByOnward
  <2>4. InPlace(visitor') => InPlace(visitor)
    BY <2>2 DEF Onward, InPlace
  <2>5. EmptyPagesHaveCause'
    <3> SUFFICES ASSUME visitor'.empty, visitor'.total > 0, InPlace(visitor') PROVE FALSE
      BY DEF EmptyPagesHaveCause, InPlace
    <3>1. QED
      BY <2>2, <2>4, RowsAreRead
  <2>6. QED
    BY <2>3, <2>5
<1>13. CASE ReadSideBar
  <2>1. /\ visitor.pc = "read" /\ UNCHANGED <<row, shown>>
        /\ visitor' = [visitor EXCEPT !.pc = "answered", !.quiet = FALSE]
    BY <1>13 DEF ReadSideBar
  <2>2. /\ Onward(path) /\ visitor'.total = visitor.total /\ visitor'.empty = visitor.empty
        /\ visitor'.pc = "answered"
        /\ visitor'.way = visitor.way /\ visitor'.events = visitor.events
    BY <1>1, <1>2, <2>1 DEF Visitor, Onward
  <2>3. PlacedInv'
    BY <1>2, <1>4, <2>1, <2>2, PlacedByOnward
  <2>4. QED
    BY <2>1, <2>2, <2>3 DEF EmptyPagesHaveCause
<1>14. ASSUME NEW n \in Links(visitor), Follow(n) PROVE PlacedInv' /\ EmptyPagesHaveCause'
  <2>1. visitor'.pc = "asked"
    BY <1>1, <1>14, FollowIs
  <2>2. QED
    BY <1>14, <2>1, PlacedByFollow DEF EmptyPagesHaveCause
<1>15. CASE Leave
  BY <1>7, <1>15 DEF Leave
<1>16. ASSUME NEW p \in Products, NEW r \in Row, EditProduct(p, r)
       PROVE  PlacedInv' /\ EmptyPagesHaveCause'
  <2>1. Disturb(row', shown')
    BY <1>16 DEF EditProduct
  <2>2. QED
    BY <2>1, PlacedByEdit, EmptyByEdit
<1>17. ASSUME NEW c \in Categories, EditCategory(c) PROVE PlacedInv' /\ EmptyPagesHaveCause'
  <2>1. Disturb(row', shown')
    BY <1>17 DEF EditCategory
  <2>2. QED
    BY <2>1, PlacedByEdit, EmptyByEdit
<1>18. ASSUME NEW b \in Brands, EditBrand(b) PROVE PlacedInv' /\ EmptyPagesHaveCause'
  <2>1. UNCHANGED <<row, shown>> /\ visitor' = [visitor EXCEPT !.quiet = FALSE]
    BY <1>18 DEF EditBrand
  <2>2. /\ Onward(path) /\ visitor'.total = visitor.total /\ visitor'.empty = visitor.empty
        /\ visitor'.pc = visitor.pc
        /\ visitor'.way = visitor.way /\ visitor'.events = visitor.events
    BY <1>1, <1>2, <2>1 DEF Visitor, Onward
  <2>3. PlacedInv'
    BY <1>2, <1>4, <2>1, <2>2, PlacedByOnward
  <2>4. QED
    BY <2>2, <2>3 DEF EmptyPagesHaveCause
<1>19. CASE UNCHANGED vars
  <2>1. UNCHANGED <<row, shown>> /\ visitor' = visitor
    BY <1>19 DEF vars
  <2>2. Found(path)' = Found(path)
    BY <2>1, NothingChanges
  <2>3. QED
    BY <1>2, <2>1, <2>2 DEF PlacedInv, EmptyPagesHaveCause
<1>20. QED
  BY <1>6, <1>9, <1>10, <1>11, <1>12, <1>13, <1>14, <1>15, <1>16, <1>17, <1>18, <1>19 DEF Next

(* For any catalogue, any size of a page and any cap: a page reached by    *)
(* the links of other pages has rows if anything was counted for it,       *)
(* unless products left or the listing became another one on the way.      *)
THEOREM LinkedPagesHaveRows == Spec => []EmptyPagesHaveCause
<1>1. Init => SoundInv /\ PlacedInv /\ EmptyPagesHaveCause
  <2> SUFFICES ASSUME Init PROVE PlacedInv /\ EmptyPagesHaveCause
    BY SoundAtFirst
  <2>1. visitor = Away
    BY DEF Init
  <2>2. Found(Everything) >= 0
    BY PathsAre, MatchesAreProducts, RowsAreFinite, FS_CardinalityType
  <2>3. QED
    BY <2>1, <2>2 DEF PlacedInv, EmptyPagesHaveCause, Away
<1>2. SoundInv /\ PlacedInv /\ EmptyPagesHaveCause /\ [Next]_vars =>
        (SoundInv /\ PlacedInv /\ EmptyPagesHaveCause)'
  BY SoundStays, PlacedStays
<1>3. QED
  BY <1>1, <1>2, PTL DEF Spec

---------------------------------------------------------------------------
(* The places of products in a listing.                                    *)
Ahead(path, p) == {q \in Matching(path) : q # p /\ Before(path, q, p)}
Rank(path, p)  == Cardinality(Ahead(path, p))

(* The ORDER BY leaves no two rows tied.                                   *)
Strict(path) == ~ (Searched(path) /\ Tied(path))

LEMMA RanksAre ==
  ASSUME NEW path \in Path, NEW p \in Products
  PROVE  /\ Rank(path, p) \in Nat /\ Rank(path, p)' \in Nat
         /\ IsFiniteSet(Ahead(path, p)) /\ IsFiniteSet(Ahead(path, p)')
         /\ p \in Matching(path) => Rank(path, p) < Found(path)
<1>1. /\ IsFiniteSet(Matching(path)) /\ IsFiniteSet(Matching(path)')
      /\ Found(path) \in Nat
  BY MatchesAreProducts, FS_CardinalityType DEF Found
<1>2. Ahead(path, p) \subseteq Matching(path) \ {p} /\ Ahead(path, p) \subseteq Matching(path)
  BY DEF Ahead
<1>3. Ahead(path, p)' \subseteq Matching(path)'
  BY DEF Ahead
<1>4. IsFiniteSet(Ahead(path, p)) /\ IsFiniteSet(Ahead(path, p)')
  BY <1>1, <1>2, <1>3, FS_Subset
<1>5. Rank(path, p) \in Nat /\ Rank(path, p)' \in Nat
  BY <1>4, FS_CardinalityType DEF Rank
<1>6. ASSUME p \in Matching(path) PROVE Rank(path, p) < Found(path)
  <2>1. /\ IsFiniteSet(Matching(path) \ {p})
        /\ Cardinality(Matching(path) \ {p}) = Found(path) - 1
    BY <1>1, <1>6, FS_RemoveElement DEF Found
  <2>2. Rank(path, p) <= Found(path) - 1
    BY <1>2, <2>1, FS_Subset DEF Rank
  <2>3. QED
    BY <1>1, <1>5, <2>2
<1>7. QED
  BY <1>4, <1>5, <1>6

LEMMA KeysOfMatches ==
  ASSUME TypeOK, NEW path \in Path, NEW p \in Matching(path)
  PROVE  p \in Products /\ p \in Int /\ row[p] \in Int
<1>1. p \in Visible
  BY DEF Matching, Path
<1>2. QED
  BY <1>1, OrderByNumbers DEF Visible, VisibleIn, TypeOK, Row

(* In an order without ties the i-th row has i - 1 rows ahead of it.       *)
LEMMA RankInOrder ==
  ASSUME TypeOK, NEW path \in Path, Strict(path), NEW s \in Orders(path),
         NEW i \in 1 .. Found(path)
  PROVE  Rank(path, s[i]) = i - 1
<1> DEFINE M == Matching(path)
           n == Found(path)
<1>1. IsFiniteSet(M) /\ n \in Nat
  BY MatchesAreProducts, FS_CardinalityType DEF Found
<1>2. s \in [1 .. n -> M] /\ \A j, k \in 1 .. n : j # k => s[j] # s[k]
  BY DEF Orders, SetToSeqs, Found
<1>3. \A j, k \in 1 .. n : j < k => Before(path, s[j], s[k])
  <2>1. Len(s) = n
    BY <1>1, <1>2
  <2>2. QED
    BY <2>1 DEF Orders
<1>4. \A q \in M : \E j \in 1 .. n : s[j] = q
  <2>1. s \in Injection(1 .. n, M)
    BY <1>2 DEF Injection, IsInjective
  <2>2. Cardinality(1 .. n) = n
    BY <1>1, FS_Interval
  <2>3. s \in Surjection(1 .. n, M)
    BY <1>1, <2>1, <2>2, FS_Injection DEF Found
  <2>4. QED
    BY <2>3 DEF Surjection
<1>5. ASSUME NEW p \in M, NEW q \in M, p # q, Before(path, p, q) PROVE ~ Before(path, q, p)
  <2>1. p \in Int /\ q \in Int /\ row[p] \in Int /\ row[q] \in Int
    BY KeysOfMatches
  <2>2. Searched(path) => row[p] # row[q]
    BY <1>5 DEF Strict, Tied
  <2>3. QED
    BY <1>5, <2>1, <2>2 DEF Before
<1>6. Ahead(path, s[i]) = {s[j] : j \in 1 .. i - 1}
  <2>1. ASSUME NEW j \in 1 .. i - 1 PROVE s[j] \in Ahead(path, s[i])
    <3>1. j \in 1 .. n /\ j < i
      BY <1>1
    <3>2. s[j] \in M /\ s[j] # s[i] /\ Before(path, s[j], s[i])
      BY <1>2, <1>3, <3>1
    <3>3. QED
      BY <3>2 DEF Ahead
  <2>2. ASSUME NEW q \in Ahead(path, s[i]) PROVE q \in {s[j] : j \in 1 .. i - 1}
    <3>1. q \in M /\ q # s[i] /\ Before(path, q, s[i]) /\ s[i] \in M
      BY <1>2 DEF Ahead
    <3>2. PICK j \in 1 .. n : s[j] = q
      BY <1>4, <3>1
    <3>3. j # i /\ ~ (i < j)
      BY <1>3, <1>5, <3>1, <3>2
    <3>4. j \in 1 .. i - 1
      BY <1>1, <3>3
    <3>5. QED
      BY <3>2, <3>4
  <2>3. QED
    BY <2>1, <2>2
<1>7. Cardinality({s[j] : j \in 1 .. i - 1}) = i - 1
  <2> DEFINE f == [j \in 1 .. i - 1 |-> s[j]]
             T == {s[j] : j \in 1 .. i - 1}
  <2>1. \A j, k \in 1 .. i - 1 : j # k => f[j] # f[k]
    BY <1>1, <1>2
  <2>2. f \in Bijection(1 .. i - 1, T)
    BY <2>1 DEF Bijection, Injection, Surjection, IsInjective
  <2> HIDE DEF f, T
  <2>3. IsFiniteSet(1 .. i - 1) /\ Cardinality(1 .. i - 1) = i - 1
    <3>1. i - 1 \in Nat
      BY <1>1
    <3>2. IsFiniteSet(1 .. i - 1) /\ Cardinality(1 .. i - 1) = (i - 1) - 1 + 1
      BY <3>1, FS_Interval
    <3>3. QED
      BY <3>1, <3>2
  <2>4. ExistsBijection(1 .. i - 1, T)
    BY <2>2 DEF ExistsBijection
  <2>5. Cardinality(T) = i - 1
    BY <2>3, <2>4, FS_Bijection
  <2>6. QED
    BY <2>5 DEF T
<1>8. QED
  BY <1>6, <1>7 DEF Rank

LEMMA OnPage ==
  ASSUME TypeOK, NEW path \in Path, Strict(path), NEW s \in Orders(path),
         NEW p \in Matching(path), NEW v \in Visitor
  PROVE  p \in PageOf(s, v) <=>
           Offset(v) <= Rank(path, p) /\ Rank(path, p) < Offset(v) + v.perPage
<1> DEFINE M == Matching(path)
           n == Found(path)
<1>1. IsFiniteSet(M) /\ n \in Nat
  BY MatchesAreProducts, FS_CardinalityType DEF Found
<1>2. s \in [1 .. n -> M] /\ \A j, k \in 1 .. n : j # k => s[j] # s[k]
  BY DEF Orders, SetToSeqs, Found
<1>3. Len(s) = n
  BY <1>1, <1>2
<1>4. PICK i \in 1 .. n : s[i] = p
  <2>1. s \in Injection(1 .. n, M)
    BY <1>2 DEF Injection, IsInjective
  <2>2. Cardinality(1 .. n) = n
    BY <1>1, FS_Interval
  <2>3. s \in Surjection(1 .. n, M)
    BY <1>1, <2>1, <2>2, FS_Injection DEF Found
  <2>4. QED
    BY <2>3 DEF Surjection
<1>5. Rank(path, p) = i - 1
  BY <1>4, RankInOrder
<1>6. p \in PageOf(s, v) <=> i > Offset(v) /\ i <= Offset(v) + v.perPage
  BY <1>2, <1>3, <1>4 DEF PageOf
<1>7. Offset(v) \in Int /\ v.perPage \in Int
  BY MaxPagePositive DEF Offset, Visitor
<1>8. QED
  BY <1>5, <1>6, <1>7

LEMMA RanksStay ==
  ASSUME UNCHANGED <<row, shown>>, NEW path \in Path, NEW p \in Products
  PROVE  Rank(path, p)' = Rank(path, p) /\ Matching(path)' = Matching(path)
BY DEF Rank, Ahead, Matching, Visible, VisibleIn, Before, Searched

(* What an edit moves.                                                     *)
Moved   == {p \in Visible \cap Visible' : row'[p] # row[p]}
Left    == (Visible \ Visible') \cup Moved
Entered == (Visible' \ Visible) \cup Moved

LEMMA RanksRise ==
  ASSUME Left = {}, NEW path \in Path, NEW p \in Visible
  PROVE  Rank(path, p) <= Rank(path, p)'
<1>1. /\ Visible \subseteq Visible' /\ Visible \subseteq Products
      /\ \A q \in Visible : row'[q] = row[q]
  BY DEF Left, Moved, Visible, VisibleIn
<1>2. Ahead(path, p) \subseteq Ahead(path, p)'
  <2> SUFFICES ASSUME NEW q \in Ahead(path, p) PROVE q \in Ahead(path, p)'
    OBVIOUS
  <2>1. q \in Matching(path) /\ q # p /\ Before(path, q, p)
    BY DEF Ahead
  <2>2. q \in Visible /\ q \in Matching(path)'
    BY <1>1, <2>1 DEF Matching, Path
  <2>3. Before(path, q, p)'
    BY <1>1, <2>1, <2>2 DEF Before, Searched
  <2>4. QED
    BY <2>1, <2>2, <2>3 DEF Ahead
<1>3. QED
  BY <1>1, <1>2, RanksAre, FS_Subset DEF Rank

LEMMA RanksFall ==
  ASSUME Entered = {}, NEW path \in Path, NEW p \in Visible'
  PROVE  Rank(path, p)' <= Rank(path, p)
<1>1. /\ Visible' \subseteq Visible /\ Visible \subseteq Products
      /\ \A q \in Visible' : row'[q] = row[q]
  BY DEF Entered, Moved, Visible, VisibleIn
<1>2. Ahead(path, p)' \subseteq Ahead(path, p)
  <2> SUFFICES ASSUME NEW q \in Ahead(path, p)' PROVE q \in Ahead(path, p)
    OBVIOUS
  <2>1. q \in Matching(path)' /\ q # p /\ Before(path, q, p)'
    BY DEF Ahead
  <2>2. q \in Visible' /\ q \in Matching(path)
    BY <1>1, <2>1 DEF Matching, Path
  <2>3. Before(path, q, p)
    BY <1>1, <2>1, <2>2 DEF Before, Searched
  <2>4. QED
    BY <2>1, <2>2, <2>3 DEF Ahead
<1>3. QED
  BY <1>1, <1>2, RanksAre, FS_Subset DEF Rank

---------------------------------------------------------------------------
(* Walks.  How many rows of the listing the pages shown so far stand for.  *)
Done(v) == IF v.pc \in {"read", "answered"} THEN v.page * v.perPage ELSE Offset(v)

Early(v) == v.pc \in {"idle", "asked", "placed", "found", "noNumber"}

(* A product that stays put was shown at most once, and then its rank is   *)
(* one of those shown, for as long as nothing came before it; and one that *)
(* was not shown has a rank beyond, for as long as nothing before it left. *)
ShownOnce(v) ==
  v.events \cap {"entered", "tied"} = {} =>
    \A p \in v.steady : v.seen[p] = 0 \/ (v.seen[p] = 1 /\ Rank(v.path, p) < Done(v))
NothingSkipped(v) ==
  v.events \cap {"left", "tied"} = {} =>
    \A p \in v.steady : v.seen[p] = 0 => Done(v) <= Rank(v.path, p)

(* Between the count and the rows nothing changed unless it left a trace,  *)
(* so a product not shown yet has its place on a later page.               *)
CountHolds(v) ==
  v.pc = "counted" /\ v.events \cap {"left", "torn"} = {} => v.total = Found(v.path)
MoreToCome(v) ==
  v.pc \in {"read", "answered"} /\ v.events \cap {"left", "torn", "tied"} = {} =>
    \A p \in v.steady : v.seen[p] = 0 => Done(v) < v.total

Steady(v) ==
  /\ v.steady \subseteq Matching(v.path)
  /\ v.page = 1 /\ Early(v) => v.steady = {}
  /\ v.page = 1 /\ v.pc \notin {"read", "answered"} => v.seen = Unseen

WalkInv ==
  visitor.way = "walk" =>
    /\ Steady(visitor) /\ ShownOnce(visitor) /\ NothingSkipped(visitor)
    /\ CountHolds(visitor) /\ MoreToCome(visitor)

LEMMA FreedWalks ==
  ASSUME NEW v \in Visitor, Freed(v).way = "walk"
  PROVE  /\ Freed(v) = v /\ v.way = "walk" /\ "switched" \notin v.events
         /\ ~ ({"left", "entered"} \subseteq v.events)
<1> DEFINE a == [v EXCEPT !.way = "free", !.seen = Unseen, !.steady = {}, !.events = {}]
           b == [v EXCEPT !.seen = Unseen, !.steady = {}, !.events = {}]
<1>1. a.way = "free" /\ b.way = v.way
  BY DEF Visitor
<1> HIDE DEF a, b
<1>2. \/ Freed(v) = a
      \/ Freed(v) = b /\ v.way = "links"
      \/ /\ Freed(v) = v /\ "switched" \notin v.events
         /\ ~ ({"left", "entered"} \subseteq v.events)
  BY DEF Freed, a, b
<1>3. QED
  BY <1>1, <1>2

LEMMA DoneIs ==
  ASSUME NEW v \in Visitor
  PROVE  /\ Done(v) \in Nat /\ Offset(v) \in Nat
         /\ v.page * v.perPage = Offset(v) + v.perPage /\ v.page * v.perPage \in Nat
         /\ v.page \in Nat \ {0} /\ v.perPage \in Nat \ {0} /\ v.total \in Nat
         /\ v.path \in Path /\ v.steady \subseteq Products /\ v.seen \in [Products -> 0 .. 2]
<1>1. /\ v.page \in Nat \ {0} /\ v.perPage \in Nat \ {0} /\ v.total \in Nat
      /\ v.path \in Path /\ v.steady \subseteq Products /\ v.seen \in [Products -> 0 .. 2]
  BY MaxPagePositive DEF Visitor
<1>2. /\ (v.page - 1) * v.perPage \in Nat /\ v.page * v.perPage \in Nat
      /\ v.page * v.perPage = (v.page - 1) * v.perPage + v.perPage
  BY <1>1
<1>3. QED
  BY <1>1, <1>2 DEF Done, Offset

(* A step that shows and changes nothing.                                  *)
LEMMA WalkRests ==
  ASSUME SoundInv, visitor.way = "walk", WalkInv, UNCHANGED <<row, shown>>,
         NEW path \in Path, visitor' \in Visitor, visitor'.path = path,
         visitor'.events = visitor.events, visitor'.seen = visitor.seen,
         visitor'.steady = visitor.steady, Done(visitor') = Done(visitor),
         path = visitor.path \/ visitor.steady = {},
         visitor'.page = 1 /\ Early(visitor') => visitor.steady = {},
         visitor'.page = 1 /\ visitor'.pc \notin {"read", "answered"} => visitor.seen = Unseen,
         visitor'.pc = "counted" =>
           \/ visitor'.total = Found(path)
           \/ visitor.pc = "counted" /\ visitor'.total = visitor.total /\ path = visitor.path,
         visitor'.pc \in {"read", "answered"} =>
           visitor.pc \in {"read", "answered"} /\ visitor'.total = visitor.total
  PROVE  WalkInv'
<1>1. visitor \in Visitor /\ visitor.steady \subseteq Products
  BY DoneIs DEF SoundInv, TypeOK
<1>2. \A p \in Products : Rank(path, p)' = Rank(path, p)
  BY RanksStay
<1>3. Matching(path)' = Matching(path) /\ Found(path)' = Found(path)
  BY NothingChanges DEF Matching, Visible, VisibleIn
<1>4. Done(visitor)' = Done(visitor)
  BY DEF Done, Offset
<1>5. Steady(visitor)'
  BY <1>3 DEF WalkInv, Steady, Early
<1>6. ShownOnce(visitor)'
  BY <1>1, <1>2, <1>4 DEF WalkInv, ShownOnce
<1>7. NothingSkipped(visitor)'
  BY <1>1, <1>2, <1>4 DEF WalkInv, NothingSkipped
<1>8. CountHolds(visitor)'
  BY <1>3 DEF WalkInv, CountHolds
<1>9. MoreToCome(visitor)'
  BY <1>4 DEF WalkInv, MoreToCome
<1>10. QED
  BY <1>5, <1>6, <1>7, <1>8, <1>9 DEF WalkInv

(* A walk nothing was shown on yet.                                        *)
LEMMA WalkBegins ==
  ASSUME visitor'.way = "walk" => visitor'.steady = {} /\ visitor'.seen = Unseen,
         visitor'.pc \notin {"counted", "read", "answered"}
  PROVE  WalkInv'
BY DEF WalkInv, Steady, ShownOnce, NothingSkipped, CountHolds, MoreToCome

(* The first count of a walk.                                              *)
LEMMA WalkCounts ==
  ASSUME SoundInv, visitor.way = "walk", WalkInv, UNCHANGED <<row, shown>>,
         NEW path \in Path, visitor' \in Visitor, visitor'.path = path,
         visitor'.pc = "counted", visitor'.page = 1, visitor'.seen = Unseen,
         visitor'.steady = Matching(path), visitor'.total = Found(path)
  PROVE  WalkInv'
<1>1. Matching(path)' = Matching(path) /\ Found(path)' = Found(path)
  BY NothingChanges DEF Matching, Visible, VisibleIn
<1>2. Done(visitor)' = 0 /\ visitor'.steady \subseteq Products
  BY DoneIs DEF Done, Offset
<1>3. \A p \in Products : Rank(path, p)' \in Nat /\ Unseen[p] = 0
  BY RanksAre DEF Unseen
<1>4. Steady(visitor)'
  BY <1>1 DEF Steady, Early
<1>5. ShownOnce(visitor)' /\ NothingSkipped(visitor)'
  BY <1>2, <1>3 DEF ShownOnce, NothingSkipped
<1>6. CountHolds(visitor)' /\ MoreToCome(visitor)'
  BY <1>1 DEF CountHolds, MoreToCome
<1>7. QED
  BY <1>4, <1>5, <1>6 DEF WalkInv

(* The rows of a page are those of the ranks next to be shown.             *)
LEMMA WalkReads == ASSUME SoundInv, WalkInv, ReadRows PROVE WalkInv'
<1>1. visitor \in Visitor /\ TypeOK /\ visitor.pc = "counted" /\ UNCHANGED <<row, shown>>
  BY DEF SoundInv, TypeOK, ReadRows
<1>2. PICK s \in Orders(visitor.path) :
       visitor' = [visitor EXCEPT
         !.pc = "read",
         !.empty = PageOf(s, visitor) = {},
         !.seen = [p \in Products |->
                     IF p \in visitor.steady \cap PageOf(s, visitor) /\ @[p] < 2
                     THEN @[p] + 1 ELSE @[p]],
         !.events = IF visitor.way = "walk" /\ Searched(visitor.path) /\ Tied(visitor.path)
                    THEN @ \cup {"tied"} ELSE @]
  BY DEF ReadRows
<1> DEFINE seen == [p \in Products |->
                      IF p \in visitor.steady \cap PageOf(s, visitor) /\ visitor.seen[p] < 2
                      THEN visitor.seen[p] + 1 ELSE visitor.seen[p]]
<1>3. /\ visitor'.pc = "read" /\ visitor'.seen = seen /\ visitor'.path = visitor.path
      /\ visitor'.way = visitor.way /\ visitor'.steady = visitor.steady
      /\ visitor'.page = visitor.page /\ visitor'.perPage = visitor.perPage
      /\ visitor'.total = visitor.total /\ visitor.events \subseteq visitor'.events
      /\ visitor.way = "walk" /\ "tied" \notin visitor'.events => Strict(visitor.path)
  BY <1>1, <1>2 DEF Visitor, Strict
<1> SUFFICES ASSUME visitor.way = "walk" PROVE WalkInv'
  BY <1>3 DEF WalkInv
<1> PICK path \in Path : path = visitor.path
  BY <1>1, DoneIs
<1> DEFINE d == Offset(visitor)
           n == visitor.perPage
<1>4. /\ d \in Nat /\ n \in Nat /\ visitor.total \in Nat
      /\ Done(visitor) = d /\ Done(visitor)' = d + n
      /\ visitor.steady \subseteq Products /\ visitor.seen \in [Products -> 0 .. 2]
  <2>1. Done(visitor)' = visitor.page * visitor.perPage
    BY <1>3 DEF Done
  <2>2. QED
    BY <1>1, <2>1, DoneIs DEF Done
<1>5. /\ Matching(path)' = Matching(path)
      /\ \A p \in Products : Rank(path, p)' = Rank(path, p) /\ Rank(path, p) \in Nat
  BY <1>1, RanksStay, RanksAre DEF Matching, Visible, VisibleIn
<1>6. visitor.steady \subseteq Matching(path)
  BY DEF WalkInv, Steady
<1>7. ASSUME NEW p \in visitor.steady, "tied" \notin visitor'.events
      PROVE  p \in PageOf(s, visitor) <=> d <= Rank(path, p) /\ Rank(path, p) < d + n
  BY <1>1, <1>3, <1>6, <1>7, OnPage
<1>8. ASSUME NEW p \in visitor.steady
      PROVE  /\ p \in Products /\ visitor.seen[p] \in 0 .. 2
             /\ seen[p] = IF p \in PageOf(s, visitor) /\ visitor.seen[p] < 2
                         THEN visitor.seen[p] + 1 ELSE visitor.seen[p]
  BY <1>4, <1>8
<1> HIDE DEF seen, d, n
<1>9. Steady(visitor)'
  BY <1>3, <1>5, <1>6 DEF Steady, Early
<1>10. ShownOnce(visitor)'
  <2> SUFFICES ASSUME visitor'.events \cap {"entered", "tied"} = {}, NEW p \in visitor.steady
               PROVE  seen[p] = 0 \/ (seen[p] = 1 /\ Rank(path, p)' < d + n)
    BY <1>3, <1>4 DEF ShownOnce
  <2>1. visitor.seen[p] = 0 \/ (visitor.seen[p] = 1 /\ Rank(path, p) < d)
    BY <1>3, <1>4 DEF WalkInv, ShownOnce
  <2>2. p \in PageOf(s, visitor) <=> d <= Rank(path, p) /\ Rank(path, p) < d + n
    BY <1>7
  <2>3. Rank(path, p)' = Rank(path, p) /\ Rank(path, p) \in Nat
    BY <1>5, <1>8
  <2>4. QED
    BY <1>4, <1>8, <2>1, <2>2, <2>3
<1>11. NothingSkipped(visitor)'
  <2> SUFFICES ASSUME visitor'.events \cap {"left", "tied"} = {}, NEW p \in visitor.steady,
                      seen[p] = 0
               PROVE  d + n <= Rank(path, p)'
    BY <1>3, <1>4 DEF NothingSkipped
  <2>1. visitor.seen[p] = 0 /\ p \notin PageOf(s, visitor)
    BY <1>8
  <2>2. d <= Rank(path, p)
    BY <1>3, <1>4, <2>1 DEF WalkInv, NothingSkipped
  <2>3. p \in PageOf(s, visitor) <=> d <= Rank(path, p) /\ Rank(path, p) < d + n
    BY <1>7
  <2>4. Rank(path, p)' = Rank(path, p) /\ Rank(path, p) \in Nat
    BY <1>5, <1>8
  <2>5. QED
    BY <1>4, <2>1, <2>2, <2>3, <2>4
<1>12. MoreToCome(visitor)'
  <2> SUFFICES ASSUME visitor'.events \cap {"left", "torn", "tied"} = {},
                      NEW p \in visitor.steady, seen[p] = 0
               PROVE  d + n < visitor.total
    BY <1>3, <1>4 DEF MoreToCome
  <2>1. d + n <= Rank(path, p)'
    BY <1>3, <1>4, <1>11 DEF NothingSkipped
  <2>2. Rank(path, p)' = Rank(path, p) /\ Rank(path, p) \in Nat /\ Rank(path, p) < Found(path)
    BY <1>5, <1>6, <1>8, RanksAre
  <2>3. visitor.total = Found(path)
    BY <1>1, <1>3 DEF WalkInv, CountHolds
  <2>4. QED
    BY <1>4, <2>1, <2>2, <2>3
<1>13. QED
  BY <1>3, <1>9, <1>10, <1>11, <1>12 DEF WalkInv, CountHolds

LEMMA EditWalks ==
  ASSUME visitor \in Visitor, Disturb(row', shown'), visitor.pc # "idle", visitor'.way = "walk"
  PROVE  /\ visitor.way = "walk" /\ visitor'.pc = visitor.pc /\ visitor'.path = visitor.path
         /\ visitor'.page = visitor.page /\ visitor'.perPage = visitor.perPage
         /\ visitor'.total = visitor.total
         /\ visitor'.steady = visitor.steady \ (Left \cup Entered)
         /\ \A p \in visitor'.steady : visitor'.seen[p] = visitor.seen[p]
         /\ visitor.seen = Unseen => visitor'.seen = Unseen
         /\ visitor.events \subseteq visitor'.events
         /\ "left" \notin visitor'.events => Left = {}
         /\ "entered" \notin visitor'.events => Entered = {}
         /\ visitor.pc = "counted" /\ "torn" \notin visitor'.events => Entered = {}
<1> DEFINE e == visitor.events
                  \cup ((IF Left = {} THEN {} ELSE {"left"})
                          \cup (IF Entered = {} THEN {} ELSE {"entered"})
                          \cup (IF Entered # {} /\ visitor.pc = "counted" THEN {"torn"} ELSE {}))
           st == visitor.steady \ (Left \cup Entered)
           se == [p \in Products |-> IF p \in Left \cup Entered THEN 0 ELSE visitor.seen[p]]
           d == [visitor EXCEPT !.quiet = FALSE, !.steady = st, !.seen = se, !.events = e]
<1>1. Visible' = VisibleIn(row', shown')
  BY DEF Visible
<1>2. visitor' = Freed(d)
  BY <1>1 DEF Disturb, Left, Entered, Moved
<1>3. e \in SUBSET Events /\ st \in SUBSET Products /\ se \in [Products -> 0 .. 2]
  BY DEF Visitor, Events
<1>4. /\ visitor.events \subseteq e
      /\ "left" \notin e => Left = {}
      /\ "entered" \notin e => Entered = {}
      /\ visitor.pc = "counted" /\ "torn" \notin e => Entered = {}
  OBVIOUS
<1>5. /\ \A p \in st : se[p] = visitor.seen[p]
      /\ visitor.seen = Unseen => se = Unseen
  BY DEF Visitor, Unseen
<1> HIDE DEF e, se
<1>6. /\ d \in Visitor /\ d.way = visitor.way /\ d.pc = visitor.pc /\ d.path = visitor.path
      /\ d.page = visitor.page /\ d.perPage = visitor.perPage /\ d.total = visitor.total
      /\ d.steady = st /\ d.seen = se /\ d.events = e
  BY <1>3 DEF Visitor
<1> HIDE DEF d
<1>7. visitor' = d
  BY <1>2, <1>6, FreedWalks
<1>8. QED
  BY <1>2, <1>4, <1>5, <1>6, <1>7, FreedWalks

(* Ranks only fall while nothing enters, and only rise while nothing       *)
(* leaves.                                                                 *)
LEMMA WalkEdits == ASSUME SoundInv, WalkInv, Disturb(row', shown') PROVE WalkInv'
<1>1. visitor \in Visitor
  BY DEF SoundInv, TypeOK
<1>2. CASE visitor.pc = "idle"
  BY <1>2, WalkBegins DEF Disturb, SoundInv, FreshInv, WalkInv, Steady, Early
<1>3. CASE visitor.pc # "idle"
  <2> SUFFICES ASSUME visitor'.way = "walk" PROVE WalkInv'
    BY DEF WalkInv
  <2>1. /\ visitor.way = "walk" /\ visitor'.pc = visitor.pc /\ visitor'.path = visitor.path
        /\ visitor'.page = visitor.page /\ visitor'.perPage = visitor.perPage
        /\ visitor'.total = visitor.total
        /\ visitor'.steady = visitor.steady \ (Left \cup Entered)
        /\ \A p \in visitor'.steady : visitor'.seen[p] = visitor.seen[p]
        /\ visitor.seen = Unseen => visitor'.seen = Unseen
        /\ visitor.events \subseteq visitor'.events
        /\ "left" \notin visitor'.events => Left = {}
        /\ "entered" \notin visitor'.events => Entered = {}
        /\ visitor.pc = "counted" /\ "torn" \notin visitor'.events => Entered = {}
    BY <1>1, <1>3, EditWalks
  <2> PICK path \in Path : path = visitor.path
    BY <1>1, DoneIs
  <2>2. Steady(visitor) /\ ShownOnce(visitor) /\ NothingSkipped(visitor)
        /\ CountHolds(visitor) /\ MoreToCome(visitor)
    BY <2>1 DEF WalkInv
  <2>3. Done(visitor)' = Done(visitor) /\ Done(visitor) \in Nat
    BY <1>1, <2>1, DoneIs DEF Done, Offset
  <2>4. ASSUME NEW p \in visitor'.steady
        PROVE  /\ p \in Products /\ p \in Visible /\ p \in Visible' /\ p \in Matching(path)'
               /\ Rank(path, p) \in Nat /\ Rank(path, p)' \in Nat
    <3>1. p \in visitor.steady /\ p \notin Left
      BY <2>1, <2>4
    <3>2. p \in Matching(path)
      BY <2>2, <3>1 DEF Steady
    <3>3. p \in Visible
      BY <3>2 DEF Matching, Path
    <3>4. p \in Visible'
      BY <3>1, <3>3 DEF Left
    <3>5. p \in Matching(path)' /\ p \in Products
      BY <3>2, <3>3, <3>4 DEF Matching, Path, Visible, VisibleIn
    <3>6. QED
      BY <3>3, <3>4, <3>5, RanksAre
  <2>5. Steady(visitor)'
    BY <2>1, <2>2, <2>4 DEF Steady, Early
  <2>6. ShownOnce(visitor)'
    <3> SUFFICES ASSUME visitor'.events \cap {"entered", "tied"} = {}, NEW p \in visitor'.steady
                 PROVE  \/ visitor'.seen[p] = 0
                        \/ visitor'.seen[p] = 1 /\ Rank(path, p)' < Done(visitor)
      BY <2>1, <2>3 DEF ShownOnce
    <3>1. visitor.seen[p] = 0 \/ (visitor.seen[p] = 1 /\ Rank(path, p) < Done(visitor))
      BY <2>1, <2>2 DEF ShownOnce
    <3>2. Rank(path, p)' <= Rank(path, p)
      BY <2>1, <2>4, RanksFall
    <3>3. QED
      BY <2>1, <2>3, <2>4, <3>1, <3>2
  <2>7. NothingSkipped(visitor)'
    <3> SUFFICES ASSUME visitor'.events \cap {"left", "tied"} = {}, NEW p \in visitor'.steady,
                        visitor'.seen[p] = 0
                 PROVE  Done(visitor) <= Rank(path, p)'
      BY <2>1, <2>3 DEF NothingSkipped
    <3>1. Done(visitor) <= Rank(path, p)
      BY <2>1, <2>2 DEF NothingSkipped
    <3>2. Rank(path, p) <= Rank(path, p)'
      BY <2>1, <2>4, RanksRise
    <3>3. QED
      BY <2>3, <2>4, <3>1, <3>2
  <2>8. CountHolds(visitor)'
    <3> SUFFICES ASSUME visitor.pc = "counted", visitor'.events \cap {"left", "torn"} = {}
                 PROVE  visitor.total = Found(path)'
      BY <2>1 DEF CountHolds
    <3>1. Visible = Visible'
      BY <2>1 DEF Left, Entered
    <3>2. Found(path)' = Found(path)
      BY <3>1 DEF Found, Matching, Path
    <3>3. QED
      BY <2>1, <2>2, <3>2 DEF CountHolds
  <2>9. MoreToCome(visitor)'
    BY <2>1, <2>2, <2>3 DEF MoreToCome
  <2>10. QED
    BY <2>5, <2>6, <2>7, <2>8, <2>9 DEF WalkInv
<1>4. QED
  BY <1>2, <1>3

LEMMA OntoWalks ==
  ASSUME visitor \in Visitor, NEW path \in Path, NEW v \in Visitor,
         v.page = visitor.page, v.events = visitor.events,
         visitor' = Freed(Onto(path, v)), visitor'.way = "walk"
  PROVE  /\ visitor' \in Visitor /\ v.way = "walk"
         /\ visitor'.pc = v.pc /\ visitor'.path = path /\ visitor'.page = v.page
         /\ visitor'.perPage = v.perPage /\ visitor'.total = v.total
         /\ visitor'.steady = v.steady /\ visitor'.seen = v.seen /\ visitor'.events = v.events
         /\ visitor.page = 1 \/ path = visitor.path
<1> DEFINE w == Onto(path, v)
<1>1. w \in Visitor /\ (visitor.page > 1 /\ visitor.path # path => "switched" \in w.events)
  BY OntoIs
<1>2. Freed(w) = w /\ w.way = "walk" /\ "switched" \notin w.events
  BY <1>1, FreedWalks
<1>3. visitor.page = 1 \/ path = visitor.path
  BY <1>1, <1>2, DoneIs
<1>4. w = [v EXCEPT !.path = path, !.events = v.events]
  <2>1. ~ (visitor.page > 1 /\ visitor.path # path)
    BY <1>3
  <2>2. QED
    BY <2>1 DEF Onto
<1> HIDE DEF w
<1>5. /\ w.way = v.way /\ w.pc = v.pc /\ w.path = path /\ w.page = v.page
      /\ w.perPage = v.perPage /\ w.total = v.total /\ w.steady = v.steady
      /\ w.seen = v.seen /\ w.events = v.events
  BY <1>4 DEF Visitor
<1>6. visitor' = w
  BY <1>2 DEF w
<1>7. QED
  BY <1>1, <1>2, <1>3, <1>5, <1>6

LEMMA WalkGoesOnto ==
  ASSUME SoundInv, WalkInv, NEW path \in Path, UNCHANGED <<row, shown>>,
         \/ Early(visitor) /\ visitor' = Freed(Onto(path, [visitor EXCEPT !.pc = "found"]))
         \/ Early(visitor) /\ Counted(path)
  PROVE  WalkInv'
<1> SUFFICES ASSUME visitor'.way = "walk" PROVE WalkInv'
  BY DEF WalkInv
<1>1. visitor \in Visitor /\ visitor.page \in Nat \ {0}
  BY DoneIs DEF SoundInv, TypeOK
<1>2. CASE Early(visitor) /\ visitor' = Freed(Onto(path, [visitor EXCEPT !.pc = "found"]))
  <2> DEFINE v == [visitor EXCEPT !.pc = "found"]
  <2>1. /\ v \in Visitor /\ v.pc = "found" /\ v.way = visitor.way /\ v.page = visitor.page
        /\ v.perPage = visitor.perPage /\ v.steady = visitor.steady /\ v.seen = visitor.seen
        /\ v.events = visitor.events
    BY <1>1 DEF Visitor
  <2>2. visitor' = Freed(Onto(path, v))
    BY <1>2
  <2> HIDE DEF v
  <2>3. /\ visitor' \in Visitor /\ visitor.way = "walk"
        /\ visitor'.pc = "found" /\ visitor'.path = path /\ visitor'.page = visitor.page
        /\ visitor'.perPage = visitor.perPage /\ visitor'.steady = visitor.steady
        /\ visitor'.seen = visitor.seen /\ visitor'.events = visitor.events
        /\ visitor.page = 1 \/ path = visitor.path
    BY <1>1, <2>1, <2>2, OntoWalks
  <2>4. Done(visitor') = Done(visitor)
    BY <1>2, <2>3 DEF Done, Offset, Early
  <2>5. Steady(visitor) /\ Early(visitor) /\ Early(visitor')
    BY <1>2, <2>3 DEF WalkInv, Early
  <2>6. path = visitor.path \/ visitor.steady = {}
    BY <2>3, <2>5 DEF Steady
  <2>7. visitor.pc \notin {"read", "answered"} /\ visitor'.pc \notin {"counted", "read", "answered"}
    BY <2>3, <2>5 DEF Early
  <2>8. /\ visitor'.page = 1 => visitor.steady = {}
        /\ visitor'.page = 1 => visitor.seen = Unseen
    BY <2>3, <2>5, <2>7 DEF Steady
  <2>9. QED
    BY <2>3, <2>4, <2>6, <2>7, <2>8, WalkRests
<1>3. CASE Early(visitor) /\ Counted(path)
  <2> DEFINE m == IF visitor.page = 1 THEN Matching(path) ELSE visitor.steady
             v == [visitor EXCEPT !.pc = "counted", !.total = Found(path), !.steady = m]
  <2>1. Found(path) \in 0 .. Cardinality(Products)
    BY MatchesAreProducts
  <2>2. m \in SUBSET Products
    BY <1>1 DEF Visitor, Matching, Visible, VisibleIn, Path
  <2>3. visitor' = Freed(Onto(path, v))
    BY <1>3 DEF Counted, Found
  <2> HIDE DEF m
  <2>4. /\ v \in Visitor /\ v.pc = "counted" /\ v.way = visitor.way /\ v.page = visitor.page
        /\ v.perPage = visitor.perPage /\ v.steady = m /\ v.seen = visitor.seen
        /\ v.events = visitor.events /\ v.total = Found(path)
    BY <1>1, <2>1, <2>2 DEF Visitor
  <2> HIDE DEF v
  <2>5. /\ visitor' \in Visitor /\ visitor.way = "walk"
        /\ visitor'.pc = "counted" /\ visitor'.path = path /\ visitor'.page = visitor.page
        /\ visitor'.perPage = visitor.perPage /\ visitor'.steady = m
        /\ visitor'.seen = visitor.seen /\ visitor'.events = visitor.events
        /\ visitor'.total = Found(path)
        /\ visitor.page = 1 \/ path = visitor.path
    BY <1>1, <2>3, <2>4, OntoWalks
  <2>6. Steady(visitor) /\ visitor.pc \notin {"read", "answered"}
    BY <1>3, <2>5 DEF WalkInv, Early
  <2>7. CASE visitor.page = 1
    BY <2>5, <2>6, <2>7, WalkCounts DEF Steady, m
  <2>8. CASE visitor.page # 1
    <3>1. Done(visitor') = Done(visitor)
      BY <2>5, <2>6 DEF Done, Offset
    <3>2. m = visitor.steady
      BY <2>8 DEF m
    <3>3. QED
      BY <2>5, <2>8, <3>1, <3>2, WalkRests
  <2>9. QED
    BY <2>7, <2>8
<1>4. QED
  BY <1>2, <1>3

LEMMA WalkFollows == ASSUME SoundInv, WalkInv, NEW n \in Links(visitor), Follow(n) PROVE WalkInv'
<1> SUFFICES ASSUME visitor'.way = "walk" PROVE WalkInv'
  BY DEF WalkInv
<1>1. visitor \in Visitor /\ visitor.pc = "answered" /\ UNCHANGED <<row, shown>>
  BY DEF SoundInv, TypeOK, Follow
<1> DEFINE v == [visitor EXCEPT !.pc = "asked", !.page = parsePage(n),
                                !.total = 0, !.empty = FALSE, !.quiet = TRUE]
           w == [v EXCEPT !.way = "links"]
           k == parsePage(n)
<1>2. 0 \in 0 .. Cardinality(Products) /\ k \in 1 .. MaxPage
  BY <1>1, RowsAreFinite, FS_CardinalityType, ParsePageIs, LinksAreNumbers
<1>3. /\ v \in Visitor /\ v.pc = "asked" /\ v.page = k /\ v.path = visitor.path
      /\ v.perPage = visitor.perPage /\ v.way = visitor.way /\ v.events = visitor.events
      /\ v.steady = visitor.steady /\ v.seen = visitor.seen
  BY <1>1, <1>2 DEF Visitor
<1>4. visitor' = IF k = visitor.page + 1 \/ visitor.way = "free" THEN v ELSE Freed(w)
  BY DEF Follow
<1> HIDE DEF v, k
<1>5. w \in Visitor /\ w.way = "links"
  BY <1>3 DEF Visitor
<1> HIDE DEF w
<1>6. visitor' = v /\ visitor.way = "walk" /\ k = visitor.page + 1
  BY <1>3, <1>4, <1>5, FreedWalks
<1>7. visitor.page \in Nat \ {0} /\ k # 1 /\ visitor.path \in Path
  BY <1>1, <1>6, DoneIs
<1>8. Done(visitor') = Done(visitor)
  <2>1. Done(visitor') = (k - 1) * visitor.perPage
    BY <1>3, <1>6 DEF Done, Offset
  <2>2. Done(visitor) = visitor.page * visitor.perPage
    BY <1>1 DEF Done
  <2>3. k - 1 = visitor.page
    BY <1>6, <1>7
  <2>4. QED
    BY <2>1, <2>2, <2>3
<1>9. QED
  BY <1>1, <1>3, <1>6, <1>7, <1>8, WalkRests

LEMMA WalkStays == SoundInv /\ WalkInv /\ [Next]_vars => WalkInv'
<1> SUFFICES ASSUME SoundInv, WalkInv, [Next]_vars PROVE WalkInv'
  OBVIOUS
<1>1. /\ visitor \in Visitor /\ RouteInv /\ FreshInv /\ visitor.path \in Path
  BY DoneIs DEF SoundInv, TypeOK
<1>2. ASSUME visitor' = Away PROVE WalkInv'
  BY <1>2, WalkBegins DEF Away
<1>3. ASSUME UNCHANGED <<row, shown>>, visitor' \in Visitor,
             visitor'.path = visitor.path, visitor'.page = visitor.page,
             visitor'.perPage = visitor.perPage, visitor'.way = visitor.way,
             visitor'.events = visitor.events, visitor'.seen = visitor.seen,
             visitor'.steady = visitor.steady, visitor'.total = visitor.total,
             \/ visitor'.pc = visitor.pc
             \/ Early(visitor) /\ Early(visitor')
             \/ visitor.pc = "read" /\ visitor'.pc = "answered"
      PROVE  WalkInv'
  <2> SUFFICES ASSUME visitor.way = "walk" PROVE WalkInv'
    BY <1>3 DEF WalkInv
  <2>1. Done(visitor') = Done(visitor)
    BY <1>3 DEF Done, Offset, Early
  <2>2. Steady(visitor)
    BY DEF WalkInv
  <2>3. QED
    BY <1>1, <1>3, <2>1, <2>2, WalkRests DEF Steady, Early
<1>4. ASSUME NEW address \in Address, NEW raw \in {1} \cup Typed,
             NEW n \in PerPages[address.page], Open(address, n, raw)
      PROVE  WalkInv'
  <2>1. visitor'.pc = "asked" /\ visitor'.steady = {} /\ visitor'.seen = Unseen
    BY <1>4 DEF Open, Away
  <2>2. QED
    BY <2>1, WalkBegins
<1>5. CASE FindPlace
  <2> DEFINE next == IF visitor.address.page = "category" THEN "placed" ELSE "found"
  <2>1. CASE visitor' = [visitor EXCEPT !.pc = next]
    <3>1. visitor.pc = "asked" /\ UNCHANGED <<row, shown>>
      BY <1>5 DEF FindPlace
    <3>2. QED
      BY <1>1, <1>3, <2>1, <3>1 DEF Visitor, Early
  <2>2. QED
    BY <1>2, <1>5, <2>1 DEF FindPlace
<1>6. CASE ResolveBrandFilter
  <2>1. Filtered(visitor.address) \in Path
    BY <1>1, FilteredIs DEF Visitor
  <2>2. QED
    BY <1>6, <2>1, WalkGoesOnto DEF ResolveBrandFilter, Early
<1>7. CASE CountList
  <2> DEFINE path == ToCount(visitor)
  <2>1. path \in Path
    BY <1>1, ToCountIs
  <2>2. Counted(path) /\ Early(visitor) /\ UNCHANGED <<row, shown>>
    BY <1>7 DEF CountList, ToCount, Early
  <2> HIDE DEF path
  <2>3. QED
    BY <2>1, <2>2, WalkGoesOnto
<1>8. CASE CountNumber /\ Matching(Number) # {}
  BY <1>8, PathsAre, WalkGoesOnto DEF CountNumber, Early
<1>9. CASE CountNumber /\ Matching(Number) = {}
  <2>1. /\ visitor.pc = "asked" /\ UNCHANGED <<row, shown>>
        /\ visitor' = [visitor EXCEPT !.pc = "noNumber"]
    BY <1>9 DEF CountNumber
  <2>2. QED
    BY <1>1, <1>3, <2>1 DEF Visitor, Early
<1>10. CASE CountName
  BY <1>10, PathsAre, WalkGoesOnto DEF CountName, Early
<1>11. CASE ReadRows
  BY <1>11, WalkReads
<1>12. CASE ReadSideBar
  <2>1. /\ visitor.pc = "read" /\ UNCHANGED <<row, shown>>
        /\ visitor' = [visitor EXCEPT !.pc = "answered", !.quiet = FALSE]
    BY <1>12 DEF ReadSideBar
  <2>2. QED
    BY <1>1, <1>3, <2>1 DEF Visitor
<1>13. ASSUME NEW n \in Links(visitor), Follow(n) PROVE WalkInv'
  BY <1>13, WalkFollows
<1>14. CASE Leave
  BY <1>2, <1>14 DEF Leave
<1>15. ASSUME NEW p \in Products, NEW r \in Row, EditProduct(p, r) PROVE WalkInv'
  <2>1. Disturb(row', shown')
    BY <1>15 DEF EditProduct
  <2>2. QED
    BY <2>1, WalkEdits
<1>16. ASSUME NEW c \in Categories, EditCategory(c) PROVE WalkInv'
  <2>1. Disturb(row', shown')
    BY <1>16 DEF EditCategory
  <2>2. QED
    BY <2>1, WalkEdits
<1>17. ASSUME NEW b \in Brands, EditBrand(b) PROVE WalkInv'
  <2>1. UNCHANGED <<row, shown>> /\ visitor' = [visitor EXCEPT !.quiet = FALSE]
    BY <1>17 DEF EditBrand
  <2>2. QED
    BY <1>1, <1>3, <2>1 DEF Visitor
<1>18. CASE UNCHANGED vars
  BY <1>1, <1>3, <1>18 DEF vars
<1>19. QED
  BY <1>4, <1>5, <1>6, <1>7, <1>8, <1>9, <1>10, <1>11, <1>12, <1>13, <1>14, <1>15, <1>16, <1>17,
     <1>18 DEF Next

LEMMA WalkAtFirst == Init => WalkInv
BY DEF Init, WalkInv, Steady, ShownOnce, NothingSkipped, CountHolds, MoreToCome, Away

(* For any listing in any order of SORTS, any size of a page and any       *)
(* edits: who walks to the end has been shown every product that stayed    *)
(* where it was, unless another left, came between count and rows, or the  *)
(* order of a search was not strict.                                       *)
THEOREM WalksMissNothing == Spec => []MissesHaveCause
<1>1. SoundInv /\ WalkInv => MissesHaveCause
  <2> SUFFICES ASSUME SoundInv, WalkInv, WalkDone,
                      visitor.events \cap {"left", "tied", "torn"} = {},
                      NEW p \in visitor.steady
               PROVE  visitor.seen[p] > 0
    BY DEF MissesHaveCause
  <2>0. visitor.seen[p] \in 0 .. 2
    <3>1. visitor.seen \in [Products -> 0 .. 2] /\ visitor.steady \subseteq Products
      BY DoneIs DEF SoundInv, TypeOK
    <3>2. QED
      BY <3>1
  <2> SUFFICES ASSUME visitor.seen[p] = 0 PROVE FALSE
    BY <2>0
  <2>1. /\ visitor.page \in Nat \ {0} /\ visitor.perPage \in Nat \ {0} /\ visitor.total \in Nat
        /\ visitor.page * visitor.perPage \in Nat
    BY DoneIs DEF SoundInv, TypeOK
  <2>2. visitor.page * visitor.perPage < visitor.total
    BY DEF WalkInv, MoreToCome, WalkDone, Done
  <2>3. visitor.page < (visitor.total + visitor.perPage - 1) \div visitor.perPage
    BY <2>1, <2>2, MorePagesFollow
  <2>4. QED
    BY <2>1, <2>2, <2>3 DEF WalkDone, hasNext, pageCount
<1>2. Init => SoundInv /\ WalkInv
  BY SoundAtFirst, WalkAtFirst
<1>3. SoundInv /\ WalkInv /\ [Next]_vars => (SoundInv /\ WalkInv)'
  BY SoundStays, WalkStays
<1>4. QED
  BY <1>1, <1>2, <1>3, PTL DEF Spec

(* And he is shown such a product once, unless another came or the order   *)
(* of a search was not strict.                                             *)
THEOREM WalksRepeatNothing == Spec => []RepeatsHaveCause
<1>1. SoundInv /\ WalkInv => RepeatsHaveCause
  BY DEF WalkInv, ShownOnce, RepeatsHaveCause
<1>2. Init => SoundInv /\ WalkInv
  BY SoundAtFirst, WalkAtFirst
<1>3. SoundInv /\ WalkInv /\ [Next]_vars => (SoundInv /\ WalkInv)'
  BY SoundStays, WalkStays
<1>4. QED
  BY <1>1, <1>2, <1>3, PTL DEF Spec

---------------------------------------------------------------------------
(* The numbers of the side bar.  Those beside the categories of a set add  *)
(* up to the number of the products that are filed under them.             *)
Filed(s) == {p \in Products : row[p] # Hidden /\ CategoryOf[p] \in s}

LEMMA FiledAddUp ==
  ASSUME NEW s \in SUBSET Categories, NEW c \in s
  PROVE  Cardinality(Filed(s)) = CategoryCount(c) + Cardinality(Filed(s \ {c}))
<1> DEFINE own == {p \in Products : CategoryOf[p] = c /\ row[p] # Hidden}
<1>1. own \cup Filed(s \ {c}) = Filed(s) /\ own \cap Filed(s \ {c}) = {}
  BY DEF Filed
<1>2. own \subseteq Products /\ Filed(s \ {c}) \subseteq Products
  BY DEF Filed
<1>3. IsFiniteSet(own) /\ IsFiniteSet(Filed(s \ {c}))
  BY <1>2, RowsAreFinite, FS_Subset
<1>4. CategoryCount(c) = Cardinality(own)
  BY DEF CategoryCount
<1> HIDE DEF own
<1>5. Cardinality(own \cup Filed(s \ {c})) =
        Cardinality(own) + Cardinality(Filed(s \ {c})) - Cardinality(own \cap Filed(s \ {c}))
  BY <1>3, FS_Union
<1>6. Cardinality(own \cap Filed(s \ {c})) = 0
  BY <1>1, FS_EmptySet
<1>7. Cardinality(own) \in Nat /\ Cardinality(Filed(s \ {c})) \in Nat
  BY <1>3, FS_CardinalityType
<1> DEFINE a == Cardinality(own)
           b == Cardinality(Filed(s \ {c}))
<1>8. a + b - 0 = a + b
  BY <1>7
<1>9. QED
  BY <1>1, <1>4, <1>5, <1>6, <1>8

LEMMA SumIsFiled ==
  ASSUME NEW S \in SUBSET Categories
  PROVE  MapThenSumSet(CategoryCount, S) = Cardinality(Filed(S))
<1> DEFINE first(s) == CHOOSE c \in s : TRUE
           Sums(f) == f = [s \in SUBSET S |->
                             IF s = {} THEN 0
                             ELSE CategoryCount(first(s)) + f[s \ {first(s)}]]
           g == [s \in SUBSET S |-> Cardinality(Filed(s))]
<1>1. ASSUME NEW s \in SUBSET S, s # {} PROVE first(s) \in s /\ s \ {first(s)} \in SUBSET S
  BY <1>1
<1>2. MapThenSumSet(CategoryCount, S) = (CHOOSE f : Sums(f))[S]
  BY DEF MapThenSumSet, MapThenFoldSet
<1> HIDE DEF first
<1>3. Sums(g)
  <2> SUFFICES ASSUME NEW s \in SUBSET S
               PROVE  Cardinality(Filed(s)) =
                        IF s = {} THEN 0 ELSE CategoryCount(first(s)) + g[s \ {first(s)}]
    OBVIOUS
  <2>1. CASE s = {}
    <3>1. Filed(s) = {}
      BY <2>1 DEF Filed
    <3>2. QED
      BY <2>1, <3>1, FS_EmptySet
  <2>2. CASE s # {}
    BY <1>1, <2>2, FiledAddUp
  <2>3. QED
    BY <2>1, <2>2
<1>4. ASSUME NEW f, Sums(f) PROVE f = g
  <2> DEFINE T == {s \in SUBSET S : f[s] # g[s]}
  <2>1. ASSUME T # {} PROVE FALSE
    <3>1. IsFiniteSet(S) /\ T \subseteq FiniteSubsetsOf(S)
      BY RowsAreFinite, FS_Subset, FS_FiniteSubsetsOfFinite
    <3> HIDE DEF T
    <3>2. PICK x \in T : \A y \in T : ~ (<<y, x>> \in StrictSubsetOrdering(S))
      BY <2>1, <3>1, FS_StrictSubsetOrderingWellFounded, WFMin
    <3>3. x \in SUBSET S /\ f[x] # g[x]
      BY DEF T
    <3>4. x # {}
      BY <1>3, <1>4, <3>3
    <3> DEFINE y == x \ {first(x)}
    <3>5. y \in SUBSET S /\ y \subseteq x /\ y # x
      BY <1>1, <3>3, <3>4
    <3>6. y \notin T
      BY <3>2, <3>3, <3>5 DEF StrictSubsetOrdering
    <3>7. f[y] = g[y]
      BY <3>5, <3>6 DEF T
    <3>8. f[x] = CategoryCount(first(x)) + f[y] /\ g[x] = CategoryCount(first(x)) + g[y]
      BY <1>3, <1>4, <3>3, <3>4
    <3>9. QED
      BY <3>3, <3>7, <3>8
  <2>2. \A s \in SUBSET S : f[s] = g[s]
    BY <2>1
  <2>3. f = [s \in SUBSET S |-> f[s]]
    BY <1>4
  <2>4. QED
    BY <2>2, <2>3
<1> HIDE DEF Sums
<1>5. (CHOOSE f : Sums(f)) = g
  BY <1>3, <1>4
<1>6. QED
  BY <1>2, <1>5

(* While nothing is edited, the listing of a request stays what it was     *)
(* found to be, and its total the number of its matches.                   *)
Listed(path) ==
  /\ path.category # None => shown[path.category]
  /\ path.brand # None => offered[path.brand]
QuietInv ==
  visitor.quiet =>
    /\ visitor.pc = "placed" => shown[visitor.address.category]
    /\ visitor.pc = "found" => Listed(ToCount(visitor))
    /\ visitor.pc \in {"counted", "read"} =>
         Listed(visitor.path) /\ visitor.total = Found(visitor.path)

LEMMA QuietIsKept ==
  ASSUME visitor \in Visitor, NEW path \in Path, NEW v \in Visitor
  PROVE  Freed(v).quiet = v.quiet /\ Freed(Onto(path, v)).quiet = v.quiet
<1>1. ASSUME NEW w \in Visitor PROVE Freed(w).quiet = w.quiet
  BY DEF Freed, Visitor
<1>2. Onto(path, v) \in Visitor
  BY OntoIs
<1>3. Onto(path, v).quiet = v.quiet
  BY DEF Onto, Visitor
<1>4. QED
  BY <1>1, <1>2, <1>3

LEMMA CountedIsQuiet ==
  ASSUME visitor \in Visitor, NEW path \in Path, Counted(path), UNCHANGED <<row, shown, offered>>,
         visitor.quiet => Listed(path)
  PROVE  QuietInv'
<1> DEFINE m == IF visitor.page = 1 THEN Matching(path) ELSE visitor.steady
           c == [visitor EXCEPT !.pc = "counted", !.total = Found(path), !.steady = m]
<1>1. Found(path) \in 0 .. Cardinality(Products) /\ m \in SUBSET Products
  BY MatchesAreProducts DEF Visitor, Matching, Visible, VisibleIn, Path
<1>2. visitor' = Freed(Onto(path, c))
  BY DEF Counted, Found
<1> HIDE DEF m
<1>3. c \in Visitor /\ c.quiet = visitor.quiet
  BY <1>1 DEF Visitor
<1> HIDE DEF c
<1>4. visitor'.quiet = visitor.quiet
  BY <1>2, <1>3, QuietIsKept
<1>5. visitor'.pc = "counted" /\ visitor'.path = path /\ visitor'.total = Found(path)
  BY CountedIs DEF Onward
<1>6. Found(path)' = Found(path)
  BY NothingChanges
<1>7. Listed(path)' = Listed(path)
  BY DEF Listed
<1>8. QED
  BY <1>4, <1>5, <1>6, <1>7 DEF QuietInv

LEMMA QuietStays == SoundInv /\ QuietInv /\ [Next]_vars => QuietInv'
<1> SUFFICES ASSUME SoundInv, QuietInv, [Next]_vars PROVE QuietInv'
  OBVIOUS
<1>1. visitor \in Visitor /\ visitor.path \in Path /\ RouteInv
  BY DEF SoundInv, TypeOK, Visitor
<1>2. ASSUME visitor'.pc \notin {"placed", "found", "counted", "read"} PROVE QuietInv'
  BY <1>2 DEF QuietInv
<1>3. ASSUME Disturb(row', shown') PROVE QuietInv'
  <2>1. CASE visitor.pc = "idle"
    BY <1>2, <1>3, <2>1 DEF Disturb
  <2>2. CASE visitor.pc # "idle"
    <3>1. visitor'.quiet = FALSE
      <4> DEFINE after == VisibleIn(row', shown')
                 moved == {p \in Visible \cap after : row[p] # row'[p]}
                 left == (Visible \ after) \cup moved
                 entered == (after \ Visible) \cup moved
                 st == visitor.steady \ (left \cup entered)
                 se == [p \in Products |-> IF p \in left \cup entered THEN 0 ELSE visitor.seen[p]]
                 e == visitor.events
                        \cup (IF left = {} THEN {} ELSE {"left"})
                        \cup (IF entered = {} THEN {} ELSE {"entered"})
                        \cup (IF entered # {} /\ visitor.pc = "counted" THEN {"torn"} ELSE {})
                 v == [visitor EXCEPT !.quiet = FALSE, !.steady = st, !.seen = se, !.events = e]
      <4>1. visitor' = Freed(v)
        BY <1>3, <2>2 DEF Disturb
      <4> HIDE DEF st, se, e
      <4>2. v.quiet = FALSE /\ v = [v EXCEPT !.quiet = FALSE]
        BY <1>1 DEF Visitor
      <4> HIDE DEF v
      <4>3. Freed(v).quiet = FALSE
        BY <4>2 DEF Freed
      <4>4. QED
        BY <4>1, <4>3
    <3>2. QED
      BY <3>1 DEF QuietInv
  <2>3. QED
    BY <2>1, <2>2
<1>4. ASSUME NEW address \in Address, NEW raw \in {1} \cup Typed,
             NEW n \in PerPages[address.page], Open(address, n, raw)
      PROVE  QuietInv'
  BY <1>2, <1>4, OpenIs
<1>5. CASE FindPlace
  <2>1. CASE visitor' = Away
    BY <1>2, <2>1 DEF Away
  <2>2. CASE /\ Onward(visitor.path) /\ Lists(visitor.address)
             /\ visitor'.pc = "found" /\ visitor.address.page = "brand"
    <3>1. visitor.address \in Address /\ offered' = offered
      BY <1>1, <1>5 DEF FindPlace, Visitor
    <3>2. visitor'.address = visitor.address
      BY <2>2 DEF Onward
    <3> DEFINE path == Listing(None, visitor.address.brand, visitor.address.only)
    <3>3. ToCount(visitor)' = path
      BY <2>2, <3>2 DEF ToCount
    <3>4. path.category = None /\ offered'[path.brand]
      BY <2>2, <3>1 DEF Lists, Listing
    <3>5. Listed(path)'
      BY <3>2, <3>4 DEF Listed
    <3>6. QED
      BY <2>2, <3>2, <3>3, <3>4 DEF QuietInv, Listed
  <2>3. CASE /\ Onward(visitor.path) /\ Lists(visitor.address)
             /\ visitor'.pc = "placed" /\ visitor.address.page = "category"
    <3>1. shown' = shown /\ visitor'.address = visitor.address
      BY <1>5, <2>3 DEF FindPlace, Onward
    <3>2. QED
      BY <2>3, <3>1 DEF QuietInv, Lists
  <2>4. QED
    BY <1>1, <1>5, <2>1, <2>2, <2>3, FindPlaceIs
<1>6. CASE ResolveBrandFilter
  <2>0. visitor.address \in Address
    BY <1>1 DEF Visitor
  <2>a. PICK path \in Path : path = Filtered(visitor.address)
    BY <2>0, FilteredIs
  <2>1. path \in Path /\ (visitor.quiet => Listed(path))
    <3>1. /\ path.category = visitor.address.category
          /\ path.brand = None \/ offered[path.brand]
      BY <2>a DEF Filtered, Listing, BrandFilter
    <3>2. visitor.quiet /\ visitor.address.category # None => shown[visitor.address.category]
      BY <1>6, <2>0, AddressIs DEF ResolveBrandFilter, QuietInv
    <3>3. QED
      BY <2>a, <3>1, <3>2 DEF Listed
  <2>2. visitor' = Freed(Onto(path, [visitor EXCEPT !.pc = "found"]))
        /\ visitor.address.page \in {"products", "category"} /\ UNCHANGED <<shown, offered>>
    BY <1>1, <1>6, <2>a DEF ResolveBrandFilter, RouteInv
  <2> DEFINE v == [visitor EXCEPT !.pc = "found"]
  <2>3. /\ v \in Visitor /\ v.pc = "found" /\ v.total = visitor.total
        /\ v.quiet = visitor.quiet /\ v.address = visitor.address /\ v.perPage = visitor.perPage /\ v.page = visitor.page
        /\ v.way = visitor.way /\ v.events = visitor.events
    BY <1>1 DEF Visitor
  <2>4. visitor' = Freed(Onto(path, v))
    BY <2>2
  <2> HIDE DEF v
  <2>5. visitor'.pc = "found" /\ visitor'.path = path /\ visitor'.address = visitor.address
    BY <1>1, <2>1, <2>3, <2>4, OntoGoesOnward DEF Onward
  <2>6. visitor'.quiet = visitor.quiet
    BY <1>1, <2>1, <2>3, <2>4, QuietIsKept
  <2>7. ToCount(visitor)' = path /\ (visitor.quiet => Listed(path)')
    BY <2>1, <2>2, <2>5 DEF ToCount, Listed
  <2>8. QED
    BY <2>2, <2>5, <2>6, <2>7 DEF QuietInv, Listed, ToCount
<1>7. CASE CountList
  <2> DEFINE path == ToCount(visitor)
  <2>1. path \in Path
    BY <1>1, ToCountIs
  <2>2. Counted(path) /\ UNCHANGED <<row, shown, offered>>
    BY <1>7 DEF CountList, ToCount
  <2>3. visitor.quiet => Listed(path)
    BY <1>7 DEF CountList, QuietInv
  <2> HIDE DEF path
  <2>4. QED
    BY <1>1, <2>1, <2>2, <2>3, CountedIsQuiet
<1>8. CASE CountNumber
  <2>1. Listed(Number)
    BY DEF Listed, Number, Everything, Listing
  <2>2. CASE Matching(Number) = {}
    <3>1. visitor'.pc = "noNumber"
      BY <1>1, <1>8, <2>2 DEF CountNumber, Visitor
    <3>2. QED
      BY <1>2, <3>1
  <2>3. QED
    BY <1>1, <1>8, <2>1, <2>2, PathsAre, CountedIsQuiet DEF CountNumber
<1>9. CASE CountName
  <2>1. Listed(Name)
    BY DEF Listed, Name, Everything, Listing
  <2>2. QED
    BY <1>1, <1>9, <2>1, PathsAre, CountedIsQuiet DEF CountName
<1>10. ASSUME UNCHANGED <<row, shown, offered>>, visitor'.quiet = visitor.quiet,
              visitor'.path = visitor.path, visitor'.total = visitor.total,
              visitor'.address = visitor.address,
              visitor'.pc = visitor.pc \/ (visitor.pc = "counted" /\ visitor'.pc = "read")
       PROVE  QuietInv'
  <2> PICK path \in Path : path = visitor.path
    BY <1>1
  <2>1. Found(path)' = Found(path) /\ Listed(path)' = Listed(path)
    BY <1>10, NothingChanges DEF Listed
  <2>2. Listed(ToCount(visitor))' = Listed(ToCount(visitor))
    BY <1>10 DEF Listed, ToCount
  <2>3. QED
    BY <1>10, <2>1, <2>2 DEF QuietInv
<1>11. CASE ReadRows
  <2>1. /\ UNCHANGED <<row, shown, offered>>
        /\ visitor'.quiet = visitor.quiet
    BY <1>1, <1>11 DEF ReadRows, Visitor
  <2>2. QED
    BY <1>1, <1>10, <1>11, <2>1, ReadIs DEF Onward, ReadRows
<1>12. CASE ReadSideBar
  <2>1. visitor'.pc = "answered"
    BY <1>1, <1>12 DEF ReadSideBar, Visitor
  <2>2. QED
    BY <1>2, <2>1
<1>13. ASSUME NEW n \in Links(visitor), Follow(n) PROVE QuietInv'
  BY <1>1, <1>2, <1>13, FollowIs
<1>14. CASE Leave
  BY <1>2, <1>14 DEF Leave, Away
<1>15. ASSUME NEW p \in Products, NEW r \in Row, EditProduct(p, r) PROVE QuietInv'
  <2>1. Disturb(row', shown')
    BY <1>15 DEF EditProduct
  <2>2. QED
    BY <1>3, <2>1
<1>16. ASSUME NEW c \in Categories, EditCategory(c) PROVE QuietInv'
  <2>1. Disturb(row', shown')
    BY <1>16 DEF EditCategory
  <2>2. QED
    BY <1>3, <2>1
<1>17. ASSUME NEW b \in Brands, EditBrand(b) PROVE QuietInv'
  <2>1. visitor'.quiet = FALSE
    BY <1>1, <1>17 DEF EditBrand, Visitor
  <2>2. QED
    BY <2>1 DEF QuietInv
<1>18. CASE UNCHANGED vars
  BY <1>10, <1>18 DEF vars
<1>19. QED
  BY <1>4, <1>5, <1>6, <1>7, <1>8, <1>9, <1>11, <1>12, <1>13, <1>14, <1>15, <1>16, <1>17, <1>18
     DEF Next

(* A listing's matches are among those of its category and of its brand.   *)
Own(c)  == {p \in Products : CategoryOf[p] = c /\ row[p] # Hidden}
OwnB(b) == {p \in Products : BrandOf[p] = b /\ row[p] # Hidden}

LEMMA SubsetsAreFewer ==
  ASSUME NEW S \in SUBSET Products, NEW T \in SUBSET Products, S \subseteq T
  PROVE  Cardinality(S) <= Cardinality(T) /\ Cardinality(S) \in Nat /\ Cardinality(T) \in Nat
  BY RowsAreFinite, FS_Subset, FS_CardinalityType

LEMMA SideBarOf ==
  ASSUME SoundInv, NEW path \in Path, ~ Searched(path), Listed(path),
         NEW c, c = path.category, NEW b, b = path.brand, NEW a, a = path.only,
         NEW n, n = Found(path)
  PROVE  /\ c # None => c \in ListedCategories /\ n <= CategoryCount(c)
         /\ b # None => b \in ListedBrands /\ n <= BrandCount(b)
         /\ c # None /\ b = None /\ a = None => CategoryCount(c) = n
         /\ c = None /\ b # None /\ a = None => BrandCount(b) = n + Cardinality(Astray(b))
         /\ path = Everything => MapThenSumSet(CategoryCount, ListedCategories) = n
<1>1. /\ row \in [Products -> Row] /\ shown \in [Categories -> BOOLEAN]
      /\ offered \in [Brands -> BOOLEAN]
      /\ c \in Categories \cup {None} /\ b \in Brands \cup {None}
      /\ a \in Availabilities \cup {None} /\ path.by = "list"
  BY DEF Path, Searched, SoundInv, TypeOK
<1>2. Matching(path) = {p \in Products :
        /\ row[p] # Hidden /\ shown[CategoryOf[p]]
        /\ c \in {None, CategoryOf[p]} /\ b \in {None, BrandOf[p]}
        /\ a \in {None, AvailabilityOf[p]}}
  BY <1>1 DEF Matching, Visible, VisibleIn
<1>3. Matching(path) \in SUBSET Products /\ n = Cardinality(Matching(path))
  BY <1>2 DEF Found
<1>4. ASSUME c # None PROVE c \in ListedCategories /\ n <= CategoryCount(c)
  <2>1. c \in ListedCategories
    BY <1>1, <1>4 DEF Listed, ListedCategories
  <2>2. Matching(path) \subseteq Own(c) /\ Own(c) \in SUBSET Products
    BY <1>2, <1>4 DEF Own
  <2>3. QED
    BY <1>3, <2>1, <2>2, SubsetsAreFewer DEF CategoryCount, Own
<1>5. ASSUME b # None PROVE b \in ListedBrands /\ n <= BrandCount(b)
  <2>1. b \in ListedBrands
    BY <1>1, <1>5 DEF Listed, ListedBrands
  <2>2. Matching(path) \subseteq OwnB(b) /\ OwnB(b) \in SUBSET Products
    BY <1>2, <1>5 DEF OwnB
  <2>3. QED
    BY <1>3, <2>1, <2>2, SubsetsAreFewer DEF BrandCount, OwnB
<1>6. ASSUME c # None, b = None, a = None PROVE CategoryCount(c) = n
  <2>1. shown[c]
    BY <1>6 DEF Listed
  <2>2. Matching(path) = Own(c)
    BY <1>2, <1>6, <2>1 DEF Own
  <2>3. QED
    BY <1>3, <2>2 DEF CategoryCount, Own
<1>7. ASSUME c = None, b # None, a = None
      PROVE  BrandCount(b) = n + Cardinality(Astray(b))
  <2>1. /\ OwnB(b) = Matching(path) \cup Astray(b)
        /\ Matching(path) \cap Astray(b) = {}
        /\ Astray(b) \in SUBSET Products
    BY <1>1, <1>2, <1>7, EveryProductIsFiled DEF OwnB, Astray
  <2>2. IsFiniteSet(Matching(path)) /\ IsFiniteSet(Astray(b))
    BY <1>3, <2>1, RowsAreFinite, FS_Subset
  <2> DEFINE m == Cardinality(Matching(path))
             k == Cardinality(Astray(b))
  <2>3. m \in Nat /\ k \in Nat /\ Cardinality(Matching(path) \cap Astray(b)) = 0
    BY <2>1, <2>2, FS_CardinalityType, FS_EmptySet
  <2>4. Cardinality(Matching(path) \cup Astray(b)) =
          m + k - Cardinality(Matching(path) \cap Astray(b))
    BY <2>2, FS_Union
  <2>5. BrandCount(b) = Cardinality(Matching(path) \cup Astray(b))
    BY <2>1 DEF BrandCount, OwnB
  <2> HIDE DEF m, k
  <2>6. BrandCount(b) = m + k
    BY <2>3, <2>4, <2>5
  <2>7. QED
    BY <1>3, <2>6 DEF m, k
<1>8. ASSUME path = Everything
      PROVE  MapThenSumSet(CategoryCount, ListedCategories) = n
  <2>1. c = None /\ b = None /\ a = None
    BY <1>8 DEF Everything, Listing
  <2>2. ListedCategories \in SUBSET Categories
    BY DEF ListedCategories
  <2>3. Filed(ListedCategories) = Matching(path)
    BY <1>1, <1>2, <2>1, EveryProductIsFiled DEF Filed, ListedCategories
  <2>4. QED
    BY <1>3, <2>2, <2>3, SumIsFiled
<1>9. QED
  BY <1>4, <1>5, <1>6, <1>7, <1>8

(* For any catalogue: unless an edit came between, a page's category or    *)
(* brand is in its side bar with a number no less than the page's total;   *)
(* without other filters a category's is that number, those of all         *)
(* categories add up to the shop's, and a brand's exceeds it by its active *)
(* products in switched-off categories.                                    *)
THEOREM SideBarsAgree == Spec => []SideBarAgrees
<1>1. SoundInv /\ QuietInv => SideBarAgrees
  <2> SUFFICES ASSUME SoundInv, QuietInv, visitor.pc = "read", visitor.quiet,
                      ~ Searched(visitor.path)
               PROVE  LET c == visitor.path.category
                          b == visitor.path.brand
                          a == visitor.path.only
                          n == visitor.total
                      IN /\ c # None => c \in ListedCategories /\ n <= CategoryCount(c)
                         /\ b # None => b \in ListedBrands /\ n <= BrandCount(b)
                         /\ c # None /\ b = None /\ a = None => CategoryCount(c) = n
                         /\ c = None /\ b # None /\ a = None =>
                              BrandCount(b) = n + Cardinality(Astray(b))
                         /\ visitor.path = Everything =>
                              MapThenSumSet(CategoryCount, ListedCategories) = n
    BY DEF SideBarAgrees
  <2>1. /\ visitor.path \in Path /\ Listed(visitor.path)
        /\ visitor.total = Found(visitor.path)
    BY DEF SoundInv, TypeOK, Visitor, QuietInv
  <2>2. QED
    BY <2>1, SideBarOf
<1>2. Init => SoundInv /\ QuietInv
  BY SoundAtFirst DEF Init, Away, QuietInv
<1>3. SoundInv /\ QuietInv /\ [Next]_vars => (SoundInv /\ QuietInv)'
  BY SoundStays, QuietStays
<1>4. QED
  BY <1>1, <1>2, <1>3, PTL DEF Spec
=============================================================================
