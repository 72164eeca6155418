# Pars — a TLA+ model of the shop's server

This directory specifies and verifies the server of the Pars car-part shop
(`src/src`): the admin's login and sessions, the admin's edits of the catalogue,
the way of a browser into the admin pages, the public listings, and the migrator. The program is an Express application over
PostgreSQL (or PGlite, in process). Every handler is an `async` function; between any two
`await`s other handlers run, other instances of the process may run, and the process
may die. Almost no handler opens a transaction (`withTransaction` in
`src/src/db/index.js` has no caller), so **one SQL statement is one atomic step** and
everything a handler needs from two statements is exposed to whatever comes between them.
That is the grain of every module here.

Paths below are relative to the repository; `lines` of each definition are in `PROJECT.json`.

## 1. Inventory

| component | code | state it keeps | operations |
|---|---|---|---|
| Login throttling | `services/adminAuth.js` (`login`, first half), `db/repositories/loginAttempts.js`, `middleware/rateLimit.js` | table `login_attempts`; in-memory counter per address | submit, lockout check, record failure, answer, restart |
| Admin sessions | `services/adminAuth.js` (`login` second half, `loadSession`, `logout`), `db/repositories/adminSessions.js`, `middleware/adminAuth.js` | table `admin_sessions`, `admin_users.is_active` | revoke all, create, find valid, touch, logout, purge |
| Category tree | `controllers/adminCatalogController.js` (`category*`), `db/repositories/categories.js` | `categories.parent_id` | create, update with cycle check, set active, delete |
| Search text | `products.js` (`writeValues`, `create`, `update`, `refreshSearchTextForBrand`), `brands.js`, `brandUpdate` | `products.search_text`, `brands.name` | product create/update/delete, brand create/rename/delete, rebuilding |
| Product edits and validation | `product*` handlers, `services/validate.js`, `services/catalogAdminForm.js`, `migrations/002_catalog.sql` | `products` | create, update, set active, stock, delete |
| Listings and search | `catalogController.js`, `products.list`/`search`, `services/catalogQuery.js`, `services/pagination.js`, `categories`/`brands` `listWithCounts` and `findBySlug` | none of its own | look up category or brand, count, page, links, side bar |
| Migration runner | `db/migrate.js` | `schema_migrations`, the advisory lock | lock, read, apply each file, unlock |
| Request gate | `routes/*`, `middleware/security.js`, `middleware/adminAuth.js`, `controllers/adminAuthController.js` | cookies of the browser: public token, session, token of the session | public token, its check, session look-up, token check, login form, login, logout, redirections, error pages |
| Audit log | `services/audit.js` | `admin_audit_log` | record (append only) |
| Passwords, text/slug/number formatting | `services/password.js`, `format.js`, `slug.js` | none | pure functions |
| Image pipeline | `services/images.js` | files | wired to no route at this commit |
| Lifecycle, configuration, pool | `server.js`, `config/index.js`, `db/index.js` | pool | start, shutdown |
| Scripts, views | `scripts/`, `views/` | none | — |

How they interact. The request gate calls the controllers; a controller calls validation,
then repositories, then the audit log, in this order and each awaited. `login` asks
the throttle, tests the password, then turns to the sessions. `brandUpdate` writes
`brands` and then has the products' search texts rebuilt. Category and product activity
together decide what the listings show. The only shared state is the database, with two
exceptions: the in-memory limiter, which a restart empties, and the write of
`last_seen_at`, started by `loadSession` and awaited by nobody.

What is hard in it:

* two statements of one handler with another handler between them (lockout check /
  failure row; revoke / create; cycle check / UPDATE; brand name / INSERT; row / UPDATE);
* a handler cut off between two statements (sessions revoked and none created, a brand
  renamed and its texts not rebuilt);
* a retry that finds half of the work done;
* a write that lands late (`last_seen_at`, after a logout or past a limit);
* a list read by OFFSET while the table changes, one page per request, count and rows in
  two statements, and a filter or a search decided anew on every page;
* requests of several tabs that carry the cookies of different moments, and answers that set
  cookies in any order or never arrive;
* two migrators at once, with a file that fails half way.

`PROJECT.json` lists each of these as a hazard at its line, with the properties that
would catch it.

## 2. Modules

Each component has one module with its state, one action per statement or handler
step, and the specification; an `MC…` module and `.cfg` files for TLC; and, where
something is proved, a `…Proofs` module that extends it.

* **`LoginThrottle`** — `rows` is `login_attempts` (failures within the window),
  `limiter` the in-memory counter, `pc`/`req` the handlers. `Submit`
  (limiter), `CheckLockout` (`isBlocked`), `RecordFailure`, `AnswerFailure`, `AcceptLogin`,
  `RequestFails`, `Restart`, `Tick`. Rows carry an age rather than a time, so the clock is
  unbounded. An element of `Attempts` is a request together with the row it may insert and
  is reused when that row is too old to count. `told` and `heard` are history: the failures
  answered within the last window by a clock of their own, whatever the table holds by then.
* **`SessionStore`** / **`AdminSessions`** — the abstract promise (a session is opened once, has
  so many ticks left and is over for good when there are none; requests enter under open sessions only)
  and the statements that keep it. `row` is `admin_sessions` with both clocks as ages; `login`,
  `request` and `touch` are handlers and pending writes. `Verify`, `RevokeAll`,
  `CreateSession`, `AnswerLogin`, `LoginFails`; `LoadSession`, `Touch`, `TouchFails`, `Serve`,
  `Logout`, `AnswerLogout`; `Purge`, `SetActive` (the operator, by SQL), `Restart`, `Tick`.
  `closed`, `unseen` and a login's `before` are history: nothing the code does depends on them.
  `Store` is the refinement mapping: a revoked row has no time left, another what `expires_at` leaves it.
* **`CategoryTree`** — `parent`, `handler`, and `trail` (the audit entries).
  `CategoryCreate`, `FindForUpdate`/`CheckCycle`/`UpdateParent` (`categoryUpdate`),
  `CategorySetActive`, `FindForDelete`/`DeleteCategory` (`categoryDelete`), `NotFound`,
  `Refuse`, `Record`/`RecordFails`. `Chain`/`Up` are the recursive query with its depth limit.
* **`CatalogSearch`** — a text is the pair of what it was built from. `ReadBrandName` then
  `WriteProduct`/`UpdateNowhere` (`create`, `update`), `FindBrand` then `UpdateBrand`, then
  `RefreshName`, `RefreshRows`, `RefreshWrite` (the three statements of
  `refreshSearchTextForBrand`), `CutOff`, deletions, `Refuse`, `Answer`. `excuse` is history.
* **`MigrationLog`** / **`Migrate`** — the abstract promise (a file of a release takes effect
  once, whole, in order) and `runMigrations` itself: `Connect`, `Lock`, `ReadDone`, `Begin`,
  `Execute`, `Insert`, `Commit`, `Finish`, `Fail`, `Unlock`, `Lose`. What is executed in an open
  transaction is in `work`, invisible until `Commit`.
* **`ProductEdits`** — `row`, `used` (ids handed out), `handler`. `Errors` is the validation of
  the numeric fields, the availability and the rule about the sale price; `Fits` the CHECK
  constraints and the column widths, both translated from their own file. `specs` is one key
  order of a form; `Stored` puts it into the one order in which JSONB returns it, and `sameValue`
  compares the two as text. `StartCreate`/`Create`, `FindForUpdate`/`Update`, `SetActive`,
  `Stock`, `FindForDelete`/`Delete`, `Record`, `Refuse`. `unnamed`, `overtaken`, `lost` (whose row
  another one deleted before its statement) and `empty` (whose statement changed no row) are history.
* **`AdminGate`** — one browser: `jar` (its cookies), `page` (what a tab shows), `request` (what
  a tab waits for), and `open`, the sessions `findValid` finds, which behave as `SessionStore` says.
  `Send`; `ShowLogin`, `Dashboard`, `Write`, `EnterLogout`/`Logout`, `EnterLogin`/`RevokeAll`/
  `CreateSession`/`AnswerLogin`, `Fail` on the server; `Deliver` and `Lose` on the way back;
  `Close`, `AdminCookiesExpire`, `PublicCookieExpires`. A session's identifier stands for its
  two tokens and for their hashes. `racing`, `troubled`, `under`, `shaken`, `alone` and `hops`
  are history.
* **`Storefront`** — `row`, `shown` and `offered` (active categories and brands), `visitor`. An
  `address` is the page's path with its query: category, `?brand=`, `?availability=`; what it comes to
  is the `path` that is counted and read, from which an unknown brand is gone. A product's
  category, brand and availability are constants: one that is filed elsewhere is hidden here and another shown there. `Open`
  (with a page number of any kind, through `parsePage`), `FindPlace` (404), `ResolveBrandFilter` (of a
  category page, after its category), `CountList`, `CountNumber`, `CountName`, `ReadRows`,
  `ReadSideBar`, `Follow` (any of `Links`; the next page of the last number `parsePage` takes is that page again),
  `Leave`; `EditProduct`, `EditCategory` and `EditBrand` are the admins. `Before` and `Orders` are
  the ORDER BY clauses: where a clause leaves rows tied, any order may come. The `way` and the
  `events` of a walk are history. Nothing is said any more (`Freed`) of a walk
  whose listing became another one, or on which products both left and entered, and the history
  is dropped then; what the other walks may meet is what the properties are about.

Operators whose names say how they deviate (`BlockedOffByOne`, `RevokeOne`, `OwnParentOnly`,
`LockIgnored`, …) are wrong versions of the definition that follows them, used by no action.
Put in its place, each makes TLC report a property violated: this is how we know
that the properties notice such a mistake (`mutants` in `PROJECT.json`).

## 3. Runs

| run | configuration | checks | shows |
|---|---|---|---|
| `throttle` | 3 attempts, 2 identifiers, 2 addresses, limits 1, 2 at once, window 2 ticks, fair clock | `TypeOK`, `IdentifierBounded`, `IpBounded`, `UncountedBounded`, `LockoutEnds` | the lockout overshoots by the concurrency and no more; of the failures answered within a window the table misses no more than were served at once, through restarts; a lock ends although its owner keeps trying |
| `sessions` | 3 sessions, 1 account, 2 logins, 1 request, absolute 3, idle 1, delay 1 | `TypeOK`, `EarlierSessionsDead`, `UnrevokedBounded`, `LogoutIsFinal`, `IdleBounded`, `NoNewUseOfDead`, `RevocationHasCause`, `Implements` | the table implements `SessionStore`; a login kills what it found; sessions do not accumulate; a late write undoes no logout and prolongs no session by more than its delay; nothing new starts under a dead session |
| `request_gate` | 3 sessions, 2 tabs | `TypeOK`, `WritesFromOwnForms`, `OwnFormsPass`, `LoginRefusalHasCause`, `OrphansHaveCause`, `RedirectsSettle` | what is done for a session came from a form of that session, and such a form is never refused; a refused login form and a live session nobody holds have a cause; no redirection goes to and fro for ever |
| `one_live_session` | as `sessions`, absolute 2 | `OneLiveSession` | **violated**, see below |
| `categories` | 3 ids, 2 handlers, depth limit 2 | `TypeOK`, `ParentsExist`, `DeletedAreGone`, `OnlyLongCyclesEscape` | no dangling parent, deletions are final; what gets past a check that nothing overtook are cycles longer than the depth limit, and no others |
| `category_cycle` | 2 ids, 2 handlers | `Acyclic` | **violated** |
| `search_texts` | 2 products, 2 brands, 2 names, 2 words, 2 handlers | `TypeOK`, `OutOfDateHasCause` | a text that is out of date was overtaken, was left by a cut-off rebuilding, or is being rebuilt; nothing else |
| `rename_retried` | 1 product, 1 brand, 1 handler | `RenameRebuilds` | **violated** |
| `rename_race` | 1 product, 1 brand, 2 handlers, no cut-offs | `QuietTextsRight` | **violated** |
| `migrate` | 3 files of 2 statements, 3 releases (one lacks a file of another), 2 runners | `TypeOK`, `NoCollision`, `Implements`, `EveryRunEnds` | the migrator implements `MigrationLog` through failures and lost connections, and no run waits for ever |
| `product_edits` | 1 product, 2 handlers, forms at and beyond every bound | `TypeOK`, `AcceptedFits`, `EntryNamesChanges`, `EntryNamesOnlyChanges`, `EmptyWritesHaveCause` | validation agrees with the table; entries name what was changed and nothing else, specs in another order aside; a success that changed no row was overtaken by a deletion, and every such write is one |
| `storefront` | 3 products, 2 keys, 2 categories, 1 brand, 2 availabilities, typed pages 0 and 9, at most page 4 | `TypeOK`, `MissesHaveCause`, `RepeatsHaveCause`, `EmptyPagesHaveCause`, `SideBarAgrees` | what stays put is missed or repeated on a walk, and a page reached by links is empty, only for a named cause; the side bar lists the page's category and brand with numbers no less than its total, and they exceed it by the page's filters and by products in switched-off categories alone |

### Bounds, and why they are enough

* *Handlers.* Every hazard here is of two requests, one of which comes between two statements of
  the other; two handlers show each of them. In `sessions` two logins also race a request. In
  `throttle` a third attempt is there to exceed the bound of limit − 1 + 2, and a third answer to
  escape the table. The in-memory limiter admits one request of an address per tick (`LoginMax` 1), so two of one
  address are in flight when the first of them takes longer; answers may come a window after their row.
* *Limits and clocks* (`MaxPerIdentifier` 1, windows of one to three ticks) keep their order
  rather than their values: idle < absolute, and `Absolute = 3` lets a session outlive
  idle + delay, which `IdleBounded` speaks about. That nothing depends on the values is what
  the proofs show for these modules.
* *Sessions.* Three: one old and one from each of two overlapping logins.
* *Categories.* Three ids give chains and cycles of three; an id is never reused, as in the table.
  `MaxDepth` stands for the 100 of the query. It is 2 here, so that the walk along a chain of three is cut short
  and a cycle of three gets past a check that nothing overtook, while every cycle of two or one must not.
* *`product_edits`* has one product: handlers of different products share nothing. Limits are
  1 and columns hold 2, so there is a value at each bound, one between, and one beyond. Three
  spellings of `specs`: one as stored, the same in another order, and another.
* *`storefront`* has one visitor: readers do not affect each other. Three products on pages of
  one give a walk of three pages, on pages of two a partly filled last page. A typed 0 lies
  before the first page, a 9 beyond the last and beyond `MaxPage` (10 000 in the program). `Span` is the program's 2.
* *`request_gate`* has one browser, since browsers share nothing but the sessions, which `Close`
  ends at any time. Two tabs let any two requests overlap, three sessions are an old one, a new
  one and one of an overlapping login. A tab waits until its answer comes or is lost. Which
  unused token `csrfToken` draws does not matter, so a fixed one of them is taken; there are
  ten, more than two tabs can hold at once (`EnoughTokens`), as a random one is always new. `hops` stops at 3.
* *Symmetry* is declared for sets of interchangeable model values in runs without liveness only.
  Deadlock is checked in every run.

### Fairness

Safety is checked without any. `LoginThrottle.FairSpec` asks that the clock ticks, nothing
else. `Migrate.FairSpec` asks that a statement which was sent is
answered, possibly by an error, and (strong fairness) that PostgreSQL, which queues those who wait for an
advisory lock, eventually serves each of them. Nobody has to start a migration, and connections may break at any time.
That a session ends however much it is used needs no fairness of its own: `Implements` bounds its
life by the absolute limit, step by step.

## 4. Where code and documents disagree

Each but the last is a run expected to end in a violation; the trace TLC prints is the history described.

1. **Two live sessions** (`one_live_session`). `login` revokes (`adminAuth.js:89`) and creates (`:95`)
   in two statements: two overlapping logins of one account both revoke first. `README.md:72`
   and `tests/admin-auth.test.js:235` say that one session is left. What does hold is
   `UnrevokedBounded`: never more than logins that ran at once.
2. **A cycle in the categories** (`category_cycle`). Two updates check (`adminCatalogController.js:413`)
   before either writes (`:425`). `README.md:98-100` says a cycle is refused before it reaches the database.
3. **A retried rename rebuilds nothing** (`rename_retried`). The rebuilding is cut off after the rename was
   stored; the retry sees no difference (`:546`) and answers with success, against `README.md:102-104`.
4. **A product with the old brand name** (`rename_race`). `create` reads the name (`products.js:423`), the
   rename and its rebuilding pass, the INSERT stores the old name. No request failed.
5. **Listed brands without products.** The comment at `brands.js:42` says that the filter bar lists brands
   with at least one active product. The LEFT JOIN (`:48`) keeps every active brand, with the
   number 0, and `tests/catalog-repositories.test.js:84` expects that 0: it is the comment that is wrong. No run
   is needed to meet such a state, and `SideBarAgrees` does not ask for the comment.

## 5. Proofs

All theorems are for every value of the constants, under the assumptions named in the component's
module (`ASSUME …`, which TLC evaluates in every run). Each invariant is proved as
`Init => IInv`, `IInv /\ [Next]_vars => IInv'`, `IInv => Inv`.

* **`LoginThrottleProofs`** — `TypeCorrect`; `LockoutBoundsIdentifier`, `LockoutBoundsIp`;
  `UncountedAreBounded`, `LockoutBoundsGuesses`. The bound on failures is not inductive: an attempt past `isBlocked` will
  add a row that nobody counted. `ChargesBounded` bounds the rows of an identifier together with
  the attempts in flight that may still add one. `UncountedAreBounded`: an answered failure that is no longer
  counted left a window after its row, so k ticks ago it had a row and no answer (`Delayed`); all of
  those were being served at one moment. With the lockout this bounds what a client is told about one
  identifier's passwords within a window (`LockoutBoundsGuesses`). `SequentialLockoutIsExact` and `SequentialIpLockoutIsExact`
  say that overlapping attempts are the only reason for an overshoot: where those of one identifier (one address)
  come one after the other, whatever the others do, rows and attempt together never exceed the limit.
  `RefusalsDoNotRenew` (`LockRunsOut`) is the safety half of `LockoutEnds`: while an identifier is locked
  and none of its attempts is past the check, no step adds a failure to it, and the age of each only grows.
* **`AdminSessionsProofs`** — `TypeCorrect`; `LoginsBoundSessions`, `LoginKillsEarlierSessions`,
  `IdleClockHolds`, `LogoutEndsSession`; the action properties `RevocationsAreOwn` and
  `DeadSessionsAreRefused`. `OwedBounded`: unrevoked sessions *and* logins that have revoked and will
  create are together no more than the handlers, since a revocation leaves nothing but logins.
  `EarlierInv`: what a login remembers belongs to its account and is revoked once it has revoked;
  `RowMoves` says how any step may change a row. `IdleInv`: the time since a session was accepted is
  behind its idle clock by no more than `TouchDelay`, because a pending write is no older than the
  acceptance it belongs to. `LogoutInv`: a session is revoked from its logout on until its row is
  purged, and its identifier is not given out again while a handler refers to it.
  `SessionsImplementStore`: every step is one of `SessionStore`'s or a stutter, under the mapping `Store`.
  `LoginsApartLeaveOneSession`: what section 4.1 refutes in general holds as long as no two logins of an admin are
  between `RevokeAll` and `CreateSession` (`NoTwoBetween`); the strengthening `LiveInv` says that a login in
  that window has no unrevoked session beside it. `AbsoluteLimitHolds` (`NeverProlonged`): no step, `touch`
  included, gives a session in the table more time.
* **`CategoryTreeProofs`** — `TypeCorrect`; `ForeignKeyHolds`; `DeletionIsFinal` (`DeleteInv`:
  an id handed out and gone is not handed out again); `ChecksThatAreFreshAreRight` (`OnlyStaleChecksCloseCycles`): while there are
  no more categories than the depth limit of the query, a step that closes a cycle is an
  update whose check was overtaken. The first half of it is that the limit then cuts nothing short
  (the lemma `FewAreShallow`): a chain that visits a category twice has a shortcut. The second is
  `CheckInv`: a check that is not outdated leaves a set of categories closed under parents which holds
  the wanted parent and not the category, and deletions only shrink that set.
  `BrakeMissesLongCyclesOnly` needs no bound on the table: a fresh check excludes cycles of up to `MaxDepth` categories
  (`FreshChecks`: what the query did not find then, it does not find after deletions either).
  `OneAfterTheOtherLeavesNoCycle`: of requests served one at a time none is overtaken (`NeverStale`), so the
  categories stay acyclic; this is section 4.2 with its cause taken away. `CycleChecksAreExact`: in an acyclic table
  the query refuses a parent if and only if the update would close a cycle, so no legal move is refused either.
* **`ProductEditsProofs`** — `TypeCorrect`, which includes that every stored row satisfies the
  constraints; `AcceptedFormsAreStorable`; `EntriesNameChanges`; `EmptyWritesAreOvertaken`; `DeletionIsFinal`. The strengthening is
  `UpdatesCompared`: an update that nothing overtook holds exactly the names of the fields
  in which its form and the stored row differ. `EntriesNameOnlyChanges` follows from the same; the
  lemma `StoredForm` says what JSONB does to a form, once and for all. `Fates`: between its look-up and its
  statement, a handler has lost its row exactly when the row is not there.
* **`MigrateProofs`** — `TypeCorrect`; `LockPreventsCollisions`; `MigratorImplementsLog`. A runner past
  the lock is its only holder (`Held`), so what it read of `schema_migrations` stays so: `todo` is
  its release without what is recorded, and the file in hand is the first of it (`UpToDate`).
  The database is made of whole files (`WholeFiles`); a COMMIT is then one `Apply` of the
  log and every other step a stutter. From this follow the three promises at the head of `migrate.js`:
  `DatabaseIsWholeFiles`; `FilesAreAppliedOnce`, as an action property; and `FilesAreAppliedInOrder`, under
  `ReleasesGrow`: a release adds files named after those of the others only. Without it the last one is false, and
  the code does not claim it: a file slipped in later is applied after those that are there.
* **`CatalogSearchProofs`** — `TypeCorrect`; `StaleTextsHaveCause`. Every wrong text is excused or has a
  handler that will still rebuild it (`Repaired`); for that the last read of a handler nothing
  overtook must still hold (`UpToDate`) and every product's brand must exist (`ForeignKey`).
  Two theorems turn this round, under `ReliableSpec`, where no rebuilding is cut off.
  `NotOvertakenTextsAreRight`: as long as no handler writes from a reading that has changed (`NobodyOvertaken`),
  no text is ever excused, and so all are right when the handlers are idle; section 4.4 is the case this leaves out.
  `OneAtATimeRenameRebuilds`: requests one at a time keep the README's promise about a rename.
* **`AdminGateProofs`** — `TypeCorrect`; `WritesComeFromOwnForms`, `OwnFormsAreAccepted`;
  `RedirectionsSettle`; `LoginRefusalsHaveCause`; `OrphanSessionsHaveCause`. Every handler step is one
  `ServerStep`, of which five invariants are then preserved once each. `FormsInv`: the two admin cookies are a
  pair, and so are the token of a form and the session it was rendered for. `TokensInv`: the token of a login page
  that nothing shook is the one in the jar, and a request without a public cookie that is not racing is alone
  in that. `SettledInv`: who was redirected holds the cookies of now, and the second redirection
  says what `open` says. `OrphansInv`: a login that nothing overlapped leaves no session but its own, and without
  trouble there is one login or logout at a time.
* **`StorefrontProofs`** — `TypeCorrect`; `LinkedPagesHaveRows`; `WalksMissNothing`; `WalksRepeatNothing`;
  `SideBarsAgree`. `PlacedInv`: as long as nothing left, the first row of
  the page asked for is one of those that match, and no more was counted than matches. It holds of a followed
  link by the arithmetic of `pageCount` (`LinkedPagesBegin`) and of every edit because a listing that
  nothing leaves only grows (`MatchesGrow`). `WalksMissNothing` and `WalksRepeatNothing` count the products ahead of
  one in its listing (`Rank`; in an order without ties the i-th row has i − 1 of them ahead,
  `RankInOrder`, which is where `p.id` at the end of SORTS is needed). A rank only falls while nothing enters and only rises
  while nothing leaves, and the pages of a walk show the ranks below page × size of a page. So `WalkInv`: of the products that stay put,
  those shown once have a rank below that (`ShownOnce`), those not shown one beyond (`NothingSkipped`), and
  at the moment the rows are read that is a rank below the total, so another page follows (`MoreToCome`).
  `SideBarsAgree`: until an edit comes, the listing of a visitor is one the shop has, and what was counted is the
  number of products it finds now (`QuietInv`). The side bar's queries count the same rows, but without the
  filters of the page, hence "no less"; equality is stated for the pages without filters. A brand's number
  also has the products of switched-off categories, which its page leaves out. That the categories' numbers
  add up to the shop's is a fact about a sum over any finite set of categories (`RowsAreFinite`): the library's
  induction theorems cannot be used here, so the lemmas about `MapThenSumSet` take a smallest counterexample instead,
  which `WellFoundedInduction` provides for the strict subsets of a finite set.

The theorems with a hypothesis `[]…` about the interleaving (`IdentifierApart`, `IpApart`, `NoTwoBetween`,
`NobodyOvertaken`, `OneAtATime`) are statements about the behaviours that meet it. The code enforces none of
them, which is what the runs of section 4 show; the theorems say that nothing else is to blame.
`FewCategories` bounds the table by the depth limit of the recursive query (100 in the program).

Only model-checked: liveness, that is `LockoutEnds` and `EveryRunEnds`, which needs fairness and ENABLED
and is out of the provers' reach. For the first the safety half is proved (`RefusalsDoNotRenew`).

## 6. What is not modelled, and why

* Of the request gate: the checks of uploaded images (no route takes an upload), headers and the
  404 page (no state), malformed ids (`routes/adminCatalog.js`).
* Password hashing, text and number formatting: pure functions. Their results are inputs of the models.
* `audit.recent`, `countFailures`, the dashboard: reports that nothing decides upon. That an audit entry may
  be lost is by design (`audit.js:8-9`); the modules that write one allow it.
* `loginAttempts.purgeOlderThan`: deletes rows long out of every window.
* Product texts, slugs and soft warnings: bounded in length only. The uniqueness of slugs and codes
  is PostgreSQL's and appears as `Refuse`.
* The product page: it is one SELECT of one row. It looks at `p.is_active` only (`products.js:191`), so it
  stays reachable when its category is switched off; no document says otherwise.
* The choice of a sort key: another key in the same ORDER BY, with `p.id` at its end.
* Image pipeline: nothing calls it. Views: no state. Server start and configuration: no concurrency;
  a process that stops is `Restart`, `CutOff`, `LoginFails`, `Fail` or `Lose`.
* Application and database clocks are one clock.

## 7. Plan

Written, in this order: `LoginThrottle`, `AdminSessions`, `CategoryTree`, `CatalogSearch`,
`MigrationLog` and `Migrate`, `ProductEdits`, `Storefront`,
`SessionStore` and `AdminGate`; all of them with their proofs.

Next, to extend the model:

1. The product page behind the links of a listing.
2. Uniqueness of slug and code across two products, with the mapping of write errors to fields.
3. Shutdown: `server.close` waiting for open connections, then the pool.

Next, to prove: for `ProductEdits` and `AdminGate` what holds of requests one at a time, as is done for the other
components; and the new modules as they come.
