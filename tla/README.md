# A TLA+ verification of magento2-customer-graphql-go

The repository is a Go server that answers Magento's customer GraphQL API
straight from Magento's MySQL tables. It keeps almost no state of its own: its
correctness is a matter of SQL statements of concurrent requests interleaving on
shared rows, of statements that fail in the middle of a handler, of values that
were read, or timestamps that were taken, some statements ago, and of the
goroutines that resolve one operation's fields while the process may be shutting
down. That is what the modules here model; the code is the reference for every
definition, and `PROJECT.json` names the lines each one stands for.

## 1. Inventory

Paths are below `src/internal` unless they start with `graph/` or `cmd/`.

| component | code | state | operations | what makes it hard | modules |
|---|---|---|---|---|---|
| login and lockout | `service/customer.go` GenerateToken, `service/security.go` | `failures_num`, `lock_expires` | check, increment, read back, lock, reset | counter and lock change in separate statements; the check works on a stale row | `CustomerAccount` |
| sessions | `repository/token.go` | `jwt_auth_revoked.revoke_before`; the tokens in clients' hands | sign, revoke all | timestamp taken before the statement, unconditional overwrite, dropped errors | `CustomerAccount` |
| password change and reset | `service/customer.go` | `password_hash`, `rp_token`, `rp_token_created_at` | change, request link, reset | checks on a stale row, one link used twice, expiry by parsing a column | `CustomerAccount` |
| email confirmation | `service/customer.go` | `confirmation` | confirm, resend | nil row after a concurrent deletion | `CustomerAccount` |
| account deletion | `service/customer.go` | the row | revoke, delete | requests in flight | `CustomerAccount`, and as an action of `AddressBook`, `CustomerRegistry`, `Newsletter` |
| customer registry | `service/customer.go`, `repository/customer.go`, `store.go` | `email` per website | create, update email, is available | check, then insert; a website that falls back to 1 | `CustomerRegistry` |
| newsletter | `repository/newsletter.go`, `service/customer.go` | rows of `newsletter_subscriber` | subscribe, unsubscribe, is subscribed | several rows of one customer; a key on an address that may be somebody else's | `Newsletter` |
| address book | `service/customer.go`, `repository/address.go` | `customer_address_entity`, `default_billing`, `default_shipping` | create, update, delete, pages | ownership checked once, defaults in another table, pages cut out of a slice | `AddressBook`, `Pages` |
| wishlist | `repository/wishlist.go`, `graph/schema.resolvers.go` | `wishlist`, `wishlist_item` | get or create, add, remove, count, pages | select-then-insert twice over, partial failure, pages that shift | `Wishlist`, `Pages` |
| order history | `service/orders.go`, `repository/order.go` | none; reads the sales tables | page of orders with all parts | up to 13 statements without a transaction, fan-out of seven goroutines, client-chosen page sizes | `OrderAnswer`, `OrderHistory` |
| status labels | `repository/order.go` | a map and a flag in memory | look up, load | shared by all requests without a lock, failure remembered for good | `StatusLabels` |
| read-through caches | `repository/store.go`, `group.go`, `eav_attribute.go` | maps under an RWMutex | get | filled several times over, never invalidated | `MemoizedValues`, `ReadThroughCache` |
| EAV custom attributes | `repository/eav_attribute.go`, `service/customer.go`, `service/mapper.go` | none; reads value and option tables | get custom attributes | one statement for each backend type and each select attribute, many fallbacks | `AttributeMetadata`, `CustomAttributes` |
| application | `app/app.go`, `cmd/server/main.go`, `config/config.go` | the process and its connections | start, serve, shut down | a signal at any moment, the timeout of the shutdown, `log.Fatal` from a goroutine | `AppLifecycle`, `Serving` |
| generated GraphQL server | `graph/generated.go`, `graph/model/models_gen.go` | one execution context for each operation | execute, defer | fields in goroutines, groups that start groups, a counter they share | `FieldExecution`, `Serving` |
| GraphQL resolvers | `graph/schema.resolvers.go`, `helpers.go`, `resolver.go` | none | one for each field | those of the wishlist and of `items_v2` hold logic, the others pass on | `Wishlist`, `Pages` |
| password rules and hashes | `service/password.go`, `repository/customer.go` | none | validate, hash, verify | pure functions | not modelled |
| field mapping | `service/mapper.go` | none | row to answer | pure functions | not modelled |
| error values | `errors/messages.go` | none | | constants | not modelled |

Requests interact through the tables, through the customer id that the session
middleware (outside `src/`) takes from a token, and through the maps in memory
(status labels, caches); the process and the operations it serves meet in
`Serving`. What makes each component correct is listed with its module below, and
the places where that is at risk under `hazards` in `PROJECT.json`.

## 2. Modules

| module | models | checked by | proved about in |
|---|---|---|---|
| `CustomerAccount` | one account: login, lockout, sessions, password, reset, confirmation, deletion | `account`, `lockout`, `revocation_overlap` | `CustomerAccountProof` |
| `CustomerRegistry` | addresses of customers in several websites | `registry` | `CustomerRegistryProof` |
| `Newsletter` | newsletter rows while accounts change | `newsletter` | `NewsletterProof` |
| `AddressBook` | addresses and the two default columns | `addresses`, `dangling_default` | `AddressBookProof` |
| `Wishlist` | wishlists and their items | `wishlists` | `WishlistProof` |
| `OrderAnswer` | what a customer may rely on when asking for orders (abstract) | `orders` | `CustomerReadsProof` |
| `OrderHistory` | `GetOrders`; implements `OrderAnswer` | `orders` | `CustomerReadsProof` |
| `StatusLabels` | the shared map of status labels | `maps` | `SharedMapsProof` |
| `MemoizedValues` | what callers of a cache may rely on (abstract) | `maps` | `SharedMapsProof` |
| `ReadThroughCache` | look-up, SELECT and fill under the lock; implements `MemoizedValues` | `maps` | `SharedMapsProof` |
| `SharedMaps` | `StatusLabels` and `ReadThroughCache` as the alternatives of one run | `maps` | `SharedMapsProof` |
| `AppLifecycle` | the process from start to exit | `lifecycle` | `ServingProof` |
| `FieldExecution` | one operation: its fields, deferred groups and responses | `lifecycle` | `ServingProof` |
| `Serving` | `FieldExecution` within `AppLifecycle` | `lifecycle` | `ServingProof` |
| `Pages` | a client that walks through the pages of a list | `reads` | `CustomerReadsProof` |
| `AttributeMetadata`, `CustomAttributes` | what is defined of attributes, and a question for their values | `reads` | `CustomerReadsProof` |
| `CustomerReads` | `Pages` and `CustomAttributes` as the alternatives of one run | `reads` | `CustomerReadsProof` |

`MC...` modules add the symmetry sets and the few constants a `.cfg` cannot
write. Definitions marked `Mutant:` are deliberately wrong variants of the
operator that follows them; no specification uses them. They stand for the bug that the property they are paired with in
`PROJECT.json` would catch.

### Conventions of the modules about tables

* **A request is a goroutine.** `Requests` are slots of the server; a slot that
  has answered can take the next request. `pc[r]` is the next step of a request,
  and its other locals are what the handler's Go variables hold.
* **A statement is an action.** The code opens no transaction, every statement
  is autocommitted, and any other request may run between two statements of a
  handler. What a handler computes between two statements belongs to the action
  of the one or the other, or is an action of its own where it reads the clock.
* **`Statement(applied, reported)`** is the driver: a statement is applied and
  says so; or it fails; or it is applied and the connection breaks before the
  answer arrives. `faults` counts the last two, up to `MaxFaults`. Each handler
  then does with the error what the code does: return it, or drop it.
* **Clients are arbitrary**: they type any password of the instance, name any
  id, and send any mutation of `Operations`, in any order.
* **Keys of Magento's tables** are not visible in `src/`. Where a unique key
  decides what a statement does, the module takes both possibilities
  (`UniqueKeys`, `UniqueOwner`).
* **The end of the process** is not a step of these modules: a request that is
  cut off is one that never takes its next step, which every safety property
  here allows for, as behaviours may end anywhere. `AppLifecycle` says when it
  happens.
* Left out everywhere: log lines, message texts, mail contents and delivery, and
  fields no statement of the handlers compares.

### CustomerAccount

`customer` is the row of `customer_entity` with the columns the handlers test;
`UpdateRow` does nothing when the row is gone, as an `UPDATE` does. Sessions are
known by their `iat`. `Accepted` is the middleware's comparison with
`revoke_before`; the token's own expiry is left out (it only removes sessions).
`snap` is the row a handler read first, `stamp` a timestamp it took for a later
statement: the two sources of stale data. Passwords are model values compared
for equality, which is all the handlers do with a verified hash. `now` counts the
seconds that all timestamps are truncated to and is advanced by `Tick` up to
`MaxTime`. `ParseTime` tells the two DSNs apart with which the driver returns
`DATETIME` columns in the layout that the code parses, or in another.
`closed` is a history variable, used by one property and by no guard.
`AcknowledgedHolds` is about handlers that go on with a row they read before: what
`ConfirmEmail` and `DeleteCustomer` have done is not undone by them, also where
the handler panics after its UPDATE and the client never learns of it.
The website lookup, which only selects the row, the legacy `oauth_token` table,
which nothing here reads, and the rehash of old hashes are left out.
Two bounds sit in guards: no wrong password is typed once the counter read was at
`FailureBound`, and no reset is asked for once `MaxResets` links were mailed.

### CustomerRegistry

`accounts` are the rows by `entity_id`. `CreateCustomer` looks the store up
(`GetWebsiteIDForStore`, through the cache; an error counts as website 1, and is
not cached), counts the rows with the address in that website, and inserts;
`UpdateEmail` does the same around the UPDATE of a row that may be of another
website. `rivals` is a history variable: who has taken the address of a request
since the request came in. `DuplicateMeansRace` says that two accounts of one
website share an address only through such a race or through a request that came
in through another website; `MisplacedMeansFailed` that an account is in another
website than its store's only after a failed read, one for each.

### Newsletter

Rows are only inserted and switched on and off, and stay when addresses change or
customers are deleted. `Subscribe` is `INSERT ... ON DUPLICATE KEY UPDATE`: with a
unique key on address and store it switches on the row in the way, whoever
owns it, and inserts none. `ShownAsReached` compares what the account page shows
(the latest row) with whom the newsletter reaches (every subscribed row), and
`OwnConsent` says by whose requests a customer is subscribed: where there is the
key, also by somebody who uses the customer's former address. `OwnAddress` says
that each row bears an address its owner has had: the address is read, or comes
with the registration, some statements before the row is written. The history
variable `had` is every customer with every address it ever had; no guard uses it.

### AddressBook

`parent` keeps the owner of every id handed out, also after a deletion; `stored`
says which rows exist. The content of an address is abstracted to `writer`, the
customer whose session wrote it last; answers are left out. Ids are never reused
(`AUTO_INCREMENT`). There is no cascade from the address to the default columns
or from the customer to the addresses: the repository's own test
(`tests/customer_scenarios_test.go:212`) deletes addresses by hand. A handler
that dereferences a row it failed to read panics, which is one more way to end:
gqlgen recovers it, and the client sees an internal error for something that was
done. `DanglingMeansOverlap` says when a default names an address that is gone:
only when the address was, at one time, past the check of `DeleteAddress` while
another request had it to make a default, or when a statement failed.
`contended` is the history of such addresses, and no guard uses it.

### Wishlist

`GetOrCreate` and `AddItem` are a `SELECT` followed by an `INSERT`. Whether the
table has a unique key on `customer_id` is the constant `UniqueOwner`; the run
has the key, as Magento's schema does, so the slower of two first uses is
answered with an error. The theorem holds either way.
The look-up of the product by SKU is merged with the look-up of its item, as the
catalogue does not change in the model. `updated_at`/`added_at` are left out. An
instance admits a mutation only when the items it may insert still fit
(`MaxItems`), so that the bound never cuts a handler in the middle.

### OrderHistory and OrderAnswer

`OrderAnswer` says what an answer may be: an error, or orders that carry every
row that was stored for them when the question was asked and none that is not
stored when it is answered, no document without its lines, and a count that was
right at some moment in between. `OrderHistory` is `GetOrders`: `COUNT(*)`, the
page, seven loads at once, `g.Wait()`, and the loads of document lines, each seeing
the tables as they are at that moment. `Shop` is Magento storing orders and
documents in between (each in one transaction; rows are only ever added), and
changing the status of orders, so that they leave the match of a filter by status
(`order.go:255-264`) or come back (`ChangeStatus`). The
refinement mapping keeps the variables of the same name and maps `open` to
`pc # "idle"`; `floorRows`, `counts` and `matched` are history variables: the rows
stored when the question was asked, and how many orders, and which, matched since. One request at
a time is enough, because requests share nothing but tables none of them writes.
Rows are counted, not named: they are only added, so the number tells the set. An
order that comes back takes any place: the sort is read by one statement of a
request, which cannot tell. `OrderAnswer` allows a total of zero with an empty
page, because `GetOrders` answers that (`CountedRight`); `schema.graphqls:434`
calls it the "total number of orders matching the filter", which it then is not.

### StatusLabels

The map is used by all requests without a lock. A write of the map is two
actions, and so is a lookup, so overlapping accesses are states (`Race`). What
follows a race is undefined: the runtime may abort the process (`Abort`), and
lookups may miss entries (`raced`). Writes are assumed to become visible in
program order, as they do on amd64.

### ReadThroughCache and MemoizedValues

The caches of stores, of groups and of attribute metadata have the same steps and
are one module: read lock, look-up, SELECT without the lock, write lock, fill.
`Lock` keeps new readers out, as a waiting writer of an `RWMutex` does, and
`Drain` waits for those in front. Rows change under the cache (`Change`), which is
never told. `MemoizedValues` is the promise: until something is remembered, an
answer is a value the row had while the question was open, or an error; later
questions are answered with what is remembered, and that stays the same once the
questions asked before it was remembered are answered. The mapping is
`memo <- cache`, and the history variables `fresh` and `seen` are shared.

No handler holds the lock of a cache while it uses the map of labels, so
`SharedMaps` lets a behaviour be of the one or of the other, chosen at the start;
each step of it is a step of the one and a stutter of the other (`Composition`).

### AppLifecycle, FieldExecution and Serving

`AppLifecycle` is `main`, `New` and `Run`: the signal channel has room for one
signal, the listener is a goroutine that may still be binding the port when
`Shutdown` begins, `Shutdown` waits for requests or for its ten seconds, and
`log.Fatal` in any goroutine ends all of them. `db` and `cache` are the two
connections; `cut` remembers which requests the exit cut off.

`FieldExecution` is what the generated code does with one operation. A document
is a set of `Fields` of the schema, `deferred` those under `@defer`; the schema
fixes who belongs to whom. Each field with a resolver is a goroutine (`state`),
an object waits for its fields (`Complete`) and then counts and starts its
deferred group, and the handler answers (`Respond`, `RespondGroup`). The transport
decides what follows: an HTTP POST takes one response (`handler = "left"`), a
websocket asks until there is none (`streams`). The runtime's `FieldSet.Dispatch`,
`ResolveField` and `ProcessDeferredGroup` are modelled as the code relies on
them. An object has one group, as it has with one label. Two things are
reachable that no property forbids, because nothing in the repository promises
otherwise: the deferred groups of a mutation are never answered, since
`generated.go:2206` never looks at them, and a group that was started by another one may be
answered before it.

`Serving` puts one such operation into the process: over HTTP it is a request
that `Shutdown` waits for, over a websocket it is not, since the connection was
hijacked. So a resolver may meet a closed database; `LateMeansUnawaited` says
exactly which.

### Pages and CustomAttributes

`Pages` is a walk through `items_v2` (a `SELECT ... LIMIT` newest first, and a
later `COUNT`) or through the addresses (all rows, then `allAddrs[start:end]`)
while rows come and go, and while items that are in the wishlist are added again,
which sets `added_at` and takes them to the front (`MoveRow`,
`wishlist.go:177`). Seconds of `added_at` matter by their order only.
`shifted` is the history of what moved the pages, and `there` of the rows that
stayed where they were: an item leaves it when it is removed or added again. The
properties say that a row is shown twice only when items were added, added again
or tied; that a walk to the end misses a row of `there` only when others were
removed or tied (items that are added again only push it back); and that the slice
is out of range only for numbers below what any page has. At this commit
no resolver calls `GetAddressesPaginated`: `addressesV2` answers all
addresses at once, and what is shown of the function holds for whoever calls it.

`CustomAttributes` reads one table for each known backend type (attributes of
another type are skipped, and never answered), in any order, ends at
the first NULL or failure with an empty answer, and then asks for the options of
each select attribute, falling back to the stored value. `stood` is the history
of values that did not change while the question was open.

The two share no table. `CustomerReads` lets a behaviour be one of them, chosen at
the start, while the other component rests; each step of it is a step of the one
and a stutter of the other (`Composition`).

## 3. Runs

All runs check for deadlock, except `maps` and `lifecycle`, where the process
really stops (in `maps` after a data race). The `.cfg` files hold the instances.

| run | instance | what it shows |
|---|---|---|
| `account` | 2 requests of all 7 mutations, 2 passwords, 2 links, 1 fault | a closed session or a dead link stays so (`ClosedStaysRevoked`, `DeadLinkStaysDead`); what was confirmed or deleted stays so (`AcknowledgedHolds`) |
| `lockout` | 2 logins at a time, threshold 2, locks of 2 ticks, fairness | a full counter is locked or about to be, locks are honoured, a burst counts one guess beyond the threshold for each other login at most, and enough failures lock in the end |
| `addresses` | 2 customers, 2 requests, 2 addresses, 1 fault | defaults and changes stay with the owner; a default dangles only after an overlap of the two requests that make it so |
| `wishlists` | 2 customers, 2 requests, baskets of 2, `MaxItems` 4, 1 fault | each product is added or reported; only the owner's requests change items |
| `orders` | 2 orders, 2 changes of the shop, edge sizes and pages, 1 fault, fairness | `GetOrders` implements `OrderAnswer`; no page size divides by zero; pages lie within the pages counted, unless orders came to match or ceased to in between; every question ends |
| `registry` | 2 requests, 2 addresses, 2 stores of 2 websites, 2 accounts, 1 fault, key or none | duplicates mean a race; each failed read of a store misplaces one account at most |
| `newsletter` | 2 requests, 2 addresses, 2 stores, 2 accounts, 2 rows, 1 fault, key or none | what is shown is what is reached; rows bear addresses of their owner; nobody is subscribed by strangers |
| `maps` | 3 requests, 1 key of a cache with 2 values, fairness; or 2 statuses, 1 fault | writes of a cache are alone, it implements `MemoizedValues`, every question is answered; labels are complete unless a load failed or the map was raced for |
| `lifecycle` | 1 plain request and one operation with 7 fields, any of the inner ones deferred, HTTP or websocket | the database outlives what is waited for, an orderly exit cuts nothing, announcements come true, a signal ends the process, an operation ends |
| `reads` | lists of up to 3 rows with sizes and pages -1..2; 3 attributes in 2 tables, 3 options, 1 edit | pages miss or repeat rows only when rows moved; attributes are never dropped |
| `revocation_overlap`, `dangling_default` | 2 requests, no fault | fail, see below |

Each passing run completes its state space in about two minutes or less
with two workers.

Why the bounds are enough: every property above is broken by a mutant under
exactly these bounds, so the case it speaks of happens. Beyond that: two requests
show each order of two handlers' statements, and a slot that has answered takes
the next request, so that a login that succeeds, one that fails and one that
locks meet the same row. More requests than two are covered by the theorems for
the properties proved. The clock passes the end of a lock (`lockout`) and a
second boundary between any two statements. One fault is enough to meet each
dropped error once; the handlers never combine two of them. Two customers are
enough for ownership, since handlers never name a third. `MaxItems` admits the
additions of both requests at once, and after them look-ups and removals. In
`orders`, two changes store two orders, or an order and a document, before the
question or at any moment of it, or store one and take it out of the match;
`StatusLabels` and the caches need a third
request to read while two others write. In `registry`, website 1 is the website
of one store and the fallback of the other. The fields of `lifecycle` are those
with a resolver of which the schema lets some be nested in others that may be
deferred, one root that must not be null, and both kinds of roots. Three rows
fill a page of two and begin another, or three pages of one, while one of them is
added, removed or moved. Symmetry is used only where the
symmetric constants are not told apart, and never with a liveness property.

### What the code does not keep

Two runs have a property that a comment of the repository states and the code does
not keep. `findings` in `PROJECT.json` quotes them.

* `revocation_overlap` (`RevokedStaysRevoked`): `token.go:29-30` says the record
  invalidates "all tokens issued before now", but `now` is taken before the
  statement and overwrites whatever is there, so of two overlapping revocations the
  older timestamp may be written last.
* `dangling_default` (`DefaultsAreStored`): `customer.go:599` says "block deletion of
  default billing or shipping addresses", but an update may make the address a
  default between the check and the DELETE. `DanglingMeansOverlap` is what is kept.

Other disagreements have no run of their own; they stand among the hazards, with
the line that says otherwise. A login in flight gets a session of an account that
was deleted meanwhile (`README.md:54`). With `parseTime` in the DSN no lock is ever
in force, and no reset link expires. Two additions of one product leave two rows
(`wishlist.go:157`). A page of orders beyond the end is answered with a total of
zero (`schema.graphqls:434`). After one failed load status codes are answered for
good where a comment speaks of labels (`order.go:196`). And these contradict
nothing that is written: handlers that panic on a row deleted meanwhile, after they
did what was asked; errors of the revocation after a password change, and of
the two defaults of an address, that are dropped; two overlapping resets with one
link; the session of a login that verified the old password.

### Fairness

`lockout` and `maps` assume weak fairness of each request's next step, `orders`
of the request's work as a whole (the safety properties hold without). This is
what net/http, database/sql and `sync.RWMutex` give: a goroutine that can run is
scheduled, a statement returns or fails with its context, and a lock that stays
free is given to who waits for it. `lifecycle` assumes only that the main
goroutine runs and that time passes (`WF` of `Main` and `Expire`): nothing of the
handlers, whose statements have no timeout. `OperationEnds` is about resolvers
that do return and a transport that goes on asking, and states that as its own
antecedent. Nothing is assumed of clients, of the shop or, elsewhere, of the clock.

## 4. Proofs

Proved with TLAPS, for every number of requests, every set of data and every
bound, from the assumptions that the modules state on their constants and, where
the table says so, from what a theorem adds to them:

| module | theorem | states |
|---|---|---|
| `CustomerAccountProof` | `TypeCorrect` | `[]TypeOK` |
| | `ThresholdTheorem` | `[]ThresholdLocks` |
| | `LockTheorem` | without `parseTime`, `[]LockHonoured` |
| | `BurstTheorem` | without `parseTime`, and with finitely many requests at once, `[]GuessBurst` |
| | `RevocationTheorem` | `[]ClosedStaysRevoked` |
| | `DeadLinkTheorem` | `DeadLinkStaysDead` |
| | `AcknowledgedTheorem` | `[]AcknowledgedHolds` |
| `AddressBookProof` | `TypeCorrect`, `OwnDefaultsTheorem` | `[]TypeOK`, `[]OwnDefaults` |
| | `OwnerTheorem` | `OnlyOwnerChanges` |
| | `DanglingTheorem` | `[]DanglingMeansOverlap` |
| | `DeletedTheorem` | a deleted address does not come back |
| `CustomerRegistryProof` | `Invariant`, `DuplicateTheorem` | who holds an address found free took it since; `DuplicateMeansRace` |
| | `WebsitesTheorem` | `[]WebsitesOK` |
| `NewsletterProof` | `SubscriptionsTheorem` | `[]SubscriptionsOK` |
| | `ConsentTheorem`, `OwnAddressTheorem` | `OwnConsent`, `[]OwnAddress` |
| `WishlistProof` | `TypeCorrect` | with finitely many requests at once, `[]TypeOK` |
| | `OwnerTheorem` | `OnlyOwnerChanges` |
| | `AddedTheorem` | `AddedOrReported` |
| `CustomerReadsProof` | `TypeCorrect`, `PageTheorem` | of `OrderHistory`, `[]TypeOK` and `[]PageWithinPages` |
| | `Refinement` | `Spec => ImplementsOrderAnswer` |
| | `AttributesTheorem` | `[]AttributesAnswered` |
| | `PagesTypeCorrect`, `SliceTheorem`, `WalkTheorem` | of `Pages`, `[]WalkTypeOK`, `[]PanicMeansNamedBelow` and `[]OnceUnlessShifted` |
| | `Composition`, `ReadsTypeCorrect` | `SpecReads => WalkSpec /\ AttributesSpec`, and so `[]ReadsTypeOK` |
| `SharedMapsProof` | `LabelsTheorem` | `[]LabelsOK` |
| | `TypeCorrect`, `LockTheorem` | of `ReadThroughCache`, `[]TypeOK` and `[]WritesAlone` |
| | `Refinement` | `Spec => ImplementsMemoizedValues` |
| | `Composition` | `SpecMaps => Spec /\ LabelsSpec` |
| `ServingProof` | `TypeCorrect`, `ServedTheorem`, `OrderlyTheorem`, `CutTheorem` | of `AppLifecycle`, `[]TypeOK`, `[]ServedWithDatabase`, `[]OrderlyExit`, and requests are cut off only after the ten seconds |
| | `AnnouncedTheorem`, `LateTheorem`, `ServingTypeCorrect` | `[]AnnouncedComes`, `[]LateMeansUnawaited`, `[]ServingTypeOK` |
| | `ServingServedTheorem` | `ServedWithDatabase` and `OrderlyExit` with an operation in the process |

`SharedMapsProof`, `CustomerReadsProof` and `ServingProof` are about several
components at once and extend them all, so that the names of these components are
kept apart (`WalkInit`, `AttributesInit`, `LabelsInit`, ...). That requests are
finitely many at once, where a bound counts them, is true of every server, and of
every state the program can be in.

The arguments:

* **CustomerAccount.** `Typed` is `TypeOK` plus, for each request, `HandlerOK`:
  which operation a request at `stamp` or `revoke` runs, that a request past its
  `SELECT` holds a row, and that the timestamp it is about to write was taken, and
  not in the future. `TypeOK` alone is not inductive: `revoke_before` stays a past
  time only because `stamp` is one while a request is at `revoke`.
  `ThresholdLocks` is inductive together with it: the only step that fills the
  counter leaves its own request at `count`, and the only steps that leave `count`
  or `lock` without a lock see a counter that is not full. `LockHonoured` needs
  that a lock in a row read earlier had run out when the request passed the check
  (`LockPast`). `ClosedStaysRevoked` needs that each closed time lies below every
  revocation in flight as well as below `revoke_before` (`ClosedBelow`); without
  the second half it is false, which is the counterexample of
  `revocation_overlap`.
  `GuessBurst` is no property of the counter alone: as long as there is no lock,
  each guess beyond the threshold has a login that was counted and has not locked
  yet (`Counted`), and the counter together with the logins that may still guess
  (`Guessing`) never exceeds the bound (`Burst`). Nobody joins `Guessing` once
  there is a lock, because no lock ends before `LockoutTicks` (`LocksAhead`).
  `AcknowledgedHolds` needs that no step of any handler brings a row back or takes
  a confirmation away (`RowForGood`): every UPDATE sets its own columns of the row
  as it stands, whatever the handler has read.
* **AddressBook.** The owner of an id never changes once it is handed out, so a
  comparison made statements ago still holds (`HandlerOK`), and what an address
  says was written by its owner (`Authored`). `DanglingMeansOverlap` needs that a
  request about to make an address the default has one that is stored or
  contended, and one about to remove an address has one that is no default or
  contended (`Apart`): the two then never meet unless both were under way at once.
* **CustomerRegistry.** A request between its check and its write knows every
  holder of its address in its website as a rival (`KnownOK`): rows are not
  reused, deletions only remove holders, and a step that stores the address counts
  the row among the rivals of all who are after it. The website of such a request
  is one (`WebsiteOK`), so that a deleted row, which is in none, is no holder.
  `WebsitesOK` counts: the accounts in a wrong website and the requests about to
  insert one there (`Misplaced`, `Misplacing`) are together no more than the
  failed statements, as a request becomes one only by a failed read of the store
  and an account only takes the place of a request.
* **Newsletter.** Where subscribing always inserts, a subscribed row of a customer
  is followed by subscribed rows of that customer only (`RowsOK`), so that the
  latest row, which is the one that is shown, tells of all. Whoever is about to
  insert has room under the bounds, and knows customer, store and address
  (`RoomOK`, `ActiveOK`). Consent follows step by step: only an
  `INSERT` and an `UPDATE` of a customer's own request, or the unique key, change
  who is subscribed. `OwnAddress` needs that whoever is about to subscribe carries
  an address its customer has had (`HadInv`): a change of the address leaves the old
  one among those.
* **Wishlist.** Past `GetOrCreate` a request holds a wishlist of its customer
  (`OwnOK`), and an item it has found lies in that one while it exists
  (`FoundOK`), because ids are handed out once (`IdsOK`). `AddedOrReported` also
  needs that what is found holds the product about to be added (`SkuOK`), that
  nothing is left to add when the answer is counted (`AskedOK`), and that each
  product asked for is reported, still to add or in the wishlist as long as no row
  is missing (`Covered`, `Kept`). A count of the rows equal to the ids handed out
  means that none is missing (`AllKept`, by an injection between finite sets). The
  type of `nextItem` needs `IdsLeft`: the next id and the products still to add in all
  baskets fit under the bound, and each `INSERT` uses up one of them
  (`Outstanding` is a finite set that loses exactly that member).
* **OrderHistory.** A load that returned holds for each order of the page at least
  what was stored when the request came in and at most what is stored now
  (`RowsOK`); each stage finds what the ones before it left (`StageOK`); the count
  is one that matched since the request came in (`CountOK`); the page has the
  places that size and number name, out of the orders counted, as long as that
  many matched all the time (`PageOK`, `IsPage`). In `OrderAnswer` the request is asked at the first
  statement and answered at the last; what it does between is a stutter, and the
  answer given is one that `OrderAnswer` allows because of the invariant.
* **CustomAttributes.** A value that stood is read or still to be read (`ReadOK`),
  then answered or waiting for its options (`MapOK`), so that no step drops it; an
  entry takes the place of a value, so that there is one for each (`OneEntryEach`).
* **Pages.** `Rank` of a row is the number of rows up to it in the order of the
  list. In a list without ties it is the place of the row in every sorted sequence
  (`RankIsPlace`, a bijection), so that a page shows exactly the rows of its ranks
  (`PlacesShown`). Removals only lower ranks, a new row raises ranks of items only,
  and so does an item that is added again, except its own (`MoveRanks`):
  shown rows stay at or behind the position of the walk unless items were
  added, added again or tied (`OnceOK`), rows of `there` not yet shown stay ahead
  of it unless rows were removed or tied (`MissedOK`), and a row ahead of the last
  page makes the count of pages exceed it.
* **StatusLabels.** A request that scans has stored what it has read (`ScansOK`),
  so whoever sets or sees the flag finds the map complete (`CompleteOK`), as long
  as nothing failed.
* **ReadThroughCache.** `HandlerOK` says what a request knows between two steps:
  one that goes to the table found nothing cached when it asked, the row it
  carries was in the table since, and it holds the lock from `Lock` to `Fill`;
  `NoReaders` that nobody reads meanwhile. Each step then is one of
  `MemoizedValues`, or a stutter.
* **AppLifecycle.** Where the listener may be (`ListenerOK`), when handlers run
  (`HandlersOK`) and which connection is open at each step of `main`
  (`ConnectionsOK`).
* **Serving.** Every field that runs is waited for by the handler, by its object
  or by a deferred group (`AnchorsOK`), objects are complete before their groups
  start (`OrderOK`), the latest response agrees with the count (`ResponsesOK`),
  and an HTTP request in execution is in flight (`RequestOK`). The count is the
  cardinality of a finite set that each step changes by one.

In each proof module a few lemmas say once what a step of one request may change
of the others; the invariant then has one step for each action.

Every invariant and action property of a passing run is a theorem. Only
model-checked are the liveness properties (`ThresholdEventuallyLocks`, `Answered`
of `OrderHistory` and of `ReadThroughCache`, `SignalEnds`, `OperationEnds`): they
rest on fairness and so on `ENABLED`, which this prover does not handle. The
two runs that expect a violation refute what a comment of the code claims; there is
nothing to prove. No module has a recursive definition, so
no proof by induction over data is missing.

## 5. Not modelled, and what is left

* `graph/generated.go` (18 178 lines) and `graph/model/models_gen.go` (1 570
  lines) are three quarters of the implementation. Besides the execution that
  `FieldExecution` models they are one function for each field that copies it,
  one for each input type that decodes it, the schema, and struct types: there is
  no state and no choice in them. The map therefore covers about half of the
  hand-written code (most of the other half is mapping, SQL text, and arguments
  passed on) but a small share of all lines, and no faithful module would change
  that.
* Password rules and hashes, field mapping, the text of order filters and
  sorting, error values and configuration are functions of their arguments that
  unit tests reach as well as a model would.
* Outside `src/` and modelled only as the code relies on it: the session
  middleware, `net/http`, the gqlgen runtime, `database/sql`, `errgroup`, MySQL,
  and Magento itself. Not modelled at all: the Redis response cache, mails, and
  SQL syntax.

Next, in this order: several operations at once in `Serving`; the composition of
`CustomerAccount` with the requests that only read the account; properties for
the hazards in `PROJECT.json` that have none yet, first that of a half-stored
address.
