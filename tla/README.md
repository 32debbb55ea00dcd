# w3metasite in TLA+

w3metasite is a C++ framework for web sites and the shops, consoles and
intranets built with it. Every page is a CGI program: each HTTP request starts
a process that lives until it has written its page. What outlasts a request is
in the tables of a database (MySQL with MyISAM tables for the shops: no
transactions, no locks that span statements) and in the cookies and pages of
the browsers. So the concurrency of the system is that of processes which work
on the same rows with one SQL statement after another, each free to die in
between, while a browser may have several requests under way (the cart of the
shop is an iframe beside the page).

This directory holds TLA+ modules for the core of the shop (the shopping cart,
the customer's payment setup, the payment of an order), for the layers every
page stands on (the database drivers, the table access, the forms, the
sessions and lists), and for the applications in which a request does more
than save one row (rebates, invoices, tasks, menus, the mail of the contact
page); the configurations with which TLC checks them; and proofs that TLAPS
checks. Paths below are relative to `src/`.

## Inventory

| component | where | state | operations | what is hard | modules |
|---|---|---|---|---|---|
| shopping cart | `openCart/source/shoppingCart.hpp`, `openCart.cpp`, `eCommerce/source/openCart.cpp` | a row of `ShoppingCart` (an XML list of lines, `Checked_Out`), the cookie `crtid` | construct (find or create), add, always add, update, remove, check out | the row is read whole, changed, written whole; the id travels by cookie and by link | CartContents, ShoppingCart |
| payment setup | `eCommerce/source/PaymentServices.hpp`, `pay_form.hpp` | `Customer_Payment_Service`, `Customer_Payment_Parameter` (card data) | insert, update or show by the form's mode | four and more statements that overlap or stop halfway | PaymentSetup |
| checkout, order, gateway | `eCommerce/source/checkout_control.hpp`, `checkOut.cpp`, `Order.hpp`, `openMerchant/ocTrustCommerce.h` | `Ordered`, `Ordered_Item`, the stock of `Product`; at the gateway | the steps address, payment, verify, confirmed; pay | checks before the payment, effects after it; charge first, record later; lost answers | Checkout |
| database drivers | `openData/` | a connection, a cursor, a transaction flag | open, next, execute, resultKey, commit | the flag after a failed statement; a cursor that ends with its transaction | Drivers |
| table access | `openForms/read_write_base.cpp` | an object per row: key, fields, result text | get, insert, update of changed columns, delete | an update of a row that is not there succeeds; an object used for one row after another | TableAccess |
| forms | `openForms/forms_base.cpp`, `openClientCode/formEvents.js` | the mode and the key, in the page and in cookies | the buttons of a form, reload, links | page and cookie disagree when two pages are open | FormPages |
| sessions, lists, trees | `sessions/`, `openForms/superlist_base.hpp`, `XMLTreeStates.cpp` | a row with all variables of a session | load, change, `Synch` | written back whole; names shared by lists | Sessions |
| rebates | `webconsole/paydrop_source/` | purchases and checks | import a file, write the checks | failing statements between check and purchases; files imported twice | Rebates |
| invoices | `peopleAndProjects/source/Invoice*`, `XML_Time_svc.cpp` | invoices, times, their status | show, put on, change the status | the status is kept in two tables; pages grow old | Billing |
| tasks | `peopleAndProjects/source/Task*` | tasks, their assignments, the hours | save a form, save a list | columns set by a hook; one object for many rows; delete and insert again | Tasks |
| menus and paragraphs | `webconsole/metasite_source/`, `metaSite/source/page_menu.hpp` | the order and level of the entries | add, change, delete, move, show a part | each change moves what is behind it | Menus |
| mail | `openMailer/oc_Mail.cpp`, `openSocket/`, `metaSite/source/contactus.cpp` | a dialogue with a server | open a route, send | refusals, silence, hang-ups | Mail |
| CGI, templates, XML, strings | `openCore/` | none between requests | parse, search, escape, emit | escaping that is not its own inverse | (CartContents, Rebates) |
| other consoles, order administration, intranet, reports | `eCommerce/admin/`, `webconsole/`, `intra/`, `siteStatistics/` | tables of their own | show, edit | single-table forms, over the forms and the table access above | - |
| generators, vendored code | `openRad/`, `shipping/`, `objects/`, the SDKs in `openMerchant/` | - | - | not part of the program's own run-time logic | - |

How they interact: a page (a form, a list, a control) is built on the forms and
the sessions, which read the cookies; it works on tables through objects of
table access, each with a connection, a command and a recordset of a driver.
The checkout uses the row of the cart and the rows of the payment setup; the
other applications have no table in common.

`PROJECT.json` lists the hazards of this code line by line, with the property
that watches each, or a note why there is none.

## Modules

    CartContents            what the operations do to the list of lines
      ShoppingCart          requests, rows, cookies and links       --> Basket
        ShoppingCart_proofs theorems about ShoppingCart
        Checkout            payment of a cart, on top of both       --> Purchase
          Checkout_proofs   theorems about Checkout
    PaymentSetup            the rows of the payment setup (INSTANCE in Checkout)
      PaymentSetup_proofs   theorems about PaymentSetup
    Drivers                 calls of the PostgreSQL and the MySQL driver
      TableAccess           objects, one call after another
        TableAccess_proofs  theorems about both
    Rebates, Billing, Tasks applications of the back office
      Rebates_proofs        theorems about Rebates
      Projects_proofs       theorems about Tasks and Billing, and MCConsole
    FormPages, Sessions     forms in tabs; sessions, lists and trees
      Browser_proofs        theorems about FormPages and Sessions, and MCBrowser
    Menus, Mail             parts of a site
      Site_proofs           theorems about Menus and Mail, and MCSite
    MCShoppingCart, MCPaymentSetup, MCCheckout   instances for TLC (*.cfg)
    MCConsole   Rebates, Billing, Tasks, TableAccess side by side (Console.cfg)
    MCBrowser   FormPages, Sessions side by side (Browser.cfg)
    MCSite      Menus, Mail side by side (Site.cfg, Mail_separator.cfg)

(`-->`: implements the abstract specification.)

The last three modules put specifications beside each other that share no
state: a variable `part` says which of them a behaviour is about, and the
variables of the others stay as they began. A behaviour of one of them is a behaviour
of each of its parts, which is proved too (`ConsoleIsItsParts`, `BrowserIsItsParts`,
`SiteIsItsParts`): the theorems about the parts are about what TLC runs.

**CartContents** has the pure part: a cart is a sequence of lines (product,
count, options). `AlwaysAddLine`, `AddLine`, `RemovePiece`, `UpdateOutcomes`
are the bodies of the four methods of `uiShoppingCart` between reading the row
and saving it. `UpdateOutcomes` is a set: with a line number that the cart does
not have, the code erases or writes through `end()`, which is undefined, and
the set holds what builds of it produce (the process may also die, an action
of its own). Counts are integers of any sign, as `atol` returns them.

**ShoppingCart** has the processes. `pc[r]` is the program that serves request
`r`, `cart[r]` its `uiShoppingCart` object. A request takes two steps: the
constructor (`NewCart`, `NoNewCart`, `LoadCart`), which inserts or reads the
row, and one operation, which writes the object back (`Save`). `Reply` takes
the cookie and the link of the page to the browser; `Die` loses the response.
`carts` is the table; `crtid` and `links` are what the browsers hold. The
cookie wins over the link in `openCart.cgi`, the link over the cookie in
`checkOut.cgi` (`crtidFixup`), which is what `RequestedCart` says. The re-read
with which `db_action("u")` ends is part of `Save`'s step: only the page shows
what it read.

**PaymentSetup** has step=verify: `Submit` is `confirmOrderPanel` up to
`form_action`; `ListServices`, `ClearListed`, `DropServices` and
`InsertService` are the statements of `ivalidate` and `db_insert`, `ReadBack`
is the `get_data` of `db_action("i")`; `DeleteOldParameters` and
`CreateParameter` store the card. `params` maps a service row's id to the
parameters stored for it; the id 0 is there because the code can store
parameters for it.

**Checkout** extends ShoppingCart and instantiates PaymentSetup on the same
requests. `Confirm` is `createOrderPanel` up to `pay`; `ReadParameters`,
`Send`, `InsertOrder`, `SaveItem`, `DecrementStock`, `RemoveParams` are the
statements of `Ordered_Obj::pay`; `PayEnds` is the rest of `createOrderPanel`.
`charges` is what the gateway approved, kept beside the program's own tables in
order to compare the two. The gateway and the table `Product` are external:
the first approves or declines, its answer may be lost; of the second only the
stock matters. A browser stands for the one customer who uses it.

**Basket** and **Purchase** say what a shopper is promised: one operation
concerns one product, and closing a basket changes nothing in it and is final;
a cart is charged for once, and a charge is followed by an order for all of the
cart, and the order by the closing of the cart.

**Drivers** has no variables: each call of a driver is an operator that yields
the set of its outcomes, the connection afterwards and the table as others see
it. `PgCommand` is `postgresCMD::execute`, which brackets a statement with a
transaction unless the flag `isTransactioning` is set; `PgOpen`, `PgNext` and
`PgClose` are the recordset over a cursor, `PgResultKey` the search for a new
key; `MyOpen` and `MyNext` fetch a result whole. The rows not fetched yet are a
set, and `First` and `Later` take them in the order of their keys. The servers
are external: a statement may fail, a transaction be aborted, a connection break.

**TableAccess** is `read_write_base` over these: `Show`, `ShowWhere`, `NextRow`,
`Insert`, `ResultKey`, `Update`, `Reread`, `Delete`, `Reset`, one step for each
call of the driver, by several objects of several pages.

**FormPages** follows a form from one page to the next: `Press` is a button of
`formEvents.js`, which sets the cookie `mode`; `Send` is the moment at which the
cookies are read by the browser; `Serve` is `getInstructions`, `setKey` and
`form_action` for the mode; `Finalize` is the script of the loaded page, which
takes the cookies back. `Reload` repeats the request that made the page.
`wanted` is what the user has asked for, kept beside the table.

**Sessions** has a session as a function of its variables. `Begin` is the
constructor of `Session_Obj` with what the arguments of the page change in the
copy; `Count` is `getFilteredData` with `maxPageFixup`; `Finish` is `Synch`.
`solid` is what was set while no other request was under way.

**Rebates** has the import (`CheckTransaction`, `InsertPurchase`, line by line)
and the run of the checks (`BeginRun`, then `InsertCheck`, `UpdatePurchases`,
`UndoCheck` for each member), and `DayPasses`, since which purchases count
depends on the date.

**Billing** has the pages of invoices as they were shown (`Display`), `Click` on a
checkbox, and the submission of a status in three steps: `SubmitStatus`,
`RereadInvoice`, `SetTimeStatus`. The script behind the checkbox is not in the
repository and is taken to do what its value says.

**Tasks** has the two pages that save tasks: `SaveForm`, `SaveList`; then row by
row `Validate` (`uvalidate`), `WriteRow` or `WriteForm`, `DeleteAssignment` and
`SetAssignment`. `Transfer` says what the object still holds of the row before.

**Menus** has entries with an order and a level. `Insert`, `ChangeOrder`,
`Delete`, `Move`, `MoveAside`, `AddPageItems` begin the requests; `Neighbour`,
`Update`, `Reread`, `Shift`, `Other`, `AddItem` are the statements they consist
of (a move is two updates, each followed by the statement of `usupplemental`).
`Walk` and `ShownWith` are the function that decides which items a page shows.

**Mail** has both ends of the connection: `WriteLine`, `ReadReply`, `ReadStale`
(at the end of the stream `ReadLine` returns the line it read last), `Timeout`;
and the server, `ServerReads` and `ServerCloses`, which may refuse anything.

## Runs

Runs that pass:

| run | instance | shows |
|---|---|---|
| cart_sequential | 1 request at a time, 1 browser, 2 products, 2 carts of 2 lines, failing inserts and updates | types; every operation implements `Basket` (`BasketSpec`); `LinesHavePieces` |
| cart_overlap | 2 browsers, 2 overlapping requests, 2 carts | `CartsArePrivate`, `OthersNeverTouchMyCart`; `OneLinePerProduct` in spite of lost updates |
| setup_orderly | 2 overlapping submissions of 2 customers, 2 cards of 2 parameters, all modes, failing inserts, killed processes | types; `CardsStayWithCustomer`, `NoCardWithoutService`, `SubmittedCardIsStored` |
| checkout_sequential | 1 request at a time, 2 products, 2 carts, all modes, weak fairness | types; `PurchaseSpec`, `ChargedCardIsForgotten` |
| checkout_overlap | 2 overlapping requests, 2 charges, lost answers, failing order and items, death between any two statements | `EveryOrderPaid`, `CheckedOutOnlyIfOrdered`, `OnlySoldLeavesTheShelf` |
| checkout_settles | 2 overlapping requests, 2 charges, failing items, weak fairness | `ChargeLeadsToOrder`, `StockMatchesOrders` |
| console | 2 pages on 3 purchases and 2 checks; 2 tabs on 2 invoices and 2 times; 2 tasks, 2 people, 2 submissions; 2 objects on 2 rows, both drivers, failing statements and connections | types; `BooksBalance`, `PaidStaysPaid`, `EachTransactionOnce`; `TimeFollowsInvoice`; `ValidatedIsWritten`, `AssignedAsAsked`; `FlagCoversTransaction`, `SavedIsStored`, `ShownRowIsKeyedRow` |
| browser | 2 tabs on 2 rows of 2 fields, 2 buttons; 2 frames on 3 lists and a tree, 3 requests, 2 sessions | types; `EveryButtonOnce`, `NothingGoneUnasked`; `SetDataLasts`, `SortedByOwnColumn` |
| site | up to 4 entries on 3 levels, 4 requests one at a time or 2 that overlap; a mail of 2 headers, any server, weak fairness of the page | types; `NoAmbiguity`, `MoveSwaps`, `UntouchedKeepOrder`, `SelectedIsShown`; `TextIsNoCommand`, `MailEnds` |

Runs that find a disagreement between the code and what its comments or checks
say (`findings` in `PROJECT.json` quotes each):

| run | property | what happens |
|---|---|---|
| cart_final | `CheckedOutIsFinal` | an add that read the row before the checkout writes its own `Checked_Out = 0` after it |
| checkout_twice | `OneChargePerCart` | two confirmations both see an open cart, both charge |
| mail_separator | `BodyIsSeparated` | the empty line after the headers is never written |

These behaviours are part of the model, so the properties that hold are stated
to hold in spite of them; where one needs requests that do not overlap, or
statements that do not fail, its comment and its configuration say so.
`OrderlySetupSpec` is `SetupSpec` for customers who wait for the answer to one
form before they send another; two overlapping forms of one customer both
delete the old setups and then both insert theirs, so that two remain.

The newer modules say the same with a variable that is fixed in the initial
state: `careful` (Rebates), `current` (Billing), `patient` (FormPages), `neat`
(Sessions), `orderly` (Menus). Where it is true, pages are used one at a time
as its declaration says; where it is false, they overlap and die. A property that
holds only for careful use names the variable, the others hold for both. What
goes wrong without care is in the model too: two overlapping runs write two
checks for the same purchases, of which one names none; the checkbox of an old
page puts a time on an invoice that is paid; two overlapping moves leave two
items in one place.

### Bounds, and why they are enough

`MaxCarts` rows of `ShoppingCart` and `MaxServices` service rows: at the bound
an insert fails, as it may in the code; two carts are enough for one browser to
have a second one, or for two browsers to have one each, and two
service rows for a replaced and a new one. `MaxLines` lines: two, for a line of
each product, two lines of the same product, and a line number past the end;
one where requests overlap, which is enough to tell a full line list from an
empty one.
`MaxCharges` approved charges: two, for a second charge of the same cart.
Counts asked for are 1 and set are 0 and 2, against a stock of 1 or 2: a
count can reach 0, 1, the limit, and be cut to it. `Shelf` is 1 where the stock
should run out, 3 otherwise. Two requests overlap in every order of their
statements; a third would add no new pair of statements, and the theorems
below hold for any number. `Operations` restricts a run to the operations its
question needs: in `cart_overlap` `AddProduct`, since every operation writes the
whole row and the others never add a line; in the runs of the checkout
`AlwaysAddProduct`, which fills the cart.

`MaxPurchases` and `MaxChecks`: three and two, for a file imported twice of
which a line failed, and a check before and after it; `MinCredit` is 3, which
two purchases reach and one does not. At these bounds an insert fails.
`Ids` of TableAccess are two, for the row an object shows and another one.
`LastTask`, `MaxHours`, `MaxSaves` (2, 1, 2): a list with a second row, hours that
differ from those stored, a save after a save. `MaxRows` and `MaxPresses` are two:
a row of another tab, and a button after a button; `MaxRequests` is three, for
two that overlap with one that went before. `MaxSessions` is two, for one that
was deleted and its successor. `MaxEntries` and `MaxLevel` are four and three:
what is moved, its neighbour and one on either side, or a parent, a child, its
child and a sibling; `MaxWrites` (4) and `MaxOverlaps` (2) count the requests.
`Paragraphs` of the page that an item links to are two, which have to come
apart. `MaxCount` and `ItemsPerPg` are one, which gives a list two pages.

A run whose requests are symmetric uses `SYMMETRY`; the runs with a liveness
property do not. The runs of the shop check for deadlock: a shop always serves
another request. `console`, `browser` and `site` switch the check off, because
some of the bounds above end the requests, and a mail ends.

### Fairness

`FairCheckoutSpec` has weak fairness of `Continue(r)`, for each request: a
process that has begun a payment or a setup goes on by itself. Nothing in it
waits for another request (no locks, no transactions, every loop runs over a
list that is already in memory), and the database and the gateway answer or
time out. Nothing is assumed about the browsers: no request has to arrive, no
response has to reach anybody, and fairness is used only in runs in which
processes do not die.

`MailSpec` has weak fairness of `PageStep`, the page's own steps, of which
`Timeout` is one: the program sets a timeout of five seconds on its socket. Of the
server nothing is assumed. `MailEnds` is stated for the case in which a write to
a connection closed by the server kills the process (as SIGPIPE does by
default); where the signal is ignored, `Write` goes on for ever, since it keeps
the result of `write` in an unsigned variable.

## Proofs

All theorems are about the specifications above, for any sets, bounds and faults
that the assumptions on the constants allow: the named `ASSUME`s of the modules,
which TLC evaluates on every run, and what a theorem says itself in its `ASSUME`.
These are small: sets are not empty where the code takes a member, bounds are
natural numbers, keys are not the 0 that means none. `SessionAssumption` also says
that no list is called `tree`, the word by which the model tells the variables of
nodes from those of lists in a session; `AccessAssumption` counts keys and values
together.

Most safety properties are not inductive, so each proof module has the invariant
that is, one lemma per action, and a theorem that puts them together by temporal
reasoning.

`ShoppingCart_proofs`, from `CartAssumption`:

* `CartTypesHold`: `CartSpec => []CartTypeOK`. The type invariant is inductive.
  Its content is that each operation turns contents of a cart into contents of
  a cart (`AddType`, `RemovePieceType`, `UpdateType` and the lemmas before
  them): what the searches find is a position of the list, also in the undefined
  case of `UpdateProduct`, where the list is not empty when its last line is
  lost.
* `CartsStayPrivate`: `CartSpec => []CartsArePrivate`. An insert returns a fresh
  id only if no browser knows an id without a row (`KnownCartsExist`), and a new
  request may only bring what its browser knows if an idle process holds
  nothing from its last request (`IdleIsClean`). `PrivacyInv` joins these to
  the types. One lemma per kind of step: the constructor is where a browser
  learns an id, its own or a fresh one; saving and replying move ids around
  within a browser; the others forget.
* `MyCartIsMine`: `CartSpec => OthersNeverTouchMyCart`. A row changes only by a
  step of a request that holds its id (`RowChangesByItsHolder`), which is one
  of its browser, by `PrivacyInv`.
* `NoProductIsThereTwice` and `EveryLineHasPieces`: `OneLinePerProduct` where
  no page has the operation that always adds a line, `LinesHavePieces` where
  the arguments ask for pieces. Both go by one argument about a set of contents that is
  closed under the operations (`ClosedUnderOperations`): a request may write an old
  list over a newer one, but both are in the set.
* `CartsAreBaskets`: `CartSpec => BasketSpec` for one request at a time, with failing
  statements and counts of either sign. The mapping counts pieces, so this
  needs what an operation does to a sum over lines: it differs for the one
  product alone (`DifferIn`; `AddDiffers` and its like). `BasketInv` adds to the types
  that between its two steps a request holds the row as it is (`ObjectIsRow`).

Sums are recursive functions (`Total` of CartContents). That one exists and is a number is
shown by induction, which the library offers only for an operator; `UpTo` is
the induction as it is needed here, by the least number that fails: a set of
numbers that has the first and with each the next has them all.

`PaymentSetup_proofs`, from `PaymentAssumption`:

* `SetupTypesHold` and `CardsStay`: `SetupSpec => []SetupTypeOK` and
  `SetupSpec => []CardsStayWithCustomer`, with no restriction on what overlaps.
  `SetupInv` adds to the two what they need: the loop over the parameters stays
  within them (`PartsCounted`), a form's key is 0 or a row of its customer
  (`KeysOwned`), and an id that no row has yet has no parameters waiting for
  the next customer who gets it (`NoEarlyParameters`).
* `NoCardOutlivesItsRow`: `OrderlySetupSpec => []NoCardWithoutService`. The
  order of `ivalidate`'s statements matters here, so `OrderlyInv` says for each
  stage of a form what is already done (`Prepared`): all rows of the customer
  are listed, then all of them are empty, and the row that is written to is
  live. `OthersStayPrepared` is the interference lemma: a step touches the rows
  of one customer only, so it disturbs no form of another, and each action is
  left to be looked at for its own form alone.
* `WholeCardIsStored`: `OrderlySetupSpec => []SubmittedCardIsStored`, if no insert of
  a parameter fails (the property would not hold: the code goes on with the next
  parameter). `StoredInv` adds that a customer has one row at most (`OneRow`) and that
  the loop has stored exactly the parameters that it has gone over (`Stored`).

`Checkout_proofs`, from `CheckoutAssumption` and those of the cart:

* `CheckoutTypesHold`, `OrdersArePaid` and `ClosedCartsAreOrdered`: `CheckoutSpec`
  implies `[]CheckoutTypeOK`, `[]EveryOrderPaid` and `[]CheckedOutOnlyIfOrdered`.
  `CheckoutInv` follows a payment through `Ordered_Obj::pay`: its charge is for
  the object of its request (`ChargeIsOwn`), which nothing else changes while it pays;
  its order is that of its charge (`OrderIsOwn`) and has the items the loop has
  gone over (`Progressed`); no two requests have the answer for one charge
  (`ChargesApart`). For the third property, everything that says of a cart that it is
  checked out has to be covered, not only the row but each object that may be
  written over it (`SaidToBeClosed`, `ClosedIsOrdered`).
* `CheckoutRefinesCart`: `CheckoutSpec => CartSpec`. Every step of the checkout is a
  step of the cart or leaves the cart's variables alone, so the theorems
  about carts hold with the payments in between: `CheckoutKeepsCartsPrivate` draws
  that conclusion for `CartsArePrivate` and `OthersNeverTouchMyCart`.
* `ChargedCardsAreForgotten`: `CheckoutSpec => ChargedCardIsForgotten` for a shop
  that serves one request at a time, as the run does; two that overlap may
  store the card again behind the payment's back. `CardIsGone` is the invariant.
* `StockIsAccountedFor`: `CheckoutSpec => []StockMatchesOrders`, where no process dies, and
  `NothingUnpaidLeaves`: `CheckoutSpec => []OnlySoldLeavesTheShelf`, where they may.
  `StockInv` keeps the account: for each product there is a number taken for each
  order, which is what was sold for an order that is done with (or no more than that,
  where a process may have died in between) and exactly what the loop has gone
  over while a request is at it (`Accounts`, `TakenBy`); the
  shelf lacks their sum. `PiecesInv` has it that nobody takes less than nothing.
* `CheckoutIsPurchase`: `CheckoutSpec => P!Safety`, the safety half of `PurchaseSpec`, for one
  request at a time and statements that do not fail, as in the run. In `PurchaseInv`
  the row of a charge is closed or the request that has the answer is on its
  way to close it (`ChargesClose`), and loses no item before (`PaidIsOk`); the object
  it pays for is the row (`ObjectIsRow`). `OneChargeForOneCart`: from the same invariant,
  `[]OneChargePerCart`, which `checkout_twice` violates with two requests.

`TableAccess_proofs`, from `DriversAssumption` and `AccessAssumption`. The calls of a driver
are operators on a connection and a table, so there is a lemma for each of what
its outcomes are: they keep what is sound (`Sound`) of a connection, whatever
fails in it, and take the table only to one it may become.

* `AccessTypesHold`, `FlagCovers` and `ShownIsKeyed`: `AccessSpec` implies
  `[]AccessTypeOK`, `[]FlagCoversTransaction` and `[]ShownRowIsKeyedRow`, for both
  drivers. `AccessInv` says that what a transaction has pending and what a
  recordset has left belong to rows that were in the table (`Sound`), and
  how each stage of an object goes with its connection (`Shows`).
* `SavedWasStored`: `AccessSpec => []SavedIsStored`, where a COMMIT that is sent
  does not fail (the code does not look at what it returns). `SavedInv`: what was
  saved is in the table or pending in the transaction that is open.

`Browser_proofs`, from `FormAssumption` and `SessionAssumption`:

* `NothingGone`: `FormSpec => []NothingGoneUnasked`, and `FormTypes` for the types.
  `FormInv` needs that whatever page, request or cookie names a key names one
  that has been given out (`KeysIssued`), so that an insert cannot make a stale
  key mean a new row, and that a request that says delete names a row which the
  user wants gone (`DeletesWanted`), so that `setKey` never goes to the cookie for
  it. `LeaveKeeps` and `AnswerKeeps` are the two ways a request changes hands.
* `ButtonsWorkOnce`: `FormSpec => []EveryButtonOnce`. `Once` says, for a user who
  waits, what the cookies and the pages tell `getInstructions` at each
  stage of the one tab that is under way, and `Named` what its page names.
* `SetStays`: `SessionsSpec => []SetDataLasts`. `SolidInv` has it for the copies: what
  is solid is in every copy that is still to be written back, by `Synch` or into a row.
* `ListsSortByTheirOwn`: `SessionsSpec => []SortedByOwnColumn`. It holds for two
  reasons, a name that no other list has (`UnsharedSort`) and a user who comes
  by the menu link, which resets the sort (`NeatSort`).
* `SessionTypesHold`: `SessionsSpec => []SessionTypeOK`, variable by variable
  (`VariableByVariable`). What is not a matter of form in it is the number of a page:
  `maxPageFixup` leaves one that the list has (`FixedPage`, `PagesOfRows`).
  `BrowserTypesHold` draws the conclusion for the run.

`Rebates_proofs`, from `RebatesAssumption`:

* `PaidForGood`: `RebatesSpec => PaidStaysPaid`, however pages overlap and die.
  An update marks only purchases that are on no check, and an undo deletes a
  check without touching the purchases; for that, a page that updates or undoes
  must do so for a check it has inserted (`HasCheck`), and the keys must be
  those of rows (`RebatesTypeOK`, `AtALine`). Together these are `RunInv`.
* `RebatesTypesHold`: `RebatesSpec => []RebatesTypeOK`. The amount of a check is a sum over
  rows, so that it is a number is by induction (`UpTo`, `SumExists`, `SumIsNumber`).
* `ImportedOnce`: `RebatesSpec => []EachTransactionOnce`. `ImportInv` adds that
  `careful` pages are one at a time (`OneAtATime`), that a line about to be
  inserted is not there (`InsertsNews`: `checkTransaction` was one statement
  ago), and that an import without failures leaves nothing out behind it
  (`PastIsKnown`), which a later update, undo or insert cannot take back.
* `ChecksAreCovered`: `RebatesSpec => []BooksBalance`, where the delete that undoes a
  check does not fail. `Books` has it for every check that no page is
  working on, and says of the page that is what its check still lacks.

`ChecksAreCovered` does not need to know what a sum is: the total is taken over
the rows that the update then marks, and `SameCredit` says that it depends on
those rows alone.

`Projects_proofs`:

* `AssignedAsNamed`: `TasksSpec => []AssignedAsAsked`. `AssignInv` says of every
  stage of a form how its page and the table agree (`FormAsAsked`): a page that
  names other people than the task has says so in its changes, so that the save
  gets to `deleteTask_Assignment`; and the page is kept until
  `setTask_Assignment` has put back what it names. The other tasks are never
  touched (`OthersAsAsked`), and a list never gets that far (`OnlyForms`).
* `ValidatedReachesRow`: `TasksSpec => ValidatedIsWritten`, and `TaskTypesHold` for the
  types. What makes it true is that a column which is not among the changes is
  the same in the object and in the row (`ObjectValidated`), although the one object
  goes over all rows of a list; `PageKept` and `OrderInv` are what that needs.
* `TimesFollow`: `BillingSpec => []TimeFollowsInvoice`, and `BillingTypesHold` for the
  types. For pages that are `current` there is one submission at a time
  (`Alone`), it writes to the times the status that its invoice has (`OfInvoice`),
  and the times of all other invoices agree with theirs throughout (`OthersAgree`).
* `ConsoleTypesHold`: `ConsoleSpec => []ConsoleTypeOK`, from the types of the four parts.

`Site_proofs`, from `MenuAssumption` and `MailAssumption`:

* `MessageIsNoCommand`: `MailSpec => []TextIsNoCommand`. While the connection is
  open, page and server agree on what comes next, and `MailInv` says how: by what
  is under way (`UnderWay`), what the page writes (`WritesAsExpected`) and what it is
  waiting for (`ReadsOneAnswer`). That the page goes on after a refusal is harmless
  because `QUIT` is then all it has left to write.
* `PlacesAreDistinct`: `MenusSpec => []NoAmbiguity`, and `MenuTypesHold` for the types.
  `Unambiguous` says for each statement of a request which places may
  coincide before it: `ShiftedApart` is what the update of `usupplemental` does to
  them, `SomeIsLargest` that a new last place is there to be had.
* `OthersKeepTheirOrder`: `MenusSpec => UntouchedKeepOrder`, with no restriction on what
  overlaps: each statement adds one number to all orders from some place on.
* `MovedItemsSwap`: `MenusSpec => []MoveSwaps`. A list sorted by place is characterised
  by where each entry stands in it (`InLine`: who is before whom has the smaller
  place), so nothing has to be said of how it is sorted. `MoveInv` follows a move
  through its statements (`OnItsWay`): which places the list asked for
  would have, and what `usupplemental` has still to add to them.
* `SelectionIsShown`: `MenusSpec => []SelectedIsShown`, for menus of any size
  and depth in which no level is left out. It is about the two functions, not about
  the steps: `WalkIsAbove` says that the walk up from the selected item is the
  items above it (`Tree`, `Above`); `OnPath` is the invariant of the emission, row
  by row: which of the calls of `emitRecursor` that are open have met their
  selected child, and what is shown so far (`ShownIfParentIsAbove`).
* `MailTypesHold`: `MailSpec`'s initial states and steps imply `[]MailTypeOK`, in which
  it takes `MailInv` to see that one answer comes for one command (`OneAnswerComes`).
  `SiteTypesHold`: `SiteSpec => []SiteTypeOK`.

What stays with TLC: `ChargeLeadsToOrder`, `MailEnds` and the fairness in
`PurchaseSpec`. Liveness under fairness is out of the prover's reach. Everything else
that a passing run checks is also stated by a theorem, under the conditions named above.

## What is not modelled

Within the modelled components: `CancelOrder()` of the cart, `uvalidate(void)`
of the payment setup and of the order, `preauth`, `postauth` and `credit`, and
the stock of the point of sale, all of which nothing calls; `Last_Access`; the
free text of a line and the texts of the pages; the mails after an order and
after an import; prices and totals; the address form of the checkout; more than
one payment service; uploads; attachments. ShoppingCart, PaymentSetup and
Checkout take the result of a statement as given; what the driver below it does
is in Drivers. A stored XML text is assumed to parse back to the list it was
emitted from (see the hazard on escaping).

The ODBC driver lacks a function that its base class asks for and cannot be
built; `audit_base.hpp` is included by nothing. Of the logins
(`userLogin.h`, `openLogin.h`), templates, reports, statistics and generators
nothing is modelled: they compute a page or a text from what is stored and add
no steps that could come between others. Most of the remaining pages are forms
over a single table, generated alike: what they do is FormPages over
TableAccess, with other columns. For these, and for copies of the same source
under `include/` and `intra/`, a module of their own would say nothing new,
which is why the share of the repository's lines that definitions name is small.

The other components are listed with the reason in `PROJECT.json`.

## Plan

What was planned to be proved is proved. To be modelled are left: the amounts of
an order against the sum of its items; escaping and parsing over small
alphabets; the dialogue of the IMAP client.
