# The shop's backend in TLA+

This directory is the verification project of the e-commerce backend (Express,
Sequelize on MySQL, Mongoose, Redis, BullMQ, Stripe, Socket.IO) under `src/src`.
It models the parts of it that keep shared state and are hard to test, checks
them with TLC on small instances, and proves the safety properties that matter
most with TLAPS for every value of the constants. Paths below are relative to
`src/src` of the repository.

- [How the code runs, and how it is modelled](#how-the-code-runs-and-how-it-is-modelled)
- [Inventory](#inventory)
- [The modules](#the-modules)
- [The runs](#the-runs)
- [What the runs found](#what-the-runs-found)
- [The proofs](#the-proofs)
- [What is assumed of libraries and services](#what-is-assumed-of-libraries-and-services)
- [Not modelled](#not-modelled)
- [Plan](#plan)

## How the code runs, and how it is modelled

One Node process serves HTTP requests and sockets, and runs the BullMQ workers
too (`server.ts` imports `workers/`; the router of subscriptions starts the worker
of replenishments). Inside a process only one handler runs at a time, and it runs
without interruption up to its next `await`. There any other handler may run, and
several processes may serve the same databases. Handlers take no locks, and apart from
`createOrder` and the listener of completed replenishment jobs none opens a
transaction. So the interesting behaviours are those where a row is read, other
calls are awaited, and the row is written.

Every module has the same shape for this:

- `Requests` are slots of handlers under way; `pc[r]` is the awaited call the
  handler in slot `r` makes next, and `arg[r]` what it knows of its input and of
  what it has read.
- One action is the code from one awaited call to the next. Reads that follow
  one another, and whose results are only used together, are one action; a read
  and the write that depends on it never are.
- A call that is refused before its first write changes nothing and is no step;
  it shows as a guard of the action that reads.
- `Abort(r)`, when `Faults`, ends a handler anywhere: an awaited call throws, or
  the process dies. What was written stays written, except inside a transaction.
- History variables (`reached`, `granted`, `spent`, `added`, `created`, `held`,
  `trials`, `owed`, `used`, `halfway`, `contacted`, `serves`, `wrote`, ...) record what
  happened, to state properties with; no guard of a handler reads those that
  the code has no counterpart of.
- One of them is in six of the modules: `alone` says that until now no two
  handlers have overlapped and, where failures are modelled by `Abort`, none has
  failed. Much of what this code promises it keeps only to users who come one at
  a time: those promises are stated as `alone => ...`, or as an action property
  of the steps that leave `alone` true. They are checked in the same run as the
  properties that hold however handlers interleave, over the same model, and it is
  visible at a glance which promise is of which kind.
- A listener or controller whose promise nobody catches ends the process, when
  it throws. `Die` is that: the databases keep what they have, sockets are lost,
  no other handler ends, and a job that was running stalls and runs again.

Operators that are introduced as *faulty* (`MayMarkWithoutProof`,
`PaySaveFromRow`, ...) are plausible mistakes in the code next to the definition
they would replace. No run uses them; each one, put in the place of its
original, breaks a property, which shows what the property is sensitive to.

## Inventory

| component | source | state | operations | modules |
|---|---|---|---|---|
| Order fulfilment | `services/Order.service.ts` | `orders` | createOrder, markOrder, rateDeliveredOrder | `Orders` |
| Refunds | `services/Payment.service.ts` 430-715 | `refund_requests`, `purchases`, Stripe's refunds | createRefundRequest, handleRefundRequest | `Orders` |
| Checkout | `services/Payment.service.ts` 1104-1241, `Order.service.ts` 31-114 | `customers.loyaltyPoints`, payment intents, `orders`, `purchases` | processPayment, createOrder, processPaymentAndCreateOrder | `Checkout` |
| Cart | `services/Cart.service.ts` | `cart_items`, `products.addToCartRate` | addItemToCart, removeItemFromCart, clearCart | `Checkout` |
| Replenishments | `services/subscription_service/{Scheduler,Worker.service}.ts` | `replenishments`, `replenishment_payments`, Redis hashes `orderData:*`, BullMQ's schedulers and jobs | create, update, toggle cancel, remove; processor, completed and failed listeners | `Replenishments` |
| Memberships | `services/subscription_service/index.ts`, `Payment.service.ts` 251-289, 717-1090 | `customers.membership`, Stripe's subscriptions and balances, `MembershipCancellationJobs` | subscribe, cancel, change price, accept price, cancellation job | `Memberships` |
| Accounts and tokens | `services/User.service.ts`, `middlewares/authentication/genericToken.ts` | `users`, `customers`, `carts`, Stripe's customers, `emailVerification:tokens`, `blacklisted:tokens` | verify, register, sign up, log in and out, reset, delete | `Accounts` |
| Sockets | `services/Chatting.service.ts` 50-88, 670-690, `socket/` | `userSockets`, `<user>:groups`, rooms of Socket.IO | connect, disconnect | `Sockets` |
| Groups | `services/Chatting.service.ts` | chatrooms, `user_chatrooms` | create, add, join, leave, delete | `GroupChat` |
| Support chat | `services/Chatting.service.ts`, `workers/support-agent-detachment.worker.ts` | agents' status, tickets, `supportTicketTimestamps`, `SupportAgentDetachmentJobs` | contactSupport, message, detachment, close, rate | `SupportChat` |
| Products | `services/Product.service.ts`, `workers/exclusive-product-removal.worker.ts` | products, categories, `ExclusiveProductRemovalJobs`, promotion sets | add, view, update, discount, delete, removal job | `Catalog` |
| Ratings and notifications | `services/Rating.service.ts`, `Notification.service.ts` | documents and rows | add, list, change, delete; mark as read, remove | `Ratings` |
| Shipping | `services/Shipping.service.ts` | countries, cities, rates | maintain them; weigh a cart; cost of an order | `Shipping` |
| Analytics | `services/Analytics.service.ts`, its controller | files of reports; reads the rest | six reports, seventeen figures, deletion of reports | `Analytics` |
| Controllers | `controllers/`, `services/Logging.service.ts` | answers | answer, then log the operation | `Requests` |
| Holiday promotion | `workers/holiday-promo.worker.ts` | `customers.loyaltyPoints` | give points | partly, in `Checkout` |

How they meet: the checkout (HTTP) calls payment, order and cart one after the
other; the replenishment worker calls the same `processPayment` and
`createOrder` for jobs the scheduler made; couriers, customers and agents change
an order's status through different services; the promotion and membership
workers write the customer's row that a checkout has read; reports count orders
that go on; groups and support sessions share the sockets. `completed` listeners
run after BullMQ has settled a job and are not retried. A handler of the catalogue, the
reports or the rates that throws after it has answered takes the process, and with
it the handlers of all the others, down.

What is hard, and what makes each component correct:

- **Orders and refunds.** Money moves before rows say so; three kinds of actors
  write `orders.status` from stale readings. Correct: no row claims money that
  did not move; a status is only reached after those it rests on; claims follow
  a proven delivery; sales figures lose rows to refunds only; refunds that moved
  are recorded in the end.
- **Checkout and cart.** The charge lies between the reading and the writing of
  the balance, outside any transaction; prices are collected by concurrent
  promises; two loops nobody awaits insert purchases. Correct: the balance stays
  within the customer's history; sales rest on orders and orders on charges;
  charges settle; a cart holds no more than was put into it.
- **Replenishments.** Three stores, retries, two listeners and the customer.
  Correct: an order is paid, a payment is counted, a charge becomes an order, a
  stopped replenishment stays stopped, a job's charges are bounded by its attempts.
- **Memberships.** Stripe, a column and a hash of delayed jobs, changed one call
  after the other by customers, administrators and the worker. Correct: no
  membership without a subscription ever made; one trial; the rest of a period paid
  back once, in whichever form; a job that takes a membership away is the one that
  confirming would remove; nobody stays at an old price whom the list of subscriptions names.
- **Accounts.** Four inserts and an external customer without a transaction; tokens
  looked up and spent in two calls. Correct: a token is used once, or by those who
  looked it up together; a customer can pay until the account's deletion has begun;
  an account is whole or absent.
- **Chat.** Three registries of who is where, of which two survive a crash, and jobs
  and tickets that interleave with a conversation. Correct: no contact is
  forgotten; an agent serves one customer; a job that releases an agent stands for an answer, and the customer's next message calls it off; sockets hear
  their groups and no others.
- **Catalogue, ratings, rates, reports.** A job in Redis stands for a date in a row;
  figures are put together from several reads. Correct: what is answered was done;
  reports miss no order but one that was set back; exclusive products go when their time has come.

## The modules

### Orders, with OrderLifecycle and OrderPromise

`Orders` is markOrder, rateDeliveredOrder (`Order.service.ts` 338-470),
createRefundRequest and handleRefundRequest (`Payment.service.ts` 471-535,
605-714) over the rows of one table each.

| code | model |
|---|---|
| `orders.status`, `safeShipping`, `courierId`, `proofOfDeliveryImageUrl`, `rating` | `status`, `safeShipping`, `courierId`, `proof`, `rated` |
| `refund_requests` | `refundRow`, a partial map from `Rows` |
| `purchases` of an order | `purchases`, with `recorded` the rows inserted so far |
| refunds on the order's payment intent | `refunded` |
| order.save() after the checks of markOrder | `MarkRead`, then `MarkSave` |
| createRefundRequest of a pending order | `RefundRead`, `RefundStripe`, `RefundUpdate` |
| createRefundRequest of a delivered one | `RefundRead`, `RefundFind`, `RefundInsert` |
| handleRefundRequest | `HandleRead`, `HandleStripe`, `HandleUpdate`, `HandlePurchases`, `DestroyPurchase`..., `HandleWrite`, `HandleEmail` |

The amount of a partial refund is counted in whole units of money; 0 stands for
a request without an amount (the code tests it for truth). A full refund
destroys purchase rows by promises that are not awaited, so the handler goes on
while `victims[r]` shrinks; the slot stays taken until they are done. A partial
one awaits them (`HandleDestroyed`). `RemovalCount` is the loop bound of line
685 rounded up, as `i < removalCount` does.

`OrderLifecycle` is what the guards say when read one handler at a time: each
status has its predecessors. It is refined by `Orders` while handlers come one at a
time, and *not* when they overlap: a courier who read `pending` overwrites a refund.
`OrderPromise` is what survives any interleaving: the set of statuses an order
has *had* grows only in a sensible order, and money statuses follow money. The
refinement mapping sends `milestones` to `reached`, `safe` to `safeShipping` and
`paidBack` to `refunded`.

`OrdersAlone` adds the history variable `alone` and states what is claimed of
handlers that run one at a time, among it the refinement of `OrderLifecycle` by
every step that leaves `alone` true. `Analytics` reuses `OrderLifecycle` as the
environment whose orders its reports count.

### Checkout

`Checkout` composes CartService, processPayment, createOrder and
processPaymentAndCreateOrder, with two other writers of the customer's row.

| code | model |
|---|---|
| `customers.loyaltyPoints`, `membership` | `points`, `membership` |
| what was ever given, what was ever taken off a charge | `granted`, `spent` |
| `cart_items.quantity` | `cart`, 0 for no row |
| `products.addToCartRate` | `addToCartRate` |
| payment intents, with the prices of the items | `bill`; item `l` has price `l` |
| the order of a payment intent | `order`: none, inserted in the transaction, committed |
| purchase rows per item | `sold` |
| processPayment | `PayRead`, `PriceLine` for each item in any order, `PayCharge`, `PaySave` |
| createOrder | `OrderCreate`, `OrderClear`, `OrderCommit`, or `Abort` and rollback |
| the loops of lines 1232-1240 | `RecordPurchase` |
| addItemToCart | `AddRead`, `AddCount`, `AddFind`, then `AddSave` or `AddRate` |
| removeItemFromCart, clearCart | `RemoveRead`, `RemoveSave` or `RemoveDestroy`; `ClearCart` |

Points are whole numbers here. The product total enters only through the points
it earns, and shipping only as a call that may throw before the charge.

### Replenishments

`Replenishments` is `Scheduler` (the customer's handlers, `pc`/`arg`), the
worker's processor (`job[j].state`) and its two listeners (`event[j]`), with the
part of BullMQ they rely on.

| code | model |
|---|---|
| `replenishments`: status, times, executions, nextJobId, lastPaymentDate | `row[n]`; `next` holds the job ids in the key, `paid` whether a date is set |
| rows of `replenishment_payments` | `payments[n]` |
| Redis hashes `orderData:<id>` | `orderData`, the set of keys |
| BullMQ's scheduler, jobs | `scheduler[n]`, `job[j]` |
| PaymentService.processPayment in the worker | `Charge`, then `Complete`, `FailAttempt` or `StallJob` |
| listener `completed`, in a transaction | `CompletedRead`, `CompletedDel`, `CompletedNext`, `CompletedStore`, `CompletedSave` |
| listener `failed`, first attempt only | `FailedRead`, `FailedDel`, `FailedSave` |
| createReplenishment | `CreateReplenishment`, then `Upsert`, `Store`, `SaveReplenishment` |
| updateReplenishment | `UpdateReplenishment`, `Count`, `Upsert`, `Del`, `Store`, `SaveReplenishment` |
| toggleCancelStatusOnReplenishment | `CancelReplenishment`, `Unschedule`, `SaveReplenishment`; or `ResumeReplenishment`, `Load`, `Upsert`, `Del`, `Store`, `SaveReplenishment` |
| removeReplenishment | `RemoveReplenishment`, `Unschedule`, `Del`, `Destroy` |

`After` is the order of calls of each method. `Saved` writes only the columns in
which the saved instance differs from what was read, onto the row as it is by
then: this is how a listener that read `scheduled` undoes a cancellation by
writing `active`, while one that read `active` does not. `Save` adds the
payment row of the `beforeUpdate` hook, which fires on every update of a
replenishment that was ever paid. The hook's rows are therefore an upper bound
of the executions, not their count, and `updateReplenishment` counts them.

Dates are abstracted: `begun[n]` says whether the starting date has passed, and
the listener chooses whether the end date is near (`Expiries`). The purchase
rows of a replenishment's order are left out here; `Checkout` has them.

### Memberships

`Memberships` is SubscriptionService and the methods of PaymentService it calls.

| code | model |
|---|---|
| `customers.membership` | `membership` |
| the price in a membership's document, and prices made at Stripe | `price`, `priced` |
| Stripe's subscriptions, customer balances and refunds | `sub`, `credit`, `refund` |
| `MembershipCancellationJobs`, and its queue | `entry`, `job` |
| createMembershipSubscription | `SubscribeRead`, `SubscribeList`, `SubscribeCancel`, `SubscribeFinalize`, `SubscribeCreate`, `SubscribeSave` |
| cancelMembershipSubscription, with its refund | `CancelRead`, `CancelStripe`, `CancelInvoice`, `CancelFinalize`, `CancelRetrieve`, `CancelBalance`, `CancelSave` |
| changeMembershipPrice | `PriceRead`, `PriceList`, `PriceCancel` for each subscription, `PriceUpdate`, then `PriceCreate` (cheaper) or `PriceCheck`, `PriceAdd`, `PriceStore` (dearer), for each customer of the first page, and `PriceSave` |
| Stripe's page of ten subscriptions, newest first | `Page` |
| subscribeToNewMembershipPrice | `ConfirmRead`, `ConfirmDel`, `ConfirmRemove`, `ConfirmCreate` |
| cancelMembership, called by the worker | `JobRead`, `JobSave`, `JobFail` |
| the end of a period at Stripe | `PeriodEnds` |

A price is a number that counts the changes; `Prorated` is what is left of a period,
and `Charges` what the latest invoice may have charged of it, so that a refund to the
card covers all, a part or nothing and the balance must take the rest. `Newest`
depends on the order of the ids, which Stripe lists newest first.

### Accounts

| code | model |
|---|---|
| rows of `users`, `customers`, `carts` of a username | `row`, `customer`, `cart` |
| Stripe's customers | `stripe` |
| `emailVerification:tokens` | `latest` |
| `blacklisted:tokens`, a sorted set with scores | `banned`, 0 for no entry |
| a signed token | its content and its second: `[kind, user, at]` |
| verifyUserEmail | `VerifyFind`, `VerifyLast`, `VerifyBan`, `VerifyIssue`, `Mail` |
| requestPasswordReset | `ResetRequest`, `Mail` |
| authenticateGenericToken | `TokenPurge`, `TokenScore`, `TokenAdd` |
| resetPassword, registerCustomer | `ResetFind`, `Register` |
| signUpCustomer, and the hooks of the model | `SignUpFind`, `SignUpStripe`, `SignUpUser`, `SignUpCustomer`, `SignUpCart` |
| loginUser, logoutUser, and the stream to administrators | `LoginFind` or `LogoutFind`, `SessionSave`, `StreamCount`, `StreamEmit` |
| deleteUser | `DeleteFind`, `DeleteStripe`, `DeleteDestroy` |

Two tokens of the same content and second *are one string*, as for jwt.sign: a link
that is asked for twice within a second is mailed twice and banned by the second
request. Time is a number of seconds; a clock may tick anywhere.

### Sockets, GroupChat, SupportChat

`Sockets` has connections and the process; `GroupChat` extends it with groups, and
`SupportChat` extends that with sessions.

| code | model |
|---|---|
| `userSockets` | `registry` |
| `<user>:groups` | `groupsOf` |
| sockets, and the rooms they joined | `open`, `joined` |
| `user_chatrooms` | `memberOf` |
| clients that were told of a group, or of its end | `told`, `dropped` |
| `support_agents.status`, chatrooms, tickets | `agent`, `room`, `tickets` |
| `supportTicketTimestamps` | `stamped` |
| `SupportAgentDetachmentJobs`, and its queue | `entry`, `job`, `jobFor` |
| connection, and its init | `Connect`, `InitSet`, `InitGroups` |
| disconnect | `Disconnect`, `ByeDelete` |
| createGroup, addMemberToGroup, joinUserToGroup, groupLeave, deleteGroup | `Create`..., `Add`..., `Join`, `Leave`..., `Delete`... |
| kickGroupMember and updateGroupName | `AdminOnly`: they compare with `groupAdmin`, which is never written, and throw |
| contactSupport | `ContactFind`, `ContactBusy`, `ContactRoom`, `ContactLog`, `ContactStamp` |
| message of an agent | `ReplyBegin`, `ReplyMessage`, `ReplyStamp`, `ReplyTicket`, `ReplyUnstamp`, `ReplyPending`, `ReplyAdd`, `ReplyRecord` |
| message of a customer | `SayBegin`, `SayMessage`, `SayEntry`, `SayUnrecord`, `SayRemove` |
| the detachment worker | `JobFind`, `JobSave`, `DetachUpdate`, `DetachLog` |
| markSupportTicketAsClosed, rateSupportSession | `CloseFind`, `CloseSave`; `RateFind`, `RateSave` |

### Requests, Catalog, Ratings, Shipping, Analytics, Shop

`Requests` is what controllers share: a handler begins, answers, and, when an
administrator called it, logs the operation *after* it has answered (`LogOperation`);
if that fails, the catch clause answers again, which throws (`AnswerTwice`), and the
process dies. The four modules that extend it each have their tables and one action
per awaited call; `Shop` composes them, with one set of slots, and says what leaves
`alone` true.

- `Catalog`: every method of ProductService that writes, the removal jobs, the sets
  of products whose e-mail is to be sent. `AddProductJob` and
  `AddProductRecord` are the calls between a product's date, its job and the
  job's entry; `Removal`... the worker. Moments are numbers, and `Tick` the clock.
  `updateProductById` has a branch that moves or removes the job, which no request
  reaches: the route's validation lets no `availableDue` through. It is not modelled.
- `Ratings`: ratings of products and of the platform, and notifications. A request about
  notifications names one, asks for all, or, with an id that is zero or no number, does
  nothing and is answered as if it had (`NoticeNone`).
- `Shipping`: countries and cities, the four rates, `WeightCategory` as a function of
  the weight, and `Calculate`, `CostCountry`, `CostSafe`, `CostWeight`, which
  put the cost together.
- `Analytics`: every report and figure is the sequence of its queries; what it has
  counted so far is in `arg[r]` (`whole`, `part`, `sold`, `shared` are the figures of
  one answer that should agree). Orders are placed, move and are refunded
  meanwhile by `OrderPlaced`, `OrderMoved`, `OrderRefunded`, which follow
  `OrderLifecycle`; `OrderOverwritten` is the save of a handler that had decided on an
  older status, and may move an order back (`Orders` shows how). The history variable
  `overwritten[r]` is the orders this happened to since the report of `r` counted them all.
  `IsPage` is the page of categories a sales report asks for. A report's file is written by a
  stream, deleted by name or type.

### Properties, instances, proofs

Each component has a module of properties (`OrdersProperties`, ...), which also
holds the inductive invariant where there is a proof, an MC module with the small sets
for TLC, and a module of proofs; the four of `Shop` share theirs.

## The runs

| run | instance | distinct states | shows |
|---|---|---|---|
| `orders_interleaved` | 1 order, 2 handlers, 2 requests, 2 purchase rows, faults | 870 000 | `RefundStatusBacked`, `ApprovedRowsBacked`, `ClaimsFollowDelivery`, `PurchasesLostToRefunds`, refinement of `OrderPromise`; while `alone`: `OneRowPerOrder`, `LedgerAgrees`, refinement of `OrderLifecycle` |
| `orders_fair` | 2 handlers, 1 request, no faults, fairness | 123 000 | `RefundsAreRecorded`, `ApprovalsSettle` |
| `checkout_interleaved` | 1 customer, 2 handlers, 2 payment intents, 3 products, a limit of 1 row, faults | 1 357 000 | `PointsWithinHistory`, `PointsNeverNegative`, `SalesAreCharged`, `CartNotInflated`, `CartOverflowBounded` |
| `checkout_one_by_one` | 1 handler, 2 charges of 2 items, no faults, fairness | 62 000 | `LedgerExact`, `ChargesSettle` |
| `replenishments_interleaved` | 1 replenishment, 2 jobs, 2 attempts, 1 customer's handler, faults, stalls | 3 461 000 | `OrdersArePaid`, `PaymentsCovered`, `ChargedPerAttempt` |
| `replenishments_fair` | the same without faults, with fairness | 576 000 | `StoppedStays`, `ChargesBecomeOrders` |
| `memberships_interleaved` | 2 customers, 1 type, 2 handlers, 3 subscriptions, 2 changes of price, 2 jobs, a page of 1, faults | 2 416 000 | `MembershipBacked`; while `alone`: `TrialOnce`, `PaidBackOnce`, `JobsCanBeConfirmed`, `NoneAtAnOldPrice` |
| `accounts_interleaved` | 1 user, 2 handlers, 2 Stripe customers, tokens of 2 seconds, faults | 826 000 | `TokensAreSpent`, `CustomersCanPay`; while `alone`: `InOrder` |
| `chat_scenes` | 2 customers, 1 agent, 2 handlers, 1 group, 2 chatrooms, 2 jobs, 1 crash | 586 000 | `NothingIsForgotten`; while `alone`: `InOrder` |
| `shop_scenes` | 2 handlers, 2 products, 1 rating, 2 countries, 1 order, 1 crash | 655 000 | `AnswersAreTrue`, `FiguresAreSound`; while `alone`: `InOrder` |
| `checkout_prices`, `replenishments_finished` | | | the findings below |

**Bounds, and why they are enough.** All handlers of `Orders` are about one order, and
nothing relates two, so one order is enough. Two slots give every race between a reading
and a writing of two handlers; a third adds only repetitions of the same overwrite. Two
purchase rows tell a full from a partial removal, and the partial amounts 2 and 3 of a
total of 5 let two partial refunds fit or not. One customer is enough for `Checkout`,
where customers share only `addToCartRate` (a counter per product, raced by two slots)
and the promotion. The constraint `PointsOrCarts` of `checkout_interleaved` lets points
change (two checkouts, a promotion, a change of membership) while no cart is used, or
carts beside one checkout without points: the handlers of the one touch none of the
other's variables but for the clearing of the cart, which is in. A limit of one row and
three products make the limit overflow by a handler and tell the bound from a larger
one. `Welcome` = 100, one spend of 100 and 30 points for a checkout make balances of
different histories differ. In `Replenishments` two jobs and two attempts give a retry
beside a next job; `Times` = 2 reaches `finished`; the worker dies amid a job (`Stalls`)
as long as it is the only one taken (`NoStallsOrOneTaken`); `PaymentRows` stops the
customer (not the worker) after so many payments, and a scheduler without a limit makes
as many jobs as there are ids. With one customer's handler at a time every race there is
between the customer, the worker and its two listeners.

In `Memberships`, once handlers have overlapped or failed there are one customer, two
subscriptions and one job (`AloneOrOneOfEach`). Two subscriptions are a canceled and a
new one, which is what a trial and a proration depend on; one change of price, up or
down, beside another handler and the job gives each pair of handlers. Handlers that come
one at a time without failing have what `NoneAtAnOldPrice` needs: two customers, so that
one is on the page (`Page` = 1) and one is behind it, and two changes, so that the
second finds what the first has left. `Prorated` = 2 and a charge of 1 split a refund
between card and balance, the case where the four calls must add up. In `Accounts` one
user is enough because the rows of users, and tokens, are never compared across users;
two slots and two Stripe customers let sign-ups and deletions of one account meet.
`Life` = 1 lets a token expire and its entry be purged. `BoundedSpec` keeps overlapping
handlers to behaviours in which only one token has been mailed, and the second Stripe
customer to those without tokens: tokens and Stripe customers meet in no handler. In the
chat, groups and sessions share the sockets only, so a behaviour is a scene of one of
them; a second customer comes to sessions that are alone, where the question is whether
*one* agent serves him too. `Bounded` of `MCChat` says what there is less of once
handlers have overlapped or the process has died. The four components of `Shop` share
the slots, the crash and `alone`, so a behaviour is a scene of one of them;
`CatalogBounded`, `ShippingBounded` and `AnalyticsBounded` divide a scene into stories
(views, names, removal; maintaining rates or quoting them; orders that go on or files)
whose handlers touch different columns. After an overwritten status, sales reports are
what is still read: nothing is claimed of the others while orders go on. `CategoryPage`
= 1 (the code asks for 50) and two items of two categories let the page be too small.
Bounds of the models that the code does not have are named in the modules: `Promotions`,
`Additions`, `PaymentRows`, `Subscriptions`, `PriceChanges`, `End`, `Links`, `Tickets`,
`Connects`, `Deaths`, `Horizon`, `MaxViews`, `MaxRate` and the sets of ids.

**Deadlock.** All configurations but those of Checkout say `CHECK_DEADLOCK FALSE`:
an order that is refunded, a replenishment that is removed, a membership whose
subscriptions are used up, or a process that has died has no life left and the
instance holds no other. Carts and memberships can always change, so Checkout is
checked.

**Symmetry** is used where only safety is checked, over slots, rows, payment
intents, products, jobs and rooms; none of them is compared or ordered.

**Fairness** is weak fairness of the continuation of each handler, of the
promises nobody awaits, and of the worker and its listeners: Node resumes a
handler whose call has answered, calls are queries and HTTP requests that answer
or time out, and BullMQ hands out jobs that are due. Nothing is assumed of
customers, couriers or agents, nor of dates. The fair runs have `Faults = FALSE`:
a process that dies loses what it was doing, and no property could hold
eventually. Cards may still be declined, and Stripe may still refuse. Where a
liveness property asks for the outcome of *several* steps, each of them is
enabled until it is taken, so weak fairness is enough.

## What the runs found

- **Prices go to the wrong items** (`checkout_prices`). The promises of
  processPayment share `itemIndex`, so a price goes to the item whose turn it is.
  The sum is right; the purchase rows, and the analytics over them, are not.
- **A finished replenishment charges** (`replenishments_finished`). Resuming passes
  all of `times` as the limit of a scheduler that counts anew, and finishing does
  not remove the scheduler.

Five more configurations each refute one property, which a reader can run by hand:

- `MCOrdersNoProof.cfg` (module `MCOrders`, `CanBeDelivered`): a delivery cannot be
  recorded. markOrder requires `deliveryImageUrl`; both controllers call it without.
- `MCCheckoutSpent.cfg` (`MCCheckout`, `PointsSpentOnce`): points are spent twice by
  two checkouts under way at once, which both checked the same balance.
- `MCMembershipsUnpaid.cfg` (`MCMemberships`, `UnpaidMembershipsEnd`): the cancellation
  job leaves its entry in `MembershipCancellationJobs`, so the *next* rise of the price
  cancels the customer's subscription but schedules no job: "the customer's membership
  is canceled after the end of the period" (`services/subscription_service/index.ts`)
  does not happen, and the membership goes on unpaid.
- `MCChatCut.cfg` (`MCChat`, `TalksAreNotCut`): the job that an agent's answer leaves behind is
  the agent's, not the talk's. An agent who has answered one customer, has become available and
  is given the next is released by the old job amid the new talk.
- `MCShopReports.cfg` (`MCShop`, `ReportsAreMade`): the route lets `customer_purchases` and
  `customer_orders` through, the controller knows `customer-purchases` and
  `customer-orders`. The answer is 201, "Report generated successfully", without a report.

Behaviours of the code the passing runs contain, and which bound what can be
claimed (a stronger property fails on them):

- Two handlers may leave an order `shipped` that was refunded, and the verdict on
  a request may be overwritten by a second agent's; `RefundsAreRecorded` speaks of
  statuses reached for that reason, and `ApprovedRowsBacked` of the row as it is.
- Two requests of a customer may insert two refund rows for an order, and a
  partial refund may then be paid twice.
- The last removal of a partial refund destroys the *unrefunded* share of the rows:
  removalCount is `(1 - amount/total) * count`.
- A failure between the charge and the commit leaves a charge without an order.
  A replenishment's attempt that fails *after* its charge charges again when it is
  retried, and so does one that stalls: that a customer is charged once for a job is not
  claimed, only what `ChargedPerAttempt` says.
- A retry that waits when its replenishment is canceled is still carried out.
- A cancellation may be overwritten with `active` by a listener that had read
  `scheduled`, which leaves an active row without a scheduler: `StoppedStays` says
  that the jobs are gone, not that the row says so for ever.

- Two sign-ups of one username both reach Stripe; the loser's customer at Stripe stays.
  A deletion that fails after Stripe has deleted the customer cannot be repeated, since
  Stripe then refuses: `CustomersCanPay` excepts users whose deletion has begun.
- The same link asked for twice in a second is one token, and is banned by being replaced
  by itself: `LatestLinksWork` speaks of links that were mailed once.
- Who stands behind Stripe's first page of ten stays at the old price when a price changes:
  nobody asks for the next page. `NoneAtAnOldPrice` names those it does not speak of.
- A cancellation job takes away the membership that was there when it ran, whatever the
  customer has bought since: the converse of `MembershipBacked`, that who pays has the
  membership, fails when a job overlaps with a subscription.
- Two customers who contact support at once get the same agent. Whoever reconnects before
  the first socket's disconnect is handled loses the entry of the new one:
  `UsersAreFound` and `GroupsAgree` except users who had two sockets at once. An entry of
  `SupportAgentDetachmentJobs` outlives its job, and no job is added while there is one:
  that an agent becomes available again is therefore not claimed.
- A sales report counts orders first and then one status after the other: an order that
  moves on meanwhile is counted twice, but none is missed, because it reads pending,
  shipped, awaiting-pickup, delivered, refunded, partially-refunded, uncollected: an order
  moves forward in that sequence, and those it may end in come last. The exception is an order
  whose status is overwritten by a handler that decided on an older one: refunded when
  shipped orders are read, and shipped again when refunded ones are, it is missed.
  `FigureIsSound` lets a report miss as many orders as were overwritten while it read.
- A sales report lists one page of 50 categories and drops the rest, so that the revenue by
  category may be less than that of all purchases: `FigureIsExact` has both cases.
- A request to mark or delete a notification by an id that is zero or no number is answered
  200 or 204, and nothing is done; `AnswersAreTrue` names it as an exception, as it does
  reports of an unknown type.
- Products and categories may be renamed to names that are taken, and findOrCreate of a
  category has no unique index to rest on: `ProductsAreFound` says so.
- Two views at once count as one; `ViewsCount` is claimed of views that come one at a time.

## The proofs

Each module of proofs extends the component's properties and TLAPS and has the
same argument: `Init => IInv`, `IInv /\ [Next]_vars => IInv'` with one lemma per
action or part of the invariant, `IInv => Inv`, and a theorem per property. TLC had
checked each `IInv`.

- **OrdersProofs**. `IInv` is `TypeOK` with what handlers *remember*:
  `RefundStatusBacked` is not inductive, because `RefundUpdate` writes a status on
  the strength of a refund made two steps ago. `HandlersHavePaid` carries the money
  from Stripe to the rows, `MilestonesOf` orders the statuses reached,
  `HandlersKnowTheirRow` ties an agent's handler to its request, `SalesAreSound`
  ties destroyed rows to handlers past their update. Proved: `TypeOK`,
  `RefundStatusBacked`, `ApprovedRowsBacked`, `ClaimsFollowDelivery`,
  `PurchasesLostToRefunds`, and `KeepsPromise`: every step is a step of
  `OrderPromise` or a stutter, for any number of orders, handlers, rows and couriers.
- **OrdersAloneProofs**. While `alone`, at most one handler is under way (`Solitude`), so
  what it has read still holds when it writes (`ReadingsHold`), a status and the money it
  speaks of are one call of this handler apart (`MoneyAgrees`), and a second request finds
  the row of the first (`RowsAgree`). Proved: `OneRowPerOrder`, `LedgerAgrees` and
  `FollowsLifecycle`, for any number of orders, and slots and rows finite in number.
- **CheckoutProofs**. `PointsNeverNegative` needs that a handler's reading covers
  what it takes off (`PayersRemember`), and the bounds of `PointsWithinHistory`
  that its reading lay within the history, which only grows. `SalesAreCharged`
  needs that a charge is in the hands of at most one handler (`ChargesInHand`).
  `CartersRemember` does for carts what `PayersRemember` does for points. For
  `CartOverflowBounded` the rows of a cart *and* the handlers past the check are counted
  (`RowsAreCounted`): together they are at most the limit and the slots but one, since
  whoever passes the check is not yet among those who have. `LedgerExact` holds of one
  handler at a time without failures or promotions (`OneByOne`), which owes what it has not yet taken off
  (`BooksBalance`). Proved: `TypeOK`, all of the above, `CartNotInflated`, and
  `RateNotInflated`, which says of `addToCartRate` what `CartNotInflated` says of carts.
- **ReplenishmentProofs**. `JobSound` is the life of a job: charges are counted by
  attempts, and only a completed job has a listener that may commit its order.
  `ListenersRemember` says that a listener adds one to a count that the payments
  covered. Proved: `TypeOK`, `OrdersArePaid`, `PaymentsCovered` (by the cardinality
  of the orders, which grows by at most one with a payment), and `ChargedPerAttempt`: an
  attempt that fails or stalls after the charge is made again, so a job may charge more than
  once, but no more often than its attempts and stalls are counted. Where nothing fails and
  the customer's handlers come one at a time, `StopInv` proves `StoppedStays`: a listener changes no
  status *to* a stopped one, since it saves only what differs from what it read
  (`ListenersStopNothing`); a handler that cancels or removes has unscheduled before it
  writes (`HandlersMind`), and nothing but the customer's own upsert makes a scheduler or a
  delayed job where there is none (`CalmKept`); a resumption schedules first and is the one
  state in which a stopped row has jobs (`StoppedAreCalm`).
- **MembershipProofs**. The invariant has two halves. `Started` holds however handlers
  overlap: the types, what each handler knows of its customer and of Stripe's answers
  (`HandlersKnow`), that subscriptions and jobs once made keep their owner (`Lasting` of
  the proof), and `MembershipBacked`. The others speak of `alone`: `Solitude` says that
  then at most one handler or job has begun, so that the facts about a handler under way
  become facts about *the* handler. What it still owes is `Due` in `MoneyBalances` (a
  proration that was invoiced and not credited, a refund that was made and not taken off
  the balance), a trial to be given in `TrialsCounted`, a job that was added and not
  entered in `JobsAreEntered`, and the subscriptions at a replaced price that are left to
  cancel in `PricesAreReplaced`, where those behind the page are told apart by the page of
  newer ones before them (`PageAhead`), which only grows while they last. Each of the four is proved for the handler that steps,
  and carried over from before for the others, of which there are none. A list
  of subscriptions has a newest one because inclusion of finite sets is well-founded
  (`Largest`): the library's induction cannot be used, its theorem cited can. Proved: all
  properties of both runs.
- **AccountProofs**. `CustomersCanPay` rests on each Stripe customer being held by one: a
  sign-up until its row is inserted (`SignUpsPay`), then the row (`CustomersDiffer`); a
  deletion may still hold one whose row is gone (`DeletionsOwn`). `TokensAreSpent` counts:
  while a token has not expired, the handlers that have looked it up and the uses there
  were are together no more than the slots (`TokensAreKept`), since after the first use
  nobody else passes: its entry in the blacklist lasts at least as long as the token.
  `InOrder` speaks of the time between two handlers, while they come one at a time, and
  says nothing of a handler under way, so it is far from inductive. `OrderInv` says at
  every step `s` of the one handler what that step leaves open (`Orderly`): which account
  may be half made, which Stripe customer has no row yet, which link is not mailed yet or
  was just replaced, and whether administrators have yet to be told; and what its later
  steps rely on. With `"idle"` for `s` nothing is open, which is `InOrder`.
  Proved: `TypeOK`, `TokensAreSpent`, `CustomersCanPay`, `InOrder`.
- **ChatProofs**. What the code writes first makes up for what it may not come to write:
  a user's set of groups is written before the member's row, so a handler about to insert
  the row knows that the set has the group, unless the user left or the process died since
  (`Found`); and a reply that deletes the time of a contact has made its ticket before
  (`Knows`). The least ticket of a room exists because inclusion of finite sets is
  well-founded. For `InOrder`, `OrderInv` is again indexed by the step the one handler is
  before. Its half `Linked` is of sockets and groups: a user with one socket has none while
  it comes or goes (`FoundWith`), and a socket hears a group that its user does not have,
  or the reverse, only between the two writes of the handler that changes both, or for
  as long as its client has been told and not come back (`AgreeWith`). `Served` is
  of sessions: a room has a time or one ticket but between `ReplyTicket` and `ReplyUnstamp`
  (`TicketsWith`), an agent who is available serves nobody (`Serving`), and a delayed job
  is the one in its agent's entry, and its agent has answered a customer who has not spoken
  since, but for the calls
  between a job and its entry and between a customer's word and the removal (`JobsWith`).
  A job may run, and a client join, only while no handler is under way (`Solitude`, which
  is where the slots and jobs have to be finite in number).
  Proved: `TypeOK` and `NothingIsForgotten`, whatever overlaps and however often the
  process dies, and `InOrder`.
- **ShopProofs**. `IInv` is the types with, for each slot, what its handler has read and
  what its answer says of what it wrote (`Slots`), and that a job in the queue is about a
  product that was made (`JobsAreOfProducts`). `FiguresInv` is about
  handlers that add up: `SoundSlot` says that what a sales report has counted so far, the
  orders in the statuses it has yet to read and those overwritten since are together no
  fewer than it started with. A move of `OrderLifecycle` does not break it, since it goes to a
  status that is read later, nor an overwritten status, since its order is then among the
  overwritten ones. `ExactSlot` and `CostSlot` say what each figure is while its handler is
  alone, and `NoticesGone` that notifications that were all deleted are gone until somebody
  else acts. `AnswersAreTrue` follows from `Slots` and `NoticesGone`.
  `TidyInv` is about the catalogue while handlers and jobs run one at a time: a product's
  date, its job and the job's entry agree (`Settled`) for all products but the one that a
  handler has in hand, and all jobs but the one it has just made;
  `KnowsJob` and `KnowsRows` say what it knows of these. Proved: all properties of the run,
  for any number of products, categories, jobs, moments, ratings, countries and orders.

Assumptions are the `ASSUME`s of the modules: `None` is no id, sums are natural
numbers, sets of choices are subsets of what the code accepts, and the sets whose
members are counted are finite. The fault switch and all bounds are arbitrary in the
proofs, but for the two theorems that say otherwise in their statements: `LedgerKept`
and `StopsStay` of one handler at a time without failures (`OneByOne`).

Every invariant and every action property that a passing run checks is stated by a
theorem. Only model-checked are the four liveness properties (`RefundsAreRecorded`,
`ApprovalsSettle`, `ChargesSettle`, `ChargesBecomeOrders`), which are out of this
prover's reach together with `ENABLED`.

## What is assumed of libraries and services

- **Stripe** returns never more than the charge and, without an amount, what is
  left of it; a charge is made or refused.
- **Sequelize**: `instance.save` and `instance.update` write the columns that were
  assigned, `undefined` is ignored; `findOrCreate` selects, then inserts, and finds
  the other's row only where a unique key makes the insert fail (cart items have
  one, refund requests do not). `cart.removeProducts()` is called without the
  argument it needs; the models allow both that it removes everything, as its
  callers mean, and that it removes nothing. An update of a row that is gone
  changes nothing; a soft-deleted row is not found.
- **MySQL** at repeatable read: the listener's transaction reads the row as of its
  first query, and writes it as it is.
- **BullMQ** 5: a scheduler has at most one delayed job; the next is made when one
  is taken, while the limit lasts; an upsert replaces the delayed job and counts
  anew; removing a scheduler withdraws its delayed job but no job that was taken or
  waits to be retried; a limit below one makes no job; a listener ends before the
  backoff of five seconds does. A job whose worker died is found stalled and runs again,
  once (`maxStalledCount` is left at 1), which counts as no attempt; the second time it
  has failed.
- Points and amounts are whole numbers: the column is an integer, and MySQL rounds
  what is written to it; no property is about cents.

- **Sequelize**, further: `findOrCreate` of a model without a unique key is a select and an
  insert; `hooks` run in the caller's call, one query after the other.
- **MongoDB**: a call on one document is atomic.
- **Redis**: a command is atomic; a pipeline is sent as one, and another client's commands
  may come between its commands only where the code awaits.
- **Stripe**, further: `cancel` with `prorate` and `invoice_now` makes an invoice of what is
  left, which credits the balance when it is finalized; a deleted customer cannot be
  deleted again; subscriptions are listed newest first, without those that have ended, and by pages of ten
  unless the call asks for more, which none does.
- **jsonwebtoken**: tokens are equal when content and second are; an expired one is refused.
- **Socket.IO**: `join` and `emit` to a socket that is gone do nothing; the
  chat client joins the groups it is told of, and leaves those it is told were deleted
  (`socket/` and `Chatting.service.ts` emit for such a client; it is not in the repository).
- **Node**: an unhandled rejection ends the process, which is its default and what
  `server.ts` leaves in force.

## Not modelled

- `services/Payment.service.ts` 96-250, 300-440, 546-603 and 891-920: payment methods,
  payment intents by themselves, lists of refund requests and coupons are queries, or
  calls forwarded to Stripe, with no state of the shop's. (Stripe's customers, 78-95, are
  part of `Accounts`.)
- Chat messages once they exist (`viewMessage`, `updateMessage`, `removeMessage`,
  `groupMessage`, `typing`): each is one row that one user changes, and a broadcast.
- `changePassword`, `updateUser` and the staff's accounts: one row each. Access and refresh
  tokens keep no state.
- Schedulers without a limit (birthdays, holidays): their ids are made of dates, which the
  models abstract. `deleteUser` removes a birthday scheduler by another id than it was
  added by (`User.service.ts` 642), which no model would show better than the two lines.
  A holiday job that is retried gives its points again (`workers/holiday-promo.worker.ts`).
- Platform data (whole documents), generated texts and e-mails (calls to services outside),
  routing, validation and rate limits. Validation is what the inputs of the models passed.
- Wrong queries, that fail or miscount on their own without another actor: a model would
  restate the query. Met on the way: `Product.findAll` with a column `imageUrl` that does
  not exist when a promotion's threshold is reached (`Product.service.ts` 172), a cart
  included without its alias when its weight is taken (`Shipping.service.ts` 274), figures
  of one customer that count everybody's purchases, a sum of no rows that is null.
- The purchase rows of a replenishment's order (`Worker.service.ts` 120) are inserted outside the
  order's transaction; `Checkout` has the same two loops, which stand for both.

## Plan

Done: every component of the inventory, with the properties above, and proofs of all their
safety properties.

What would come next, in this order:

1. Abstract specifications of the memberships and of the chat's sessions, as `OrderPromise`
   is one of the orders, and the steps of the handlers shown to implement them.
2. The safety half of the liveness properties: what each step still to come rests on, which
   leaves to TLC only that it is taken.
3. Liveness of the chat (an agent becomes available again) once the entry of a job that has
   run is removed by it; today it is not, and the property fails.
