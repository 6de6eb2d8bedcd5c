# A verification project for the gold-price bot

The repository is a NestJS process that fetches gold, coin and currency prices,
checks them, publishes them to channels, and lets users of two messenger
platforms set price alerts, invite friends, leave sales requests and so on. It
runs as one Node process; every component keeps its state in memory and in one
JSON file. There is no database and there are no threads: all concurrency is
interleaving at `await`, and all recovery is what the files say after a restart.

Paths below are relative to `src/src/`.

## 1. Inventory

| Component | State it keeps | Operations | Talks to |
|---|---|---|---|
| **File-backed documents** `alerts/alert.store.ts` and its siblings (campaign, publication, sales; with differences: user, admin, monitoring, market state) | maps in memory, one file, a promise chain (`writeChain`), `loaded` | `load`, `ensureLoaded`, `transact(operation)`, `writeFile` | every service |
| **Alerts** `alerts/` | alerts (ACTIVE, DISABLED, TRIGGERED, DELETED), deliveries (PENDING, SENT, FAILED) | create, edit, enable, disable, remove; evaluate a committed price; reserve a trigger; deliver with retries; recover after a restart | market (listener), referrals (capacity), platform adapters |
| **Market** `market/` | per symbol: current, previous and last valid price, daily window; day key | `evaluateCycle`: parse, normalise, judge, commit, persist, report anomalies, notify listeners | price service, alerts, channel |
| **Users and favourites** `users/` | users, favourites, referral codes, referrals, reward ledger | upsert, touch, add and remove a favourite, `transact` | bot, referrals |
| **Referrals** `referrals/` | (in the user document) referral PENDING/SUCCESSFUL, rewards PENDING/GRANTED | register, qualify, grant, retry | alerts (capacity) |
| **Channel** `channel/` | publication jobs (PENDING, PUBLISHING, PUBLISHED, FAILED, SKIPPED), deliveries per destination, events, content items | create if absent, claim, decide, deliver, finish, recover, prune; content draft, approve, schedule, cancel, reopen | market, intelligence, adapters |
| **Sales** `sales/` | leads with a status graph, history, sales, notification outbox | submit (idempotent by key), assign, contact, change status, convert, record a sale, repair links | campaigns, adapters |
| **Campaigns** `campaigns/` | campaigns with a status graph, clicks, touches, conversions | create, change status, record a click, register a conversion, attribute | sales, users |
| **Admin** `admin/` | audit, incidents, daily activity, broadcast jobs and recipients | record and resolve incidents, prepare, confirm, cancel, retry and send a broadcast | adapters, monitoring |
| **Monitoring** `monitoring/` | watches with incident generations, job runs, notification queue | record success and failure, sweep, dispatch | admin (incidents), adapters |
| **Scheduling** `bot/bot.service.ts` | none | three cron jobs that run the same cycle | market, channel, monitoring |
| **Inbound updates** `platform/` | offset per platform | poll, handle one update after the other | bot conversation |
| **Bot conversation** `bot/ux`, `bot/admin`, `bot/sales`, ... | wizards, forms, drafts and questions in memory | menus, texts and callbacks | everything above |
| Intelligence, configuration, formats, money and calendar, demo, posters | none | pure functions, I/O | |

How they interact: a cron job runs a market cycle; the accepted prices are
committed, the file is written, and the listeners are awaited (the alert
engine); then the channel publishes. Independently each platform's poller
handles one user update at a time, which calls the services above. All of them
share the event loop only; two services meet where one calls the other or where
both queue transactions on one store.

What is hard in it:

* *interleavings at `await`*: a value read before an `await` and used after it;
* *the store's order of things*: load, chain, write, and what a failed write
  leaves behind;
* *the gap between a message and its record*: a platform call cannot be made
  atomic with the file, so crashes and lost answers either lose or repeat it;
* *several documents*: a lead and its conversion, a watch and its incident, are
  written by separate transactions;
* *boundaries of days, capacities and retries*.

What makes each component correct: a saved record is never lost (documents); a
trigger is recorded once, settled, and its message sent at most once unless a
fault intervenes (alerts); a rejected price touches nothing and days do not mix
(market); a reward is granted once (referrals); a job is delivered at most once
per destination and its item says what happened (channel); a submission makes
one lead with one conversion (sales, campaigns); a recipient gets a broadcast at
most once and none after a cancellation (admin); an incident is opened once per
episode (monitoring).

`PROJECT.json` lists the hazards line by line, with the properties that watch
them or the reason why none does yet.

## 2. Modules

```
DocumentStore            the store machinery              Documents_proofs

AlertEvaluator           conditions (pure)
  AlertStore             maps, file, transactions
    AlertService         what users ask; capacity
      AlertNotification  delivery loops, recovery
        AlertEngine      market, evaluation, crashes; Spec       |
          AlertProperties  <- AlertPromise (abstract)     Alert_proofs
            MCAlert

MarketState              records and decisions (pure)
  MarketEngine           the cycle, crashes; Spec
    MarketProperties                                      Market_proofs
      MCMarket

UserStore                users, favourites, invitations, rewards: maps, file, chain
  Referral               the update handlers; Spec        Referral_proofs
    MCReferral

ContentService           editorial items and the channel document
  ChannelEngine          publications, deliveries, recovery
    ChannelEvents        movements to tell; Spec          Channel_proofs
      MCChannel

Broadcast                broadcasts, admin document; Spec Broadcast_proofs
  MCBroadcast

Incidents                the list of incidents (pure)
  Monitoring             reports, watches, incidents, outbox
    MonitoringDispatch   the dispatcher, crashes; Spec
      MCMonitoring
      MonitoringInvariants  the invariants of the proofs  Documents_proofs

Campaigns                links, starts, conversions, attribution
  Sales                  the form, leads, sales, links to conversions
    SalesNotification    the news of a lead, start and crash; Spec
      MCSales
      SalesInvariants    the invariants of the proofs        Sales_proofs

OperatorSurface          what operators do in their chat
  Conversation           the user's flows and the router; Spec   Conversation_proofs
    MCConversation
```

### DocumentStore

The machinery `AlertStore`, `CampaignStore`, `PublicationStore` and `SalesStore`
share line for line, read from `alerts/alert.store.ts`. `memory` and `disk` are
what the maps and the file know of each record (a set of `Entries`); `links` is
the promise chain of the `Clients` that wait; `link` is the progress of its head: loading, applied (the
operation has run synchronously and the snapshot of the maps is about to be
written), or neither. `LinkWriteFails` is the swallowed error of `writeFile`,
`LinkLeaves` an operation that throws or changes nothing, `StoreCrash` loses
everything but the file. Its specification is `StoreSpec`.

`boot` is a parameter because the code boots in three ways. `"before"`:
`main.ts` awaits `ensureLoaded()` of the user and campaign stores before it
listens. `"beside"`: alert, publication, sales and admin stores are loaded by
`onModuleInit` hooks, which run in parallel with the hook that starts the
pollers. `"lazy"`: the monitoring store is loaded by its first transaction.

### The alert subsystem

* `AlertEvaluator`: the four conditions. A price is a positive integer,
  percentages are compared without dividing.
* `AlertStore`: `alerts`, `deliveries`, `disk`, the `chain` of requests.
  A request is the closure a service passes to `transact()`: what its caller had
  computed by then (the limit, the baseline) travels in it. `Applied` runs the
  head's operation on the maps with the checks the code repeats inside the
  transaction, `Written` replaces the file or fails, `Refused` is an operation
  that changed nothing.
* `AlertService`: `AskCreate`, `AskEnable`, ... are the parts of the service
  methods before their transaction: pre-checks, baseline and limit. A refusal
  answers the user and changes nothing, so it is no step.
* `AlertNotification`: `loop[a]` is the program counter of `deliver()` for alert
  `a`. It suspends at each store transaction, at the platform call (`sending`:
  not accepted yet; `accepted`: accepted, the answer is on its way) and at the
  retry delay. `AnswerIsLost` is a call that times out although the platform took
  the message. `recovery` is `recoverPending()`.
* `AlertEngine`: `MarketCommits` stands for a market cycle (external here),
  `EvaluateSymbol` takes the copy of the active alerts, `Reserve` awaits one
  reservation after the other. `Crash` may happen at any step; `Restart` loads
  the file and starts the recovery. `Spec` and `FairSpec` are here.
* `AlertPromise`: what the owner of an alert is promised, without a store:
  absent, armed, paused, fired, gone, and a notice that is owed, given or
  dropped, with its messages. `AlertProperties!PromiseIsKept` maps the *file* to
  it: the file is what every restart goes on from.

In the alert modules data is abstracted to what the properties tell apart: an alert is an id, an
owner, a condition (symbol, type, target) and a baseline; texts, dates and
message ids are left out; `lastError` is "is not null".

### The market

* `MarketState`: what is decided about one quoted value (`Evaluated`, from the
  normaliser and `SanityChecker`) and what becomes of the record of a symbol when
  a price is committed (`Committed`), a day begins (`Rolled`), the state is saved
  (`Persisted`: the direction is not in the file) and the process restarts
  (`Restored`: an older record is relabelled with today, without a window). Prices
  are positive integers, 0 is null, a percentage limit is compared without
  dividing.
* `MarketEngine`: `cycle.at` is where `evaluateCycle` is suspended: `fetching`,
  `saving`, `reporting` and `sending` (an anomaly message), `notifying`,
  `publishing`. From the answer of the price API to the last commit nothing is
  awaited, so `Evaluate` is one action. `SaveFails` and `RestoreFails` are the two
  errors the store swallows. The engine continues after either. `Crash` drops the
  memory, the cooldowns included.
* `MarketProperties` needs to say what the state *should* be, so `MarketEngine`
  keeps history variables beside the code's state: `ledger` and `saved`, the
  accepted prices that memory and file stem from (a crash takes the ledger back
  to `saved`, like the state it mirrors), `told`, what the listeners heard, and
  two counts of anomalies. No action reads them.

A symbol is a model value with a `SymbolDefinition`; its unit is the `factor` by
which a quoted value is multiplied. Time is a small counter, and the calendar is
any monotone map from times to days.

### Users and invitations

`UserStore` differs from the other stores: `transact()` queues an operation that
changes the maps when its turn comes, `persist()` changes the maps first and
queues a *snapshot*. `Referral` has one update loop per platform; `handler[p].at`
is what the handler of loop `p` awaits: the transaction of `/start` with a code,
the grants that follow one by one, a favourite, the last touch. A grant for an
inviter on the other platform is applied by whichever handler comes first, which
is where the loops meet. `reported` and `told` remember what users were told, and
`unsaved` which grants were not written, although the code goes on as if they were.

### The channel

`ContentService` has the items and the document; every method is a check (`Ask`)
and, later, a transaction (`Change`) on whatever the item has become. Jobs and
deliveries are maps from idempotency keys: an item and its revision, or the slot
of a market message. In `ChannelEngine` a *worker* is one call of `runJob()`, from
the minute's tick, a button, the price cycle, a movement or a retry; its
deliveries run side by side (`to[d]`). `Recover` is `recover()`, one transaction at a
time: a job that a crash interrupted is settled, then its item is marked as failed,
then comes the next job, and those that never ran come last; a crash may land between
any two. Until it is done nothing is published (`Up`). Ticks and price cycles do start
after the module hooks; but a button may be pressed while `recover()` runs, since the
pollers start in a hook as well, and that overlap is left out.
`ChannelEvents` adds the market cycle that picks movements, awaits the job that
tells them, and records them. `scope` splits the behaviours into those about
content, about prices and about movements: they meet only in the switch of
publishing and the counters of disturbances, and each scope has both.

### Broadcasts

`Broadcast` has the document of broadcasts with its draft transactions (a queue of
handlers; the draft becomes the document once it is written), the requests of two
administrators and the worker `tick`: it lists a batch, sends, stores each outcome,
stops at a rate limit, and finalizes. `request[p]` is the closure a handler has
queued, with what it had read by then.

### Monitoring

Two documents with a chain each. `at[c]` is the place of a report, of the
persistence monitor's queue, of a person in the error centre or of the dispatcher
between two transactions: `recordFailure` writes the watch, then the incident (in
the admin document), then the watch and the outbox. A fingerprint is the key of a
watch and the number of its episode. A failed write of the admin document is
itself reported to monitoring, which writes to the admin document.

Two of the counters in `faults` are no faults but history that the properties speak
of, and no action reads them: `reopen`, an incident that was RESOLVED is open again,
by hand or because `record()` met the row of a resolved episode; and `overlap`, a
notice was queued by a report for whose watch another one had queued a notice since
it looked (`lastNotifiedAt` is read with the count, two transactions earlier), or by
a recovery whose report began before the last notice.

### Sales and campaigns

`Campaigns` and `Sales` are two documents (`book`, `ledger`), each a queue of
callers that await their transaction. The form and the update handlers of two
platforms, the requests to the web controller, two operators and the start of the
process are the callers. `SalesNotification` has the delivery loops, which nobody
awaits: `Loops` are two per row, the second for an operator who asks again. An
event that is pruned leaves its place in the list of events to `Gone`, which no
reader looks at, so that touches are places in that list, in its order. The start takes one
snapshot of the PENDING rows (`recovering`) and deals with them in any order; updates
are served already while it awaits the mark of a row in doubt (`Serving`), so
operators, customers and other deliveries act in between, on rows it has yet to deal
with as well.

### The conversation

One user and everything a user can do: type any text, press any button of any old
message, let a question expire. `wizard` is the wizard of alerts, `form` whether a
purchase form is open (its steps are in `Sales`), `admin` and `seller` the
questions and drafts of operators. What a handler asks of another component is
`request`; the handler waits until it is `Answered`, because the updates of a
platform are handled one at a time. A screen that asks to confirm (`wizard.screen`,
`admin.preview`) says what it would do and arrives or is lost, which the code does not
notice. A button that confirms carries no reference: it is pressed on the newest
screen, if that arrived, or on an older message (`Buttons`). `price` is what the
baseline of a percentage is taken from, on the screen and again when the alert is
stored; it moves in between.

## 3. Runs

| Run | Question | Instance (distinct states) |
|---|---|---|
| `DocumentStore` | does the store keep what it saved, and does every caller resume? | boots before or lazily; 2 callers, 2 keys, a crash, a failed write, a failed read |
| `DocumentStore_boot_race` | (violation) the same when the load runs beside the pollers | 1 crash |
| `Alert_delivery` | are duplicates and capacities kept under concurrent creates and a reward, and do records and outcomes survive faults? | 2 alerts of one user, limit 1 and bonus 1, 2 attempts, a crash, a failed write, a lost answer (1.87 million) |
| `Alert_promise` | does the subsystem implement the promise, progress included? | 1 alert of any type, every operation of its owner, a crash, a lost answer (73 000) |
| `Market` | do record, moves, events, updates and anomaly counts tell what was accepted? | 2 symbols, 3 cycles, times 0..2 with a change of day before 2, a crash, one failed save or unreadable file (1.17 million) |
| `Referral` | are invitations and rewards earned, is what was told in the file, and which write failed if not? | 2 loops, 3 accounts of which one changes its favourites, 2 failed writes, a crash (577 000) |
| `Channel` | is each message taken once, as approved, with a true record; is a movement told only when it is news? | 1 item with 2 revisions, 2 administrators, 2 destinations, 2 publications at a time, 2 disturbances; 3 cycles with 2 symbols and 1 destination (1.42 million) |
| `Broadcast` | does a broadcast end, with nobody waiting, no outcome undone and repeats explained? | 1 job, 2 recipients, 2 administrators, 3 faults (397 000) |
| `Monitoring` | is what is well closed, an episode told again only where reports overlap, and every repeat explained? | 3 watches (one of the admin document itself), 3 overlapping reports, 3 observations, a history of one row, a fault (1.6 million) |
| `Sales` | do leads, sales, conversions, campaigns and news agree across the two documents? | 1 person, 1 campaign, 2 loops, a fault; 3 requests, with a form and one request to the campaigns, or all three of them to the campaigns over 3 times (1.08 million) |
| `Sales_retry` | (violation) "a retry can therefore never produce a duplicate message" | the same; a lead and an operator's retry |
| `Conversation` | is a user in one flow, and does a confirming button do what the newest screen says? | 3 sets of rights, 2 symbols, a price and a percentage, 1 alert, 2 texts and a blank one, 2 prices, any screen lost (1.53 million) |

Why the bounds are enough.

*Alerts.* Alerts interact through one user's capacity and duplicates (two ids: one
that counts and one that arrives) and through the order of the chain. Two attempts
make a first, a retry and giving up. One crash reaches every intermediate state of
a loop. One failed write puts memory ahead of the file, and the next successful
one reconciles them. Prices of two values cross a target in either direction, stay
or jump. Edits, pauses and deletions are in `Alert_promise`, not in
`Alert_delivery`, to keep two alerts and all three faults within reach; duplicates
and capacities are proved for every number of alerts.

*Market.* Three cycles are the fewest in which a price is accepted, another is
rejected or lost, and a third is judged against what is left, on either side of
midnight. Gold is required and judged by percent within a range: 1 to 3 is too far
within a day and allowed across days, 4 is out of range, so all three verdicts and
both baselines occur. The coin is optional, quoted in Toman (factor 10), judged by
an absolute distance, and may be absent. A cooldown of two ticks expires once.

*Invitations.* Three accounts make a chain of invitations and two invitees of one
inviter; the ceiling of bonus slots is reached by the second reward. Two loops are
all there are. Two failed writes are what it takes to tell of a reward that the file
does not have: the grant's own, and the one of the handler's next write, which would
have saved it.

*Channel.* Two revisions tell an approved text from an edited one; two publications
make every pair of tick, button, price cycle and retry meet, on one key and on two
revisions of an item. Two disturbances combine a lost answer with a crash or a
retry. Three cycles tell a movement, see it fall back (or not) beside another
symbol's, and tell it again. In the scope of events administrators stay out of it.

*Broadcast.* Two recipients make a batch that is interrupted between them; three
faults are a rate limit or refusal, a lost answer and a crash in one behaviour.

*Monitoring.* Three reports in flight at once are what it takes for a row to be told,
settled and pruned while an older report is still on its way, and a history of one
row lets the second be pruned. Three observations also make a failure, the success
that resolves it and a failure that was counted between the two. Longer behaviours
are the business of the proofs, which bound nothing.

*Sales and campaigns.* A behaviour has one of two budgets. In the first, a row has
its loop and a second one; three requests make a sale, its replacement and a
conversion race, and one of them may come from the campaigns, where it registers or
corrects what the lead is about to link. In the second, beside a lead that is about
to become a customer, three requests make two that decided on the same rows and one
before them; of three times the first is outside the window of the last. One fault
is anywhere: with two the properties hold by their own bounds. A start of the process
may find leads, rows and a campaign of an earlier life.

*Conversation* has no bound on its length: the state space is finite as it is. Two
symbols, types, texts and audiences are what it takes to do the wrong thing, two
prices to move away from a baseline that was shown.

`CHECK_DEADLOCK FALSE` stands where users, cycles, requests, the clock and faults
are bounded, so that the system comes to rest. Symmetry is used in runs without
liveness, over ids, platforms, workers and destinations that no operator orders.

**Fairness.** The alerts' `FairSpec` is weakly fair to the chain, the engine, each
delivery loop, the recovery and the restart: promise continuations, timers and file
operations are run by the event loop, the HTTP client gives every platform call a
timeout, and the container is started again (`restart: unless-stopped`). Nothing
is assumed of users, of the market, or of what a platform answers. In
`DocumentStore` it is the chain and the load; in `Broadcast` the worker, which an
interval starts every ten seconds, the transactions and the back-off; nothing is
assumed of administrators. `QuietMeansTold` is the safety side of a progress
property: once nothing is under way, everybody was told.

## 4. What the runs found

* `load()` raises `loaded` before it has read the file
  (`alerts/alert.store.ts:82`), so a transaction during a boot "beside" sees an
  empty document and replaces the file (`DocumentStore_boot_race`).
* `/sales retry` dispatches every PENDING row, also one whose delivery is under
  way (`bot/sales/sales-admin.service.ts:989`): the news of a lead is sent twice
  (`Sales_retry`).

Divergences between code and documentation met while modelling, without a run of
their own. Where a property would forbid one, it is stated with the exception
named (faults, crashes), so that the runs bound it.

*Alerts.* A retry that was in flight at a crash still carries the error of the
attempt before it; the recovery takes it for a known failure and sends again
(`alert.service.ts:640`, against `alert-notification.service.ts:16` and `:182`). A
deletion that lands while `beginAttempt()` is awaited does not stop the message
(`alert-notification.service.ts:110`, against `:78`). A lost answer is recorded as
a failure and retried. Attempts are counted per process. A trigger whose write
failed is forgotten by a crash although it was notified (`NotifiedStaysFired` is
conditional on successful writes). An edit between the evaluation and the
reservation makes an alert fire for its old target.

*Invitations.* `applyPendingRewards()` looks at the result of a grant and never at
`outcome.persisted` (`referral.service.ts:505-548`): an inviter is told of a reward
whose write failed, although `user.store.ts:527-528` and `bot-ux.service.ts:350-352`
and `:458-461` say that the user is told only after a successful write. With two
failed writes in a row the file does not have what was told, and a crash takes it
back and lets it be told again. `ToldRewardsAreSaved` names this as its only
exception, grant by grant.

*Market.* A first price of a Tehran day is told with the last price of the day
before as its previous price, so it does fire alerts
(`market-engine.service.ts:305`, against `docs/PHASE_3_REPORT.md:177`). An anomaly
message that the platform refuses takes the suppressed count with it, though
`anomaly-alert.service.ts:26` promises it to the next alert that is sent. Between
midnight and the first payload of a day readers of `getState()` see yesterday's
window (`StateTellsHistory` is relative to the active day). After a real jump
beyond the limit every later price of the day is rejected.

*Channel.* `publishMovementEvents()` re-arms only after a movement was told
(`channel-engine.service.ts:141`): a symbol that moved alone and fell back is not
armed again that day unless another symbol moves, though
`channel-policy.service.ts:249` says it "becomes eligible for a new event once the
cooldown has passed". `prunePreviousDays()` is never called. The idempotency key of
a range event is the day and the subjects, so that a second extreme of the same
symbol is not sent; `runJob()` answers PUBLISHED and it is recorded as told.

*Broadcast.* A call that is not answered is retried (`bot-api.client.ts:333`),
contrary to the header of `admin-broadcast.service.ts`. The batch under way goes on
after a cancellation, to recipients that were SKIPPED. `cancel()` does not look
again: a job that was COMPLETED meanwhile becomes CANCELLED.

*Monitoring.* A row that was sent but whose SENT could not be written is sent
again, and refusals are retried (against the header of
`monitoring-dispatch.service.ts`). "The old row is never rewritten as if it had never
been resolved" (`monitoring.service.ts:789`), but a report that was counted before a
resolution and records after it finds that row by its fingerprint and makes it OPEN
again, while the next failure opens the next episode: with five observations and no
fault at all, a condition ends HEALTHY with an OPEN incident beside it. "Can never
produce a second message" (`monitoring.service.ts:900`) holds of a key only as long as
its row is kept: a report that read `lastNotifiedAt` before another one told of the
condition asks for the same key again, and is told a second time when the history
limit has pruned the first row meanwhile (`monitoring.store.ts:159`). Both were found
when the proofs failed: earlier bounds of the run (two reports in flight, four
observations) were too small to show them, and `WellMeansClosed` and `ToldOnce` now
name them, a reopening and an overlap, as their exceptions. `mayNotify()` compares with the last notification of
an earlier episode, so that a condition that fails again soon is not told. A success
between the two transactions of a failure leaves an incident OPEN with no failures
on its watch. The twenty-four hour aggregation leaves an older OPEN incident behind;
`prune()` has no caller. Failures of the admin document feed themselves: the report
of each writes the admin document.

*Sales and campaigns.* Nothing keeps updates from being handled while the start of the
process recovers (`update-poller.service.ts:44-66` starts its loops in a module hook
too): a row that `recoverPending()` has in its snapshot may be dispatched by an
operator's retry before it is its turn, and is then sent by two loops; it is counted
in `RepeatedNewsIsExplained` as that retry. A conversion whose write failed is linked as
ALREADY_RECORDED. In the step for notes the "skip" button is that of the
description: it erases the description and stays. The LEAD link is not stored. Two
operators who race make a lead jump over a status of the graph, lose a sale's
update, or leave two outcomes ACTIVE; two ENDED and active campaigns or two active
conversions of one person and type come about the same way, since both are checked
outside the transaction. `repairIntegrations()` has no caller. A crash between the
lead and its rows means that nobody is told. A click that is damped after its first
write failed is lost. Ties in time are broken differently by the two models of
attribution.

*Conversation.* `wizard.step = 'confirm'` (`bot-ux.service.ts:1852-1866`) and
`session.broadcastText` (`admin.service.ts:291-300`) are set before the screen is sent,
and the result of `render()` is looked at by nobody (`platform-adapter.ts:55-83`
answers `success: false` and does not throw). If that screen is lost, the button of an
older message confirms what no screen has shown. If it arrives, the button of an older
message still confirms the newer wizard or draft, not what its own message says: the
buttons carry no reference. `NewestScreenDecides` therefore promises the newest
screen's content, for every button, and the user has read it only if it is that
screen's own. "The baseline that will actually be stored" (`bot-ux.service.ts:1881`)
is the price when the screen was made; `create()` and `edit()` take the price again
(`alert.service.ts:258-269`, `:465`), so it is another one if the price has moved.
The question of the panel or of the sales surface outlives a
navigation of the customer menu, contrary to `bot/admin/admin.service.ts:213`, and
takes the next text. With the text of a broadcast open, an answer to a note of a
lead becomes the text; with a wizard that waits for a number, it goes to the wizard.
A wizard that has expired still takes a number, and refuses only the confirmation.
`performRetry()` recovers sources that no incident names.

*Channel, at the start.* `recover()` runs beside the pollers in the same way, which the
model leaves out. An administrator who publishes in that moment makes a PENDING job
that the list at the end of `recover()` may contain: it is then marked SKIPPED while
it is being delivered, until its own end overwrites that, and a second press may claim
it once more. That is one more delivery per start of the process, the bound that
`TakenOnce` allows per crash, but the model does not show it.

## 5. Proofs

TLAPS proves the following for every value of the constants, from the named
assumptions of the modules only (sorts of the constants; sets need not be
finite, but for the recipients of a lead).

*Documents_proofs* has two parts. Of `DocumentStore`: `TypeCorrect`; and, assuming that no boot runs beside the
pollers (`BootIsOrdered`), `MemoryAlwaysCoversDisk`, `ResumedIsSaved` and
`SavedRecordsAlwaysSurvive`. The assumption is exactly what the boot race
violates. The inductive invariant adds to the properties what the chain's head
knows: whether the load has finished and what the snapshot covers.

Of monitoring, for any conditions, reports, thresholds, cooldowns, faults, crashes
and any length of the history: `MonitoringTypes`, `RepeatsAreAlwaysExplained`,
`NothingIsToldTwice` and `WellIsAlwaysClosed`. The inductive invariants are in
`MonitoringInvariants`; each of their parts was checked by TLC first.

* `TypeInv`: the callers that stand in the chain of a document are exactly those
  whose next transaction is on it, each once (`Queueing`), and what a report carries
  from one document to the other is there when it comes back. A watch that knows an
  incident knows its generation, which is what `openIncident()` counts on.
* `DispatchInv`: a claimed row that waits is in the hands of the one dispatcher, and
  what may have arrived without a row that says so is paid for by a crash, a failed
  write or a lost answer.
* `ToldInv`. A failure passes four stages (count, record, link, tell), and nobody
  overtakes: whoever is in a later stage, or before another in the same chain,
  carries an earlier time (`Ordered`). So no row is younger than a failure under way
  (`RowsBefore`), no incident is first seen after a failure that finds it
  (`FirstsBefore`), and a row belongs to the period of its own time (`Periods`). A
  report that saw the last notice there was is allowed by the cooldown only into a
  later period (`LaterPeriod`), so that a second row of a key has an overlap behind
  it. What is counted in the end (`AgainIsPaid`) are the repeated rows together with
  the watches whose `lastNotifiedAt` went back, because a recovery that ends late sets
  it back and only a later failure turns that into a repetition.
* `EpisodeInv`. Episodes are numbered without gaps (`Numbered`), so a number that is
  free is one more than the last. Everything open but the last episode was reopened
  (`LastIsOpen`), since a new episode begins where the watch's incident was seen
  RESOLVED. While nothing was lost, what is open is the incident that the watch knows,
  or that the last report which waits to link will make it know (`LinkedIsOpen`), and
  a recovery that leaves that one open is about to resolve it (`WellIsClosed`). The
  step cases rest on what a step may do to the list (`OpenStep`: nothing that is not
  counted, or the next episode) and to a report between two transactions
  (`Persists`: only its own next step, as long as nothing is lost).

*Alert_proofs* begins with the lemmas about transactions: each keeps the types,
fresh ids, the trigger with its record, finality, distinctness of targets, and
takes a user's count up only within the limit it carries. They are lifted to the
subsystem:

* `TypeCorrect`, from `TypeInv` (the type invariant, and a link that writes has a
  head);
* `TriggersHaveRecords`, `TargetsStayDistinct`, `CapacityIsAlwaysKept` and
  `TriggersAreFinal`, from `StoreInv`. None of them is inductive alone: a crash
  copies the file over the memory, so the same facts must hold of the file
  (`Safe`, twice); the file must not be on another course than the memory
  (`Behind`); ids that were never drawn must be unused, so that a create
  overwrites nothing and counted alerts are finitely many; and a create that waits
  must carry a limit that is still granted (`QueuedLimits`), which holds because
  rewards are never taken back;
* `DuplicatesAreAlwaysExplained`, `NotifiedAlwaysStaysFired` and
  `OutcomesAreFinal`, from `DeliveryInv`. It says in whose hands a delivery is
  (`Hand`): of one reservation, one loop or the recovery, never of two, and of
  nobody once its outcome is written; every message but the one this process may
  still send is then paid for by a crash or a lost answer (`Explained`), and an
  outcome in the file is that of the memory (`SavedOutcome`). As long as no write
  failed, the trigger is in the file before anything else is done about it
  (`SavedFirst`);
* `PromiseIsImplemented`: as long as no write fails, every step of the subsystem is,
  seen through the file, a step of `AlertPromise` or a stutter. `FollowingInv` adds
  that the file *follows* the memory: it is the memory, or one allowed move behind
  it. The run has the same mapping with the progress that the prover cannot reach.

*Market_proofs*, from `MarketStateAssumption` (the calendar is monotone, sorts of
the limits) and `MarketEngineAssumption` (sorts):

* `TypeCorrect`;
* `StateAlwaysTellsHistory`. `StateTellsHistory` is not inductive: a commit looks
  at the window and at the day, and what it makes of them is right only if the
  record is not of a later day than the active one, the accepted prices are in
  order of time and none is of a later day (`Kept`), nothing is ahead of the clock
  (`Past`), a process that is down holds nothing, and the day a save writes is the
  active one. `HistoryInv` adds these. One lemma per transformation of a record
  (`RollKeeps`, `PersistKeeps`, `RestoreKeeps`, `CommitKeeps`) carries the
  argument, and the steps cite them;
* `MovesAreAlwaysPlausible`, from `HistoryInv`: a kept record's baseline *is* the
  last accepted price, marked as of the same day exactly if it is
  (`BaselineTells`), so what the sanity decision lets through extends a plausible
  history;
* `AnomaliesAreAlwaysCounted`: every anomaly is the subject of a message, merged
  into one or counted for the next, through cooldowns and refusals;
* `PathIsAlwaysTold` and `UpdateAlwaysTellsHistory`, from `PathInv`. What listeners
  hear are differences of two states of one record, told after the save; the
  invariant orders the cycles of what was told, knows where a running cycle has put
  its own price in memory and file (`CommitTold`), and that whatever it has not
  touched is older (`Earlier`). The path of prices that listeners are told is then
  the history without a gap, within a process and up to a crash.

*Broadcast_proofs*, for any jobs, recipients, administrators and limits:
`TypeCorrect`, `EverybodyIsServed`, `MessagesAreExplained` and `OutcomesStay`. All
checks are made before a transaction that runs later, so `IInv` says what a request
that waits may rely on: a recipient of the worker's batch is decided by nobody else,
unless it is skipped; whoever may still be sent to has got no more messages than
faults hide; a retry that waits is still allowed or has nothing left to repeat; and
a job that is to be finalized has nobody waiting, nor a retry before it in the queue
that would bring somebody back.

*Referral_proofs*: `RewardsAreAlwaysEarned`, `InvitationsAreAlwaysOfNewcomers`,
`ReportedIsAlwaysSaved` and `ToldRewardsAreAlwaysSaved`. The document is written in
two ways at once, so the invariant orders its versions: the file, the payloads on
their way to it in the order of the chain, and the maps, each of which keeps
(`Keeps`) what those before it hold; what a failed write lost is ahead of the file
and behind no link. Each version is `Sound`: rewards are earned by invitations it
holds, and nobody invited himself through others, stated of sets that are closed
under invitation so that it takes no recursion. The theorems hold for the two
pollers there are (`StoreAssumption`): what a transaction reads and what a snapshot
holds agree only because no third writer can queue between two others; with three
pollers TLC finds `ReportedIsSaved` violated.

*Channel_proofs*: `TypesHold`, `TakenOnceAlways`, `TakenWasApprovedAlways`,
`RecordsAlwaysTellTheTruth` and `MovementsAreAlwaysNews`, for any items, revisions,
destinations, workers and symbols. A key is in the hands of one worker at a time
(`Alone`): the claim is a transaction, and the rest of the system hands a job on
only when it is done. A delivery that was taken, or whose answer is open, is *shut*:
nothing in this process sends it again, only a restart or a retry of a job in doubt
opens it, so a message was taken at most once more than the process died. An item
that is approved has its revision among the approved ones, from which every job
that carries it was made. For movements, the last message of a symbol that moved is
settled in the record from which the next is judged, on its way there in the cycle
that told it, or owed to an accident that was counted: unexplained messages and
owed ones together are no more than crashes and troubles. The slots of movements
are distinct from those of prices (`EventsAssumption`), as the prefixes of their
keys are.

*Sales_proofs*, for any people, campaigns, callers and limits and finitely many
recipients: `TypesAreKept`, `EveryCreditIsEarned`, `HistoryStaysAChain`,
`TouchesStayTold`, `LinksAlwaysHold`, `NewsIsExplained` and `QuietAlwaysMeansTold`.
The inductive invariants stand apart, in `SalesInvariants`, with the steps named by
what they change. What a request will write is decided before it queues, and the two
documents know nothing of each other, so the invariant speaks of requests that wait.
`TypeInv`: the rows they name, in either document, are there, because rows are never
removed. `CreditInv`: what a credit in the queue rests on is an event of that
customer, and pruning takes only clicks, which have no customer. `ChainInv`: a row
is looked at again when its correction is written, and each of the two ends of a
link points to the other. `InTime`: events lie in the order of their times and
requests in the order in which they will be written, so the last touch in the list
is also the latest; with `TouchInv`, which says what first and last touch mean, a
touch that is written changes exactly what it must. `LinkInv`: the copy of a lead
that a sale carries, the outcome it is to replace and the row that a handler was
given for its customer still belong to that lead when they are written, since rows
keep their customer and outcomes their lead. What one transaction does to the events
is said once, by `EventsChange`: nothing, one event more, or clicks pruned. The news
of leads needs two invariants more. `FormInv`: the form of a person and the lead
made from it share a key until the handler that stores the lead has dropped the
form, and no two of either do; so one handler at most is about to ask for the rows
of a lead. `NewsInv` keeps accounts: what a recipient received, with the attempts
that may still be sent, the deliveries that may still come to one (a row has two
slots, of the dispatch and of a retry) and the dispatch that is to come, never
exceeds one, the answers that were lost and the retries that were asked for; and a
row that a failed attempt left PENDING is paid for once more, because a restart
would take it up. A step that moves one loop (`LoopMoves`) changes one term of that
sum and at most the count of what it was paid with, which is the whole argument for
`Deliver`, `Fail`, `NotBegun` and `CheckRow`. `ToldInv` is the other half: while
nothing was lost, a lead without rows has a handler that will ask for them, and a
PENDING row has a delivery that will yet decide about it or is about to be
dispatched for the first time; a delivery stops caring only for a row that is no
longer PENDING. That every lead has its rows in the model is the pigeonhole
principle on the keys (`LeadsAreFew`).

*Conversation_proofs*: `ConversationIsSound`, and from it `OneFlowAlways` and
`NewestScreenAlwaysDecides`, for any texts, symbols, alerts, audiences, rights and
prices and any loss of screens. Neither promise rests on the button that is pressed
but on what an old button may find: a wizard that waits for confirmation is the one
that the newest confirmation screen speaks of, arrived or lost (`ConfirmationIsShown`;
of the baseline the invariant says only that a price alert has none), and a draft that
is complete is the one of the newest preview (`DraftIsShown`), because the text is
dropped with the audience. These, with
the shape of the two records, make the invariant inductive. There is one lemma per
surface, one step per button.

The type invariants of the proved modules are theorems and are not repeated in the
runs; those of the other modules are stated in the modules (`TypeOK`).

Model-checked only: what fires (`MetConditionFires`); and
everything about progress, the liveness of `AlertPromise` included, since fairness
and ENABLED are beyond the prover. The two violations are runs by nature.

## 6. What is not modelled, and what comes next

Not to be modelled: texts, formats and keyboards, metrics recomputed on every
read, configuration parsing, money and calendar arithmetic, posters, demo and
test doubles, HTTP.

Left out of modelled components: overlapping market cycles; ranges of the day as
events (their records multiplied the states beyond reach, and no property was
about them), rejected prices between two movements, the pruning of old jobs; job
runs, staleness and routes in monitoring; date ranges of campaigns and counters of
rejections; audiences of a broadcast; the offset of a poller. The order of two
platforms' updates is any order.

Assumptions between modules: the alerts' market is external
(`AlertEngine!MarketCommits`: each observation carries the price observed before
it, which `PathIsTold` shows of the market engine within a process and up to a
crash), one market cycle runs at a time, rewards are external and durable to the
alerts (`AlertService!GrantBonus`; `Referral` shows when they are not: a failed
write), an unreadable file is met in `DocumentStore` only.

Plan:

1. The composition of market and alerts: overlapping cycles, and the crossing that
   a crash between commit and reservation loses.
2. Job runs and staleness as further producers of reports.
