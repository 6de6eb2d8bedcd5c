-------------------------- MODULE SalesInvariants --------------------------
(***************************************************************************)
(* Why sales and campaigns keep what they promise.  A decision is taken    *)
(* outside the transaction it leads to, so the inductive invariants say    *)
(* what a request that waits may still rely on: the rows it names exist    *)
(* and are those of its customer and its lead, the touch its credit rests  *)
(* on is not pruned, and it lies in the queue in the order of its time.    *)
(* For the news of leads they say whose a form is while its lead is        *)
(* stored, and pay for every message that may yet go out as well as for    *)
(* those that did.  The last part names the steps by what they change,     *)
(* which is all that the proofs need to know of most of them.              *)
(***************************************************************************)
EXTENDS SalesNotification

-----------------------------------------------------------------------------
(* Types, queues and names *)

\* Whoever stands in a queue waits for that document, and stands there once.
Queued ==
    /\ \A i \in 1 .. Len(bookQueue) : ask[bookQueue[i]] \in BookRequest
    /\ \A i \in 1 .. Len(ledgerQueue) : ask[ledgerQueue[i]] \in LedgerRequest
    /\ \A i, j \in 1 .. Len(bookQueue) : bookQueue[i] = bookQueue[j] => i = j
    /\ \A i, j \in 1 .. Len(ledgerQueue) : ledgerQueue[i] = ledgerQueue[j] => i = j

\* The rows that a request or a handler names exist.
NamesExist ==
    /\ \A c \in Callers :
        /\ ask[c].op = "correct" => ask[c].row \in DOMAIN book.conversions
        /\ ask[c].op \in {"follow", "annotate", "convert", "enqueue", "store", "sale"} =>
              ask[c].lead \in DOMAIN ledger.leads
    /\ \A h \in Handlers :
        /\ task[h].at \in {"linked", "enqueued", "converted", "customer"} =>
              task[h].lead \in DOMAIN ledger.leads
        /\ task[h].at = "retry" => task[h].left \subseteq DOMAIN ledger.leads
        /\ task[h].at = "created" /\ ask[h] = NoAsk /\ reply[h] \notin {0, None} =>
              LeadOf(reply[h]) \in DOMAIN ledger.leads
        /\ task[h].at = "created" => ask[h] = NoAsk \/ ask[h].op = "create"
        /\ task[h].at = "customer" => IF ask[h] = NoAsk THEN reply[h] \in Nat ELSE ask[h].op = "register"

TypeInv == TypeOK /\ Queued /\ NamesExist

-----------------------------------------------------------------------------
(* Credit *)

Earned(b, p, c, t) ==
    \E j \in DOMAIN b.events :
        LET e == b.events[j] IN
        /\ e.type \in {"START", "CHANNEL_JOIN"} /\ e.who = p /\ e.campaign = c
        /\ e.at <= t /\ t - e.at <= Window

CreditOK(b) ==
    \A i \in DOMAIN b.conversions :
        LET k == b.conversions[i] IN k.campaign # None => Earned(b, k.who, k.campaign, k.at)

AsksEarned ==
    \A c \in Callers :
        LET q == ask[c] IN
        /\ q.op = "register" /\ q.campaign # None => Earned(book, q.who, q.campaign, q.at)
        /\ q.op = "correct" /\ q.campaign # None =>
              Earned(book, book.conversions[q.row].who, q.campaign, q.at)

\* Nobody clicks, and what was pruned was a click.
EventsOK(b) ==
    \A i \in DOMAIN b.events :
        /\ b.events[i].type \in {"CLICK", "GONE"} => b.events[i].who = None
        /\ b.events[i].type = "GONE" => b.events[i] = Gone

CreditInv == EventsOK(book) /\ CreditOK(book) /\ AsksEarned

-----------------------------------------------------------------------------
(* History *)

ChainOK(b) ==
    \A i \in DOMAIN b.conversions :
        LET k == b.conversions[i] IN
        /\ k.status = "CORRECTED" =>
            /\ k.by \in DOMAIN b.conversions
            /\ b.conversions[k.by].from = i
            /\ b.conversions[k.by].who = k.who /\ b.conversions[k.by].type = k.type
        /\ k.from # 0 =>
            /\ k.from \in DOMAIN b.conversions
            /\ b.conversions[k.from].status = "CORRECTED" /\ b.conversions[k.from].by = i

\* The last number of a period is the one in force.
ImportsOK(b) ==
    \A i \in DOMAIN b.imports :
        b.imports[i].status = "ACTIVE" <=>
            \A j \in DOMAIN b.imports : b.imports[j].key = b.imports[i].key => j <= i

ChainInv == ChainOK(book) /\ ImportsOK(book)

-----------------------------------------------------------------------------
(* Time and touches *)

TimedOps == {"start", "alert", "observe", "click"}

\* Events lie in the order of their times, and the requests that wait after them.
Until(E, t) == \A i \in DOMAIN E : E[i].at <= t

Ordered(E) ==
    \A i, j \in DOMAIN E : i <= j /\ E[i].type # "GONE" /\ E[j].type # "GONE" => E[i].at <= E[j].at

TimesOK(E, queue, asks, t) ==
    /\ Until(E, t) /\ Ordered(E)
    /\ \A k \in 1 .. Len(queue) : asks[queue[k]].op \in TimedOps =>
        /\ asks[queue[k]].at <= t /\ Until(E, asks[queue[k]].at)
        /\ \A l \in 1 .. Len(queue) : asks[queue[l]].op \in TimedOps /\ k <= l =>
            asks[queue[k]].at <= asks[queue[l]].at

InTime == TimesOK(book.events, bookQueue, ask, now)

TouchOK(b, p) ==
    LET T == Touches(b, p)
        E == b.events
    IN /\ \A i, j \in T :
            E[i].type = "START" /\ E[j].type = "START" /\ E[i].campaign = E[j].campaign => i = j
       /\ T = {} => b.touched[p] = NoTouch
       /\ T # {} => b.touched[p] # NoTouch
       /\ \A i \in T : (\A j \in T : i <= j) => b.touched[p].first = E[i].campaign
       /\ \A i \in T : (\A j \in T : j <= i) =>
            /\ b.touched[p].at = E[i].at
            /\ \E k \in T : E[k].at = E[i].at /\ E[k].campaign = b.touched[p].last

TouchInv == CreditInv /\ InTime /\ \A p \in People : TouchOK(book, p)

-----------------------------------------------------------------------------
(* Links between the documents *)

IsCustomer(b, i, p) ==
    i \in DOMAIN b.conversions /\ b.conversions[i].type = "CUSTOMER" /\ b.conversions[i].who = p

CustomerOK(b, lead) ==
    /\ lead.customer = "RECORDED" => lead.customerRow # 0
    /\ lead.customerRow # 0 => IsCustomer(b, lead.customerRow, lead.who)

LinkedLead(l, b, g) ==
    LET lead == g.leads[l] IN
    /\ CustomerOK(b, lead)
    /\ lead.sale # 0 => /\ lead.sale \in DOMAIN g.outcomes
                        /\ g.outcomes[lead.sale].lead = l
                        /\ g.outcomes[lead.sale].status = "ACTIVE"

\* What waits to be written was found before, and holds still: rows do not change
\* their customer, nor outcomes their lead.
LinkedAsk(q, b, g) ==
    /\ q.op = "store" /\ q.row # 0 => IsCustomer(b, q.row, g.leads[q.lead].who)
    /\ q.op = "sale" =>
        /\ q.was.who = g.leads[q.lead].who /\ q.was.key = g.leads[q.lead].key /\ CustomerOK(b, q.was)
        /\ q.existing # 0 => q.existing \in DOMAIN g.outcomes /\ g.outcomes[q.existing].lead = q.lead

LinkedTask(t, q, a, b, g) ==
    t.at = "customer" =>
        IF q = NoAsk THEN a # 0 => IsCustomer(b, a, g.leads[t.lead].who)
        ELSE q.op = "register" /\ q.type = "CUSTOMER" /\ q.who = g.leads[t.lead].who

LinkInv ==
    /\ \A l \in DOMAIN ledger.leads : LinkedLead(l, book, ledger)
    /\ \A c \in Callers : LinkedAsk(ask[c], book, ledger)
    /\ \A h \in Handlers : LinkedTask(task[h], ask[h], reply[h], book, ledger)

-----------------------------------------------------------------------------
(* Forms and their leads *)

\* A handler that has stored lead l and not yet asked for its rows.
Storing(h, l) ==
    \/ task[h].at = "created" /\ ask[h] = NoAsk /\ LeadOf(reply[h]) = l
    \/ task[h].at = "linked" /\ task[h].lead = l

Enqueuing(h, l) == task[h].at = "enqueued" /\ task[h].lead = l

\* A form and a lead have a key of their own.
KeysOK ==
    /\ opened + budget.forms <= MaxForms
    /\ \A p \in People : HasForm(p) => forms[p].key \in 1 .. opened
    /\ \A p, o \in People : HasForm(p) /\ HasForm(o) /\ forms[p].key = forms[o].key => p = o
    /\ \A l \in DOMAIN ledger.leads : ledger.leads[l].key <= opened
    /\ \A l, m \in DOMAIN ledger.leads : ledger.leads[l].key = ledger.leads[m].key => l = m

\* The form that was confirmed stays until its lead is linked, and no longer.
FormStays(h) ==
    /\ task[h].at \in {"created", "linked"} => Home[task[h].who] = h /\ HasForm(task[h].who)
    /\ task[h].at = "created" /\ ask[h] # NoAsk =>
          ask[h].who = task[h].who /\ ask[h].key = forms[task[h].who].key
    /\ \A l \in DOMAIN ledger.leads :
        /\ Storing(h, l) => forms[task[h].who].key = ledger.leads[l].key
        /\ Enqueuing(h, l) => \A p \in People : HasForm(p) => forms[p].key # ledger.leads[l].key

\* A form whose lead is there is about to go.
FormGoes ==
    \A p \in People, l \in DOMAIN ledger.leads :
        HasForm(p) /\ forms[p].key = ledger.leads[l].key =>
            Storing(Home[p], l) /\ task[Home[p]].who = p

EnqueuedOnce ==
    \A g, h \in Handlers : \A l \in DOMAIN ledger.leads : Enqueuing(g, l) /\ Enqueuing(h, l) => g = h

CreatesAlone == \A c \in Callers : ask[c].op = "create" => c \in Handlers /\ task[c].at = "created"

FormInv ==
    KeysOK /\ (\A h \in Handlers : FormStays(h)) /\ FormGoes /\ EnqueuedOnce /\ CreatesAlone

-----------------------------------------------------------------------------
(* The news of a lead: what was received and what may yet be sent is paid for *)

Deliveries(r) == {<<r, 1>>, <<r, 2>>}

\* A delivery that may send now, and one that may yet come to it.
Going(d) == loop[d].at = "begun" /\ ask[d] = NoAsk /\ reply[d] = 1

Waiting(d) == loop[d] # NoLoop /\ ~ Going(d)

\* A row that the start of the process found, and one it is to dispatch.
Found(r) == \E e \in recovering : e.row = r

Resumed(r) == [row |-> r, doubt |-> FALSE] \in recovering

\* The same, counted; a dispatch that is to come; another row that an outcome left
\* PENDING.
GoingAt(d) == IF Going(d) THEN 1 ELSE 0

WaitingAt(d) == IF Waiting(d) THEN 1 ELSE 0

ComingTo(r) == IF Resumed(r) \/ \E h \in Handlers : Enqueuing(h, r[1]) THEN 1 ELSE 0

FailingAt(r) ==
    IF ledger.rows[r].status = "PENDING" /\ ledger.rows[r].failed /\ ~ Resumed(r) THEN 1 ELSE 0

\* What a request says of the row it is about.
AskOfRows(c) ==
    LET q == ask[c] IN
    /\ q.op = "begin" => c \in Deliveries(q.row) /\ loop[c].at = "begun"
    /\ q.op = "mark" =>
        /\ c \in Deliveries(q.row) \cup {Boot}
        /\ q.to = "SENT" => received[q.row] > 0
        /\ q.to = "PENDING" => c # Boot /\ loop[c].at = "check"
    /\ q.op \in {"begin", "mark"} => ledger.rows[q.row].status # "NONE"
    /\ q.op = "enqueue" => c \in Handlers /\ Enqueuing(c, q.lead)

\* A delivery has a row.
LoopOK(d) ==
    /\ loop[d].at = "idle" => loop[d] = NoLoop
    /\ loop[d] # NoLoop => ledger.rows[d[1]].status # "NONE"
    /\ loop[d].at = "begun" => ask[d] = NoAsk \/ ask[d].op = "begin"

\* Of a row that is not there, nothing has happened; nothing is sent before an attempt.
RowOK(r) ==
    LET row == ledger.rows[r] IN
    /\ r[1] \notin DOMAIN ledger.leads => row.status = "NONE"
    /\ row.status = "NONE" => row.attempts = 0
    /\ row.attempts = 0 => received[r] = 0 /\ \A d \in Deliveries(r) : ~ Going(d)
    /\ row.status = "SENT" => received[r] > 0
    /\ Found(r) => row.status # "NONE" /\ \A h \in Handlers : ~ Enqueuing(h, r[1])
    /\ \A h \in Handlers : Storing(h, r[1]) => row.status = "NONE"

\* What was received and what may yet be sent is paid for; so is what a restart finds.
Spent(r) == received[r] + GoingAt(<<r, 1>>) + GoingAt(<<r, 2>>) + ComingTo(r)

PaidFor(r) ==
    /\ Spent(r) + WaitingAt(<<r, 1>>) + WaitingAt(<<r, 2>>) <= 1 + faults["lost"] + again[r]
    /\ Spent(r) + FailingAt(r) <= 1 + faults["lost"] + again[r]

NewsInv ==
    /\ \A c \in Callers : AskOfRows(c)
    /\ \A d \in Loops : LoopOK(d)
    /\ \A r \in RowIds : RowOK(r) /\ PaidFor(r)

-----------------------------------------------------------------------------
(* What is under way *)

\* A handler that has stored lead l and was not yet answered about its rows.
Tells(h, l) == Storing(h, l) \/ (Enqueuing(h, l) /\ ask[h].op = "enqueue")

\* A delivery that will yet decide about its row.
Carries(d) ==
    \/ loop[d].at = "check"
    \/ loop[d].at = "begun" /\ (ask[d] # NoAsk \/ reply[d] = 1)
    \/ ask[d].op = "mark" /\ ask[d].to # "PENDING"

\* A row that was added and is about to be dispatched for the first time.
Comes(r) ==
    /\ \E h \in Handlers : Enqueuing(h, r[1])
    /\ \A d \in Deliveries(r) : loop[d] = NoLoop

Told(r) ==
    /\ r[1] \in DOMAIN ledger.leads /\ ledger.rows[r].status = "NONE" => \E h \in Handlers : Tells(h, r[1])
    /\ ledger.rows[r].status = "PENDING" => Comes(r) \/ \E d \in Deliveries(r) : Carries(d)

Healthy == faults["write"] = 0 /\ faults["crash"] = 0

ToldInv ==
    /\ recovering # {} => ~ Healthy
    /\ Healthy => \A r \in RowIds : Told(r)

-----------------------------------------------------------------------------
(* Steps, by what they change: the document of the campaigns *)

AskType == BookRequest \cup LedgerRequest \cup {NoAsk}

SoundAsk(q) ==
    /\ q.op \in TimedOps => q.at = now
    /\ q.op = "register" => q.campaign = Credit(book, q.who, q.at)
    /\ q.op = "correct" =>
        /\ q.row \in DOMAIN book.conversions
        /\ q.campaign = Credit(book, book.conversions[q.row].who, q.at)

\* Nothing, nor to the requests that wait for it.
BookStays ==
    /\ UNCHANGED <<book, bookQueue>> /\ now' \in Nat /\ now <= now'
    /\ \A c \in Callers : /\ ask[c] \in BookRequest => ask'[c] = ask[c]
                          /\ ask'[c] \in BookRequest => ask'[c] = ask[c]

BookAsks(c, q) ==
    /\ ask[c] = NoAsk /\ AsksBook(c, q) /\ SoundAsk(q) /\ UNCHANGED <<book, now, ledger>>
    /\ ask'[c] = q /\ \A d \in Callers : d # c => ask'[d] = ask[d]

\* The first transaction of a queue runs, or its write fails.
BookRuns(c, q) ==
    /\ bookQueue # <<>> /\ c = Head(bookQueue) /\ q = ask[c] /\ bookQueue' = Tail(bookQueue)
    /\ ask' \in [Callers -> AskType] /\ ask'[c] = NoAsk
    /\ \A d \in Callers : d # c => ask'[d] = ask[d]
    /\ reply' \in [Callers -> Int \cup {None}]
    /\ \A d \in Callers : d # c => reply'[d] = reply[d]
    /\ Queued' /\ bookQueue' \in Seq(Callers)
    /\ UNCHANGED <<task, known, clicks, now, budget>>
    /\ \/ /\ book' = BookResult(q) /\ UNCHANGED faults
          /\ reply'[c] = IF q.op = "register" THEN Len(book'.conversions) ELSE 0
       \/ Faulty("write") /\ UNCHANGED book /\ reply'[c] = 0

BookForgets ==
    /\ UNCHANGED <<book, now>> /\ bookQueue' = <<>> /\ ask' = [c \in Callers |-> NoAsk]

BookActs ==
    \/ BookStays
    \/ \E c \in Callers, q \in BookRequest : BookAsks(c, q)
    \/ \E c \in Callers, q \in BookRequest : BookRuns(c, q) /\ UNCHANGED ledger
    \/ BookForgets

\* An event stays in its place unless it is a click.
Keeps(b, n) ==
    \A j \in DOMAIN b.events :
        j \in DOMAIN n.events /\ (n.events[j] = b.events[j] \/ b.events[j].type = "CLICK")

\* The kinds of changes: none, one event more, or a click that may prune others.
Adds(b, n, e) ==
    /\ e \in Event /\ b.events \in Seq(Event)
    /\ n.events = Append(b.events, e)

Prunes(b, n, e) ==
    /\ e \in Event /\ e.type = "CLICK" /\ e.who = None /\ b.events \in Seq(Event)
    /\ DOMAIN n.events = DOMAIN Append(b.events, e)
    /\ \A i \in DOMAIN n.events :
        \/ n.events[i] = Append(b.events, e)[i]
        \/ Append(b.events, e)[i].type = "CLICK" /\ n.events[i] = Gone

\* A conversion is there from before, or what was asked for.
ConversionMade(b, n, q) ==
    \A i \in DOMAIN n.conversions :
        LET k == n.conversions[i] IN
        \/ i \in DOMAIN b.conversions /\ k.campaign = b.conversions[i].campaign
           /\ k.who = b.conversions[i].who /\ k.at = b.conversions[i].at
        \/ q.op = "register" /\ k.campaign = q.campaign /\ k.who = q.who /\ k.at = q.at
        \/ q.op = "correct" /\ k.campaign = q.campaign /\ k.who = b.conversions[q.row].who /\ k.at = q.at

\* The rows of conversions keep their type and their customer.
Grows(b, n) ==
    \A i \in DOMAIN b.conversions :
        /\ i \in DOMAIN n.conversions
        /\ n.conversions[i].type = b.conversions[i].type
        /\ n.conversions[i].who = b.conversions[i].who

-----------------------------------------------------------------------------
(* The ledger *)

LedgerRuns(c, q) ==
    /\ ledgerQueue # <<>> /\ c = Head(ledgerQueue) /\ q = ask[c] /\ ledgerQueue' = Tail(ledgerQueue)
    /\ ask' \in [Callers -> AskType] /\ ask'[c] = NoAsk
    /\ \A d \in Callers : d # c => ask'[d] = ask[d]
    /\ reply' \in [Callers -> Int \cup {None}]
    /\ \A d \in Callers : d # c => reply'[d] = reply[d]
    /\ Queued' /\ ledgerQueue' \in Seq(Callers)
    /\ UNCHANGED <<forms, opened, task, budget, campaignVars>>
    /\ \/ /\ ledger' = LedgerResult(q) /\ UNCHANGED faults
          /\ reply'[c] = LedgerReply(q, LedgerResult(q))
       \/ Faulty("write") /\ UNCHANGED ledger /\ reply'[c] = 0

LedgerKeeps(g, n) ==
    /\ \A l \in DOMAIN g.leads :
        l \in DOMAIN n.leads /\ n.leads[l].who = g.leads[l].who /\ n.leads[l].key = g.leads[l].key
    /\ \A o \in DOMAIN g.outcomes : o \in DOMAIN n.outcomes /\ n.outcomes[o].lead = g.outcomes[o].lead

\* Lead l is rewritten as x.
Rewritten(g, n, l, x) ==
    /\ n \in Ledger /\ n.rows = g.rows
    /\ Len(n.leads) = Len(g.leads) /\ DOMAIN n.leads = DOMAIN g.leads
    /\ n.leads[l] = x /\ \A m \in DOMAIN g.leads : m # l => n.leads[m] = g.leads[m]

\* What follows a lead keeps its links.
SameLinks(x, y) ==
    x.who = y.who /\ x.key = y.key /\ x.customer = y.customer /\ x.customerRow = y.customerRow
    /\ x.sale = y.sale

\* One row is rewritten.
RowRewritten(g, n, r) ==
    /\ n \in Ledger /\ n.leads = g.leads /\ n.outcomes = g.outcomes
    /\ \A s \in RowIds : s # r => n.rows[s] = g.rows[s]

-----------------------------------------------------------------------------
(* Forms, leads and news *)

Aside(t) == t.at \notin {"created", "linked", "enqueued"}

Beside(q) == q.op \notin {"create", "enqueue", "begin", "mark"}

Elsewhere ==
    /\ UNCHANGED <<loop, recovering, received, again, forms, opened>>
    /\ ledger'.rows = ledger.rows /\ DOMAIN ledger'.leads = DOMAIN ledger.leads
    /\ \A l \in DOMAIN ledger.leads : ledger'.leads[l].key = ledger.leads[l].key
    /\ budget'.forms = budget.forms
    /\ faults'["lost"] = faults["lost"] /\ faults'["crash"] = faults["crash"]
    /\ faults'["write"] = 0 => faults["write"] = 0
    /\ \A c \in Callers : ask'[c] = ask[c] \/ (Beside(ask[c]) /\ Beside(ask'[c]))
    /\ \A d \in Loops : \/ ask'[d] = ask[d] /\ reply'[d] = reply[d]
                        \/ ask[d] # NoAsk /\ Beside(ask[d])
    /\ \A h \in Handlers : \/ task'[h] = task[h] /\ ask'[h] = ask[h] /\ reply'[h] = reply[h]
                           \/ task'[h] = task[h] /\ task[h].at \in {"linked", "enqueued"}
                           \/ Aside(task[h]) /\ Aside(task'[h])

\* A step that stores no lead, and opens, confirms and drops no form.
FormsRest ==
    /\ opened' = opened /\ budget'.forms = budget.forms
    /\ DOMAIN ledger'.leads = DOMAIN ledger.leads
    /\ \A l \in DOMAIN ledger.leads : ledger'.leads[l].key = ledger.leads[l].key
    /\ \A p \in People : \/ forms'[p] = forms[p]
                         \/ HasForm(p) /\ HasForm(p)' /\ forms'[p].key = forms[p].key
    /\ \A h \in Handlers :
        \/ task'[h] = task[h] /\ (task[h].at = "created" => ask'[h] = ask[h] /\ reply'[h] = reply[h])
        \/ task[h].at \notin {"created", "linked"} /\ Aside(task'[h])
    /\ \A c \in Callers : ask'[c].op = "create" => ask'[c] = ask[c]

\* A step that begins, marks and dispatches nothing.
RowsRest ==
    /\ UNCHANGED <<loop, recovering, received, again>>
    /\ ledger'.rows = ledger.rows
    /\ \A l \in DOMAIN ledger.leads : l \in DOMAIN ledger'.leads
    /\ faults'["lost"] >= faults["lost"]
    /\ \A c \in Callers : ask'[c] = ask[c] \/ ask'[c].op \notin {"enqueue", "begin", "mark"}
    /\ \A d \in Loops : /\ Going(d)' => Going(d)
                        /\ loop[d].at = "begun" => ask'[d] = ask[d] \/ ask'[d] = NoAsk
    /\ \A h \in Handlers : \A l : /\ Storing(h, l)' => Storing(h, l) \/ l \notin DOMAIN ledger.leads
                                  /\ Enqueuing(h, l)' <=> Enqueuing(h, l)

\* One delivery goes on: it ends, asks for its attempt, or says how that went.
LoopMoves(d, x) ==
    /\ ask[d] = NoAsk /\ loop[d] # NoLoop /\ x \in LoopState /\ (x.at = "idle" => x = NoLoop)
    /\ loop' = [loop EXCEPT ![d] = x]
    /\ UNCHANGED <<ledger, reply, task, recovering, again>>
    /\ \A c \in Callers : c # d => ask'[c] = ask[c]
    /\ \/ ask'[d] = NoAsk /\ x = NoLoop
       \/ ask'[d] = [op |-> "begin", row |-> d[1]] /\ x.at = "begun"
       \/ \E s \in {"PENDING", "SENT", "UNDELIVERABLE"} :
            /\ ask'[d] = [op |-> "mark", row |-> d[1], to |-> s] /\ x.at # "begun"
            /\ s = "SENT" => received'[d[1]] > 0
            /\ s = "PENDING" => x.at = "check"
    /\ \A r \in RowIds : r # d[1] => received'[r] = received[r]
    /\ \/ received'[d[1]] = received[d[1]] /\ faults'["lost"] = faults["lost"]
       \/ /\ Going(d) /\ received'[d[1]] = received[d[1]] + 1
          /\ \/ x = NoLoop /\ faults'["lost"] = faults["lost"]
             \/ faults'["lost"] = faults["lost"] + 1

-----------------------------------------------------------------------------
(* What the steps ask for and the transactions do, and the types in parts *)

BookOps == {"status", "start", "alert", "observe", "click", "register", "correct", "import",
            "describe", "refuse"}
LedgerOps == {"create", "follow", "annotate", "convert", "store", "sale", "enqueue", "begin", "mark"}

Credited == Campaigns \cup {None}

\* A queue is made of callers who wait for its document, each of them once.
Waits(queue, asks, R) ==
    /\ \A i \in 1 .. Len(queue) : asks[queue[i]] \in R
    /\ \A i, j \in 1 .. Len(queue) : queue[i] = queue[j] => i = j

\* A request that waits afterwards, an observation of a membership, or none.
CampaignAsk(c, q) ==
    /\ CampaignRequest(c, q) /\ SoundAsk(q)
    /\ \/ UNCHANGED task
       \/ \E p \in People : c = Home[p] /\ task' = [task EXCEPT ![c] = [at |-> "membership", who |-> p]]
    /\ known' \in [memory : SUBSET People, file : SUBSET People]
    /\ clicks' \subseteq [campaign : Campaigns, at : Nat]

Observation(h, q) ==
    /\ task[h].at = "membership" /\ ask[h] = NoAsk /\ AsksBook(h, q)
    /\ q.op = "observe" /\ q.at = now
    /\ task' = [task EXCEPT ![h] = NoTask]
    /\ UNCHANGED <<book, reply, known, clicks, now, faults, budget>>

NoObservation(h) ==
    /\ task[h].at = "membership" /\ ask[h] = NoAsk
    /\ task' = [task EXCEPT ![h] = NoTask]
    /\ UNCHANGED <<ask, bookQueue, book, reply, known, clicks, now, faults, budget>>

Touch == [first : Campaigns \cup {None}, last : Campaigns \cup {None}, at : Nat]
Aggregate == [key : Aggregates, status : {"ACTIVE", "SUPERSEDED"}]
Outcome == [lead : Nat, status : {"ACTIVE", "CORRECTED"}]

\* A touch that comes later is the last one.
Later(old, c, t) ==
    IF old = NoTouch THEN [first |-> c, last |-> c, at |-> t]
    ELSE IF t > old.at THEN [old EXCEPT !.last = c, !.at = t] ELSE old

\* A row is replaced by one that is made from it.
Replaced(b, n, q) ==
    LET i == q.row
        k == b.conversions[i]
        m == Len(b.conversions) + 1
    IN /\ k.status = "ACTIVE"
       /\ n.conversions \in Seq(ConversionRecord) /\ Len(n.conversions) = m
       /\ DOMAIN n.conversions = 1 .. m /\ m \notin DOMAIN b.conversions
       /\ \A j \in 1 .. m : j \in DOMAIN b.conversions \/ j = m
       /\ \A j \in DOMAIN b.conversions : j \in 1 .. m /\ (j # i => n.conversions[j] = b.conversions[j])
       /\ n.conversions[i].type = k.type /\ n.conversions[i].who = k.who
       /\ n.conversions[i].at = k.at /\ n.conversions[i].campaign = k.campaign
       /\ n.conversions[i].status = "CORRECTED" /\ n.conversions[i].by = m
       /\ n.conversions[i].from = k.from
       /\ n.conversions[m].type = k.type /\ n.conversions[m].who = k.who
       /\ n.conversions[m].at = q.at /\ n.conversions[m].campaign = q.campaign
       /\ n.conversions[m].status = "ACTIVE" /\ n.conversions[m].by = 0 /\ n.conversions[m].from = i

\* What an operator asks of a lead.
OperatorAsk(h, q) ==
    /\ SalesRequest(h, q)
    /\ q.op \in {"follow", "annotate", "convert", "sale"} /\ q.lead \in DOMAIN ledger.leads
    /\ q.op # "convert" => UNCHANGED task
    /\ q.op = "convert" => task' = [task EXCEPT ![h] = [at |-> "converted", lead |-> q.lead]]
    /\ q.op = "sale" => q.was = ledger.leads[q.lead] /\ q.existing = ActiveOutcome(q.lead)

\* A form is filled, and stays the one it is.
Filled(p) ==
    \E f \in Form : f.key = forms[p].key /\ forms' = [forms EXCEPT ![p] = f]

\* What each kind of request makes of its document.
BookResultOf(q, n) ==
    /\ q.op \in {"status", "describe", "refuse"} =>
        n.events = book.events /\ n.touched = book.touched /\ n.conversions = book.conversions
        /\ n.imports = book.imports
    /\ q.op = "start" => n = Started(book, q)
    /\ q.op = "alert" => n = Alerted(book, q)
    /\ q.op = "observe" => n = Observed(book, q)
    /\ q.op = "click" => n = Clicked(book, q)
    /\ q.op = "register" => n = Registered(book, q)
    /\ q.op = "correct" => n = Corrected(book, q)
    /\ q.op = "import" => n = Imported(book, q)

NeedsLead == {"follow", "annotate", "convert", "enqueue", "store", "sale"}

LedgerResultOf(q, n) ==
    /\ q.op = "create" => n = Created(ledger, q)
    /\ q.op = "follow" => n = Followed(ledger, q)
    /\ q.op = "annotate" => n = Annotated(ledger, q)
    /\ q.op = "convert" => n = Converted(ledger, q)
    /\ q.op = "store" => n = Stored(ledger, q)
    /\ q.op = "sale" => n = Sold(ledger, q)
    /\ q.op = "enqueue" => n = Enqueued(ledger, q)
    /\ q.op = "begin" => n = Begun(ledger, q)
    /\ q.op = "mark" => n = Marked(ledger, q)

Budget == [requests : Nat, campaigns : Nat, forms : Nat, ticks : Nat]

\* The type of everything but the documents and what is asked of them.
RestOK ==
    /\ reply \in [Callers -> Int \cup {None}]
    /\ task \in [Handlers -> Task]
    /\ known \in [memory : SUBSET People, file : SUBSET People]
    /\ clicks \subseteq [campaign : Campaigns, at : Nat]
    /\ forms \in [People -> Form \cup {NoForm}]
    /\ loop \in [Loops -> LoopState]
    /\ recovering \subseteq [row : RowIds, doubt : BOOLEAN]
    /\ received \in [RowIds -> Nat] /\ again \in [RowIds -> Nat]
    /\ faults \in [Kinds -> Nat]
    /\ budget \in Budget
    /\ opened \in Nat /\ now \in Nat

AsksOK ==
    /\ bookQueue \in Seq(Callers) /\ ledgerQueue \in Seq(Callers)
    /\ ask \in [Callers -> AskType]

\* The conversion of a customer is asked for, or known to be there.
Links(h, type, p, t) ==
    /\ \/ AsksBook(h, RegisterAsk(type, p, t)) /\ UNCHANGED reply
       \/ reply' = [reply EXCEPT ![h] = 0] /\ UNCHANGED <<ask, bookQueue>>
    /\ RegisterAsk(type, p, t) \in BookRequest /\ SoundAsk(RegisterAsk(type, p, t))
    /\ RegisterAsk(type, p, t).op = "register" /\ RegisterAsk(type, p, t).type = type
    /\ RegisterAsk(type, p, t).who = p
    /\ UNCHANGED <<book, known, clicks, now, faults, budget>>

\* NamesExist of one request and of one handler, in given documents.
NamedAsk(q, b, g) ==
    /\ q.op = "correct" => q.row \in DOMAIN b.conversions
    /\ q.op \in NeedsLead => q.lead \in DOMAIN g.leads

NamedTask(t, q, a, g) ==
    /\ t.at \in {"linked", "enqueued", "converted", "customer"} => t.lead \in DOMAIN g.leads
    /\ t.at = "retry" => t.left \subseteq DOMAIN g.leads
    /\ t.at = "created" /\ q = NoAsk /\ a \notin {0, None} => LeadOf(a) \in DOMAIN g.leads
    /\ t.at = "created" => q = NoAsk \/ q.op = "create"
    /\ t.at = "customer" => IF q = NoAsk THEN a \in Nat ELSE q.op = "register"

\* No row is ever removed.
DocumentsGrow ==
    /\ \A i \in DOMAIN book.conversions : i \in DOMAIN book'.conversions
    /\ \A l \in DOMAIN ledger.leads : l \in DOMAIN ledger'.leads

NewsTypes ==
    /\ received \in [RowIds -> Nat] /\ again \in [RowIds -> Nat] /\ faults["lost"] \in Nat
    /\ ledger \in Ledger /\ \A r \in RowIds : ledger.rows[r] \in Row
    /\ loop \in [Loops -> LoopState] /\ task \in [Handlers -> Task] /\ ask \in [Callers -> AskType]
    /\ recovering \subseteq [row : RowIds, doubt : BOOLEAN]

CountsOK ==
    /\ \A d \in Loops : /\ GoingAt(d) \in {0, 1} /\ WaitingAt(d) \in {0, 1}
                        /\ Going(d) => GoingAt(d) = 1 /\ WaitingAt(d) = 0
                        /\ ~ Going(d) => GoingAt(d) = 0
                        /\ Waiting(d) => WaitingAt(d) = 1
                        /\ ~ Waiting(d) => WaitingAt(d) = 0
    /\ \A r \in RowIds : ComingTo(r) \in {0, 1} /\ FailingAt(r) \in {0, 1}
=============================================================================
