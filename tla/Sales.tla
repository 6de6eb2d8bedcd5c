------------------------------- MODULE Sales -------------------------------
(***************************************************************************)
(* Sales: the form a customer fills (bot/sales/sales-ux.service.ts), the   *)
(* leads, what operators make of them and their links to the conversions   *)
(* of the campaigns (sales/sales.service.ts), in a document of their own   *)
(* (sales/sales.store.ts).  Like that of the campaigns it is written       *)
(* transaction by transaction, on a draft; the two documents are written   *)
(* independently, so that a request that changes both may lose one of its  *)
(* steps.  Activity rows only ever accompany another change.               *)
(***************************************************************************)
EXTENDS Campaigns

CONSTANTS
    Targets,         \* recipients of the news of a lead, on the platform of its customer
    Boot,            \* the start of the process, as a caller
    MaxOpen          \* SALES_MAX_OPEN_LEADS_PER_IDENTITY

ASSUME SalesAssumption ==
    /\ MaxOpen \in Nat
    /\ IsFiniteSet(Targets) /\ People # {}
    /\ Boot \in Callers \ (Handlers \cup {Web})

VARIABLES
    ledger,      \* the document: leads, outcomes, notification rows
    ledgerQueue, \* its writeChain
    forms,       \* forms being filled, in memory
    opened       \* forms opened so far; a form's key is its number

salesVars == <<ledger, ledgerQueue, forms, opened>>

\* One lead may be there from the start.
RowIds == (1 .. MaxForms + 1) \X Targets

LeadStatus == {"NEW", "CONTACTED", "QUALIFIED", "CONVERTED", "LOST"}
Allowed == [NEW |-> {"CONTACTED", "LOST"},
            CONTACTED |-> {"QUALIFIED", "LOST"},
            QUALIFIED |-> {"CONVERTED", "LOST", "CONTACTED"},
            CONVERTED |-> {"QUALIFIED"},
            LOST |-> {"NEW"}]

\* The link of a lead to its LEAD conversion is never stored; that of a customer is.
NewLead(p, key, t) ==
    [who |-> p, key |-> key, status |-> "NEW", at |-> t, converted |-> 0,
     customer |-> "NONE", customerRow |-> 0, sale |-> 0]

Lead == [who : People, key : Nat, status : LeadStatus, at : Nat, converted : Nat,
         customer : {"NONE", "RECORDED", "ALREADY_RECORDED"}, customerRow : Nat, sale : Nat]

Row == [status : {"NONE", "PENDING", "SENT", "UNDELIVERABLE"}, attempts : Nat, failed : BOOLEAN]

Ledger == [leads : Seq(Lead),
           outcomes : Seq([lead : Nat, status : {"ACTIVE", "CORRECTED"}]),
           rows : [RowIds -> Row]]

NoRow == [status |-> "NONE", attempts |-> 0, failed |-> FALSE]
NoLedger == [leads |-> <<>>, outcomes |-> <<>>, rows |-> [r \in RowIds |-> NoRow]]

-----------------------------------------------------------------------------
(* The transactions on the ledger *)

Open(g, p) ==
    Indices(g.leads, LAMBDA l : l.who = p /\ l.status \in {"NEW", "CONTACTED", "QUALIFIED"})

OfKey(g, key) == Indices(g.leads, LAMBDA l : l.key = key)

Refused(g, q) == OfKey(g, q.key) = {} /\ MaxOpen > 0 /\ Cardinality(Open(g, q.who)) >= MaxOpen

\* createLead(): a key that is known answers its lead; the limit is read here.
Created(g, q) ==
    IF OfKey(g, q.key) # {} \/ Refused(g, q) THEN g
    ELSE [g EXCEPT !.leads = Append(@, NewLead(q.who, q.key, q.at))]

\* The status a request asks for is written whatever it is now.
Followed(g, q) == [g EXCEPT !.leads[q.lead].status = q.to]

\* Contacts, notes and assignees: rewritten on the lead found, no status changes.
Annotated(g, q) == [g EXCEPT !.leads[q.lead] = g.leads[q.lead]]

Converted(g, q) ==
    LET lead == g.leads[q.lead] IN
    [g EXCEPT !.leads[q.lead] = [lead EXCEPT !.status = "CONVERTED", !.converted = now]]

\* Mutant: what was not registered is linked all the same.
StoredAnyway(g, q) ==
    LET lead == g.leads[q.lead] IN
    [g EXCEPT !.leads[q.lead] = [lead EXCEPT !.customer = "RECORDED", !.customerRow = q.row]]

\* What registerConversion() was answered.
Stored(g, q) ==
    LET lead == g.leads[q.lead] IN
    [g EXCEPT !.leads[q.lead] =
        IF q.row = 0 THEN [lead EXCEPT !.customer = "ALREADY_RECORDED"]
        ELSE [lead EXCEPT !.customer = "RECORDED", !.customerRow = q.row]]

\* Mutant: the lead keeps the outcome that was replaced.
SoldAgain(g, q) ==
    LET new == Len(g.outcomes) + 1
        old == IF q.existing = 0 THEN g.outcomes
               ELSE [g.outcomes EXCEPT ![q.existing].status = "CORRECTED"]
    IN [g EXCEPT !.outcomes = Append(old, [lead |-> q.lead, status |-> "ACTIVE"]),
                 !.leads[q.lead] = IF q.was.sale = 0 THEN [q.was EXCEPT !.sale = new] ELSE q.was]

\* recordSale(): the outcome that was active, and the lead, as the request found them.
Sold(g, q) ==
    LET new == Len(g.outcomes) + 1
        old == IF q.existing = 0 THEN g.outcomes
               ELSE [g.outcomes EXCEPT ![q.existing].status = "CORRECTED"]
    IN [g EXCEPT !.outcomes = Append(old, [lead |-> q.lead, status |-> "ACTIVE"]),
                 !.leads[q.lead] = [q.was EXCEPT !.sale = new]]

\* enqueueForLead(): rows that exist stay as they are.
Enqueued(g, q) ==
    [g EXCEPT !.rows = [r \in RowIds |->
        IF r[1] = q.lead /\ @[r].status = "NONE" THEN [NoRow EXCEPT !.status = "PENDING"] ELSE @[r]]]

\* beginAttempt(): the attempt is counted before the message goes out.
Begun(g, q) ==
    LET row == g.rows[q.row] IN
    IF row.status # "PENDING" THEN g
    ELSE [g EXCEPT !.rows[q.row] = [row EXCEPT !.attempts = row.attempts + 1, !.failed = FALSE]]

\* writeState(): whatever the status was.
Marked(g, q) ==
    LET row == g.rows[q.row] IN
    [g EXCEPT !.rows[q.row] = [row EXCEPT !.status = q.to, !.failed = q.to # "SENT"]]

LedgerRequest ==
    [op : {"create"}, who : People, key : Nat, at : Nat]
    \cup [op : {"follow"}, lead : Nat \ {0}, to : LeadStatus]
    \cup [op : {"annotate", "convert", "enqueue"}, lead : Nat \ {0}]
    \cup [op : {"store"}, lead : Nat \ {0}, row : Nat]
    \cup [op : {"sale"}, lead : Nat \ {0}, was : Lead, existing : Nat]
    \cup [op : {"begin"}, row : RowIds]
    \cup [op : {"mark"}, row : RowIds, to : {"PENDING", "SENT", "UNDELIVERABLE"}]

LedgerResult(q) ==
    CASE q.op = "create" -> Created(ledger, q)
      [] q.op = "follow" -> Followed(ledger, q)
      [] q.op = "annotate" -> Annotated(ledger, q)
      [] q.op = "convert" -> Converted(ledger, q)
      [] q.op = "store" -> Stored(ledger, q)
      [] q.op = "sale" -> Sold(ledger, q)
      [] q.op = "enqueue" -> Enqueued(ledger, q)
      [] q.op = "begin" -> Begun(ledger, q)
      [] q.op = "mark" -> Marked(ledger, q)

\* What the transaction returns: the lead made, or the one found, as its negative,
\* None if refused, or that it is done.  What no caller looks at is left out.
LedgerReply(q, g) ==
    CASE q.op = "create" ->
            IF Refused(ledger, q) THEN None
            ELSE LET l == CHOOSE m \in OfKey(g, q.key) : TRUE IN IF g = ledger THEN -l ELSE l
      [] q.op = "begin" -> IF ledger.rows[q.row].status = "PENDING" THEN 1 ELSE None
      [] OTHER -> IF q.op = "convert" THEN 1 ELSE 0

AsksLedger(c, q) ==
    /\ ask' = [ask EXCEPT ![c] = q]
    /\ ledgerQueue' = Append(ledgerQueue, c)

LedgerTransact ==
    /\ ledgerQueue # <<>>
    /\ LET c == Head(ledgerQueue)
           g == LedgerResult(ask[c])
       IN /\ \/ ledger' = g /\ UNCHANGED faults
                /\ reply' = [reply EXCEPT ![c] = LedgerReply(ask[c], g)]
             \/ /\ ask[c].op \in {"create", "begin"} => g # ledger
                /\ Faulty("write") /\ UNCHANGED ledger /\ reply' = [reply EXCEPT ![c] = 0]
          /\ ask' = [ask EXCEPT ![c] = NoAsk]
    /\ ledgerQueue' = Tail(ledgerQueue)
    /\ UNCHANGED <<forms, opened, task, budget, campaignVars>>

-----------------------------------------------------------------------------
(* The form.  The name and the number are there or not; the rest is optional. *)

NoForm == [step |-> "none"]

EmptyForm(key) == [step |-> "name", key |-> key, name |-> FALSE, phone |-> FALSE]

Form == [step : {"name", "phone", "description", "notes", "confirm"}, key : Nat,
         name : BOOLEAN, phone : BOOLEAN]

HasForm(p) == forms[p] # NoForm

FormOnly == UNCHANGED <<ledger, ledgerQueue, ask, reply, task, faults, campaignVars>>

\* A category opens a form with a key of its own, whatever form was there.
OpenForm(p) ==
    /\ Free(Home[p])
    /\ Spend({"requests", "forms"})
    /\ opened' = opened + 1
    /\ forms' = [forms EXCEPT ![p] = EmptyForm(opened')]
    /\ FormOnly

FormKept == UNCHANGED <<opened, budget>> /\ FormOnly

\* A valid answer: an invalid one, or any text on the last screen, changes nothing.
Answer(p) ==
    /\ Free(Home[p]) /\ HasForm(p)
    /\ forms' = [forms EXCEPT ![p] =
         CASE @.step = "name" -> [@ EXCEPT !.name = TRUE, !.step = "phone"]
           [] @.step = "phone" -> [@ EXCEPT !.phone = TRUE, !.step = "description"]
           [] @.step = "description" -> [@ EXCEPT !.step = "notes"]
           [] @.step = "notes" -> [@ EXCEPT !.step = "confirm"]
           [] @.step = "confirm" -> @]
    /\ forms' # forms
    /\ FormKept

\* The button of any screen may be pressed while another one is up.
SkipDescription(p) ==
    /\ Free(Home[p]) /\ HasForm(p)
    /\ forms' = [forms EXCEPT ![p].step = "notes"]
    /\ FormKept

EditForm(p) ==
    /\ Free(Home[p]) /\ HasForm(p)
    /\ forms' = [forms EXCEPT ![p].name = FALSE, ![p].phone = FALSE, ![p].step = "name"]
    /\ FormKept

\* Cancel, the hub, a command, another screen, or a form that has expired.
LeaveForm(p) ==
    /\ Free(Home[p]) /\ HasForm(p)
    /\ forms' = [forms EXCEPT ![p] = NoForm]
    /\ FormKept

Confirm(p) ==
    LET h == Home[p] IN
    /\ Free(h) /\ HasForm(p)
    /\ IF forms[p].name /\ forms[p].phone
       THEN /\ AsksLedger(h, [op |-> "create", who |-> p, key |-> forms[p].key, at |-> now])
            /\ task' = [task EXCEPT ![h] = [at |-> "created", who |-> p]]
            /\ UNCHANGED forms
       ELSE /\ forms' = [forms EXCEPT ![p].step = "name"]
            /\ UNCHANGED <<ask, ledgerQueue, task>>
    /\ UNCHANGED <<ledger, opened, reply, faults, budget, campaignVars>>

-----------------------------------------------------------------------------
(* registerConversion() is called with nothing but the document of the        *)
(* campaigns in mind.  What it refuses because there is such a conversion and *)
(* what could not be written it answers alike: CONFLICT, here a reply of 0.   *)

NothingRegistered(h) ==
    /\ reply' = [reply EXCEPT ![h] = 0]
    /\ UNCHANGED <<ask, bookQueue, book, known, clicks, now, faults, budget>>

Link(h, type, p, t) ==
    IF FindActive(type, p) # {} THEN NothingRegistered(h)
    ELSE /\ AsksBook(h, RegisterAsk(type, p, t))
         /\ UNCHANGED <<reply, book, known, clicks, now, faults, budget>>

Answered(h, at) == task[h].at = at /\ ask[h] = NoAsk

Task ==
    {NoTask}
    \cup [at : {"membership", "created"}, who : People]
    \cup [at : {"linked"}, who : People, lead : Nat \ {0}]
    \cup [at : {"enqueued", "converted", "customer"}, lead : Nat \ {0}]
    \cup [at : {"retry"}, left : SUBSET (Nat \ {0}), done : {0, 1}]

Goes(h, t) == task' = [task EXCEPT ![h] = t]

\* The lead an answer names, and whether it was made for it.
LeadOf(a) == IF a \in Int /\ a < 0 THEN -a ELSE a
Made(a) == a > 0

\* The lead is stored: its conversion is registered before the form is dropped,
\* unless the lead was there already.
LeadStored(h) ==
    /\ Answered(h, "created") /\ reply[h] \notin {0, None}
    /\ LET l == LeadOf(reply[h]) IN
       /\ IF Made(reply[h]) THEN Link(h, "LEAD", task[h].who, ledger.leads[l].at) ELSE NothingRegistered(h)
       /\ Goes(h, [at |-> "linked", who |-> task[h].who, lead |-> l])
    /\ UNCHANGED salesVars

\* A failed write leaves the form as it is; the limit drops it.
LeadRefused(h) ==
    /\ Answered(h, "created") /\ reply[h] \in {0, None}
    /\ forms' = IF reply[h] = 0 THEN forms ELSE [forms EXCEPT ![task[h].who] = NoForm]
    /\ Goes(h, NoTask)
    /\ UNCHANGED <<ledger, ledgerQueue, opened, ask, reply, faults, budget, campaignVars>>

LeadLinked(h) ==
    /\ Answered(h, "linked")
    /\ forms' = [forms EXCEPT ![task[h].who] = NoForm]
    /\ AsksLedger(h, [op |-> "enqueue", lead |-> task[h].lead])
    /\ Goes(h, [at |-> "enqueued", lead |-> task[h].lead])
    /\ UNCHANGED <<ledger, opened, reply, faults, budget, campaignVars>>

-----------------------------------------------------------------------------
(* Operators, from either platform *)

SalesRequest(h, q) ==
    /\ Free(h)
    /\ Spend({"requests"})
    /\ AsksLedger(h, q)
    /\ UNCHANGED <<ledger, forms, opened, reply, faults, campaignVars>>

\* changeStatus(), markLost(): what is allowed is decided on what the request finds.
FollowUp(h, l, s) ==
    /\ s \in Allowed[ledger.leads[l].status] \ {"CONVERTED"}
    /\ SalesRequest(h, [op |-> "follow", lead |-> l, to |-> s])
    /\ UNCHANGED task

Annotate(h, l) == SalesRequest(h, [op |-> "annotate", lead |-> l]) /\ UNCHANGED task

Convert(h, l) ==
    /\ "CONVERTED" \in Allowed[ledger.leads[l].status]
    /\ SalesRequest(h, [op |-> "convert", lead |-> l])
    /\ Goes(h, [at |-> "converted", lead |-> l])

LeadConverted(h) ==
    /\ Answered(h, "converted")
    /\ LET lead == ledger.leads[task[h].lead] IN
       IF reply[h] = 0
       THEN Goes(h, NoTask)
            /\ UNCHANGED <<ask, reply, faults, budget, campaignVars>>
       ELSE Link(h, "CUSTOMER", lead.who, lead.converted)
            /\ Goes(h, [at |-> "customer", lead |-> task[h].lead])
    /\ UNCHANGED salesVars

CustomerLinked(h) ==
    /\ Answered(h, "customer")
    /\ AsksLedger(h, [op |-> "store", lead |-> task[h].lead, row |-> reply[h]])
    /\ Goes(h, NoTask)
    /\ UNCHANGED <<ledger, forms, opened, reply, faults, budget, campaignVars>>

\* activeOutcome(): the newest, should there be two.
ActiveOutcome(l) ==
    LET S == Indices(ledger.outcomes, LAMBDA o : o.lead = l /\ o.status = "ACTIVE") IN
    IF S = {} THEN 0 ELSE Max(S)

RecordSale(h, l) ==
    /\ ledger.leads[l].status = "CONVERTED"
    /\ SalesRequest(h, [op |-> "sale", lead |-> l, was |-> ledger.leads[l], existing |-> ActiveOutcome(l)])
    /\ UNCHANGED task

\* /sales retry: customers whose link is missing are registered, one after the
\* other, with the lead first; what is answered is counted and not stored.  The
\* news that is still PENDING is then dispatched.
Unlinked == Indices(ledger.leads, LAMBDA l : l.status = "CONVERTED" /\ l.customer = "NONE")

RetryLinks(h) ==
    /\ Free(h)
    /\ Spend({"requests"})
    /\ Goes(h, [at |-> "retry", left |-> Unlinked, done |-> 0])
    /\ UNCHANGED <<salesVars, ask, reply, faults, campaignVars>>

RetryNext(h) ==
    /\ Answered(h, "retry") /\ task[h].left # {}
    /\ LET t == task[h]
           lead == ledger.leads[Min(t.left)]
       IN IF t.done = 0
          THEN Link(h, "LEAD", lead.who, lead.at) /\ Goes(h, [at |-> "retry", left |-> t.left, done |-> 1])
          ELSE Link(h, "CUSTOMER", lead.who, lead.converted)
               /\ Goes(h, [at |-> "retry", left |-> t.left \ {Min(t.left)}, done |-> 0])
    /\ UNCHANGED salesVars

-----------------------------------------------------------------------------
FormStep ==
    \E p \in People :
        \/ OpenForm(p)
        \/ Answer(p)
        \/ SkipDescription(p)
        \/ EditForm(p)
        \/ LeaveForm(p)
        \/ Confirm(p)

SalesStep ==
    \E h \in Handlers :
        \/ LeadStored(h)
        \/ LeadRefused(h)
        \/ LeadLinked(h)
        \/ LeadConverted(h)
        \/ CustomerLinked(h)
        \/ RetryLinks(h)
        \/ RetryNext(h)
        \/ \E l \in DOMAIN ledger.leads :
            \/ \E s \in LeadStatus : FollowUp(h, l, s)
            \/ Annotate(h, l)
            \/ Convert(h, l)
            \/ RecordSale(h, l)
=============================================================================
