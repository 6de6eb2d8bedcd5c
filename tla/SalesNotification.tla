------------------------- MODULE SalesNotification -------------------------
(***************************************************************************)
(* The news of a lead (sales/sales-notification.service.ts): one row for   *)
(* each recipient, delivered by a loop of its own that the update handler  *)
(* does not await; the start of the process, which takes up the rows that  *)
(* it finds PENDING while updates are polled already; and the system of    *)
(* sales and campaigns, with its crashes.                                  *)
(***************************************************************************)
EXTENDS Sales

CONSTANTS
    Reachable,   \* recipients whose platform has an adapter
    MaxAttempts  \* SALES_NOTIFICATION_MAX_ATTEMPTS

\* A row is delivered by one loop, or by two if its delivery is asked for again.
Loops == RowIds \X {1, 2}

ASSUME NotificationAssumption ==
    /\ Reachable \subseteq Targets
    /\ MaxAttempts \in Nat \ {0}
    /\ Loops \subseteq Callers \ (Handlers \cup {Web, Boot})

VARIABLES
    loop,       \* the deliveries of each row that run, and their attempts
    recovering, \* rows the start of the process has yet to deal with, in any order
    received,   \* what each recipient has received of each lead
    again       \* rows dispatched once more by an operator

notificationVars == <<loop, recovering, received, again>>
vars == <<campaignVars, sharedVars, salesVars, notificationVars>>

NoLoop == [at |-> "idle", tries |-> 0]
LoopState == [at : {"idle", "check", "begun"}, tries : 0 .. MaxAttempts]
Checking == [at |-> "check", tries |-> 0]

Marks(c, r, status) == AsksLedger(c, [op |-> "mark", row |-> r, to |-> status])

LoopGoes(d, l) == loop' = [loop EXCEPT ![d] = l]

LoopOnly == UNCHANGED <<ledger, forms, opened, reply, task, budget, recovering, again, campaignVars>>

Idle(r) == {n \in {1, 2} : loop[<<r, n>>] = NoLoop}

\* dispatch(): one more loop for each of these rows.
Dispatched(S) ==
    [d \in Loops |-> IF /\ d[1] \in S /\ d[2] \in Idle(d[1])
                       /\ \A n \in Idle(d[1]) : d[2] <= n
                    THEN Checking ELSE loop[d]]

Pending == {r \in RowIds : ledger.rows[r].status = "PENDING"}

DispatchOnly == UNCHANGED <<salesVars, ask, reply, faults, budget, recovering, received, campaignVars>>

\* dispatchForLead(), after enqueueForLead(), whatever became of that.
Dispatch(h) ==
    /\ Answered(h, "enqueued")
    /\ loop' = Dispatched({r \in Pending : r[1] = task[h].lead})
    /\ Goes(h, NoTask)
    /\ UNCHANGED again
    /\ DispatchOnly

\* The end of /sales retry: every row that is PENDING, under way or not.
DispatchAgain(h) ==
    /\ Answered(h, "retry") /\ task[h].left = {}
    /\ \A r \in Pending : Idle(r) # {}
    /\ loop' = Dispatched(Pending)
    /\ again' = [r \in RowIds |-> again[r] + IF r \in Pending THEN 1 ELSE 0]
    /\ Goes(h, NoTask)
    /\ DispatchOnly

Exhausted(d) == loop[d].tries >= MaxAttempts

\* deliver(), at the head of its loop and after it.
CheckRow(d) ==
    /\ loop[d].at = "check" /\ ask[d] = NoAsk
    /\ LET r == d[1] IN
       IF \/ Exhausted(d) /\ ledger.rows[r].status = "SENT"
          \/ ~ Exhausted(d) /\ ledger.rows[r].status # "PENDING"
       THEN LoopGoes(d, NoLoop) /\ UNCHANGED <<ask, ledgerQueue>>
       ELSE IF Exhausted(d) \/ r[2] \notin Reachable
       THEN LoopGoes(d, NoLoop) /\ Marks(d, r, "UNDELIVERABLE")
       ELSE /\ LoopGoes(d, [at |-> "begun", tries |-> loop[d].tries + 1])
            /\ AsksLedger(d, [op |-> "begin", row |-> r])
    /\ UNCHANGED <<faults, received>>
    /\ LoopOnly

\* Without a counted attempt nothing is sent, and the loop ends.
NotBegun(d) ==
    /\ loop[d].at = "begun" /\ ask[d] = NoAsk /\ reply[d] # 1
    /\ LoopGoes(d, NoLoop)
    /\ UNCHANGED <<ask, ledgerQueue, faults, received>>
    /\ LoopOnly

Began(d) == loop[d].at = "begun" /\ ask[d] = NoAsk /\ reply[d] = 1

Deliver(d) ==
    /\ Began(d)
    /\ received' = [received EXCEPT ![d[1]] = @ + 1]
    /\ \/ LoopGoes(d, NoLoop) /\ Marks(d, d[1], "SENT") /\ UNCHANGED faults
       \/ Faulty("lost") /\ LoopGoes(d, [loop[d] EXCEPT !.at = "check"]) /\ Marks(d, d[1], "PENDING")
    /\ LoopOnly

\* Mutant: an attempt that failed is the last one.
FailForGood(d) ==
    /\ Began(d)
    /\ LoopGoes(d, NoLoop)
    /\ Marks(d, d[1], "PENDING")
    /\ UNCHANGED <<faults, received>>
    /\ LoopOnly

Fail(d) ==
    /\ Began(d)
    /\ LoopGoes(d, [loop[d] EXCEPT !.at = "check"])
    /\ Marks(d, d[1], "PENDING")
    /\ UNCHANGED <<faults, received>>
    /\ LoopOnly

-----------------------------------------------------------------------------
(* Crash and start *)

Restarted ==
    /\ ask' = [c \in Callers |-> NoAsk]
    /\ reply' = [c \in Callers |-> 0]
    /\ task' = [h \in Handlers |-> NoTask]
    /\ bookQueue' = <<>> /\ ledgerQueue' = <<>>
    /\ forms' = [p \in People |-> NoForm]
    /\ clicks' = {}
    /\ known' = [known EXCEPT !.memory = known.file]
    /\ loop' = [d \in Loops |-> NoLoop]

\* The last attempt has no outcome.
InDoubt(r) == ledger.rows[r].attempts > 0 /\ ~ ledger.rows[r].failed

Crash ==
    /\ Faulty("crash")
    /\ Restarted
    /\ recovering' = {[row |-> r, doubt |-> InDoubt(r)] : r \in Pending}
    /\ UNCHANGED <<book, ledger, now, opened, budget, received, again>>

\* Mutant: rows in doubt are sent again.
RecoverAll(e) ==
    /\ ask[Boot] = NoAsk
    /\ loop' = Dispatched({e.row})
    /\ recovering' = recovering \ {e}
    /\ UNCHANGED <<ledger, forms, opened, ask, ledgerQueue, reply, task, faults, budget, received, again, campaignVars>>

\* recoverPending(): what to do is decided on the row as the start found it.  At
\* most two deliveries of a row are followed.
Recover(e) ==
    /\ ask[Boot] = NoAsk
    /\ IF e.doubt
       THEN Marks(Boot, e.row, "UNDELIVERABLE") /\ UNCHANGED loop
       ELSE Idle(e.row) # {} /\ loop' = Dispatched({e.row}) /\ UNCHANGED <<ask, ledgerQueue>>
    /\ recovering' = recovering \ {e}
    /\ UNCHANGED <<ledger, forms, opened, reply, task, faults, budget, received, again, campaignVars>>

\* Updates are served while recoverPending() awaits the mark of a row in doubt; it
\* does the rest at once.
Serving == recovering = {} \/ ask[Boot] # NoAsk

-----------------------------------------------------------------------------
\* A lead from before, about to become a customer; the campaigns come after it.
OldLead == [NewLead(CHOOSE p \in People : TRUE, 0, 1) EXCEPT !.status = "QUALIFIED"]

OldBook == [NoBook EXCEPT !.conversions = <<Conversion("LEAD", OldLead.who, 1, None, 0)>>]

OldLedger == [NoLedger EXCEPT !.leads = <<OldLead>>,
    !.rows = [r \in RowIds |-> IF r[1] = 1 THEN [NoRow EXCEPT !.status = "SENT", !.attempts = 1] ELSE NoRow]]

Init ==
    /\ ask = [c \in Callers |-> NoAsk]
    /\ reply = [c \in Callers |-> 0]
    /\ task = [h \in Handlers |-> NoTask]
    /\ faults = [k \in Kinds |-> 0]
    /\ budget \in Budgets /\ opened = 0
    /\ ledgerQueue = <<>>
    /\ forms = [p \in People |-> NoForm]
    /\ loop = [d \in Loops |-> NoLoop]
    /\ recovering = {}
    /\ CampaignStart
    /\ \/ /\ book = [NoBook EXCEPT !.status = [c \in Campaigns |-> "ACTIVE"]]
          /\ ledger = NoLedger
          /\ known = [memory |-> {}, file |-> {}]
       \/ /\ ledger = OldLedger
          /\ book = OldBook
          /\ known = [memory |-> People, file |-> People]
    /\ again = [r \in RowIds |-> 0]
    /\ received = [r \in RowIds |-> ledger.rows[r].attempts]

Next ==
    \/ Serving /\ CampaignStep /\ UNCHANGED <<salesVars, notificationVars>>
    \/ Serving /\ FormStep /\ UNCHANGED notificationVars
    \/ Serving /\ SalesStep /\ UNCHANGED notificationVars
    \/ LedgerTransact /\ UNCHANGED notificationVars
    \/ \E h \in Handlers : Dispatch(h) \/ DispatchAgain(h)
    \/ \E d \in Loops : CheckRow(d) \/ NotBegun(d) \/ Deliver(d) \/ Fail(d)
    \/ Crash
    \/ \E e \in recovering : Recover(e)

Spec == Init /\ [][Next]_vars

-----------------------------------------------------------------------------
TypeOK ==
    /\ book \in Book /\ ledger \in Ledger
    /\ bookQueue \in Seq(Callers) /\ ledgerQueue \in Seq(Callers)
    /\ ask \in [Callers -> BookRequest \cup LedgerRequest \cup {NoAsk}]
    /\ reply \in [Callers -> Int \cup {None}]
    /\ task \in [Handlers -> Task]
    /\ known \in [memory : SUBSET People, file : SUBSET People]
    /\ clicks \subseteq [campaign : Campaigns, at : Nat]
    /\ forms \in [People -> Form \cup {NoForm}]
    /\ loop \in [Loops -> LoopState]
    /\ recovering \subseteq [row : RowIds, doubt : BOOLEAN]
    /\ received \in [RowIds -> Nat] /\ again \in [RowIds -> Nat]
    /\ faults \in [Kinds -> Nat]
    /\ budget \in [requests : Nat, campaigns : Nat, forms : Nat, ticks : Nat]
    /\ opened \in Nat /\ now \in Nat

-----------------------------------------------------------------------------
(* Beyond the one message, the news of a lead comes again only for an answer *)
(* that was lost or an operator who asked for what was pending: no crash and  *)
(* no failed write makes a second message, and a row is SENT only if one      *)
(* arrived (deliver, beginAttempt, recoverPending).                           *)
RepeatedNewsIsExplained ==
    \A r \in RowIds :
        /\ received[r] <= 1 + faults["lost"] + again[r]
        /\ ledger.rows[r].status = "SENT" => received[r] >= 1

(* The news of a lead comes once, whoever asks for its delivery again: a row  *)
(* for each recipient is to prevent a second message, but that of an answer   *)
(* that was lost (enqueueForLead, recoverPending, retryIntegrations).         *)
NewsComesOnce == \A r \in RowIds : received[r] <= 1 + faults["lost"]

(* What a lead names exists and is its own, although it is found outside the  *)
(* step that names it: the outcome of its sale is in force (recordSale), and  *)
(* its conversion, in another document, is one of that customer               *)
(* (convertToCustomer, linkCustomerToPhase8).                                 *)
LinksHold ==
    \A l \in DOMAIN ledger.leads :
        LET lead == ledger.leads[l] IN
        /\ lead.sale # 0 => /\ ledger.outcomes[lead.sale].lead = l
                            /\ ledger.outcomes[lead.sale].status = "ACTIVE"
        /\ lead.customer = "RECORDED" => lead.customerRow # 0
        /\ lead.customerRow # 0 =>
            /\ lead.customerRow \in DOMAIN book.conversions
            /\ book.conversions[lead.customerRow].type = "CUSTOMER"
            /\ book.conversions[lead.customerRow].who = lead.who

Quiet == /\ recovering = {}
         /\ \A c \in Callers : ask[c] = NoAsk
         /\ \A h \in Handlers : task[h] = NoTask
         /\ \A d \in Loops : loop[d] = NoLoop

(* Unless a write failed or the process died, every lead is told to everyone *)
(* it can be told to once nothing is under way: no row is left PENDING, and   *)
(* the form of a lead is gone (confirm, enqueueForLead, deliver).            *)
QuietMeansTold ==
    Quiet /\ faults["write"] + faults["crash"] = 0 =>
        \A l \in DOMAIN ledger.leads :
            /\ \A t \in Targets : ledger.rows[<<l, t>>].status \in {"SENT", "UNDELIVERABLE"}
            /\ \A p \in People : HasForm(p) => forms[p].key # ledger.leads[l].key

=============================================================================
