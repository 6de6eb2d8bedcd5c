----------------------------- MODULE Campaigns -----------------------------
(***************************************************************************)
(* Campaigns: their document (campaigns/campaign.store.ts), the tracked    *)
(* links (campaign.service.ts), starts, alerts and memberships             *)
(* (campaign-tracking.service.ts, attribution.ts), and the conversions and *)
(* aggregates operators register (campaign-conversion.service.ts).         *)
(*                                                                         *)
(* Every operation looks at the document, decides, and awaits one          *)
(* transaction.  Transactions run one after the other on a draft; the      *)
(* draft becomes the document once its file is written, so that a failed   *)
(* one changes nothing and a crash loses nothing that was committed.       *)
(* Refused requests are transactions too, but their counters are not kept. *)
(***************************************************************************)
EXTENDS Integers, Sequences, FiniteSets, FiniteSetsExt

CONSTANTS
    Campaigns,      \* campaigns and their tracking tokens
    People,         \* platform identities
    Alerts,         \* alerts of these people
    Aggregates,     \* dedup keys of imported aggregates
    None,           \* no campaign, nobody
    Handlers,       \* the update loops of the platforms
    Home,           \* the platform of each person, by its loop
    Web,            \* the requests to /c/<token>
    Callers,        \* whoever awaits a transaction
    Window,         \* CAMPAIGN_ATTRIBUTION_WINDOW
    MaxRaw,         \* CAMPAIGN_MAX_RAW_EVENTS; 0 is no limit
    Retention,      \* CAMPAIGN_RAW_EVENT_RETENTION, in steps of the clock; 0 is no limit
    CacheSize,      \* CLICK_DEDUPE_CACHE_SIZE
    MaxFaults,      \* bound on failed writes, lost answers and crashes
    MaxForms,       \* bound on forms
    Budgets         \* bounds: how many requests of platforms, web and operators, how
                    \* many of them about campaigns, how many that open a form,
                    \* and how many ticks of the clock

ASSUME CampaignsAssumption ==
    /\ None \notin Campaigns \cup People \cup Alerts \cup Int
    /\ Handlers \cup {Web} \subseteq Callers /\ Web \notin Handlers
    /\ Home \in [People -> Handlers]
    /\ {Window, MaxRaw, Retention, CacheSize, MaxFaults, MaxForms} \subseteq Nat
    /\ Budgets \subseteq [requests : Nat, campaigns : Nat, forms : 0 .. MaxForms, ticks : Nat]

VARIABLES
    book,       \* the document
    bookQueue,  \* its writeChain: the callers whose transactions wait
    ask,        \* what the transaction of each caller is to do
    reply,      \* what its last transaction returned: a row, or 0 if it failed
    task,       \* what the handler of each loop goes on with
    known,      \* identities, as the user store has them and as it saved them
    clicks,     \* recentClicks, in memory
    now,
    faults,     \* faults so far, by kind
    budget      \* what is left

campaignVars == <<book, bookQueue, known, clicks, now>>
sharedVars == <<ask, reply, task, faults, budget>>

CampaignStatus == {"NONE", "ACTIVE", "PAUSED", "ENDED"}
TouchStages == {"CLICK", "START", "CHANNEL_JOIN"}
ConversionTypes == {"LEAD", "CUSTOMER"}
NoAsk == [op |-> "none"]
NoTask == [at |-> "idle"]
NoTouch == [first |-> None, last |-> None, at |-> 0]

NoBook == [status |-> [c \in Campaigns |-> "NONE"],
           events |-> <<>>,
           touched |-> [p \in People |-> NoTouch],
           conversions |-> <<>>,
           imports |-> <<>>,
           members |-> [p \in People |-> "UNKNOWN"]]

Event == [type : TouchStages \cup {"ALERT_CREATED", "GONE"}, campaign : Campaigns \cup {None},
          who : People \cup {None}, at : Nat, key : Alerts \cup {None}]

ConversionRecord ==
    [type : ConversionTypes, who : People, at : Nat, campaign : Campaigns \cup {None},
     status : {"ACTIVE", "CORRECTED"}, by : Nat, from : Nat]

Book == [status : [Campaigns -> CampaignStatus],
         events : Seq(Event),
         touched : [People -> [first : Campaigns \cup {None}, last : Campaigns \cup {None}, at : Nat]],
         conversions : Seq(ConversionRecord),
         imports : Seq([key : Aggregates, status : {"ACTIVE", "SUPERSEDED"}]),
         members : [People -> {"UNKNOWN", "MEMBER", "NOT_MEMBER"}]]

Kinds == {"write", "lost", "crash"}
Faulty(kind) ==
    /\ faults["write"] + faults["lost"] + faults["crash"] < MaxFaults
    /\ faults' = [faults EXCEPT ![kind] = @ + 1]

-----------------------------------------------------------------------------
(* Attribution.  Events are appended in the order of their times, so that   *)
(* the touches of an identity are already sorted.  One that was pruned is    *)
(* Gone from its place.                                                      *)

Gone == [type |-> "GONE", campaign |-> None, who |-> None, at |-> 0, key |-> None]

Touches(b, p) ==
    {i \in DOMAIN b.events : LET e == b.events[i] IN
        e.who = p /\ e.campaign # None /\ e.type \in TouchStages}

Eligible(b, p, t) ==
    {i \in Touches(b, p) : b.events[i].at <= t /\ t - b.events[i].at <= Window}

\* Mutant: a touch is taken whenever it happened.
CreditAnyTouch(b, p, t) ==
    IF Touches(b, p) = {} THEN None ELSE b.events[Max(Touches(b, p))].campaign

\* The last eligible touch is credited; it exists if and only if a first one does.
Credit(b, p, t) ==
    IF Eligible(b, p, t) = {} THEN None ELSE b.events[Max(Eligible(b, p, t))].campaign

\* applyTouch(): the first touch stays; the last one is replaced by a later one.
Touched(b, p, c, t) ==
    [b EXCEPT !.touched[p] =
        IF @ = NoTouch THEN [first |-> c, last |-> c, at |-> t]
        ELSE IF t > @.at THEN [@ EXCEPT !.last = c, !.at = t] ELSE @]

-----------------------------------------------------------------------------
(* The transactions: what each makes of the document it finds. *)

Indices(s, Test(_)) == {i \in DOMAIN s : Test(s[i])}

Recorded(b, type, c, p, t, key) ==
    [b EXCEPT !.events = Append(@,
        [type |-> type, campaign |-> c, who |-> p, at |-> t, key |-> key])]

HasEvent(b, type, c, p) ==
    \E i \in DOMAIN b.events :
        b.events[i].type = type /\ b.events[i].campaign = c /\ b.events[i].who = p

\* Mutant: a start counts whenever it is asked for.
StartedAgain(b, q) ==
    Touched(Recorded(b, "START", q.campaign, q.who, q.at, None), q.who, q.campaign, q.at)

Started(b, q) ==
    IF HasEvent(b, "START", q.campaign, q.who) THEN b
    ELSE Touched(Recorded(b, "START", q.campaign, q.who, q.at, None), q.who, q.campaign, q.at)

Alerted(b, q) ==
    IF \E i \in DOMAIN b.events : b.events[i].key = q.key THEN b
    ELSE Recorded(b, "ALERT_CREATED", q.campaign, q.who, q.at, q.key)

\* A join is a membership that was not there at the last look.
Observed(b, q) ==
    LET seen == [b EXCEPT !.members[q.who] = q.state]
        joined == Recorded(seen, "CHANNEL_JOIN", q.campaign, q.who, q.at, None)
    IN IF ~ q.transition THEN seen
       ELSE IF q.campaign = None THEN joined ELSE Touched(joined, q.who, q.campaign, q.at)

Expired(e, t) == Retention > 0 /\ t - e.at > Retention

\* Mutant: the retention of requests takes whatever is old.
PrunedAll(b, t) ==
    [b EXCEPT !.events = [i \in DOMAIN @ |-> IF Expired(@[i], t) THEN Gone ELSE @[i]]]

\* pruneClicks(): requests that are too old, and those beyond the newest MaxRaw
\* of their campaign, are removed; nothing else ever is.
Pruned(b, t) ==
    LET fresh == Indices(b.events, LAMBDA e : e.type = "CLICK" /\ ~ Expired(e, t))
        newer(i) == {j \in fresh : /\ b.events[j].campaign = b.events[i].campaign
                                   /\ \/ b.events[j].at > b.events[i].at
                                      \/ b.events[j].at = b.events[i].at /\ j < i}
        kept == Indices(b.events, LAMBDA e : e.type # "CLICK")
                \cup {i \in fresh : MaxRaw > 0 => Cardinality(newer(i)) < MaxRaw}
    IN [b EXCEPT !.events = [i \in DOMAIN @ |-> IF i \in kept THEN @[i] ELSE Gone]]

Clicked(b, q) == Pruned(Recorded(b, "CLICK", q.campaign, None, q.at, None), q.at)

\* supersededBy, and, for the property only, the row this one was copied from.
Conversion(type, p, t, c, from) ==
    [type |-> type, who |-> p, at |-> t, campaign |-> c, status |-> "ACTIVE", by |-> 0, from |-> from]

Registered(b, q) ==
    [b EXCEPT !.conversions = Append(@, Conversion(q.type, q.who, q.at, q.campaign, 0))]

\* Mutant: the row is corrected although it has been meanwhile.
CorrectedBlindly(b, q) ==
    LET old == b.conversions[q.row] IN
    [b EXCEPT !.conversions =
        Append([@ EXCEPT ![q.row] = [old EXCEPT !.status = "CORRECTED", !.by = Len(b.conversions) + 1]],
               Conversion(old.type, old.who, q.at, q.campaign, q.row))]

\* correctConversion(): the row that is replaced must still be ACTIVE.
Corrected(b, q) ==
    LET old == b.conversions[q.row] IN
    IF old.status # "ACTIVE" THEN b
    ELSE [b EXCEPT !.conversions =
            Append([@ EXCEPT ![q.row] = [old EXCEPT !.status = "CORRECTED", !.by = Len(b.conversions) + 1]],
                   Conversion(old.type, old.who, q.at, q.campaign, q.row))]

\* Mutant: the number replaced is the one the request looked at.
ImportedAsSeen(b, q) ==
    [b EXCEPT !.imports =
        Append([i \in DOMAIN @ |-> IF i \in q.seen THEN [@[i] EXCEPT !.status = "SUPERSEDED"] ELSE @[i]],
               [key |-> q.key, status |-> "ACTIVE"])]

\* importAggregate(): the last row of the key, if any, is superseded.
Imported(b, q) ==
    LET last == Indices(b.imports, LAMBDA r : r.key = q.key) IN
    [b EXCEPT !.imports =
        Append([i \in DOMAIN @ |-> IF i \in last /\ \A j \in last : j <= i
                                   THEN [@[i] EXCEPT !.status = "SUPERSEDED"] ELSE @[i]],
               [key |-> q.key, status |-> "ACTIVE"])]

BookRequest ==
    [op : {"describe", "refuse"}]
    \cup [op : {"status"}, campaign : Campaigns, to : CampaignStatus]
    \cup [op : {"start"}, campaign : Campaigns, who : People, at : Nat]
    \cup [op : {"alert"}, campaign : Campaigns, who : People, at : Nat, key : Alerts]
    \cup [op : {"observe"}, who : People, state : {"MEMBER", "NOT_MEMBER"},
          campaign : Campaigns \cup {None}, at : Nat, transition : BOOLEAN]
    \cup [op : {"click"}, campaign : Campaigns, at : Nat]
    \cup [op : {"register"}, type : ConversionTypes, who : People, at : Nat,
          campaign : Campaigns \cup {None}]
    \cup [op : {"correct"}, row : Nat \ {0}, at : Nat, campaign : Campaigns \cup {None}]
    \cup [op : {"import"}, key : Aggregates, seen : SUBSET Nat]

BookResult(q) ==
    CASE q.op = "status" -> [book EXCEPT !.status[q.campaign] = q.to]
      [] q.op = "start" -> Started(book, q)
      [] q.op = "alert" -> Alerted(book, q)
      [] q.op = "observe" -> Observed(book, q)
      [] q.op = "click" -> Clicked(book, q)
      [] q.op = "register" -> Registered(book, q)
      [] q.op = "correct" -> Corrected(book, q)
      [] q.op = "import" -> Imported(book, q)
      [] q.op \in {"describe", "refuse"} -> book

AsksBook(c, q) ==
    /\ ask' = [ask EXCEPT ![c] = q]
    /\ bookQueue' = Append(bookQueue, c)

\* The first transaction runs; a register returns the row it made.
BookTransact ==
    /\ bookQueue # <<>>
    /\ LET c == Head(bookQueue)
           b == BookResult(ask[c])
       IN /\ \/ /\ book' = b /\ UNCHANGED faults
                /\ reply' = [reply EXCEPT ![c] =
                        IF ask[c].op = "register" THEN Len(b.conversions) ELSE 0]
             \/ Faulty("write") /\ UNCHANGED book /\ reply' = [reply EXCEPT ![c] = 0]
          /\ ask' = [ask EXCEPT ![c] = NoAsk]
    /\ bookQueue' = Tail(bookQueue)
    /\ UNCHANGED <<task, known, clicks, now, budget>>

-----------------------------------------------------------------------------
(* The requests *)

Free(c) == ask[c] = NoAsk /\ (c \in Handlers => task[c] = NoTask)

Spend(kinds) ==
    /\ \A k \in kinds : budget[k] > 0
    /\ budget' = [k \in DOMAIN budget |-> IF k \in kinds THEN budget[k] - 1 ELSE budget[k]]

CampaignRequest(c, q) ==
    /\ Free(c)
    /\ Spend({"requests", "campaigns"})
    /\ AsksBook(c, q)
    /\ UNCHANGED <<book, reply, now, faults>>

CreateCampaign(h, c) ==
    /\ book.status[c] = "NONE"
    /\ CampaignRequest(h, [op |-> "status", campaign |-> c, to |-> "ACTIVE"])
    /\ UNCHANGED <<task, known, clicks>>

\* validateTransition(), on the status the handler finds.
Transitions == [NONE |-> {}, ACTIVE |-> {"PAUSED", "ENDED"},
                PAUSED |-> {"ACTIVE", "ENDED"}, ENDED |-> {}]

SetStatus(h, c, s) ==
    /\ s \in Transitions[book.status[c]]
    /\ CampaignRequest(h, [op |-> "status", campaign |-> c, to |-> s])
    /\ UNCHANGED <<task, known, clicks>>

\* updateMetadata(), setCost(): what they rewrite is not represented.
Describe(h, c) ==
    /\ book.status[c] # "NONE"
    /\ CampaignRequest(h, [op |-> "describe"])
    /\ UNCHANGED <<task, known, clicks>>

\* Campaigns without a date range: ACTIVE ones accept.
Accepting(c) == book.status[c] = "ACTIVE"

Click(c, human) ==
    /\ book.status[c] # "NONE"
    /\ LET again == [campaign |-> c, at |-> now] \in clicks
           older(S) == {k \in S : \A l \in S : k.at <= l.at}
       IN IF Accepting(c) /\ human /\ ~ again
          THEN /\ CampaignRequest(Web, [op |-> "click", campaign |-> c, at |-> now])
               /\ LET S == clicks \cup {[campaign |-> c, at |-> now]} IN
                  IF Cardinality(S) > CacheSize
                  THEN \E k \in older(S) : clicks' = S \ {k}
                  ELSE clicks' = S
          ELSE /\ CampaignRequest(Web, [op |-> "refuse"])
               /\ UNCHANGED clicks
    /\ UNCHANGED <<task, known>>

\* /start with a token, of an identity the user store does not know: the start
\* is recorded or refused, and the membership is asked for afterwards.  The file
\* of users may not be written: the identity is then new again after a crash.
Start(h, p, c) ==
    /\ h = Home[p]
    /\ p \notin known.memory
    /\ \E saved \in BOOLEAN :
        known' = [memory |-> known.memory \cup {p},
                  file |-> IF saved THEN known.memory \cup {p} ELSE known.file]
    /\ book.status[c] # "NONE"
    /\ CampaignRequest(h, IF Accepting(c)
                          THEN [op |-> "start", campaign |-> c, who |-> p, at |-> now]
                          ELSE [op |-> "refuse"])
    /\ task' = [task EXCEPT ![h] = [at |-> "membership", who |-> p]]
    /\ UNCHANGED clicks

\* getChatMember() has answered, or not: what is compared is read now.
MembershipAnswered(h) ==
    /\ task[h].at = "membership" /\ ask[h] = NoAsk
    /\ LET p == task[h].who IN
        \/ \E state \in {"MEMBER", "NOT_MEMBER"} :
            AsksBook(h, [op |-> "observe", who |-> p, state |-> state,
                         campaign |-> Credit(book, p, now), at |-> now,
                         transition |-> book.members[p] = "NOT_MEMBER" /\ state = "MEMBER"])
        \/ UNCHANGED <<ask, bookQueue>>
    /\ task' = [task EXCEPT ![h] = NoTask]
    /\ UNCHANGED <<book, reply, known, clicks, now, faults, budget>>

\* An alert was created: it is recorded for the campaign of its owner, if any.
AlertCreated(h, p, a) ==
    /\ h = Home[p]
    /\ \A i \in DOMAIN book.events : book.events[i].key # a
    /\ Credit(book, p, now) # None
    /\ CampaignRequest(h, [op |-> "alert", campaign |-> Credit(book, p, now), who |-> p,
                           at |-> now, key |-> a])
    /\ UNCHANGED <<task, known, clicks>>

FindActive(type, p) ==
    Indices(book.conversions, LAMBDA k : k.status = "ACTIVE" /\ k.type = type /\ k.who = p)

RegisterAsk(type, p, t) ==
    [op |-> "register", type |-> type, who |-> p, at |-> t, campaign |-> Credit(book, p, t)]

\* registerConversion(), for an operator.  The operator gives the time.
Register(h, type, p, t) ==
    /\ FindActive(type, p) = {}
    /\ CampaignRequest(h, RegisterAsk(type, p, t))
    /\ UNCHANGED <<task, known, clicks>>

Correct(h, i, t) ==
    /\ book.conversions[i].status = "ACTIVE"
    /\ CampaignRequest(h, [op |-> "correct", row |-> i, at |-> t,
                           campaign |-> Credit(book, book.conversions[i].who, t)])
    /\ UNCHANGED <<task, known, clicks>>

\* importAggregate(): a second number is refused unless it is to replace the first.
Import(h, k, replace) ==
    LET seen == Indices(book.imports, LAMBDA r : r.key = k /\ r.status = "ACTIVE") IN
    /\ seen = {} \/ replace
    /\ CampaignRequest(h, [op |-> "import", key |-> k, seen |-> seen])
    /\ UNCHANGED <<task, known, clicks>>

Tick ==
    /\ Spend({"ticks"})
    /\ now' = now + 1
    /\ UNCHANGED <<book, bookQueue, known, clicks, ask, reply, task, faults>>

-----------------------------------------------------------------------------
CampaignStart ==
    /\ bookQueue = <<>>
    /\ clicks = {}
    /\ now = 1

CampaignStep ==
    \/ \E h \in Handlers, c \in Campaigns :
        \/ CreateCampaign(h, c)
        \/ Describe(h, c)
        \/ \E s \in CampaignStatus : SetStatus(h, c, s)
        \/ \E p \in People : Start(h, p, c)
    \/ \E c \in Campaigns, human \in BOOLEAN : Click(c, human)
    \/ \E h \in Handlers :
        \/ MembershipAnswered(h)
        \/ \E p \in People, a \in Alerts : AlertCreated(h, p, a)
        \/ \E type \in ConversionTypes, p \in People, t \in 1 .. now : Register(h, type, p, t)
        \/ \E i \in DOMAIN book.conversions, t \in 1 .. now : Correct(h, i, t)
        \/ \E k \in Aggregates, replace \in BOOLEAN : Import(h, k, replace)
    \/ BookTransact
    \/ Tick

-----------------------------------------------------------------------------
(* A conversion is credited to a campaign only if a touch of that person is  *)
(* there to show it, no later and no older than the window, although the    *)
(* decision is taken outside the transaction and requests are pruned         *)
(* meanwhile (registerConversion, correctConversion, decideAttribution,      *)
(* pruneClicks).                                                             *)
CreditIsEarned ==
    \A i \in DOMAIN book.conversions :
        LET k == book.conversions[i] IN
        k.campaign # None =>
            \E j \in DOMAIN book.events :
                LET e == book.events[j] IN
                /\ e.type \in {"START", "CHANNEL_JOIN"} /\ e.who = k.who /\ e.campaign = k.campaign
                /\ e.at <= k.at /\ k.at - e.at <= Window

(* History is kept: whoever corrects at the same time, a row is replaced by  *)
(* the one row that was made from it, of the same person and type, and every  *)
(* row made from another replaces it; of the numbers imported for a period    *)
(* one is in force (correctConversion, importAggregate).                      *)
HistoryIsAChain ==
    /\ \A i \in DOMAIN book.conversions :
        LET k == book.conversions[i]
            n == book.conversions[k.by]
            o == book.conversions[k.from]
        IN /\ k.status = "CORRECTED" => n.from = i /\ n.who = k.who /\ n.type = k.type
           /\ k.from # 0 => o.status = "CORRECTED" /\ o.by = i
    /\ \A k \in Aggregates :
        LET S == Indices(book.imports, LAMBDA r : r.key = k) IN
        S # {} => Cardinality({i \in S : book.imports[i].status = "ACTIVE"}) = 1

(* An identity that is new again -- its file was not written before a crash -- *)
(* starts a campaign no second time, and what the document says of its first  *)
(* and last touch is what its events say (recordStart, applyTouch).           *)
TouchesAreTold ==
    \A p \in People :
        LET T == Touches(book, p)
            E == book.events
        IN /\ \A i, j \in T :
                E[i].type = "START" /\ E[j].type = "START" /\ E[i].campaign = E[j].campaign => i = j
           /\ IF T = {} THEN book.touched[p] = NoTouch
              ELSE /\ book.touched[p].first = E[Min(T)].campaign
                   /\ book.touched[p].at = E[Max(T)].at
                   /\ \E i \in T : E[i].at = E[Max(T)].at /\ E[i].campaign = book.touched[p].last
=============================================================================
