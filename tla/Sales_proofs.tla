---------------------------- MODULE Sales_proofs ----------------------------
(***************************************************************************)
(* What sales and campaigns promise, for any people, campaigns, recipients *)
(* and limits: the invariants of SalesInvariants hold at the start and are *)
(* kept by every step, and each of them implies its promise.  What a       *)
(* transaction or a step does is said once, in lemmas of its own, and then *)
(* used for one invariant after the other.                                 *)
(***************************************************************************)
EXTENDS SalesInvariants, SequenceTheorems, FiniteSetTheorems, WellFoundedInduction, TLAPS

-----------------------------------------------------------------------------
(* Numbers *)

LEMMA MinIsIn ==
    ASSUME NEW S \in SUBSET Nat, S # {}
    PROVE  Min(S) \in S /\ \A y \in S : Min(S) <= y
<1>1. PICK x \in S : \A y \in S : ~ (<<y, x>> \in OpToRel(<, Nat))
  BY NatLessThanWellFounded, WFMin, Zenon
<1>2. ASSUME NEW y \in S PROVE x <= y
  <2>1. <<y, x>> \in Nat \X Nat
    OBVIOUS
  <2>2. <<y, x>>[1] < <<y, x>>[2] => <<y, x>> \in OpToRel(<, Nat)
    BY <2>1, Zenon DEF OpToRel
  <2>3. ~ (y < x)
    BY <1>1, <2>2
  <2> QED BY <2>3
<1> QED BY <1>2 DEF Min

LEMMA MaxIsIn ==
    ASSUME NEW n \in Nat, NEW S \in SUBSET (1 .. n), S # {}
    PROVE  Max(S) \in S /\ \A y \in S : y <= Max(S)
<1> DEFINE R == {n - i : i \in S}
<1>0. \A i \in S : i \in 1 .. n /\ n - i \in Nat
  OBVIOUS
<1>1. R \in SUBSET Nat /\ R # {}
  BY <1>0
<1>2. PICK i \in S : Min(R) = n - i
  BY <1>1, MinIsIn
<1>3. \A y \in S : n - i <= n - y
  BY <1>1, <1>2, MinIsIn
<1>4. \A y \in S : i >= y
  BY <1>3
<1> QED BY <1>4 DEF Max

-----------------------------------------------------------------------------
(* Requests *)

LEMMA BookFields ==
    ASSUME NEW q \in BookRequest
    PROVE  /\ q.op \in BookOps /\ q # NoAsk
           /\ q.op \in {"status", "start", "alert", "click"} => q.campaign \in Campaigns
           /\ q.op \in {"observe", "register", "correct"} => q.campaign \in Credited
           /\ q.op = "status" => q.to \in CampaignStatus
           /\ q.op \in {"start", "alert", "observe", "register"} => q.who \in People
           /\ q.op \in TimedOps \cup {"register", "correct"} => q.at \in Nat
           /\ q.op = "alert" => q.key \in Alerts
           /\ q.op = "import" => q.key \in Aggregates
           /\ q.op = "observe" => q.state \in {"MEMBER", "NOT_MEMBER"} /\ q.transition \in BOOLEAN
           /\ q.op = "register" => q.type \in ConversionTypes
           /\ q.op = "correct" => q.row \in Nat \ {0}
<1> USE DEF BookOps, TimedOps, Credited, NoAsk
<1>1. CASE q \in [op : {"describe", "refuse"}]
  BY <1>1
<1>2. CASE q \in [op : {"status"}, campaign : Campaigns, to : CampaignStatus]
  BY <1>2
<1>3. CASE q \in [op : {"start"}, campaign : Campaigns, who : People, at : Nat]
  BY <1>3
<1>4. CASE q \in [op : {"alert"}, campaign : Campaigns, who : People, at : Nat, key : Alerts]
  BY <1>4
<1>5. CASE q \in [op : {"observe"}, who : People, state : {"MEMBER", "NOT_MEMBER"},
                  campaign : Campaigns \cup {None}, at : Nat, transition : BOOLEAN]
  BY <1>5
<1>6. CASE q \in [op : {"click"}, campaign : Campaigns, at : Nat]
  BY <1>6
<1>7. CASE q \in [op : {"register"}, type : ConversionTypes, who : People, at : Nat,
                  campaign : Campaigns \cup {None}]
  BY <1>7
<1>8. CASE q \in [op : {"correct"}, row : Nat \ {0}, at : Nat, campaign : Campaigns \cup {None}]
  BY <1>8
<1>9. CASE q \in [op : {"import"}, key : Aggregates, seen : SUBSET Nat]
  BY <1>9
<1> QED BY <1>1, <1>2, <1>3, <1>4, <1>5, <1>6, <1>7, <1>8, <1>9 DEF BookRequest

LEMMA LedgerFields ==
    ASSUME NEW q \in LedgerRequest
    PROVE  /\ q.op \in LedgerOps /\ q # NoAsk
           /\ q.op = "create" => q.who \in People /\ q.key \in Nat /\ q.at \in Nat
           /\ q.op \in {"follow", "annotate", "convert", "enqueue", "store", "sale"} =>
                q.lead \in Nat \ {0}
           /\ q.op = "follow" => q.to \in LeadStatus
           /\ q.op = "store" => q.row \in Nat
           /\ q.op = "sale" => q.was \in Lead /\ q.existing \in Nat
           /\ q.op \in {"begin", "mark"} => q.row \in RowIds
           /\ q.op = "mark" => q.to \in {"PENDING", "SENT", "UNDELIVERABLE"}
<1> USE DEF LedgerOps, NoAsk
<1>1. CASE q \in [op : {"create"}, who : People, key : Nat, at : Nat]
  BY <1>1
<1>2. CASE q \in [op : {"follow"}, lead : Nat \ {0}, to : LeadStatus]
  BY <1>2
<1>3. CASE q \in [op : {"annotate", "convert", "enqueue"}, lead : Nat \ {0}]
  BY <1>3
<1>4. CASE q \in [op : {"store"}, lead : Nat \ {0}, row : Nat]
  BY <1>4
<1>5. CASE q \in [op : {"sale"}, lead : Nat \ {0}, was : Lead, existing : Nat]
  BY <1>5
<1>6. CASE q \in [op : {"begin"}, row : RowIds]
  BY <1>6
<1>7. CASE q \in [op : {"mark"}, row : RowIds, to : {"PENDING", "SENT", "UNDELIVERABLE"}]
  BY <1>7
<1> QED BY <1>1, <1>2, <1>3, <1>4, <1>5, <1>6, <1>7 DEF LedgerRequest

\* A request waits for one of the documents.
LEMMA OneDocument == BookRequest \cap LedgerRequest = {} /\ NoAsk \notin BookRequest \cup LedgerRequest
                     /\ NoAsk.op = "none"
<1>1. ASSUME NEW q \in BookRequest, q \in LedgerRequest PROVE FALSE
  <2>1. q.op \in BookOps /\ q.op \in LedgerOps
    BY <1>1, BookFields, LedgerFields
  <2> QED BY <2>1 DEF BookOps, LedgerOps
<1> QED BY <1>1, BookFields, LedgerFields DEF NoAsk

LEMMA TaskFields ==
    ASSUME NEW t \in Task
    PROVE  /\ t.at \in {"idle", "membership", "created", "linked", "enqueued", "converted",
                        "customer", "retry"}
           /\ t.at = "idle" <=> t = NoTask
           /\ t.at \in {"membership", "created", "linked"} => t.who \in People
           /\ t.at \in {"linked", "enqueued", "converted", "customer"} => t.lead \in Nat \ {0}
           /\ t.at = "retry" => t.left \in SUBSET (Nat \ {0}) /\ t.done \in {0, 1}
<1> USE DEF NoTask
<1>1. CASE t = NoTask
  BY <1>1
<1>2. CASE t \in [at : {"membership", "created"}, who : People]
  BY <1>2
<1>3. CASE t \in [at : {"linked"}, who : People, lead : Nat \ {0}]
  BY <1>3
<1>4. CASE t \in [at : {"enqueued", "converted", "customer"}, lead : Nat \ {0}]
  BY <1>4
<1>5. CASE t \in [at : {"retry"}, left : SUBSET (Nat \ {0}), done : {0, 1}]
  BY <1>5
<1> QED BY <1>1, <1>2, <1>3, <1>4, <1>5 DEF Task

-----------------------------------------------------------------------------
(* Queues *)

LEMMA WaitsLonger ==
    ASSUME NEW queue \in Seq(Callers), NEW asks, NEW R, Waits(queue, asks, R),
           NEW c \in Callers, asks[c] \notin R, NEW then, then[c] \in R,
           \A d \in Callers : d # c => then[d] = asks[d]
    PROVE  Waits(Append(queue, c), then, R)
<1>1. /\ Append(queue, c) \in Seq(Callers) /\ Len(queue) \in Nat
      /\ Len(Append(queue, c)) = Len(queue) + 1
      /\ Append(queue, c)[Len(queue) + 1] = c
      /\ \A i \in 1 .. Len(queue) : Append(queue, c)[i] = queue[i]
  BY AppendProperties, LenProperties
<1>2. \A i \in 1 .. Len(queue) : queue[i] \in Callers /\ queue[i] # c
  BY ElementOfSeq DEF Waits
<1>3. \A i \in 1 .. Len(queue) + 1 : i \in 1 .. Len(queue) \/ i = Len(queue) + 1
  BY <1>1
<1> QED BY <1>1, <1>2, <1>3 DEF Waits

LEMMA WaitsStill ==
    ASSUME NEW queue \in Seq(Callers), NEW asks, NEW R, Waits(queue, asks, R),
           NEW c \in Callers, asks[c] \notin R, NEW then,
           \A d \in Callers : d # c => then[d] = asks[d]
    PROVE  Waits(queue, then, R)
<1>1. \A i \in 1 .. Len(queue) : queue[i] \in Callers /\ queue[i] # c
  BY ElementOfSeq DEF Waits
<1> QED BY <1>1 DEF Waits

LEMMA WaitsLess ==
    ASSUME NEW queue \in Seq(Callers), queue # <<>>, NEW asks, NEW R, Waits(queue, asks, R),
           NEW then, \A d \in Callers : d # Head(queue) => then[d] = asks[d]
    PROVE  /\ Head(queue) \in Callers /\ asks[Head(queue)] \in R
           /\ Tail(queue) \in Seq(Callers) /\ Waits(Tail(queue), then, R)
           /\ Len(queue) \in Nat /\ Len(Tail(queue)) = Len(queue) - 1 /\ 1 \in 1 .. Len(queue)
           /\ Head(queue) = queue[1]
           /\ \A i \in 1 .. Len(Tail(queue)) :
                Tail(queue)[i] = queue[i + 1] /\ i + 1 \in 1 .. Len(queue)
                /\ Tail(queue)[i] # Head(queue)
<1>1. /\ Head(queue) \in Callers /\ Tail(queue) \in Seq(Callers)
      /\ Len(queue) \in Nat /\ Len(queue) > 0 /\ Len(Tail(queue)) = Len(queue) - 1
      /\ Head(queue) = queue[1]
      /\ \A i \in 1 .. Len(Tail(queue)) : Tail(queue)[i] = queue[i + 1]
  BY HeadTailProperties, EmptySeq, LenProperties
<1>2. \A i \in 1 .. Len(Tail(queue)) :
        i + 1 \in 1 .. Len(queue) /\ queue[i + 1] # queue[1] /\ queue[i + 1] \in Callers
  BY <1>1, ElementOfSeq DEF Waits
<1> QED BY <1>1, <1>2 DEF Waits

LEMMA QueuedIs ==
    ASSUME TypeOK
    PROVE  /\ Queued <=> /\ Waits(bookQueue, ask, BookRequest)
                         /\ Waits(ledgerQueue, ask, LedgerRequest)
BY DEF Queued, Waits

-----------------------------------------------------------------------------
(* Credit *)

LEMMA BookParts ==
    ASSUME NEW b \in Book
    PROVE  /\ Len(b.events) \in Nat /\ DOMAIN b.events = 1 .. Len(b.events)
           /\ \A i \in DOMAIN b.events : b.events[i] \in Event
           /\ Len(b.conversions) \in Nat /\ DOMAIN b.conversions = 1 .. Len(b.conversions)
           /\ \A i \in DOMAIN b.conversions : b.conversions[i] \in ConversionRecord
           /\ Len(b.imports) \in Nat /\ DOMAIN b.imports = 1 .. Len(b.imports)
           /\ b.events \in Seq(Event) /\ b.conversions \in Seq(ConversionRecord)
<1>1. b.events \in Seq(Event) /\ b.conversions \in Seq(ConversionRecord)
      /\ b.imports \in Seq([key : Aggregates, status : {"ACTIVE", "SUPERSEDED"}])
  BY DEF Book
<1> QED BY <1>1, LenProperties, ElementOfSeq

LEMMA EventFields ==
    ASSUME NEW e \in Event
    PROVE  /\ e.type \in TouchStages \cup {"ALERT_CREATED", "GONE"}
           /\ e.campaign \in Credited /\ e.who \in People \cup {None} /\ e.at \in Nat
           /\ e.key \in Alerts \cup {None}
BY DEF Event, Credited

LEMMA ConversionFields ==
    ASSUME NEW k \in ConversionRecord
    PROVE  /\ k.type \in ConversionTypes /\ k.who \in People /\ k.at \in Nat
           /\ k.campaign \in Credited /\ k.status \in {"ACTIVE", "CORRECTED"}
           /\ k.by \in Nat /\ k.from \in Nat
BY DEF ConversionRecord, Credited

\* The campaign credited is that of an eligible touch.
LEMMA CreditIsOfATouch ==
    ASSUME NEW b \in Book, NEW p \in People, NEW t \in Nat
    PROVE  /\ Credit(b, p, t) \in Credited
           /\ Credit(b, p, t) # None =>
                \E j \in Eligible(b, p, t) : b.events[j].campaign = Credit(b, p, t)
<1>1. CASE Eligible(b, p, t) = {}
  BY <1>1 DEF Credit, Credited
<1>2. CASE Eligible(b, p, t) # {}
  <2>1. Len(b.events) \in Nat /\ Eligible(b, p, t) \in SUBSET (1 .. Len(b.events))
    BY BookParts DEF Eligible, Touches
  <2>2. Max(Eligible(b, p, t)) \in Eligible(b, p, t)
    BY <1>2, <2>1, MaxIsIn
  <2>3. Max(Eligible(b, p, t)) \in DOMAIN b.events
    BY <2>2 DEF Eligible, Touches
  <2>4. b.events[Max(Eligible(b, p, t))].campaign \in Credited
    BY <2>3, BookParts, EventFields
  <2> QED BY <1>2, <2>2, <2>4 DEF Credit
<1> QED BY <1>1, <1>2

LEMMA CreditIsEarnedNow ==
    ASSUME NEW b \in Book, EventsOK(b), NEW p \in People, NEW t \in Nat, Credit(b, p, t) # None
    PROVE  Earned(b, p, Credit(b, p, t), t)
<1>1. PICK j \in Eligible(b, p, t) : b.events[j].campaign = Credit(b, p, t)
  BY CreditIsOfATouch
<1>2. /\ j \in DOMAIN b.events /\ b.events[j].who = p /\ b.events[j].type \in TouchStages
      /\ b.events[j].at <= t /\ t - b.events[j].at <= Window
  BY <1>1 DEF Eligible, Touches
<1>3. p # None
  BY CampaignsAssumption
<1>4. b.events[j].type \in {"START", "CHANNEL_JOIN"}
  BY <1>2, <1>3 DEF EventsOK, TouchStages
<1> QED BY <1>1, <1>2, <1>4 DEF Earned

-----------------------------------------------------------------------------
(* What the steps of the campaigns ask for *)

LEMMA HandlersCall == Handlers \subseteq Callers /\ Web \in Callers /\ Boot \in Callers
                      /\ Web \notin Handlers /\ Boot \notin Handlers \cup {Web}
                      /\ Loops \subseteq Callers /\ Loops \cap (Handlers \cup {Web, Boot}) = {}
                      /\ \A p \in People : Home[p] \in Handlers
BY CampaignsAssumption, SalesAssumption, NotificationAssumption

LEMMA CampaignActs ==
    ASSUME TypeOK, CampaignStep
    PROVE  \/ \E c \in Handlers \cup {Web}, q \in BookRequest : CampaignAsk(c, q)
           \/ \E h \in Handlers, q \in BookRequest : Observation(h, q)
           \/ \E h \in Handlers : NoObservation(h)
           \/ BookTransact
           \/ Tick
<1> USE HandlersCall
<1>0. /\ now \in Nat /\ book \in Book /\ task \in [Handlers -> Task]
      /\ known \in [memory : SUBSET People, file : SUBSET People]
      /\ clicks \subseteq [campaign : Campaigns, at : Nat]
  BY DEF TypeOK
<1>00. \A p \in People, t \in Nat : Credit(book, p, t) \in Credited
  BY <1>0, CreditIsOfATouch
<1>1. ASSUME NEW h \in Handlers, NEW c \in Campaigns, CreateCampaign(h, c)
      PROVE  \E q \in BookRequest : CampaignAsk(h, q)
  <2> DEFINE q == [op |-> "status", campaign |-> c, to |-> "ACTIVE"]
  <2>1. q \in BookRequest
    BY DEF BookRequest, CampaignStatus
  <2> QED BY <1>0, <1>1, <2>1 DEF CreateCampaign, CampaignAsk, SoundAsk, TimedOps
<1>2. ASSUME NEW h \in Handlers, NEW c \in Campaigns, Describe(h, c)
      PROVE  \E q \in BookRequest : CampaignAsk(h, q)
  <2> DEFINE q == [op |-> "describe"]
  <2>1. q \in BookRequest
    BY DEF BookRequest
  <2> QED BY <1>0, <1>2, <2>1 DEF Describe, CampaignAsk, SoundAsk, TimedOps
<1>3. ASSUME NEW h \in Handlers, NEW c \in Campaigns, NEW s \in CampaignStatus, SetStatus(h, c, s)
      PROVE  \E q \in BookRequest : CampaignAsk(h, q)
  <2> DEFINE q == [op |-> "status", campaign |-> c, to |-> s]
  <2>1. q \in BookRequest
    BY DEF BookRequest
  <2> QED BY <1>0, <1>3, <2>1 DEF SetStatus, CampaignAsk, SoundAsk, TimedOps
<1>4. ASSUME NEW h \in Handlers, NEW c \in Campaigns, NEW p \in People, Start(h, p, c)
      PROVE  \E q \in BookRequest : CampaignAsk(h, q)
  <2> DEFINE q == IF Accepting(c) THEN [op |-> "start", campaign |-> c, who |-> p, at |-> now]
                                  ELSE [op |-> "refuse"]
  <2>1. [op |-> "start", campaign |-> c, who |-> p, at |-> now] \in BookRequest
        /\ [op |-> "refuse"] \in BookRequest
    BY <1>0 DEF BookRequest
  <2>2. q \in BookRequest /\ SoundAsk(q)
    BY <2>1 DEF SoundAsk, TimedOps
  <2>3. known' \in [memory : SUBSET People, file : SUBSET People]
    BY <1>0, <1>4 DEF Start
  <2> HIDE DEF q
  <2>4. CampaignRequest(h, q) /\ UNCHANGED clicks /\ h = Home[p]
        /\ task' = [task EXCEPT ![h] = [at |-> "membership", who |-> p]]
    BY <1>4 DEF Start, q
  <2> QED BY <1>0, <2>2, <2>3, <2>4 DEF CampaignAsk
<1>5. ASSUME NEW c \in Campaigns, NEW human \in BOOLEAN, Click(c, human)
      PROVE  \E q \in BookRequest : CampaignAsk(Web, q)
  <2>1. [op |-> "click", campaign |-> c, at |-> now] \in BookRequest
        /\ [op |-> "refuse"] \in BookRequest
    BY <1>0 DEF BookRequest
  <2>2. SoundAsk([op |-> "click", campaign |-> c, at |-> now]) /\ SoundAsk([op |-> "refuse"])
    BY DEF SoundAsk, TimedOps
  <2>3. clicks' \subseteq [campaign : Campaigns, at : Nat] /\ UNCHANGED <<task, known>>
    BY <1>0, <1>5 DEF Click
  <2>4. \/ CampaignRequest(Web, [op |-> "click", campaign |-> c, at |-> now])
        \/ CampaignRequest(Web, [op |-> "refuse"])
    BY <1>5 DEF Click
  <2> QED BY <1>0, <2>1, <2>2, <2>3, <2>4 DEF CampaignAsk
<1>6. ASSUME NEW h \in Handlers, MembershipAnswered(h)
      PROVE  (\E q \in BookRequest : Observation(h, q)) \/ NoObservation(h)
  <2>1. task[h].at = "membership" /\ ask[h] = NoAsk /\ task' = [task EXCEPT ![h] = NoTask]
        /\ UNCHANGED <<book, reply, known, clicks, now, faults, budget>>
    BY <1>6 DEF MembershipAnswered
  <2>2. task[h].who \in People
    BY <1>0, <2>1, TaskFields
  <2>3. ASSUME NEW state \in {"MEMBER", "NOT_MEMBER"}, NEW tr \in BOOLEAN,
               AsksBook(h, [op |-> "observe", who |-> task[h].who, state |-> state,
                            campaign |-> Credit(book, task[h].who, now), at |-> now,
                            transition |-> tr])
        PROVE  \E q \in BookRequest : Observation(h, q)
    <3> DEFINE q == [op |-> "observe", who |-> task[h].who, state |-> state,
                     campaign |-> Credit(book, task[h].who, now), at |-> now,
                     transition |-> tr]
    <3>1. q \in BookRequest /\ q.op = "observe" /\ q.at = now
      <4>1. Credit(book, task[h].who, now) \in Campaigns \cup {None}
        BY <1>0, <1>00, <2>2 DEF Credited
      <4> HIDE DEF Credit
      <4> QED BY <1>0, <2>2, <4>1 DEF BookRequest
    <3> HIDE DEF q
    <3>2. AsksBook(h, q)
      BY <2>3 DEF q
    <3> QED BY <2>1, <3>1, <3>2 DEF Observation
  <2> QED BY <1>6, <2>1, <2>3 DEF MembershipAnswered, NoObservation
<1>7. ASSUME NEW h \in Handlers, NEW p \in People, NEW a \in Alerts, AlertCreated(h, p, a)
      PROVE  \E q \in BookRequest : CampaignAsk(h, q)
  <2> DEFINE q == [op |-> "alert", campaign |-> Credit(book, p, now), who |-> p, at |-> now, key |-> a]
  <2>1. Credit(book, p, now) \in Campaigns
    BY <1>0, <1>00, <1>7 DEF AlertCreated, Credited
  <2>2. q \in BookRequest
    BY <1>0, <2>1 DEF BookRequest
  <2> QED BY <1>0, <1>7, <2>2 DEF AlertCreated, CampaignAsk, SoundAsk, TimedOps
<1>8. ASSUME NEW h \in Handlers, NEW type \in ConversionTypes, NEW p \in People, NEW t \in 1 .. now,
             Register(h, type, p, t)
      PROVE  \E q \in BookRequest : CampaignAsk(h, q)
  <2>1. t \in Nat
    BY <1>0
  <2>2. RegisterAsk(type, p, t) \in BookRequest /\ SoundAsk(RegisterAsk(type, p, t))
    <3>1. Credit(book, p, t) \in Campaigns \cup {None}
      BY <1>00, <2>1 DEF Credited
    <3> QED BY <2>1, <3>1 DEF RegisterAsk, BookRequest, SoundAsk, TimedOps
  <2> QED BY <1>0, <1>8, <2>2 DEF Register, CampaignAsk
<1>9. ASSUME NEW h \in Handlers, NEW i \in DOMAIN book.conversions, NEW t \in 1 .. now, Correct(h, i, t)
      PROVE  \E q \in BookRequest : CampaignAsk(h, q)
  <2> DEFINE q == [op |-> "correct", row |-> i, at |-> t,
                   campaign |-> Credit(book, book.conversions[i].who, t)]
  <2>1. t \in Nat /\ i \in Nat \ {0} /\ book.conversions[i].who \in People
    BY <1>0, BookParts, ConversionFields
  <2>2. Credit(book, book.conversions[i].who, t) \in Campaigns \cup {None}
    BY <1>00, <2>1 DEF Credited
  <2>3. q \in BookRequest /\ SoundAsk(q)
    BY <2>1, <2>2 DEF BookRequest, SoundAsk, TimedOps
  <2> QED BY <1>0, <1>9, <2>3 DEF Correct, CampaignAsk
<1>10. ASSUME NEW h \in Handlers, NEW k \in Aggregates, NEW replace \in BOOLEAN, Import(h, k, replace)
      PROVE  \E q \in BookRequest : CampaignAsk(h, q)
  <2> DEFINE seen == Indices(book.imports, LAMBDA r : r.key = k /\ r.status = "ACTIVE")
             q == [op |-> "import", key |-> k, seen |-> seen]
  <2>1. seen \subseteq Nat
    BY <1>0, BookParts DEF Indices
  <2>2. q \in BookRequest /\ SoundAsk(q)
    <3> HIDE DEF seen
    <3> QED BY <2>1 DEF BookRequest, SoundAsk, TimedOps
  <2>3. CampaignRequest(h, q) /\ UNCHANGED <<task, known, clicks>>
    BY <1>10 DEF Import
  <2> QED BY <1>0, <2>2, <2>3 DEF CampaignAsk
<1> QED BY <1>1, <1>2, <1>3, <1>4, <1>5, <1>6, <1>7, <1>8, <1>9, <1>10 DEF CampaignStep

-----------------------------------------------------------------------------
(* The fields of the documents *)

LEMMA WithStatus ==
    ASSUME NEW b \in Book, NEW X \in [Campaigns -> CampaignStatus]
    PROVE  LET n == [b EXCEPT !.status = X] IN
           /\ n \in Book /\ n.events = b.events /\ n.touched = b.touched
           /\ n.conversions = b.conversions /\ n.imports = b.imports
BY DEF Book

LEMMA WithEvents ==
    ASSUME NEW b \in Book, NEW X \in Seq(Event)
    PROVE  LET n == [b EXCEPT !.events = X] IN
           /\ n \in Book /\ n.events = X /\ n.touched = b.touched
           /\ n.conversions = b.conversions /\ n.imports = b.imports
BY DEF Book

LEMMA WithTouched ==
    ASSUME NEW b \in Book, NEW X \in [People -> Touch]
    PROVE  LET n == [b EXCEPT !.touched = X] IN
           /\ n \in Book /\ n.events = b.events /\ n.touched = X
           /\ n.conversions = b.conversions /\ n.imports = b.imports
BY DEF Book, Touch

LEMMA WithConversions ==
    ASSUME NEW b \in Book, NEW X \in Seq(ConversionRecord)
    PROVE  LET n == [b EXCEPT !.conversions = X] IN
           /\ n \in Book /\ n.events = b.events /\ n.touched = b.touched
           /\ n.conversions = X /\ n.imports = b.imports
BY DEF Book

LEMMA WithImports ==
    ASSUME NEW b \in Book, NEW X \in Seq(Aggregate)
    PROVE  LET n == [b EXCEPT !.imports = X] IN
           /\ n \in Book /\ n.events = b.events /\ n.touched = b.touched
           /\ n.conversions = b.conversions /\ n.imports = X
BY DEF Book, Aggregate

LEMMA WithMembers ==
    ASSUME NEW b \in Book, NEW X \in [People -> {"UNKNOWN", "MEMBER", "NOT_MEMBER"}]
    PROVE  LET n == [b EXCEPT !.members = X] IN
           /\ n \in Book /\ n.events = b.events /\ n.touched = b.touched
           /\ n.conversions = b.conversions /\ n.imports = b.imports
BY DEF Book

LEMMA BookTables ==
    ASSUME NEW b \in Book
    PROVE  /\ b.status \in [Campaigns -> CampaignStatus] /\ b.touched \in [People -> Touch]
           /\ b.members \in [People -> {"UNKNOWN", "MEMBER", "NOT_MEMBER"}]
           /\ b.imports \in Seq(Aggregate)
BY DEF Book, Touch, Aggregate

\* What is appended comes last, and the rest stays.
LEMMA AppendIs ==
    ASSUME NEW S, NEW s \in Seq(S), NEW e \in S
    PROVE  /\ Append(s, e) \in Seq(S) /\ Len(s) \in Nat /\ Len(Append(s, e)) = Len(s) + 1
           /\ DOMAIN s = 1 .. Len(s) /\ DOMAIN Append(s, e) = 1 .. Len(s) + 1
           /\ Append(s, e)[Len(s) + 1] = e
           /\ \A i \in 1 .. Len(s) : Append(s, e)[i] = s[i]
           /\ \A i \in 1 .. Len(s) + 1 : i \in 1 .. Len(s) \/ i = Len(s) + 1
           /\ Len(s) + 1 \notin 1 .. Len(s) /\ Len(s) + 1 \in 1 .. Len(s) + 1
           /\ \A i \in 1 .. Len(s) : i \in 1 .. Len(s) + 1
<1>1. /\ Append(s, e) \in Seq(S) /\ Len(s) \in Nat /\ Len(Append(s, e)) = Len(s) + 1
      /\ DOMAIN s = 1 .. Len(s) /\ Append(s, e)[Len(s) + 1] = e
      /\ \A i \in 1 .. Len(s) : Append(s, e)[i] = s[i]
  BY AppendProperties, LenProperties
<1>2. DOMAIN Append(s, e) = 1 .. Len(s) + 1
  BY <1>1, LenProperties
<1> QED BY <1>1, <1>2

\* A row is rewritten in its place.
LEMMA ReplaceIs ==
    ASSUME NEW S, NEW s \in Seq(S), NEW i \in DOMAIN s, NEW e \in S
    PROVE  LET n == [s EXCEPT ![i] = e] IN
           /\ n \in Seq(S) /\ Len(n) = Len(s) /\ DOMAIN n = DOMAIN s /\ n[i] = e
           /\ \A j \in DOMAIN s : j # i => n[j] = s[j]
<1> DEFINE n == [s EXCEPT ![i] = e]
<1>1. Len(s) \in Nat /\ DOMAIN s = 1 .. Len(s) /\ \A j \in 1 .. Len(s) : s[j] \in S
  BY LenProperties, ElementOfSeq
<1>2. n \in Seq(S) /\ Len(n) = Len(s)
  <2>1. n = [j \in 1 .. Len(s) |-> IF j = i THEN e ELSE s[j]]
    BY <1>1
  <2>2. \A j \in 1 .. Len(s) : (IF j = i THEN e ELSE s[j]) \in S
    BY <1>1
  <2>3. n \in [1 .. Len(s) -> S]
    BY <2>1, <2>2
  <2> QED BY <1>1, <2>3, SeqDef, LenProperties
<1> QED BY <1>1, <1>2

\* Rows are rewritten, each in its place.
LEMMA RewriteIs ==
    ASSUME NEW S, NEW s \in Seq(S), NEW n \in [DOMAIN s -> S]
    PROVE  n \in Seq(S) /\ Len(n) = Len(s) /\ DOMAIN n = DOMAIN s
<1>1. Len(s) \in Nat /\ DOMAIN s = 1 .. Len(s)
  BY LenProperties
<1> QED BY <1>1, SeqDef, LenProperties

-----------------------------------------------------------------------------
(* What the transactions on the document of the campaigns do *)

LEMMA TouchFields ==
    ASSUME NEW old \in Touch, NEW c \in Campaigns, NEW t \in Nat
    PROVE  /\ old.first \in Credited /\ old.last \in Credited /\ old.at \in Nat /\ NoTouch \in Touch
           /\ Later(old, c, t) \in Touch /\ (Later(old, c, t) # NoTouch \/ old.first = None)
           /\ old = NoTouch => /\ Later(old, c, t).first = c /\ Later(old, c, t).last = c
                               /\ Later(old, c, t).at = t
           /\ old # NoTouch /\ t > old.at =>
                /\ Later(old, c, t).first = old.first /\ Later(old, c, t).last = c
                /\ Later(old, c, t).at = t
           /\ old # NoTouch /\ ~ (t > old.at) => Later(old, c, t) = old
           /\ old = NoTouch => old.first = None
<1>1. [first |-> c, last |-> c, at |-> t] \in Touch
  BY DEF Touch
<1>2. [old EXCEPT !.last = c, !.at = t] \in Touch
      /\ [old EXCEPT !.last = c, !.at = t].first = old.first
      /\ [old EXCEPT !.last = c, !.at = t].last = c
      /\ [old EXCEPT !.last = c, !.at = t].at = t
  BY DEF Touch
<1>3. None \notin Campaigns /\ NoTouch.first = None
  BY CampaignsAssumption DEF NoTouch
<1>4. old.first \in Credited /\ old.last \in Credited /\ old.at \in Nat /\ NoTouch \in Touch
  BY DEF Touch, Credited, NoTouch
<1>5. Later(old, c, t) = [first |-> c, last |-> c, at |-> t]
      \/ Later(old, c, t) = [old EXCEPT !.last = c, !.at = t] \/ Later(old, c, t) = old
  BY DEF Later
<1>6. old = NoTouch => Later(old, c, t) = [first |-> c, last |-> c, at |-> t]
  BY DEF Later
<1>7. old # NoTouch /\ t > old.at => Later(old, c, t) = [old EXCEPT !.last = c, !.at = t]
  BY DEF Later
<1>8. old # NoTouch /\ ~ (t > old.at) => Later(old, c, t) = old
  BY DEF Later
<1>9. /\ [first |-> c, last |-> c, at |-> t].first = c
      /\ [first |-> c, last |-> c, at |-> t].last = c
      /\ [first |-> c, last |-> c, at |-> t].at = t
  OBVIOUS
<1>10. Later(old, c, t) # NoTouch \/ old.first = None
  BY <1>2, <1>3, <1>6, <1>7, <1>8, <1>9
<1>11. old = NoTouch => old.first = None
  BY <1>3
<1>12. old = NoTouch => /\ Later(old, c, t).first = c /\ Later(old, c, t).last = c
                        /\ Later(old, c, t).at = t
  BY <1>6, <1>9
<1>13. old # NoTouch /\ t > old.at =>
        /\ Later(old, c, t).first = old.first /\ Later(old, c, t).last = c
        /\ Later(old, c, t).at = t
  BY <1>2, <1>7
<1>14. Later(old, c, t) \in Touch
  BY <1>1, <1>2, <1>5
<1> QED BY <1>4, <1>8, <1>10, <1>11, <1>12, <1>13, <1>14

LEMMA TouchedIs ==
    ASSUME NEW b \in Book, NEW p \in People, NEW c \in Campaigns, NEW t \in Nat
    PROVE  LET n == Touched(b, p, c, t) IN
           /\ n \in Book /\ n.events = b.events /\ n.conversions = b.conversions
           /\ n.imports = b.imports
           /\ n.touched = [b.touched EXCEPT ![p] = Later(b.touched[p], c, t)]
<1> DEFINE X == [b.touched EXCEPT ![p] = Later(b.touched[p], c, t)]
<1>1. b.touched[p] \in Touch /\ b.touched \in [People -> Touch]
  BY BookTables
<1>2. Later(b.touched[p], c, t) \in Touch
  <2>1. [first |-> c, last |-> c, at |-> t] \in Touch
    BY DEF Touch
  <2>2. [b.touched[p] EXCEPT !.last = c, !.at = t] \in Touch
    BY <1>1 DEF Touch
  <2> QED BY <1>1, <2>1, <2>2 DEF Later
<1>3. X \in [People -> Touch]
  BY <1>1, <1>2
<1>4. Touched(b, p, c, t) = [b EXCEPT !.touched = X]
  BY DEF Touched, Later
<1> HIDE DEF X
<1>5. LET n == [b EXCEPT !.touched = X] IN
       /\ n \in Book /\ n.events = b.events /\ n.touched = X
       /\ n.conversions = b.conversions /\ n.imports = b.imports
  BY <1>3, WithTouched
<1> QED BY <1>4, <1>5 DEF X

LEMMA EventIsAdded ==
    ASSUME NEW b \in Book, NEW e \in Event
    PROVE  LET n == [b EXCEPT !.events = Append(b.events, e)] IN
           /\ n \in Book /\ n.events = Append(b.events, e)
           /\ n.touched = b.touched /\ n.conversions = b.conversions /\ n.imports = b.imports
<1>1. Append(b.events, e) \in Seq(Event)
  BY BookParts, AppendIs
<1> QED BY <1>1, WithEvents

LEMMA PrunedIs ==
    ASSUME NEW b \in Book, NEW t
    PROVE  LET n == Pruned(b, t) IN
           /\ n \in Book /\ n.touched = b.touched /\ n.conversions = b.conversions
           /\ n.imports = b.imports
           /\ DOMAIN n.events = DOMAIN b.events
           /\ \A i \in DOMAIN b.events :
                \/ n.events[i] = b.events[i]
                \/ (b.events[i].type = "CLICK" /\ n.events[i] = Gone)
<1> DEFINE fresh == Indices(b.events, LAMBDA e : e.type = "CLICK" /\ ~ Expired(e, t))
           newer(i) == {j \in fresh : /\ b.events[j].campaign = b.events[i].campaign
                                      /\ \/ b.events[j].at > b.events[i].at
                                         \/ b.events[j].at = b.events[i].at /\ j < i}
           some == {i \in fresh : MaxRaw > 0 => Cardinality(newer(i)) < MaxRaw}
           others == Indices(b.events, LAMBDA e : e.type # "CLICK")
           kept == others \cup some
           X == [i \in DOMAIN b.events |-> IF i \in kept THEN b.events[i] ELSE Gone]
<1>1. others = {i \in DOMAIN b.events : b.events[i].type # "CLICK"}
  BY DEF Indices
<1>2. Pruned(b, t) = [b EXCEPT !.events = X]
  BY DEF Pruned
<1> HIDE DEF some, others
<1>3. Gone \in Event
  BY DEF Gone, Event
<1>4. X \in [DOMAIN b.events -> Event]
  BY <1>3, BookParts
<1>5. X \in Seq(Event) /\ DOMAIN X = DOMAIN b.events
  BY <1>4, BookParts, RewriteIs
<1>6. \A i \in DOMAIN b.events : X[i] = b.events[i] \/ (b.events[i].type = "CLICK" /\ X[i] = Gone)
  BY <1>1
<1> HIDE DEF X
<1>7. LET n == [b EXCEPT !.events = X] IN
       /\ n \in Book /\ n.events = X /\ n.touched = b.touched
       /\ n.conversions = b.conversions /\ n.imports = b.imports
  BY <1>5, WithEvents
<1> QED BY <1>2, <1>5, <1>6, <1>7

LEMMA ConversionIs ==
    ASSUME NEW type \in ConversionTypes, NEW p \in People, NEW t \in Nat, NEW c \in Credited,
           NEW from \in Nat
    PROVE  LET k == Conversion(type, p, t, c, from) IN
           /\ k \in ConversionRecord /\ k.type = type /\ k.who = p /\ k.at = t /\ k.campaign = c
           /\ k.status = "ACTIVE" /\ k.by = 0 /\ k.from = from
BY DEF Conversion, ConversionRecord, Credited

LEMMA RegisteredIs ==
    ASSUME NEW b \in Book, NEW q \in BookRequest, q.op = "register"
    PROVE  LET n == Registered(b, q)
               k == Conversion(q.type, q.who, q.at, q.campaign, 0)
           IN /\ k \in ConversionRecord /\ n \in Book /\ n.conversions = Append(b.conversions, k)
              /\ n.events = b.events /\ n.touched = b.touched /\ n.imports = b.imports
              /\ k.type = q.type /\ k.who = q.who /\ k.at = q.at /\ k.campaign = q.campaign
              /\ k.status = "ACTIVE" /\ k.from = 0
<1> DEFINE k == Conversion(q.type, q.who, q.at, q.campaign, 0)
<1>1. /\ k \in ConversionRecord /\ k.type = q.type /\ k.who = q.who /\ k.at = q.at
      /\ k.campaign = q.campaign /\ k.status = "ACTIVE" /\ k.from = 0
  BY BookFields, ConversionIs DEF TimedOps
<1>2. Append(b.conversions, k) \in Seq(ConversionRecord)
  BY <1>1, BookParts, AppendIs
<1>3. Registered(b, q) = [b EXCEPT !.conversions = Append(b.conversions, k)]
  BY DEF Registered
<1> HIDE DEF k
<1>4. LET n == [b EXCEPT !.conversions = Append(b.conversions, k)] IN
       /\ n \in Book /\ n.events = b.events /\ n.touched = b.touched
       /\ n.conversions = Append(b.conversions, k) /\ n.imports = b.imports
  BY <1>2, WithConversions
<1> QED BY <1>1, <1>3, <1>4 DEF k

LEMMA CorrectedIs ==
    ASSUME NEW b \in Book, NEW q \in BookRequest, q.op = "correct", q.row \in DOMAIN b.conversions
    PROVE  LET n == Corrected(b, q) IN
           /\ n \in Book /\ n.events = b.events /\ n.touched = b.touched /\ n.imports = b.imports
           /\ n = b \/ Replaced(b, n, q)
<1> DEFINE i == q.row
           C == b.conversions
           m == Len(C) + 1
           old == [C[i] EXCEPT !.status = "CORRECTED", !.by = m]
           new == Conversion(C[i].type, C[i].who, q.at, q.campaign, i)
           D == [C EXCEPT ![i] = old]
           X == Append(D, new)
<1>1. C \in Seq(ConversionRecord) /\ i \in DOMAIN C /\ C[i] \in ConversionRecord /\ Len(C) \in Nat
      /\ DOMAIN C = 1 .. Len(C) /\ i \in Nat
  BY BookParts
<1>2. /\ old \in ConversionRecord /\ old.type = C[i].type /\ old.who = C[i].who
      /\ old.at = C[i].at /\ old.campaign = C[i].campaign /\ old.from = C[i].from
      /\ old.status = "CORRECTED" /\ old.by = m
  <2>1. m \in Nat
    BY <1>1
  <2> HIDE DEF m
  <2>2. ASSUME NEW k \in ConversionRecord, NEW x \in Nat
        PROVE  LET o == [k EXCEPT !.status = "CORRECTED", !.by = x] IN
               /\ o \in ConversionRecord /\ o.type = k.type /\ o.who = k.who
               /\ o.at = k.at /\ o.campaign = k.campaign /\ o.from = k.from
               /\ o.status = "CORRECTED" /\ o.by = x
    BY DEF ConversionRecord
  <2> QED BY <1>1, <2>1, <2>2
<1>3. /\ new \in ConversionRecord /\ new.type = C[i].type /\ new.who = C[i].who /\ new.at = q.at
      /\ new.campaign = q.campaign /\ new.status = "ACTIVE" /\ new.by = 0 /\ new.from = i
  <2>1. q.at \in Nat /\ q.campaign \in Credited
    BY BookFields DEF TimedOps
  <2>2. C[i].type \in ConversionTypes /\ C[i].who \in People
    BY <1>1, ConversionFields
  <2> HIDE DEF i, C
  <2> QED BY <1>1, <2>1, <2>2, ConversionIs
<1>4. CASE C[i].status = "ACTIVE"
  <2>1. Corrected(b, q) = [b EXCEPT !.conversions = X]
    BY <1>4, Zenon DEF Corrected
  <2> HIDE DEF old, new, C
  <2>2. /\ D \in Seq(ConversionRecord) /\ Len(D) = Len(C) /\ DOMAIN D = DOMAIN C /\ D[i] = old
        /\ \A j \in DOMAIN C : j # i => D[j] = C[j]
    BY <1>1, <1>2, ReplaceIs
  <2> HIDE DEF D
  <2>3. /\ X \in Seq(ConversionRecord) /\ Len(X) = m /\ DOMAIN X = 1 .. m /\ X[m] = new
        /\ \A j \in 1 .. Len(C) : X[j] = D[j] /\ j \in 1 .. m
        /\ m \notin 1 .. Len(C) /\ \A j \in 1 .. m : j \in 1 .. Len(C) \/ j = m
    BY <1>3, <2>2, AppendIs
  <2> HIDE DEF X, m
  <2>4. LET n == [b EXCEPT !.conversions = X] IN
         /\ n \in Book /\ n.events = b.events /\ n.touched = b.touched
         /\ n.conversions = X /\ n.imports = b.imports
    BY <2>3, WithConversions
  <2>5. X[i] = old /\ \A j \in DOMAIN C : j # i => X[j] = C[j]
    BY <1>1, <2>2, <2>3
  <2>6. \A n : n.conversions = X => Replaced(b, n, q)
    BY <1>1, <1>2, <1>3, <1>4, <2>3, <2>5 DEF Replaced, C, m
  <2> QED BY <2>1, <2>4, <2>6
<1>5. CASE C[i].status # "ACTIVE"
  BY <1>5 DEF Corrected
<1> QED BY <1>4, <1>5

LEMMA ImportedIs ==
    ASSUME NEW b \in Book, NEW q \in BookRequest, q.op = "import"
    PROVE  LET n == Imported(b, q)
               m == Len(b.imports) + 1
           IN /\ n \in Book /\ n.events = b.events /\ n.touched = b.touched
              /\ n.conversions = b.conversions
              /\ m \in Nat /\ DOMAIN b.imports = 1 .. m - 1
              /\ DOMAIN n.imports = 1 .. m
              /\ \A i \in 1 .. m : i \in DOMAIN b.imports \/ i = m
              /\ m \notin DOMAIN b.imports
              /\ n.imports[m].key = q.key /\ n.imports[m].status = "ACTIVE"
              /\ \A i \in DOMAIN b.imports :
                    /\ n.imports[i].key = b.imports[i].key
                    /\ (b.imports[i].key = q.key /\ \A j \in DOMAIN b.imports :
                            b.imports[j].key = q.key => j <= i) => n.imports[i].status = "SUPERSEDED"
                    /\ ~ (b.imports[i].key = q.key /\ \A j \in DOMAIN b.imports :
                            b.imports[j].key = q.key => j <= i) =>
                            n.imports[i].status = b.imports[i].status
<1> DEFINE I == b.imports
           m == Len(I) + 1
           last == Indices(I, LAMBDA r : r.key = q.key)
           newest(i) == i \in last /\ \A j \in last : j <= i
           D == [i \in DOMAIN I |-> IF newest(i) THEN [I[i] EXCEPT !.status = "SUPERSEDED"] ELSE I[i]]
           new == [key |-> q.key, status |-> "ACTIVE"]
           X == Append(D, new)
<1>1. I \in Seq(Aggregate) /\ Len(I) \in Nat /\ DOMAIN I = 1 .. Len(I)
      /\ \A i \in DOMAIN I : I[i] \in Aggregate
  BY BookTables, LenProperties, ElementOfSeq
<1>2. last = {i \in DOMAIN I : I[i].key = q.key}
  BY DEF Indices
<1>3. Imported(b, q) = [b EXCEPT !.imports = X]
  BY DEF Imported
<1>4. new \in Aggregate /\ new.key = q.key /\ new.status = "ACTIVE"
  BY BookFields DEF Aggregate
<1> HIDE DEF last, new
<1>5. ASSUME NEW i \in DOMAIN I
      PROVE  /\ [I[i] EXCEPT !.status = "SUPERSEDED"] \in Aggregate
             /\ [I[i] EXCEPT !.status = "SUPERSEDED"].key = I[i].key
             /\ [I[i] EXCEPT !.status = "SUPERSEDED"].status = "SUPERSEDED"
  BY <1>1 DEF Aggregate
<1> HIDE DEF I, newest
<1>6. D \in [DOMAIN I -> Aggregate]
  BY <1>1, <1>5
<1>7. D \in Seq(Aggregate) /\ Len(D) = Len(I) /\ DOMAIN D = DOMAIN I
  BY <1>1, <1>6, RewriteIs
<1>8. \A i \in DOMAIN I : /\ D[i].key = I[i].key
                          /\ newest(i) => D[i].status = "SUPERSEDED"
                          /\ ~ newest(i) => D[i].status = I[i].status
  BY <1>5
<1> HIDE DEF D
<1>9. /\ X \in Seq(Aggregate) /\ DOMAIN X = 1 .. m /\ X[m] = new
      /\ \A i \in DOMAIN I : X[i] = D[i]
      /\ \A i \in 1 .. m : i \in DOMAIN I \/ i = m
      /\ m \notin DOMAIN I /\ m \in Nat /\ DOMAIN I = 1 .. m - 1
  BY <1>1, <1>4, <1>7, AppendIs
<1> HIDE DEF X, m
<1>10. LET n == [b EXCEPT !.imports = X] IN
       /\ n \in Book /\ n.events = b.events /\ n.touched = b.touched
       /\ n.conversions = b.conversions /\ n.imports = X
  BY <1>9, WithImports
<1>11. \A i \in DOMAIN I : newest(i) <=>
            I[i].key = q.key /\ \A j \in DOMAIN I : I[j].key = q.key => j <= i
  BY <1>2 DEF newest
<1> QED BY <1>3, <1>4, <1>8, <1>9, <1>10, <1>11 DEF I, m

-----------------------------------------------------------------------------
(* What the transactions on the ledger do *)

LEMMA LedgerParts ==
    ASSUME NEW g \in Ledger
    PROVE  /\ g.leads \in Seq(Lead) /\ Len(g.leads) \in Nat /\ DOMAIN g.leads = 1 .. Len(g.leads)
           /\ \A l \in DOMAIN g.leads : g.leads[l] \in Lead /\ l \in Nat \ {0}
           /\ g.outcomes \in Seq(Outcome) /\ Len(g.outcomes) \in Nat
           /\ DOMAIN g.outcomes = 1 .. Len(g.outcomes)
           /\ \A o \in DOMAIN g.outcomes : g.outcomes[o] \in Outcome /\ o \in Nat \ {0}
           /\ g.rows \in [RowIds -> Row]
<1>1. /\ g.leads \in Seq(Lead) /\ g.outcomes \in Seq(Outcome) /\ g.rows \in [RowIds -> Row]
  BY DEF Ledger, Outcome
<1> QED BY <1>1, LenProperties, ElementOfSeq

LEMMA LeadFields ==
    ASSUME NEW x \in Lead
    PROVE  /\ x.who \in People /\ x.key \in Nat /\ x.status \in LeadStatus /\ x.at \in Nat
           /\ x.converted \in Nat /\ x.customer \in {"NONE", "RECORDED", "ALREADY_RECORDED"}
           /\ x.customerRow \in Nat /\ x.sale \in Nat
BY DEF Lead

LEMMA RowFields ==
    ASSUME NEW x \in Row
    PROVE  /\ x.status \in {"NONE", "PENDING", "SENT", "UNDELIVERABLE"}
           /\ x.attempts \in Nat /\ x.failed \in BOOLEAN
BY DEF Row

LEMMA WithLeads ==
    ASSUME NEW g \in Ledger, NEW X \in Seq(Lead)
    PROVE  LET n == [g EXCEPT !.leads = X] IN
           n \in Ledger /\ n.leads = X /\ n.outcomes = g.outcomes /\ n.rows = g.rows
BY DEF Ledger

LEMMA WithRows ==
    ASSUME NEW g \in Ledger, NEW X \in [RowIds -> Row]
    PROVE  LET n == [g EXCEPT !.rows = X] IN
           n \in Ledger /\ n.leads = g.leads /\ n.outcomes = g.outcomes /\ n.rows = X
BY DEF Ledger

LEMMA RewrittenIs ==
    ASSUME NEW g \in Ledger, NEW l \in DOMAIN g.leads, NEW x \in Lead
    PROVE  LET n == [g EXCEPT !.leads[l] = x] IN Rewritten(g, n, l, x) /\ n.outcomes = g.outcomes
<1> DEFINE X == [g.leads EXCEPT ![l] = x]
<1>1. /\ X \in Seq(Lead) /\ Len(X) = Len(g.leads) /\ DOMAIN X = DOMAIN g.leads /\ X[l] = x
      /\ \A m \in DOMAIN g.leads : m # l => X[m] = g.leads[m]
  BY LedgerParts, ReplaceIs
<1>2. [g EXCEPT !.leads[l] = x] = [g EXCEPT !.leads = X]
  OBVIOUS
<1> HIDE DEF X
<1>3. LET n == [g EXCEPT !.leads = X] IN
       n \in Ledger /\ n.leads = X /\ n.outcomes = g.outcomes /\ n.rows = g.rows
  BY <1>1, WithLeads
<1> QED BY <1>1, <1>2, <1>3 DEF Rewritten

LEMMA FollowedIs ==
    ASSUME NEW g \in Ledger, NEW q \in LedgerRequest, q.op = "follow", q.lead \in DOMAIN g.leads
    PROVE  \E x \in Lead : /\ Rewritten(g, Followed(g, q), q.lead, x) /\ SameLinks(x, g.leads[q.lead])
                           /\ Followed(g, q).outcomes = g.outcomes
<1> DEFINE lead == g.leads[q.lead]
           x == [lead EXCEPT !.status = q.to]
<1>1. lead \in Lead /\ q.to \in LeadStatus
  BY LedgerParts, LedgerFields
<1>2. Followed(g, q) = [g EXCEPT !.leads[q.lead] = x]
  BY DEF Followed
<1> HIDE DEF lead
<1>3. x \in Lead /\ SameLinks(x, lead)
  BY <1>1 DEF Lead, SameLinks
<1> HIDE DEF x
<1> QED BY <1>2, <1>3, RewrittenIs DEF lead

LEMMA AnnotatedIs ==
    ASSUME NEW g \in Ledger, NEW q \in LedgerRequest, q.op = "annotate", q.lead \in DOMAIN g.leads
    PROVE  \E x \in Lead : /\ Rewritten(g, Annotated(g, q), q.lead, x) /\ SameLinks(x, g.leads[q.lead])
                           /\ Annotated(g, q).outcomes = g.outcomes
<1>1. g.leads[q.lead] \in Lead /\ SameLinks(g.leads[q.lead], g.leads[q.lead])
  BY LedgerParts DEF SameLinks
<1> QED BY <1>1, RewrittenIs DEF Annotated

LEMMA ConvertedIs ==
    ASSUME NEW g \in Ledger, NEW q \in LedgerRequest, q.op = "convert", q.lead \in DOMAIN g.leads,
           now \in Nat
    PROVE  \E x \in Lead : /\ Rewritten(g, Converted(g, q), q.lead, x) /\ SameLinks(x, g.leads[q.lead])
                           /\ Converted(g, q).outcomes = g.outcomes
<1> DEFINE lead == g.leads[q.lead]
           x == [lead EXCEPT !.status = "CONVERTED", !.converted = now]
<1>1. lead \in Lead
  BY LedgerParts
<1>2. Converted(g, q) = [g EXCEPT !.leads[q.lead] = x]
  BY DEF Converted
<1> HIDE DEF lead
<1>3. x \in Lead /\ SameLinks(x, lead)
  BY <1>1 DEF Lead, SameLinks, LeadStatus
<1> HIDE DEF x
<1> QED BY <1>2, <1>3, RewrittenIs DEF lead

LEMMA StoredIs ==
    ASSUME NEW g \in Ledger, NEW q \in LedgerRequest, q.op = "store", q.lead \in DOMAIN g.leads
    PROVE  \E x \in Lead :
            /\ Rewritten(g, Stored(g, q), q.lead, x) /\ Stored(g, q).outcomes = g.outcomes
            /\ x.who = g.leads[q.lead].who /\ x.key = g.leads[q.lead].key /\ x.sale = g.leads[q.lead].sale
            /\ q.row = 0 => x.customer = "ALREADY_RECORDED" /\ x.customerRow = g.leads[q.lead].customerRow
            /\ q.row # 0 => x.customer = "RECORDED" /\ x.customerRow = q.row
<1> DEFINE lead == g.leads[q.lead]
           x0 == [lead EXCEPT !.customer = "ALREADY_RECORDED"]
           x1 == [lead EXCEPT !.customer = "RECORDED", !.customerRow = q.row]
           x == IF q.row = 0 THEN x0 ELSE x1
<1>1. lead \in Lead /\ q.row \in Nat
  BY LedgerParts, LedgerFields
<1>2. Stored(g, q) = [g EXCEPT !.leads[q.lead] = x]
  BY DEF Stored
<1> HIDE DEF lead
<1>3. /\ x0 \in Lead /\ x0.who = lead.who /\ x0.key = lead.key /\ x0.sale = lead.sale
      /\ x0.customer = "ALREADY_RECORDED" /\ x0.customerRow = lead.customerRow
  BY <1>1 DEF Lead
<1>4. /\ x1 \in Lead /\ x1.who = lead.who /\ x1.key = lead.key /\ x1.sale = lead.sale
      /\ x1.customer = "RECORDED" /\ x1.customerRow = q.row
  BY <1>1 DEF Lead
<1> HIDE DEF x0, x1
<1>5. /\ x \in Lead /\ x.who = lead.who /\ x.key = lead.key /\ x.sale = lead.sale
      /\ q.row = 0 => x.customer = "ALREADY_RECORDED" /\ x.customerRow = lead.customerRow
      /\ q.row # 0 => x.customer = "RECORDED" /\ x.customerRow = q.row
  BY <1>3, <1>4
<1> HIDE DEF x
<1> QED BY <1>2, <1>5, RewrittenIs DEF lead

LEMMA SoldIs ==
    ASSUME NEW g \in Ledger, NEW q \in LedgerRequest, q.op = "sale", q.lead \in DOMAIN g.leads
    PROVE  LET n == Sold(g, q)
               m == Len(g.outcomes) + 1
           IN \E x \in Lead :
                /\ Rewritten(g, n, q.lead, x)
                /\ x.who = q.was.who /\ x.key = q.was.key /\ x.sale = m
                /\ x.customer = q.was.customer /\ x.customerRow = q.was.customerRow
                /\ DOMAIN n.outcomes = 1 .. m /\ m \in Nat \ {0}
                /\ m \notin DOMAIN g.outcomes
                /\ n.outcomes[m].lead = q.lead /\ n.outcomes[m].status = "ACTIVE"
                /\ \A o \in 1 .. m : o \in DOMAIN g.outcomes \/ o = m
                /\ \A o \in DOMAIN g.outcomes :
                    /\ o \in 1 .. m
                    /\ n.outcomes[o].lead = g.outcomes[o].lead
                    /\ o # q.existing => n.outcomes[o].status = g.outcomes[o].status
<1> DEFINE O == g.outcomes
           m == Len(O) + 1
           repl == [O EXCEPT ![q.existing].status = "CORRECTED"]
           old == IF q.existing = 0 THEN O ELSE repl
           new == [lead |-> q.lead, status |-> "ACTIVE"]
           P == Append(old, new)
           x == [q.was EXCEPT !.sale = m]
           X == [g.leads EXCEPT ![q.lead] = x]
<1>1. /\ O \in Seq(Outcome) /\ Len(O) \in Nat /\ DOMAIN O = 1 .. Len(O)
      /\ \A o \in DOMAIN O : O[o] \in Outcome
      /\ q.was \in Lead /\ q.lead \in Nat /\ m \in Nat \ {0}
  BY LedgerParts, LedgerFields
<1>2. Sold(g, q) = [g EXCEPT !.outcomes = P, !.leads = X]
  BY DEF Sold
<1> HIDE DEF O
<1>3. repl \in [DOMAIN O -> Outcome] /\ \A o \in DOMAIN O :
        /\ repl[o].lead = O[o].lead
        /\ o # q.existing => repl[o].status = O[o].status
  <2>1. ASSUME NEW o \in DOMAIN O
        PROVE  [O[o] EXCEPT !.status = "CORRECTED"] \in Outcome
               /\ [O[o] EXCEPT !.status = "CORRECTED"].lead = O[o].lead
    BY <1>1 DEF Outcome
  <2>2. repl = [o \in DOMAIN O |-> IF o = q.existing THEN [O[o] EXCEPT !.status = "CORRECTED"] ELSE O[o]]
    OBVIOUS
  <2> QED BY <1>1, <2>1, <2>2
<1>4. repl \in Seq(Outcome) /\ Len(repl) = Len(O)
  BY <1>1, <1>3, RewriteIs
<1> HIDE DEF repl
<1>5. /\ old \in Seq(Outcome) /\ Len(old) = Len(O)
      /\ \A o \in DOMAIN O : old[o].lead = O[o].lead /\ (o # q.existing => old[o].status = O[o].status)
  BY <1>1, <1>3, <1>4
<1>6. new \in Outcome /\ new.lead = q.lead /\ new.status = "ACTIVE"
  BY <1>1 DEF Outcome
<1> HIDE DEF old, new
<1>7. /\ P \in Seq(Outcome) /\ DOMAIN P = 1 .. m /\ P[m] = new
      /\ \A o \in 1 .. Len(O) : P[o] = old[o]
      /\ \A o \in 1 .. m : o \in 1 .. Len(O) \/ o = m
      /\ \A o \in 1 .. Len(O) : o \in 1 .. m
      /\ m \notin 1 .. Len(O)
  BY <1>5, <1>6, AppendIs
<1> HIDE DEF P, m
<1>8. /\ x \in Lead /\ x.who = q.was.who /\ x.key = q.was.key /\ x.sale = m
      /\ x.customer = q.was.customer /\ x.customerRow = q.was.customerRow
  BY <1>1 DEF Lead
<1> HIDE DEF x
<1>9. /\ X \in Seq(Lead) /\ Len(X) = Len(g.leads) /\ DOMAIN X = DOMAIN g.leads /\ X[q.lead] = x
      /\ \A k \in DOMAIN g.leads : k # q.lead => X[k] = g.leads[k]
  BY <1>8, LedgerParts, ReplaceIs
<1> HIDE DEF X
<1>10. LET n == [g EXCEPT !.outcomes = P, !.leads = X] IN
       n \in Ledger /\ n.leads = X /\ n.outcomes = P /\ n.rows = g.rows
  <2>1. P \in Seq(Outcome) /\ X \in Seq(Lead)
    BY <1>7, <1>9
  <2> QED BY <2>1 DEF Ledger, Outcome
<1>11. Rewritten(g, Sold(g, q), q.lead, x) /\ Sold(g, q).outcomes = P
  BY <1>2, <1>9, <1>10 DEF Rewritten
<1> QED BY <1>1, <1>5, <1>6, <1>7, <1>8, <1>11 DEF O, m

LEMMA CreatedIs ==
    ASSUME NEW g \in Ledger, NEW q \in LedgerRequest, q.op = "create"
    PROVE  LET n == Created(g, q)
               m == Len(g.leads) + 1
           IN /\ n \in Ledger /\ n.outcomes = g.outcomes /\ n.rows = g.rows
              /\ \/ n = g /\ (OfKey(g, q.key) # {} \/ Refused(g, q))
                 \/ /\ OfKey(g, q.key) = {} /\ ~ Refused(g, q) /\ DOMAIN n.leads = 1 .. m
                    /\ m \notin DOMAIN g.leads /\ m \in Nat \ {0}
                    /\ \A l \in 1 .. m : l \in DOMAIN g.leads \/ l = m
                    /\ \A l \in DOMAIN g.leads : l \in 1 .. m /\ n.leads[l] = g.leads[l]
                    /\ n.leads[m] \in Lead /\ n.leads[m].who = q.who /\ n.leads[m].key = q.key
                    /\ n.leads[m].customer = "NONE" /\ n.leads[m].customerRow = 0
                    /\ n.leads[m].sale = 0
<1> DEFINE m == Len(g.leads) + 1
           x == NewLead(q.who, q.key, q.at)
           X == Append(g.leads, x)
<1>1. /\ x \in Lead /\ x.who = q.who /\ x.key = q.key /\ x.customer = "NONE" /\ x.customerRow = 0
      /\ x.sale = 0
  <2>1. q.who \in People /\ q.key \in Nat /\ q.at \in Nat
    BY LedgerFields
  <2> QED BY <2>1 DEF NewLead, Lead, LeadStatus
<1>2. CASE OfKey(g, q.key) = {} /\ ~ Refused(g, q)
  <2>1. Created(g, q) = [g EXCEPT !.leads = X]
    BY <1>2 DEF Created
  <2> HIDE DEF x
  <2>2. /\ X \in Seq(Lead) /\ DOMAIN X = 1 .. m /\ X[m] = x
        /\ \A l \in DOMAIN g.leads : l \in 1 .. m /\ X[l] = g.leads[l]
        /\ m \notin DOMAIN g.leads /\ m \in Nat \ {0}
        /\ \A l \in 1 .. m : l \in DOMAIN g.leads \/ l = m
    BY <1>1, LedgerParts, AppendIs
  <2> HIDE DEF X, m
  <2>3. LET n == [g EXCEPT !.leads = X] IN
        n \in Ledger /\ n.leads = X /\ n.outcomes = g.outcomes /\ n.rows = g.rows
    BY <2>2, WithLeads
  <2> QED BY <1>1, <1>2, <2>1, <2>2, <2>3 DEF m
<1>3. CASE ~ (OfKey(g, q.key) = {} /\ ~ Refused(g, q))
  BY <1>3 DEF Created
<1> QED BY <1>2, <1>3

\* The rows of a lead are PENDING unless they are there.
LEMMA EnqueuedIs ==
    ASSUME NEW g \in Ledger, NEW q \in LedgerRequest
    PROVE  LET n == Enqueued(g, q) IN
           /\ n \in Ledger /\ n.leads = g.leads /\ n.outcomes = g.outcomes
           /\ \A r \in RowIds :
                /\ r[1] = q.lead /\ g.rows[r].status = "NONE" =>
                    n.rows[r].status = "PENDING" /\ n.rows[r].attempts = 0 /\ ~ n.rows[r].failed
                /\ ~ (r[1] = q.lead /\ g.rows[r].status = "NONE") => n.rows[r] = g.rows[r]
<1> DEFINE new == [NoRow EXCEPT !.status = "PENDING"]
           X == [r \in RowIds |-> IF r[1] = q.lead /\ g.rows[r].status = "NONE" THEN new ELSE g.rows[r]]
<1>1. Enqueued(g, q) = [g EXCEPT !.rows = X]
  BY DEF Enqueued
<1>2. new \in Row /\ new.status = "PENDING" /\ new.attempts = 0 /\ new.failed = FALSE
  BY DEF NoRow, Row
<1> HIDE DEF new
<1>3. g.rows \in [RowIds -> Row]
  BY LedgerParts
<1>4. X \in [RowIds -> Row]
  BY <1>2, <1>3
<1>5. \A r \in RowIds : X[r] = IF r[1] = q.lead /\ g.rows[r].status = "NONE" THEN new ELSE g.rows[r]
  OBVIOUS
<1> HIDE DEF X
<1>6. LET n == [g EXCEPT !.rows = X] IN
      n \in Ledger /\ n.leads = g.leads /\ n.outcomes = g.outcomes /\ n.rows = X
  BY <1>4, WithRows
<1> QED BY <1>1, <1>2, <1>5, <1>6

LEMMA RowRewrittenIs ==
    ASSUME NEW g \in Ledger, NEW r \in RowIds, NEW x \in Row
    PROVE  LET n == [g EXCEPT !.rows[r] = x] IN RowRewritten(g, n, r) /\ n.rows[r] = x
<1> DEFINE X == [g.rows EXCEPT ![r] = x]
<1>1. g.rows \in [RowIds -> Row]
  BY LedgerParts
<1>2. X \in [RowIds -> Row] /\ X[r] = x /\ \A s \in RowIds : s # r => X[s] = g.rows[s]
  BY <1>1
<1>3. [g EXCEPT !.rows[r] = x] = [g EXCEPT !.rows = X]
  OBVIOUS
<1> HIDE DEF X
<1>4. LET n == [g EXCEPT !.rows = X] IN
      n \in Ledger /\ n.leads = g.leads /\ n.outcomes = g.outcomes /\ n.rows = X
  BY <1>2, WithRows
<1> QED BY <1>2, <1>3, <1>4 DEF RowRewritten

LEMMA BegunIs ==
    ASSUME NEW g \in Ledger, NEW q \in LedgerRequest, q.op = "begin"
    PROVE  LET n == Begun(g, q)
               row == g.rows[q.row]
           IN /\ RowRewritten(g, n, q.row)
              /\ row.status # "PENDING" => n = g
              /\ row.status = "PENDING" =>
                    /\ n.rows[q.row].status = "PENDING" /\ n.rows[q.row].attempts = row.attempts + 1
                    /\ ~ n.rows[q.row].failed
<1> DEFINE row == g.rows[q.row]
           k == row.attempts + 1
           x == [row EXCEPT !.attempts = k, !.failed = FALSE]
<1>1. q.row \in RowIds /\ row \in Row /\ k \in Nat
  BY LedgerFields, LedgerParts, RowFields
<1>2. CASE row.status = "PENDING"
  <2>1. Begun(g, q) = [g EXCEPT !.rows[q.row] = x]
    BY <1>2 DEF Begun
  <2> HIDE DEF row, k
  <2>2. x \in Row /\ x.status = row.status /\ x.attempts = k /\ x.failed = FALSE
    BY <1>1 DEF Row
  <2> HIDE DEF x
  <2>3. LET n == [g EXCEPT !.rows[q.row] = x] IN RowRewritten(g, n, q.row) /\ n.rows[q.row] = x
    BY <1>1, <2>2, RowRewrittenIs
  <2> QED BY <1>2, <2>1, <2>2, <2>3 DEF row, k
<1>3. CASE row.status # "PENDING"
  BY <1>3 DEF Begun, RowRewritten
<1> QED BY <1>2, <1>3

LEMMA MarkedIs ==
    ASSUME NEW g \in Ledger, NEW q \in LedgerRequest, q.op = "mark"
    PROVE  LET n == Marked(g, q) IN
           /\ RowRewritten(g, n, q.row)
           /\ n.rows[q.row].status = q.to /\ n.rows[q.row].attempts = g.rows[q.row].attempts
           /\ n.rows[q.row].failed <=> q.to # "SENT"
<1> DEFINE row == g.rows[q.row]
           x == [row EXCEPT !.status = q.to, !.failed = q.to # "SENT"]
<1>1. q.row \in RowIds /\ row \in Row /\ q.to \in {"PENDING", "SENT", "UNDELIVERABLE"}
  BY LedgerFields, LedgerParts
<1>2. Marked(g, q) = [g EXCEPT !.rows[q.row] = x]
  BY DEF Marked
<1> HIDE DEF row
<1>3. x \in Row /\ x.status = q.to /\ x.attempts = row.attempts /\ x.failed = (q.to # "SENT")
  BY <1>1 DEF Row
<1> HIDE DEF x
<1>4. LET n == [g EXCEPT !.rows[q.row] = x] IN RowRewritten(g, n, q.row) /\ n.rows[q.row] = x
  BY <1>1, <1>3, RowRewrittenIs
<1> QED BY <1>2, <1>3, <1>4 DEF row

-----------------------------------------------------------------------------
(* What the steps of sales ask for *)

\* The outcome a sale is to replace is one of that lead.
LEMMA ActiveOutcomeIs ==
    ASSUME ledger \in Ledger, NEW l
    PROVE  LET a == ActiveOutcome(l) IN
           /\ a \in Nat
           /\ a # 0 => a \in DOMAIN ledger.outcomes /\ ledger.outcomes[a].lead = l
           /\ \A o \in DOMAIN ledger.outcomes :
                ledger.outcomes[o].lead = l /\ ledger.outcomes[o].status = "ACTIVE" => a # 0
<1> DEFINE S == Indices(ledger.outcomes, LAMBDA o : o.lead = l /\ o.status = "ACTIVE")
<1>1. S = {o \in DOMAIN ledger.outcomes : /\ ledger.outcomes[o].lead = l
                                          /\ ledger.outcomes[o].status = "ACTIVE"}
  BY DEF Indices
<1>2. ActiveOutcome(l) = IF S = {} THEN 0 ELSE Max(S)
  BY DEF ActiveOutcome
<1> HIDE DEF S
<1>3. S \in SUBSET Nat /\ 0 \notin S /\ S \in SUBSET (1 .. Len(ledger.outcomes))
      /\ Len(ledger.outcomes) \in Nat
  BY <1>1, LedgerParts
<1>4. CASE S = {}
  <2>1. ActiveOutcome(l) = 0
    BY <1>2, <1>4
  <2>2. \A o \in DOMAIN ledger.outcomes :
          ~ (ledger.outcomes[o].lead = l /\ ledger.outcomes[o].status = "ACTIVE")
    BY <1>1, <1>4
  <2> QED BY <2>1, <2>2
<1>5. CASE S # {}
  <2>1. ActiveOutcome(l) \in S
    BY <1>2, <1>3, <1>5, MaxIsIn
  <2>2. ActiveOutcome(l) \in Nat \ {0}
    BY <1>3, <2>1
  <2>3. ActiveOutcome(l) \in DOMAIN ledger.outcomes /\ ledger.outcomes[ActiveOutcome(l)].lead = l
    BY <1>1, <2>1
  <2> QED BY <2>2, <2>3
<1> QED BY <1>4, <1>5

LEMMA SalesActs ==
    ASSUME TypeOK, SalesStep
    PROVE  \E h \in Handlers :
            \/ LeadStored(h) \/ LeadRefused(h) \/ LeadLinked(h) \/ LeadConverted(h)
            \/ CustomerLinked(h) \/ RetryLinks(h) \/ RetryNext(h)
            \/ \E q \in LedgerRequest : OperatorAsk(h, q)
<1>0. ledger \in Ledger /\ \A l \in DOMAIN ledger.leads : l \in Nat \ {0} /\ ledger.leads[l] \in Lead
  BY LedgerParts DEF TypeOK
<1>1. ASSUME NEW h \in Handlers, NEW l \in DOMAIN ledger.leads, NEW s \in LeadStatus, FollowUp(h, l, s)
      PROVE  \E q \in LedgerRequest : OperatorAsk(h, q)
  <2> DEFINE q == [op |-> "follow", lead |-> l, to |-> s]
  <2>1. q \in LedgerRequest /\ q.op = "follow" /\ q.lead = l
    BY <1>0 DEF LedgerRequest
  <2>2. SalesRequest(h, q) /\ UNCHANGED task
    BY <1>1 DEF FollowUp
  <2> HIDE DEF q
  <2> QED BY <2>1, <2>2 DEF OperatorAsk
<1>2. ASSUME NEW h \in Handlers, NEW l \in DOMAIN ledger.leads, Annotate(h, l)
      PROVE  \E q \in LedgerRequest : OperatorAsk(h, q)
  <2> DEFINE q == [op |-> "annotate", lead |-> l]
  <2>1. q \in LedgerRequest /\ q.op = "annotate" /\ q.lead = l
    BY <1>0 DEF LedgerRequest
  <2>2. SalesRequest(h, q) /\ UNCHANGED task
    BY <1>2 DEF Annotate
  <2> HIDE DEF q
  <2> QED BY <2>1, <2>2 DEF OperatorAsk
<1>3. ASSUME NEW h \in Handlers, NEW l \in DOMAIN ledger.leads, Convert(h, l)
      PROVE  \E q \in LedgerRequest : OperatorAsk(h, q)
  <2> DEFINE q == [op |-> "convert", lead |-> l]
  <2>1. q \in LedgerRequest /\ q.op = "convert" /\ q.lead = l
    BY <1>0 DEF LedgerRequest
  <2>2. SalesRequest(h, q) /\ task' = [task EXCEPT ![h] = [at |-> "converted", lead |-> l]]
    BY <1>3 DEF Convert, Goes
  <2> HIDE DEF q
  <2> QED BY <2>1, <2>2 DEF OperatorAsk
<1>4. ASSUME NEW h \in Handlers, NEW l \in DOMAIN ledger.leads, RecordSale(h, l)
      PROVE  \E q \in LedgerRequest : OperatorAsk(h, q)
  <2> DEFINE q == [op |-> "sale", lead |-> l, was |-> ledger.leads[l], existing |-> ActiveOutcome(l)]
  <2>1. ActiveOutcome(l) \in Nat
    BY <1>0, ActiveOutcomeIs
  <2>2. q \in LedgerRequest /\ q.op = "sale" /\ q.lead = l /\ q.was = ledger.leads[l]
        /\ q.existing = ActiveOutcome(l)
    BY <1>0, <2>1 DEF LedgerRequest
  <2>3. SalesRequest(h, q) /\ UNCHANGED task
    BY <1>4 DEF RecordSale
  <2> HIDE DEF q
  <2> QED BY <2>2, <2>3 DEF OperatorAsk
<1> QED BY <1>1, <1>2, <1>3, <1>4 DEF SalesStep

LEMMA FormFields ==
    /\ NoForm \notin Form /\ \A k \in Nat : EmptyForm(k) \in Form /\ EmptyForm(k).key = k
    /\ \A f \in Form : f.key \in Nat
BY DEF NoForm, EmptyForm, Form

LEMMA FormIsFilled ==
    ASSUME TypeOK, NEW p \in People, HasForm(p)
    PROVE  /\ Answer(p) => Filled(p)
           /\ SkipDescription(p) => Filled(p)
           /\ EditForm(p) => Filled(p)
           /\ forms' = [forms EXCEPT ![p].step = "name"] => Filled(p)
<1>1. forms[p] \in Form /\ forms \in [People -> Form \cup {NoForm}]
  BY DEF TypeOK, HasForm
<1>2. ASSUME NEW f \in Form
      PROVE  /\ \A s \in {"name", "phone", "description", "notes", "confirm"} :
                    [f EXCEPT !.step = s] \in Form /\ [f EXCEPT !.step = s].key = f.key
             /\ [f EXCEPT !.name = TRUE, !.step = "phone"] \in Form
             /\ [f EXCEPT !.name = TRUE, !.step = "phone"].key = f.key
             /\ [f EXCEPT !.phone = TRUE, !.step = "description"] \in Form
             /\ [f EXCEPT !.phone = TRUE, !.step = "description"].key = f.key
             /\ [f EXCEPT !.name = FALSE, !.phone = FALSE, !.step = "name"] \in Form
             /\ [f EXCEPT !.name = FALSE, !.phone = FALSE, !.step = "name"].key = f.key
  BY DEF Form
<1>3. forms[p].step \in {"name", "phone", "description", "notes", "confirm"}
  BY <1>1 DEF Form
<1>4. ASSUME Answer(p) PROVE Filled(p)
  <2> DEFINE f == forms[p]
             n == CASE f.step = "name" -> [f EXCEPT !.name = TRUE, !.step = "phone"]
                    [] f.step = "phone" -> [f EXCEPT !.phone = TRUE, !.step = "description"]
                    [] f.step = "description" -> [f EXCEPT !.step = "notes"]
                    [] f.step = "notes" -> [f EXCEPT !.step = "confirm"]
                    [] f.step = "confirm" -> f
  <2>1. forms' = [forms EXCEPT ![p] = n]
    BY <1>4 DEF Answer
  <2> HIDE DEF f
  <2>2. f \in Form /\ f.step \in {"name", "phone", "description", "notes", "confirm"}
    BY <1>1, <1>3 DEF f
  <2>3. n \in Form /\ n.key = f.key
    BY <1>2, <2>2
  <2> HIDE DEF n
  <2> QED BY <2>1, <2>3 DEF Filled, f
<1>5. forms' = [forms EXCEPT ![p].step = "name"] => Filled(p)
  <2>1. [forms EXCEPT ![p].step = "name"] = [forms EXCEPT ![p] = [forms[p] EXCEPT !.step = "name"]]
    OBVIOUS
  <2> QED BY <1>1, <1>2, <2>1 DEF Filled
<1>6. SkipDescription(p) => Filled(p)
  <2>1. [forms EXCEPT ![p].step = "notes"] = [forms EXCEPT ![p] = [forms[p] EXCEPT !.step = "notes"]]
    OBVIOUS
  <2> QED BY <1>1, <1>2, <2>1 DEF Filled, SkipDescription
<1>7. EditForm(p) => Filled(p)
  <2> DEFINE n == [forms[p] EXCEPT !.name = FALSE, !.phone = FALSE, !.step = "name"]
  <2>1. [forms EXCEPT ![p].name = FALSE, ![p].phone = FALSE, ![p].step = "name"] = [forms EXCEPT ![p] = n]
    BY <1>1
  <2>2. n \in Form /\ n.key = forms[p].key
    BY <1>1, <1>2
  <2> QED BY <2>1, <2>2 DEF Filled, EditForm
<1> QED BY <1>4, <1>5, <1>6, <1>7

\* What is left of a budget once a request was counted.
LEMMA SpendIs ==
    ASSUME TypeOK, NEW kinds \in SUBSET {"requests", "campaigns", "forms", "ticks"}, Spend(kinds)
    PROVE  /\ budget' \in [requests : Nat, campaigns : Nat, forms : Nat, ticks : Nat]
           /\ "forms" \in kinds => budget.forms > 0 /\ budget'.forms = budget.forms - 1
           /\ "forms" \notin kinds => budget'.forms = budget.forms
<1>1. budget \in [requests : Nat, campaigns : Nat, forms : Nat, ticks : Nat]
  BY DEF TypeOK
<1>2. DOMAIN budget = {"requests", "campaigns", "forms", "ticks"}
      /\ \A k \in {"requests", "campaigns", "forms", "ticks"} : budget[k] \in Nat
  BY <1>1
<1>3. budget' = [k \in {"requests", "campaigns", "forms", "ticks"} |->
                    IF k \in kinds THEN budget[k] - 1 ELSE budget[k]]
  BY <1>2 DEF Spend
<1>4. \A k \in {"requests", "campaigns", "forms", "ticks"} :
        (IF k \in kinds THEN budget[k] - 1 ELSE budget[k]) \in Nat
  BY <1>2 DEF Spend
<1>5. budget' \in [requests : Nat, campaigns : Nat, forms : Nat, ticks : Nat]
  BY <1>3, <1>4
<1>6. budget.forms = budget["forms"] /\ budget'.forms = budget'["forms"]
  OBVIOUS
<1> QED BY <1>2, <1>3, <1>5, <1>6 DEF Spend

-----------------------------------------------------------------------------
(* Types *)

LEMMA AsksBookIs ==
    ASSUME TypeOK, Queued, NEW c \in Callers, NEW q \in BookRequest, ask[c] = NoAsk,
           AsksBook(c, q), UNCHANGED ledgerQueue
    PROVE  /\ ask' \in [Callers -> AskType] /\ bookQueue' \in Seq(Callers) /\ Queued'
           /\ ask'[c] = q /\ \A d \in Callers : d # c => ask'[d] = ask[d]
           /\ q # NoAsk
<1>1. ask' = [ask EXCEPT ![c] = q] /\ bookQueue' = Append(bookQueue, c)
  BY DEF AsksBook
<1>2. ask \in [Callers -> AskType] /\ bookQueue \in Seq(Callers) /\ ledgerQueue \in Seq(Callers)
  BY DEF TypeOK, AskType
<1>3. ask' \in [Callers -> AskType] /\ ask'[c] = q /\ \A d \in Callers : d # c => ask'[d] = ask[d]
  BY <1>1, <1>2 DEF AskType
<1>4. Waits(bookQueue, ask, BookRequest) /\ Waits(ledgerQueue, ask, LedgerRequest)
  BY DEF Queued, Waits
<1>5. Waits(Append(bookQueue, c), ask', BookRequest) /\ Waits(ledgerQueue, ask', LedgerRequest)
  BY <1>2, <1>3, <1>4, OneDocument, WaitsLonger, WaitsStill
<1>6. Waits(bookQueue', ask', BookRequest) /\ Waits(ledgerQueue', ask', LedgerRequest)
  BY <1>1, <1>5
<1>7. Queued'
  BY <1>6 DEF Queued, Waits
<1> QED BY <1>1, <1>2, <1>3, <1>7, AppendProperties, OneDocument

LEMMA AsksLedgerIs ==
    ASSUME TypeOK, Queued, NEW c \in Callers, NEW q \in LedgerRequest, ask[c] = NoAsk,
           AsksLedger(c, q), UNCHANGED bookQueue
    PROVE  /\ ask' \in [Callers -> AskType] /\ ledgerQueue' \in Seq(Callers) /\ Queued'
           /\ ask'[c] = q /\ \A d \in Callers : d # c => ask'[d] = ask[d]
           /\ q # NoAsk
<1>1. ask' = [ask EXCEPT ![c] = q] /\ ledgerQueue' = Append(ledgerQueue, c)
  BY DEF AsksLedger
<1>2. ask \in [Callers -> AskType] /\ bookQueue \in Seq(Callers) /\ ledgerQueue \in Seq(Callers)
  BY DEF TypeOK, AskType
<1>3. ask' \in [Callers -> AskType] /\ ask'[c] = q /\ \A d \in Callers : d # c => ask'[d] = ask[d]
  BY <1>1, <1>2 DEF AskType
<1>4. Waits(bookQueue, ask, BookRequest) /\ Waits(ledgerQueue, ask, LedgerRequest)
  BY DEF Queued, Waits
<1>5. Waits(bookQueue, ask', BookRequest) /\ Waits(Append(ledgerQueue, c), ask', LedgerRequest)
  BY <1>2, <1>3, <1>4, OneDocument, WaitsLonger, WaitsStill
<1>6. Waits(bookQueue', ask', BookRequest) /\ Waits(ledgerQueue', ask', LedgerRequest)
  BY <1>1, <1>5
<1>7. Queued'
  BY <1>6 DEF Queued, Waits
<1> QED BY <1>1, <1>2, <1>3, <1>7, AppendProperties, OneDocument

LEMMA NobodyAsks ==
    ASSUME Queued, UNCHANGED <<ask, bookQueue, ledgerQueue>>
    PROVE  Queued'
BY DEF Queued

LEMMA FaultyIs ==
    ASSUME TypeOK, NEW kind \in Kinds, Faulty(kind)
    PROVE  /\ faults' \in [Kinds -> Nat] /\ faults'[kind] = faults[kind] + 1
           /\ \A k \in Kinds : k # kind => faults'[k] = faults[k]
BY DEF TypeOK, Faulty

-----------------------------------------------------------------------------
(* The transactions, whole *)

LEMMA StartedIs ==
    ASSUME NEW b \in Book, NEW q \in BookRequest, q.op = "start"
    PROVE  LET n == Started(b, q)
               e == [type |-> "START", campaign |-> q.campaign, who |-> q.who, at |-> q.at, key |-> None]
           IN /\ n \in Book /\ n.conversions = b.conversions /\ n.imports = b.imports
              /\ HasEvent(b, "START", q.campaign, q.who) => n = b
              /\ ~ HasEvent(b, "START", q.campaign, q.who) =>
                    /\ e \in Event /\ n.events = Append(b.events, e)
                    /\ n.touched = [b.touched EXCEPT ![q.who] = Later(@, q.campaign, q.at)]
<1>1. q.campaign \in Campaigns /\ q.campaign \in Credited /\ q.who \in People /\ q.at \in Nat
  BY BookFields DEF TimedOps, Credited
<1> DEFINE e == [type |-> "START", campaign |-> q.campaign, who |-> q.who, at |-> q.at, key |-> None]
           r == Recorded(b, "START", q.campaign, q.who, q.at, None)
<1>2. /\ e \in Event /\ r \in Book /\ r.events = Append(b.events, e)
      /\ r.touched = b.touched /\ r.conversions = b.conversions /\ r.imports = b.imports
  <2>1. e \in Event
    BY <1>1 DEF Event, TouchStages, Credited
  <2>2. r = [b EXCEPT !.events = Append(b.events, e)]
    BY DEF Recorded
  <2> HIDE DEF e, r
  <2> QED BY <2>1, <2>2, EventIsAdded
<1> HIDE DEF r
<1>3. LET n == Touched(r, q.who, q.campaign, q.at) IN
      /\ n \in Book /\ n.events = r.events /\ n.conversions = r.conversions /\ n.imports = r.imports
      /\ n.touched = [r.touched EXCEPT ![q.who] = Later(r.touched[q.who], q.campaign, q.at)]
  BY <1>1, <1>2, TouchedIs
<1>4. CASE HasEvent(b, "START", q.campaign, q.who)
  BY <1>4 DEF Started
<1>5. CASE ~ HasEvent(b, "START", q.campaign, q.who)
  <2>1. Started(b, q) = Touched(r, q.who, q.campaign, q.at)
    BY <1>5 DEF Started, r
  <2> QED BY <1>2, <1>3, <1>5, <2>1
<1> QED BY <1>4, <1>5

LEMMA AlertedIs ==
    ASSUME NEW b \in Book, NEW q \in BookRequest, q.op = "alert"
    PROVE  LET n == Alerted(b, q)
               e == [type |-> "ALERT_CREATED", campaign |-> q.campaign, who |-> q.who, at |-> q.at,
                     key |-> q.key]
           IN /\ n \in Book /\ n.conversions = b.conversions /\ n.imports = b.imports
              /\ n.touched = b.touched
              /\ n.events = b.events \/ (e \in Event /\ n.events = Append(b.events, e))
<1>1. q.campaign \in Credited /\ q.who \in People /\ q.at \in Nat /\ q.key \in Alerts
  BY BookFields DEF TimedOps, Credited
<1> DEFINE e == [type |-> "ALERT_CREATED", campaign |-> q.campaign, who |-> q.who, at |-> q.at,
                 key |-> q.key]
           r == Recorded(b, "ALERT_CREATED", q.campaign, q.who, q.at, q.key)
<1>2. /\ e \in Event /\ r \in Book /\ r.events = Append(b.events, e)
      /\ r.touched = b.touched /\ r.conversions = b.conversions /\ r.imports = b.imports
  <2>1. e \in Event
    BY <1>1 DEF Event, TouchStages, Credited
  <2>2. r = [b EXCEPT !.events = Append(b.events, e)]
    BY DEF Recorded
  <2> HIDE DEF e, r
  <2> QED BY <2>1, <2>2, EventIsAdded
<1> HIDE DEF e
<1>3. Alerted(b, q) = b \/ Alerted(b, q) = r
  BY DEF Alerted
<1> HIDE DEF r
<1> QED BY <1>2, <1>3 DEF e

LEMMA ObservedIs ==
    ASSUME NEW b \in Book, NEW q \in BookRequest, q.op = "observe"
    PROVE  LET n == Observed(b, q)
               e == [type |-> "CHANNEL_JOIN", campaign |-> q.campaign, who |-> q.who, at |-> q.at,
                     key |-> None]
           IN /\ n \in Book /\ n.conversions = b.conversions /\ n.imports = b.imports
              /\ ~ q.transition => n.events = b.events /\ n.touched = b.touched
              /\ q.transition => e \in Event /\ n.events = Append(b.events, e)
              /\ q.transition /\ q.campaign = None => n.touched = b.touched
              /\ q.transition /\ q.campaign # None =>
                    n.touched = [b.touched EXCEPT ![q.who] = Later(@, q.campaign, q.at)]
<1>1. q.campaign \in Credited /\ q.who \in People /\ q.at \in Nat
      /\ q.state \in {"MEMBER", "NOT_MEMBER"} /\ q.transition \in BOOLEAN
  BY BookFields DEF TimedOps
<1> DEFINE X == [b.members EXCEPT ![q.who] = q.state]
           seen == [b EXCEPT !.members = X]
           e == [type |-> "CHANNEL_JOIN", campaign |-> q.campaign, who |-> q.who, at |-> q.at, key |-> None]
           r == Recorded(seen, "CHANNEL_JOIN", q.campaign, q.who, q.at, None)
<1>2. X \in [People -> {"UNKNOWN", "MEMBER", "NOT_MEMBER"}]
  BY <1>1, BookTables
<1> HIDE DEF X
<1>3. /\ seen \in Book /\ seen.events = b.events /\ seen.touched = b.touched
      /\ seen.conversions = b.conversions /\ seen.imports = b.imports
  BY <1>2, WithMembers
<1> HIDE DEF seen
<1>4. /\ e \in Event /\ r \in Book /\ r.events = Append(seen.events, e)
      /\ r.touched = seen.touched /\ r.conversions = seen.conversions /\ r.imports = seen.imports
  <2>1. e \in Event
    BY <1>1 DEF Event, TouchStages, Credited
  <2>2. r = [seen EXCEPT !.events = Append(seen.events, e)]
    BY DEF Recorded
  <2> HIDE DEF e, r
  <2> QED BY <1>3, <2>1, <2>2, EventIsAdded
<1> HIDE DEF r
<1>5. [b EXCEPT !.members[q.who] = q.state] = seen
  BY DEF seen, X
<1>6. ~ q.transition => Observed(b, q) = seen
  BY <1>5 DEF Observed
<1>7. q.transition /\ q.campaign = None => Observed(b, q) = r
  BY <1>5 DEF Observed, r
<1>8. q.transition /\ q.campaign # None => Observed(b, q) = Touched(r, q.who, q.campaign, q.at)
  BY <1>5 DEF Observed, r
<1>9. q.campaign # None => LET n == Touched(r, q.who, q.campaign, q.at) IN
      /\ n \in Book /\ n.events = r.events /\ n.conversions = r.conversions /\ n.imports = r.imports
      /\ n.touched = [r.touched EXCEPT ![q.who] = Later(r.touched[q.who], q.campaign, q.at)]
  <2>1. q.campaign # None => q.campaign \in Campaigns
    BY <1>1 DEF Credited
  <2> QED BY <1>1, <1>4, <2>1, TouchedIs
<1>10. CASE ~ q.transition
  BY <1>3, <1>6, <1>10
<1>11. CASE q.transition /\ q.campaign = None
  BY <1>3, <1>4, <1>7, <1>11
<1>12. CASE q.transition /\ q.campaign # None
  BY <1>3, <1>4, <1>8, <1>9, <1>12
<1> QED BY <1>1, <1>10, <1>11, <1>12

LEMMA ClickedIs ==
    ASSUME NEW b \in Book, NEW q \in BookRequest, q.op = "click"
    PROVE  LET n == Clicked(b, q)
               e == [type |-> "CLICK", campaign |-> q.campaign, who |-> None, at |-> q.at, key |-> None]
               E == Append(b.events, e)
           IN /\ n \in Book /\ n.conversions = b.conversions /\ n.imports = b.imports
              /\ n.touched = b.touched /\ e \in Event /\ E \in Seq(Event)
              /\ DOMAIN n.events = DOMAIN E
              /\ \A i \in DOMAIN E :
                    n.events[i] = E[i] \/ (E[i].type = "CLICK" /\ n.events[i] = Gone)
<1>1. q.campaign \in Credited /\ q.at \in Nat
  BY BookFields DEF TimedOps, Credited
<1> DEFINE e == [type |-> "CLICK", campaign |-> q.campaign, who |-> None, at |-> q.at, key |-> None]
           r == Recorded(b, "CLICK", q.campaign, None, q.at, None)
<1>2. /\ e \in Event /\ r \in Book /\ r.events = Append(b.events, e)
      /\ r.touched = b.touched /\ r.conversions = b.conversions /\ r.imports = b.imports
  <2>1. e \in Event
    BY <1>1 DEF Event, TouchStages, Credited
  <2>2. r = [b EXCEPT !.events = Append(b.events, e)]
    BY DEF Recorded
  <2> HIDE DEF e, r
  <2> QED BY <2>1, <2>2, EventIsAdded
<1>3. Clicked(b, q) = Pruned(r, q.at)
  BY DEF Clicked
<1> HIDE DEF r, e
<1>4. r.events \in Seq(Event)
  BY <1>2, BookParts
<1> QED BY <1>2, <1>3, <1>4, PrunedIs DEF e

LEMMA BookResultIs ==
    ASSUME TypeOK, NEW q \in BookRequest, q.op = "correct" => q.row \in DOMAIN book.conversions
    PROVE  /\ BookResult(q) \in Book /\ BookResultOf(q, BookResult(q)) /\ Grows(book, BookResult(q))
           /\ q.op = "register" => LET n == BookResult(q) IN
                /\ Len(n.conversions) \in DOMAIN n.conversions
                /\ n.conversions[Len(n.conversions)].type = q.type
                /\ n.conversions[Len(n.conversions)].who = q.who
<1>0. book \in Book
  BY DEF TypeOK
<1>1. CASE q.op = "status"
  <2> DEFINE X == [book.status EXCEPT ![q.campaign] = q.to]
  <2>1. X \in [Campaigns -> CampaignStatus]
    BY <1>0, <1>1, BookTables, BookFields
  <2>2. BookResult(q) = [book EXCEPT !.status = X]
    BY <1>1 DEF BookResult
  <2> HIDE DEF X
  <2>3. LET n == [book EXCEPT !.status = X] IN
         /\ n \in Book /\ n.events = book.events /\ n.touched = book.touched
         /\ n.conversions = book.conversions /\ n.imports = book.imports
    BY <1>0, <2>1, WithStatus
  <2> QED BY <1>1, <2>2, <2>3 DEF BookResultOf, Grows
<1>2. CASE q.op \in {"describe", "refuse"}
  <2>1. BookResult(q) = book
    BY <1>2 DEF BookResult
  <2> QED BY <1>0, <1>2, <2>1 DEF BookResultOf, Grows
<1>3. CASE q.op = "start"
  <2>1. BookResult(q) = Started(book, q)
    BY <1>3 DEF BookResult
  <2> QED BY <1>0, <1>3, <2>1, StartedIs DEF BookResultOf, Grows
<1>4. CASE q.op = "alert"
  <2>1. BookResult(q) = Alerted(book, q)
    BY <1>4 DEF BookResult
  <2> QED BY <1>0, <1>4, <2>1, AlertedIs DEF BookResultOf, Grows
<1>5. CASE q.op = "observe"
  <2>1. BookResult(q) = Observed(book, q)
    BY <1>5 DEF BookResult
  <2> QED BY <1>0, <1>5, <2>1, ObservedIs DEF BookResultOf, Grows
<1>6. CASE q.op = "click"
  <2>1. BookResult(q) = Clicked(book, q)
    BY <1>6 DEF BookResult
  <2> QED BY <1>0, <1>6, <2>1, ClickedIs DEF BookResultOf, Grows
<1>7. CASE q.op = "register"
  <2>1. BookResult(q) = Registered(book, q)
    BY <1>7 DEF BookResult
  <2>2. PICK k \in ConversionRecord :
          /\ Registered(book, q).conversions = Append(book.conversions, k)
          /\ k.type = q.type /\ k.who = q.who
    BY <1>0, <1>7, RegisteredIs
  <2>3. /\ book.conversions \in Seq(ConversionRecord)
    BY <1>0, BookParts
  <2>4. LET C == Append(book.conversions, k) IN
        /\ Len(C) \in DOMAIN C /\ C[Len(C)] = k
        /\ \A i \in DOMAIN book.conversions : i \in DOMAIN C /\ C[i] = book.conversions[i]
    BY <2>3, AppendIs
  <2> QED BY <1>0, <1>7, <2>1, <2>2, <2>4, RegisteredIs DEF BookResultOf, Grows
<1>8. CASE q.op = "correct"
  <2>1. BookResult(q) = Corrected(book, q)
    BY <1>8 DEF BookResult
  <2>2. Replaced(book, Corrected(book, q), q) => Grows(book, Corrected(book, q))
    <3> DEFINE n == Corrected(book, q)
    <3> HIDE DEF n
    <3>1. Replaced(book, n, q) => Grows(book, n)
      BY <1>8 DEF Replaced, Grows
    <3> QED BY <3>1 DEF n
  <2>3. Grows(book, book)
    BY DEF Grows
  <2> QED BY <1>0, <1>8, <2>1, <2>2, <2>3, CorrectedIs DEF BookResultOf
<1>9. CASE q.op = "import"
  <2>1. BookResult(q) = Imported(book, q)
    BY <1>9 DEF BookResult
  <2> QED BY <1>0, <1>9, <2>1, ImportedIs DEF BookResultOf, Grows
<1> QED BY <1>1, <1>2, <1>3, <1>4, <1>5, <1>6, <1>7, <1>8, <1>9, BookFields DEF BookOps

LEMMA LedgerResultIs ==
    ASSUME TypeOK, NEW q \in LedgerRequest, q.op \in NeedsLead => q.lead \in DOMAIN ledger.leads
    PROVE  /\ LedgerResult(q) \in Ledger /\ LedgerResultOf(q, LedgerResult(q))
           /\ \A l \in DOMAIN ledger.leads : l \in DOMAIN LedgerResult(q).leads
<1>0. ledger \in Ledger /\ now \in Nat
  BY DEF TypeOK
<1>1. CASE q.op = "create"
  <2>1. LedgerResult(q) = Created(ledger, q)
    BY <1>1 DEF LedgerResult
  <2> QED BY <1>0, <1>1, <2>1, CreatedIs DEF LedgerResultOf
<1>2. CASE q.op = "follow"
  <2>1. LedgerResult(q) = Followed(ledger, q)
    BY <1>2 DEF LedgerResult
  <2> QED BY <1>0, <1>2, <2>1, FollowedIs DEF LedgerResultOf, Rewritten, NeedsLead
<1>3. CASE q.op = "annotate"
  <2>1. LedgerResult(q) = Annotated(ledger, q)
    BY <1>3 DEF LedgerResult
  <2> QED BY <1>0, <1>3, <2>1, AnnotatedIs DEF LedgerResultOf, Rewritten, NeedsLead
<1>4. CASE q.op = "convert"
  <2>1. LedgerResult(q) = Converted(ledger, q)
    BY <1>4 DEF LedgerResult
  <2> QED BY <1>0, <1>4, <2>1, ConvertedIs DEF LedgerResultOf, Rewritten, NeedsLead
<1>5. CASE q.op = "store"
  <2>1. LedgerResult(q) = Stored(ledger, q)
    BY <1>5 DEF LedgerResult
  <2> QED BY <1>0, <1>5, <2>1, StoredIs DEF LedgerResultOf, Rewritten, NeedsLead
<1>6. CASE q.op = "sale"
  <2>1. LedgerResult(q) = Sold(ledger, q)
    BY <1>6 DEF LedgerResult
  <2>2. q.lead \in DOMAIN ledger.leads
    BY <1>6 DEF NeedsLead
  <2>3. \E x \in Lead : Rewritten(ledger, Sold(ledger, q), q.lead, x)
    BY <1>0, <1>6, <2>2, SoldIs
  <2> QED BY <1>6, <2>1, <2>3 DEF LedgerResultOf, Rewritten
<1>7. CASE q.op = "enqueue"
  <2>1. LedgerResult(q) = Enqueued(ledger, q)
    BY <1>7 DEF LedgerResult
  <2> QED BY <1>0, <1>7, <2>1, EnqueuedIs DEF LedgerResultOf
<1>8. CASE q.op = "begin"
  <2>1. LedgerResult(q) = Begun(ledger, q)
    BY <1>8 DEF LedgerResult
  <2> QED BY <1>0, <1>8, <2>1, BegunIs DEF LedgerResultOf, RowRewritten
<1>9. CASE q.op = "mark"
  <2>1. LedgerResult(q) = Marked(ledger, q)
    BY <1>9 DEF LedgerResult
  <2> QED BY <1>0, <1>9, <2>1, MarkedIs DEF LedgerResultOf, RowRewritten
<1> QED BY <1>1, <1>2, <1>3, <1>4, <1>5, <1>6, <1>7, <1>8, <1>9, LedgerFields DEF LedgerOps

\* The lead an answer names, whether it was made or found.
LEMMA LeadOfIs ==
    ASSUME NEW l \in Nat
    PROVE  LeadOf(l) = l /\ LeadOf(-l) = l
<1>1. l \in Int /\ -l \in Int /\ ~ (l < 0)
  OBVIOUS
<1>2. LeadOf(l) = l
  BY <1>1 DEF LeadOf
<1>3. CASE -l < 0
  <2>1. LeadOf(-l) = -(-l)
    BY <1>1, <1>3 DEF LeadOf
  <2> QED BY <1>2, <2>1
<1>4. CASE ~ (-l < 0)
  <2>1. LeadOf(-l) = -l
    BY <1>1, <1>4 DEF LeadOf
  <2> QED BY <1>2, <1>4, <2>1
<1> QED BY <1>3, <1>4

\* A refusal and a failure name no lead.
LEMMA LeadOfNothing == LeadOf(None) = None /\ LeadOf(0) = 0
BY LeadOfIs, CampaignsAssumption DEF LeadOf

\* What a transaction answers.
LEMMA LedgerReplyIs ==
    ASSUME TypeOK, NEW q \in LedgerRequest
    PROVE  LET a == LedgerReply(q, LedgerResult(q)) IN
           /\ a \in Int \cup {None}
           /\ q.op = "create" =>
                \/ a = None /\ LedgerResult(q) = ledger
                \/ /\ LeadOf(a) \in DOMAIN LedgerResult(q).leads
                   /\ LedgerResult(q).leads[LeadOf(a)].key = q.key
           /\ q.op = "begin" =>
                /\ ledger.rows[q.row].status = "PENDING" => a = 1
                /\ ledger.rows[q.row].status # "PENDING" => a = None
           /\ q.op = "convert" => a = 1
           /\ q.op \notin {"create", "begin", "convert"} => a = 0
<1>0. ledger \in Ledger /\ q.op \in LedgerOps
  BY LedgerFields DEF TypeOK
<1>1. CASE q.op = "create"
  <2> DEFINE n == Created(ledger, q)
             found == CHOOSE m \in OfKey(n, q.key) : TRUE
             a == IF n = ledger THEN -found ELSE found
  <2>1. LedgerResult(q) = n
    BY <1>1 DEF LedgerResult
  <2>2. /\ n \in Ledger
        /\ \/ n = ledger /\ (OfKey(ledger, q.key) # {} \/ Refused(ledger, q))
           \/ Len(ledger.leads) + 1 \in DOMAIN n.leads /\ n.leads[Len(ledger.leads) + 1].key = q.key
    BY <1>0, <1>1, CreatedIs
  <2> HIDE DEF n
  <2>3. OfKey(n, q.key) = {l \in DOMAIN n.leads : n.leads[l].key = q.key}
    BY DEF OfKey, Indices
  <2>4. CASE Refused(ledger, q)
    <3>1. LedgerReply(q, LedgerResult(q)) = None
      BY <1>1, <2>4 DEF LedgerReply
    <3>2. LedgerResult(q) = ledger
      BY <1>1, <2>1, <2>4 DEF Created, n
    <3> QED BY <1>1, <3>1, <3>2
  <2>5. CASE ~ Refused(ledger, q)
    <3>1. LedgerReply(q, LedgerResult(q)) = a
      BY <1>1, <2>1, <2>5 DEF LedgerReply
    <3>2. OfKey(n, q.key) # {}
      <4>1. n = ledger /\ OfKey(ledger, q.key) # {} => OfKey(n, q.key) # {}
        OBVIOUS
      <4> QED BY <2>2, <2>3, <2>5, <4>1
    <3>3. found \in OfKey(n, q.key)
      BY <3>2
    <3> HIDE DEF found
    <3>4. found \in DOMAIN n.leads /\ n.leads[found].key = q.key
      BY <2>3, <3>3
    <3>5. found \in Nat
      BY <2>2, <3>4, LedgerParts
    <3>6. LeadOf(a) = found /\ a \in Int
      BY <3>5, LeadOfIs
    <3> HIDE DEF a
    <3> QED BY <1>1, <2>1, <3>1, <3>4, <3>6
  <2> QED BY <2>4, <2>5
<1>2. CASE q.op = "begin"
  BY <1>2 DEF LedgerReply
<1>3. CASE q.op \notin {"create", "begin"}
  <2>1. LedgerReply(q, LedgerResult(q)) = IF q.op = "convert" THEN 1 ELSE 0
    BY <1>3 DEF LedgerReply
  <2> QED BY <1>3, <2>1
<1> QED BY <1>1, <1>2, <1>3

LEMMA BookTransactIs ==
    ASSUME TypeInv, BookTransact, UNCHANGED ledgerQueue
    PROVE  \E c \in Callers, q \in BookRequest : BookRuns(c, q)
<1> DEFINE c == Head(bookQueue)
           q == ask[c]
           b == BookResult(q)
<1>0. /\ TypeOK /\ Queued /\ NamesExist /\ ask \in [Callers -> AskType]
      /\ bookQueue \in Seq(Callers) /\ ledgerQueue \in Seq(Callers)
      /\ reply \in [Callers -> Int \cup {None}] /\ bookQueue # <<>>
  BY DEF TypeInv, TypeOK, AskType, BookTransact
<1>1. Waits(bookQueue, ask, BookRequest) /\ Waits(ledgerQueue, ask, LedgerRequest)
  BY <1>0 DEF Queued, Waits
<1>2. /\ ask' = [ask EXCEPT ![c] = NoAsk] /\ bookQueue' = Tail(bookQueue)
      /\ UNCHANGED <<task, known, clicks, now, budget>>
      /\ \/ /\ book' = b /\ UNCHANGED faults
            /\ reply' = [reply EXCEPT ![c] = IF q.op = "register" THEN Len(b.conversions) ELSE 0]
         \/ Faulty("write") /\ UNCHANGED book /\ reply' = [reply EXCEPT ![c] = 0]
  BY DEF BookTransact
<1>3. c \in Callers /\ q \in BookRequest
  BY <1>0, <1>1, WaitsLess
<1> HIDE DEF c
<1>4. ask' \in [Callers -> AskType] /\ ask'[c] = NoAsk /\ \A d \in Callers : d # c => ask'[d] = ask[d]
  BY <1>0, <1>2, <1>3 DEF AskType
<1>5. Waits(Tail(bookQueue), ask', BookRequest) /\ Tail(bookQueue) \in Seq(Callers)
  BY <1>0, <1>1, <1>4, WaitsLess DEF c
<1>6. Waits(ledgerQueue, ask', LedgerRequest)
  BY <1>0, <1>1, <1>3, <1>4, OneDocument, WaitsStill
<1>7. Queued' /\ bookQueue' \in Seq(Callers)
  <2>1. Waits(bookQueue', ask', BookRequest) /\ Waits(ledgerQueue', ask', LedgerRequest)
    BY <1>2, <1>5, <1>6
  <2> QED BY <1>2, <1>5, <2>1 DEF Queued, Waits
<1>8. q.op = "correct" => q.row \in DOMAIN book.conversions
  BY <1>0, <1>3 DEF NamesExist
<1> HIDE DEF q
<1>9. b \in Book /\ Len(b.conversions) \in Nat
  BY <1>0, <1>3, <1>8, BookResultIs, BookParts
<1> HIDE DEF b
<1>10. /\ reply' \in [Callers -> Int \cup {None}]
       /\ \A d \in Callers : d # c => reply'[d] = reply[d]
       /\ \/ /\ book' = b /\ UNCHANGED faults
             /\ reply'[c] = IF q.op = "register" THEN Len(book'.conversions) ELSE 0
          \/ Faulty("write") /\ UNCHANGED book /\ reply'[c] = 0
  <2>1. ASSUME NEW v \in Int \cup {None}, reply' = [reply EXCEPT ![c] = v]
        PROVE  /\ reply' \in [Callers -> Int \cup {None}] /\ reply'[c] = v
               /\ \A d \in Callers : d # c => reply'[d] = reply[d]
    BY <1>0, <1>3, <2>1
  <2>2. (IF q.op = "register" THEN Len(b.conversions) ELSE 0) \in Int \cup {None}
        /\ 0 \in Int \cup {None}
    BY <1>9
  <2>3. CASE /\ book' = b /\ UNCHANGED faults
             /\ reply' = [reply EXCEPT ![c] = IF q.op = "register" THEN Len(b.conversions) ELSE 0]
    BY <2>1, <2>2, <2>3
  <2>4. CASE Faulty("write") /\ UNCHANGED book /\ reply' = [reply EXCEPT ![c] = 0]
    BY <2>1, <2>2, <2>4
  <2> QED BY <1>2, <2>3, <2>4
<1>11. BookRuns(c, q)
  BY <1>0, <1>2, <1>4, <1>7, <1>10 DEF BookRuns, c, q, b
<1> QED BY <1>3, <1>11 DEF q

LEMMA LedgerTransactIs ==
    ASSUME TypeInv, LedgerTransact
    PROVE  \E c \in Callers, q \in LedgerRequest : LedgerRuns(c, q)
<1> DEFINE c == Head(ledgerQueue)
           q == ask[c]
           g == LedgerResult(q)
           a == LedgerReply(q, g)
<1>0. /\ TypeOK /\ Queued /\ NamesExist /\ ask \in [Callers -> AskType]
      /\ bookQueue \in Seq(Callers) /\ ledgerQueue \in Seq(Callers)
      /\ reply \in [Callers -> Int \cup {None}] /\ ledgerQueue # <<>>
  BY DEF TypeInv, TypeOK, AskType, LedgerTransact
<1>1. Waits(bookQueue, ask, BookRequest) /\ Waits(ledgerQueue, ask, LedgerRequest)
  BY <1>0 DEF Queued, Waits
<1>2. /\ ask' = [ask EXCEPT ![c] = NoAsk] /\ ledgerQueue' = Tail(ledgerQueue)
      /\ UNCHANGED <<forms, opened, task, budget, campaignVars>>
      /\ \/ ledger' = g /\ UNCHANGED faults /\ reply' = [reply EXCEPT ![c] = a]
         \/ Faulty("write") /\ UNCHANGED ledger /\ reply' = [reply EXCEPT ![c] = 0]
  BY DEF LedgerTransact
<1>3. c \in Callers /\ q \in LedgerRequest
  BY <1>0, <1>1, WaitsLess
<1> HIDE DEF c
<1>4. ask' \in [Callers -> AskType] /\ ask'[c] = NoAsk /\ \A d \in Callers : d # c => ask'[d] = ask[d]
  BY <1>0, <1>2, <1>3 DEF AskType
<1>5. Waits(Tail(ledgerQueue), ask', LedgerRequest) /\ Tail(ledgerQueue) \in Seq(Callers)
  BY <1>0, <1>1, <1>4, WaitsLess DEF c
<1>6. Waits(bookQueue, ask', BookRequest)
  BY <1>0, <1>1, <1>3, <1>4, OneDocument, WaitsStill
<1>7. Queued' /\ ledgerQueue' \in Seq(Callers)
  <2>1. Waits(bookQueue', ask', BookRequest) /\ Waits(ledgerQueue', ask', LedgerRequest)
    BY <1>2, <1>5, <1>6 DEF campaignVars
  <2> QED BY <1>2, <1>5, <2>1 DEF Queued, Waits
<1> HIDE DEF q
<1>8. a \in Int \cup {None}
  BY <1>0, <1>3, LedgerReplyIs
<1> HIDE DEF a, g
<1>9. /\ reply' \in [Callers -> Int \cup {None}]
      /\ \A d \in Callers : d # c => reply'[d] = reply[d]
      /\ \/ ledger' = g /\ UNCHANGED faults /\ reply'[c] = a
         \/ Faulty("write") /\ UNCHANGED ledger /\ reply'[c] = 0
  <2>1. ASSUME NEW v \in Int \cup {None}, reply' = [reply EXCEPT ![c] = v]
        PROVE  /\ reply' \in [Callers -> Int \cup {None}] /\ reply'[c] = v
               /\ \A d \in Callers : d # c => reply'[d] = reply[d]
    BY <1>0, <1>3, <2>1
  <2>2. CASE ledger' = g /\ UNCHANGED faults /\ reply' = [reply EXCEPT ![c] = a]
    BY <1>8, <2>1, <2>2
  <2>3. CASE Faulty("write") /\ UNCHANGED ledger /\ reply' = [reply EXCEPT ![c] = 0]
    <3>1. 0 \in Int \cup {None} /\ reply' = [reply EXCEPT ![c] = 0]
      BY <2>3
    <3>2. /\ reply' \in [Callers -> Int \cup {None}] /\ reply'[c] = 0
          /\ \A d \in Callers : d # c => reply'[d] = reply[d]
      BY <2>1, <3>1
    <3> QED BY <2>3, <3>2
  <2> QED BY <1>2, <2>2, <2>3
<1>10. LedgerRuns(c, q)
  BY <1>0, <1>2, <1>4, <1>7, <1>9 DEF LedgerRuns, c, q, g, a
<1> QED BY <1>3, <1>10 DEF q

-----------------------------------------------------------------------------
(* The types are kept *)

LEMMA TaskIs ==
    /\ NoTask \in Task
    /\ \A p \in People : [at |-> "membership", who |-> p] \in Task /\ [at |-> "created", who |-> p] \in Task
    /\ \A p \in People, l \in Nat \ {0} : [at |-> "linked", who |-> p, lead |-> l] \in Task
    /\ \A l \in Nat \ {0} : /\ [at |-> "enqueued", lead |-> l] \in Task
                            /\ [at |-> "converted", lead |-> l] \in Task
                            /\ [at |-> "customer", lead |-> l] \in Task
    /\ \A S \in SUBSET (Nat \ {0}), d \in {0, 1} : [at |-> "retry", left |-> S, done |-> d] \in Task
BY DEF Task

LEMMA TypeParts == TypeOK <=> book \in Book /\ ledger \in Ledger /\ RestOK /\ AsksOK
BY DEF TypeOK, RestOK, AsksOK, AskType, Budget

LEMMA RequestTypes ==
    ASSUME TypeOK, Queued, NEW c \in Callers
    PROVE  /\ \A q \in BookRequest : ask[c] = NoAsk /\ AsksBook(c, q) /\ UNCHANGED ledgerQueue =>
                AsksOK' /\ Queued'
           /\ \A q \in LedgerRequest : ask[c] = NoAsk /\ AsksLedger(c, q) /\ UNCHANGED bookQueue =>
                AsksOK' /\ Queued'
           /\ UNCHANGED <<ask, bookQueue, ledgerQueue>> => AsksOK' /\ Queued'
<1>1. AsksOK
  BY TypeParts
<1>2. ASSUME NEW q \in BookRequest, ask[c] = NoAsk, AsksBook(c, q), UNCHANGED ledgerQueue
      PROVE  AsksOK' /\ Queued'
  BY <1>1, <1>2, AsksBookIs DEF AsksOK
<1>3. ASSUME NEW q \in LedgerRequest, ask[c] = NoAsk, AsksLedger(c, q), UNCHANGED bookQueue
      PROVE  AsksOK' /\ Queued'
  BY <1>1, <1>3, AsksLedgerIs DEF AsksOK
<1>4. UNCHANGED <<ask, bookQueue, ledgerQueue>> => AsksOK' /\ Queued'
  BY <1>1, NobodyAsks DEF AsksOK
<1> QED BY <1>2, <1>3, <1>4

LEMMA CampaignTypes ==
    ASSUME TypeInv, CampaignStep, UNCHANGED <<salesVars, notificationVars>>
    PROVE  TypeOK' /\ Queued'
<1> USE HandlersCall
<1>0. /\ TypeOK /\ Queued /\ NamesExist /\ book \in Book /\ ledger \in Ledger /\ RestOK /\ AsksOK
  BY TypeParts DEF TypeInv
<1>1. UNCHANGED <<ledger, ledgerQueue, forms, opened, loop, recovering, received, again>>
  BY DEF salesVars, notificationVars
<1>2. ASSUME NEW c \in Handlers \cup {Web}, NEW q \in BookRequest, CampaignAsk(c, q)
      PROVE  TypeOK' /\ Queued'
  <2>1. /\ ask[c] = NoAsk /\ AsksBook(c, q) /\ UNCHANGED <<book, reply, now, faults>>
        /\ Spend({"requests", "campaigns"})
    BY <1>2 DEF CampaignAsk, CampaignRequest, Free
  <2>2. AsksOK' /\ Queued'
    BY <1>0, <1>1, <2>1, RequestTypes
  <2>3. budget' \in Budget
    BY <1>0, <2>1, SpendIs DEF Budget
  <2>4. task' \in [Handlers -> Task]
    <3>1. task \in [Handlers -> Task]
      BY <1>0 DEF RestOK
    <3>2. \/ UNCHANGED task
          \/ \E p \in People : task' = [task EXCEPT ![c] = [at |-> "membership", who |-> p]]
      BY <1>2 DEF CampaignAsk
    <3>3. ASSUME NEW t \in Task, task' = [task EXCEPT ![c] = t] PROVE task' \in [Handlers -> Task]
      BY <3>1, <3>3
    <3> QED BY <3>1, <3>2, <3>3, TaskIs
  <2>5. RestOK'
    BY <1>0, <1>1, <1>2, <2>1, <2>3, <2>4 DEF RestOK, CampaignAsk
  <2>6. book' \in Book /\ ledger' \in Ledger
    BY <1>0, <1>1, <2>1
  <2> QED BY <2>2, <2>5, <2>6 DEF TypeOK, RestOK, AsksOK, AskType, Budget
<1>3. ASSUME NEW h \in Handlers, NEW q \in BookRequest, Observation(h, q)
      PROVE  TypeOK' /\ Queued'
  <2>1. /\ ask[h] = NoAsk /\ AsksBook(h, q)
        /\ UNCHANGED <<book, reply, known, clicks, now, faults, budget>>
        /\ task' = [task EXCEPT ![h] = NoTask]
    BY <1>3 DEF Observation
  <2>2. AsksOK' /\ Queued'
    BY <1>0, <1>1, <2>1, RequestTypes
  <2>3. RestOK' /\ book' \in Book /\ ledger' \in Ledger
    BY <1>0, <1>1, <2>1, TaskIs DEF RestOK
  <2> QED BY <2>2, <2>3 DEF TypeOK, RestOK, AsksOK, AskType, Budget
<1>4. ASSUME NEW h \in Handlers, NoObservation(h)
      PROVE  TypeOK' /\ Queued'
  <2>1. /\ UNCHANGED <<ask, bookQueue, book, reply, known, clicks, now, faults, budget>>
        /\ task' = [task EXCEPT ![h] = NoTask]
    BY <1>4 DEF NoObservation
  <2>2. AsksOK' /\ Queued'
    BY <1>0, <1>1, <2>1, RequestTypes
  <2>3. RestOK' /\ book' \in Book /\ ledger' \in Ledger
    BY <1>0, <1>1, <2>1, TaskIs DEF RestOK
  <2> QED BY <2>2, <2>3 DEF TypeOK, RestOK, AsksOK, AskType, Budget
<1>5. CASE BookTransact
  <2>1. PICK c \in Callers, q \in BookRequest : BookRuns(c, q)
    BY <1>1, <1>5, BookTransactIs
  <2>2. /\ ask' \in [Callers -> AskType] /\ reply' \in [Callers -> Int \cup {None}] /\ Queued'
        /\ bookQueue' \in Seq(Callers) /\ q = ask[c]
        /\ UNCHANGED <<task, known, clicks, now, budget>>
        /\ book' = BookResult(q) \/ UNCHANGED book
        /\ UNCHANGED faults \/ Faulty("write")
    BY <2>1 DEF BookRuns
  <2>3. q.op = "correct" => q.row \in DOMAIN book.conversions
    BY <1>0, <2>2 DEF NamesExist
  <2>4. book' \in Book
    BY <1>0, <2>2, <2>3, BookResultIs
  <2>5. faults' \in [Kinds -> Nat]
    BY <1>0, <2>2, FaultyIs DEF RestOK, Kinds
  <2>6. RestOK' /\ AsksOK' /\ ledger' \in Ledger
    BY <1>0, <1>1, <2>2, <2>5 DEF RestOK, AsksOK
  <2> QED BY <2>2, <2>4, <2>6 DEF TypeOK, RestOK, AsksOK, AskType, Budget
<1>6. CASE Tick
  <2>1. Spend({"ticks"}) /\ now' = now + 1
        /\ UNCHANGED <<book, bookQueue, known, clicks, ask, reply, task, faults>>
    BY <1>6 DEF Tick
  <2>2. budget' \in Budget
    BY <1>0, <2>1, SpendIs DEF Budget
  <2>3. AsksOK' /\ Queued'
    BY <1>0, <1>1, <2>1, RequestTypes
  <2>4. RestOK' /\ book' \in Book /\ ledger' \in Ledger
    BY <1>0, <1>1, <2>1, <2>2 DEF RestOK
  <2> QED BY <2>3, <2>4 DEF TypeOK, RestOK, AsksOK, AskType, Budget
<1> QED BY <1>0, <1>2, <1>3, <1>4, <1>5, <1>6, CampaignActs

LEMMA FormTypes ==
    ASSUME TypeInv, FormStep, UNCHANGED notificationVars
    PROVE  TypeOK' /\ Queued'
<1> USE HandlersCall
<1>0. /\ TypeOK /\ Queued /\ book \in Book /\ ledger \in Ledger /\ RestOK /\ AsksOK
  BY TypeParts DEF TypeInv
<1>1. UNCHANGED <<loop, recovering, received, again>>
  BY DEF notificationVars
<1>2. forms \in [People -> Form \cup {NoForm}]
  BY <1>0 DEF RestOK
<1>3. ASSUME FormOnly, forms' \in [People -> Form \cup {NoForm}], opened' \in Nat, budget' \in Budget
      PROVE  TypeOK' /\ Queued'
  <2>1. UNCHANGED <<ledger, ledgerQueue, ask, reply, task, faults, book, bookQueue, known, clicks, now>>
    BY <1>3 DEF FormOnly, campaignVars
  <2>2. AsksOK' /\ Queued'
    BY <1>0, <2>1, RequestTypes
  <2>3. RestOK' /\ book' \in Book /\ ledger' \in Ledger
    BY <1>0, <1>1, <1>3, <2>1 DEF RestOK
  <2> QED BY <2>2, <2>3 DEF TypeOK, RestOK, AsksOK, AskType, Budget
<1>4. ASSUME NEW p \in People, OpenForm(p) PROVE TypeOK' /\ Queued'
  <2>1. opened' \in Nat /\ forms' = [forms EXCEPT ![p] = EmptyForm(opened')] /\ FormOnly
        /\ Spend({"requests", "forms"})
    BY <1>0, <1>4 DEF OpenForm, RestOK
  <2>2. forms' \in [People -> Form \cup {NoForm}]
    BY <1>2, <2>1, FormFields
  <2> QED BY <1>0, <1>3, <2>1, <2>2, SpendIs DEF Budget
<1>5. ASSUME NEW p \in People, Answer(p) \/ SkipDescription(p) \/ EditForm(p) PROVE TypeOK' /\ Queued'
  <2>1. FormOnly /\ UNCHANGED <<opened, budget>> /\ HasForm(p)
    BY <1>5 DEF Answer, SkipDescription, EditForm, FormKept
  <2>2. PICK f \in Form : forms' = [forms EXCEPT ![p] = f]
    BY <1>0, <1>5, <2>1, FormIsFilled DEF Filled
  <2>3. forms' \in [People -> Form \cup {NoForm}] /\ opened' \in Nat /\ budget' \in Budget
    BY <1>0, <1>2, <2>1, <2>2 DEF RestOK
  <2> QED BY <1>3, <2>1, <2>3
<1>6. ASSUME NEW p \in People, LeaveForm(p) PROVE TypeOK' /\ Queued'
  <2>1. FormOnly /\ UNCHANGED <<opened, budget>> /\ forms' = [forms EXCEPT ![p] = NoForm]
    BY <1>6 DEF LeaveForm, FormKept
  <2>2. forms' \in [People -> Form \cup {NoForm}] /\ opened' \in Nat /\ budget' \in Budget
    BY <1>0, <1>2, <2>1 DEF RestOK
  <2> QED BY <1>3, <2>1, <2>2
<1>7. ASSUME NEW p \in People, Confirm(p) PROVE TypeOK' /\ Queued'
  <2> DEFINE h == Home[p]
  <2>1. /\ ask[h] = NoAsk /\ HasForm(p) /\ h \in Handlers
        /\ UNCHANGED <<ledger, opened, reply, faults, budget, book, bookQueue, known, clicks, now>>
    BY <1>7 DEF Confirm, Free, campaignVars
  <2>2. CASE forms[p].name /\ forms[p].phone
    <3> DEFINE q == [op |-> "create", who |-> p, key |-> forms[p].key, at |-> now]
    <3>1. AsksLedger(h, q) /\ task' = [task EXCEPT ![h] = [at |-> "created", who |-> p]]
          /\ UNCHANGED forms
      BY <1>7, <2>2 DEF Confirm
    <3>2. forms[p] \in Form /\ now \in Nat
      BY <1>0, <2>1 DEF RestOK, HasForm
    <3>3. q \in LedgerRequest
      BY <3>2, FormFields DEF LedgerRequest
    <3> HIDE DEF q
    <3>4. AsksOK' /\ Queued'
      BY <1>0, <2>1, <3>1, <3>3, RequestTypes
    <3>5. RestOK' /\ book' \in Book /\ ledger' \in Ledger
      BY <1>0, <1>1, <2>1, <3>1, TaskIs DEF RestOK
    <3> QED BY <3>4, <3>5 DEF TypeOK, RestOK, AsksOK, AskType, Budget
  <2>3. CASE ~ (forms[p].name /\ forms[p].phone)
    <3>1. forms' = [forms EXCEPT ![p].step = "name"] /\ UNCHANGED <<ask, ledgerQueue, task>>
      BY <1>7, <2>3 DEF Confirm
    <3>2. PICK f \in Form : forms' = [forms EXCEPT ![p] = f]
      BY <1>0, <2>1, <3>1, FormIsFilled DEF Filled
    <3>3. forms' \in [People -> Form \cup {NoForm}]
      BY <1>2, <3>2
    <3>4. AsksOK' /\ Queued'
      BY <1>0, <2>1, <3>1, RequestTypes
    <3>5. RestOK' /\ book' \in Book /\ ledger' \in Ledger
      BY <1>0, <1>1, <2>1, <3>1, <3>3 DEF RestOK
    <3> QED BY <3>4, <3>5 DEF TypeOK, RestOK, AsksOK, AskType, Budget
  <2> QED BY <2>2, <2>3
<1> QED BY <1>4, <1>5, <1>6, <1>7 DEF FormStep

LEMMA LinkIs ==
    ASSUME TypeOK, NEW h, NEW type \in ConversionTypes, NEW p \in People, NEW t \in Nat,
           Link(h, type, p, t) \/ NothingRegistered(h)
    PROVE  Links(h, type, p, t)
<1>1. Credit(book, p, t) \in Credited
  BY CreditIsOfATouch DEF TypeOK
<1>2. RegisterAsk(type, p, t) \in BookRequest /\ SoundAsk(RegisterAsk(type, p, t))
      /\ RegisterAsk(type, p, t).op = "register" /\ RegisterAsk(type, p, t).type = type
      /\ RegisterAsk(type, p, t).who = p
  BY <1>1 DEF RegisterAsk, BookRequest, SoundAsk, TimedOps, Credited
<1> QED BY <1>2 DEF Link, NothingRegistered, Links

\* Where the answer of a link goes.
LEMMA LinkTypes ==
    ASSUME TypeInv, NEW h \in Handlers, ask[h] = NoAsk, NEW type, NEW p, NEW t, Links(h, type, p, t),
           NEW next \in Task, task' = [task EXCEPT ![h] = next],
           UNCHANGED salesVars, UNCHANGED notificationVars
    PROVE  TypeOK' /\ Queued'
<1>0. /\ TypeOK /\ Queued /\ book \in Book /\ ledger \in Ledger /\ RestOK /\ AsksOK
  BY TypeParts DEF TypeInv
<1>1. UNCHANGED <<ledger, ledgerQueue, forms, opened, loop, recovering, received, again,
                  book, known, clicks, now, faults, budget>>
  BY DEF salesVars, notificationVars, Links
<1>2. AsksOK' /\ Queued'
  BY <1>0, <1>1, RequestTypes, HandlersCall DEF Links
<1>3. reply' \in [Callers -> Int \cup {None}]
  BY <1>0, HandlersCall DEF Links, RestOK
<1>4. RestOK' /\ book' \in Book /\ ledger' \in Ledger
  BY <1>0, <1>1, <1>3 DEF RestOK
<1> QED BY <1>2, <1>4 DEF TypeOK, RestOK, AsksOK, AskType, Budget

\* What the handlers of leads go on with.
LEMMA LeadActs ==
    ASSUME TypeInv, NEW h \in Handlers
    PROVE  /\ LeadStored(h) =>
                /\ task[h].at = "created" /\ ask[h] = NoAsk /\ LeadOf(reply[h]) \in DOMAIN ledger.leads
                /\ task[h].who \in People /\ reply[h] # 0 /\ reply[h] # None
                /\ Links(h, "LEAD", task[h].who, ledger.leads[LeadOf(reply[h])].at)
                /\ task' = [task EXCEPT ![h] = [at |-> "linked", who |-> task[h].who, lead |-> LeadOf(reply[h])]]
                /\ [at |-> "linked", who |-> task[h].who, lead |-> LeadOf(reply[h])] \in Task
                /\ UNCHANGED salesVars
           /\ LeadConverted(h) =>
                /\ task[h].at = "converted" /\ ask[h] = NoAsk /\ task[h].lead \in DOMAIN ledger.leads
                /\ \/ /\ task' = [task EXCEPT ![h] = NoTask]
                      /\ UNCHANGED <<ask, reply, faults, budget, campaignVars>>
                   \/ /\ Links(h, "CUSTOMER", ledger.leads[task[h].lead].who,
                               ledger.leads[task[h].lead].converted)
                      /\ task' = [task EXCEPT ![h] = [at |-> "customer", lead |-> task[h].lead]]
                /\ [at |-> "customer", lead |-> task[h].lead] \in Task
                /\ UNCHANGED salesVars
           /\ RetryNext(h) =>
                /\ task[h].at = "retry" /\ ask[h] = NoAsk
                /\ \E type \in ConversionTypes, p \in People, t \in Nat, l \in SUBSET DOMAIN ledger.leads,
                      d \in {0, 1} :
                    /\ Links(h, type, p, t)
                    /\ task' = [task EXCEPT ![h] = [at |-> "retry", left |-> l, done |-> d]]
                    /\ [at |-> "retry", left |-> l, done |-> d] \in Task
                /\ UNCHANGED salesVars
<1>0. /\ TypeOK /\ NamesExist /\ ledger \in Ledger /\ task \in [Handlers -> Task]
      /\ \A l \in DOMAIN ledger.leads : l \in Nat \ {0} /\ ledger.leads[l] \in Lead
  BY LedgerParts DEF TypeInv, TypeOK
<1>1. ASSUME LeadStored(h)
      PROVE  /\ task[h].at = "created" /\ ask[h] = NoAsk /\ LeadOf(reply[h]) \in DOMAIN ledger.leads
             /\ task[h].who \in People /\ reply[h] # 0 /\ reply[h] # None
             /\ Links(h, "LEAD", task[h].who, ledger.leads[LeadOf(reply[h])].at)
             /\ task' = [task EXCEPT ![h] = [at |-> "linked", who |-> task[h].who, lead |-> LeadOf(reply[h])]]
             /\ [at |-> "linked", who |-> task[h].who, lead |-> LeadOf(reply[h])] \in Task
             /\ UNCHANGED salesVars
  <2>1. /\ task[h].at = "created" /\ ask[h] = NoAsk /\ reply[h] \notin {0, None}
        /\ Link(h, "LEAD", task[h].who, ledger.leads[LeadOf(reply[h])].at) \/ NothingRegistered(h)
        /\ task' = [task EXCEPT ![h] = [at |-> "linked", who |-> task[h].who, lead |-> LeadOf(reply[h])]]
        /\ UNCHANGED salesVars
    BY <1>1 DEF LeadStored, Answered, Goes
  <2>2. LeadOf(reply[h]) \in DOMAIN ledger.leads /\ task[h].who \in People
    BY <1>0, <2>1, TaskFields DEF NamesExist
  <2>3. ledger.leads[LeadOf(reply[h])].at \in Nat /\ "LEAD" \in ConversionTypes
    BY <1>0, <2>2, LeadFields DEF ConversionTypes
  <2> QED BY <1>0, <2>1, <2>2, <2>3, LinkIs, TaskIs
<1>2. ASSUME LeadConverted(h)
      PROVE  /\ task[h].at = "converted" /\ ask[h] = NoAsk /\ task[h].lead \in DOMAIN ledger.leads
             /\ \/ /\ task' = [task EXCEPT ![h] = NoTask]
                   /\ UNCHANGED <<ask, reply, faults, budget, campaignVars>>
                \/ /\ Links(h, "CUSTOMER", ledger.leads[task[h].lead].who,
                            ledger.leads[task[h].lead].converted)
                   /\ task' = [task EXCEPT ![h] = [at |-> "customer", lead |-> task[h].lead]]
             /\ [at |-> "customer", lead |-> task[h].lead] \in Task
             /\ UNCHANGED salesVars
  <2>1. task[h].at = "converted" /\ ask[h] = NoAsk /\ UNCHANGED salesVars
    BY <1>2 DEF LeadConverted, Answered
  <2>2. task[h].lead \in DOMAIN ledger.leads
    BY <1>0, <2>1 DEF NamesExist
  <2>3. /\ ledger.leads[task[h].lead].converted \in Nat /\ ledger.leads[task[h].lead].who \in People
        /\ "CUSTOMER" \in ConversionTypes
    BY <1>0, <2>2, LeadFields DEF ConversionTypes
  <2>4. \/ /\ task' = [task EXCEPT ![h] = NoTask]
           /\ UNCHANGED <<ask, reply, faults, budget, campaignVars>>
        \/ /\ Link(h, "CUSTOMER", ledger.leads[task[h].lead].who,
                   ledger.leads[task[h].lead].converted)
           /\ task' = [task EXCEPT ![h] = [at |-> "customer", lead |-> task[h].lead]]
    BY <1>2 DEF LeadConverted, Goes
  <2> QED BY <1>0, <2>1, <2>2, <2>3, <2>4, LinkIs, TaskIs
<1>3. ASSUME RetryNext(h)
      PROVE  /\ task[h].at = "retry" /\ ask[h] = NoAsk
             /\ \E type \in ConversionTypes, p \in People, t \in Nat, l \in SUBSET DOMAIN ledger.leads,
                   d \in {0, 1} :
                 /\ Links(h, type, p, t)
                 /\ task' = [task EXCEPT ![h] = [at |-> "retry", left |-> l, done |-> d]]
                 /\ [at |-> "retry", left |-> l, done |-> d] \in Task
             /\ UNCHANGED salesVars
  <2> DEFINE t == task[h]
             m == Min(t.left)
             lead == ledger.leads[m]
  <2>1. t.at = "retry" /\ ask[h] = NoAsk /\ t.left # {} /\ UNCHANGED salesVars
    BY <1>3 DEF RetryNext, Answered
  <2>2. t \in Task /\ t.left \subseteq DOMAIN ledger.leads /\ t.left \in SUBSET Nat
    BY <1>0, <2>1, TaskFields DEF NamesExist
  <2>3. m \in t.left
    BY <2>1, <2>2, MinIsIn
  <2>4. lead.who \in People /\ lead.at \in Nat /\ lead.converted \in Nat
    BY <1>0, <2>2, <2>3, LeadFields
  <2>5. \/ Link(h, "LEAD", lead.who, lead.at) /\ task' = [task EXCEPT ![h] = [at |-> "retry", left |-> t.left, done |-> 1]]
        \/ /\ Link(h, "CUSTOMER", lead.who, lead.converted)
           /\ task' = [task EXCEPT ![h] = [at |-> "retry", left |-> t.left \ {m}, done |-> 0]]
    BY <1>3 DEF RetryNext, Goes
  <2> HIDE DEF t, m
  <2>9. /\ t.left \in SUBSET (Nat \ {0}) /\ t.left \ {m} \in SUBSET (Nat \ {0})
        /\ t.left \in SUBSET DOMAIN ledger.leads /\ t.left \ {m} \in SUBSET DOMAIN ledger.leads
    BY <1>0, <2>2
  <2>10. /\ [at |-> "retry", left |-> t.left, done |-> 1] \in Task
         /\ [at |-> "retry", left |-> t.left \ {m}, done |-> 0] \in Task
    BY <2>9, TaskIs
  <2>11. "LEAD" \in ConversionTypes /\ "CUSTOMER" \in ConversionTypes
    BY DEF ConversionTypes
  <2>12. CASE Link(h, "LEAD", lead.who, lead.at) /\ task' = [task EXCEPT ![h] = [at |-> "retry", left |-> t.left, done |-> 1]]
    <3>1. Links(h, "LEAD", lead.who, lead.at)
      BY <1>0, <2>4, <2>11, <2>12, LinkIs
    <3>2. task' = [task EXCEPT ![h] = [at |-> "retry", left |-> t.left, done |-> 1]]
      BY <2>12
    <3> HIDE DEF lead
    <3> QED BY <2>1, <2>4, <2>9, <2>10, <2>11, <3>1, <3>2 DEF t
  <2>13. CASE /\ Link(h, "CUSTOMER", lead.who, lead.converted)
              /\ task' = [task EXCEPT ![h] = [at |-> "retry", left |-> t.left \ {m}, done |-> 0]]
    <3>1. Links(h, "CUSTOMER", lead.who, lead.converted)
      BY <1>0, <2>4, <2>11, <2>13, LinkIs
    <3>2. task' = [task EXCEPT ![h] = [at |-> "retry", left |-> t.left \ {m}, done |-> 0]]
      BY <2>13
    <3> HIDE DEF lead
    <3> QED BY <2>1, <2>4, <2>9, <2>10, <2>11, <3>1, <3>2 DEF t
  <2> QED BY <2>5, <2>12, <2>13 DEF t
<1> QED BY <1>1, <1>2, <1>3

LEMMA SalesTypes ==
    ASSUME TypeInv, SalesStep, UNCHANGED notificationVars
    PROVE  TypeOK' /\ Queued'
<1> USE HandlersCall
<1>0. /\ TypeOK /\ Queued /\ NamesExist /\ book \in Book /\ ledger \in Ledger /\ RestOK /\ AsksOK
      /\ task \in [Handlers -> Task]
  BY TypeParts DEF TypeInv, RestOK
<1>1. UNCHANGED <<loop, recovering, received, again>>
  BY DEF notificationVars
<1>2. ASSUME NEW h \in Handlers, LeadStored(h) PROVE TypeOK' /\ Queued'
  BY <1>2, LeadActs, LinkTypes
<1>3. ASSUME NEW h \in Handlers, LeadRefused(h) PROVE TypeOK' /\ Queued'
  <2>1. /\ task[h].at = "created" /\ task' = [task EXCEPT ![h] = NoTask]
        /\ forms' = forms \/ forms' = [forms EXCEPT ![task[h].who] = NoForm]
        /\ UNCHANGED <<ledger, ledgerQueue, opened, ask, reply, faults, budget,
                       book, bookQueue, known, clicks, now>>
    BY <1>3 DEF LeadRefused, Answered, Goes, campaignVars
  <2>2. forms' \in [People -> Form \cup {NoForm}] /\ task' \in [Handlers -> Task]
    BY <1>0, <2>1, TaskIs DEF RestOK
  <2>3. AsksOK' /\ Queued'
    BY <1>0, <2>1, RequestTypes
  <2>4. RestOK' /\ book' \in Book /\ ledger' \in Ledger
    BY <1>0, <1>1, <2>1, <2>2 DEF RestOK
  <2> QED BY <2>3, <2>4 DEF TypeOK, RestOK, AsksOK, AskType, Budget
<1>4. ASSUME NEW h \in Handlers, LeadLinked(h) PROVE TypeOK' /\ Queued'
  <2> DEFINE l == task[h].lead
  <2>1. /\ task[h].at = "linked" /\ ask[h] = NoAsk
        /\ AsksLedger(h, [op |-> "enqueue", lead |-> l])
        /\ task' = [task EXCEPT ![h] = [at |-> "enqueued", lead |-> l]]
        /\ forms' = [forms EXCEPT ![task[h].who] = NoForm]
        /\ UNCHANGED <<ledger, opened, reply, faults, budget, book, bookQueue, known, clicks, now>>
    BY <1>4 DEF LeadLinked, Answered, Goes, campaignVars
  <2>2. l \in Nat \ {0}
    BY <1>0, <2>1, TaskFields
  <2>3. [op |-> "enqueue", lead |-> l] \in LedgerRequest
    BY <2>2 DEF LedgerRequest
  <2>4. AsksOK' /\ Queued'
    BY <1>0, <2>1, <2>3, RequestTypes
  <2>5. forms' \in [People -> Form \cup {NoForm}] /\ task' \in [Handlers -> Task]
    BY <1>0, <2>1, <2>2, TaskIs DEF RestOK
  <2>6. RestOK' /\ book' \in Book /\ ledger' \in Ledger
    BY <1>0, <1>1, <2>1, <2>5 DEF RestOK
  <2> QED BY <2>4, <2>6 DEF TypeOK, RestOK, AsksOK, AskType, Budget
<1>5. ASSUME NEW h \in Handlers, LeadConverted(h) PROVE TypeOK' /\ Queued'
  <2>1. /\ ask[h] = NoAsk /\ UNCHANGED salesVars
        /\ \/ /\ task' = [task EXCEPT ![h] = NoTask]
              /\ UNCHANGED <<ask, reply, faults, budget, campaignVars>>
           \/ /\ Links(h, "CUSTOMER", ledger.leads[task[h].lead].who,
                       ledger.leads[task[h].lead].converted)
              /\ task' = [task EXCEPT ![h] = [at |-> "customer", lead |-> task[h].lead]]
              /\ [at |-> "customer", lead |-> task[h].lead] \in Task
    BY <1>5, LeadActs
  <2>2. CASE task' = [task EXCEPT ![h] = NoTask] /\ UNCHANGED <<ask, reply, faults, budget, campaignVars>>
    <3>1. UNCHANGED <<ledger, ledgerQueue, forms, opened, ask, reply, faults, budget,
                      book, bookQueue, known, clicks, now>>
      BY <2>1, <2>2 DEF salesVars, campaignVars
    <3>2. AsksOK' /\ Queued'
      BY <1>0, <3>1, RequestTypes
    <3>3. RestOK' /\ book' \in Book /\ ledger' \in Ledger
      BY <1>0, <1>1, <2>2, <3>1, TaskIs DEF RestOK
    <3> QED BY <3>2, <3>3 DEF TypeOK, RestOK, AsksOK, AskType, Budget
  <2> QED BY <2>1, <2>2, LinkTypes
<1>6. ASSUME NEW h \in Handlers, CustomerLinked(h) PROVE TypeOK' /\ Queued'
  <2> DEFINE l == task[h].lead
             q == [op |-> "store", lead |-> l, row |-> reply[h]]
  <2>1. /\ task[h].at = "customer" /\ ask[h] = NoAsk
        /\ AsksLedger(h, q)
        /\ task' = [task EXCEPT ![h] = NoTask]
        /\ UNCHANGED <<ledger, forms, opened, reply, faults, budget, book, bookQueue, known, clicks, now>>
    BY <1>6 DEF CustomerLinked, Answered, Goes, campaignVars
  <2>2. l \in Nat \ {0} /\ reply[h] \in Nat
    <3>1. reply[h] \in Nat
      BY <1>0, <2>1 DEF NamesExist
    <3> QED BY <1>0, <2>1, <3>1, TaskFields DEF RestOK
  <2>3. q \in LedgerRequest
    BY <2>2 DEF LedgerRequest
  <2> HIDE DEF q
  <2>4. AsksOK' /\ Queued'
    BY <1>0, <2>1, <2>3, RequestTypes
  <2>5. RestOK' /\ book' \in Book /\ ledger' \in Ledger
    BY <1>0, <1>1, <2>1, TaskIs DEF RestOK
  <2> QED BY <2>4, <2>5 DEF TypeOK, RestOK, AsksOK, AskType, Budget
<1>7. ASSUME NEW h \in Handlers, RetryLinks(h) PROVE TypeOK' /\ Queued'
  <2>1. /\ Spend({"requests"})
        /\ task' = [task EXCEPT ![h] = [at |-> "retry", left |-> Unlinked, done |-> 0]]
        /\ UNCHANGED <<ledger, ledgerQueue, forms, opened, ask, reply, faults,
                       book, bookQueue, known, clicks, now>>
    BY <1>7 DEF RetryLinks, Goes, salesVars, campaignVars
  <2>2. Unlinked \in SUBSET (Nat \ {0})
    BY <1>0, LedgerParts DEF Unlinked, Indices
  <2>3. task' \in [Handlers -> Task]
    BY <1>0, <2>1, <2>2, TaskIs
  <2>4. budget' \in Budget
    BY <1>0, <2>1, SpendIs DEF Budget
  <2>5. AsksOK' /\ Queued'
    BY <1>0, <2>1, RequestTypes
  <2>6. RestOK' /\ book' \in Book /\ ledger' \in Ledger
    BY <1>0, <1>1, <2>1, <2>3, <2>4 DEF RestOK
  <2> QED BY <2>5, <2>6 DEF TypeOK, RestOK, AsksOK, AskType, Budget
<1>8. ASSUME NEW h \in Handlers, RetryNext(h) PROVE TypeOK' /\ Queued'
  <2>1. ask[h] = NoAsk /\ UNCHANGED salesVars
        /\ \E type, p, t, next : /\ Links(h, type, p, t) /\ next \in Task
                                 /\ task' = [task EXCEPT ![h] = next]
    <3>1. PICK type \in ConversionTypes, p \in People, t \in Nat, l \in SUBSET DOMAIN ledger.leads,
               d \in {0, 1} :
            /\ Links(h, type, p, t)
            /\ task' = [task EXCEPT ![h] = [at |-> "retry", left |-> l, done |-> d]]
            /\ [at |-> "retry", left |-> l, done |-> d] \in Task
      BY <1>8, LeadActs
    <3>2. ask[h] = NoAsk /\ UNCHANGED salesVars
      BY <1>8, LeadActs
    <3> QED BY <3>1, <3>2
  <2> QED BY <2>1, LinkTypes
<1>9. ASSUME NEW h \in Handlers, NEW q \in LedgerRequest, OperatorAsk(h, q) PROVE TypeOK' /\ Queued'
  <2>1. /\ ask[h] = NoAsk /\ AsksLedger(h, q) /\ Spend({"requests"})
        /\ UNCHANGED <<ledger, forms, opened, reply, faults, book, bookQueue, known, clicks, now>>
        /\ q.op \in {"follow", "annotate", "convert", "sale"}
        /\ \/ UNCHANGED task
           \/ task' = [task EXCEPT ![h] = [at |-> "converted", lead |-> q.lead]]
    BY <1>9 DEF OperatorAsk, SalesRequest, Free, campaignVars
  <2>2. q.lead \in Nat \ {0}
    BY <2>1, LedgerFields
  <2>3. task' \in [Handlers -> Task]
    <3>1. [at |-> "converted", lead |-> q.lead] \in Task
      BY <2>2, TaskIs
    <3>2. CASE UNCHANGED task
      BY <1>0, <3>2
    <3>3. CASE task' = [task EXCEPT ![h] = [at |-> "converted", lead |-> q.lead]]
      BY <1>0, <3>1, <3>3
    <3> QED BY <2>1, <3>2, <3>3
  <2>4. budget' \in Budget
    BY <1>0, <2>1, SpendIs DEF Budget
  <2>5. AsksOK' /\ Queued'
    BY <1>0, <2>1, RequestTypes
  <2>6. RestOK' /\ book' \in Book /\ ledger' \in Ledger
    BY <1>0, <1>1, <2>1, <2>3, <2>4 DEF RestOK
  <2> QED BY <2>5, <2>6 DEF TypeOK, RestOK, AsksOK, AskType, Budget
<1> QED BY <1>0, <1>2, <1>3, <1>4, <1>5, <1>6, <1>7, <1>8, <1>9, SalesActs

LEMMA LoopFields ==
    ASSUME NEW x \in LoopState
    PROVE  /\ x.at \in {"idle", "check", "begun"} /\ x.tries \in 0 .. MaxAttempts
           /\ [x EXCEPT !.at = "check"] \in LoopState /\ [x EXCEPT !.at = "check"].at = "check"
           /\ x.tries < MaxAttempts => /\ [at |-> "begun", tries |-> x.tries + 1] \in LoopState
                                       /\ [at |-> "begun", tries |-> x.tries + 1].at = "begun"
           /\ NoLoop \in LoopState /\ NoLoop.at = "idle"
           /\ Checking \in LoopState /\ Checking.at = "check"
<1>1. MaxAttempts \in Nat
  BY NotificationAssumption
<1>2. NoLoop \in LoopState /\ Checking \in LoopState /\ NoLoop.at = "idle" /\ Checking.at = "check"
  BY <1>1 DEF NoLoop, Checking, LoopState
<1>3. x.at \in {"idle", "check", "begun"} /\ x.tries \in 0 .. MaxAttempts
      /\ [x EXCEPT !.at = "check"] \in LoopState /\ [x EXCEPT !.at = "check"].at = "check"
  BY DEF LoopState
<1>4. x.tries < MaxAttempts => x.tries + 1 \in 0 .. MaxAttempts
  BY <1>1, <1>3
<1>5. \A k \in 0 .. MaxAttempts : [at |-> "begun", tries |-> k] \in LoopState
  BY DEF LoopState
<1> QED BY <1>2, <1>3, <1>4, <1>5

LEMMA DispatchedIs ==
    ASSUME loop \in [Loops -> LoopState], NEW S
    PROVE  /\ Dispatched(S) \in [Loops -> LoopState]
           /\ \A d \in Loops : \/ Dispatched(S)[d] = loop[d]
                               \/ /\ Dispatched(S)[d] = Checking /\ loop[d] = NoLoop /\ d[1] \in S
<1>1. Checking \in LoopState
  BY NotificationAssumption DEF Checking, LoopState
<1>2. \A d \in Loops : d[2] \in {1, 2} /\ d = <<d[1], d[2]>>
  BY DEF Loops
<1>3. \A d \in Loops : d[2] \in Idle(d[1]) => loop[d] = NoLoop
  BY <1>2 DEF Idle
<1> QED BY <1>1, <1>3 DEF Dispatched

LEMMA MarkRequests ==
    ASSUME NEW r \in RowIds
    PROVE  /\ [op |-> "begin", row |-> r] \in LedgerRequest
           /\ \A s \in {"PENDING", "SENT", "UNDELIVERABLE"} :
                [op |-> "mark", row |-> r, to |-> s] \in LedgerRequest
BY DEF LedgerRequest

LEMMA NotificationTypes ==
    ASSUME TypeInv,
           \/ LedgerTransact /\ UNCHANGED notificationVars
           \/ \E h \in Handlers : Dispatch(h) \/ DispatchAgain(h)
           \/ \E d \in Loops : CheckRow(d) \/ NotBegun(d) \/ Deliver(d) \/ Fail(d)
           \/ Crash
           \/ \E e \in recovering : Recover(e)
           \/ UNCHANGED vars
    PROVE  TypeOK' /\ Queued'
<1> USE HandlersCall
<1>0. /\ TypeOK /\ Queued /\ NamesExist /\ book \in Book /\ ledger \in Ledger /\ RestOK /\ AsksOK
      /\ loop \in [Loops -> LoopState] /\ task \in [Handlers -> Task]
  BY TypeParts DEF TypeInv, RestOK
<1>00. \A d \in Loops : d[1] \in RowIds /\ d \in Callers /\ loop[d] \in LoopState
  BY <1>0 DEF Loops
<1>1. CASE LedgerTransact /\ UNCHANGED notificationVars
  <2>1. PICK c \in Callers, q \in LedgerRequest : LedgerRuns(c, q)
    BY <1>1, LedgerTransactIs
  <2>2. /\ ask' \in [Callers -> AskType] /\ reply' \in [Callers -> Int \cup {None}] /\ Queued'
        /\ ledgerQueue' \in Seq(Callers) /\ q = ask[c]
        /\ UNCHANGED <<forms, opened, task, budget, book, bookQueue, known, clicks, now>>
        /\ ledger' = LedgerResult(q) \/ UNCHANGED ledger
        /\ UNCHANGED faults \/ Faulty("write")
    BY <2>1 DEF LedgerRuns, campaignVars
  <2>3. q.op \in NeedsLead => q.lead \in DOMAIN ledger.leads
    BY <1>0, <2>2 DEF NamesExist, NeedsLead
  <2>4. ledger' \in Ledger
    BY <1>0, <2>2, <2>3, LedgerResultIs
  <2>5. faults' \in [Kinds -> Nat]
    BY <1>0, <2>2, FaultyIs DEF RestOK, Kinds
  <2>6. RestOK' /\ AsksOK' /\ book' \in Book
    BY <1>0, <1>1, <2>2, <2>5 DEF RestOK, AsksOK, notificationVars
  <2> QED BY <2>2, <2>4, <2>6 DEF TypeOK, RestOK, AsksOK, AskType, Budget
<1>2. ASSUME NEW h \in Handlers, Dispatch(h) \/ DispatchAgain(h) PROVE TypeOK' /\ Queued'
  <2>1. /\ UNCHANGED <<ledger, ledgerQueue, forms, opened, ask, reply, faults, budget, recovering,
                       received, book, bookQueue, known, clicks, now>>
        /\ task' = [task EXCEPT ![h] = NoTask]
        /\ \E S : loop' = Dispatched(S)
    BY <1>2 DEF Dispatch, DispatchAgain, DispatchOnly, Goes, salesVars, campaignVars
  <2>2. again' \in [RowIds -> Nat]
    <3>1. again \in [RowIds -> Nat]
      BY <1>0 DEF RestOK
    <3>2. CASE UNCHANGED again
      BY <3>1, <3>2
    <3>3. CASE again' = [r \in RowIds |-> again[r] + IF r \in Pending THEN 1 ELSE 0]
      BY <3>1, <3>3
    <3> QED BY <1>2, <3>2, <3>3 DEF Dispatch, DispatchAgain
  <2>3. loop' \in [Loops -> LoopState] /\ task' \in [Handlers -> Task]
    BY <1>0, <2>1, DispatchedIs, TaskIs
  <2>4. AsksOK' /\ Queued'
    BY <1>0, <2>1, RequestTypes
  <2>5. RestOK' /\ book' \in Book /\ ledger' \in Ledger
    BY <1>0, <2>1, <2>2, <2>3 DEF RestOK
  <2> QED BY <2>4, <2>5 DEF TypeOK, RestOK, AsksOK, AskType, Budget
<1>3. ASSUME NEW d \in Loops, LoopOnly, ask[d] = NoAsk,
             \/ UNCHANGED <<ask, ledgerQueue>>
             \/ \E s \in {"PENDING", "SENT", "UNDELIVERABLE"} : Marks(d, d[1], s)
             \/ AsksLedger(d, [op |-> "begin", row |-> d[1]]),
             \E x \in LoopState : LoopGoes(d, x),
             received' \in [RowIds -> Nat], UNCHANGED faults \/ Faulty("lost")
      PROVE  TypeOK' /\ Queued'
  <2>1. UNCHANGED <<ledger, forms, opened, reply, task, budget, recovering, again,
                    book, bookQueue, known, clicks, now>>
    BY <1>3 DEF LoopOnly, campaignVars
  <2>2. \/ UNCHANGED <<ask, ledgerQueue>>
        \/ \E q \in LedgerRequest : AsksLedger(d, q)
    BY <1>3, <1>00, MarkRequests DEF Marks
  <2>3. AsksOK' /\ Queued'
    BY <1>0, <1>00, <1>3, <2>1, <2>2, RequestTypes
  <2>4. loop' \in [Loops -> LoopState]
    BY <1>0, <1>3 DEF LoopGoes
  <2>5. faults' \in [Kinds -> Nat]
    BY <1>0, <1>3, FaultyIs DEF RestOK, Kinds
  <2>6. RestOK' /\ book' \in Book /\ ledger' \in Ledger
    BY <1>0, <1>3, <2>1, <2>4, <2>5 DEF RestOK
  <2> QED BY <2>3, <2>6 DEF TypeOK, RestOK, AsksOK, AskType, Budget
<1>4. ASSUME NEW d \in Loops, CheckRow(d) PROVE TypeOK' /\ Queued'
  <2>1. LoopOnly /\ UNCHANGED <<faults, received>> /\ ask[d] = NoAsk
    BY <1>4 DEF CheckRow
  <2>2. received' \in [RowIds -> Nat]
    BY <1>0, <2>1 DEF RestOK
  <2>3. NoLoop \in LoopState
    BY <1>00, LoopFields
  <2>4. CASE LoopGoes(d, NoLoop) /\ UNCHANGED <<ask, ledgerQueue>>
    BY <1>3, <2>1, <2>2, <2>3, <2>4
  <2>5. CASE LoopGoes(d, NoLoop) /\ Marks(d, d[1], "UNDELIVERABLE")
    BY <1>3, <2>1, <2>2, <2>3, <2>5
  <2>6. CASE /\ ~ Exhausted(d)
             /\ LoopGoes(d, [at |-> "begun", tries |-> loop[d].tries + 1])
             /\ AsksLedger(d, [op |-> "begin", row |-> d[1]])
    <3>1. loop[d].tries < MaxAttempts
      <4>1. loop[d].tries \in 0 .. MaxAttempts /\ MaxAttempts \in Nat
        BY <1>00, LoopFields, NotificationAssumption
      <4>2. ~ (loop[d].tries >= MaxAttempts)
        BY <2>6 DEF Exhausted
      <4> QED BY <4>1, <4>2
    <3>2. [at |-> "begun", tries |-> loop[d].tries + 1] \in LoopState
      BY <1>00, <3>1, LoopFields
    <3> QED BY <1>3, <2>1, <2>2, <2>6, <3>2
  <2> QED BY <1>4, <2>4, <2>5, <2>6 DEF CheckRow
<1>5. ASSUME NEW d \in Loops, NotBegun(d) PROVE TypeOK' /\ Queued'
  <2>1. LoopOnly /\ UNCHANGED <<ask, ledgerQueue, faults, received>> /\ ask[d] = NoAsk /\ LoopGoes(d, NoLoop)
    BY <1>5 DEF NotBegun
  <2>2. received' \in [RowIds -> Nat] /\ NoLoop \in LoopState
    BY <1>0, <1>00, <2>1, LoopFields DEF RestOK
  <2> QED BY <1>3, <2>1, <2>2
<1>6. ASSUME NEW d \in Loops, Deliver(d) PROVE TypeOK' /\ Queued'
  <2>1. LoopOnly /\ ask[d] = NoAsk /\ received' = [received EXCEPT ![d[1]] = @ + 1]
    BY <1>6 DEF Deliver, Began
  <2>2. NoLoop \in LoopState /\ [loop[d] EXCEPT !.at = "check"] \in LoopState
    BY <1>00, LoopFields
  <2>3. received' \in [RowIds -> Nat]
    <3>1. received \in [RowIds -> Nat] /\ d[1] \in RowIds
      BY <1>0, <1>00 DEF RestOK
    <3> QED BY <2>1, <3>1
  <2> QED BY <1>3, <1>6, <2>1, <2>2, <2>3 DEF Deliver
<1>7. ASSUME NEW d \in Loops, Fail(d) PROVE TypeOK' /\ Queued'
  <2>1. LoopOnly /\ ask[d] = NoAsk /\ UNCHANGED <<faults, received>>
    BY <1>7 DEF Fail, Began
  <2>2. received' \in [RowIds -> Nat] /\ [loop[d] EXCEPT !.at = "check"] \in LoopState
    BY <1>0, <1>00, <2>1, LoopFields DEF RestOK
  <2> QED BY <1>3, <1>7, <2>1, <2>2 DEF Fail
<1>8. CASE Crash
  <2>1. /\ ask' = [c \in Callers |-> NoAsk] /\ bookQueue' = <<>> /\ ledgerQueue' = <<>>
        /\ reply' = [c \in Callers |-> 0] /\ task' = [h \in Handlers |-> NoTask]
        /\ forms' = [p \in People |-> NoForm] /\ clicks' = {}
        /\ known' = [known EXCEPT !.memory = known.file]
        /\ loop' = [d \in Loops |-> NoLoop]
        /\ recovering' = {[row |-> r, doubt |-> InDoubt(r)] : r \in Pending} /\ Faulty("crash")
        /\ UNCHANGED <<book, ledger, now, opened, budget, received, again>>
    BY <1>8 DEF Crash, Restarted
  <2>2. NoLoop \in LoopState
    BY NotificationAssumption DEF NoLoop, LoopState
  <2>3. faults' \in [Kinds -> Nat]
    BY <1>0, <2>1, FaultyIs DEF Kinds
  <2>4. known' \in [memory : SUBSET People, file : SUBSET People]
    BY <1>0, <2>1 DEF RestOK
  <2>7. \A r \in Pending : r \in RowIds /\ InDoubt(r) \in BOOLEAN
    BY DEF Pending, InDoubt
  <2>8. recovering' \subseteq [row : RowIds, doubt : BOOLEAN]
    BY <2>1, <2>7
  <2>9. /\ reply' \in [Callers -> Int \cup {None}] /\ task' \in [Handlers -> Task]
        /\ forms' \in [People -> Form \cup {NoForm}] /\ loop' \in [Loops -> LoopState]
    BY <2>1, <2>2, TaskIs
  <2>5. RestOK'
    <3>1. UNCHANGED <<book, ledger, now, opened, budget, received, again>> /\ clicks' = {}
      BY <2>1
    <3> QED BY <1>0, <2>3, <2>4, <2>8, <2>9, <3>1 DEF RestOK
  <2>6. AsksOK' /\ Queued'
    BY <2>1 DEF AsksOK, AskType, Queued
  <2> QED BY <1>0, <2>1, <2>5, <2>6 DEF TypeOK, RestOK, AsksOK, AskType, Budget
<1>9. ASSUME NEW e \in recovering, Recover(e) PROVE TypeOK' /\ Queued'
  <2>1. /\ ask[Boot] = NoAsk /\ recovering' = recovering \ {e} /\ e.row \in RowIds
        /\ UNCHANGED <<ledger, forms, opened, reply, task, faults, budget, received, again,
                       book, bookQueue, known, clicks, now>>
        /\ \/ Marks(Boot, e.row, "UNDELIVERABLE") /\ UNCHANGED loop
           \/ loop' = Dispatched({e.row}) /\ UNCHANGED <<ask, ledgerQueue>>
    BY <1>0, <1>9 DEF Recover, campaignVars, RestOK
  <2>2. AsksOK' /\ Queued'
    BY <1>0, <2>1, RequestTypes, MarkRequests DEF Marks
  <2>3. loop' \in [Loops -> LoopState]
    BY <1>0, <2>1, DispatchedIs
  <2>4. RestOK' /\ book' \in Book /\ ledger' \in Ledger
    BY <1>0, <2>1, <2>3 DEF RestOK
  <2> QED BY <2>2, <2>4 DEF TypeOK, RestOK, AsksOK, AskType, Budget
<1>10. CASE UNCHANGED vars
  <2>1. UNCHANGED <<book, bookQueue, known, clicks, now, ask, reply, task, faults, budget,
                    ledger, ledgerQueue, forms, opened, loop, recovering, received, again>>
    BY <1>10 DEF vars, campaignVars, sharedVars, salesVars, notificationVars
  <2>2. AsksOK' /\ Queued'
    BY <1>0, <2>1, RequestTypes
  <2>3. RestOK' /\ book' \in Book /\ ledger' \in Ledger
    BY <1>0, <2>1 DEF RestOK
  <2> QED BY <2>2, <2>3 DEF TypeOK, RestOK, AsksOK, AskType, Budget
<1> QED BY <1>1, <1>2, <1>4, <1>5, <1>6, <1>7, <1>8, <1>9, <1>10

LEMMA TypesKept == TypeInv /\ [Next]_vars => TypeOK' /\ Queued'
<1> SUFFICES ASSUME TypeInv, [Next]_vars PROVE TypeOK' /\ Queued'
  OBVIOUS
<1>1. CASE Serving /\ CampaignStep /\ UNCHANGED <<salesVars, notificationVars>>
  BY <1>1, CampaignTypes
<1>2. CASE Serving /\ FormStep /\ UNCHANGED notificationVars
  BY <1>2, FormTypes
<1>3. CASE Serving /\ SalesStep /\ UNCHANGED notificationVars
  BY <1>3, SalesTypes
<1> QED BY <1>1, <1>2, <1>3, NotificationTypes DEF Next

-----------------------------------------------------------------------------
(* What is named exists *)

LEMMA NamesAre ==
    NamesExist <=> /\ \A c \in Callers : NamedAsk(ask[c], book, ledger)
                   /\ \A h \in Handlers : NamedTask(task[h], ask[h], reply[h], ledger)
BY DEF NamesExist, NamedAsk, NamedTask, NeedsLead

LEMMA NamesKept ==
    ASSUME NamesExist, DocumentsGrow,
           \A c \in Callers : ask'[c] = ask[c] \/ NamedAsk(ask'[c], book', ledger'),
           \A h \in Handlers : \/ task'[h] = task[h] /\ ask'[h] = ask[h] /\ reply'[h] = reply[h]
                               \/ NamedTask(task'[h], ask'[h], reply'[h], ledger')
    PROVE  NamesExist'
<1>1. /\ \A c \in Callers : NamedAsk(ask[c], book, ledger)
      /\ \A h \in Handlers : NamedTask(task[h], ask[h], reply[h], ledger)
  BY NamesAre
<1>2. \A c \in Callers : NamedAsk(ask'[c], book', ledger')
  BY <1>1 DEF NamedAsk, DocumentsGrow
<1>3. \A h \in Handlers : NamedTask(task'[h], ask'[h], reply'[h], ledger')
  BY <1>1 DEF NamedTask, DocumentsGrow
<1> QED BY <1>2, <1>3 DEF NamesExist, NamedAsk, NamedTask, NeedsLead

\* Requests and tasks that name nothing.
LEMMA NamesNothing ==
    ASSUME NEW b, NEW g
    PROVE  /\ NamedAsk(NoAsk, b, g)
           /\ \A q \in BookRequest : q.op # "correct" => NamedAsk(q, b, g)
           /\ \A q \in LedgerRequest : q.op \notin NeedsLead => NamedAsk(q, b, g)
           /\ \A q, a : NamedTask(NoTask, q, a, g)
           /\ \A q, a, p : NamedTask([at |-> "membership", who |-> p], q, a, g)
<1>1. NamedAsk(NoAsk, b, g)
  BY DEF NamedAsk, NoAsk, NeedsLead
<1>2. ASSUME NEW q \in BookRequest, q.op # "correct" PROVE NamedAsk(q, b, g)
  <2>1. q.op \in BookOps
    BY BookFields
  <2> QED BY <1>2, <2>1 DEF NamedAsk, BookOps, NeedsLead
<1>3. ASSUME NEW q \in LedgerRequest, q.op \notin NeedsLead PROVE NamedAsk(q, b, g)
  <2>1. q.op \in LedgerOps
    BY LedgerFields
  <2> QED BY <1>3, <2>1 DEF NamedAsk, LedgerOps
<1>4. \A q, a : NamedTask(NoTask, q, a, g)
  BY DEF NamedTask, NoTask
<1>5. \A q, a, p : NamedTask([at |-> "membership", who |-> p], q, a, g)
  BY DEF NamedTask
<1> QED BY <1>1, <1>2, <1>3, <1>4, <1>5

LEMMA CampaignNames ==
    ASSUME TypeInv, CampaignStep, UNCHANGED <<salesVars, notificationVars>>
    PROVE  NamesExist'
<1> USE HandlersCall
<1>0. /\ TypeOK /\ Queued /\ NamesExist /\ task \in [Handlers -> Task] /\ RestOK /\ AsksOK
      /\ ask \in [Callers -> AskType] /\ UNCHANGED <<ledger, ledgerQueue>>
  BY TypeParts DEF TypeInv, RestOK, AsksOK, salesVars
<1>2. ASSUME NEW c \in Handlers \cup {Web}, NEW q \in BookRequest, CampaignAsk(c, q)
      PROVE  NamesExist'
  <2>1. /\ ask[c] = NoAsk /\ AsksBook(c, q) /\ UNCHANGED <<book, reply>> /\ SoundAsk(q)
        /\ c \in Handlers => task[c] = NoTask
        /\ \/ UNCHANGED task
           \/ \E p \in People : c = Home[p] /\ task' = [task EXCEPT ![c] = [at |-> "membership", who |-> p]]
    BY <1>2 DEF CampaignAsk, CampaignRequest, Free
  <2>2. ask'[c] = q /\ \A d \in Callers : d # c => ask'[d] = ask[d]
    BY <1>0, <2>1, AsksBookIs
  <2>3. NamedAsk(q, book', ledger')
    BY <2>1, NamesNothing DEF SoundAsk, NamedAsk, NeedsLead
  <2>4. ASSUME NEW h \in Handlers
        PROVE  \/ task'[h] = task[h] /\ ask'[h] = ask[h] /\ reply'[h] = reply[h]
               \/ NamedTask(task'[h], ask'[h], reply'[h], ledger')
    <3>1. CASE h # c
      BY <1>0, <2>1, <2>2, <3>1
    <3>2. CASE h = c
      BY <1>0, <2>1, <3>2, NamesNothing
    <3> QED BY <3>1, <3>2
  <2>5. DocumentsGrow
    BY <1>0, <2>1 DEF DocumentsGrow
  <2> QED BY <1>0, <2>2, <2>3, <2>4, <2>5, NamesKept
<1>3. ASSUME NEW h \in Handlers, NEW q \in BookRequest, Observation(h, q)
      PROVE  NamesExist'
  <2>1. /\ ask[h] = NoAsk /\ AsksBook(h, q) /\ q.op = "observe" /\ UNCHANGED <<book, reply>>
        /\ task' = [task EXCEPT ![h] = NoTask]
    BY <1>3 DEF Observation
  <2>2. ask'[h] = q /\ \A d \in Callers : d # h => ask'[d] = ask[d]
    BY <1>0, <2>1, AsksBookIs
  <2>3. NamedAsk(q, book', ledger') /\ DocumentsGrow
    BY <1>0, <2>1, NamesNothing DEF DocumentsGrow
  <2> QED BY <1>0, <2>1, <2>2, <2>3, NamesKept, NamesNothing
<1>4. ASSUME NEW h \in Handlers, NoObservation(h)
      PROVE  NamesExist'
  <2>1. UNCHANGED <<ask, book, reply>> /\ task' = [task EXCEPT ![h] = NoTask]
    BY <1>4 DEF NoObservation
  <2>2. DocumentsGrow
    BY <1>0, <2>1 DEF DocumentsGrow
  <2> QED BY <1>0, <2>1, <2>2, NamesKept, NamesNothing
<1>5. CASE BookTransact
  <2>1. PICK c \in Callers, q \in BookRequest : BookRuns(c, q)
    BY <1>0, <1>5, BookTransactIs
  <2>2. /\ ask'[c] = NoAsk /\ q = ask[c] /\ UNCHANGED task
        /\ \A d \in Callers : d # c => ask'[d] = ask[d] /\ reply'[d] = reply[d]
        /\ reply'[c] = 0 \/ reply'[c] = Len(book'.conversions)
        /\ book' = BookResult(q) \/ UNCHANGED book
    BY <2>1 DEF BookRuns
  <2>3. q.op = "correct" => q.row \in DOMAIN book.conversions
    BY <1>0, <2>2 DEF NamesExist
  <2>4. DocumentsGrow /\ book' \in Book
    <3>1. book \in Book
      BY <1>0 DEF TypeOK
    <3> QED BY <1>0, <2>2, <2>3, <3>1, BookResultIs DEF DocumentsGrow, Grows
  <2>5. reply'[c] \in Nat
    BY <2>2, <2>4, BookParts
  <2>6. c \in Handlers => NamedTask(task'[c], ask'[c], reply'[c], ledger')
    <3>1. q.op \in BookOps /\ q # NoAsk
      BY BookFields
    <3>2. c \in Handlers => NamedTask(task[c], q, reply[c], ledger)
      BY <1>0, <2>2, NamesAre
    <3> QED BY <1>0, <2>2, <2>5, <3>1, <3>2 DEF NamedTask, BookOps
  <2> QED BY <1>0, <2>2, <2>4, <2>6, NamesKept, NamesNothing
<1>6. CASE Tick
  <2>1. UNCHANGED <<book, ask, reply, task>>
    BY <1>6 DEF Tick
  <2>2. DocumentsGrow
    BY <1>0, <2>1 DEF DocumentsGrow
  <2> QED BY <1>0, <2>1, <2>2, NamesKept
<1> QED BY <1>0, <1>2, <1>3, <1>4, <1>5, <1>6, CampaignActs

LEMMA SalesNames ==
    ASSUME TypeInv, FormStep \/ SalesStep, UNCHANGED notificationVars
    PROVE  NamesExist'
<1> USE HandlersCall
<1>0. /\ TypeOK /\ Queued /\ NamesExist /\ task \in [Handlers -> Task] /\ RestOK /\ AsksOK
      /\ ask \in [Callers -> AskType] /\ reply \in [Callers -> Int \cup {None}] /\ ledger \in Ledger
  BY TypeParts DEF TypeInv, RestOK, AsksOK
<1>1. ASSUME UNCHANGED <<book, ledger, ask, reply>>,
             \/ UNCHANGED task
             \/ \E h \in Handlers : \E t : task' = [task EXCEPT ![h] = t]
                                           /\ NamedTask(t, ask'[h], reply'[h], ledger')
      PROVE  NamesExist'
  <2>1. DocumentsGrow
    BY <1>1 DEF DocumentsGrow
  <2>2. ASSUME NEW h \in Handlers
        PROVE  task'[h] = task[h] \/ NamedTask(task'[h], ask'[h], reply'[h], ledger')
    BY <1>0, <1>1
  <2> QED BY <1>0, <1>1, <2>1, <2>2, NamesKept
<1>2. ASSUME NEW h \in Handlers, NEW q, AsksLedger(h, q), UNCHANGED <<book, ledger, reply>>,
             NamedAsk(q, book', ledger'), NamedTask(task'[h], q, reply[h], ledger'),
             UNCHANGED task \/ \E t : task' = [task EXCEPT ![h] = t]
      PROVE  NamesExist'
  <2>1. DocumentsGrow
    BY <1>2 DEF DocumentsGrow
  <2>2. ask'[h] = q /\ \A d \in Callers : d # h => ask'[d] = ask[d]
    BY <1>0, <1>2 DEF AsksLedger, AskType
  <2>3. \A k \in Handlers : k # h => task'[k] = task[k]
    BY <1>0, <1>2
  <2> QED BY <1>0, <1>2, <2>1, <2>2, <2>3, NamesKept
<1>3. ASSUME NEW h \in Handlers, NEW type, NEW p, NEW t, Links(h, type, p, t), UNCHANGED ledger,
             NEW next, task' = [task EXCEPT ![h] = next],
             NamedTask(next, RegisterAsk(type, p, t), reply[h], ledger), ask[h] = NoAsk,
             NamedTask(next, NoAsk, 0, ledger)
      PROVE  NamesExist'
  <2>1. DocumentsGrow
    BY <1>3 DEF DocumentsGrow, Links
  <2>2. NamedAsk(RegisterAsk(type, p, t), book', ledger')
    BY <1>3, NamesNothing DEF Links
  <2>3. CASE AsksBook(h, RegisterAsk(type, p, t)) /\ UNCHANGED reply
    <3>1. ask'[h] = RegisterAsk(type, p, t) /\ \A d \in Callers : d # h => ask'[d] = ask[d]
      BY <1>0, <2>3 DEF AsksBook, AskType
    <3>2. \A k \in Handlers : k # h => task'[k] = task[k]
      BY <1>0, <1>3
    <3>3. NamedTask(task'[h], ask'[h], reply'[h], ledger')
      BY <1>0, <1>3, <2>3, <3>1
    <3> QED BY <1>0, <2>1, <2>2, <2>3, <3>1, <3>2, <3>3, NamesKept
  <2>4. CASE reply' = [reply EXCEPT ![h] = 0] /\ UNCHANGED <<ask, bookQueue>>
    <3>1. \A k \in Handlers : k # h => task'[k] = task[k] /\ reply'[k] = reply[k]
      BY <1>0, <1>3, <2>4
    <3>2. NamedTask(task'[h], ask'[h], reply'[h], ledger')
      BY <1>0, <1>3, <2>4
    <3> QED BY <1>0, <2>1, <2>4, <3>1, <3>2, NamesKept
  <2> QED BY <1>3, <2>3, <2>4 DEF Links
<1>4. ASSUME NEW p \in People,
             OpenForm(p) \/ Answer(p) \/ SkipDescription(p) \/ EditForm(p) \/ LeaveForm(p)
      PROVE  NamesExist'
  <2>1. UNCHANGED <<book, ledger, ask, reply, task>>
    BY <1>4 DEF OpenForm, Answer, SkipDescription, EditForm, LeaveForm, FormKept, FormOnly, campaignVars
  <2> QED BY <1>1, <2>1
<1>5. ASSUME NEW p \in People, Confirm(p) PROVE NamesExist'
  <2> DEFINE h == Home[p]
             q == [op |-> "create", who |-> p, key |-> forms[p].key, at |-> now]
             t == [at |-> "created", who |-> p]
  <2>1. UNCHANGED <<book, ledger, reply>>
    BY <1>5 DEF Confirm, campaignVars
  <2>2. \/ AsksLedger(h, q) /\ task' = [task EXCEPT ![h] = t]
        \/ UNCHANGED <<ask, task>>
    BY <1>5 DEF Confirm
  <2>3. q.op = "create" /\ t.at = "created"
    OBVIOUS
  <2> HIDE DEF q, t, h
  <2>4. NamedAsk(q, book', ledger')
    BY <2>3 DEF NamedAsk, NeedsLead
  <2>5. h \in Handlers
    BY DEF h
  <2>6. NamedTask(t, q, reply[h], ledger')
    <3>1. q # NoAsk
      BY <2>3 DEF NoAsk
    <3> QED BY <2>3, <3>1 DEF NamedTask
  <2>7. task' = [task EXCEPT ![h] = t] => task'[h] = t
    BY <1>0, <2>5
  <2> QED BY <1>1, <1>2, <2>1, <2>2, <2>4, <2>5, <2>6, <2>7
<1>6. ASSUME NEW h \in Handlers, LeadStored(h) PROVE NamesExist'
  <2> DEFINE next == [at |-> "linked", who |-> task[h].who, lead |-> LeadOf(reply[h])]
  <2>1. /\ ask[h] = NoAsk /\ LeadOf(reply[h]) \in DOMAIN ledger.leads /\ UNCHANGED salesVars
        /\ Links(h, "LEAD", task[h].who, ledger.leads[LeadOf(reply[h])].at)
        /\ task' = [task EXCEPT ![h] = next]
    BY <1>6, LeadActs
  <2>2. \A q, a : NamedTask(next, q, a, ledger)
    BY <2>1 DEF NamedTask
  <2> HIDE DEF next
  <2> QED BY <1>3, <2>1, <2>2 DEF salesVars
<1>7. ASSUME NEW h \in Handlers, LeadConverted(h) PROVE NamesExist'
  <2> DEFINE next == [at |-> "customer", lead |-> task[h].lead]
             lead == ledger.leads[task[h].lead]
  <2>1. /\ ask[h] = NoAsk /\ UNCHANGED salesVars /\ task[h].lead \in DOMAIN ledger.leads
        /\ \/ /\ task' = [task EXCEPT ![h] = NoTask]
              /\ UNCHANGED <<ask, reply, faults, budget, campaignVars>>
           \/ /\ Links(h, "CUSTOMER", lead.who, lead.converted)
              /\ task' = [task EXCEPT ![h] = next]
    BY <1>7, LeadActs
  <2>2. CASE task' = [task EXCEPT ![h] = NoTask] /\ UNCHANGED <<ask, reply, faults, budget, campaignVars>>
    BY <1>1, <2>1, <2>2, NamesNothing DEF salesVars, campaignVars
  <2>3. CASE Links(h, "CUSTOMER", lead.who, lead.converted) /\ task' = [task EXCEPT ![h] = next]
    <3>1. RegisterAsk("CUSTOMER", lead.who, lead.converted).op = "register"
      BY DEF RegisterAsk
    <3>2. NamedTask(next, RegisterAsk("CUSTOMER", lead.who, lead.converted), reply[h], ledger)
      <4>1. RegisterAsk("CUSTOMER", lead.who, lead.converted) # NoAsk
        BY <3>1 DEF NoAsk
      <4> QED BY <2>1, <3>1, <4>1 DEF NamedTask
    <3>3. NamedTask(next, NoAsk, 0, ledger)
      BY <2>1, CampaignsAssumption DEF NamedTask
    <3> HIDE DEF next, lead
    <3> QED BY <1>3, <2>1, <2>3, <3>2, <3>3 DEF salesVars
  <2> QED BY <2>1, <2>2, <2>3
<1>8. ASSUME NEW h \in Handlers, RetryNext(h) PROVE NamesExist'
  <2>1. PICK type \in ConversionTypes, p \in People, t \in Nat, l \in SUBSET DOMAIN ledger.leads,
             d \in {0, 1} :
          /\ Links(h, type, p, t)
          /\ task' = [task EXCEPT ![h] = [at |-> "retry", left |-> l, done |-> d]]
          /\ [at |-> "retry", left |-> l, done |-> d] \in Task
    BY <1>8, LeadActs
  <2>2. ask[h] = NoAsk /\ UNCHANGED salesVars
    BY <1>8, LeadActs
  <2>3. \A q, a : NamedTask([at |-> "retry", left |-> l, done |-> d], q, a, ledger)
    BY DEF NamedTask
  <2> QED BY <1>3, <2>1, <2>2, <2>3 DEF salesVars
<1>9. ASSUME NEW h \in Handlers, LeadRefused(h) PROVE NamesExist'
  <2>1. UNCHANGED <<book, ledger, ask, reply>> /\ task' = [task EXCEPT ![h] = NoTask]
    BY <1>9 DEF LeadRefused, Goes, campaignVars
  <2> QED BY <1>1, <2>1, NamesNothing
<1>10. ASSUME NEW h \in Handlers, LeadLinked(h) PROVE NamesExist'
  <2> DEFINE q == [op |-> "enqueue", lead |-> task[h].lead]
             t == [at |-> "enqueued", lead |-> task[h].lead]
  <2>1. /\ UNCHANGED <<book, ledger, reply>> /\ task[h].at = "linked"
        /\ AsksLedger(h, q) /\ task' = [task EXCEPT ![h] = t]
    BY <1>10 DEF LeadLinked, Answered, Goes, campaignVars
  <2>2. task[h].lead \in DOMAIN ledger.leads
    BY <1>0, <2>1 DEF NamesExist
  <2>3. NamedAsk(q, book', ledger') /\ NamedTask(t, q, reply[h], ledger')
    BY <2>1, <2>2 DEF NamedAsk, NamedTask, NeedsLead
  <2> HIDE DEF q, t
  <2>4. task'[h] = t
    BY <1>0, <2>1
  <2> QED BY <1>2, <2>1, <2>3, <2>4
<1>11. ASSUME NEW h \in Handlers, CustomerLinked(h) PROVE NamesExist'
  <2> DEFINE q == [op |-> "store", lead |-> task[h].lead, row |-> reply[h]]
  <2>1. /\ UNCHANGED <<book, ledger, reply>> /\ task[h].at = "customer"
        /\ AsksLedger(h, q) /\ task' = [task EXCEPT ![h] = NoTask]
    BY <1>11 DEF CustomerLinked, Answered, Goes, campaignVars
  <2>2. task[h].lead \in DOMAIN ledger.leads
    BY <1>0, <2>1 DEF NamesExist
  <2>3. NamedAsk(q, book', ledger')
    BY <2>1, <2>2 DEF NamedAsk, NeedsLead
  <2> HIDE DEF q
  <2>4. task'[h] = NoTask
    BY <1>0, <2>1
  <2> QED BY <1>2, <2>1, <2>3, <2>4, NamesNothing
<1>12. ASSUME NEW h \in Handlers, RetryLinks(h) PROVE NamesExist'
  <2> DEFINE t == [at |-> "retry", left |-> Unlinked, done |-> 0]
  <2>1. UNCHANGED <<book, ledger, ask, reply>> /\ task' = [task EXCEPT ![h] = t]
    BY <1>12 DEF RetryLinks, Goes, salesVars, campaignVars
  <2>2. Unlinked \subseteq DOMAIN ledger'.leads
    BY <2>1 DEF Unlinked, Indices
  <2>3. NamedTask(t, ask'[h], reply'[h], ledger')
    BY <2>2 DEF NamedTask
  <2> HIDE DEF t
  <2> QED BY <1>1, <2>1, <2>3
<1>13. ASSUME NEW h \in Handlers, NEW q \in LedgerRequest, OperatorAsk(h, q) PROVE NamesExist'
  <2>1. /\ AsksLedger(h, q) /\ UNCHANGED <<book, ledger, reply>> /\ task[h] = NoTask
        /\ q.lead \in DOMAIN ledger.leads /\ q.op \in {"follow", "annotate", "convert", "sale"}
        /\ \/ UNCHANGED task
           \/ task' = [task EXCEPT ![h] = [at |-> "converted", lead |-> q.lead]]
    BY <1>13 DEF OperatorAsk, SalesRequest, Free, campaignVars
  <2>2. NamedAsk(q, book', ledger')
    BY <2>1 DEF NamedAsk
  <2>3. NamedTask([at |-> "converted", lead |-> q.lead], q, reply[h], ledger')
    BY <2>1 DEF NamedTask
  <2>4. CASE UNCHANGED task
    BY <1>2, <2>1, <2>2, <2>4, NamesNothing
  <2>5. CASE task' = [task EXCEPT ![h] = [at |-> "converted", lead |-> q.lead]]
    <3>1. task'[h] = [at |-> "converted", lead |-> q.lead]
      BY <1>0, <2>5
    <3> QED BY <1>2, <2>1, <2>2, <2>3, <2>5, <3>1
  <2> QED BY <2>1, <2>4, <2>5
<1> QED BY <1>0, <1>4, <1>5, <1>6, <1>7, <1>8, <1>9, <1>10, <1>11, <1>12, <1>13, SalesActs DEF FormStep

\* What a delivery or the start of the process may do to the queues.
LEMMA LoopActs ==
    ASSUME NEW d \in Loops, CheckRow(d) \/ NotBegun(d) \/ Deliver(d) \/ Fail(d)
    PROVE  /\ LoopOnly /\ ask[d] = NoAsk
           /\ \/ UNCHANGED <<ask, ledgerQueue>>
              \/ AsksLedger(d, [op |-> "begin", row |-> d[1]])
              \/ \E s \in {"PENDING", "SENT", "UNDELIVERABLE"} :
                    AsksLedger(d, [op |-> "mark", row |-> d[1], to |-> s])
BY DEF CheckRow, NotBegun, Deliver, Fail, Began, Marks

LEMMA NotificationNames ==
    ASSUME TypeInv,
           \/ LedgerTransact /\ UNCHANGED notificationVars
           \/ \E h \in Handlers : Dispatch(h) \/ DispatchAgain(h)
           \/ \E d \in Loops : CheckRow(d) \/ NotBegun(d) \/ Deliver(d) \/ Fail(d)
           \/ Crash
           \/ \E e \in recovering : Recover(e)
           \/ UNCHANGED vars
    PROVE  NamesExist'
<1> USE HandlersCall
<1>0. /\ TypeOK /\ Queued /\ NamesExist /\ task \in [Handlers -> Task] /\ RestOK /\ AsksOK
      /\ ask \in [Callers -> AskType] /\ ledger \in Ledger /\ recovering \subseteq [row : RowIds, doubt : BOOLEAN]
  BY TypeParts DEF TypeInv, RestOK, AsksOK
<1>1. CASE LedgerTransact /\ UNCHANGED notificationVars
  <2>1. PICK c \in Callers, q \in LedgerRequest : LedgerRuns(c, q)
    BY <1>1, LedgerTransactIs
  <2>2. /\ ask'[c] = NoAsk /\ q = ask[c] /\ UNCHANGED <<task, book>>
        /\ \A d \in Callers : d # c => ask'[d] = ask[d] /\ reply'[d] = reply[d]
        /\ \/ ledger' = LedgerResult(q) /\ reply'[c] = LedgerReply(q, LedgerResult(q))
           \/ UNCHANGED ledger /\ reply'[c] = 0
    BY <2>1 DEF LedgerRuns, campaignVars
  <2>3. q.op \in NeedsLead => q.lead \in DOMAIN ledger.leads
    BY <1>0, <2>2 DEF NamesExist, NeedsLead
  <2>4. DocumentsGrow
    BY <1>0, <2>2, <2>3, LedgerResultIs DEF DocumentsGrow
  <2>5. q.op = "create" /\ reply'[c] \notin {0, None} => LeadOf(reply'[c]) \in DOMAIN ledger'.leads
    BY <1>0, <2>2, LedgerReplyIs
  <2>6. c \in Handlers => NamedTask(task'[c], ask'[c], reply'[c], ledger')
    <3>1. q.op \in LedgerOps /\ q # NoAsk
      BY LedgerFields
    <3>2. c \in Handlers => NamedTask(task[c], q, reply[c], ledger)
      BY <1>0, <2>2, NamesAre
    <3> QED BY <2>2, <2>4, <2>5, <3>1, <3>2 DEF NamedTask, LedgerOps, DocumentsGrow
  <2> QED BY <1>0, <2>2, <2>4, <2>6, NamesKept, NamesNothing
<1>2. ASSUME NEW h \in Handlers, Dispatch(h) \/ DispatchAgain(h) PROVE NamesExist'
  <2>1. UNCHANGED <<ledger, ask, reply, book>> /\ task' = [task EXCEPT ![h] = NoTask]
    BY <1>2 DEF Dispatch, DispatchAgain, DispatchOnly, Goes, salesVars, campaignVars
  <2>2. DocumentsGrow
    BY <2>1 DEF DocumentsGrow
  <2> QED BY <1>0, <2>1, <2>2, NamesKept, NamesNothing
<1>3. ASSUME NEW c \in Callers \ Handlers, NEW r \in RowIds, UNCHANGED <<ledger, reply, task, book>>,
             \/ UNCHANGED <<ask, ledgerQueue>>
             \/ AsksLedger(c, [op |-> "begin", row |-> r])
             \/ \E s \in {"PENDING", "SENT", "UNDELIVERABLE"} :
                    AsksLedger(c, [op |-> "mark", row |-> r, to |-> s])
      PROVE  NamesExist'
  <2>1. DocumentsGrow
    BY <1>3 DEF DocumentsGrow
  <2>2. ASSUME NEW q, AsksLedger(c, q), q.op \in {"begin", "mark"} PROVE NamesExist'
    <3>1. NamedAsk(q, book', ledger')
      BY <2>2 DEF NamedAsk, NeedsLead
    <3>2. ask'[c] = q /\ \A d \in Callers : d # c => ask'[d] = ask[d]
      BY <1>0, <2>2 DEF AsksLedger
    <3> QED BY <1>0, <1>3, <2>1, <3>1, <3>2, NamesKept
  <2>3. CASE UNCHANGED <<ask, ledgerQueue>>
    BY <1>0, <1>3, <2>1, <2>3, NamesKept
  <2> QED BY <1>3, <2>2, <2>3
<1>4. ASSUME NEW d \in Loops, CheckRow(d) \/ NotBegun(d) \/ Deliver(d) \/ Fail(d) PROVE NamesExist'
  <2>1. UNCHANGED <<ledger, reply, task, book>>
    BY <1>4, LoopActs DEF LoopOnly, campaignVars
  <2>2. d \in Callers \ Handlers /\ d[1] \in RowIds
    BY DEF Loops
  <2> QED BY <1>3, <1>4, <2>1, <2>2, LoopActs
<1>5. CASE Crash
  <2>1. /\ ask' = [c \in Callers |-> NoAsk] /\ task' = [h \in Handlers |-> NoTask]
        /\ UNCHANGED <<book, ledger>>
    BY <1>5 DEF Crash, Restarted
  <2>2. DocumentsGrow
    BY <2>1 DEF DocumentsGrow
  <2> QED BY <1>0, <2>1, <2>2, NamesKept, NamesNothing
<1>6. ASSUME NEW e \in recovering, Recover(e) PROVE NamesExist'
  <2>1. /\ UNCHANGED <<ledger, reply, task, book>> /\ e.row \in RowIds
        /\ UNCHANGED <<ask, ledgerQueue>> \/ AsksLedger(Boot, [op |-> "mark", row |-> e.row, to |-> "UNDELIVERABLE"])
    BY <1>0, <1>6 DEF Recover, Marks, campaignVars
  <2> QED BY <1>3, <2>1
<1>7. CASE UNCHANGED vars
  <2>1. UNCHANGED <<book, ledger, ask, reply, task>>
    BY <1>7 DEF vars, campaignVars, sharedVars, salesVars
  <2>2. DocumentsGrow
    BY <2>1 DEF DocumentsGrow
  <2> QED BY <1>0, <2>1, <2>2, NamesKept
<1> QED BY <1>1, <1>2, <1>4, <1>5, <1>6, <1>7

LEMMA TypeInvStep == TypeInv /\ [Next]_vars => TypeInv'
<1> SUFFICES ASSUME TypeInv, [Next]_vars PROVE TypeInv'
  OBVIOUS
<1>1. NamesExist'
  BY CampaignNames, SalesNames, NotificationNames DEF Next
<1> QED BY <1>1, TypesKept DEF TypeInv

-----------------------------------------------------------------------------
(* The initial states *)

LEMMA EmptyLedgerIs ==
    /\ NoLedger \in Ledger /\ NoLedger.leads = <<>> /\ NoLedger.outcomes = <<>>
    /\ \A r \in RowIds : NoLedger.rows[r] = NoRow
    /\ NoRow \in Row
<1>1. NoRow \in Row
  BY DEF NoRow, Row
<1>2. <<>> \in Seq(Lead) /\ <<>> \in Seq(Outcome)
  BY EmptySeq
<1> QED BY <1>1, <1>2 DEF NoLedger, Ledger, Outcome

LEMMA EmptyBookIs ==
    ASSUME NEW b, NEW s \in CampaignStatus,
           b = NoBook \/ b = [NoBook EXCEPT !.status = [c \in Campaigns |-> s]]
    PROVE  /\ b \in Book /\ b.events = <<>> /\ b.conversions = <<>> /\ b.imports = <<>>
           /\ b.touched = [p \in People |-> NoTouch]
<1>1. /\ <<>> \in Seq(Event) /\ <<>> \in Seq(ConversionRecord) /\ <<>> \in Seq(Aggregate)
  BY EmptySeq
<1>2. NoTouch \in Touch
  BY DEF NoTouch, Touch
<1>3. "NONE" \in CampaignStatus
  BY DEF CampaignStatus
<1>4. NoBook \in Book
  BY <1>1, <1>2, <1>3 DEF NoBook, Book, Touch, Aggregate
<1>5. [c \in Campaigns |-> s] \in [Campaigns -> CampaignStatus]
  OBVIOUS
<1>6. LET n == [NoBook EXCEPT !.status = [c \in Campaigns |-> s]] IN
       /\ n \in Book /\ n.events = NoBook.events /\ n.touched = NoBook.touched
       /\ n.conversions = NoBook.conversions /\ n.imports = NoBook.imports
  BY <1>4, <1>5, WithStatus
<1>7. /\ NoBook.events = <<>> /\ NoBook.conversions = <<>> /\ NoBook.imports = <<>>
      /\ NoBook.touched = [p \in People |-> NoTouch]
  BY DEF NoBook
<1> QED BY <1>4, <1>6, <1>7

LEMMA OldLeadIs ==
    /\ OldLead \in Lead /\ OldLead.customer = "NONE" /\ OldLead.customerRow = 0 /\ OldLead.sale = 0
    /\ OldLead.key = 0 /\ OldLead.who \in People
<1> DEFINE p == CHOOSE p \in People : TRUE
<1>1. p \in People
  BY SalesAssumption
<1>2. NewLead(p, 0, 1) \in Lead
  BY <1>1 DEF NewLead, Lead, LeadStatus
<1>3. OldLead = [NewLead(p, 0, 1) EXCEPT !.status = "QUALIFIED"]
  BY DEF OldLead
<1> HIDE DEF p
<1>4. [NewLead(p, 0, 1) EXCEPT !.status = "QUALIFIED"] =
      [who |-> p, key |-> 0, status |-> "QUALIFIED", at |-> 1, converted |-> 0,
       customer |-> "NONE", customerRow |-> 0, sale |-> 0]
  BY DEF NewLead
<1> QED BY <1>1, <1>3, <1>4 DEF Lead, LeadStatus

LEMMA OneRowIs ==
    ASSUME NEW S, NEW x \in S
    PROVE  <<x>> \in Seq(S) /\ DOMAIN <<x>> = {1} /\ <<x>>[1] = x
OBVIOUS

LEMMA OldBookIs ==
    /\ OldBook \in Book /\ OldBook.events = <<>> /\ OldBook.imports = <<>>
    /\ OldBook.touched = [p \in People |-> NoTouch]
    /\ DOMAIN OldBook.conversions = {1}
    /\ OldBook.conversions[1].status = "ACTIVE" /\ OldBook.conversions[1].from = 0
    /\ OldBook.conversions[1].campaign = None
<1> DEFINE k == Conversion("LEAD", OldLead.who, 1, None, 0)
<1>1. k \in ConversionRecord /\ k.status = "ACTIVE" /\ k.from = 0 /\ k.campaign = None
  BY OldLeadIs DEF Conversion, ConversionRecord, ConversionTypes
<1>2. OldBook = [NoBook EXCEPT !.conversions = <<k>>]
  BY DEF OldBook
<1> HIDE DEF k
<1>3. <<k>> \in Seq(ConversionRecord) /\ DOMAIN <<k>> = {1} /\ <<k>>[1] = k
  BY <1>1, OneRowIs
<1>4. /\ NoBook \in Book /\ NoBook.events = <<>> /\ NoBook.imports = <<>>
      /\ NoBook.touched = [p \in People |-> NoTouch]
  BY EmptyBookIs DEF CampaignStatus
<1>5. LET n == [NoBook EXCEPT !.conversions = <<k>>] IN
       /\ n \in Book /\ n.events = NoBook.events /\ n.touched = NoBook.touched
       /\ n.conversions = <<k>> /\ n.imports = NoBook.imports
  BY <1>3, <1>4, WithConversions
<1> QED BY <1>1, <1>2, <1>3, <1>4, <1>5

LEMMA OldLedgerIs ==
    /\ OldLedger \in Ledger /\ OldLedger.outcomes = <<>>
    /\ DOMAIN OldLedger.leads = {1} /\ OldLedger.leads[1] = OldLead
    /\ \A r \in RowIds :
        IF r[1] = 1 THEN /\ OldLedger.rows[r].status = "SENT" /\ OldLedger.rows[r].attempts = 1
        ELSE OldLedger.rows[r] = NoRow
<1> DEFINE sent == [NoRow EXCEPT !.status = "SENT", !.attempts = 1]
           X == [r \in RowIds |-> IF r[1] = 1 THEN sent ELSE NoRow]
<1>1. sent \in Row /\ sent.status = "SENT" /\ sent.attempts = 1
  BY DEF NoRow, Row
<1>2. OldLedger = [NoLedger EXCEPT !.leads = <<OldLead>>, !.rows = X]
  BY DEF OldLedger
<1> HIDE DEF sent
<1>3. X \in [RowIds -> Row]
  BY <1>1, EmptyLedgerIs
<1>4. <<OldLead>> \in Seq(Lead) /\ DOMAIN <<OldLead>> = {1} /\ <<OldLead>>[1] = OldLead
  BY OldLeadIs, OneRowIs
<1>5. \A r \in RowIds : X[r] = IF r[1] = 1 THEN sent ELSE NoRow
  OBVIOUS
<1> HIDE DEF X
<1>6. OldLedger = [leads |-> <<OldLead>>, outcomes |-> <<>>, rows |-> X]
  BY <1>2 DEF NoLedger
<1>7. OldLedger \in Ledger
  <2>1. <<>> \in Seq(Outcome)
    BY EmptySeq
  <2> HIDE DEF OldLedger
  <2> QED BY <1>3, <1>4, <1>6, <2>1 DEF Ledger, Outcome
<1> HIDE DEF OldLedger
<1>8. OldLedger.leads = <<OldLead>> /\ OldLedger.outcomes = <<>> /\ OldLedger.rows = X
  BY <1>6
<1> QED BY <1>1, <1>4, <1>5, <1>7, <1>8

LEMMA TypeInvStart == Init => TypeInv
<1> SUFFICES ASSUME Init PROVE TypeInv
  OBVIOUS
<1>1. /\ ask = [c \in Callers |-> NoAsk] /\ reply = [c \in Callers |-> 0]
      /\ task = [h \in Handlers |-> NoTask] /\ faults = [k \in Kinds |-> 0]
      /\ budget \in Budgets /\ opened = 0 /\ ledgerQueue = <<>> /\ bookQueue = <<>>
      /\ forms = [p \in People |-> NoForm] /\ loop = [d \in Loops |-> NoLoop] /\ recovering = {}
      /\ clicks = {} /\ now = 1 /\ again = [r \in RowIds |-> 0]
      /\ received = [r \in RowIds |-> ledger.rows[r].attempts]
  BY DEF Init, CampaignStart
<1>2. \/ /\ book = [NoBook EXCEPT !.status = [c \in Campaigns |-> "ACTIVE"]]
         /\ ledger = NoLedger
         /\ known = [memory |-> {}, file |-> {}]
      \/ /\ ledger = OldLedger
         /\ book = OldBook
         /\ known = [memory |-> People, file |-> People]
  BY DEF Init
<1>3. book \in Book /\ ledger \in Ledger /\ known \in [memory : SUBSET People, file : SUBSET People]
  BY <1>2, EmptyBookIs, EmptyLedgerIs, OldBookIs, OldLedgerIs DEF CampaignStatus
<1>4. AsksOK
  BY <1>1, EmptySeq DEF AsksOK, AskType
<1>5. received \in [RowIds -> Nat]
  BY <1>1, <1>3, LedgerParts, RowFields
<1>6. budget \in Budget
  <2>1. \A k \in 0 .. MaxForms : k \in Nat
    BY CampaignsAssumption
  <2>2. budget \in [requests : Nat, campaigns : Nat, forms : 0 .. MaxForms, ticks : Nat]
    BY <1>1, CampaignsAssumption
  <2> QED BY <2>1, <2>2 DEF Budget
<1>7. RestOK
  BY <1>1, <1>3, <1>5, <1>6, TaskIs, LoopFields, NotificationAssumption DEF RestOK, NoLoop, LoopState
<1>8. TypeOK
  BY <1>3, <1>4, <1>7, TypeParts
<1>9. Queued
  BY <1>1 DEF Queued
<1>10. NamesExist
  BY <1>1, HandlersCall DEF NamesExist, NoAsk, NoTask
<1> QED BY <1>8, <1>9, <1>10 DEF TypeInv

(* The documents, the queues and whoever waits in them keep their types, a     *)
(* caller waits once and for one document, and the rows that requests and       *)
(* handlers name are there (campaign.store.ts, sales.store.ts).                 *)
THEOREM TypesAreKept == Spec => []TypeOK
<1>1. TypeInv => TypeOK
  BY DEF TypeInv
<1> QED BY <1>1, TypeInvStart, TypeInvStep, PTL DEF Spec

-----------------------------------------------------------------------------
(* What a step does to the document of the campaigns *)

LEMMA LedgerRequestIsNoBookRequest ==
    ASSUME TypeOK, NEW c \in Callers, NEW q \in LedgerRequest, ask[c] = NoAsk, AsksLedger(c, q),
           UNCHANGED <<book, bookQueue, now>>
    PROVE  BookStays
<1>1. ask \in [Callers -> AskType] /\ now \in Nat
  BY DEF TypeOK, AskType
<1>2. ask'[c] = q /\ \A d \in Callers : d # c => ask'[d] = ask[d]
  BY <1>1 DEF AsksLedger
<1> QED BY <1>1, <1>2, OneDocument DEF BookStays

LEMMA CampaignBook ==
    ASSUME TypeInv, CampaignStep, UNCHANGED <<salesVars, notificationVars>>
    PROVE  BookActs
<1> USE HandlersCall
<1>0. /\ TypeOK /\ Queued /\ ask \in [Callers -> AskType] /\ now \in Nat /\ UNCHANGED <<ledger, ledgerQueue>>
  BY TypeParts DEF TypeInv, RestOK, AsksOK, salesVars
<1>1. ASSUME NEW c \in Handlers \cup {Web}, NEW q \in BookRequest, CampaignAsk(c, q) PROVE BookActs
  <2>1. /\ ask[c] = NoAsk /\ AsksBook(c, q) /\ UNCHANGED <<book, now>> /\ SoundAsk(q)
    BY <1>1 DEF CampaignAsk, CampaignRequest, Free
  <2>2. ask'[c] = q /\ \A d \in Callers : d # c => ask'[d] = ask[d]
    BY <1>0, <2>1, AsksBookIs
  <2> QED BY <1>0, <2>1, <2>2 DEF BookActs, BookAsks
<1>2. ASSUME NEW h \in Handlers, NEW q \in BookRequest, Observation(h, q) PROVE BookActs
  <2>1. /\ ask[h] = NoAsk /\ AsksBook(h, q) /\ UNCHANGED <<book, now>> /\ SoundAsk(q)
    BY <1>2 DEF Observation, SoundAsk
  <2>2. ask'[h] = q /\ \A d \in Callers : d # h => ask'[d] = ask[d]
    BY <1>0, <2>1, AsksBookIs
  <2> QED BY <1>0, <2>1, <2>2 DEF BookActs, BookAsks
<1>3. ASSUME NEW h \in Handlers, NoObservation(h) PROVE BookActs
  BY <1>0, <1>3 DEF NoObservation, BookActs, BookStays
<1>4. CASE BookTransact
  BY <1>0, <1>4, BookTransactIs DEF BookActs
<1>5. CASE Tick
  BY <1>0, <1>5 DEF Tick, BookActs, BookStays
<1> QED BY <1>0, <1>1, <1>2, <1>3, <1>4, <1>5, CampaignActs

LEMMA SalesBook ==
    ASSUME TypeInv, FormStep \/ SalesStep
    PROVE  BookActs
<1> USE HandlersCall
<1>0. /\ TypeOK /\ Queued /\ ask \in [Callers -> AskType] /\ now \in Nat /\ ledger \in Ledger
      /\ NamesExist /\ task \in [Handlers -> Task] /\ reply \in [Callers -> Int \cup {None}]
      /\ forms \in [People -> Form \cup {NoForm}]
  BY TypeParts DEF TypeInv, RestOK, AsksOK
<1>1. ASSUME UNCHANGED <<book, bookQueue, now, ask>> PROVE BookActs
  BY <1>0, <1>1 DEF BookActs, BookStays
<1>2. ASSUME NEW h \in Handlers, NEW q \in LedgerRequest, ask[h] = NoAsk, AsksLedger(h, q),
             UNCHANGED <<book, bookQueue, now>>
      PROVE  BookActs
  BY <1>0, <1>2, LedgerRequestIsNoBookRequest DEF BookActs
<1>3. ASSUME NEW h \in Handlers, NEW type, NEW p, NEW t, Links(h, type, p, t), UNCHANGED salesVars,
             ask[h] = NoAsk
      PROVE  BookActs
  <2> DEFINE q == RegisterAsk(type, p, t)
  <2>1. /\ q \in BookRequest /\ SoundAsk(q) /\ UNCHANGED <<book, now, ledger>>
        /\ AsksBook(h, q) \/ UNCHANGED <<ask, bookQueue>>
    BY <1>3 DEF Links, salesVars
  <2> HIDE DEF q
  <2>2. CASE AsksBook(h, q)
    <3>1. ask'[h] = q /\ \A d \in Callers : d # h => ask'[d] = ask[d]
      BY <1>0, <2>2 DEF AsksBook
    <3> QED BY <1>3, <2>1, <2>2, <3>1 DEF BookActs, BookAsks
  <2>3. CASE UNCHANGED <<ask, bookQueue>>
    BY <1>1, <2>1, <2>3
  <2> QED BY <2>1, <2>2, <2>3
<1>4. ASSUME NEW p \in People,
             OpenForm(p) \/ Answer(p) \/ SkipDescription(p) \/ EditForm(p) \/ LeaveForm(p)
      PROVE  BookActs
  <2>1. UNCHANGED <<book, bookQueue, now, ask>>
    BY <1>4 DEF OpenForm, Answer, SkipDescription, EditForm, LeaveForm, FormKept, FormOnly, campaignVars
  <2> QED BY <1>1, <2>1
<1>5. ASSUME NEW p \in People, Confirm(p) PROVE BookActs
  <2> DEFINE q == [op |-> "create", who |-> p, key |-> forms[p].key, at |-> now]
  <2>1. UNCHANGED <<book, bookQueue, now>> /\ ask[Home[p]] = NoAsk /\ HasForm(p)
    BY <1>5 DEF Confirm, campaignVars, Free
  <2>2. AsksLedger(Home[p], q) \/ UNCHANGED ask
    BY <1>5 DEF Confirm
  <2>3. q \in LedgerRequest
    BY <1>0, <2>1, FormFields DEF HasForm, LedgerRequest
  <2> HIDE DEF q
  <2> QED BY <1>1, <1>2, <2>1, <2>2, <2>3
<1>6. ASSUME NEW h \in Handlers, LeadStored(h) PROVE BookActs
  BY <1>3, <1>6, LeadActs
<1>7. ASSUME NEW h \in Handlers, LeadConverted(h) PROVE BookActs
  <2>1. /\ ask[h] = NoAsk /\ UNCHANGED salesVars
        /\ \/ UNCHANGED <<ask, reply, faults, budget, campaignVars>>
           \/ \E type, p, t : Links(h, type, p, t)
    BY <1>7, LeadActs
  <2> QED BY <1>1, <1>3, <2>1 DEF campaignVars
<1>8. ASSUME NEW h \in Handlers, RetryNext(h) PROVE BookActs
  <2>1. PICK type \in ConversionTypes, p \in People, t \in Nat, l \in SUBSET DOMAIN ledger.leads,
             d \in {0, 1} :
          /\ Links(h, type, p, t)
          /\ task' = [task EXCEPT ![h] = [at |-> "retry", left |-> l, done |-> d]]
          /\ [at |-> "retry", left |-> l, done |-> d] \in Task
    BY <1>8, LeadActs
  <2>2. ask[h] = NoAsk /\ UNCHANGED salesVars
    BY <1>8, LeadActs
  <2> QED BY <1>3, <2>1, <2>2
<1>9. ASSUME NEW h \in Handlers, LeadRefused(h) \/ RetryLinks(h) PROVE BookActs
  <2>1. UNCHANGED <<book, bookQueue, now, ask>>
    BY <1>9 DEF LeadRefused, RetryLinks, campaignVars
  <2> QED BY <1>1, <2>1
<1>10. ASSUME NEW h \in Handlers, LeadLinked(h) PROVE BookActs
  <2> DEFINE q == [op |-> "enqueue", lead |-> task[h].lead]
  <2>1. /\ UNCHANGED <<book, bookQueue, now>> /\ task[h].at = "linked" /\ ask[h] = NoAsk
        /\ AsksLedger(h, q)
    BY <1>10 DEF LeadLinked, Answered, campaignVars
  <2>2. q \in LedgerRequest
    BY <1>0, <2>1, TaskFields DEF LedgerRequest
  <2> HIDE DEF q
  <2> QED BY <1>2, <2>1, <2>2
<1>11. ASSUME NEW h \in Handlers, CustomerLinked(h) PROVE BookActs
  <2> DEFINE q == [op |-> "store", lead |-> task[h].lead, row |-> reply[h]]
  <2>1. /\ UNCHANGED <<book, bookQueue, now>> /\ task[h].at = "customer" /\ ask[h] = NoAsk
        /\ AsksLedger(h, q)
    BY <1>11 DEF CustomerLinked, Answered, campaignVars
  <2>2. reply[h] \in Nat
    BY <1>0, <2>1 DEF NamesExist
  <2>3. q \in LedgerRequest
    BY <1>0, <2>1, <2>2, TaskFields DEF LedgerRequest
  <2> HIDE DEF q
  <2> QED BY <1>2, <2>1, <2>3
<1>12. ASSUME NEW h \in Handlers, NEW q \in LedgerRequest, OperatorAsk(h, q) PROVE BookActs
  <2>1. AsksLedger(h, q) /\ UNCHANGED <<book, bookQueue, now>> /\ ask[h] = NoAsk
    BY <1>12 DEF OperatorAsk, SalesRequest, Free, campaignVars
  <2> QED BY <1>2, <2>1
<1> QED BY <1>0, <1>4, <1>5, <1>6, <1>7, <1>8, <1>9, <1>10, <1>11, <1>12, SalesActs DEF FormStep

LEMMA BookSteps ==
    ASSUME TypeInv, [Next]_vars
    PROVE  BookActs
<1> USE HandlersCall
<1>0. /\ TypeOK /\ Queued /\ ask \in [Callers -> AskType] /\ now \in Nat /\ recovering \subseteq [row : RowIds, doubt : BOOLEAN]
  BY TypeParts DEF TypeInv, RestOK, AsksOK
<1>1. ASSUME UNCHANGED <<book, bookQueue, now, ask>> PROVE BookActs
  BY <1>0, <1>1 DEF BookActs, BookStays
<1>2. CASE LedgerTransact
  <2>1. PICK c \in Callers, q \in LedgerRequest : LedgerRuns(c, q)
    BY <1>2, LedgerTransactIs
  <2>2. /\ ask'[c] = NoAsk /\ q = ask[c] /\ UNCHANGED <<book, bookQueue, now>>
        /\ \A d \in Callers : d # c => ask'[d] = ask[d]
    BY <2>1 DEF LedgerRuns, campaignVars
  <2> QED BY <1>0, <2>2, OneDocument DEF BookActs, BookStays
<1>3. ASSUME NEW h \in Handlers, Dispatch(h) \/ DispatchAgain(h) PROVE BookActs
  <2>1. UNCHANGED <<book, bookQueue, now, ask>>
    BY <1>3 DEF Dispatch, DispatchAgain, DispatchOnly, campaignVars
  <2> QED BY <1>1, <2>1
<1>4. ASSUME NEW d \in Loops, CheckRow(d) \/ NotBegun(d) \/ Deliver(d) \/ Fail(d) PROVE BookActs
  <2>1. UNCHANGED <<book, bookQueue, now>> /\ ask[d] = NoAsk /\ d \in Callers /\ d[1] \in RowIds
    BY <1>4, LoopActs DEF LoopOnly, campaignVars, Loops
  <2>2. UNCHANGED ask \/ \E q \in LedgerRequest : AsksLedger(d, q)
    BY <1>4, <2>1, LoopActs, MarkRequests
  <2>3. ASSUME NEW q \in LedgerRequest, AsksLedger(d, q) PROVE BookStays
    BY <1>0, <2>1, <2>3, LedgerRequestIsNoBookRequest
  <2> QED BY <1>1, <2>1, <2>2, <2>3 DEF BookActs
<1>5. CASE Crash
  BY <1>5 DEF Crash, Restarted, BookActs, BookForgets
<1>6. ASSUME NEW e \in recovering, Recover(e) PROVE BookActs
  <2>1. UNCHANGED <<book, bookQueue, now>> /\ ask[Boot] = NoAsk /\ e.row \in RowIds
    BY <1>0, <1>6 DEF Recover, campaignVars
  <2>2. UNCHANGED ask \/ \E q \in LedgerRequest : AsksLedger(Boot, q)
    BY <1>6, <2>1, MarkRequests DEF Recover, Marks
  <2>3. ASSUME NEW q \in LedgerRequest, AsksLedger(Boot, q) PROVE BookStays
    BY <1>0, <2>1, <2>3, LedgerRequestIsNoBookRequest
  <2> QED BY <1>1, <2>1, <2>2, <2>3 DEF BookActs
<1>7. CASE UNCHANGED vars
  BY <1>1, <1>7 DEF vars, campaignVars, sharedVars
<1> QED BY <1>2, <1>3, <1>4, <1>5, <1>6, <1>7, CampaignBook, SalesBook DEF Next

-----------------------------------------------------------------------------
(* What a transaction makes of the events *)

LEMMA EventsChange ==
    ASSUME book \in Book, NEW q \in BookRequest, NEW n, BookResultOf(q, n),
           q.op = "correct" => q.row \in DOMAIN book.conversions
    PROVE  \/ n.events = book.events /\ n.touched = book.touched
           \/ \E e : /\ Adds(book, n, e) /\ e.at = q.at /\ q.op \in TimedOps
                     /\ e.type \in {"START", "ALERT_CREATED", "CHANNEL_JOIN"}
                     /\ e.who = q.who /\ q.who \in People
                     /\ e.type = "START" => ~ HasEvent(book, "START", e.campaign, e.who)
                     /\ IF e.type \in TouchStages /\ e.campaign # None
                        THEN /\ e.campaign \in Campaigns
                             /\ n.touched = [book.touched EXCEPT ![q.who] = Later(@, e.campaign, e.at)]
                        ELSE n.touched = book.touched
           \/ \E e : Prunes(book, n, e) /\ e.at = q.at /\ q.op \in TimedOps /\ n.touched = book.touched
<1>0. book.events \in Seq(Event)
  BY BookParts
<1>1. CASE q.op = "start"
  <2> DEFINE e == [type |-> "START", campaign |-> q.campaign, who |-> q.who, at |-> q.at, key |-> None]
  <2>1. n = Started(book, q)
    BY <1>1 DEF BookResultOf
  <2>2. CASE HasEvent(book, "START", q.campaign, q.who)
    BY <1>1, <2>1, <2>2, StartedIs
  <2>3. CASE ~ HasEvent(book, "START", q.campaign, q.who)
    <3>1. /\ e \in Event /\ n.events = Append(book.events, e)
          /\ n.touched = [book.touched EXCEPT ![q.who] = Later(@, q.campaign, q.at)]
      BY <1>1, <2>1, <2>3, StartedIs
    <3>2. q.campaign \in Campaigns /\ q.campaign # None /\ q.who \in People
      BY <1>1, BookFields, CampaignsAssumption
    <3>3. e.type = "START" /\ e.campaign = q.campaign /\ e.who = q.who /\ e.at = q.at
      OBVIOUS
    <3>4. Adds(book, n, e)
      BY <1>0, <3>1 DEF Adds
    <3> HIDE DEF e
    <3>5. /\ e.at = q.at /\ q.op \in TimedOps /\ e.type \in {"START", "ALERT_CREATED", "CHANNEL_JOIN"}
          /\ e.who = q.who /\ q.who \in People
          /\ e.type = "START" => ~ HasEvent(book, "START", e.campaign, e.who)
      BY <1>1, <2>3, <3>2, <3>3 DEF TimedOps
    <3>6. e.type \in TouchStages /\ e.campaign # None /\ e.campaign \in Campaigns
          /\ n.touched = [book.touched EXCEPT ![q.who] = Later(@, e.campaign, e.at)]
      BY <3>1, <3>2, <3>3 DEF TouchStages
    <3> QED BY <3>4, <3>5, <3>6
  <2> QED BY <2>2, <2>3
<1>2. CASE q.op = "alert"
  <2> DEFINE e == [type |-> "ALERT_CREATED", campaign |-> q.campaign, who |-> q.who, at |-> q.at,
                   key |-> q.key]
  <2>1. n = Alerted(book, q)
    BY <1>2 DEF BookResultOf
  <2>2. n.touched = book.touched /\ (n.events = book.events \/ Adds(book, n, e))
    BY <1>0, <1>2, <2>1, AlertedIs DEF Adds
  <2>3. e.type = "ALERT_CREATED" /\ e.who = q.who /\ e.at = q.at
    OBVIOUS
  <2> HIDE DEF e
  <2>4. /\ e.at = q.at /\ q.op \in TimedOps /\ e.type \in {"START", "ALERT_CREATED", "CHANNEL_JOIN"}
        /\ e.who = q.who /\ q.who \in People /\ e.type # "START" /\ e.type \notin TouchStages
    BY <1>2, <2>3, BookFields DEF TimedOps, TouchStages
  <2> QED BY <2>2, <2>4
<1>3. CASE q.op = "observe"
  <2> DEFINE e == [type |-> "CHANNEL_JOIN", campaign |-> q.campaign, who |-> q.who, at |-> q.at,
                   key |-> None]
  <2>1. n = Observed(book, q)
    BY <1>3 DEF BookResultOf
  <2>2. q.who \in People /\ q.campaign \in Campaigns \cup {None} /\ q.transition \in BOOLEAN
    BY <1>3, BookFields DEF Credited
  <2>3. /\ ~ q.transition => n.events = book.events /\ n.touched = book.touched
        /\ q.transition => Adds(book, n, e)
        /\ q.transition /\ q.campaign = None => n.touched = book.touched
        /\ q.transition /\ q.campaign # None =>
              n.touched = [book.touched EXCEPT ![q.who] = Later(@, q.campaign, q.at)]
    BY <1>0, <1>3, <2>1, ObservedIs DEF Adds
  <2>4. e.type = "CHANNEL_JOIN" /\ e.who = q.who /\ e.at = q.at /\ e.campaign = q.campaign
    OBVIOUS
  <2> HIDE DEF e
  <2>5. /\ e.at = q.at /\ q.op \in TimedOps /\ e.type \in {"START", "ALERT_CREATED", "CHANNEL_JOIN"}
        /\ e.who = q.who /\ q.who \in People /\ e.type # "START" /\ e.type \in TouchStages
    BY <1>3, <2>2, <2>4 DEF TimedOps, TouchStages
  <2>6. CASE q.transition
    <3>1. IF e.type \in TouchStages /\ e.campaign # None
          THEN /\ e.campaign \in Campaigns
               /\ n.touched = [book.touched EXCEPT ![q.who] = Later(@, e.campaign, e.at)]
          ELSE n.touched = book.touched
      <4>1. CASE q.campaign = None
        BY <2>3, <2>4, <2>6, <4>1
      <4>2. CASE q.campaign # None
        <5>1. n.touched = [book.touched EXCEPT ![q.who] = Later(@, e.campaign, e.at)]
          BY <2>3, <2>4, <2>6, <4>2
        <5>2. e.campaign \in Campaigns /\ e.campaign # None
          BY <2>2, <2>4, <4>2
        <5> QED BY <2>5, <5>1, <5>2
      <4> QED BY <4>1, <4>2
    <3> QED BY <2>3, <2>5, <2>6, <3>1
  <2> QED BY <2>2, <2>3, <2>6
<1>4. CASE q.op = "click"
  <2> DEFINE e == [type |-> "CLICK", campaign |-> q.campaign, who |-> None, at |-> q.at, key |-> None]
  <2>1. n = Clicked(book, q)
    BY <1>4 DEF BookResultOf
  <2>2. Prunes(book, n, e) /\ n.touched = book.touched
    <3>1. e.type = "CLICK" /\ e.who = None
      OBVIOUS
    <3> QED BY <1>0, <1>4, <2>1, <3>1, ClickedIs DEF Prunes
  <2>3. e.at = q.at
    OBVIOUS
  <2> QED BY <1>4, <2>2, <2>3 DEF TimedOps
<1>5. CASE q.op = "register"
  BY <1>5, RegisteredIs DEF BookResultOf
<1>6. CASE q.op = "correct"
  BY <1>6, CorrectedIs DEF BookResultOf
<1>7. CASE q.op = "import"
  BY <1>7, ImportedIs DEF BookResultOf
<1>8. CASE q.op \in {"status", "describe", "refuse"}
  BY <1>8 DEF BookResultOf
<1> QED BY <1>1, <1>2, <1>3, <1>4, <1>5, <1>6, <1>7, <1>8, BookFields DEF BookOps

\* The same, without what is only said of the touches.
LEMMA EventsAreKept ==
    ASSUME book \in Book, NEW q \in BookRequest, NEW n, BookResultOf(q, n),
           q.op = "correct" => q.row \in DOMAIN book.conversions
    PROVE  /\ Keeps(book, n)
           /\ EventsOK(book) => EventsOK(n)
<1>0. book.events \in Seq(Event)
  BY BookParts
<1>1. CASE n.events = book.events /\ n.touched = book.touched
  BY <1>1 DEF Keeps, EventsOK
<1>2. ASSUME NEW e, Adds(book, n, e), e.type \in {"START", "ALERT_CREATED", "CHANNEL_JOIN"}
      PROVE  Keeps(book, n) /\ (EventsOK(book) => EventsOK(n))
  BY <1>0, <1>2, AppendIs DEF Keeps, EventsOK, Adds
<1>3. ASSUME NEW e, Prunes(book, n, e) PROVE Keeps(book, n) /\ (EventsOK(book) => EventsOK(n))
  <2> DEFINE E == Append(book.events, e)
  <2>1. /\ DOMAIN E = 1 .. Len(book.events) + 1 /\ DOMAIN book.events = 1 .. Len(book.events)
        /\ E[Len(book.events) + 1] = e /\ \A i \in 1 .. Len(book.events) : E[i] = book.events[i]
        /\ \A i \in 1 .. Len(book.events) + 1 : i \in 1 .. Len(book.events) \/ i = Len(book.events) + 1
        /\ \A i \in 1 .. Len(book.events) : i \in 1 .. Len(book.events) + 1
    BY <1>0, <1>3, AppendIs DEF Prunes
  <2>2. /\ DOMAIN n.events = DOMAIN E /\ e.type = "CLICK" /\ e.who = None
        /\ \A i \in DOMAIN n.events : n.events[i] = E[i] \/ (E[i].type = "CLICK" /\ n.events[i] = Gone)
    BY <1>3 DEF Prunes
  <2> HIDE DEF E
  <2>3. Keeps(book, n)
    BY <2>1, <2>2 DEF Keeps
  <2>4. Gone.who = None /\ Gone.type = "GONE"
    BY DEF Gone
  <2>5. ASSUME EventsOK(book), NEW i \in DOMAIN n.events
        PROVE  /\ n.events[i].type \in {"CLICK", "GONE"} => n.events[i].who = None
               /\ n.events[i].type = "GONE" => n.events[i] = Gone
    BY <2>1, <2>2, <2>4, <2>5 DEF EventsOK
  <2> QED BY <2>3, <2>5 DEF EventsOK
<1> QED BY <1>1, <1>2, <1>3, EventsChange

-----------------------------------------------------------------------------
(* Credit *)

LEMMA EarnedIsKept ==
    ASSUME NEW b, NEW n, Keeps(b, n), NEW p, NEW c, NEW t, Earned(b, p, c, t)
    PROVE  Earned(n, p, c, t)
BY DEF Keeps, Earned

LEMMA ConversionsAreMade ==
    ASSUME book \in Book, NEW q \in BookRequest, NEW n, BookResultOf(q, n),
           q.op = "correct" => q.row \in DOMAIN book.conversions
    PROVE  ConversionMade(book, n, q) /\ Grows(book, n)
<1>0. book.conversions \in Seq(ConversionRecord) /\ DOMAIN book.conversions = 1 .. Len(book.conversions)
  BY BookParts
<1>1. CASE n.conversions = book.conversions
  BY <1>1 DEF ConversionMade, Grows
<1>2. CASE q.op = "register"
  <2>1. PICK k \in ConversionRecord :
          /\ n.conversions = Append(book.conversions, k)
          /\ k.who = q.who /\ k.at = q.at /\ k.campaign = q.campaign
    BY <1>2, RegisteredIs DEF BookResultOf
  <2> QED BY <1>0, <1>2, <2>1, AppendIs DEF ConversionMade, Grows
<1>3. CASE q.op = "correct"
  <2>1. n = book \/ Replaced(book, n, q)
    BY <1>3, CorrectedIs DEF BookResultOf
  <2>2. CASE Replaced(book, n, q)
    BY <1>3, <2>2 DEF Replaced, ConversionMade, Grows
  <2> QED BY <1>1, <2>1, <2>2
<1>4. CASE q.op \notin {"register", "correct"}
  <2>1. CASE q.op \in {"status", "describe", "refuse"}
    BY <1>1, <2>1 DEF BookResultOf
  <2>2. CASE q.op = "start"
    BY <1>1, <2>2, StartedIs DEF BookResultOf
  <2>3. CASE q.op = "alert"
    BY <1>1, <2>3, AlertedIs DEF BookResultOf
  <2>4. CASE q.op = "observe"
    BY <1>1, <2>4, ObservedIs DEF BookResultOf
  <2>5. CASE q.op = "click"
    BY <1>1, <2>5, ClickedIs DEF BookResultOf
  <2>6. CASE q.op = "import"
    BY <1>1, <2>6, ImportedIs DEF BookResultOf
  <2> QED BY <1>4, <2>1, <2>2, <2>3, <2>4, <2>5, <2>6, BookFields DEF BookOps
<1> QED BY <1>2, <1>3, <1>4

LEMMA CreditRuns ==
    ASSUME TypeInv, CreditInv, NEW c \in Callers, NEW q \in BookRequest, BookRuns(c, q)
    PROVE  CreditInv'
<1>0. TypeOK /\ NamesExist /\ book \in Book /\ q = ask[c]
  BY DEF TypeInv, TypeOK, BookRuns
<1>1. q.op = "correct" => q.row \in DOMAIN book.conversions
  BY <1>0 DEF NamesExist
<1>2. /\ ask'[c] = NoAsk /\ \A d \in Callers : d # c => ask'[d] = ask[d]
      /\ book' = BookResult(q) \/ UNCHANGED book
  BY DEF BookRuns
<1>3. NoAsk.op = "none"
  BY OneDocument
<1>4. CASE UNCHANGED book
  BY <1>2, <1>3, <1>4 DEF CreditInv, AsksEarned
<1>5. CASE book' = BookResult(q)
  <2>1. BookResultOf(q, book')
    BY <1>0, <1>1, <1>5, BookResultIs
  <2> DEFINE n == book'
  <2>2. Keeps(book, n) /\ EventsOK(n)
    BY <1>0, <1>1, <2>1, EventsAreKept DEF CreditInv
  <2>3. ConversionMade(book, n, q) /\ Grows(book, n)
    BY <1>0, <1>1, <2>1, ConversionsAreMade
  <2>4. ASSUME NEW i \in DOMAIN n.conversions, n.conversions[i].campaign # None
        PROVE  Earned(n, n.conversions[i].who, n.conversions[i].campaign, n.conversions[i].at)
    <3>1. Earned(book, n.conversions[i].who, n.conversions[i].campaign, n.conversions[i].at)
      BY <1>0, <2>3, <2>4 DEF CreditInv, CreditOK, AsksEarned, ConversionMade
    <3> QED BY <2>2, <3>1, EarnedIsKept
  <2>5. CreditOK(n)
    BY <2>4 DEF CreditOK
  <2>6. ASSUME NEW d \in Callers, ask'[d].op = "register", ask'[d].campaign # None
        PROVE  Earned(n, ask'[d].who, ask'[d].campaign, ask'[d].at)
    <3>1. d # c /\ ask'[d] = ask[d]
      BY <1>2, <1>3, <2>6
    <3>2. Earned(book, ask[d].who, ask[d].campaign, ask[d].at)
      BY <2>6, <3>1 DEF CreditInv, AsksEarned
    <3> QED BY <2>2, <3>1, <3>2, EarnedIsKept
  <2>7. ASSUME NEW d \in Callers, ask'[d].op = "correct", ask'[d].campaign # None
        PROVE  Earned(n, n.conversions[ask'[d].row].who, ask'[d].campaign, ask'[d].at)
    <3>1. d # c /\ ask'[d] = ask[d]
      BY <1>2, <1>3, <2>7
    <3>2. Earned(book, book.conversions[ask[d].row].who, ask[d].campaign, ask[d].at)
      BY <2>7, <3>1 DEF CreditInv, AsksEarned
    <3>3. n.conversions[ask[d].row].who = book.conversions[ask[d].row].who
      BY <1>0, <2>3, <2>7, <3>1 DEF NamesExist, Grows
    <3> QED BY <2>2, <3>1, <3>2, <3>3, EarnedIsKept
  <2> QED BY <2>2, <2>5, <2>6, <2>7 DEF CreditInv, AsksEarned
<1> QED BY <1>2, <1>4, <1>5

LEMMA CreditStep ==
    ASSUME TypeInv, CreditInv, [Next]_vars
    PROVE  CreditInv'
<1>0. /\ book \in Book /\ ask \in [Callers -> AskType] /\ NamesExist
  BY DEF TypeInv, TypeOK, AskType
<1>00. NoAsk.op = "none"
  BY OneDocument
<1>1. CASE BookStays
  <2>1. UNCHANGED book
    BY <1>1 DEF BookStays
  <2>2. ASSUME NEW d \in Callers, ask'[d].op \in {"register", "correct"} PROVE ask'[d] = ask[d]
    <3>1. ask' \in [Callers -> AskType]
      BY TypeInvStep DEF TypeInv, TypeOK, AskType
    <3>2. ask'[d] \notin LedgerRequest
      BY <2>2, LedgerFields DEF LedgerOps
    <3>3. ask'[d] \in BookRequest
      BY <1>00, <2>2, <3>1, <3>2 DEF AskType
    <3> QED BY <1>1, <3>3 DEF BookStays
  <2> QED BY <2>1, <2>2 DEF CreditInv, AsksEarned
<1>2. ASSUME NEW c \in Callers, NEW q \in BookRequest, BookAsks(c, q) PROVE CreditInv'
  <2>1. UNCHANGED book /\ ask'[c] = q /\ (\A d \in Callers : d # c => ask'[d] = ask[d]) /\ SoundAsk(q)
    BY <1>2 DEF BookAsks
  <2>2. q.op = "register" /\ q.campaign # None => Earned(book, q.who, q.campaign, q.at)
    BY <1>0, <2>1, CreditIsEarnedNow, BookFields DEF SoundAsk, CreditInv
  <2>3. q.op = "correct" /\ q.campaign # None =>
          Earned(book, book.conversions[q.row].who, q.campaign, q.at)
    <3>1. q.op = "correct" => book.conversions[q.row].who \in People /\ q.at \in Nat
      BY <1>0, <2>1, BookParts, ConversionFields, BookFields DEF SoundAsk
    <3> QED BY <1>0, <2>1, <3>1, CreditIsEarnedNow DEF SoundAsk, CreditInv
  <2> QED BY <2>1, <2>2, <2>3 DEF CreditInv, AsksEarned
<1>3. CASE BookForgets
  BY <1>00, <1>3 DEF BookForgets, CreditInv, AsksEarned
<1> QED BY <1>1, <1>2, <1>3, BookSteps, CreditRuns DEF BookActs

LEMMA NothingHappenedYet ==
    ASSUME Init
    PROVE  /\ book \in Book /\ book.events = <<>> /\ book.imports = <<>> /\ bookQueue = <<>>
           /\ book.touched = [p \in People |-> NoTouch] /\ now = 1
           /\ ask = [c \in Callers |-> NoAsk]
           /\ \A i \in DOMAIN book.conversions :
                /\ book.conversions[i].campaign = None /\ book.conversions[i].status = "ACTIVE"
                /\ book.conversions[i].from = 0
<1>1. /\ ask = [c \in Callers |-> NoAsk] /\ bookQueue = <<>> /\ now = 1
      /\ book = [NoBook EXCEPT !.status = [c \in Campaigns |-> "ACTIVE"]] \/ book = OldBook
  BY DEF Init, CampaignStart
<1>2. CASE book = [NoBook EXCEPT !.status = [c \in Campaigns |-> "ACTIVE"]]
  <2>1. "ACTIVE" \in CampaignStatus
    BY DEF CampaignStatus
  <2>2. /\ book \in Book /\ book.events = <<>> /\ book.conversions = <<>> /\ book.imports = <<>>
        /\ book.touched = [p \in People |-> NoTouch]
    BY <1>2, <2>1, EmptyBookIs
  <2> QED BY <1>1, <2>2
<1>3. CASE book = OldBook
  BY <1>1, <1>3, OldBookIs
<1> QED BY <1>1, <1>2, <1>3

LEMMA CreditStart == Init => CreditInv
<1> SUFFICES ASSUME Init PROVE CreditInv
  OBVIOUS
<1> QED BY NothingHappenedYet, OneDocument DEF CreditInv, EventsOK, CreditOK, AsksEarned

(* A conversion is credited to a campaign only if a touch of that person is     *)
(* there to show it, no later and no older than the window: whatever is         *)
(* recorded, pruned or corrected between the decision and the transaction, the   *)
(* touch a request that waits rests on stays in its place (decideAttribution,     *)
(* registerConversion, correctConversion, pruneClicks).                          *)
THEOREM EveryCreditIsEarned == Spec => []CreditIsEarned
<1>1. CreditInv => CreditIsEarned
  BY DEF CreditInv, CreditOK, CreditIsEarned, Earned
<1> QED BY <1>1, TypeInvStart, TypeInvStep, CreditStart, CreditStep, PTL DEF Spec

-----------------------------------------------------------------------------
(* History *)

LEMMA ChainResult ==
    ASSUME book \in Book, ChainInv, NEW q \in BookRequest, NEW n, BookResultOf(q, n),
           q.op = "correct" => q.row \in DOMAIN book.conversions
    PROVE  ChainOK(n) /\ ImportsOK(n)
<1>0. /\ book.conversions \in Seq(ConversionRecord) /\ DOMAIN book.conversions = 1 .. Len(book.conversions)
      /\ ChainOK(book) /\ ImportsOK(book)
  BY BookParts DEF ChainInv
<1>1. CASE n.conversions = book.conversions /\ n.imports = book.imports
  BY <1>0, <1>1 DEF ChainOK, ImportsOK
<1>2. CASE q.op = "register"
  <2>1. PICK k \in ConversionRecord :
          /\ n.conversions = Append(book.conversions, k) /\ n.imports = book.imports
          /\ k.status = "ACTIVE" /\ k.from = 0
    BY <1>2, RegisteredIs DEF BookResultOf
  <2> DEFINE C == book.conversions
             D == n.conversions
             m == Len(C) + 1
  <2>2. /\ DOMAIN D = 1 .. m /\ DOMAIN C = 1 .. Len(C) /\ D[m] = k
        /\ \A i \in DOMAIN C : i \in 1 .. m /\ D[i] = C[i]
        /\ \A i \in 1 .. m : i \in DOMAIN C \/ i = m
    BY <1>0, <2>1, AppendIs
  <2> HIDE DEF m, D
  <2>3. ChainOK(n)
    BY <1>0, <2>1, <2>2 DEF ChainOK, D
  <2> QED BY <1>0, <2>1, <2>3 DEF ImportsOK
<1>3. CASE q.op = "correct"
  <2>1. n.imports = book.imports /\ (n = book \/ Replaced(book, n, q))
    BY <1>3, CorrectedIs DEF BookResultOf
  <2>2. CASE Replaced(book, n, q)
    <3> DEFINE C == book.conversions
               D == n.conversions
               i == q.row
               m == Len(C) + 1
    <3>1. /\ C[i].status = "ACTIVE" /\ i \in DOMAIN C /\ i # 0
          /\ DOMAIN D = 1 .. m /\ m \notin DOMAIN C
          /\ \A j \in 1 .. m : j \in DOMAIN C \/ j = m
          /\ \A j \in DOMAIN C : j \in 1 .. m /\ (j # i => D[j] = C[j])
          /\ D[i].type = C[i].type /\ D[i].who = C[i].who /\ D[i].from = C[i].from
          /\ D[i].status = "CORRECTED" /\ D[i].by = m
          /\ D[m].type = C[i].type /\ D[m].who = C[i].who /\ D[m].status = "ACTIVE" /\ D[m].from = i
      BY <1>0, <1>3, <2>2 DEF Replaced
    <3>2. m \in 1 .. m
      BY <1>0, BookParts
    <3>3. \A j \in DOMAIN C :
            /\ C[j].status = "CORRECTED" =>
                /\ C[j].by \in DOMAIN C /\ C[C[j].by].from = j
                /\ C[C[j].by].who = C[j].who /\ C[C[j].by].type = C[j].type
            /\ C[j].from # 0 =>
                /\ C[j].from \in DOMAIN C
                /\ C[C[j].from].status = "CORRECTED" /\ C[C[j].from].by = j
      BY <1>0 DEF ChainOK
    <3> HIDE DEF m, D, C, i
    <3>4. ASSUME NEW j \in 1 .. m, D[j].status = "CORRECTED"
          PROVE  /\ D[j].by \in 1 .. m /\ D[D[j].by].from = j
                 /\ D[D[j].by].who = D[j].who /\ D[D[j].by].type = D[j].type
      <4>1. CASE j = i
        BY <3>1, <3>2, <4>1
      <4>2. CASE j # i
        <5>1. j \in DOMAIN C /\ D[j] = C[j]
          BY <3>1, <3>4, <4>2
        <5>2. /\ C[j].by \in DOMAIN C /\ C[C[j].by].from = j
              /\ C[C[j].by].who = C[j].who /\ C[C[j].by].type = C[j].type
          BY <3>3, <3>4, <5>1
        <5>3. /\ D[C[j].by].from = C[C[j].by].from /\ D[C[j].by].who = C[C[j].by].who
              /\ D[C[j].by].type = C[C[j].by].type
          BY <3>1, <5>2
        <5> QED BY <3>1, <5>1, <5>2, <5>3
      <4> QED BY <4>1, <4>2
    <3>5. ASSUME NEW j \in 1 .. m, D[j].from # 0
          PROVE  D[j].from \in 1 .. m /\ D[D[j].from].status = "CORRECTED" /\ D[D[j].from].by = j
      <4>1. CASE j = m
        BY <3>1, <4>1
      <4>2. CASE j # m
        <5>1. j \in DOMAIN C /\ D[j].from = C[j].from
          BY <3>1, <3>5, <4>2
        <5>2. C[j].from \in DOMAIN C /\ C[C[j].from].status = "CORRECTED" /\ C[C[j].from].by = j
          BY <3>3, <3>5, <5>1
        <5>3. C[j].from # i
          BY <3>1, <5>2
        <5> QED BY <3>1, <5>1, <5>2, <5>3
      <4> QED BY <4>1, <4>2
    <3>6. DOMAIN n.conversions = 1 .. m
      BY <3>1 DEF D
    <3>7. ChainOK(n)
      BY <3>4, <3>5, <3>6 DEF ChainOK, D
    <3> QED BY <1>0, <2>1, <3>7 DEF ImportsOK
  <2> QED BY <1>1, <2>1, <2>2
<1>4. CASE q.op = "import"
  <2> DEFINE I == book.imports
             J == n.imports
             m == Len(I) + 1
             newest(i) == I[i].key = q.key /\ \A j \in DOMAIN I : I[j].key = q.key => j <= i
  <2>1. /\ n.conversions = book.conversions /\ m \in Nat /\ DOMAIN I = 1 .. m - 1
        /\ DOMAIN J = 1 .. m /\ m \notin DOMAIN I
        /\ \A i \in 1 .. m : i \in DOMAIN I \/ i = m
        /\ J[m].key = q.key /\ J[m].status = "ACTIVE"
        /\ \A i \in DOMAIN I : /\ J[i].key = I[i].key
                               /\ newest(i) => J[i].status = "SUPERSEDED"
                               /\ ~ newest(i) => J[i].status = I[i].status
    BY <1>0, <1>4, ImportedIs DEF BookResultOf
  <2>2. \A i \in DOMAIN I : I[i].status = "ACTIVE" <=> \A j \in DOMAIN I : I[j].key = I[i].key => j <= i
    BY <1>0 DEF ImportsOK
  <2> HIDE DEF I, J, m
  <2>3. \A i \in DOMAIN I : i < m /\ i \in 1 .. m
    BY <2>1
  <2>4. m \in 1 .. m /\ \A i \in 1 .. m : i <= m
    <3>1. m # 0
      BY DEF m, I, BookParts
    <3> QED BY <2>1, <3>1
  <2>5. ASSUME NEW i \in DOMAIN J
        PROVE  J[i].status = "ACTIVE" <=> \A j \in DOMAIN J : J[j].key = J[i].key => j <= i
    <3>1. CASE i = m
      BY <2>1, <2>4, <3>1
    <3>2. CASE i \in DOMAIN I /\ I[i].key = q.key
      <4>1. J[i].status # "ACTIVE"
        BY <2>1, <2>2, <3>2
      <4>2. m \in DOMAIN J /\ J[m].key = J[i].key /\ ~ (m <= i)
        BY <2>1, <2>3, <2>4, <3>2
      <4> QED BY <4>1, <4>2
    <3>3. CASE i \in DOMAIN I /\ I[i].key # q.key
      <4>1. J[i].status = I[i].status /\ J[i].key = I[i].key
        BY <2>1, <3>3
      <4>2. (\A j \in DOMAIN J : J[j].key = J[i].key => j <= i)
            <=> \A j \in DOMAIN I : I[j].key = I[i].key => j <= i
        BY <2>1, <2>3, <3>3, <4>1
      <4> QED BY <2>2, <3>3, <4>1, <4>2
    <3> QED BY <2>1, <3>1, <3>2, <3>3
  <2>6. ImportsOK(n)
    BY <2>5 DEF ImportsOK, J
  <2> QED BY <1>0, <2>1, <2>6 DEF ChainOK
<1>5. CASE q.op \notin {"register", "correct", "import"}
  <2>1. CASE q.op \in {"status", "describe", "refuse"}
    BY <1>1, <2>1 DEF BookResultOf
  <2>2. CASE q.op = "start"
    BY <1>1, <2>2, StartedIs DEF BookResultOf
  <2>3. CASE q.op = "alert"
    BY <1>1, <2>3, AlertedIs DEF BookResultOf
  <2>4. CASE q.op = "observe"
    BY <1>1, <2>4, ObservedIs DEF BookResultOf
  <2>5. CASE q.op = "click"
    BY <1>1, <2>5, ClickedIs DEF BookResultOf
  <2> QED BY <1>5, <2>1, <2>2, <2>3, <2>4, <2>5, BookFields DEF BookOps
<1> QED BY <1>2, <1>3, <1>4, <1>5

LEMMA ChainStep ==
    ASSUME TypeInv, ChainInv, [Next]_vars
    PROVE  ChainInv'
<1>0. TypeOK /\ NamesExist /\ book \in Book
  BY DEF TypeInv, TypeOK
<1>1. ASSUME UNCHANGED book PROVE ChainInv'
  BY <1>1 DEF ChainInv
<1>2. ASSUME NEW c \in Callers, NEW q \in BookRequest, BookRuns(c, q) PROVE ChainInv'
  <2>1. q = ask[c] /\ (book' = BookResult(q) \/ UNCHANGED book)
    BY <1>2 DEF BookRuns
  <2>2. q.op = "correct" => q.row \in DOMAIN book.conversions
    BY <1>0, <2>1 DEF NamesExist
  <2>3. CASE book' = BookResult(q)
    <3>1. BookResultOf(q, book')
      BY <1>0, <2>2, <2>3, BookResultIs
    <3> QED BY <1>0, <2>2, <3>1, ChainResult DEF ChainInv
  <2> QED BY <1>1, <2>1, <2>3
<1> QED BY <1>1, <1>2, BookSteps DEF BookActs, BookStays, BookAsks, BookForgets

LEMMA ChainStart == Init => ChainInv
BY NothingHappenedYet DEF ChainInv, ChainOK, ImportsOK

LEMMA ChainIsHistory ==
    ASSUME book \in Book, ChainInv
    PROVE  HistoryIsAChain
<1>1. ASSUME NEW i \in DOMAIN book.conversions
      PROVE  LET k == book.conversions[i]
                 n == book.conversions[k.by]
                 o == book.conversions[k.from]
             IN /\ k.status = "CORRECTED" => n.from = i /\ n.who = k.who /\ n.type = k.type
                /\ k.from # 0 => o.status = "CORRECTED" /\ o.by = i
  BY DEF ChainInv, ChainOK
<1>2. ASSUME NEW k \in Aggregates,
             NEW S, S = Indices(book.imports, LAMBDA r : r.key = k), S # {}
      PROVE  Cardinality({i \in S : book.imports[i].status = "ACTIVE"}) = 1
  <2>1. S = {i \in DOMAIN book.imports : book.imports[i].key = k}
    BY <1>2 DEF Indices
  <2>2. S \in SUBSET (1 .. Len(book.imports)) /\ Len(book.imports) \in Nat
    BY <2>1, BookParts
  <2>3. Max(S) \in S /\ \A j \in S : j <= Max(S)
    BY <1>2, <2>2, MaxIsIn
  <2>4. ASSUME NEW i \in S PROVE book.imports[i].status = "ACTIVE" <=> i = Max(S)
    <3>1. book.imports[i].status = "ACTIVE" <=>
            \A j \in DOMAIN book.imports : book.imports[j].key = book.imports[i].key => j <= i
      BY <2>1 DEF ChainInv, ImportsOK
    <3>2. book.imports[i].status = "ACTIVE" <=> \A j \in S : j <= i
      BY <2>1, <3>1
    <3>3. (\A j \in S : j <= i) <=> i = Max(S)
      <4> DEFINE m == Max(S)
      <4>0. \A j \in 1 .. Len(book.imports) : j \in Nat
        BY <2>2
      <4>1. m \in S /\ m \in Nat /\ i \in Nat /\ \A j \in S : j \in Nat /\ j <= m
        BY <2>2, <2>3, <4>0, Zenon
      <4> HIDE DEF m
      <4>2. (\A j \in S : j <= i) => i = m
        BY <4>1
      <4>3. (\A j \in S : j <= i) <=> i = m
        BY <4>1, <4>2
      <4> QED BY <4>3 DEF m
    <3> QED BY <3>2, <3>3
  <2>5. {i \in S : book.imports[i].status = "ACTIVE"} = {Max(S)}
    BY <2>3, <2>4
  <2> QED BY <2>5, FS_Singleton
<1> QED BY <1>1, <1>2 DEF HistoryIsAChain

(* Whoever corrects or imports at the same time, a conversion is replaced by the *)
(* one row made from it, of the same person and type, every row made from        *)
(* another replaces it, and of the numbers of a period one is in force: the       *)
(* transaction decides on the document it finds, not on what the request saw      *)
(* (correctConversion, importAggregate).                                          *)
THEOREM HistoryStaysAChain == Spec => []HistoryIsAChain
<1>1. TypeInv /\ ChainInv => HistoryIsAChain
  BY ChainIsHistory DEF TypeInv, TypeOK
<1> QED BY <1>1, TypeInvStart, TypeInvStep, ChainStart, ChainStep, PTL DEF Spec

-----------------------------------------------------------------------------
(* Time *)

LEMMA TimeGoesOn ==
    ASSUME book \in Book, NEW q \in BookRequest, NEW n, BookResultOf(q, n), n \in Book,
           q.op = "correct" => q.row \in DOMAIN book.conversions,
           Ordered(book.events), q.op \in TimedOps => Until(book.events, q.at)
    PROVE  /\ Ordered(n.events)
           /\ \A u \in Nat : Until(book.events, u) /\ (q.op \in TimedOps => q.at <= u) => Until(n.events, u)
<1> DEFINE B == book.events
           m == Len(B) + 1
<1>0. /\ B \in Seq(Event) /\ Len(B) \in Nat /\ DOMAIN B = 1 .. Len(B) /\ m \in Nat
      /\ \A i \in DOMAIN B : B[i] \in Event /\ B[i].at \in Nat
  BY BookParts, EventFields
<1>1. CASE n.events = B
  BY <1>1
<1>2. ASSUME NEW e \in Event, e.at = q.at, q.op \in TimedOps,
             DOMAIN n.events = DOMAIN Append(B, e),
             \A i \in DOMAIN n.events : \/ n.events[i] = Append(B, e)[i]
                                        \/ n.events[i] = Gone
      PROVE  /\ Ordered(n.events)
             /\ \A u \in Nat : Until(B, u) /\ q.at <= u => Until(n.events, u)
  <2> DEFINE E == Append(B, e)
             N == n.events
  <2>1. /\ DOMAIN E = 1 .. m /\ E[m] = e /\ \A i \in DOMAIN B : E[i] = B[i] /\ i < m
        /\ \A i \in 1 .. m : i \in DOMAIN B \/ i = m
    BY <1>0, AppendIs
  <2>2. Until(B, q.at) /\ e.at \in Nat /\ q.at \in Nat
    BY <1>2, EventFields
  <2>3. \A i \in 1 .. m : E[i].at \in Nat /\ E[i].at <= q.at
    BY <1>0, <1>2, <2>1, <2>2 DEF Until
  <2>4. \A i, j \in 1 .. m : i <= j /\ E[i].type # "GONE" /\ E[j].type # "GONE" => E[i].at <= E[j].at
    <3>1. ASSUME NEW i \in 1 .. m, NEW j \in 1 .. m, i <= j, E[i].type # "GONE", E[j].type # "GONE"
          PROVE  E[i].at <= E[j].at
      <4>1. CASE j = m
        BY <1>2, <2>1, <2>3, <4>1
      <4>2. CASE j # m
        <5>1. j \in DOMAIN B /\ i \in DOMAIN B
          BY <1>0, <2>1, <3>1, <4>2
        <5> QED BY <2>1, <3>1, <5>1 DEF Ordered
      <4> QED BY <4>1, <4>2
    <3> QED BY <3>1
  <2>5. Gone.type = "GONE" /\ Gone.at = 0
    BY DEF Gone
  <2>6. DOMAIN N = 1 .. m /\ \A i \in 1 .. m : N[i] = E[i] \/ N[i] = Gone
    BY <1>2, <2>1
  <2> HIDE DEF E, N, m
  <2>7. Ordered(N)
    BY <2>4, <2>5, <2>6 DEF Ordered
  <2>8. ASSUME NEW u \in Nat, q.at <= u, NEW i \in 1 .. m PROVE N[i].at <= u
    BY <2>2, <2>3, <2>5, <2>6, <2>8
  <2> QED BY <2>6, <2>7, <2>8 DEF Until, N
<1>3. ASSUME NEW e, Adds(book, n, e), e.at = q.at, q.op \in TimedOps
      PROVE  /\ Ordered(n.events)
             /\ \A u \in Nat : Until(B, u) /\ q.at <= u => Until(n.events, u)
  <2>1. e \in Event /\ n.events = Append(B, e)
    BY <1>3 DEF Adds
  <2> QED BY <1>2, <1>3, <2>1
<1>4. ASSUME NEW e, Prunes(book, n, e), e.at = q.at, q.op \in TimedOps
      PROVE  /\ Ordered(n.events)
             /\ \A u \in Nat : Until(B, u) /\ q.at <= u => Until(n.events, u)
  <2>1. /\ e \in Event /\ DOMAIN n.events = DOMAIN Append(B, e)
        /\ \A i \in DOMAIN n.events : n.events[i] = Append(B, e)[i] \/ n.events[i] = Gone
    BY <1>4 DEF Prunes
  <2> QED BY <1>2, <1>4, <2>1
<1> QED BY <1>1, <1>3, <1>4, EventsChange

LEMMA TimeStep ==
    ASSUME TypeInv, InTime, [Next]_vars
    PROVE  InTime'
<1>0. /\ TypeOK /\ Queued /\ NamesExist /\ book \in Book /\ bookQueue \in Seq(Callers) /\ now \in Nat
      /\ ask \in [Callers -> AskType] /\ Len(bookQueue) \in Nat
      /\ \A i \in 1 .. Len(bookQueue) : bookQueue[i] \in Callers /\ ask[bookQueue[i]] \in BookRequest
  BY LenProperties, ElementOfSeq DEF TypeInv, TypeOK, AskType, Queued
<1>1. /\ Until(book.events, now) /\ Ordered(book.events)
      /\ \A k \in 1 .. Len(bookQueue) : ask[bookQueue[k]].op \in TimedOps =>
            /\ ask[bookQueue[k]].at \in Nat
            /\ ask[bookQueue[k]].at <= now /\ Until(book.events, ask[bookQueue[k]].at)
            /\ \A l \in 1 .. Len(bookQueue) : ask[bookQueue[l]].op \in TimedOps /\ k <= l =>
                ask[bookQueue[k]].at <= ask[bookQueue[l]].at
  BY <1>0, BookFields DEF InTime, TimesOK
<1>2. \A i \in DOMAIN book.events : book.events[i].at \in Nat
  BY <1>0, BookParts, EventFields
<1>3. CASE BookStays
  <2>1. /\ UNCHANGED <<book, bookQueue>> /\ now' \in Nat /\ now <= now'
        /\ \A i \in 1 .. Len(bookQueue) : ask'[bookQueue[i]] = ask[bookQueue[i]]
    BY <1>0, <1>3 DEF BookStays
  <2>2. Until(book.events, now')
    BY <1>0, <1>1, <1>2, <2>1 DEF Until
  <2>3. \A k \in 1 .. Len(bookQueue) : ask[bookQueue[k]].op \in TimedOps => ask[bookQueue[k]].at <= now'
    BY <1>0, <1>1, <2>1
  <2> QED BY <1>1, <2>1, <2>2, <2>3 DEF InTime, TimesOK
<1>4. ASSUME NEW c \in Callers, NEW q \in BookRequest, BookAsks(c, q) PROVE InTime'
  <2>1. /\ UNCHANGED <<book, now>> /\ bookQueue' = Append(bookQueue, c) /\ ask[c] = NoAsk
        /\ ask'[c] = q /\ (\A d \in Callers : d # c => ask'[d] = ask[d])
        /\ q.op \in TimedOps => q.at = now
    BY <1>4 DEF BookAsks, AsksBook, SoundAsk
  <2> DEFINE m == Len(bookQueue) + 1
             Q == Append(bookQueue, c)
  <2>2. /\ Len(Q) = m /\ Q[m] = c /\ m \in Nat
        /\ \A i \in 1 .. Len(bookQueue) : Q[i] = bookQueue[i] /\ i < m
        /\ \A i \in 1 .. m : i \in 1 .. Len(bookQueue) \/ i = m
    BY <1>0, AppendIs
  <2>3. \A i \in 1 .. Len(bookQueue) : ask'[Q[i]] = ask[bookQueue[i]]
    BY <1>0, <2>1, <2>2, OneDocument
  <2>4. ask'[Q[m]] = q
    BY <2>1, <2>2
  <2> HIDE DEF Q, m
  <2>5. ASSUME NEW k \in 1 .. m, ask'[Q[k]].op \in TimedOps
        PROVE  /\ ask'[Q[k]].at <= now /\ Until(book.events, ask'[Q[k]].at)
               /\ \A l \in 1 .. m : ask'[Q[l]].op \in TimedOps /\ k <= l => ask'[Q[k]].at <= ask'[Q[l]].at
    <3>1. CASE k = m
      <4>1. \A l \in 1 .. m : k <= l => l = m
        BY <2>2, <3>1
      <4> QED BY <1>0, <1>1, <2>1, <2>4, <2>5, <3>1, <4>1
    <3>2. CASE k \in 1 .. Len(bookQueue)
      <4>1. ask'[Q[k]] = ask[bookQueue[k]]
        BY <2>3, <3>2
      <4>2. ASSUME NEW l \in 1 .. m, ask'[Q[l]].op \in TimedOps, k <= l
            PROVE  ask'[Q[k]].at <= ask'[Q[l]].at
        <5>1. CASE l = m
          BY <1>1, <2>1, <2>4, <2>5, <3>2, <4>1, <4>2, <5>1
        <5>2. CASE l \in 1 .. Len(bookQueue)
          BY <1>1, <2>3, <2>5, <3>2, <4>1, <4>2, <5>2
        <5> QED BY <2>2, <5>1, <5>2
      <4> QED BY <1>1, <2>5, <3>2, <4>1, <4>2
    <3> QED BY <2>2, <3>1, <3>2
  <2>6. TimesOK(book.events, Q, ask', now)
    BY <1>1, <2>2, <2>5 DEF TimesOK
  <2> QED BY <2>1, <2>6 DEF InTime, Q
<1>5. ASSUME NEW c \in Callers, NEW q \in BookRequest, BookRuns(c, q) PROVE InTime'
  <2>1. /\ bookQueue # <<>> /\ c = Head(bookQueue) /\ q = ask[c] /\ bookQueue' = Tail(bookQueue)
        /\ ask'[c] = NoAsk /\ (\A d \in Callers : d # c => ask'[d] = ask[d])
        /\ UNCHANGED now /\ (book' = BookResult(q) \/ UNCHANGED book)
    BY <1>5 DEF BookRuns
  <2> DEFINE Q == Tail(bookQueue)
  <2>2. /\ Len(Q) \in Nat /\ Len(Q) = Len(bookQueue) - 1 /\ 1 \in 1 .. Len(bookQueue) /\ c = bookQueue[1]
        /\ \A i \in 1 .. Len(Q) : Q[i] = bookQueue[i + 1] /\ i + 1 \in 1 .. Len(bookQueue) /\ Q[i] # c
                                  /\ Q[i] \in Callers
    <3>1. Waits(bookQueue, ask, BookRequest)
      BY <1>0, QueuedIs
    <3> QED BY <1>0, <2>1, <3>1, WaitsLess, ElementOfSeq, LenProperties
  <2>3. q.op = "correct" => q.row \in DOMAIN book.conversions
    BY <1>0, <2>1 DEF NamesExist
  <2>4. /\ Ordered(book'.events)
        /\ \A u \in Nat : Until(book.events, u) /\ (q.op \in TimedOps => q.at <= u) => Until(book'.events, u)
    <3>1. CASE UNCHANGED book
      BY <1>1, <3>1
    <3>2. CASE book' = BookResult(q)
      <4>1. BookResultOf(q, book') /\ book' \in Book
        BY <1>0, <2>3, <3>2, BookResultIs
      <4>2. q.op \in TimedOps => Until(book.events, q.at)
        BY <1>1, <2>1, <2>2
      <4> QED BY <1>0, <1>1, <2>3, <4>1, <4>2, TimeGoesOn
    <3> QED BY <2>1, <3>1, <3>2
  <2> HIDE DEF Q
  <2>5. q.op \in TimedOps => q.at <= now
    BY <1>1, <2>1, <2>2
  <2>6. ASSUME NEW k \in 1 .. Len(Q), ask'[Q[k]].op \in TimedOps
        PROVE  /\ ask'[Q[k]].at <= now /\ Until(book'.events, ask'[Q[k]].at)
               /\ \A l \in 1 .. Len(Q) : ask'[Q[l]].op \in TimedOps /\ k <= l =>
                      ask'[Q[k]].at <= ask'[Q[l]].at
    <3>1. \A i \in 1 .. Len(Q) : ask'[Q[i]] = ask[bookQueue[i + 1]] /\ i + 1 \in 1 .. Len(bookQueue)
      BY <2>1, <2>2
    <3>2. ask[bookQueue[k + 1]].op \in TimedOps /\ k + 1 \in 1 .. Len(bookQueue) /\ 1 <= k + 1
      BY <2>6, <3>1
    <3>3. q.op \in TimedOps => q.at <= ask[bookQueue[k + 1]].at
      BY <1>1, <2>1, <2>2, <3>2
    <3>4. Until(book'.events, ask[bookQueue[k + 1]].at)
      BY <1>1, <2>4, <3>2, <3>3
    <3>5. ASSUME NEW l \in 1 .. Len(Q), ask'[Q[l]].op \in TimedOps, k <= l
          PROVE  ask'[Q[k]].at <= ask'[Q[l]].at
      <4>1. k + 1 <= l + 1
        BY <3>5
      <4> QED BY <1>1, <3>1, <3>2, <3>5, <4>1
    <3> QED BY <1>1, <3>1, <3>2, <3>4, <3>5
  <2>7. Until(book'.events, now)
    BY <1>0, <1>1, <2>4, <2>5
  <2>8. TimesOK(book'.events, Q, ask', now)
    BY <2>4, <2>6, <2>7 DEF TimesOK
  <2> QED BY <2>1, <2>8 DEF InTime, Q
<1>6. CASE BookForgets
  <2>1. UNCHANGED <<book, now>> /\ bookQueue' = <<>>
    BY <1>6 DEF BookForgets
  <2>2. Len(bookQueue') = 0
    BY <2>1
  <2> QED BY <1>1, <2>1, <2>2 DEF InTime, TimesOK
<1> QED BY <1>3, <1>4, <1>5, <1>6, BookSteps DEF BookActs

-----------------------------------------------------------------------------
(* Touches *)

LEMMA TouchesAre ==
    ASSUME NEW b, NEW p
    PROVE  Touches(b, p) = {i \in DOMAIN b.events : /\ b.events[i].who = p
                                                    /\ b.events[i].campaign # None
                                                    /\ b.events[i].type \in TouchStages}
BY DEF Touches

LEMMA SameTouches ==
    ASSUME NEW b, NEW n, NEW p, TouchOK(b, p), Touches(n, p) = Touches(b, p),
           n.touched[p] = b.touched[p], \A i \in Touches(b, p) : n.events[i] = b.events[i]
    PROVE  TouchOK(n, p)
BY DEF TouchOK

LEMMA TouchIsAdded ==
    ASSUME NEW b \in Book, NEW n, NEW p \in People, TouchOK(b, p), NEW e,
           Adds(b, n, e), e.who = p, e.campaign \in Campaigns, e.type \in TouchStages,
           e.type = "START" => ~ HasEvent(b, "START", e.campaign, p),
           Until(b.events, e.at), n.touched[p] = Later(b.touched[p], e.campaign, e.at)
    PROVE  TouchOK(n, p)
<1> DEFINE B == b.events
           E == n.events
           m == Len(B) + 1
           T == Touches(b, p)
           S == Touches(n, p)
           old == b.touched[p]
           new == n.touched[p]
<1>1. /\ DOMAIN B = 1 .. Len(B) /\ Len(B) \in Nat /\ m \in Nat
      /\ DOMAIN E = 1 .. m /\ E[m] = e /\ (\A i \in DOMAIN B : E[i] = B[i] /\ i < m /\ i \in 1 .. m)
      /\ (\A i \in 1 .. m : i \in DOMAIN B \/ i = m) /\ m \in 1 .. m /\ (\A i \in 1 .. m : i <= m /\ i \in Nat)
  BY BookParts, AppendIs DEF Adds
<1>2. e \in Event /\ e.at \in Nat /\ e.campaign # None /\ old \in Touch
  BY EventFields, CampaignsAssumption, BookTables DEF Adds
<1>3. T \subseteq DOMAIN B /\ \A i \in T : B[i].campaign # None /\ B[i].at \in Nat /\ B[i].at <= e.at
                                         /\ B[i].who = p
  BY TouchesAre, BookParts, EventFields DEF Until
<1>4. S = T \cup {m} /\ m \notin T
  <2>1. T = {i \in DOMAIN B : B[i].who = p /\ B[i].campaign # None /\ B[i].type \in TouchStages}
    BY TouchesAre
  <2>2. S = {i \in DOMAIN E : E[i].who = p /\ E[i].campaign # None /\ E[i].type \in TouchStages}
    BY TouchesAre
  <2> HIDE DEF T, S, B, E, m
  <2>3. \A i \in DOMAIN B : i \in S <=> i \in T
    BY <1>1, <2>1, <2>2
  <2>4. m \in S
    BY <1>1, <1>2, <2>2
  <2>5. m \notin DOMAIN B
    BY <1>1
  <2> QED BY <1>1, <2>1, <2>2, <2>3, <2>4, <2>5
<1>5. \A i \in T : E[i] = B[i] /\ i < m /\ i \in Nat
  BY <1>1, <1>3
<1>6. ~ HasEvent(b, "START", e.campaign, p) => \A i \in T : ~ (B[i].type = "START" /\ B[i].campaign = e.campaign)
  BY <1>3 DEF HasEvent
<1>7. /\ \A i, j \in T : B[i].type = "START" /\ B[j].type = "START" /\ B[i].campaign = B[j].campaign => i = j
      /\ T = {} => old = NoTouch
      /\ T # {} => old # NoTouch
      /\ \A i \in T : (\A j \in T : i <= j) => old.first = B[i].campaign
      /\ \A i \in T : (\A j \in T : j <= i) =>
            /\ old.at = B[i].at
            /\ \E k \in T : B[k].at = B[i].at /\ B[k].campaign = old.last
  BY DEF TouchOK
<1>8. new = Later(old, e.campaign, e.at)
  OBVIOUS
<1> HIDE DEF B, E, T, S, old, new, m
<1>9. ASSUME NEW i \in S, NEW j \in S, E[i].type = "START", E[j].type = "START",
             E[i].campaign = E[j].campaign
      PROVE  i = j
  <2>1. CASE i = m /\ j \in T
    BY <1>1, <1>5, <1>6, <1>9, <2>1
  <2>2. CASE j = m /\ i \in T
    BY <1>1, <1>5, <1>6, <1>9, <2>2
  <2>3. CASE i \in T /\ j \in T
    BY <1>5, <1>7, <1>9, <2>3
  <2> QED BY <1>4, <2>1, <2>2, <2>3
<1>10. S # {}
  BY <1>4
<1>11. CASE T = {}
  <2>1. old = NoTouch /\ new.first = e.campaign /\ new.last = e.campaign /\ new.at = e.at
    BY <1>2, <1>7, <1>8, <1>11, TouchFields
  <2>2. new # NoTouch
    BY <1>2, <2>1 DEF NoTouch
  <2>3. S = {m}
    BY <1>4, <1>11
  <2> QED BY <1>1, <1>9, <1>10, <2>1, <2>2, <2>3 DEF TouchOK, E, S, new
<1>12. CASE T # {}
  <2>1. T \in SUBSET (1 .. Len(B)) /\ T \in SUBSET Nat /\ Len(B) \in Nat
    BY <1>1, <1>3, <1>5
  <2>2. PICK l \in T : \A j \in T : j <= l
    BY <1>12, <2>1, MaxIsIn
  <2>3. PICK f \in T : \A j \in T : f <= j
    BY <1>12, <2>1, MinIsIn
  <2>4. /\ old # NoTouch /\ old.first = B[f].campaign /\ old.first # None /\ old.at = B[l].at
        /\ old.at \in Nat /\ old.at <= e.at
    BY <1>3, <1>7, <1>12, <2>2, <2>3
  <2>5. new # NoTouch /\ new.first = old.first
    BY <1>2, <1>8, <2>4, TouchFields
  <2>6. ASSUME NEW i \in S, \A j \in S : i <= j PROVE new.first = E[i].campaign
    <3>1. i # m
      BY <1>4, <1>5, <2>3, <2>6, <1>1
    <3>2. i \in T /\ \A j \in T : i <= j
      BY <1>4, <2>6, <3>1
    <3> QED BY <1>5, <1>7, <2>5, <3>2
  <2>7. ASSUME NEW i \in S, \A j \in S : j <= i
        PROVE  /\ new.at = E[i].at
               /\ \E k \in S : E[k].at = E[i].at /\ E[k].campaign = new.last
    <3>1. i = m
      BY <1>1, <1>4, <1>5, <2>7
    <3>2. CASE e.at > old.at
      <4>1. new.last = e.campaign /\ new.at = e.at
        BY <1>2, <1>8, <2>4, <3>2, TouchFields
      <4> QED BY <1>1, <1>4, <3>1, <4>1
    <3>3. CASE ~ (e.at > old.at)
      <4>1. new = old /\ old.at = e.at
        BY <1>2, <1>8, <2>4, <3>3, TouchFields
      <4>2. PICK k \in T : B[k].at = B[l].at /\ B[k].campaign = old.last
        BY <1>7, <2>2
      <4>3. k \in S /\ E[k] = B[k]
        BY <1>4, <1>5
      <4> QED BY <1>1, <2>4, <3>1, <4>1, <4>2, <4>3
    <3> QED BY <3>2, <3>3
  <2> QED BY <1>9, <1>10, <2>5, <2>6, <2>7 DEF TouchOK, E, S, new
<1> QED BY <1>11, <1>12

LEMMA TouchResult ==
    ASSUME book \in Book, EventsOK(book), NEW p \in People, TouchOK(book, p),
           NEW q \in BookRequest, NEW n, BookResultOf(q, n), n \in Book,
           q.op = "correct" => q.row \in DOMAIN book.conversions,
           q.op \in TimedOps => Until(book.events, q.at)
    PROVE  TouchOK(n, p)
<1> DEFINE B == book.events
           m == Len(B) + 1
<1>0. /\ B \in Seq(Event) /\ Len(B) \in Nat /\ DOMAIN B = 1 .. Len(B) /\ p # None
      /\ book.touched \in [People -> Touch]
  BY BookParts, BookTables, CampaignsAssumption
<1>1. CASE n.events = B /\ n.touched = book.touched
  <2>1. Touches(n, p) = Touches(book, p)
    BY <1>1, TouchesAre
  <2> QED BY <1>1, <2>1, SameTouches
<1>2. ASSUME NEW e, Adds(book, n, e), e.at = q.at, q.op \in TimedOps,
             e.who = q.who, q.who \in People,
             e.type = "START" => ~ HasEvent(book, "START", e.campaign, e.who),
             IF e.type \in TouchStages /\ e.campaign # None
             THEN /\ e.campaign \in Campaigns
                  /\ n.touched = [book.touched EXCEPT ![q.who] = Later(@, e.campaign, e.at)]
             ELSE n.touched = book.touched
      PROVE  TouchOK(n, p)
  <2>1. CASE q.who = p /\ e.type \in TouchStages /\ e.campaign # None
    <3>1. n.touched[p] = Later(book.touched[p], e.campaign, e.at)
      BY <1>0, <1>2, <2>1
    <3> QED BY <1>2, <2>1, <3>1, TouchIsAdded
  <2>2. CASE ~ (q.who = p /\ e.type \in TouchStages /\ e.campaign # None)
    <3>1. n.touched[p] = book.touched[p]
      BY <1>0, <1>2, <2>2
    <3> DEFINE E == n.events
    <3>2. /\ DOMAIN E = 1 .. m /\ E[m] = e /\ \A i \in DOMAIN B : E[i] = B[i] /\ i \in 1 .. m
          /\ \A i \in 1 .. m : i \in DOMAIN B \/ i = m
      BY <1>0, <1>2, AppendIs DEF Adds
    <3>3. Touches(n, p) = {i \in DOMAIN E : E[i].who = p /\ E[i].campaign # None /\ E[i].type \in TouchStages}
      BY TouchesAre
    <3>4. Touches(book, p) = {i \in DOMAIN B : B[i].who = p /\ B[i].campaign # None /\ B[i].type \in TouchStages}
      BY TouchesAre
    <3> HIDE DEF E, B, m
    <3>5. Touches(n, p) = Touches(book, p) /\ \A i \in Touches(book, p) : E[i] = B[i]
      BY <1>2, <2>2, <3>2, <3>3, <3>4
    <3> QED BY <3>1, <3>5, SameTouches DEF E, B
  <2> QED BY <2>1, <2>2
<1>3. ASSUME NEW e, Prunes(book, n, e), n.touched = book.touched PROVE TouchOK(n, p)
  <2> DEFINE A == Append(B, e)
             E == n.events
  <2>1. /\ DOMAIN A = 1 .. m /\ A[m] = e /\ \A i \in DOMAIN B : A[i] = B[i] /\ i \in 1 .. m
        /\ \A i \in 1 .. m : i \in DOMAIN B \/ i = m
    BY <1>0, <1>3, AppendIs DEF Prunes
  <2>2. /\ DOMAIN E = DOMAIN A /\ e.who = None
        /\ \A i \in DOMAIN E : E[i] = A[i] \/ (A[i].type = "CLICK" /\ E[i] = Gone)
    BY <1>3 DEF Prunes
  <2>3. Gone.who = None /\ "CLICK" \in TouchStages
    BY DEF Gone, TouchStages
  <2>4. \A i \in DOMAIN B : B[i].type = "CLICK" => B[i].who = None
    BY DEF EventsOK
  <2>5. Touches(n, p) = {i \in DOMAIN E : E[i].who = p /\ E[i].campaign # None /\ E[i].type \in TouchStages}
    BY TouchesAre
  <2>6. Touches(book, p) = {i \in DOMAIN B : B[i].who = p /\ B[i].campaign # None /\ B[i].type \in TouchStages}
    BY TouchesAre
  <2> HIDE DEF A, E, B, m
  <2>7. \A i \in DOMAIN E : E[i].who = p => i \in DOMAIN B /\ E[i] = B[i]
    BY <1>0, <2>1, <2>2, <2>3
  <2>8. \A i \in DOMAIN B : B[i].who = p => i \in DOMAIN E /\ E[i] = B[i]
    BY <1>0, <2>1, <2>2, <2>4
  <2>9. Touches(n, p) = Touches(book, p) /\ \A i \in Touches(book, p) : E[i] = B[i]
    BY <2>5, <2>6, <2>7, <2>8
  <2> QED BY <1>3, <2>9, SameTouches DEF E, B
<1> QED BY <1>1, <1>2, <1>3, EventsChange

LEMMA TouchStep ==
    ASSUME TypeInv, TouchInv, [Next]_vars
    PROVE  TouchInv'
<1>0. /\ TypeOK /\ Queued /\ NamesExist /\ book \in Book /\ bookQueue \in Seq(Callers)
      /\ CreditInv /\ InTime /\ \A p \in People : TouchOK(book, p)
  BY DEF TypeInv, TypeOK, TouchInv
<1>1. CreditInv' /\ InTime'
  BY <1>0, CreditStep, TimeStep
<1>2. ASSUME UNCHANGED book PROVE TouchInv'
  BY <1>0, <1>1, <1>2 DEF TouchInv
<1>3. ASSUME NEW c \in Callers, NEW q \in BookRequest, BookRuns(c, q) PROVE TouchInv'
  <2>1. q = ask[c] /\ bookQueue # <<>> /\ c = Head(bookQueue) /\ (book' = BookResult(q) \/ UNCHANGED book)
    BY <1>3 DEF BookRuns
  <2>2. q.op = "correct" => q.row \in DOMAIN book.conversions
    BY <1>0, <2>1 DEF NamesExist
  <2>3. 1 \in 1 .. Len(bookQueue) /\ bookQueue[1] = c
    <3>1. Waits(bookQueue, ask, BookRequest)
      BY <1>0, QueuedIs
    <3> QED BY <1>0, <2>1, <3>1, WaitsLess
  <2>4. q.op \in TimedOps => Until(book.events, q.at)
    BY <1>0, <2>1, <2>3 DEF InTime, TimesOK
  <2>5. CASE book' = BookResult(q)
    <3>1. BookResultOf(q, book') /\ book' \in Book
      BY <1>0, <2>2, <2>5, BookResultIs
    <3>2. EventsOK(book)
      BY <1>0 DEF CreditInv
    <3> DEFINE n == book'
    <3>3. BookResultOf(q, n) /\ n \in Book
      BY <3>1
    <3> HIDE DEF n
    <3>4. \A p \in People : TouchOK(n, p)
      BY <1>0, <2>2, <2>4, <3>2, <3>3, TouchResult
    <3> QED BY <1>1, <3>4 DEF TouchInv, n
  <2> QED BY <1>2, <2>1, <2>5
<1> QED BY <1>2, <1>3, BookSteps DEF BookActs, BookStays, BookAsks, BookForgets

LEMMA TouchStart == Init => TouchInv
<1> SUFFICES ASSUME Init PROVE TouchInv
  OBVIOUS
<1>1. /\ book.events = <<>> /\ bookQueue = <<>> /\ now = 1 /\ book.touched = [p \in People |-> NoTouch]
  BY NothingHappenedYet
<1>2. InTime
  <2>1. Len(bookQueue) = 0 /\ DOMAIN book.events = {}
    BY <1>1
  <2> QED BY <2>1 DEF InTime, TimesOK, Until, Ordered
<1>3. \A p \in People : TouchOK(book, p)
  <2>1. \A p \in People : Touches(book, p) = {} /\ book.touched[p] = NoTouch
    BY <1>1, TouchesAre
  <2> QED BY <2>1 DEF TouchOK
<1> QED BY <1>2, <1>3, CreditStart DEF TouchInv

LEMMA TouchIsTold ==
    ASSUME book \in Book, TouchInv
    PROVE  TouchesAreTold
<1>1. ASSUME NEW p \in People
      PROVE  LET T == Touches(book, p)
                 E == book.events
             IN /\ \A i, j \in T :
                     E[i].type = "START" /\ E[j].type = "START" /\ E[i].campaign = E[j].campaign => i = j
                /\ IF T = {} THEN book.touched[p] = NoTouch
                   ELSE /\ book.touched[p].first = E[Min(T)].campaign
                        /\ book.touched[p].at = E[Max(T)].at
                        /\ \E i \in T : E[i].at = E[Max(T)].at /\ E[i].campaign = book.touched[p].last
  <2> DEFINE T == Touches(book, p)
  <2>1. TouchOK(book, p)
    BY DEF TouchInv
  <2>2. T \in SUBSET (1 .. Len(book.events)) /\ Len(book.events) \in Nat
    BY BookParts, TouchesAre
  <2>3. CASE T = {}
    BY <2>1, <2>3 DEF TouchOK
  <2>4. CASE T # {}
    <3>1. \A i \in 1 .. Len(book.events) : i \in Nat
      BY <2>2
    <3>2. T \in SUBSET Nat
      BY <2>2, <3>1, Zenon
    <3>3. Min(T) \in T /\ (\A j \in T : Min(T) <= j) /\ Max(T) \in T /\ (\A j \in T : j <= Max(T))
      BY <2>2, <2>4, <3>2, MinIsIn, MaxIsIn
    <3> HIDE DEF T
    <3> QED BY <2>1, <2>4, <3>3 DEF TouchOK, T
  <2> QED BY <2>3, <2>4
<1> QED BY <1>1 DEF TouchesAreTold

(* Nobody starts a campaign twice, and what the document says of the first and   *)
(* last touch of an identity is what its events say, however the requests        *)
(* interleave and whatever is pruned: requests enter the queue in the order of   *)
(* their times, and so do the events (recordStart, applyTouch).                  *)
THEOREM TouchesStayTold == Spec => []TouchesAreTold
<1>1. TypeInv /\ TouchInv => TouchesAreTold
  BY TouchIsTold DEF TypeInv, TypeOK
<1> QED BY <1>1, TypeInvStart, TypeInvStep, TouchStart, TouchStep, PTL DEF Spec

-----------------------------------------------------------------------------
(* Links between the documents *)

LEMMA CustomerStays ==
    ASSUME NEW b, NEW n, Grows(b, n)
    PROVE  /\ \A i, p : IsCustomer(b, i, p) => IsCustomer(n, i, p)
           /\ \A x : CustomerOK(b, x) => CustomerOK(n, x)
BY DEF Grows, IsCustomer, CustomerOK

LEMMA LinksKept ==
    ASSUME NamesExist, LinkInv, Grows(book, book'), LedgerKeeps(ledger, ledger'),
           \A l \in DOMAIN ledger'.leads : LinkedLead(l, book', ledger'),
           \A c \in Callers : ask'[c] = ask[c] \/ LinkedAsk(ask'[c], book', ledger'),
           \A h \in Handlers : \/ task'[h] = task[h] /\ ask'[h] = ask[h] /\ reply'[h] = reply[h]
                               \/ LinkedTask(task'[h], ask'[h], reply'[h], book', ledger')
    PROVE  LinkInv'
<1>1. ASSUME NEW c \in Callers PROVE LinkedAsk(ask[c], book', ledger')
  <2>1. LinkedAsk(ask[c], book, ledger)
    BY DEF LinkInv
  <2>2. ask[c].op \in {"store", "sale"} => ask[c].lead \in DOMAIN ledger.leads
    BY DEF NamesExist
  <2> QED BY <2>1, <2>2, CustomerStays DEF LinkedAsk, LedgerKeeps
<1>2. ASSUME NEW h \in Handlers PROVE LinkedTask(task[h], ask[h], reply[h], book', ledger')
  <2>1. LinkedTask(task[h], ask[h], reply[h], book, ledger)
    BY DEF LinkInv
  <2>2. task[h].at = "customer" => task[h].lead \in DOMAIN ledger.leads
    BY DEF NamesExist
  <2> QED BY <2>1, <2>2, CustomerStays DEF LinkedTask, LedgerKeeps
<1>3. \A c \in Callers : LinkedAsk(ask'[c], book', ledger')
  BY <1>1
<1>4. \A h \in Handlers : LinkedTask(task'[h], ask'[h], reply'[h], book', ledger')
  BY <1>2
<1> QED BY <1>3, <1>4 DEF LinkInv

\* A step that leaves the ledger as it is.
LEMMA LinksKeptBeside ==
    ASSUME NamesExist, LinkInv, Grows(book, book'), UNCHANGED ledger,
           \A c \in Callers : ask'[c] = ask[c] \/ LinkedAsk(ask'[c], book', ledger'),
           \A h \in Handlers : \/ task'[h] = task[h] /\ ask'[h] = ask[h] /\ reply'[h] = reply[h]
                               \/ LinkedTask(task'[h], ask'[h], reply'[h], book', ledger')
    PROVE  LinkInv'
<1>1. LedgerKeeps(ledger, ledger')
  BY DEF LedgerKeeps
<1>2. \A l \in DOMAIN ledger.leads : LinkedLead(l, book', ledger)
  BY CustomerStays DEF LinkInv, LinkedLead
<1> QED BY <1>1, <1>2, LinksKept

LEMMA LinksNothing ==
    ASSUME NEW b, NEW g
    PROVE  /\ LinkedAsk(NoAsk, b, g)
           /\ \A q \in BookRequest : LinkedAsk(q, b, g)
           /\ \A q : q.op \notin {"store", "sale"} => LinkedAsk(q, b, g)
           /\ \A t, q, a : t.at # "customer" => LinkedTask(t, q, a, b, g)
           /\ \A q, a : LinkedTask(NoTask, q, a, b, g)
<1>1. NoAsk.op = "none" /\ NoTask.at = "idle"
  BY OneDocument DEF NoTask
<1>2. \A q \in BookRequest : q.op \notin {"store", "sale"}
  BY BookFields DEF BookOps
<1> QED BY <1>1, <1>2 DEF LinkedAsk, LinkedTask

LEMMA BookGrows ==
    ASSUME UNCHANGED book
    PROVE  Grows(book, book')
BY DEF Grows

LEMMA CampaignLinks ==
    ASSUME TypeInv, LinkInv, CampaignStep, UNCHANGED <<salesVars, notificationVars>>
    PROVE  LinkInv'
<1> USE HandlersCall
<1>0. /\ TypeOK /\ Queued /\ NamesExist /\ task \in [Handlers -> Task] /\ RestOK /\ AsksOK
      /\ ask \in [Callers -> AskType] /\ UNCHANGED <<ledger, ledgerQueue>>
  BY TypeParts DEF TypeInv, RestOK, AsksOK, salesVars
<1>1. ASSUME NEW p PROVE [at |-> "membership", who |-> p].at # "customer"
  OBVIOUS
<1>2. ASSUME NEW c \in Handlers \cup {Web}, NEW q \in BookRequest, CampaignAsk(c, q)
      PROVE  LinkInv'
  <2>1. /\ ask[c] = NoAsk /\ AsksBook(c, q) /\ UNCHANGED <<book, reply>>
        /\ c \in Handlers => task[c] = NoTask
        /\ \/ UNCHANGED task
           \/ \E p \in People : c = Home[p] /\ task' = [task EXCEPT ![c] = [at |-> "membership", who |-> p]]
    BY <1>2 DEF CampaignAsk, CampaignRequest, Free
  <2>2. ask'[c] = q /\ \A d \in Callers : d # c => ask'[d] = ask[d]
    BY <1>0, <2>1, AsksBookIs
  <2>3. LinkedAsk(q, book', ledger') /\ Grows(book, book')
    BY <2>1, LinksNothing, BookGrows
  <2>4. ASSUME NEW h \in Handlers
        PROVE  \/ task'[h] = task[h] /\ ask'[h] = ask[h] /\ reply'[h] = reply[h]
               \/ LinkedTask(task'[h], ask'[h], reply'[h], book', ledger')
    <3>1. CASE h # c
      BY <1>0, <2>1, <2>2, <3>1
    <3>2. CASE h = c
      <4>1. task'[h] = NoTask \/ task'[h].at # "customer"
        BY <1>0, <1>1, <2>1, <3>2
      <4> QED BY <4>1, LinksNothing
    <3> QED BY <3>1, <3>2
  <2> QED BY <1>0, <2>2, <2>3, <2>4, LinksKeptBeside
<1>3. ASSUME NEW h \in Handlers, NEW q \in BookRequest, Observation(h, q) PROVE LinkInv'
  <2>1. /\ ask[h] = NoAsk /\ AsksBook(h, q) /\ UNCHANGED <<book, reply>>
        /\ task' = [task EXCEPT ![h] = NoTask]
    BY <1>3 DEF Observation
  <2>2. ask'[h] = q /\ \A d \in Callers : d # h => ask'[d] = ask[d]
    BY <1>0, <2>1, AsksBookIs
  <2>3. LinkedAsk(q, book', ledger') /\ Grows(book, book')
    BY <2>1, LinksNothing, BookGrows
  <2> QED BY <1>0, <2>1, <2>2, <2>3, LinksKeptBeside, LinksNothing
<1>4. ASSUME NEW h \in Handlers, NoObservation(h) PROVE LinkInv'
  <2>1. UNCHANGED <<ask, book, reply>> /\ task' = [task EXCEPT ![h] = NoTask]
    BY <1>4 DEF NoObservation
  <2> QED BY <1>0, <2>1, LinksKeptBeside, LinksNothing, BookGrows
<1>5. CASE BookTransact
  <2>1. PICK c \in Callers, q \in BookRequest : BookRuns(c, q)
    BY <1>0, <1>5, BookTransactIs
  <2>2. /\ ask'[c] = NoAsk /\ q = ask[c] /\ UNCHANGED task
        /\ \A d \in Callers : d # c => ask'[d] = ask[d] /\ reply'[d] = reply[d]
        /\ \/ /\ book' = BookResult(q)
              /\ reply'[c] = IF q.op = "register" THEN Len(book'.conversions) ELSE 0
           \/ UNCHANGED book /\ reply'[c] = 0
    BY <2>1 DEF BookRuns
  <2>3. q.op = "correct" => q.row \in DOMAIN book.conversions
    BY <1>0, <2>2 DEF NamesExist
  <2>4. Grows(book, book')
    BY <1>0, <2>2, <2>3, BookResultIs, BookGrows
  <2>5. q.op = "register" /\ reply'[c] # 0 /\ q.type = "CUSTOMER" => IsCustomer(book', reply'[c], q.who)
    BY <1>0, <2>2, <2>3, BookResultIs DEF IsCustomer
  <2>6. c \in Handlers => LinkedTask(task'[c], ask'[c], reply'[c], book', ledger')
    <3>1. q # NoAsk
      BY BookFields
    <3>2. c \in Handlers => LinkedTask(task[c], q, reply[c], book, ledger)
      BY <2>2 DEF LinkInv
    <3> QED BY <1>0, <2>2, <2>5, <3>1, <3>2 DEF LinkedTask
  <2> QED BY <1>0, <2>2, <2>4, <2>6, LinksKeptBeside, LinksNothing
<1>6. CASE Tick
  <2>1. UNCHANGED <<book, ask, reply, task>>
    BY <1>6 DEF Tick
  <2> QED BY <1>0, <2>1, LinksKeptBeside, BookGrows
<1> QED BY <1>0, <1>2, <1>3, <1>4, <1>5, <1>6, CampaignActs

LEMMA SalesLinks ==
    ASSUME TypeInv, LinkInv, FormStep \/ SalesStep, UNCHANGED notificationVars
    PROVE  LinkInv'
<1> USE HandlersCall
<1>0. /\ TypeOK /\ Queued /\ NamesExist /\ task \in [Handlers -> Task] /\ RestOK /\ AsksOK
      /\ ask \in [Callers -> AskType] /\ reply \in [Callers -> Int \cup {None}] /\ ledger \in Ledger
  BY TypeParts DEF TypeInv, RestOK, AsksOK
<1>1. ASSUME UNCHANGED <<book, ledger, ask, reply>>,
             \/ UNCHANGED task
             \/ \E h \in Handlers : \E t : task' = [task EXCEPT ![h] = t] /\ t.at # "customer"
      PROVE  LinkInv'
  <2>1. ASSUME NEW h \in Handlers
        PROVE  task'[h] = task[h] \/ LinkedTask(task'[h], ask'[h], reply'[h], book', ledger')
    BY <1>0, <1>1, LinksNothing
  <2> QED BY <1>0, <1>1, <2>1, LinksKeptBeside, BookGrows
<1>2. ASSUME NEW h \in Handlers, NEW q, AsksLedger(h, q), UNCHANGED <<book, ledger, reply>>,
             LinkedAsk(q, book, ledger), task'[h].at # "customer",
             UNCHANGED task \/ \E t : task' = [task EXCEPT ![h] = t]
      PROVE  LinkInv'
  <2>1. ask'[h] = q /\ \A d \in Callers : d # h => ask'[d] = ask[d]
    BY <1>0, <1>2 DEF AsksLedger, AskType
  <2>2. \A k \in Handlers : k # h => task'[k] = task[k]
    BY <1>0, <1>2
  <2>3. LinkedTask(task'[h], ask'[h], reply'[h], book', ledger')
    BY <1>2, LinksNothing
  <2> QED BY <1>0, <1>2, <2>1, <2>2, <2>3, LinksKeptBeside, BookGrows
<1>3. ASSUME NEW h \in Handlers, NEW type, NEW p, NEW t, Links(h, type, p, t), UNCHANGED ledger,
             NEW next, task' = [task EXCEPT ![h] = next], ask[h] = NoAsk,
             next.at = "customer" => type = "CUSTOMER" /\ p = ledger.leads[next.lead].who
      PROVE  LinkInv'
  <2> DEFINE q == RegisterAsk(type, p, t)
  <2>1. /\ q \in BookRequest /\ q.op = "register" /\ q.type = type /\ q.who = p /\ UNCHANGED book
        /\ \/ AsksBook(h, q) /\ UNCHANGED reply
           \/ reply' = [reply EXCEPT ![h] = 0] /\ UNCHANGED ask
    BY <1>3 DEF Links
  <2> HIDE DEF q
  <2>2. LinkedAsk(q, book', ledger') /\ Grows(book, book') /\ q # NoAsk
    BY <2>1, LinksNothing, BookGrows, BookFields
  <2>3. task'[h] = next /\ \A k \in Handlers : k # h => task'[k] = task[k]
    BY <1>0, <1>3
  <2>4. CASE AsksBook(h, q) /\ UNCHANGED reply
    <3>1. ask'[h] = q /\ \A d \in Callers : d # h => ask'[d] = ask[d]
      BY <1>0, <2>4 DEF AsksBook, AskType
    <3>2. LinkedTask(task'[h], ask'[h], reply'[h], book', ledger')
      BY <1>3, <2>1, <2>2, <2>3, <3>1 DEF LinkedTask
    <3> QED BY <1>0, <1>3, <2>2, <2>3, <2>4, <3>1, <3>2, LinksKeptBeside
  <2>5. CASE reply' = [reply EXCEPT ![h] = 0] /\ UNCHANGED ask
    <3>1. reply'[h] = 0 /\ \A k \in Handlers : k # h => reply'[k] = reply[k]
      BY <1>0, <2>5
    <3>2. LinkedTask(task'[h], ask'[h], reply'[h], book', ledger')
      BY <1>3, <2>3, <2>5, <3>1 DEF LinkedTask
    <3> QED BY <1>0, <1>3, <2>2, <2>3, <2>5, <3>1, <3>2, LinksKeptBeside
  <2> QED BY <2>1, <2>4, <2>5
<1>4. ASSUME NEW p \in People,
             OpenForm(p) \/ Answer(p) \/ SkipDescription(p) \/ EditForm(p) \/ LeaveForm(p)
      PROVE  LinkInv'
  <2>1. UNCHANGED <<book, ledger, ask, reply, task>>
    BY <1>4 DEF OpenForm, Answer, SkipDescription, EditForm, LeaveForm, FormKept, FormOnly, campaignVars
  <2> QED BY <1>1, <2>1
<1>5. ASSUME NEW p \in People, Confirm(p) PROVE LinkInv'
  <2> DEFINE h == Home[p]
             q == [op |-> "create", who |-> p, key |-> forms[p].key, at |-> now]
             t == [at |-> "created", who |-> p]
  <2>1. UNCHANGED <<book, ledger, reply>>
    BY <1>5 DEF Confirm, campaignVars
  <2>2. \/ AsksLedger(h, q) /\ task' = [task EXCEPT ![h] = t]
        \/ UNCHANGED <<ask, task>>
    BY <1>5 DEF Confirm
  <2>3. q.op = "create" /\ t.at = "created"
    OBVIOUS
  <2>4. h \in Handlers
    OBVIOUS
  <2> HIDE DEF q, t, h
  <2>5. LinkedAsk(q, book, ledger)
    BY <2>3, LinksNothing
  <2>6. task' = [task EXCEPT ![h] = t] => task'[h] = t
    BY <1>0, <2>4
  <2> QED BY <1>1, <1>2, <2>1, <2>2, <2>3, <2>4, <2>5, <2>6
<1>6. ASSUME NEW h \in Handlers, LeadStored(h) PROVE LinkInv'
  <2> DEFINE next == [at |-> "linked", who |-> task[h].who, lead |-> LeadOf(reply[h])]
  <2>1. /\ ask[h] = NoAsk /\ UNCHANGED salesVars
        /\ Links(h, "LEAD", task[h].who, ledger.leads[LeadOf(reply[h])].at)
        /\ task' = [task EXCEPT ![h] = next]
    BY <1>6, LeadActs
  <2>2. next.at # "customer"
    OBVIOUS
  <2> HIDE DEF next
  <2> QED BY <1>3, <2>1, <2>2 DEF salesVars
<1>7. ASSUME NEW h \in Handlers, LeadConverted(h) PROVE LinkInv'
  <2> DEFINE next == [at |-> "customer", lead |-> task[h].lead]
             lead == ledger.leads[task[h].lead]
  <2>1. /\ ask[h] = NoAsk /\ UNCHANGED salesVars
        /\ \/ /\ task' = [task EXCEPT ![h] = NoTask]
              /\ UNCHANGED <<ask, reply, faults, budget, campaignVars>>
           \/ /\ Links(h, "CUSTOMER", lead.who, lead.converted)
              /\ task' = [task EXCEPT ![h] = next]
    BY <1>7, LeadActs
  <2>2. CASE task' = [task EXCEPT ![h] = NoTask] /\ UNCHANGED <<ask, reply, faults, budget, campaignVars>>
    <3>1. NoTask.at # "customer"
      BY DEF NoTask
    <3> QED BY <1>1, <2>1, <2>2, <3>1 DEF salesVars, campaignVars
  <2>3. CASE Links(h, "CUSTOMER", lead.who, lead.converted) /\ task' = [task EXCEPT ![h] = next]
    <3>1. lead.who = ledger.leads[next.lead].who
      OBVIOUS
    <3> HIDE DEF next, lead
    <3> QED BY <1>3, <2>1, <2>3, <3>1 DEF salesVars
  <2> QED BY <2>1, <2>2, <2>3
<1>8. ASSUME NEW h \in Handlers, RetryNext(h) PROVE LinkInv'
  <2>1. PICK type \in ConversionTypes, p \in People, t \in Nat, l \in SUBSET DOMAIN ledger.leads,
             d \in {0, 1} :
          /\ Links(h, type, p, t)
          /\ task' = [task EXCEPT ![h] = [at |-> "retry", left |-> l, done |-> d]]
          /\ [at |-> "retry", left |-> l, done |-> d] \in Task
    BY <1>8, LeadActs
  <2>2. ask[h] = NoAsk /\ UNCHANGED salesVars
    BY <1>8, LeadActs
  <2> DEFINE next == [at |-> "retry", left |-> l, done |-> d]
  <2>3. next.at # "customer" /\ task' = [task EXCEPT ![h] = next]
    BY <2>1
  <2> HIDE DEF next
  <2> QED BY <1>3, <2>1, <2>2, <2>3 DEF salesVars
<1>9. ASSUME NEW h \in Handlers, LeadRefused(h) PROVE LinkInv'
  <2>1. UNCHANGED <<book, ledger, ask, reply>> /\ task' = [task EXCEPT ![h] = NoTask]
    BY <1>9 DEF LeadRefused, Goes, campaignVars
  <2>2. NoTask.at # "customer"
    BY DEF NoTask
  <2> QED BY <1>1, <2>1, <2>2
<1>10. ASSUME NEW h \in Handlers, LeadLinked(h) PROVE LinkInv'
  <2> DEFINE q == [op |-> "enqueue", lead |-> task[h].lead]
             t == [at |-> "enqueued", lead |-> task[h].lead]
  <2>1. /\ UNCHANGED <<book, ledger, reply>> /\ AsksLedger(h, q) /\ task' = [task EXCEPT ![h] = t]
    BY <1>10 DEF LeadLinked, Answered, Goes, campaignVars
  <2>2. q.op = "enqueue" /\ t.at = "enqueued"
    OBVIOUS
  <2> HIDE DEF q, t
  <2>3. task'[h] = t /\ LinkedAsk(q, book, ledger)
    BY <1>0, <2>1, <2>2, LinksNothing
  <2> QED BY <1>2, <2>1, <2>2, <2>3
<1>11. ASSUME NEW h \in Handlers, CustomerLinked(h) PROVE LinkInv'
  <2> DEFINE q == [op |-> "store", lead |-> task[h].lead, row |-> reply[h]]
  <2>1. /\ UNCHANGED <<book, ledger, reply>> /\ task[h].at = "customer" /\ ask[h] = NoAsk
        /\ AsksLedger(h, q) /\ task' = [task EXCEPT ![h] = NoTask]
    BY <1>11 DEF CustomerLinked, Answered, Goes, campaignVars
  <2>2. LinkedTask(task[h], ask[h], reply[h], book, ledger)
    BY DEF LinkInv
  <2>3. LinkedAsk(q, book, ledger)
    BY <2>1, <2>2 DEF LinkedAsk, LinkedTask
  <2> HIDE DEF q
  <2>4. task'[h].at # "customer"
    BY <1>0, <2>1 DEF NoTask
  <2> QED BY <1>2, <2>1, <2>3, <2>4
<1>12. ASSUME NEW h \in Handlers, RetryLinks(h) PROVE LinkInv'
  <2> DEFINE t == [at |-> "retry", left |-> Unlinked, done |-> 0]
  <2>1. UNCHANGED <<book, ledger, ask, reply>> /\ task' = [task EXCEPT ![h] = t]
    BY <1>12 DEF RetryLinks, Goes, salesVars, campaignVars
  <2>2. t.at # "customer"
    OBVIOUS
  <2> HIDE DEF t
  <2> QED BY <1>1, <2>1, <2>2
<1>13. ASSUME NEW h \in Handlers, NEW q \in LedgerRequest, OperatorAsk(h, q) PROVE LinkInv'
  <2>1. /\ AsksLedger(h, q) /\ UNCHANGED <<book, ledger, reply>> /\ task[h] = NoTask
        /\ q.lead \in DOMAIN ledger.leads /\ q.op \in {"follow", "annotate", "convert", "sale"}
        /\ \/ UNCHANGED task
           \/ task' = [task EXCEPT ![h] = [at |-> "converted", lead |-> q.lead]]
    BY <1>13 DEF OperatorAsk, SalesRequest, Free, campaignVars
  <2>2. ASSUME q.op = "sale" PROVE LinkedAsk(q, book, ledger)
    <3>1. q.was = ledger.leads[q.lead] /\ q.existing = ActiveOutcome(q.lead)
      BY <1>13, <2>2 DEF OperatorAsk
    <3>2. CustomerOK(book, ledger.leads[q.lead])
      BY <2>1 DEF LinkInv, LinkedLead
    <3>3. q.existing # 0 => q.existing \in DOMAIN ledger.outcomes
                            /\ ledger.outcomes[q.existing].lead = q.lead
      BY <1>0, <3>1, ActiveOutcomeIs
    <3> QED BY <2>2, <3>1, <3>2, <3>3 DEF LinkedAsk
  <2>3. LinkedAsk(q, book, ledger)
    <3>1. q.op # "sale" => q.op \notin {"store", "sale"}
      BY <2>1
    <3> QED BY <2>2, <3>1, LinksNothing DEF LinkedAsk
  <2>4. task'[h].at # "customer"
    BY <1>0, <2>1 DEF NoTask
  <2> QED BY <1>2, <2>1, <2>3, <2>4
<1> QED BY <1>0, <1>4, <1>5, <1>6, <1>7, <1>8, <1>9, <1>10, <1>11, <1>12, <1>13, SalesActs DEF FormStep

\* A lead that was rewritten, but not its customer or its sale.
LEMMA LedgerLinksStay ==
    ASSUME ledger \in Ledger, LinkInv, NEW n, NEW l \in DOMAIN ledger.leads, NEW x,
           Rewritten(ledger, n, l, x), n.outcomes = ledger.outcomes,
           x.who = ledger.leads[l].who, x.key = ledger.leads[l].key, CustomerOK(book, x),
           x.sale = ledger.leads[l].sale
    PROVE  LedgerKeeps(ledger, n) /\ \A m \in DOMAIN n.leads : LinkedLead(m, book, n)
<1>1. LedgerKeeps(ledger, n)
  BY DEF LedgerKeeps, Rewritten
<1>2. ASSUME NEW m \in DOMAIN n.leads PROVE LinkedLead(m, book, n)
  <2>1. m \in DOMAIN ledger.leads /\ LinkedLead(m, book, ledger)
    BY DEF Rewritten, LinkInv
  <2>2. CASE m = l
    BY <2>1, <2>2 DEF Rewritten, LinkedLead
  <2>3. CASE m # l
    BY <2>1, <2>3 DEF Rewritten, LinkedLead
  <2> QED BY <2>2, <2>3
<1> QED BY <1>1, <1>2

LEMMA LedgerLinks ==
    ASSUME TypeInv, LinkInv, NEW q \in LedgerRequest, LinkedAsk(q, book, ledger),
           q.op \in NeedsLead => q.lead \in DOMAIN ledger.leads
    PROVE  LET n == LedgerResult(q) IN
           LedgerKeeps(ledger, n) /\ \A l \in DOMAIN n.leads : LinkedLead(l, book, n)
<1> DEFINE n == LedgerResult(q)
<1>0. TypeOK /\ ledger \in Ledger /\ LedgerResultOf(q, n) /\ q.op \in LedgerOps /\ now \in Nat
  BY LedgerResultIs, LedgerFields DEF TypeInv, TypeOK
<1> SUFFICES LedgerKeeps(ledger, n) /\ \A l \in DOMAIN n.leads : LinkedLead(l, book, n)
  OBVIOUS
<1> HIDE DEF n
<1>1. CASE n.leads = ledger.leads /\ n.outcomes = ledger.outcomes
  BY <1>1 DEF LedgerKeeps, LinkInv, LinkedLead
<1>2. CASE q.op = "create"
  <2>1. n = Created(ledger, q)
    BY <1>0, <1>2 DEF LedgerResultOf
  <2> DEFINE m == Len(ledger.leads) + 1
  <2>2. /\ n.outcomes = ledger.outcomes
        /\ \/ n = ledger
           \/ /\ DOMAIN n.leads = 1 .. m /\ \A l \in 1 .. m : l \in DOMAIN ledger.leads \/ l = m
              /\ \A l \in DOMAIN ledger.leads : l \in 1 .. m /\ n.leads[l] = ledger.leads[l]
              /\ n.leads[m].customer = "NONE" /\ n.leads[m].customerRow = 0 /\ n.leads[m].sale = 0
    BY <1>0, <1>2, <2>1, CreatedIs
  <2> HIDE DEF m
  <2>3. CASE n = ledger
    BY <1>1, <2>3
  <2>4. CASE n # ledger
    <3>1. LedgerKeeps(ledger, n)
      BY <2>2, <2>4 DEF LedgerKeeps
    <3>2. LinkedLead(m, book, n)
      BY <2>2, <2>4 DEF LinkedLead, CustomerOK
    <3>3. \A l \in DOMAIN ledger.leads : LinkedLead(l, book, n)
      BY <2>2, <2>4 DEF LinkInv, LinkedLead
    <3> QED BY <2>2, <2>4, <3>1, <3>2, <3>3
  <2> QED BY <2>3, <2>4
<1>3. CASE q.op \in {"follow", "annotate", "convert"}
  <2>1. q.lead \in DOMAIN ledger.leads
    BY <1>3 DEF NeedsLead
  <2>2. \E x \in Lead : /\ Rewritten(ledger, n, q.lead, x) /\ SameLinks(x, ledger.leads[q.lead])
                        /\ n.outcomes = ledger.outcomes
    BY <1>0, <1>3, <2>1, FollowedIs, AnnotatedIs, ConvertedIs DEF LedgerResultOf
  <2>3. PICK x \in Lead : /\ Rewritten(ledger, n, q.lead, x) /\ SameLinks(x, ledger.leads[q.lead])
                          /\ n.outcomes = ledger.outcomes
    BY <2>2
  <2>4. CustomerOK(book, ledger.leads[q.lead])
    BY <2>1 DEF LinkInv, LinkedLead
  <2>5. /\ CustomerOK(book, x) /\ x.who = ledger.leads[q.lead].who
        /\ x.key = ledger.leads[q.lead].key /\ x.sale = ledger.leads[q.lead].sale
    BY <2>3, <2>4 DEF SameLinks, CustomerOK
  <2> QED BY <1>0, <2>1, <2>3, <2>5, LedgerLinksStay
<1>4. CASE q.op = "store"
  <2>1. q.lead \in DOMAIN ledger.leads /\ n = Stored(ledger, q)
    BY <1>0, <1>4 DEF NeedsLead, LedgerResultOf
  <2>2. PICK x \in Lead :
          /\ Rewritten(ledger, Stored(ledger, q), q.lead, x) /\ Stored(ledger, q).outcomes = ledger.outcomes
          /\ x.who = ledger.leads[q.lead].who /\ x.key = ledger.leads[q.lead].key
          /\ x.sale = ledger.leads[q.lead].sale
          /\ q.row = 0 => x.customer = "ALREADY_RECORDED" /\ x.customerRow = ledger.leads[q.lead].customerRow
          /\ q.row # 0 => x.customer = "RECORDED" /\ x.customerRow = q.row
    BY <1>0, <1>4, <2>1, StoredIs
  <2>3. CustomerOK(book, ledger.leads[q.lead])
    BY <2>1 DEF LinkInv, LinkedLead
  <2>4. CustomerOK(book, x)
    <3>1. CASE q.row = 0
      BY <2>2, <2>3, <3>1 DEF CustomerOK
    <3>2. CASE q.row # 0
      BY <1>4, <2>2, <3>2 DEF CustomerOK, LinkedAsk
    <3> QED BY <3>1, <3>2
  <2> QED BY <1>0, <2>1, <2>2, <2>4, LedgerLinksStay
<1>5. CASE q.op = "sale"
  <2>1. q.lead \in DOMAIN ledger.leads /\ n = Sold(ledger, q)
    BY <1>0, <1>5 DEF NeedsLead, LedgerResultOf
  <2> DEFINE m == Len(ledger.outcomes) + 1
  <2>2. \E x \in Lead :
          /\ Rewritten(ledger, n, q.lead, x) /\ x.who = q.was.who /\ x.key = q.was.key /\ x.sale = m
          /\ x.customer = q.was.customer /\ x.customerRow = q.was.customerRow
          /\ DOMAIN n.outcomes = 1 .. m /\ m \in 1 .. m
          /\ n.outcomes[m].lead = q.lead /\ n.outcomes[m].status = "ACTIVE"
          /\ \A o \in DOMAIN ledger.outcomes :
              /\ o \in 1 .. m /\ n.outcomes[o].lead = ledger.outcomes[o].lead
              /\ o # q.existing => n.outcomes[o].status = ledger.outcomes[o].status
    BY <1>0, <1>5, <2>1, SoldIs
  <2> HIDE DEF m
  <2>3. PICK x \in Lead :
          /\ Rewritten(ledger, n, q.lead, x) /\ x.who = q.was.who /\ x.key = q.was.key /\ x.sale = m
          /\ x.customer = q.was.customer /\ x.customerRow = q.was.customerRow
          /\ DOMAIN n.outcomes = 1 .. m /\ m \in 1 .. m
          /\ n.outcomes[m].lead = q.lead /\ n.outcomes[m].status = "ACTIVE"
          /\ \A o \in DOMAIN ledger.outcomes :
              /\ o \in 1 .. m /\ n.outcomes[o].lead = ledger.outcomes[o].lead
              /\ o # q.existing => n.outcomes[o].status = ledger.outcomes[o].status
    BY <2>2
  <2>4. /\ x.who = ledger.leads[q.lead].who /\ x.key = ledger.leads[q.lead].key
        /\ CustomerOK(book, x)
    BY <1>5, <2>3 DEF LinkedAsk, CustomerOK
  <2>5. LedgerKeeps(ledger, n)
    BY <2>3, <2>4 DEF LedgerKeeps, Rewritten
  <2>6. LinkedLead(q.lead, book, n)
    BY <2>3, <2>4 DEF LinkedLead, Rewritten
  <2>7. ASSUME NEW l \in DOMAIN ledger.leads, l # q.lead PROVE LinkedLead(l, book, n)
    <3>1. n.leads[l] = ledger.leads[l] /\ LinkedLead(l, book, ledger)
      BY <2>3, <2>7 DEF Rewritten, LinkInv
    <3>2. ledger.leads[l].sale # 0 => ledger.leads[l].sale # q.existing
      <4>1. q.existing # 0 => ledger.outcomes[q.existing].lead = q.lead
        BY <1>5 DEF LinkedAsk
      <4> QED BY <2>7, <3>1, <4>1 DEF LinkedLead
    <3> QED BY <2>3, <3>1, <3>2 DEF LinkedLead
  <2>8. DOMAIN n.leads = DOMAIN ledger.leads
    BY <2>3 DEF Rewritten
  <2> QED BY <2>5, <2>6, <2>7, <2>8
<1>6. CASE q.op \in {"enqueue", "begin", "mark"}
  <2>1. CASE q.op = "enqueue"
    BY <1>0, <1>1, <2>1, EnqueuedIs DEF LedgerResultOf
  <2>2. CASE q.op = "begin"
    <3>1. RowRewritten(ledger, n, q.row)
      BY <1>0, <2>2, BegunIs DEF LedgerResultOf
    <3> QED BY <1>1, <3>1 DEF RowRewritten
  <2>3. CASE q.op = "mark"
    <3>1. RowRewritten(ledger, n, q.row)
      BY <1>0, <2>3, MarkedIs DEF LedgerResultOf
    <3> QED BY <1>1, <3>1 DEF RowRewritten
  <2> QED BY <1>6, <2>1, <2>2, <2>3
<1> QED BY <1>0, <1>2, <1>3, <1>4, <1>5, <1>6 DEF LedgerOps

LEMMA NotificationLinks ==
    ASSUME TypeInv, LinkInv,
           \/ LedgerTransact /\ UNCHANGED notificationVars
           \/ \E h \in Handlers : Dispatch(h) \/ DispatchAgain(h)
           \/ \E d \in Loops : CheckRow(d) \/ NotBegun(d) \/ Deliver(d) \/ Fail(d)
           \/ Crash
           \/ \E e \in recovering : Recover(e)
           \/ UNCHANGED vars
    PROVE  LinkInv'
<1> USE HandlersCall
<1>0. /\ TypeOK /\ Queued /\ NamesExist /\ task \in [Handlers -> Task] /\ RestOK /\ AsksOK
      /\ ask \in [Callers -> AskType] /\ ledger \in Ledger /\ recovering \subseteq [row : RowIds, doubt : BOOLEAN]
  BY TypeParts DEF TypeInv, RestOK, AsksOK
<1>1. CASE LedgerTransact /\ UNCHANGED notificationVars
  <2>1. PICK c \in Callers, q \in LedgerRequest : LedgerRuns(c, q)
    BY <1>1, LedgerTransactIs
  <2>2. /\ ask'[c] = NoAsk /\ q = ask[c] /\ UNCHANGED <<task, book>>
        /\ \A d \in Callers : d # c => ask'[d] = ask[d] /\ reply'[d] = reply[d]
        /\ ledger' = LedgerResult(q) \/ UNCHANGED ledger
    BY <2>1 DEF LedgerRuns, campaignVars
  <2>3. q.op \in NeedsLead => q.lead \in DOMAIN ledger.leads
    BY <1>0, <2>2 DEF NamesExist, NeedsLead
  <2>4. LinkedAsk(q, book, ledger)
    BY <2>2 DEF LinkInv
  <2>5. c \in Handlers => task[c].at # "customer"
    <3>1. q.op \in LedgerOps /\ q # NoAsk
      BY LedgerFields
    <3>2. c \in Handlers => LinkedTask(task[c], q, reply[c], book, ledger)
      BY <2>2 DEF LinkInv
    <3> QED BY <3>1, <3>2 DEF LinkedTask, LedgerOps
  <2>6. ASSUME NEW h \in Handlers
        PROVE  \/ task'[h] = task[h] /\ ask'[h] = ask[h] /\ reply'[h] = reply[h]
               \/ LinkedTask(task'[h], ask'[h], reply'[h], book', ledger')
    BY <1>0, <2>2, <2>5, LinksNothing
  <2>7. CASE UNCHANGED ledger
    BY <1>0, <2>2, <2>6, <2>7, LinksKeptBeside, LinksNothing, BookGrows
  <2>8. CASE ledger' = LedgerResult(q)
    <3>1. LedgerKeeps(ledger, ledger') /\ \A l \in DOMAIN ledger'.leads : LinkedLead(l, book', ledger')
      BY <2>2, <2>3, <2>4, <2>8, LedgerLinks
    <3> QED BY <1>0, <2>2, <2>6, <3>1, LinksKept, LinksNothing, BookGrows
  <2> QED BY <2>2, <2>7, <2>8
<1>2. ASSUME NEW h \in Handlers, Dispatch(h) \/ DispatchAgain(h) PROVE LinkInv'
  <2>1. UNCHANGED <<ledger, ask, reply, book>> /\ task' = [task EXCEPT ![h] = NoTask]
    BY <1>2 DEF Dispatch, DispatchAgain, DispatchOnly, Goes, salesVars, campaignVars
  <2> QED BY <1>0, <2>1, LinksKeptBeside, LinksNothing, BookGrows
<1>3. ASSUME NEW c \in Callers \ Handlers, NEW r \in RowIds, UNCHANGED <<ledger, reply, task, book>>,
             \/ UNCHANGED <<ask, ledgerQueue>>
             \/ AsksLedger(c, [op |-> "begin", row |-> r])
             \/ \E s \in {"PENDING", "SENT", "UNDELIVERABLE"} :
                    AsksLedger(c, [op |-> "mark", row |-> r, to |-> s])
      PROVE  LinkInv'
  <2>1. ASSUME NEW q, AsksLedger(c, q), q.op \in {"begin", "mark"} PROVE LinkInv'
    <3>1. LinkedAsk(q, book', ledger')
      BY <2>1, LinksNothing
    <3>2. ask'[c] = q /\ \A d \in Callers : d # c => ask'[d] = ask[d]
      BY <1>0, <2>1 DEF AsksLedger
    <3> QED BY <1>0, <1>3, <3>1, <3>2, LinksKeptBeside, BookGrows
  <2>2. CASE UNCHANGED <<ask, ledgerQueue>>
    BY <1>0, <1>3, <2>2, LinksKeptBeside, BookGrows
  <2> QED BY <1>3, <2>1, <2>2
<1>4. ASSUME NEW d \in Loops, CheckRow(d) \/ NotBegun(d) \/ Deliver(d) \/ Fail(d) PROVE LinkInv'
  <2>1. UNCHANGED <<ledger, reply, task, book>>
    BY <1>4, LoopActs DEF LoopOnly, campaignVars
  <2>2. d \in Callers \ Handlers /\ d[1] \in RowIds
    BY DEF Loops
  <2> QED BY <1>3, <1>4, <2>1, <2>2, LoopActs
<1>5. CASE Crash
  <2>1. /\ ask' = [c \in Callers |-> NoAsk] /\ task' = [h \in Handlers |-> NoTask]
        /\ UNCHANGED <<book, ledger>>
    BY <1>5 DEF Crash, Restarted
  <2> QED BY <1>0, <2>1, LinksKeptBeside, LinksNothing, BookGrows
<1>6. ASSUME NEW e \in recovering, Recover(e) PROVE LinkInv'
  <2>1. /\ UNCHANGED <<ledger, reply, task, book>> /\ e.row \in RowIds
        /\ UNCHANGED <<ask, ledgerQueue>> \/ AsksLedger(Boot, [op |-> "mark", row |-> e.row, to |-> "UNDELIVERABLE"])
    BY <1>0, <1>6 DEF Recover, Marks, campaignVars
  <2> QED BY <1>3, <2>1
<1>7. CASE UNCHANGED vars
  <2>1. UNCHANGED <<book, ledger, ask, reply, task>>
    BY <1>7 DEF vars, campaignVars, sharedVars, salesVars
  <2> QED BY <1>0, <2>1, LinksKeptBeside, BookGrows
<1> QED BY <1>1, <1>2, <1>4, <1>5, <1>6, <1>7

LEMMA LinkStep == TypeInv /\ LinkInv /\ [Next]_vars => LinkInv'
BY CampaignLinks, SalesLinks, NotificationLinks DEF Next

LEMMA LinkStart == Init => LinkInv
<1> SUFFICES ASSUME Init PROVE LinkInv
  OBVIOUS
<1>1. /\ ask = [c \in Callers |-> NoAsk] /\ task = [h \in Handlers |-> NoTask]
      /\ ledger = NoLedger \/ ledger = OldLedger
  BY DEF Init
<1>2. \A l \in DOMAIN ledger.leads : ledger.leads[l] = OldLead
  BY <1>1, EmptyLedgerIs, OldLedgerIs
<1>3. \A l \in DOMAIN ledger.leads : LinkedLead(l, book, ledger)
  BY <1>2, OldLeadIs DEF LinkedLead, CustomerOK
<1> QED BY <1>1, <1>3, LinksNothing, HandlersCall DEF LinkInv

(* What a lead names exists and is its own: the outcome of its sale is in force, *)
(* although another sale of that lead, decided on the same rows, may be written   *)
(* in between, and its conversion is a CUSTOMER row of that very customer in the   *)
(* document of the campaigns, which a crash or a refused write may separate from   *)
(* the lead at any point (recordSale, convertToCustomer, linkCustomerToPhase8).    *)
THEOREM LinksAlwaysHold == Spec => []LinksHold
<1>1. LinkInv => LinksHold
  BY DEF LinkInv, LinkedLead, CustomerOK, IsCustomer, LinksHold
<1> QED BY <1>1, TypeInvStart, TypeInvStep, LinkStart, LinkStep, PTL DEF Spec
-----------------------------------------------------------------------------
(* Steps that are about no form, no new lead and no news *)

LEMMA BesideAre ==
    /\ Beside(NoAsk) /\ \A q \in BookRequest : Beside(q) /\ q # NoAsk
    /\ Aside(NoTask)
<1>1. Beside(NoAsk) /\ Aside(NoTask)
  BY DEF Beside, NoAsk, Aside, NoTask
<1>2. \A q \in BookRequest : Beside(q) /\ q # NoAsk
  BY BookFields, OneDocument DEF Beside, BookOps
<1> QED BY <1>1, <1>2

\* One handler, or a request to a link, asks for a transaction; nothing else happens.
LEMMA AskIsElsewhere ==
    ASSUME TypeOK, UNCHANGED <<ledger, loop, recovering, received, again, forms, opened, faults>>,
           budget'.forms = budget.forms,
           NEW c \in Handlers \cup {Web}, ask' = ask \/ (\E q : Beside(q) /\ ask' = [ask EXCEPT ![c] = q]),
           ask[c] = NoAsk, reply' = reply \/ (\E a : reply' = [reply EXCEPT ![c] = a]),
           \/ UNCHANGED task /\ (c \in Handlers => Aside(task[c]))
           \/ /\ c \in Handlers /\ Aside(task[c])
              /\ \E t : Aside(t) /\ task' = [task EXCEPT ![c] = t]
    PROVE  Elsewhere
<1>0. /\ ask \in [Callers -> AskType] /\ reply \in [Callers -> Int \cup {None}]
      /\ task \in [Handlers -> Task]
  BY DEF TypeOK, AskType
<1>1. \A d \in Callers : /\ d # c => ask'[d] = ask[d] /\ reply'[d] = reply[d]
                         /\ ask'[d] = ask[d] \/ (Beside(ask[d]) /\ Beside(ask'[d]))
  <2>1. ASSUME NEW d \in Callers, d # c PROVE ask'[d] = ask[d] /\ reply'[d] = reply[d]
    BY <1>0, <2>1
  <2>2. c \in Callers /\ (ask'[c] = ask[c] \/ (Beside(ask[c]) /\ Beside(ask'[c])))
    <3>1. c \in Callers
      BY HandlersCall
    <3>2. CASE ask' = ask
      BY <3>1, <3>2
    <3>3. ASSUME NEW q, Beside(q), ask' = [ask EXCEPT ![c] = q]
          PROVE  Beside(ask[c]) /\ Beside(ask'[c])
      BY <1>0, <3>1, <3>3, BesideAre
    <3> QED BY <3>1, <3>2, <3>3
  <2> QED BY <2>1, <2>2
<1>2. \A d \in Loops : d \in Callers /\ d # c
  BY HandlersCall
<1>3. ASSUME NEW h \in Handlers
      PROVE  \/ task'[h] = task[h] /\ ask'[h] = ask[h] /\ reply'[h] = reply[h]
             \/ Aside(task[h]) /\ Aside(task'[h])
  <2>1. h \in Callers
    BY HandlersCall
  <2>2. CASE h # c
    BY <1>0, <1>1, <2>1, <2>2
  <2>3. CASE h = c
    BY <1>0, <2>3
  <2> QED BY <2>2, <2>3
<1> QED BY <1>1, <1>2, <1>3 DEF Elsewhere

LEMMA CampaignElsewhere ==
    ASSUME TypeInv, CampaignStep, UNCHANGED <<salesVars, notificationVars>>
    PROVE  Elsewhere
<1> USE HandlersCall
<1>0. /\ TypeOK /\ NamesExist /\ task \in [Handlers -> Task] /\ ask \in [Callers -> AskType]
      /\ UNCHANGED <<ledger, ledgerQueue, loop, recovering, received, again, forms, opened>>
  BY DEF TypeInv, TypeOK, AskType, salesVars, notificationVars
<1>1. \A p \in People : Aside([at |-> "membership", who |-> p])
  BY DEF Aside
<1>2. ASSUME NEW c \in Handlers \cup {Web}, NEW q \in BookRequest, CampaignAsk(c, q)
      PROVE  Elsewhere
  <2>1. /\ ask[c] = NoAsk /\ AsksBook(c, q) /\ UNCHANGED <<book, reply, faults>>
        /\ c \in Handlers => task[c] = NoTask
        /\ Spend({"requests", "campaigns"})
        /\ \/ UNCHANGED task
           \/ \E p \in People : c = Home[p] /\ task' = [task EXCEPT ![c] = [at |-> "membership", who |-> p]]
    BY <1>2 DEF CampaignAsk, CampaignRequest, Free
  <2>2. budget'.forms = budget.forms
    BY <1>0, <2>1, SpendIs
  <2>3. Beside(q) /\ ask' = [ask EXCEPT ![c] = q] /\ (c \in Handlers => Aside(task[c]))
    BY <2>1, BesideAre DEF AsksBook
  <2>4. CASE UNCHANGED task
    BY <1>0, <2>1, <2>2, <2>3, <2>4, AskIsElsewhere
  <2>5. CASE \E p \in People : c = Home[p] /\ task' = [task EXCEPT ![c] = [at |-> "membership", who |-> p]]
    <3>1. c \in Handlers /\ \E t : Aside(t) /\ task' = [task EXCEPT ![c] = t]
      BY <1>1, <2>5
    <3> QED BY <1>0, <2>1, <2>2, <2>3, <3>1, AskIsElsewhere
  <2> QED BY <2>1, <2>4, <2>5
<1>3. ASSUME NEW h \in Handlers, NEW q \in BookRequest, Observation(h, q)
      PROVE  Elsewhere
  <2>1. /\ ask[h] = NoAsk /\ AsksBook(h, q) /\ task[h].at = "membership"
        /\ task' = [task EXCEPT ![h] = NoTask] /\ UNCHANGED <<book, reply, budget, faults>>
    BY <1>3 DEF Observation
  <2>2. Aside(task[h]) /\ Aside(NoTask) /\ Beside(q) /\ ask' = [ask EXCEPT ![h] = q]
    BY <2>1, BesideAre DEF AsksBook, Aside
  <2> QED BY <1>0, <2>1, <2>2, AskIsElsewhere
<1>4. ASSUME NEW h \in Handlers, NoObservation(h)
      PROVE  Elsewhere
  <2>1. /\ ask[h] = NoAsk /\ UNCHANGED ask /\ task[h].at = "membership"
        /\ task' = [task EXCEPT ![h] = NoTask] /\ UNCHANGED <<book, reply, budget, faults>>
    BY <1>4 DEF NoObservation
  <2>2. Aside(task[h]) /\ Aside(NoTask)
    BY <2>1, BesideAre DEF Aside
  <2> QED BY <1>0, <2>1, <2>2, AskIsElsewhere
<1>5. CASE BookTransact
  <2>1. PICK c \in Callers, q \in BookRequest : BookRuns(c, q)
    BY <1>0, <1>5, BookTransactIs
  <2>2. /\ ask'[c] = NoAsk /\ q = ask[c] /\ UNCHANGED <<task, budget>>
        /\ \A d \in Callers : d # c => ask'[d] = ask[d] /\ reply'[d] = reply[d]
        /\ UNCHANGED faults \/ Faulty("write")
    BY <2>1 DEF BookRuns
  <2>3. Beside(ask[c]) /\ Beside(ask'[c]) /\ ask[c] # NoAsk
    BY <2>2, BesideAre
  <2>4. /\ faults'["lost"] = faults["lost"] /\ faults'["crash"] = faults["crash"]
        /\ faults'["write"] = 0 => faults["write"] = 0
    <3>1. faults \in [Kinds -> Nat]
      BY <1>0 DEF TypeOK
    <3> QED BY <1>0, <2>2, <3>1, FaultyIs DEF Kinds
  <2>5. c \in Handlers => Aside(task[c]) \/ task[c].at \in {"linked", "enqueued"}
    <3>1. c \in Handlers /\ task[c].at = "created" => ask[c] = NoAsk \/ ask[c].op = "create"
      BY <1>0 DEF NamesExist
    <3> QED BY <2>3, <3>1 DEF Aside, Beside
  <2>6. ASSUME NEW d \in Loops PROVE (ask'[d] = ask[d] /\ reply'[d] = reply[d]) \/ d = c
    BY <2>2
  <2>7. ASSUME NEW h \in Handlers
        PROVE  \/ task'[h] = task[h] /\ ask'[h] = ask[h] /\ reply'[h] = reply[h]
               \/ task'[h] = task[h] /\ task[h].at \in {"linked", "enqueued"}
               \/ Aside(task[h]) /\ Aside(task'[h])
    BY <2>2, <2>5
  <2>8. \A d \in Callers : ask'[d] = ask[d] \/ (Beside(ask[d]) /\ Beside(ask'[d]))
    BY <2>2, <2>3
  <2> QED BY <1>0, <2>2, <2>3, <2>4, <2>6, <2>7, <2>8 DEF Elsewhere
<1>6. CASE Tick
  <2>1. UNCHANGED <<ask, reply, task, faults>> /\ Spend({"ticks"})
    BY <1>6 DEF Tick
  <2>2. budget'.forms = budget.forms
    BY <1>0, <2>1, SpendIs
  <2> QED BY <1>0, <2>1, <2>2 DEF Elsewhere
<1> QED BY <1>0, <1>2, <1>3, <1>4, <1>5, <1>6, CampaignActs

LEMMA SalesElsewhere ==
    ASSUME TypeInv, NEW h \in Handlers, UNCHANGED notificationVars,
           \/ LeadConverted(h) \/ CustomerLinked(h) \/ RetryLinks(h) \/ RetryNext(h)
           \/ \E q \in LedgerRequest : OperatorAsk(h, q)
    PROVE  Elsewhere
<1>0. /\ TypeOK /\ UNCHANGED <<loop, recovering, received, again>>
      /\ Aside(NoTask)
      /\ \A l : Aside([at |-> "converted", lead |-> l]) /\ Aside([at |-> "customer", lead |-> l])
      /\ \A l, d : Aside([at |-> "retry", left |-> l, done |-> d])
  BY DEF TypeInv, notificationVars, Aside, NoTask
<1>1. ASSUME NEW type, NEW p, NEW t, Links(h, type, p, t), UNCHANGED salesVars, ask[h] = NoAsk,
             Aside(task[h]), NEW next, Aside(next), task' = [task EXCEPT ![h] = next]
      PROVE  Elsewhere
  <2>1. /\ UNCHANGED <<faults, budget, ledger, forms, opened>>
        /\ \/ AsksBook(h, RegisterAsk(type, p, t)) /\ UNCHANGED reply
           \/ reply' = [reply EXCEPT ![h] = 0] /\ UNCHANGED <<ask, bookQueue>>
        /\ RegisterAsk(type, p, t) \in BookRequest
    BY <1>1 DEF Links, salesVars
  <2>2. /\ ask' = ask \/ (\E q : Beside(q) /\ ask' = [ask EXCEPT ![h] = q])
        /\ reply' = reply \/ (\E a : reply' = [reply EXCEPT ![h] = a])
    <3>1. Beside(RegisterAsk(type, p, t))
      BY <2>1, BesideAre
    <3> QED BY <2>1, <3>1 DEF AsksBook
  <2> QED BY <1>0, <1>1, <2>1, <2>2, AskIsElsewhere
<1>2. ASSUME LeadConverted(h) PROVE Elsewhere
  <2>1. task[h].at = "converted" /\ ask[h] = NoAsk /\ UNCHANGED salesVars
    BY <1>2, LeadActs
  <2>2. Aside(task[h])
    BY <2>1 DEF Aside
  <2>3. CASE task' = [task EXCEPT ![h] = NoTask] /\ UNCHANGED <<ask, reply, faults, budget, campaignVars>>
    <3>1. UNCHANGED <<ledger, forms, opened>>
      BY <2>1 DEF salesVars
    <3> QED BY <1>0, <2>1, <2>2, <2>3, <3>1, AskIsElsewhere
  <2>4. CASE /\ Links(h, "CUSTOMER", ledger.leads[task[h].lead].who, ledger.leads[task[h].lead].converted)
             /\ task' = [task EXCEPT ![h] = [at |-> "customer", lead |-> task[h].lead]]
    BY <1>0, <1>1, <2>1, <2>2, <2>4
  <2> QED BY <1>2, <2>3, <2>4, LeadActs
<1>3. ASSUME RetryNext(h) PROVE Elsewhere
  <2>1. /\ task[h].at = "retry" /\ ask[h] = NoAsk /\ UNCHANGED salesVars
        /\ \E type \in ConversionTypes, p \in People, t \in Nat, l \in SUBSET DOMAIN ledger.leads,
              d \in {0, 1} :
            /\ Links(h, type, p, t)
            /\ task' = [task EXCEPT ![h] = [at |-> "retry", left |-> l, done |-> d]]
            /\ [at |-> "retry", left |-> l, done |-> d] \in Task
    BY <1>3, LeadActs
  <2>2. Aside(task[h])
    BY <2>1 DEF Aside
  <2>3. PICK type \in ConversionTypes, p \in People, t \in Nat, l \in SUBSET DOMAIN ledger.leads,
             d \in {0, 1} :
            /\ Links(h, type, p, t)
            /\ task' = [task EXCEPT ![h] = [at |-> "retry", left |-> l, done |-> d]]
            /\ [at |-> "retry", left |-> l, done |-> d] \in Task
    BY <2>1
  <2> QED BY <1>0, <1>1, <2>1, <2>2, <2>3
<1>4. ASSUME CustomerLinked(h) PROVE Elsewhere
  <2> DEFINE q == [op |-> "store", lead |-> task[h].lead, row |-> reply[h]]
  <2>1. /\ task[h].at = "customer" /\ ask[h] = NoAsk /\ ask' = [ask EXCEPT ![h] = q]
        /\ task' = [task EXCEPT ![h] = NoTask]
        /\ UNCHANGED <<ledger, forms, opened, reply, faults, budget>>
    BY <1>4 DEF CustomerLinked, Answered, Goes, AsksLedger
  <2>2. Beside(q) /\ Aside(task[h])
    BY <2>1 DEF Beside, Aside
  <2> HIDE DEF q
  <2> QED BY <1>0, <2>1, <2>2, AskIsElsewhere
<1>5. ASSUME RetryLinks(h) PROVE Elsewhere
  <2> DEFINE t == [at |-> "retry", left |-> Unlinked, done |-> 0]
  <2>1. /\ task[h] = NoTask /\ ask[h] = NoAsk /\ Spend({"requests"})
        /\ task' = [task EXCEPT ![h] = t]
        /\ UNCHANGED <<ledger, forms, opened, ask, reply, faults>>
    BY <1>5 DEF RetryLinks, Free, Goes, salesVars
  <2>2. budget'.forms = budget.forms /\ Aside(t)
    BY <1>0, <2>1, SpendIs
  <2> HIDE DEF t
  <2> QED BY <1>0, <2>1, <2>2, AskIsElsewhere
<1>6. ASSUME NEW q \in LedgerRequest, OperatorAsk(h, q) PROVE Elsewhere
  <2>1. /\ task[h] = NoTask /\ ask[h] = NoAsk /\ Spend({"requests"})
        /\ ask' = [ask EXCEPT ![h] = q]
        /\ q.op \in {"follow", "annotate", "convert", "sale"}
        /\ \/ UNCHANGED task
           \/ task' = [task EXCEPT ![h] = [at |-> "converted", lead |-> q.lead]]
        /\ UNCHANGED <<ledger, forms, opened, reply, faults>>
    BY <1>6 DEF OperatorAsk, SalesRequest, Free, AsksLedger
  <2>2. budget'.forms = budget.forms /\ Beside(q)
    BY <1>0, <2>1, SpendIs DEF Beside
  <2> QED BY <1>0, <2>1, <2>2, AskIsElsewhere
<1> QED BY <1>2, <1>3, <1>4, <1>5, <1>6

LEMMA LedgerElsewhere ==
    ASSUME TypeInv, LinkInv, NEW c \in Callers, NEW q \in LedgerRequest, LedgerRuns(c, q), Beside(q),
           UNCHANGED notificationVars
    PROVE  Elsewhere
<1> USE HandlersCall
<1>0. /\ TypeOK /\ NamesExist /\ q.op \in LedgerOps /\ ledger \in Ledger
      /\ q.op \in {"follow", "annotate", "convert", "store", "sale"}
  BY LedgerFields DEF TypeInv, TypeOK, Beside, LedgerOps
<1>1. /\ ask'[c] = NoAsk /\ q = ask[c]
      /\ UNCHANGED <<task, budget, forms, opened, loop, recovering, received, again>>
      /\ \A d \in Callers : d # c => ask'[d] = ask[d] /\ reply'[d] = reply[d]
      /\ \/ ledger' = LedgerResult(q) /\ UNCHANGED faults
         \/ UNCHANGED ledger /\ Faulty("write")
  BY DEF LedgerRuns, notificationVars
<1>2. Beside(ask[c]) /\ Beside(ask'[c]) /\ ask[c] # NoAsk
  BY <1>1, BesideAre, OneDocument
<1>3. /\ faults'["lost"] = faults["lost"] /\ faults'["crash"] = faults["crash"]
      /\ faults'["write"] = 0 => faults["write"] = 0
  <2>1. faults \in [Kinds -> Nat]
    BY <1>0 DEF TypeOK
  <2> QED BY <1>0, <1>1, <2>1, FaultyIs DEF Kinds
<1>4. /\ ledger'.rows = ledger.rows /\ DOMAIN ledger'.leads = DOMAIN ledger.leads
      /\ \A l \in DOMAIN ledger.leads : ledger'.leads[l].key = ledger.leads[l].key
  <2>1. CASE UNCHANGED ledger
    BY <2>1
  <2>2. CASE ledger' = LedgerResult(q)
    <3>1. q.lead \in DOMAIN ledger.leads
      BY <1>0, <1>1 DEF NamesExist
    <3>2. LinkedAsk(q, book, ledger)
      BY <1>1 DEF LinkInv
    <3>3. LedgerKeeps(ledger, ledger')
      BY <2>2, <3>1, <3>2, LedgerLinks
    <3>4. ledger' \in Ledger /\ LedgerResultOf(q, ledger')
      BY <1>0, <2>2, <3>1, LedgerResultIs
    <3>5. \E x \in Lead : Rewritten(ledger, ledger', q.lead, x)
      <4>1. CASE q.op \in {"follow", "annotate", "convert"}
        <5>1. now \in Nat
          BY <1>0 DEF TypeOK
        <5> QED BY <1>0, <3>1, <3>4, <4>1, <5>1, FollowedIs, AnnotatedIs, ConvertedIs DEF LedgerResultOf
      <4>2. CASE q.op = "store"
        BY <1>0, <3>1, <3>4, <4>2, StoredIs DEF LedgerResultOf
      <4>3. CASE q.op = "sale"
        BY <1>0, <3>1, <3>4, <4>3, SoldIs DEF LedgerResultOf
      <4> QED BY <1>0, <4>1, <4>2, <4>3
    <3> QED BY <3>3, <3>5 DEF LedgerKeeps, Rewritten
  <2> QED BY <1>1, <2>1, <2>2
<1>5. c \in Handlers => Aside(task[c]) \/ task[c].at \in {"linked", "enqueued"}
  <2>1. c \in Handlers /\ task[c].at = "created" => ask[c] = NoAsk \/ ask[c].op = "create"
    BY <1>0 DEF NamesExist
  <2> QED BY <1>2, <2>1 DEF Aside, Beside
<1>6. ASSUME NEW d \in Loops PROVE (ask'[d] = ask[d] /\ reply'[d] = reply[d]) \/ d = c
  BY <1>1
<1>7. ASSUME NEW h \in Handlers
      PROVE  \/ task'[h] = task[h] /\ ask'[h] = ask[h] /\ reply'[h] = reply[h]
             \/ task'[h] = task[h] /\ task[h].at \in {"linked", "enqueued"}
             \/ Aside(task[h]) /\ Aside(task'[h])
  BY <1>1, <1>5
<1>8. \A d \in Callers : ask'[d] = ask[d] \/ (Beside(ask[d]) /\ Beside(ask'[d]))
  BY <1>1, <1>2
<1> QED BY <1>1, <1>2, <1>3, <1>4, <1>6, <1>7, <1>8 DEF Elsewhere

LEMMA NothingIsElsewhere ==
    ASSUME UNCHANGED vars
    PROVE  Elsewhere
BY DEF Elsewhere, vars, campaignVars, sharedVars, salesVars, notificationVars

\* What a step is, where it is not elsewhere.
LEMMA StepsAre ==
    ASSUME TypeInv, LinkInv, [Next]_vars
    PROVE  \/ Elsewhere
           \/ \E p \in People :
                /\ OpenForm(p) \/ Answer(p) \/ SkipDescription(p) \/ EditForm(p) \/ LeaveForm(p) \/ Confirm(p)
                /\ UNCHANGED notificationVars
           \/ \E h \in Handlers :
                /\ LeadStored(h) \/ LeadRefused(h) \/ LeadLinked(h)
                /\ UNCHANGED notificationVars
           \/ \E c \in Callers, q \in LedgerRequest :
                LedgerRuns(c, q) /\ ~ Beside(q) /\ UNCHANGED notificationVars
           \/ \E h \in Handlers : Dispatch(h) \/ DispatchAgain(h)
           \/ \E d \in Loops : CheckRow(d) \/ NotBegun(d) \/ Deliver(d) \/ Fail(d)
           \/ Crash
           \/ \E e \in recovering : Recover(e)
<1>0. TypeOK
  BY DEF TypeInv
<1>1. CASE Serving /\ CampaignStep /\ UNCHANGED <<salesVars, notificationVars>>
  BY <1>1, CampaignElsewhere
<1>2. CASE Serving /\ FormStep /\ UNCHANGED notificationVars
  BY <1>2 DEF FormStep
<1>3. CASE Serving /\ SalesStep /\ UNCHANGED notificationVars
  BY <1>0, <1>3, SalesActs, SalesElsewhere
<1>4. CASE LedgerTransact /\ UNCHANGED notificationVars
  BY <1>4, LedgerTransactIs, LedgerElsewhere
<1>5. CASE UNCHANGED vars
  BY <1>5, NothingIsElsewhere
<1> QED BY <1>1, <1>2, <1>3, <1>4, <1>5 DEF Next

-----------------------------------------------------------------------------
(* Forms and their leads *)

LEMMA KeysKept ==
    ASSUME KeysOK, opened' = opened, budget'.forms = budget.forms,
           DOMAIN ledger'.leads = DOMAIN ledger.leads,
           \A l \in DOMAIN ledger.leads : ledger'.leads[l].key = ledger.leads[l].key,
           \A p \in People : HasForm(p)' => HasForm(p) /\ forms'[p].key = forms[p].key
    PROVE  KeysOK'
BY DEF KeysOK

LEMMA FormsKept ==
    ASSUME TypeInv, FormInv, FormsRest
    PROVE  FormInv'
<1> USE HandlersCall
<1>0. TypeOK /\ NamesExist /\ task \in [Handlers -> Task]
  BY DEF TypeInv, TypeOK
<1>1. KeysOK'
  <2>1. \A p \in People : HasForm(p)' => HasForm(p) /\ forms'[p].key = forms[p].key
    BY DEF FormsRest, HasForm
  <2> QED BY <2>1, KeysKept DEF FormInv, FormsRest
<1>2. ASSUME NEW h \in Handlers, task[h].at \in {"created", "linked"}
      PROVE  /\ task'[h] = task[h] /\ Home[task[h].who] = h /\ HasForm(task[h].who)'
             /\ forms'[task[h].who].key = forms[task[h].who].key
             /\ task[h].at = "created" => ask'[h] = ask[h] /\ reply'[h] = reply[h]
  <2>1. /\ task'[h] = task[h] /\ (task[h].at = "created" => ask'[h] = ask[h] /\ reply'[h] = reply[h])
        /\ Home[task[h].who] = h /\ HasForm(task[h].who)
    BY <1>2 DEF FormInv, FormsRest, FormStays
  <2>2. task[h].who \in People
    BY <1>0, <1>2, TaskFields
  <2> QED BY <2>1, <2>2 DEF FormsRest, HasForm
<1>3. ASSUME NEW h \in Handlers, ~ Aside(task'[h])
      PROVE  /\ task'[h] = task[h]
             /\ \A l : (Storing(h, l)' <=> Storing(h, l)) /\ (Enqueuing(h, l)' <=> Enqueuing(h, l))
  <2>1. task'[h] = task[h] /\ (task[h].at = "created" => ask'[h] = ask[h] /\ reply'[h] = reply[h])
    BY <1>3 DEF FormsRest
  <2> QED BY <2>1 DEF Storing, Enqueuing
<1>4. ASSUME NEW h \in Handlers, Aside(task'[h])
      PROVE  \A l : ~ Storing(h, l)' /\ ~ Enqueuing(h, l)'
  BY <1>4 DEF Storing, Enqueuing, Aside
<1>5. ASSUME NEW h \in Handlers PROVE FormStays(h)'
  <2>1. CASE Aside(task'[h])
    BY <1>4, <2>1 DEF FormStays, Aside
  <2>2. CASE ~ Aside(task'[h])
    <3>1. FormStays(h) /\ task'[h] = task[h]
      BY <1>3, <2>2 DEF FormInv
    <3>2. CASE task[h].at \in {"created", "linked"}
      <4>1. \A l : Storing(h, l)' => Storing(h, l)
        BY <1>3, <2>2
      <4>2. \A l : ~ Enqueuing(h, l)'
        BY <3>1, <3>2 DEF Enqueuing
      <4> QED BY <1>2, <3>1, <3>2, <4>1, <4>2 DEF FormStays, FormsRest
    <3>3. CASE task[h].at = "enqueued"
      <4>1. \A l : ~ Storing(h, l)'
        BY <3>1, <3>3 DEF Storing
      <4>2. \A l : Enqueuing(h, l)' => Enqueuing(h, l)
        BY <1>3, <2>2
      <4>3. \A p \in People : HasForm(p)' => HasForm(p) /\ forms'[p].key = forms[p].key
        BY DEF FormsRest, HasForm
      <4> QED BY <3>1, <3>3, <4>1, <4>2, <4>3 DEF FormStays, FormsRest
    <3> QED BY <2>2, <3>1, <3>2, <3>3 DEF Aside
  <2> QED BY <2>1, <2>2
<1>6. FormGoes'
  <2>1. ASSUME NEW p \in People, NEW l \in DOMAIN ledger'.leads, HasForm(p)',
               forms'[p].key = ledger'.leads[l].key
        PROVE  Storing(Home[p], l)' /\ task'[Home[p]].who = p
    <3>1. l \in DOMAIN ledger.leads /\ HasForm(p) /\ forms[p].key = ledger.leads[l].key
      BY <2>1 DEF FormsRest, HasForm
    <3>2. Storing(Home[p], l) /\ task[Home[p]].who = p
      BY <3>1 DEF FormInv, FormGoes
    <3>3. task[Home[p]].at \in {"created", "linked"} /\ Home[p] \in Handlers
      BY <3>2 DEF Storing
    <3>4. task'[Home[p]] = task[Home[p]]
      BY <1>2, <3>3
    <3>5. ~ Aside(task'[Home[p]])
      BY <3>3, <3>4 DEF Aside
    <3> QED BY <1>3, <3>2, <3>3, <3>4, <3>5
  <2> QED BY <2>1 DEF FormGoes
<1>7. EnqueuedOnce'
  <2>1. \A h \in Handlers : \A l : Enqueuing(h, l)' => Enqueuing(h, l)
    BY <1>3, <1>4
  <2> QED BY <2>1 DEF EnqueuedOnce, FormInv, FormsRest
<1>8. CreatesAlone'
  <2>1. ASSUME NEW c \in Callers, ask'[c].op = "create"
        PROVE  c \in Handlers /\ task'[c].at = "created"
    <3>1. c \in Handlers /\ task[c].at = "created"
      BY <2>1 DEF FormInv, FormsRest, CreatesAlone
    <3> QED BY <1>2, <3>1
  <2> QED BY <2>1 DEF CreatesAlone
<1> QED BY <1>1, <1>5, <1>6, <1>7, <1>8 DEF FormInv

LEMMA ElsewhereForms ==
    ASSUME TypeInv, FormInv, Elsewhere
    PROVE  FormInv'
<1>1. ASSUME NEW c \in Callers, ask'[c].op = "create" PROVE ask'[c] = ask[c]
  BY <1>1 DEF Elsewhere, Beside
<1>2. FormsRest
  BY <1>1 DEF Elsewhere, FormsRest, Aside
<1> QED BY <1>2, FormsKept

\* A form is opened, dropped or filled while its platform waits for nothing.
LEMMA FormFormsKept ==
    ASSUME TypeInv, FormInv, NEW p \in People,
           OpenForm(p) \/ Answer(p) \/ SkipDescription(p) \/ EditForm(p) \/ LeaveForm(p)
    PROVE  FormInv'
<1> USE HandlersCall
<1>0. /\ TypeOK /\ NamesExist /\ task \in [Handlers -> Task] /\ forms \in [People -> Form \cup {NoForm}]
      /\ UNCHANGED <<ledger, ask, reply, task>> /\ Free(Home[p]) /\ opened \in Nat
  BY DEF TypeInv, TypeOK, OpenForm, Answer, SkipDescription, EditForm, LeaveForm, FormKept, FormOnly
<1>1. \A h \in Handlers : task[h].at \in {"created", "linked"} => task[h].who \in People /\ task[h].who # p
  <2>1. ASSUME NEW h \in Handlers, task[h].at \in {"created", "linked"}
        PROVE  task[h].who \in People /\ task[h].who # p
    <3>1. task[h].who \in People /\ Home[task[h].who] = h
      BY <1>0, <2>1, TaskFields DEF FormInv, FormStays
    <3>2. task[Home[p]].at = "idle"
      BY <1>0 DEF Free, NoTask
    <3> QED BY <2>1, <3>1, <3>2
  <2> QED BY <2>1
<1>2. \A h \in Handlers : \A l : /\ Storing(h, l)' <=> Storing(h, l)
                                 /\ Enqueuing(h, l)' <=> Enqueuing(h, l)
  BY <1>0 DEF Storing, Enqueuing
<1>3. ASSUME \A o \in People : o # p => forms'[o] = forms[o],
             HasForm(p)' => \A l \in DOMAIN ledger.leads : forms'[p].key # ledger.leads[l].key,
             KeysOK'
      PROVE  FormInv'
  <2>1. ASSUME NEW h \in Handlers PROVE FormStays(h)'
    <3>1. FormStays(h)
      BY DEF FormInv
    <3>2. CASE task[h].at \in {"created", "linked"}
      <4>1. forms'[task[h].who] = forms[task[h].who] /\ \A l : ~ Enqueuing(h, l)'
        BY <1>0, <1>1, <1>3, <3>2 DEF Enqueuing
      <4> QED BY <1>0, <1>2, <3>1, <3>2, <4>1 DEF FormStays, HasForm
    <3>3. CASE task[h].at \notin {"created", "linked"}
      <4>1. \A l : ~ Storing(h, l)'
        BY <1>0, <3>3 DEF Storing
      <4> QED BY <1>0, <1>2, <1>3, <3>1, <3>3, <4>1 DEF FormStays, HasForm
    <3> QED BY <3>2, <3>3
  <2>2. FormGoes'
    BY <1>0, <1>2, <1>3 DEF FormInv, FormGoes, HasForm
  <2>3. EnqueuedOnce' /\ CreatesAlone'
    BY <1>0, <1>2 DEF FormInv, EnqueuedOnce, CreatesAlone
  <2> QED BY <1>3, <2>1, <2>2, <2>3 DEF FormInv
<1>4. CASE OpenForm(p)
  <2>1. /\ opened' = opened + 1 /\ forms' = [forms EXCEPT ![p] = EmptyForm(opened')]
        /\ Spend({"requests", "forms"})
    BY <1>4 DEF OpenForm
  <2>2. budget.forms > 0 /\ budget'.forms = budget.forms - 1 /\ budget.forms \in Nat
    <3>1. budget \in Budget
      BY <1>0 DEF TypeOK, Budget
    <3>2. budget.forms > 0 /\ budget'.forms = budget.forms - 1
      BY <1>0, <2>1, SpendIs
    <3> QED BY <3>1, <3>2 DEF Budget
  <2>3. /\ forms'[p].key = opened + 1 /\ \A o \in People : o # p => forms'[o] = forms[o]
    BY <1>0, <2>1, FormFields
  <2>4. /\ \A o \in People : HasForm(o) => forms[o].key \in 1 .. opened
        /\ \A l \in DOMAIN ledger.leads : ledger.leads[l].key <= opened /\ ledger.leads[l].key \in Nat
    <3>1. ledger \in Ledger
      BY <1>0 DEF TypeOK
    <3> QED BY <3>1, LedgerParts, LeadFields DEF FormInv, KeysOK
  <2>5. \A o \in People : HasForm(o)' => forms'[o].key \in 1 .. opened + 1 /\ (o # p => forms'[o].key # opened + 1)
    <3>1. \A o \in People : o # p /\ HasForm(o)' => forms'[o].key \in 1 .. opened
      BY <2>3, <2>4 DEF HasForm
    <3>2. opened + 1 \in 1 .. opened + 1 /\ \A k \in 1 .. opened : k \in 1 .. opened + 1 /\ k # opened + 1
      BY <1>0
    <3> QED BY <2>3, <3>1, <3>2
  <2>6. \A l \in DOMAIN ledger.leads : ledger.leads[l].key <= opened + 1 /\ ledger.leads[l].key # opened + 1
    <3>1. \A k \in Nat : k <= opened => k <= opened + 1 /\ k # opened + 1
      BY <1>0
    <3> QED BY <2>4, <3>1
  <2>7. opened' + budget'.forms <= MaxForms
    <3>1. opened + budget.forms <= MaxForms
      BY DEF FormInv, KeysOK
    <3> QED BY <1>0, <2>1, <2>2, <3>1, CampaignsAssumption
  <2>8. KeysOK'
    <3>1. \A o, n \in People : HasForm(o)' /\ HasForm(n)' /\ forms'[o].key = forms'[n].key => o = n
      BY <2>3, <2>5 DEF FormInv, KeysOK, HasForm
    <3>2. \A l, m \in DOMAIN ledger.leads : ledger.leads[l].key = ledger.leads[m].key => l = m
      BY DEF FormInv, KeysOK
    <3> QED BY <1>0, <2>1, <2>5, <2>6, <2>7, <3>1, <3>2 DEF KeysOK
  <2> QED BY <1>3, <2>3, <2>6, <2>8
<1>5. CASE LeaveForm(p)
  <2>1. forms' = [forms EXCEPT ![p] = NoForm] /\ opened' = opened /\ budget' = budget
    BY <1>5 DEF LeaveForm, FormKept
  <2>2. ~ HasForm(p)' /\ \A o \in People : o # p => forms'[o] = forms[o]
    BY <1>0, <2>1 DEF HasForm
  <2>3. KeysOK'
    BY <1>0, <2>1, <2>2, KeysKept DEF FormInv, HasForm
  <2> QED BY <1>3, <2>2, <2>3
<1>6. CASE Answer(p) \/ SkipDescription(p) \/ EditForm(p)
  <2>1. HasForm(p) /\ UNCHANGED <<opened, budget>>
    BY <1>6 DEF Answer, SkipDescription, EditForm, FormKept
  <2>2. Filled(p)
    BY <1>0, <1>6, <2>1, FormIsFilled
  <2>3. /\ HasForm(p)' /\ forms'[p].key = forms[p].key
        /\ \A o \in People : o # p => forms'[o] = forms[o]
    BY <1>0, <2>2, FormFields DEF Filled, HasForm
  <2>4. FormsRest
    BY <1>0, <2>1, <2>3 DEF FormsRest
  <2> QED BY <2>4, FormsKept
<1> QED BY <1>4, <1>5, <1>6

LEMMA ConfirmKept ==
    ASSUME TypeInv, FormInv, NEW p \in People, Confirm(p)
    PROVE  FormInv'
<1> USE HandlersCall
<1> DEFINE h == Home[p]
           q == [op |-> "create", who |-> p, key |-> forms[p].key, at |-> now]
           t == [at |-> "created", who |-> p]
<1>0. /\ TypeOK /\ NamesExist /\ task \in [Handlers -> Task] /\ forms \in [People -> Form \cup {NoForm}]
      /\ ask \in [Callers -> AskType]
      /\ UNCHANGED <<ledger, opened, reply, budget>> /\ Free(h) /\ HasForm(p) /\ h \in Handlers
  BY DEF TypeInv, TypeOK, AskType, Confirm
<1>1. CASE UNCHANGED <<ask, task>> /\ forms' = [forms EXCEPT ![p].step = "name"]
  <2>1. Filled(p)
    BY <1>0, <1>1, FormIsFilled
  <2>2. /\ HasForm(p)' /\ forms'[p].key = forms[p].key
        /\ \A o \in People : o # p => forms'[o] = forms[o]
    BY <1>0, <2>1, FormFields DEF Filled, HasForm
  <2>3. FormsRest
    BY <1>0, <1>1, <2>2 DEF FormsRest
  <2> QED BY <2>3, FormsKept
<1>2. CASE AsksLedger(h, q) /\ task' = [task EXCEPT ![h] = t] /\ UNCHANGED forms
  <2>1. /\ q.op = "create" /\ q.who = p /\ q.key = forms[p].key /\ q # NoAsk
        /\ t.at = "created" /\ t.who = p
    BY DEF NoAsk
  <2> HIDE DEF q, t
  <2>2. /\ ask'[h] = q /\ \A d \in Callers : d # h => ask'[d] = ask[d]
        /\ task'[h] = t /\ \A g \in Handlers : g # h => task'[g] = task[g]
    BY <1>0, <1>2 DEF AsksLedger
  <2>3. task[h].at = "idle" /\ \A l : ~ Storing(h, l) /\ ~ Storing(h, l)' /\ ~ Enqueuing(h, l)'
    BY <1>0, <2>1, <2>2 DEF Free, NoTask, Storing, Enqueuing
  <2>4. \A g \in Handlers : g # h =>
          \A l : (Storing(g, l)' <=> Storing(g, l)) /\ (Enqueuing(g, l)' <=> Enqueuing(g, l))
    BY <1>0, <2>2 DEF Storing, Enqueuing
  <2>5. KeysOK'
    BY <1>0, <1>2, KeysKept DEF FormInv, HasForm
  <2>6. ASSUME NEW g \in Handlers PROVE FormStays(g)'
    <3>1. CASE g = h
      BY <1>0, <1>2, <2>1, <2>2, <2>3, <3>1 DEF FormStays, HasForm
    <3>2. CASE g # h
      BY <1>0, <1>2, <2>2, <2>4, <3>2 DEF FormInv, FormStays, HasForm
    <3> QED BY <3>1, <3>2
  <2>7. FormGoes'
    <3>1. ASSUME NEW o \in People, NEW l \in DOMAIN ledger.leads, HasForm(o),
                 forms[o].key = ledger.leads[l].key
          PROVE  Storing(Home[o], l)' /\ task'[Home[o]].who = o
      <4>1. Storing(Home[o], l) /\ task[Home[o]].who = o
        BY <3>1 DEF FormInv, FormGoes
      <4>2. Home[o] # h
        BY <2>3, <4>1
      <4> QED BY <2>2, <2>4, <4>1, <4>2
    <3> QED BY <1>0, <1>2, <3>1 DEF FormGoes, HasForm
  <2>8. EnqueuedOnce'
    BY <1>0, <2>3, <2>4 DEF FormInv, EnqueuedOnce
  <2>9. CreatesAlone'
    BY <1>0, <2>1, <2>2, <2>3 DEF FormInv, CreatesAlone
  <2> QED BY <2>5, <2>6, <2>7, <2>8, <2>9 DEF FormInv
<1> QED BY <1>1, <1>2 DEF Confirm, HasForm

LEMMA LeadFormsKept ==
    ASSUME TypeInv, FormInv, NEW h \in Handlers, LeadStored(h) \/ LeadRefused(h) \/ LeadLinked(h)
    PROVE  FormInv'
<1> USE HandlersCall
<1>0. /\ TypeOK /\ NamesExist /\ task \in [Handlers -> Task] /\ forms \in [People -> Form \cup {NoForm}]
      /\ ask \in [Callers -> AskType] /\ reply \in [Callers -> Int \cup {None}] /\ ledger \in Ledger
      /\ \A l \in DOMAIN ledger.leads : l \in Nat \ {0} /\ l # None
  <2>1. TypeOK /\ NamesExist /\ ledger \in Ledger
    BY DEF TypeInv, TypeOK
  <2> QED BY <2>1, LedgerParts, CampaignsAssumption DEF TypeOK, AskType
<1>1. CASE LeadStored(h)
  <2> DEFINE next == [at |-> "linked", who |-> task[h].who, lead |-> LeadOf(reply[h])]
  <2>1. /\ task[h].at = "created" /\ ask[h] = NoAsk /\ LeadOf(reply[h]) \in DOMAIN ledger.leads
        /\ Links(h, "LEAD", task[h].who, ledger.leads[LeadOf(reply[h])].at)
        /\ task' = [task EXCEPT ![h] = next]
        /\ UNCHANGED <<ledger, forms, opened>>
    BY <1>1, LeadActs DEF salesVars
  <2>2. next.at = "linked" /\ next.who = task[h].who /\ next.lead = LeadOf(reply[h])
    OBVIOUS
  <2> HIDE DEF next
  <2>3. /\ UNCHANGED budget
        /\ \A d \in Callers : d # h => ask'[d] = ask[d] /\ reply'[d] = reply[d]
        /\ ask'[h] = NoAsk \/ ask'[h].op = "register"
    <3>1. h \in Callers /\ UNCHANGED budget
      BY <2>1 DEF Links
    <3>2. CASE AsksBook(h, RegisterAsk("LEAD", task[h].who, ledger.leads[LeadOf(reply[h])].at)) /\ UNCHANGED reply
      <4>1. RegisterAsk("LEAD", task[h].who, ledger.leads[LeadOf(reply[h])].at).op = "register"
        BY DEF RegisterAsk
      <4> HIDE DEF RegisterAsk
      <4> QED BY <1>0, <3>1, <3>2, <4>1 DEF AsksBook
    <3>3. CASE reply' = [reply EXCEPT ![h] = 0] /\ UNCHANGED <<ask, bookQueue>>
      BY <1>0, <2>1, <3>1, <3>3
    <3> QED BY <2>1, <3>1, <3>2, <3>3 DEF Links
  <2>4. task'[h] = next /\ \A g \in Handlers : g # h => task'[g] = task[g]
    BY <1>0, <2>1
  <2>5. \A l : Storing(h, l) <=> l = LeadOf(reply[h])
    BY <2>1 DEF Storing
  <2>6. \A l : (Storing(h, l)' <=> l = LeadOf(reply[h])) /\ ~ Enqueuing(h, l)'
    BY <2>2, <2>4 DEF Storing, Enqueuing
  <2>7. \A g \in Handlers : g # h =>
          \A l : (Storing(g, l)' <=> Storing(g, l)) /\ (Enqueuing(g, l)' <=> Enqueuing(g, l))
    BY <2>3, <2>4 DEF Storing, Enqueuing
  <2>8. KeysOK'
    BY <2>1, <2>3, KeysKept DEF FormInv, HasForm
  <2>9. ASSUME NEW g \in Handlers PROVE FormStays(g)'
    <3>1. CASE g = h
      BY <2>1, <2>2, <2>4, <2>5, <2>6, <3>1 DEF FormInv, FormStays, HasForm
    <3>2. CASE g # h
      BY <2>1, <2>3, <2>4, <2>7, <3>2 DEF FormInv, FormStays, HasForm
    <3> QED BY <3>1, <3>2
  <2>10. FormGoes'
    <3>1. ASSUME NEW o \in People, NEW l \in DOMAIN ledger.leads, HasForm(o),
                 forms[o].key = ledger.leads[l].key
          PROVE  Storing(Home[o], l)' /\ task'[Home[o]].who = o
      <4>1. Storing(Home[o], l) /\ task[Home[o]].who = o
        BY <3>1 DEF FormInv, FormGoes
      <4> QED BY <2>2, <2>4, <2>5, <2>6, <2>7, <4>1
    <3> QED BY <2>1, <3>1 DEF FormGoes, HasForm
  <2>11. EnqueuedOnce'
    BY <2>1, <2>6, <2>7 DEF FormInv, EnqueuedOnce
  <2>12. CreatesAlone'
    <3>1. NoAsk.op # "create"
      BY DEF NoAsk
    <3> QED BY <2>3, <2>4, <3>1 DEF FormInv, CreatesAlone
  <2> QED BY <2>8, <2>9, <2>10, <2>11, <2>12 DEF FormInv
<1>2. ASSUME NEW p \in People, p = task[h].who, Home[p] = h, forms' = [forms EXCEPT ![p] = NoForm],
             task[h].at \in {"created", "linked"}, UNCHANGED <<ledger, opened, budget, reply>>,
             \A d \in Callers : d # h => ask'[d] = ask[d],
             \A g \in Handlers : g # h => task'[g] = task[g],
             ask'[h].op # "create", task'[h].at \notin {"created", "linked"},
             \A l \in DOMAIN ledger.leads : Enqueuing(h, l)' =>
                HasForm(p) /\ forms[p].key = ledger.leads[l].key
      PROVE  FormInv'
  <2>1. ~ HasForm(p)' /\ \A o \in People : o # p => forms'[o] = forms[o]
    BY <1>0, <1>2 DEF HasForm
  <2>2. \A o \in People : HasForm(o)' => o # p /\ HasForm(o) /\ forms'[o] = forms[o]
    BY <2>1 DEF HasForm
  <2>3. KeysOK'
    BY <1>2, <2>2, KeysKept DEF FormInv
  <2>4. \A l : ~ Storing(h, l)'
    BY <1>2 DEF Storing
  <2>5. \A g \in Handlers : g # h =>
          \A l : (Storing(g, l)' <=> Storing(g, l)) /\ (Enqueuing(g, l)' <=> Enqueuing(g, l))
    BY <1>2 DEF Storing, Enqueuing
  <2>6. ASSUME NEW g \in Handlers PROVE FormStays(g)'
    <3>1. CASE g = h
      <4>1. ASSUME NEW l \in DOMAIN ledger.leads, Enqueuing(h, l)', NEW o \in People, HasForm(o)'
            PROVE  forms'[o].key # ledger.leads[l].key
        <5>1. o # p /\ HasForm(o) /\ forms'[o] = forms[o]
          BY <2>2, <4>1
        <5>2. HasForm(p) /\ forms[p].key = ledger.leads[l].key
          BY <1>2, <4>1
        <5> QED BY <5>1, <5>2 DEF FormInv, KeysOK
      <4> QED BY <1>2, <2>4, <3>1, <4>1 DEF FormStays
    <3>2. CASE g # h
      <4>1. task[g].at \in {"created", "linked"} => forms'[task[g].who] = forms[task[g].who]
        <5>1. task[g].at \in {"created", "linked"} => Home[task[g].who] = g /\ task[g].who \in People
          BY <1>0, TaskFields DEF FormInv, FormStays
        <5> QED BY <1>2, <2>1, <3>2, <5>1
      <4>2. FormStays(g) /\ task'[g] = task[g] /\ ask'[g] = ask[g]
        BY <1>2, <3>2 DEF FormInv
      <4>3. \A l : Storing(g, l) => task[g].at \in {"created", "linked"}
        BY DEF Storing
      <4>4. ASSUME NEW l \in DOMAIN ledger.leads
            PROVE  /\ Storing(g, l)' => forms'[task'[g].who].key = ledger.leads[l].key
                   /\ Enqueuing(g, l)' => \A o \in People : HasForm(o)' => forms'[o].key # ledger.leads[l].key
        BY <2>2, <2>5, <3>2, <4>1, <4>2, <4>3 DEF FormStays
      <4> QED BY <1>2, <4>1, <4>2, <4>4 DEF FormStays, HasForm
    <3> QED BY <3>1, <3>2
  <2>7. FormGoes'
    <3>1. ASSUME NEW o \in People, NEW l \in DOMAIN ledger.leads, HasForm(o)',
                 forms'[o].key = ledger.leads[l].key
          PROVE  Storing(Home[o], l)' /\ task'[Home[o]].who = o
      <4>1. o # p /\ HasForm(o) /\ forms[o].key = ledger.leads[l].key
        BY <2>2, <3>1
      <4>2. Storing(Home[o], l) /\ task[Home[o]].who = o
        BY <4>1 DEF FormInv, FormGoes
      <4>3. Home[o] # h
        BY <1>2, <4>1, <4>2
      <4> QED BY <1>2, <2>5, <4>2, <4>3
    <3> QED BY <1>2, <3>1 DEF FormGoes
  <2>8. EnqueuedOnce'
    <3>1. ASSUME NEW g \in Handlers, g # h, NEW l \in DOMAIN ledger.leads,
                 Enqueuing(g, l)', Enqueuing(h, l)'
          PROVE  FALSE
      <4>1. Enqueuing(g, l) /\ FormStays(g)
        BY <2>5, <3>1 DEF FormInv
      <4> QED BY <1>2, <3>1, <4>1 DEF FormStays
    <3> QED BY <1>2, <2>5, <3>1 DEF FormInv, EnqueuedOnce
  <2>9. CreatesAlone'
    BY <1>2 DEF FormInv, CreatesAlone
  <2> QED BY <2>3, <2>6, <2>7, <2>8, <2>9 DEF FormInv
<1>3. task[h].at \in {"created", "linked"} => task[h].who \in People /\ Home[task[h].who] = h
  BY <1>0, TaskFields DEF FormInv, FormStays
<1>4. CASE LeadRefused(h)
  <2>1. /\ task[h].at = "created" /\ ask[h] = NoAsk /\ reply[h] \in {0, None}
        /\ forms' = IF reply[h] = 0 THEN forms ELSE [forms EXCEPT ![task[h].who] = NoForm]
        /\ task' = [task EXCEPT ![h] = NoTask]
        /\ UNCHANGED <<ledger, opened, ask, reply, budget>>
    BY <1>4 DEF LeadRefused, Answered, Goes
  <2>2. /\ task'[h] = NoTask /\ NoTask.at = "idle" /\ NoAsk.op = "none"
        /\ \A g \in Handlers : g # h => task'[g] = task[g]
    BY <1>0, <2>1 DEF NoTask, NoAsk
  <2>3. \A l \in DOMAIN ledger.leads : ~ Enqueuing(h, l)' /\ ~ Storing(h, l) /\ ~ Storing(h, l)'
    BY <1>0, <2>1, <2>2, LeadOfNothing DEF Enqueuing, Storing
  <2>4. CASE forms' = [forms EXCEPT ![task[h].who] = NoForm]
    BY <1>2, <1>3, <2>1, <2>2, <2>3, <2>4
  <2>5. CASE UNCHANGED forms
    <3>1. \A g \in Handlers : g # h =>
            \A l : (Storing(g, l)' <=> Storing(g, l)) /\ (Enqueuing(g, l)' <=> Enqueuing(g, l))
      BY <2>1, <2>2 DEF Storing, Enqueuing
    <3>2. KeysOK'
      BY <2>1, <2>5, KeysKept DEF FormInv, HasForm
    <3>3. ASSUME NEW g \in Handlers PROVE FormStays(g)'
      <4>1. CASE g = h
        BY <2>1, <2>2, <2>3, <4>1 DEF FormStays
      <4>2. CASE g # h
        BY <2>1, <2>2, <2>5, <3>1, <4>2 DEF FormInv, FormStays, HasForm
      <4> QED BY <4>1, <4>2
    <3>4. FormGoes'
      BY <2>1, <2>2, <2>3, <2>5, <3>1 DEF FormInv, FormGoes, HasForm
    <3>5. EnqueuedOnce' /\ CreatesAlone'
      BY <2>1, <2>2, <2>3, <3>1 DEF FormInv, EnqueuedOnce, CreatesAlone
    <3> QED BY <3>2, <3>3, <3>4, <3>5 DEF FormInv
  <2> QED BY <2>1, <2>4, <2>5
<1>5. CASE LeadLinked(h)
  <2> DEFINE q == [op |-> "enqueue", lead |-> task[h].lead]
             t == [at |-> "enqueued", lead |-> task[h].lead]
  <2>1. /\ task[h].at = "linked" /\ ask[h] = NoAsk /\ AsksLedger(h, q)
        /\ task' = [task EXCEPT ![h] = t] /\ forms' = [forms EXCEPT ![task[h].who] = NoForm]
        /\ UNCHANGED <<ledger, opened, reply, budget>>
    BY <1>5 DEF LeadLinked, Answered, Goes
  <2>2. q.op = "enqueue" /\ t.at = "enqueued" /\ t.lead = task[h].lead
    OBVIOUS
  <2> HIDE DEF q, t
  <2>3. /\ ask'[h] = q /\ \A d \in Callers : d # h => ask'[d] = ask[d]
        /\ task'[h] = t /\ \A g \in Handlers : g # h => task'[g] = task[g]
    BY <1>0, <2>1 DEF AsksLedger
  <2>4. \A l \in DOMAIN ledger.leads : Enqueuing(h, l)' =>
          HasForm(task[h].who) /\ forms[task[h].who].key = ledger.leads[l].key
    <3>1. \A l : Enqueuing(h, l)' => Storing(h, l)
      BY <2>1, <2>2, <2>3 DEF Enqueuing, Storing
    <3> QED BY <2>1, <3>1 DEF FormInv, FormStays
  <2> QED BY <1>2, <1>3, <2>1, <2>2, <2>3, <2>4
<1> QED BY <1>1, <1>4, <1>5

\* The ledger runs: a form that was confirmed becomes a lead of its own.
LEMMA CreateIsNew ==
    ASSUME TypeInv, FormInv, NEW c \in Callers, NEW q \in LedgerRequest, LedgerRuns(c, q), q.op = "create"
    PROVE  /\ c \in Handlers /\ task[c].at = "created" /\ task'[c] = task[c]
           /\ q.key = forms[task[c].who].key
           /\ \/ UNCHANGED ledger /\ reply'[c] \in {0, None}
              \/ LET m == Len(ledger.leads) + 1 IN
                 /\ ledger'.rows = ledger.rows /\ ledger'.leads[m].key = q.key
                 /\ DOMAIN ledger'.leads = 1 .. m /\ m \notin DOMAIN ledger.leads /\ m \in 1 .. m
                 /\ \A l \in 1 .. m : l \in DOMAIN ledger.leads \/ l = m
                 /\ \A l \in DOMAIN ledger.leads : l \in 1 .. m /\ ledger'.leads[l].key = ledger.leads[l].key
                 /\ \A l \in DOMAIN ledger.leads : ledger.leads[l].key # q.key
                 /\ LeadOf(reply'[c]) = m
<1>0. /\ TypeOK /\ NamesExist /\ ledger \in Ledger
      /\ \A l \in DOMAIN ledger.leads : l \in Nat \ {0} /\ l # None
  <2>1. TypeOK /\ NamesExist /\ ledger \in Ledger
    BY DEF TypeInv, TypeOK
  <2> QED BY <2>1, LedgerParts, CampaignsAssumption
<1>1. q = ask[c] /\ UNCHANGED task
  BY DEF LedgerRuns
<1>2. c \in Handlers /\ task[c].at = "created" /\ q # NoAsk
  BY <1>1, OneDocument DEF FormInv, CreatesAlone
<1>3. q.key = forms[task[c].who].key /\ HasForm(task[c].who) /\ Home[task[c].who] = c
      /\ task[c].who \in People
  <2>1. FormStays(c) /\ task[c] \in Task
    BY <1>0, <1>2 DEF FormInv, TypeOK
  <2> QED BY <1>1, <1>2, <2>1, TaskFields DEF FormStays
<1>4. \A l \in DOMAIN ledger.leads : ledger.leads[l].key # q.key
  <2>1. ASSUME NEW l \in DOMAIN ledger.leads, ledger.leads[l].key = q.key PROVE FALSE
    <3>1. Storing(c, l)
      BY <1>3, <2>1 DEF FormInv, FormGoes
    <3> QED BY <1>1, <1>2, <3>1 DEF Storing
  <2> QED BY <2>1
<1>5. CASE UNCHANGED ledger /\ reply'[c] = 0
  BY <1>1, <1>2, <1>3, <1>5
<1>6. CASE ledger' = LedgerResult(q) /\ reply'[c] = LedgerReply(q, LedgerResult(q))
  <2> DEFINE m == Len(ledger.leads) + 1
  <2>1. LedgerResult(q) = Created(ledger, q)
    BY DEF LedgerResult
  <2>2. OfKey(ledger, q.key) = {}
    BY <1>4 DEF OfKey, Indices
  <2>3. \/ reply'[c] = None /\ ledger' = ledger
        \/ /\ LeadOf(reply'[c]) \in DOMAIN ledger'.leads
           /\ ledger'.leads[LeadOf(reply'[c])].key = q.key
    BY <1>0, <1>6, LedgerReplyIs
  <2>4. \/ ledger' = ledger
        \/ /\ DOMAIN ledger'.leads = 1 .. m /\ ledger'.rows = ledger.rows
           /\ m \notin DOMAIN ledger.leads /\ m \in Nat \ {0}
           /\ \A l \in 1 .. m : l \in DOMAIN ledger.leads \/ l = m
           /\ \A l \in DOMAIN ledger.leads : l \in 1 .. m /\ ledger'.leads[l] = ledger.leads[l]
           /\ ledger'.leads[m].key = q.key
    BY <1>0, <1>6, <2>1, CreatedIs
  <2> HIDE DEF m
  <2>5. CASE ledger' = ledger
    <3>1. reply'[c] = None
      BY <1>4, <2>3, <2>5
    <3> QED BY <1>1, <1>2, <1>3, <2>5, <3>1
  <2>6. CASE ledger' # ledger
    <3>1. LeadOf(reply'[c]) = m
      BY <1>4, <2>3, <2>4, <2>6
    <3>2. m \in 1 .. m
      BY <2>4, <2>6
    <3> QED BY <1>1, <1>2, <1>3, <1>4, <2>4, <2>6, <3>1, <3>2 DEF m
  <2> QED BY <2>5, <2>6
<1> QED BY <1>5, <1>6 DEF LedgerRuns

LEMMA CreateFormsKept ==
    ASSUME TypeInv, FormInv, NEW c \in Callers, NEW q \in LedgerRequest, LedgerRuns(c, q), q.op = "create"
    PROVE  FormInv'
<1> USE HandlersCall
<1> DEFINE m == Len(ledger.leads) + 1
<1>0. /\ TypeOK /\ NamesExist /\ task \in [Handlers -> Task] /\ ledger \in Ledger
      /\ \A l \in DOMAIN ledger.leads : l \in Nat \ {0} /\ l # None
  <2>1. TypeOK /\ NamesExist /\ ledger \in Ledger
    BY DEF TypeInv, TypeOK
  <2>2. \A l \in DOMAIN ledger.leads : l \in Nat \ {0} /\ l # None
    BY <2>1, LedgerParts, CampaignsAssumption
  <2> QED BY <2>1, <2>2 DEF TypeOK
<1>1. /\ q = ask[c] /\ q # NoAsk /\ ask'[c] = NoAsk /\ UNCHANGED <<task, budget, forms, opened>>
      /\ \A d \in Callers : d # c => ask'[d] = ask[d] /\ reply'[d] = reply[d]
  BY OneDocument DEF LedgerRuns
<1>2. /\ c \in Handlers /\ task[c].at = "created" /\ task'[c] = task[c]
      /\ q.key = forms[task[c].who].key
      /\ \/ UNCHANGED ledger /\ reply'[c] \in {0, None}
         \/ /\ ledger'.leads[m].key = q.key
            /\ DOMAIN ledger'.leads = 1 .. m /\ m \notin DOMAIN ledger.leads /\ m \in 1 .. m
            /\ \A l \in 1 .. m : l \in DOMAIN ledger.leads \/ l = m
            /\ \A l \in DOMAIN ledger.leads : l \in 1 .. m /\ ledger'.leads[l].key = ledger.leads[l].key
            /\ \A l \in DOMAIN ledger.leads : ledger.leads[l].key # q.key
            /\ LeadOf(reply'[c]) = m
  BY CreateIsNew
<1> HIDE DEF m
<1>3. Home[task[c].who] = c /\ HasForm(task[c].who) /\ task[c].who \in People
  <2>1. FormStays(c) /\ task[c] \in Task
    BY <1>0, <1>2 DEF FormInv
  <2> QED BY <1>2, <2>1, TaskFields DEF FormStays
<1>4. /\ \A l : ~ Storing(c, l) /\ ~ Enqueuing(c, l) /\ ~ Enqueuing(c, l)'
      /\ \A l : Storing(c, l)' <=> l = LeadOf(reply'[c])
  BY <1>1, <1>2 DEF Storing, Enqueuing
<1>5. \A g \in Handlers : g # c =>
        \A l : (Storing(g, l)' <=> Storing(g, l)) /\ (Enqueuing(g, l)' <=> Enqueuing(g, l))
  BY <1>1 DEF Storing, Enqueuing
<1>6. \A p \in People, l \in DOMAIN ledger.leads : HasForm(p) /\ forms[p].key = ledger.leads[l].key =>
        Storing(Home[p], l)' /\ task[Home[p]].who = p
  <2>1. ASSUME NEW p \in People, NEW l \in DOMAIN ledger.leads, HasForm(p), forms[p].key = ledger.leads[l].key
        PROVE  Storing(Home[p], l)' /\ task[Home[p]].who = p
    <3>1. Storing(Home[p], l) /\ task[Home[p]].who = p
      BY <2>1 DEF FormInv, FormGoes
    <3> QED BY <1>4, <1>5, <3>1
  <2> QED BY <2>1
<1>7. CreatesAlone'
  <2>1. NoAsk.op # "create"
    BY DEF NoAsk
  <2> QED BY <1>1, <2>1 DEF FormInv, CreatesAlone
<1>8. CASE UNCHANGED ledger /\ reply'[c] \in {0, None}
  <2>1. KeysOK'
    BY <1>1, <1>8, KeysKept DEF FormInv, HasForm
  <2>2. ASSUME NEW h \in Handlers PROVE FormStays(h)'
    <3>1. CASE h = c
      <4>1. \A l \in DOMAIN ledger.leads : ~ Storing(c, l)'
        BY <1>0, <1>4, <1>8, LeadOfNothing
      <4> QED BY <1>1, <1>2, <1>3, <1>4, <1>8, <3>1, <4>1 DEF FormStays, HasForm
    <3>2. CASE h # c
      BY <1>1, <1>5, <1>8, <3>2 DEF FormInv, FormStays, HasForm
    <3> QED BY <3>1, <3>2
  <2>3. FormGoes' /\ EnqueuedOnce'
    BY <1>1, <1>4, <1>5, <1>6, <1>8 DEF FormInv, FormGoes, EnqueuedOnce, HasForm
  <2> QED BY <1>7, <2>1, <2>2, <2>3 DEF FormInv
<1>9. CASE /\ ledger'.leads[m].key = q.key
           /\ DOMAIN ledger'.leads = 1 .. m /\ m \notin DOMAIN ledger.leads /\ m \in 1 .. m
           /\ \A l \in 1 .. m : l \in DOMAIN ledger.leads \/ l = m
           /\ \A l \in DOMAIN ledger.leads : l \in 1 .. m /\ ledger'.leads[l].key = ledger.leads[l].key
           /\ \A l \in DOMAIN ledger.leads : ledger.leads[l].key # q.key
           /\ LeadOf(reply'[c]) = m
  <2>1. KeysOK'
    <3>1. q.key \in 1 .. opened /\ opened \in Nat
      BY <1>0, <1>2, <1>3 DEF FormInv, KeysOK, TypeOK
    <3>2. q.key <= opened
      BY <3>1
    <3>3. \A l \in DOMAIN ledger'.leads : ledger'.leads[l].key <= opened
      BY <1>9, <3>2 DEF FormInv, KeysOK
    <3>4. \A l, k \in DOMAIN ledger'.leads : ledger'.leads[l].key = ledger'.leads[k].key => l = k
      BY <1>9 DEF FormInv, KeysOK
    <3> QED BY <1>1, <3>3, <3>4 DEF FormInv, KeysOK, HasForm
  <2>2. ASSUME NEW h \in Handlers PROVE ~ Storing(h, m) /\ ~ Enqueuing(h, m)
    <3>1. Storing(h, m) \/ Enqueuing(h, m) => m \in DOMAIN ledger.leads \/ m \in {0, None}
      BY <1>0, LeadOfNothing DEF NamesExist, Storing, Enqueuing
    <3>2. m # 0 /\ m # None
      BY <1>0, <1>9, LedgerParts, CampaignsAssumption DEF m
    <3> QED BY <1>9, <3>1, <3>2
  <2>3. ASSUME NEW h \in Handlers PROVE FormStays(h)'
    <3>1. CASE h = c
      <4>1. \A l \in DOMAIN ledger'.leads : Storing(c, l)' => forms[task[c].who].key = ledger'.leads[l].key
        BY <1>2, <1>4, <1>9
      <4> QED BY <1>1, <1>2, <1>3, <1>4, <3>1, <4>1 DEF FormStays, HasForm
    <3>2. CASE h # c
      <4>1. \A l \in DOMAIN ledger'.leads : Storing(h, l)' \/ Enqueuing(h, l)' =>
              l \in DOMAIN ledger.leads /\ ledger'.leads[l].key = ledger.leads[l].key
        BY <1>5, <1>9, <2>2, <3>2
      <4>2. FormStays(h) /\ ask'[h] = ask[h]
        BY <1>1, <3>2 DEF FormInv
      <4> QED BY <1>1, <1>5, <3>2, <4>1, <4>2 DEF FormStays, HasForm
    <3> QED BY <3>1, <3>2
  <2>4. FormGoes'
    <3>1. ASSUME NEW p \in People, NEW l \in DOMAIN ledger'.leads, HasForm(p),
                 forms[p].key = ledger'.leads[l].key
          PROVE  Storing(Home[p], l)' /\ task[Home[p]].who = p
      <4>1. CASE l \in DOMAIN ledger.leads
        BY <1>6, <1>9, <3>1, <4>1
      <4>2. CASE l = m
        <5>1. p = task[c].who
          BY <1>2, <1>3, <1>9, <3>1, <4>2 DEF FormInv, KeysOK
        <5> QED BY <1>3, <1>4, <1>9, <4>2, <5>1
      <4> QED BY <1>9, <3>1, <4>1, <4>2
    <3> QED BY <1>1, <3>1 DEF FormGoes, HasForm
  <2>5. EnqueuedOnce'
    BY <1>4, <1>5, <1>9, <2>2 DEF FormInv, EnqueuedOnce
  <2> QED BY <1>7, <2>1, <2>3, <2>4, <2>5 DEF FormInv
<1> QED BY <1>2, <1>8, <1>9

\* The ledger runs: the rows of a lead are added or written.
LEMMA RowsRun ==
    ASSUME TypeInv, NEW c \in Callers, NEW q \in LedgerRequest, LedgerRuns(c, q),
           q.op \in {"enqueue", "begin", "mark"}
    PROVE  /\ q = ask[c] /\ q # NoAsk /\ ask'[c] = NoAsk
           /\ ledger'.leads = ledger.leads
           /\ c \in Handlers => task[c].at # "created"
           /\ UNCHANGED <<forms, opened, task, budget>>
           /\ \A d \in Callers : d # c => ask'[d] = ask[d] /\ reply'[d] = reply[d]
<1>0. TypeOK /\ NamesExist /\ ledger \in Ledger
  BY DEF TypeInv, TypeOK
<1>1. /\ q = ask[c] /\ q # NoAsk /\ ask'[c] = NoAsk /\ UNCHANGED <<forms, opened, task, budget>>
      /\ \A d \in Callers : d # c => ask'[d] = ask[d] /\ reply'[d] = reply[d]
      /\ ledger' = LedgerResult(q) \/ UNCHANGED ledger
  BY OneDocument DEF LedgerRuns
<1>2. c \in Handlers => task[c].at # "created"
  BY <1>0, <1>1 DEF NamesExist
<1>3. LedgerResult(q).leads = ledger.leads
  <2>1. CASE q.op = "enqueue"
    <3>1. LedgerResult(q) = Enqueued(ledger, q)
      BY <2>1 DEF LedgerResult
    <3> QED BY <1>0, <3>1, EnqueuedIs
  <2>2. CASE q.op = "begin"
    <3>1. LedgerResult(q) = Begun(ledger, q)
      BY <2>2 DEF LedgerResult
    <3> QED BY <1>0, <2>2, <3>1, BegunIs DEF RowRewritten
  <2>3. CASE q.op = "mark"
    <3>1. LedgerResult(q) = Marked(ledger, q)
      BY <2>3 DEF LedgerResult
    <3> QED BY <1>0, <2>3, <3>1, MarkedIs DEF RowRewritten
  <2> QED BY <2>1, <2>2, <2>3
<1> QED BY <1>1, <1>2, <1>3

\* The loops and the start of the process ask for nothing but attempts and marks.
LEMMA LoopsAsk ==
    ASSUME TypeInv,
           \/ \E d \in Loops : CheckRow(d) \/ NotBegun(d) \/ Deliver(d) \/ Fail(d)
           \/ \E e \in recovering : Recover(e)
    PROVE  /\ UNCHANGED <<ledger, forms, opened, reply, task, budget>>
           /\ \A h \in Handlers : ask'[h] = ask[h]
           /\ \A c \in Callers : ask'[c] = ask[c] \/ ask'[c].op \in {"begin", "mark"}
<1> USE HandlersCall
<1>0. ask \in [Callers -> AskType]
  BY DEF TypeInv, TypeOK, AskType
<1>1. ASSUME NEW c \in Callers \ Handlers, NEW q, q.op \in {"begin", "mark"}, AsksLedger(c, q)
      PROVE  /\ \A h \in Handlers : ask'[h] = ask[h]
             /\ \A d \in Callers : ask'[d] = ask[d] \/ ask'[d].op \in {"begin", "mark"}
  BY <1>0, <1>1 DEF AsksLedger
<1>2. ASSUME NEW d \in Loops, CheckRow(d) \/ NotBegun(d) \/ Deliver(d) \/ Fail(d)
      PROVE  /\ UNCHANGED <<ledger, forms, opened, reply, task, budget>>
             /\ \A h \in Handlers : ask'[h] = ask[h]
             /\ \A c \in Callers : ask'[c] = ask[c] \/ ask'[c].op \in {"begin", "mark"}
  <2>1. UNCHANGED <<ledger, forms, opened, reply, task, budget>>
    BY <1>2, LoopActs DEF LoopOnly
  <2>2. \/ UNCHANGED ask
        \/ AsksLedger(d, [op |-> "begin", row |-> d[1]])
        \/ \E s \in {"PENDING", "SENT", "UNDELIVERABLE"} :
              AsksLedger(d, [op |-> "mark", row |-> d[1], to |-> s])
    BY <1>2, LoopActs
  <2> QED BY <1>1, <2>1, <2>2
<1>3. ASSUME NEW r \in recovering, Recover(r)
      PROVE  /\ UNCHANGED <<ledger, forms, opened, reply, task, budget>>
             /\ \A h \in Handlers : ask'[h] = ask[h]
             /\ \A c \in Callers : ask'[c] = ask[c] \/ ask'[c].op \in {"begin", "mark"}
  <2>1. UNCHANGED <<ledger, forms, opened, reply, task, budget>>
    BY <1>3 DEF Recover
  <2>2. \/ UNCHANGED <<ask, ledgerQueue>>
        \/ \E q : q.op \in {"begin", "mark"} /\ AsksLedger(Boot, q)
    BY <1>3 DEF Recover, Marks
  <2> QED BY <1>1, <2>1, <2>2
<1> QED BY <1>2, <1>3

LEMMA RowFormsKept ==
    ASSUME TypeInv, FormInv,
           \/ \E c \in Callers, q \in LedgerRequest : LedgerRuns(c, q) /\ q.op \in {"enqueue", "begin", "mark"}
           \/ \E h \in Handlers : Dispatch(h) \/ DispatchAgain(h)
           \/ \E d \in Loops : CheckRow(d) \/ NotBegun(d) \/ Deliver(d) \/ Fail(d)
           \/ \E e \in recovering : Recover(e)
    PROVE  FormInv'
<1> USE HandlersCall
<1>0. task \in [Handlers -> Task]
  BY DEF TypeInv, TypeOK
<1>1. ASSUME NEW c \in Callers, NEW q \in LedgerRequest, LedgerRuns(c, q), q.op \in {"enqueue", "begin", "mark"}
      PROVE  FormInv'
  <2>1. /\ ask'[c] = NoAsk /\ ledger'.leads = ledger.leads
        /\ c \in Handlers => task[c].at # "created"
        /\ UNCHANGED <<forms, opened, task, budget>>
        /\ \A d \in Callers : d # c => ask'[d] = ask[d] /\ reply'[d] = reply[d]
    BY <1>1, RowsRun
  <2>2. \A d \in Callers : ask'[d].op = "create" => ask'[d] = ask[d]
    BY <2>1 DEF NoAsk
  <2>3. FormsRest
    BY <2>1, <2>2 DEF FormsRest
  <2> QED BY <2>3, FormsKept
<1>2. ASSUME NEW h \in Handlers, Dispatch(h) \/ DispatchAgain(h) PROVE FormInv'
  <2>1. /\ UNCHANGED <<ledger, forms, opened, ask, reply, budget>> /\ task' = [task EXCEPT ![h] = NoTask]
        /\ task[h].at \in {"enqueued", "retry"}
    BY <1>2 DEF Dispatch, DispatchAgain, DispatchOnly, Goes, salesVars, Answered
  <2>2. /\ Aside(task'[h]) /\ task[h].at \notin {"created", "linked"}
        /\ \A g \in Handlers : g # h => task'[g] = task[g]
    BY <1>0, <2>1, BesideAre
  <2>3. FormsRest
    BY <2>1, <2>2 DEF FormsRest
  <2> QED BY <2>3, FormsKept
<1>3. CASE \/ \E d \in Loops : CheckRow(d) \/ NotBegun(d) \/ Deliver(d) \/ Fail(d)
           \/ \E e \in recovering : Recover(e)
  <2>1. FormsRest
    BY <1>3, LoopsAsk DEF FormsRest
  <2> QED BY <2>1, FormsKept
<1> QED BY <1>1, <1>2, <1>3

LEMMA CrashForms ==
    ASSUME TypeInv, FormInv, Crash
    PROVE  FormInv'
<1>1. /\ UNCHANGED <<ledger, opened, budget>>
      /\ \A p \in People : ~ HasForm(p)'
      /\ \A h \in Handlers : task'[h] = NoTask
      /\ \A c \in Callers : ask'[c] = NoAsk
  BY DEF Crash, Restarted, HasForm
<1>2. \A h \in Handlers : \A l : ~ Storing(h, l)' /\ ~ Enqueuing(h, l)'
  BY <1>1 DEF Storing, Enqueuing, NoTask
<1>3. KeysOK'
  BY <1>1, KeysKept DEF FormInv
<1>4. (\A h \in Handlers : FormStays(h))' /\ FormGoes' /\ EnqueuedOnce'
  BY <1>1, <1>2 DEF FormStays, FormGoes, EnqueuedOnce, NoTask
<1>5. CreatesAlone'
  BY <1>1 DEF CreatesAlone, NoAsk
<1> QED BY <1>3, <1>4, <1>5 DEF FormInv

LEMMA FormStepKeeps == TypeInv /\ LinkInv /\ FormInv /\ [Next]_vars => FormInv'
<1> SUFFICES ASSUME TypeInv, LinkInv, FormInv, [Next]_vars PROVE FormInv'
  OBVIOUS
<1>1. ASSUME NEW c \in Callers, NEW q \in LedgerRequest, LedgerRuns(c, q), ~ Beside(q)
      PROVE  FormInv'
  <2>1. q.op = "create" \/ q.op \in {"enqueue", "begin", "mark"}
    BY <1>1 DEF Beside
  <2> QED BY <1>1, <2>1, CreateFormsKept, RowFormsKept
<1> QED BY <1>1, StepsAre, ElsewhereForms, FormFormsKept, ConfirmKept, LeadFormsKept, RowFormsKept, CrashForms

LEMMA FormStart == Init => FormInv
<1> SUFFICES ASSUME Init PROVE FormInv
  OBVIOUS
<1>1. /\ \A p \in People : ~ HasForm(p)
      /\ \A h \in Handlers : task[h] = NoTask
      /\ \A c \in Callers : ask[c] = NoAsk
      /\ opened = 0 /\ budget \in Budgets /\ ledger \in {NoLedger, OldLedger}
  BY DEF Init, HasForm
<1>2. \A h \in Handlers : \A l : ~ Storing(h, l) /\ ~ Enqueuing(h, l)
  BY <1>1 DEF Storing, Enqueuing, NoTask
<1>3. \A l \in DOMAIN ledger.leads : l = 1 /\ ledger.leads[l].key = 0
  <2>1. NoLedger.leads = <<>>
    BY DEF NoLedger
  <2>2. DOMAIN OldLedger.leads = {1} /\ OldLedger.leads[1].key = 0
    BY OldLedgerIs, OldLeadIs
  <2> QED BY <1>1, <2>1, <2>2
<1>4. opened + budget.forms <= MaxForms
  <2>1. budget.forms \in Nat /\ budget.forms <= MaxForms
    BY <1>1, CampaignsAssumption
  <2> QED BY <1>1, <2>1, CampaignsAssumption
<1>5. KeysOK
  BY <1>1, <1>3, <1>4 DEF KeysOK
<1>6. (\A h \in Handlers : FormStays(h)) /\ FormGoes /\ EnqueuedOnce /\ CreatesAlone
  BY <1>1, <1>2 DEF FormStays, FormGoes, EnqueuedOnce, CreatesAlone, NoTask, NoAsk
<1> QED BY <1>5, <1>6 DEF FormInv

-----------------------------------------------------------------------------
(* The news of a lead *)

LEMMA NewsTypesAre == TypeInv => NewsTypes
<1> SUFFICES ASSUME TypeInv PROVE NewsTypes
  OBVIOUS
<1>1. /\ received \in [RowIds -> Nat] /\ again \in [RowIds -> Nat] /\ faults \in [Kinds -> Nat]
      /\ ledger \in Ledger /\ loop \in [Loops -> LoopState] /\ task \in [Handlers -> Task]
      /\ ask \in [Callers -> AskType] /\ recovering \subseteq [row : RowIds, doubt : BOOLEAN]
  BY DEF TypeInv, TypeOK, AskType
<1>2. \A r \in RowIds : ledger.rows[r] \in Row
  BY <1>1, LedgerParts
<1> QED BY <1>1, <1>2 DEF NewsTypes, Kinds

LEMMA NewsTypesNext == TypeInv' => NewsTypes'
BY NewsTypesAre, PTL

LEMMA CountsAre == CountsOK
BY DEF CountsOK, GoingAt, WaitingAt, ComingTo, FailingAt, Waiting

LEMMA CountsNext == CountsOK'
BY CountsAre, PTL

LEMMA DeliveriesAre ==
    /\ \A r \in RowIds : Deliveries(r) \subseteq Loops /\ \A d \in Deliveries(r) : d[1] = r
    /\ \A d \in Loops : d[1] \in RowIds /\ d \in Deliveries(d[1]) /\ d \in Callers \ (Handlers \cup {Web, Boot})
<1>1. \A d \in Loops : d[1] \in RowIds /\ d[2] \in {1, 2} /\ d = <<d[1], d[2]>>
  BY DEF Loops
<1>2. \A r \in RowIds : <<r, 1>> \in Loops /\ <<r, 2>> \in Loops
  BY DEF Loops
<1> QED BY <1>1, <1>2, NotificationAssumption DEF Deliveries

\* Paid for before is paid for after.
LEMMA PaidStays ==
    ASSUME TypeInv, TypeInv', NEW r \in RowIds, PaidFor(r), NEW k \in Nat,
           faults'["lost"] + again'[r] = faults["lost"] + again[r] + k,
           Spent(r)' + WaitingAt(<<r, 1>>)' + WaitingAt(<<r, 2>>)' <=
             Spent(r) + WaitingAt(<<r, 1>>) + WaitingAt(<<r, 2>>) + k,
           Spent(r)' + FailingAt(r)' <= Spent(r) + FailingAt(r) + k
    PROVE  PaidFor(r)'
<1>1. /\ received[r] \in Nat /\ again[r] \in Nat /\ faults["lost"] \in Nat
      /\ received'[r] \in Nat /\ again'[r] \in Nat /\ faults'["lost"] \in Nat
  BY NewsTypesAre, NewsTypesNext DEF NewsTypes
<1>2. /\ <<r, 1>> \in Loops /\ <<r, 2>> \in Loops
  BY DeliveriesAre DEF Deliveries
<1>3. /\ \A n \in {1, 2} : /\ GoingAt(<<r, n>>) \in {0, 1} /\ WaitingAt(<<r, n>>) \in {0, 1}
                           /\ GoingAt(<<r, n>>)' \in {0, 1} /\ WaitingAt(<<r, n>>)' \in {0, 1}
      /\ ComingTo(r) \in {0, 1} /\ FailingAt(r) \in {0, 1}
      /\ ComingTo(r)' \in {0, 1} /\ FailingAt(r)' \in {0, 1}
  BY <1>2, CountsAre, CountsNext DEF CountsOK
<1>4. Spent(r) \in Nat /\ Spent(r)' \in Nat
  BY <1>1, <1>3 DEF Spent
<1> QED BY <1>1, <1>3, <1>4 DEF PaidFor

\* While the start of the process does nothing it finds what it found.
LEMMA FoundSame ==
    ASSUME UNCHANGED recovering, NEW r
    PROVE  (Found(r)' <=> Found(r)) /\ (Resumed(r)' <=> Resumed(r))
BY DEF Found, Resumed

\* What is resumed was found.
LEMMA ResumedIsFound ==
    ASSUME NEW r, Resumed(r)
    PROVE  Found(r)
<1>1. [row |-> r, doubt |-> FALSE] \in recovering /\ [row |-> r, doubt |-> FALSE].row = r
  BY DEF Resumed
<1> QED BY <1>1 DEF Found

\* A row that nobody writes.
LEMMA RowKept ==
    ASSUME NEW r \in RowIds, RowOK(r), ledger'.rows[r] = ledger.rows[r], received'[r] = received[r],
           r[1] \notin DOMAIN ledger'.leads => r[1] \notin DOMAIN ledger.leads,
           \A d \in Deliveries(r) : Going(d)' => Going(d),
           Found(r)' => Found(r) /\ \A h \in Handlers : ~ Enqueuing(h, r[1])',
           \A h \in Handlers : Storing(h, r[1])' => Storing(h, r[1]) \/ r[1] \notin DOMAIN ledger.leads
    PROVE  RowOK(r)'
<1>1. /\ r[1] \notin DOMAIN ledger.leads => ledger.rows[r].status = "NONE"
      /\ ledger.rows[r].status = "NONE" => ledger.rows[r].attempts = 0
      /\ ledger.rows[r].attempts = 0 => received[r] = 0
      /\ ledger.rows[r].status = "SENT" => received[r] > 0
      /\ Found(r) => ledger.rows[r].status # "NONE"
  BY DEF RowOK
<1>2. ledger.rows[r].attempts = 0 => \A d \in Deliveries(r) : ~ Going(d)
  BY DEF RowOK
<1>3. \A h \in Handlers : Storing(h, r[1]) => ledger.rows[r].status = "NONE"
  BY DEF RowOK
<1>4. ledger'.rows[r].attempts = 0 => \A d \in Deliveries(r) : ~ Going(d)'
  BY <1>2
<1>5. \A h \in Handlers : Storing(h, r[1])' => ledger'.rows[r].status = "NONE"
  BY <1>1, <1>3
<1> QED BY <1>1, <1>4, <1>5 DEF RowOK, Deliveries

LEMMA RowsStay ==
    ASSUME TypeInv, TypeInv', NewsInv, RowsRest
    PROVE  NewsInv'
<1>0. NewsTypes /\ NewsTypes' /\ NamesExist /\ CountsOK /\ CountsOK'
  BY NewsTypesAre, NewsTypesNext, CountsAre, CountsNext DEF TypeInv
<1>1. ASSUME NEW c \in Callers PROVE AskOfRows(c)'
  <2>1. AskOfRows(c)
    BY DEF NewsInv
  <2>2. CASE ask'[c] = ask[c]
    BY <2>1, <2>2 DEF AskOfRows, RowsRest
  <2>3. CASE ask'[c].op \notin {"enqueue", "begin", "mark"}
    BY <2>3 DEF AskOfRows
  <2> QED BY <2>2, <2>3 DEF RowsRest
<1>2. ASSUME NEW d \in Loops PROVE LoopOK(d)'
  BY DEF NewsInv, LoopOK, RowsRest
<1>3. ASSUME NEW r \in RowIds PROVE RowOK(r)'
  <2>1. \A d \in Deliveries(r) : Going(d)' => Going(d)
    BY DeliveriesAre DEF RowsRest
  <2>2. RowOK(r)
    BY DEF NewsInv
  <2>3. Found(r)' => Found(r) /\ \A h \in Handlers : ~ Enqueuing(h, r[1])'
    <3>1. (Found(r)' <=> Found(r)) /\ \A h \in Handlers : Enqueuing(h, r[1])' <=> Enqueuing(h, r[1])
      BY FoundSame DEF RowsRest
    <3> QED BY <2>2, <3>1 DEF RowOK
  <2>4. /\ ledger'.rows[r] = ledger.rows[r] /\ received'[r] = received[r]
        /\ r[1] \notin DOMAIN ledger'.leads => r[1] \notin DOMAIN ledger.leads
        /\ \A h \in Handlers : Storing(h, r[1])' => Storing(h, r[1]) \/ r[1] \notin DOMAIN ledger.leads
    BY DEF RowsRest
  <2> QED BY <2>1, <2>2, <2>3, <2>4, RowKept
<1>4. ASSUME NEW r \in RowIds PROVE PaidFor(r)'
  <2>1. ASSUME NEW d \in Loops
        PROVE  /\ GoingAt(d)' <= GoingAt(d)
               /\ GoingAt(d)' + WaitingAt(d)' = GoingAt(d) + WaitingAt(d)
    <3>1. (Going(d)' => Going(d)) /\ loop'[d] = loop[d]
      BY DEF RowsRest
    <3>2. GoingAt(d)' <= GoingAt(d)
      BY <3>1 DEF GoingAt
    <3>3. GoingAt(d)' + WaitingAt(d)' = GoingAt(d) + WaitingAt(d)
      BY <1>0, <3>1 DEF CountsOK, Waiting, Going, NoLoop
    <3> QED BY <3>2, <3>3
  <2>7. /\ Resumed(r)' <=> Resumed(r)
        /\ \A h \in Handlers : Enqueuing(h, r[1])' <=> Enqueuing(h, r[1])
    BY FoundSame DEF RowsRest
  <2>2. ComingTo(r)' = ComingTo(r)
    BY <2>7 DEF ComingTo
  <2>3. FailingAt(r)' = FailingAt(r) /\ received'[r] = received[r] /\ again'[r] = again[r]
    BY <2>7 DEF FailingAt, RowsRest
  <2> DEFINE k == faults'["lost"] - faults["lost"]
  <2>4. k \in Nat /\ faults'["lost"] + again'[r] = faults["lost"] + again[r] + k
    BY <1>0, <2>3 DEF NewsTypes, RowsRest
  <2> HIDE DEF k
  <2>5. /\ Spent(r)' + WaitingAt(<<r, 1>>)' + WaitingAt(<<r, 2>>)' <=
             Spent(r) + WaitingAt(<<r, 1>>) + WaitingAt(<<r, 2>>) + k
        /\ Spent(r)' + FailingAt(r)' <= Spent(r) + FailingAt(r) + k
    <3>1. <<r, 1>> \in Loops /\ <<r, 2>> \in Loops
      BY DeliveriesAre DEF Deliveries
    <3>2. /\ GoingAt(<<r, 1>>)' <= GoingAt(<<r, 1>>)
          /\ GoingAt(<<r, 1>>)' + WaitingAt(<<r, 1>>)' = GoingAt(<<r, 1>>) + WaitingAt(<<r, 1>>)
          /\ GoingAt(<<r, 2>>)' <= GoingAt(<<r, 2>>)
          /\ GoingAt(<<r, 2>>)' + WaitingAt(<<r, 2>>)' = GoingAt(<<r, 2>>) + WaitingAt(<<r, 2>>)
      BY <2>1, <3>1
    <3>3. /\ GoingAt(<<r, 1>>) \in {0, 1} /\ GoingAt(<<r, 2>>) \in {0, 1}
          /\ GoingAt(<<r, 1>>)' \in {0, 1} /\ GoingAt(<<r, 2>>)' \in {0, 1}
          /\ WaitingAt(<<r, 1>>) \in {0, 1} /\ WaitingAt(<<r, 2>>) \in {0, 1}
          /\ WaitingAt(<<r, 1>>)' \in {0, 1} /\ WaitingAt(<<r, 2>>)' \in {0, 1}
          /\ ComingTo(r) \in {0, 1} /\ FailingAt(r) \in {0, 1} /\ received[r] \in Nat
      BY <1>0, <3>1 DEF CountsOK, NewsTypes
    <3> QED BY <2>2, <2>3, <2>4, <3>2, <3>3 DEF Spent
  <2>6. PaidFor(r)
    BY DEF NewsInv
  <2> QED BY <2>4, <2>5, <2>6, PaidStays
<1> QED BY <1>1, <1>2, <1>3, <1>4 DEF NewsInv

\* Steps that leave the rows alone.
LEMMA ElsewhereStays ==
    ASSUME TypeInv, TypeInv', NewsInv, Elsewhere
    PROVE  NewsInv'
<1>0. NewsTypes
  BY NewsTypesAre
<1>1. \A c \in Callers : ask'[c] = ask[c] \/ ask'[c].op \notin {"enqueue", "begin", "mark"}
  BY DEF Elsewhere, Beside
<1>2. ASSUME NEW d \in Loops
      PROVE  /\ Going(d)' => Going(d)
             /\ loop[d].at = "begun" => ask'[d] = ask[d] \/ ask'[d] = NoAsk
  <2>1. loop'[d] = loop[d] /\ LoopOK(d)
    BY DEF Elsewhere, NewsInv
  <2>2. CASE ask'[d] = ask[d] /\ reply'[d] = reply[d]
    BY <2>1, <2>2 DEF Going
  <2>3. CASE ask[d] # NoAsk /\ Beside(ask[d])
    BY <2>1, <2>3 DEF Going, LoopOK, Beside
  <2> QED BY <2>2, <2>3 DEF Elsewhere
<1>3. ASSUME NEW h \in Handlers
      PROVE  \A l : (Storing(h, l)' => Storing(h, l)) /\ (Enqueuing(h, l)' <=> Enqueuing(h, l))
  <2>1. CASE task'[h] = task[h] /\ ask'[h] = ask[h] /\ reply'[h] = reply[h]
    BY <2>1 DEF Storing, Enqueuing
  <2>2. CASE task'[h] = task[h] /\ task[h].at \in {"linked", "enqueued"}
    BY <2>2 DEF Storing, Enqueuing
  <2>3. CASE Aside(task[h]) /\ Aside(task'[h])
    BY <2>3 DEF Storing, Enqueuing, Aside
  <2> QED BY <2>1, <2>2, <2>3 DEF Elsewhere
<1>4. faults'["lost"] >= faults["lost"]
  BY <1>0 DEF Elsewhere, NewsTypes
<1>5. RowsRest
  BY <1>1, <1>2, <1>3, <1>4 DEF Elsewhere, RowsRest
<1> QED BY <1>5, RowsStay

\* While updates are served, a handler goes on.
LEMMA HandlerStays ==
    ASSUME TypeInv, TypeInv', NewsInv, NEW h \in Handlers, UNCHANGED notificationVars,
           UNCHANGED <<ledger, faults>>,
           \A c \in Callers : c # h => ask'[c] = ask[c] /\ reply'[c] = reply[c],
           \A g \in Handlers : g # h => task'[g] = task[g],
           ask'[h] = ask[h] \/ ask'[h].op \notin {"enqueue", "begin", "mark"},
           \A l : /\ Storing(h, l)' => Storing(h, l) \/ l \notin DOMAIN ledger.leads
                  /\ Enqueuing(h, l)' <=> Enqueuing(h, l)
    PROVE  NewsInv'
<1> USE HandlersCall
<1>0. NewsTypes
  BY NewsTypesAre
<1>1. ASSUME NEW d \in Loops
      PROVE  /\ Going(d)' => Going(d)
             /\ loop[d].at = "begun" => ask'[d] = ask[d] \/ ask'[d] = NoAsk
  <2>1. d \in Callers /\ d # h
    BY DeliveriesAre
  <2> QED BY <2>1 DEF Going, notificationVars
<1>2. ASSUME NEW g \in Handlers
      PROVE  \A l : /\ Storing(g, l)' => Storing(g, l) \/ l \notin DOMAIN ledger.leads
                    /\ Enqueuing(g, l)' <=> Enqueuing(g, l)
  <2>1. CASE g # h
    BY <2>1 DEF Storing, Enqueuing
  <2> QED BY <2>1
<1>3. faults'["lost"] >= faults["lost"]
  BY <1>0 DEF NewsTypes
<1>4. RowsRest
  BY <1>1, <1>2, <1>3 DEF RowsRest, notificationVars
<1> QED BY <1>4, RowsStay

LEMMA FillingStays ==
    ASSUME TypeInv, TypeInv', NewsInv, NEW p \in People, UNCHANGED notificationVars,
           OpenForm(p) \/ Answer(p) \/ SkipDescription(p) \/ EditForm(p) \/ LeaveForm(p) \/ Confirm(p)
    PROVE  NewsInv'
<1> USE HandlersCall
<1>0. NewsTypes /\ Home[p] \in Handlers /\ UNCHANGED <<ledger, reply, faults>> /\ Free(Home[p])
  BY NewsTypesAre, CampaignsAssumption
     DEF OpenForm, Answer, SkipDescription, EditForm, LeaveForm, FormKept, FormOnly, Confirm
<1>1. CASE UNCHANGED <<ask, task>>
  <2>1. \A l : /\ Storing(Home[p], l)' => Storing(Home[p], l)
               /\ Enqueuing(Home[p], l)' <=> Enqueuing(Home[p], l)
    BY <1>0, <1>1 DEF Storing, Enqueuing
  <2> QED BY <1>0, <1>1, <2>1, HandlerStays
<1>2. ASSUME NEW q, q.op = "create", AsksLedger(Home[p], q),
             NEW t, t.at = "created", task' = [task EXCEPT ![Home[p]] = t]
      PROVE  NewsInv'
  <2>1. /\ ask'[Home[p]] = q /\ \A c \in Callers : c # Home[p] => ask'[c] = ask[c]
        /\ task'[Home[p]] = t /\ \A g \in Handlers : g # Home[p] => task'[g] = task[g]
    BY <1>0, <1>2 DEF AsksLedger, NewsTypes
  <2>2. q # NoAsk /\ task[Home[p]].at = "idle"
    BY <1>0, <1>2 DEF NoAsk, Free, NoTask
  <2>3. \A l : ~ Storing(Home[p], l)' /\ ~ Enqueuing(Home[p], l) /\ ~ Enqueuing(Home[p], l)'
    BY <1>2, <2>1, <2>2 DEF Storing, Enqueuing
  <2> QED BY <1>0, <1>2, <2>1, <2>3, HandlerStays
<1>3. CASE Confirm(p) /\ ~ UNCHANGED <<ask, task>>
  <2> DEFINE q == [op |-> "create", who |-> p, key |-> forms[p].key, at |-> now]
             t == [at |-> "created", who |-> p]
  <2>1. AsksLedger(Home[p], q) /\ task' = [task EXCEPT ![Home[p]] = t] /\ q.op = "create" /\ t.at = "created"
    BY <1>3 DEF Confirm
  <2> HIDE DEF q, t
  <2> QED BY <1>2, <2>1
<1> QED BY <1>1, <1>3
        DEF OpenForm, Answer, SkipDescription, EditForm, LeaveForm, FormKept, FormOnly

LEMMA LeadStays ==
    ASSUME TypeInv, TypeInv', NewsInv, NEW h \in Handlers, UNCHANGED notificationVars,
           LeadStored(h) \/ LeadRefused(h)
    PROVE  NewsInv'
<1> USE HandlersCall
<1>0. NewsTypes /\ NamesExist
  BY NewsTypesAre DEF TypeInv
<1>1. CASE LeadStored(h)
  <2> DEFINE next == [at |-> "linked", who |-> task[h].who, lead |-> LeadOf(reply[h])]
  <2>1. /\ task[h].at = "created" /\ ask[h] = NoAsk
        /\ Links(h, "LEAD", task[h].who, ledger.leads[LeadOf(reply[h])].at)
        /\ task' = [task EXCEPT ![h] = next] /\ UNCHANGED ledger
    BY <1>1, LeadActs DEF salesVars
  <2>2. next.at = "linked" /\ next.lead = LeadOf(reply[h])
    OBVIOUS
  <2> HIDE DEF next
  <2>3. task'[h] = next /\ \A g \in Handlers : g # h => task'[g] = task[g]
    BY <1>0, <2>1 DEF NewsTypes
  <2>4. \A l : (Storing(h, l)' => Storing(h, l)) /\ ~ Enqueuing(h, l)' /\ ~ Enqueuing(h, l)
    BY <2>1, <2>2, <2>3 DEF Storing, Enqueuing
  <2>5. /\ \A c \in Callers : c # h => ask'[c] = ask[c] /\ reply'[c] = reply[c]
        /\ ask'[h] = ask[h] \/ ask'[h].op \notin {"enqueue", "begin", "mark"}
        /\ UNCHANGED faults
    <3>1. ask \in [Callers -> AskType] /\ reply \in [Callers -> Int \cup {None}] /\ UNCHANGED faults
      BY <2>1 DEF TypeInv, TypeOK, AskType, Links
    <3>2. ASSUME NEW q, q.op = "register", ask' = [ask EXCEPT ![h] = q], UNCHANGED reply
          PROVE  /\ \A c \in Callers : c # h => ask'[c] = ask[c] /\ reply'[c] = reply[c]
                 /\ ask'[h].op = "register"
      BY <3>1, <3>2
    <3>3. CASE AsksBook(h, RegisterAsk("LEAD", task[h].who, ledger.leads[LeadOf(reply[h])].at)) /\ UNCHANGED reply
      <4>1. RegisterAsk("LEAD", task[h].who, ledger.leads[LeadOf(reply[h])].at).op = "register"
        BY DEF RegisterAsk
      <4> HIDE DEF RegisterAsk
      <4>2. ask'[h].op = "register" /\ \A c \in Callers : c # h => ask'[c] = ask[c] /\ reply'[c] = reply[c]
        BY <3>1, <3>2, <3>3, <4>1 DEF AsksBook
      <4> QED BY <3>1, <4>2
    <3>4. CASE reply' = [reply EXCEPT ![h] = 0] /\ UNCHANGED <<ask, bookQueue>>
      BY <3>1, <3>4
    <3> QED BY <2>1, <3>3, <3>4 DEF Links
  <2> QED BY <2>1, <2>3, <2>4, <2>5, HandlerStays
<1>2. CASE LeadRefused(h)
  <2>1. /\ task[h].at = "created" /\ task' = [task EXCEPT ![h] = NoTask]
        /\ UNCHANGED <<ledger, ask, reply, faults>>
    BY <1>2 DEF LeadRefused, Answered, Goes
  <2>2. task'[h] = NoTask /\ \A g \in Handlers : g # h => task'[g] = task[g]
    BY <1>0, <2>1 DEF NewsTypes
  <2>3. \A l : ~ Storing(h, l)' /\ ~ Enqueuing(h, l)' /\ ~ Enqueuing(h, l)
    BY <2>1, <2>2 DEF Storing, Enqueuing, NoTask
  <2> QED BY <2>1, <2>2, <2>3, HandlerStays
<1> QED BY <1>1, <1>2

\* The ledger runs, and no row is written; a lead may be new.
LEMMA RunsStay ==
    ASSUME TypeInv, TypeInv', FormInv, NewsInv, NEW c \in Callers, NEW q \in LedgerRequest, LedgerRuns(c, q),
           ~ Beside(q), UNCHANGED notificationVars,
           q.op # "create" => ledger' = ledger /\ reply'[c] # 1
    PROVE  NewsInv'
<1> USE HandlersCall
<1>0. NewsTypes /\ NamesExist /\ faults \in [Kinds -> Nat]
      /\ \A l \in DOMAIN ledger.leads : l \in Nat \ {0} /\ l # None
  <2>1. NewsTypes /\ NamesExist /\ faults \in [Kinds -> Nat] /\ ledger \in Ledger
    BY NewsTypesAre DEF TypeInv, TypeOK
  <2> QED BY <2>1, LedgerParts, CampaignsAssumption
<1>1. /\ q = ask[c] /\ ask'[c] = NoAsk /\ UNCHANGED task
      /\ \A d \in Callers : d # c => ask'[d] = ask[d] /\ reply'[d] = reply[d]
      /\ UNCHANGED faults \/ Faulty("write")
  BY DEF LedgerRuns
<1>2. faults'["lost"] >= faults["lost"]
  <2>1. faults'["lost"] = faults["lost"]
    BY <1>1, FaultyIs DEF TypeInv, Kinds
  <2> QED BY <1>0, <2>1 DEF NewsTypes
<1>3. \A d \in Callers : ask'[d] = ask[d] \/ ask'[d].op \notin {"enqueue", "begin", "mark"}
  BY <1>1 DEF NoAsk
<1>4. CASE q.op = "create"
  <2>1. /\ c \in Handlers /\ task[c].at = "created"
        /\ ledger'.rows = ledger.rows /\ \A l \in DOMAIN ledger.leads : l \in DOMAIN ledger'.leads
        /\ LeadOf(reply'[c]) \notin DOMAIN ledger.leads
    <3>1. LeadOf(0) \notin DOMAIN ledger.leads /\ LeadOf(None) \notin DOMAIN ledger.leads
      BY <1>0, LeadOfNothing
    <3> QED BY <1>4, <3>1, CreateIsNew
  <2>2. ASSUME NEW d \in Loops
        PROVE  /\ Going(d)' => Going(d)
               /\ loop[d].at = "begun" => ask'[d] = ask[d] \/ ask'[d] = NoAsk
    <3>1. d \in Callers /\ d # c
      BY <2>1, DeliveriesAre
    <3> QED BY <1>1, <3>1 DEF Going, notificationVars
  <2>3. ASSUME NEW h \in Handlers
        PROVE  \A l : /\ Storing(h, l)' => Storing(h, l) \/ l \notin DOMAIN ledger.leads
                      /\ Enqueuing(h, l)' <=> Enqueuing(h, l)
    <3>1. CASE h = c
      BY <1>1, <2>1, <3>1 DEF Storing, Enqueuing
    <3>2. CASE h # c
      BY <1>1, <3>2 DEF Storing, Enqueuing
    <3> QED BY <3>1, <3>2
  <2>4. RowsRest
    BY <1>1, <1>2, <1>3, <2>1, <2>2, <2>3 DEF RowsRest, notificationVars
  <2> QED BY <2>4, RowsStay
<1>5. CASE q.op # "create"
  <2>1. ledger' = ledger /\ reply'[c] # 1 /\ (c \in Handlers => task[c].at # "created")
    <3>1. q.op \in {"enqueue", "begin", "mark"}
      BY <1>5 DEF Beside
    <3> QED BY <1>5, <3>1, RowsRun
  <2>2. ASSUME NEW d \in Loops
        PROVE  /\ Going(d)' => Going(d)
               /\ loop[d].at = "begun" => ask'[d] = ask[d] \/ ask'[d] = NoAsk
    <3>1. d \in Callers
      BY DeliveriesAre
    <3> QED BY <1>1, <2>1, <3>1 DEF Going, notificationVars
  <2>3. ASSUME NEW h \in Handlers
        PROVE  \A l : (Storing(h, l)' => Storing(h, l)) /\ (Enqueuing(h, l)' <=> Enqueuing(h, l))
    <3>1. CASE h = c
      BY <1>1, <2>1, <3>1 DEF Storing, Enqueuing
    <3>2. CASE h # c
      BY <1>1, <3>2 DEF Storing, Enqueuing
    <3> QED BY <3>1, <3>2
  <2>4. RowsRest
    BY <1>1, <1>2, <1>3, <2>1, <2>2, <2>3 DEF RowsRest, notificationVars
  <2> QED BY <2>4, RowsStay
<1> QED BY <1>4, <1>5

\* A row about which nothing happens but that a delivery of it stops.
LEMMA PaidSame ==
    ASSUME TypeInv, TypeInv', NEW r \in RowIds, PaidFor(r),
           faults'["lost"] = faults["lost"], again'[r] = again[r], received'[r] = received[r],
           \A d \in Deliveries(r) : loop'[d] = loop[d] /\ (Going(d)' => Going(d)),
           ComingTo(r)' <= ComingTo(r), FailingAt(r)' <= FailingAt(r)
    PROVE  PaidFor(r)'
<1>0. NewsTypes /\ NewsTypes' /\ CountsOK /\ CountsOK'
  BY NewsTypesAre, NewsTypesNext, CountsAre, CountsNext
<1>1. ASSUME NEW d \in Deliveries(r)
      PROVE  /\ GoingAt(d)' <= GoingAt(d)
             /\ GoingAt(d)' + WaitingAt(d)' = GoingAt(d) + WaitingAt(d)
  <2>1. GoingAt(d)' <= GoingAt(d)
    BY DEF GoingAt
  <2>2. GoingAt(d)' + WaitingAt(d)' = GoingAt(d) + WaitingAt(d)
    BY <1>0, DeliveriesAre DEF CountsOK, Waiting, Going, NoLoop
  <2> QED BY <2>1, <2>2
<1>2. /\ GoingAt(<<r, 1>>)' <= GoingAt(<<r, 1>>)
      /\ GoingAt(<<r, 1>>)' + WaitingAt(<<r, 1>>)' = GoingAt(<<r, 1>>) + WaitingAt(<<r, 1>>)
      /\ GoingAt(<<r, 2>>)' <= GoingAt(<<r, 2>>)
      /\ GoingAt(<<r, 2>>)' + WaitingAt(<<r, 2>>)' = GoingAt(<<r, 2>>) + WaitingAt(<<r, 2>>)
  BY <1>1 DEF Deliveries
<1>3. /\ GoingAt(<<r, 1>>) \in {0, 1} /\ GoingAt(<<r, 2>>) \in {0, 1}
      /\ GoingAt(<<r, 1>>)' \in {0, 1} /\ GoingAt(<<r, 2>>)' \in {0, 1}
      /\ WaitingAt(<<r, 1>>) \in {0, 1} /\ WaitingAt(<<r, 2>>) \in {0, 1}
      /\ WaitingAt(<<r, 1>>)' \in {0, 1} /\ WaitingAt(<<r, 2>>)' \in {0, 1}
      /\ ComingTo(r) \in {0, 1} /\ FailingAt(r) \in {0, 1} /\ received[r] \in Nat
      /\ ComingTo(r)' \in {0, 1} /\ FailingAt(r)' \in {0, 1}
      /\ faults["lost"] \in Nat /\ again[r] \in Nat
  BY <1>0, DeliveriesAre DEF CountsOK, NewsTypes, Deliveries
<1> QED BY <1>2, <1>3, PaidStays DEF Spent

\* The lead is linked: its rows, which are not there yet, are asked for.
LEMMA LinkedStays ==
    ASSUME TypeInv, TypeInv', NewsInv, NEW h \in Handlers, UNCHANGED notificationVars,
           LeadLinked(h)
    PROVE  NewsInv'
<1> USE HandlersCall
<1> DEFINE q == [op |-> "enqueue", lead |-> task[h].lead]
           t == [at |-> "enqueued", lead |-> task[h].lead]
<1>0. NewsTypes /\ NewsTypes' /\ CountsOK /\ CountsOK'
  BY NewsTypesAre, NewsTypesNext, CountsAre, CountsNext
<1>1. /\ task[h].at = "linked" /\ ask[h] = NoAsk /\ AsksLedger(h, q)
      /\ task' = [task EXCEPT ![h] = t] /\ UNCHANGED <<ledger, reply, faults>>
  BY DEF LeadLinked, Answered, Goes
<1>2. q.op = "enqueue" /\ q.lead = task[h].lead /\ t.at = "enqueued" /\ t.lead = task[h].lead
  OBVIOUS
<1> HIDE DEF q, t
<1>3. /\ ask'[h] = q /\ \A d \in Callers : d # h => ask'[d] = ask[d]
      /\ task'[h] = t /\ \A g \in Handlers : g # h => task'[g] = task[g]
      /\ UNCHANGED <<loop, recovering, received, again>>
  BY <1>0, <1>1 DEF AsksLedger, NewsTypes, notificationVars
<1>4. /\ Storing(h, task[h].lead)
      /\ \A l : ~ Enqueuing(h, l) /\ (Enqueuing(h, l)' <=> l = task[h].lead) /\ ~ Storing(h, l)'
      /\ \A g \in Handlers : g # h =>
            \A l : (Storing(g, l)' <=> Storing(g, l)) /\ (Enqueuing(g, l)' <=> Enqueuing(g, l))
  BY <1>1, <1>2, <1>3 DEF Storing, Enqueuing
<1>5. ASSUME NEW c \in Callers PROVE AskOfRows(c)'
  <2>1. CASE c = h
    BY <1>2, <1>3, <1>4, <2>1 DEF AskOfRows
  <2>2. CASE c # h
    <3>1. AskOfRows(c) /\ ask'[c] = ask[c]
      BY <1>3, <2>2 DEF NewsInv
    <3>2. c \in Handlers => \A l : Enqueuing(c, l)' <=> Enqueuing(c, l)
      BY <1>4, <2>2
    <3> QED BY <1>1, <1>3, <3>1, <3>2 DEF AskOfRows
  <2> QED BY <2>1, <2>2
<1>6. \A d \in Loops : loop'[d] = loop[d] /\ ask'[d] = ask[d] /\ reply'[d] = reply[d]
                       /\ (Going(d)' <=> Going(d))
  <2>1. \A d \in Loops : d \in Callers /\ d # h
    BY DeliveriesAre
  <2> QED BY <1>1, <1>3, <2>1 DEF Going
<1>7. ASSUME NEW d \in Loops PROVE LoopOK(d)'
  BY <1>1, <1>3, <1>6 DEF NewsInv, LoopOK
<1>8. ASSUME NEW r \in RowIds PROVE RowOK(r)'
  <2>1. RowOK(r) /\ \A d \in Deliveries(r) : Going(d)' <=> Going(d)
    BY <1>6, DeliveriesAre DEF NewsInv
  <2>2. \A g \in Handlers : Storing(g, r[1])' => Storing(g, r[1])
    BY <1>4
  <2>3. Found(r)' => Found(r) /\ \A g \in Handlers : ~ Enqueuing(g, r[1])'
    <3>1. Found(r)' <=> Found(r)
      BY <1>3, FoundSame
    <3>2. \A g \in Handlers : Enqueuing(g, r[1])' => Enqueuing(g, r[1]) \/ Storing(h, r[1])
      BY <1>4
    <3> QED BY <2>1, <3>1, <3>2 DEF RowOK
  <2> QED BY <1>1, <1>3, <2>1, <2>2, <2>3, RowKept
<1>9. ASSUME NEW r \in RowIds PROVE PaidFor(r)'
  <2>1. CASE r[1] = task[h].lead
    <3>1. ledger.rows[r].status = "NONE" /\ received[r] = 0
      BY <1>4, <2>1 DEF NewsInv, RowOK
    <3>2. \A d \in Deliveries(r) : loop[d] = NoLoop
      BY <3>1, DeliveriesAre DEF NewsInv, LoopOK
    <3>3. \A d \in Deliveries(r) : ~ Going(d)' /\ ~ Waiting(d)'
      BY <1>6, <3>2, DeliveriesAre DEF Going, Waiting, NoLoop
    <3>4. \A d \in Deliveries(r) : GoingAt(d)' = 0 /\ WaitingAt(d)' = 0
      BY <1>0, <3>3, DeliveriesAre DEF CountsOK
    <3>5. FailingAt(r)' = 0 /\ received'[r] = 0 /\ ComingTo(r)' \in {0, 1}
      BY <1>0, <1>1, <1>3, <3>1 DEF FailingAt, CountsOK
    <3>6. /\ GoingAt(<<r, 1>>)' = 0 /\ GoingAt(<<r, 2>>)' = 0
          /\ WaitingAt(<<r, 1>>)' = 0 /\ WaitingAt(<<r, 2>>)' = 0
      BY <3>4 DEF Deliveries
    <3>7. faults'["lost"] \in Nat /\ again'[r] \in Nat
      BY <1>0 DEF NewsTypes
    <3> QED BY <3>5, <3>6, <3>7 DEF PaidFor, Spent
  <2>2. CASE r[1] # task[h].lead
    <3>1. \A g \in Handlers : Enqueuing(g, r[1])' => Enqueuing(g, r[1])
      BY <1>4, <2>2
    <3>4. Resumed(r)' <=> Resumed(r)
      BY <1>3, FoundSame
    <3>2. ComingTo(r)' <= ComingTo(r) /\ FailingAt(r)' <= FailingAt(r)
      BY <1>1, <3>1, <3>4 DEF ComingTo, FailingAt
    <3>3. PaidFor(r)
      BY DEF NewsInv
    <3> QED BY <1>1, <1>3, <1>6, <3>2, <3>3, DeliveriesAre, PaidSame
  <2> QED BY <2>1, <2>2
<1> QED BY <1>5, <1>7, <1>8, <1>9 DEF NewsInv

\* The ledger runs and writes rows, none of which disappears.
LEMMA WrittenStays ==
    ASSUME TypeInv, NewsInv, NEW c \in Callers, NEW q \in LedgerRequest, LedgerRuns(c, q),
           q.op \in {"enqueue", "begin", "mark"}, UNCHANGED notificationVars,
           \A r \in RowIds : ledger.rows[r].status # "NONE" => ledger'.rows[r].status # "NONE",
           \A r \in RowIds : RowOK(r)' /\ PaidFor(r)'
    PROVE  NewsInv'
<1>1. /\ ask'[c] = NoAsk /\ UNCHANGED task /\ UNCHANGED <<loop, recovering, received, again>>
      /\ \A d \in Callers : d # c => ask'[d] = ask[d] /\ reply'[d] = reply[d]
  BY RowsRun DEF notificationVars
<1>2. \A d \in Callers : ask'[d] = ask[d] \/ ask'[d] = NoAsk
  BY <1>1
<1>3. ASSUME NEW d \in Callers PROVE AskOfRows(d)'
  <2>1. CASE ask'[d] = NoAsk
    BY <2>1 DEF AskOfRows, NoAsk
  <2>2. CASE ask'[d] = ask[d]
    <3>1. ask[d] \in AskType
      BY NewsTypesAre DEF NewsTypes
    <3>2. ask[d].op \in {"begin", "mark"} => ask[d].row \in RowIds
      <4>1. ask[d] \in LedgerRequest \/ ask[d].op \notin {"begin", "mark"}
        BY <3>1, BookFields DEF AskType, BookOps, NoAsk
      <4> QED BY <4>1, LedgerFields
    <3>3. AskOfRows(d)
      BY DEF NewsInv
    <3> QED BY <1>1, <2>2, <3>2, <3>3 DEF AskOfRows, Enqueuing
  <2> QED BY <1>2, <2>1, <2>2
<1>4. ASSUME NEW d \in Loops PROVE LoopOK(d)'
  <2>1. LoopOK(d) /\ d \in Callers /\ d[1] \in RowIds
    BY DeliveriesAre DEF NewsInv
  <2> QED BY <1>1, <1>2, <2>1 DEF LoopOK
<1> QED BY <1>3, <1>4 DEF NewsInv

\* enqueueForLead(): its rows are there now, and no handler is still to ask for them.
LEMMA EnqueueStays ==
    ASSUME TypeInv, TypeInv', FormInv, NewsInv, NEW c \in Callers, NEW q \in LedgerRequest, LedgerRuns(c, q),
           q.op = "enqueue", ledger' = LedgerResult(q), UNCHANGED faults, UNCHANGED notificationVars
    PROVE  NewsInv'
<1> USE HandlersCall
<1>0. NewsTypes /\ NewsTypes' /\ NamesExist
  BY NewsTypesAre, NewsTypesNext DEF TypeInv
<1>1. /\ q = ask[c] /\ ask'[c] = NoAsk /\ ledger'.leads = ledger.leads
      /\ UNCHANGED <<forms, opened, task, budget>> /\ UNCHANGED <<loop, recovering, received, again>>
      /\ \A d \in Callers : d # c => ask'[d] = ask[d] /\ reply'[d] = reply[d]
  BY RowsRun DEF notificationVars
<1>2. c \in Handlers /\ Enqueuing(c, q.lead) /\ q.lead \in DOMAIN ledger.leads
  BY <1>0, <1>1 DEF NewsInv, AskOfRows, NamesExist
<1>3. \A r \in RowIds :
        /\ r[1] = q.lead /\ ledger.rows[r].status = "NONE" =>
            ledger'.rows[r].status = "PENDING" /\ ledger'.rows[r].attempts = 0 /\ ~ ledger'.rows[r].failed
        /\ ~ (r[1] = q.lead /\ ledger.rows[r].status = "NONE") => ledger'.rows[r] = ledger.rows[r]
  <2>1. LedgerResult(q) = Enqueued(ledger, q)
    BY DEF LedgerResult
  <2>2. ledger \in Ledger
    BY <1>0 DEF NewsTypes
  <2> QED BY <2>1, <2>2, EnqueuedIs
<1>4. \A h \in Handlers : ~ Storing(h, q.lead)
  <2>1. ASSUME NEW h \in Handlers, Storing(h, q.lead) PROVE FALSE
    <3>1. task[h].who \in People /\ HasForm(task[h].who)
          /\ forms[task[h].who].key = ledger.leads[q.lead].key
      <4>1. task[h].at \in {"created", "linked"} /\ FormStays(h) /\ task[h] \in Task
        BY <1>0, <2>1 DEF Storing, FormInv, NewsTypes
      <4> QED BY <1>2, <2>1, <4>1, TaskFields DEF FormStays
    <3> QED BY <1>2, <3>1 DEF FormInv, FormStays
  <2> QED BY <2>1
<1>5. \A h \in Handlers : \A l : (Storing(h, l)' => Storing(h, l)) /\ (Enqueuing(h, l)' <=> Enqueuing(h, l))
  <2>1. task[c].at = "enqueued"
    BY <1>2 DEF Enqueuing
  <2> QED BY <1>1, <2>1 DEF Storing, Enqueuing
<1>6. \A d \in Loops : d # c /\ (Going(d)' <=> Going(d))
  <2>1. \A d \in Loops : d \in Callers /\ d # c
    BY <1>2, DeliveriesAre
  <2> QED BY <1>1, <2>1 DEF Going
<1>7. ASSUME NEW r \in RowIds PROVE RowOK(r)'
  <2>1. RowOK(r) /\ \A d \in Deliveries(r) : Going(d)' <=> Going(d)
    BY <1>6, DeliveriesAre DEF NewsInv
  <2>2. CASE r[1] = q.lead /\ ledger.rows[r].status = "NONE"
    <3>1. ledger'.rows[r].status = "PENDING" /\ ledger'.rows[r].attempts = 0
      BY <1>3, <2>2
    <3>2. received'[r] = 0 /\ \A d \in Deliveries(r) : ~ Going(d)'
      BY <1>1, <2>1, <2>2 DEF RowOK
    <3>3. \A h \in Handlers : ~ Storing(h, r[1])'
      BY <1>4, <1>5, <2>2
    <3>4. ~ Found(r)'
      BY <1>1, <2>1, <2>2, FoundSame DEF RowOK
    <3> QED BY <1>1, <1>2, <2>2, <3>1, <3>2, <3>3, <3>4 DEF RowOK, Deliveries
  <2>3. CASE ~ (r[1] = q.lead /\ ledger.rows[r].status = "NONE")
    <3>1. ledger'.rows[r] = ledger.rows[r]
      BY <1>3, <2>3
    <3>2. Found(r)' => Found(r) /\ \A h \in Handlers : ~ Enqueuing(h, r[1])'
      BY <1>1, <1>5, <2>1, FoundSame DEF RowOK
    <3> QED BY <1>1, <1>5, <2>1, <3>1, <3>2, RowKept
  <2> QED BY <2>2, <2>3
<1>8. ASSUME NEW r \in RowIds PROVE PaidFor(r)'
  <2>5. Resumed(r)' <=> Resumed(r)
    BY <1>1, FoundSame
  <2>1. ComingTo(r)' <= ComingTo(r)
    BY <1>5, <2>5 DEF ComingTo
  <2>2. FailingAt(r)' <= FailingAt(r)
    BY <1>3, <2>5 DEF FailingAt
  <2>3. PaidFor(r)
    BY DEF NewsInv
  <2>4. \A d \in Deliveries(r) : loop'[d] = loop[d] /\ (Going(d)' => Going(d))
    BY <1>1, <1>6, DeliveriesAre
  <2> QED BY <1>1, <2>1, <2>2, <2>3, <2>4, PaidSame
<1>9. \A r \in RowIds : ledger.rows[r].status # "NONE" => ledger'.rows[r].status # "NONE"
  BY <1>3
<1> QED BY <1>7, <1>8, <1>9, WrittenStays

\* The deliveries of a row are two, in either order.
LEMMA TwoDeliveries ==
    ASSUME TypeInv, TypeInv', NEW r \in RowIds, NEW c \in Deliveries(r)
    PROVE  \E d \in Deliveries(r) :
             /\ d # c /\ d \in Loops
             /\ Spent(r) = received[r] + GoingAt(c) + GoingAt(d) + ComingTo(r)
             /\ Spent(r)' = received'[r] + GoingAt(c)' + GoingAt(d)' + ComingTo(r)'
             /\ Spent(r) + WaitingAt(<<r, 1>>) + WaitingAt(<<r, 2>>) = Spent(r) + WaitingAt(c) + WaitingAt(d)
             /\ Spent(r)' + WaitingAt(<<r, 1>>)' + WaitingAt(<<r, 2>>)' = Spent(r)' + WaitingAt(c)' + WaitingAt(d)'
<1>1. /\ \A d \in Loops : /\ GoingAt(d) \in {0, 1} /\ WaitingAt(d) \in {0, 1}
                          /\ GoingAt(d)' \in {0, 1} /\ WaitingAt(d)' \in {0, 1}
      /\ received[r] \in Nat /\ received'[r] \in Nat
      /\ ComingTo(r) \in {0, 1} /\ ComingTo(r)' \in {0, 1}
  BY NewsTypesAre, NewsTypesNext, CountsAre, CountsNext DEF CountsOK, NewsTypes
<1>2. /\ <<r, 1>> # <<r, 2>> /\ <<r, 1>> \in Loops /\ <<r, 2>> \in Loops
      /\ Deliveries(r) = {<<r, 1>>, <<r, 2>>}
  BY DeliveriesAre DEF Deliveries
<1>3. Spent(r) \in Nat /\ Spent(r)' \in Nat
  BY <1>1, <1>2 DEF Spent
<1>4. /\ Spent(r) = received[r] + GoingAt(<<r, 2>>) + GoingAt(<<r, 1>>) + ComingTo(r)
      /\ Spent(r)' = received'[r] + GoingAt(<<r, 2>>)' + GoingAt(<<r, 1>>)' + ComingTo(r)'
  BY <1>1, <1>2 DEF Spent
<1>5. /\ Spent(r) + WaitingAt(<<r, 1>>) + WaitingAt(<<r, 2>>) = Spent(r) + WaitingAt(<<r, 2>>) + WaitingAt(<<r, 1>>)
      /\ Spent(r)' + WaitingAt(<<r, 1>>)' + WaitingAt(<<r, 2>>)' =
         Spent(r)' + WaitingAt(<<r, 2>>)' + WaitingAt(<<r, 1>>)'
  BY <1>1, <1>2, <1>3
<1>6. CASE c = <<r, 1>>
  <2>1. /\ Spent(r) = received[r] + GoingAt(c) + GoingAt(<<r, 2>>) + ComingTo(r)
        /\ Spent(r)' = received'[r] + GoingAt(c)' + GoingAt(<<r, 2>>)' + ComingTo(r)'
    BY <1>6 DEF Spent
  <2> QED BY <1>2, <1>6, <2>1
<1>7. CASE c = <<r, 2>>
  BY <1>2, <1>4, <1>5, <1>7
<1> QED BY <1>2, <1>6, <1>7

\* beginAttempt(): a delivery that waited may send, and the row has no outcome.
LEMMA BeginStays ==
    ASSUME TypeInv, TypeInv', NewsInv, NEW c \in Callers, NEW q \in LedgerRequest, LedgerRuns(c, q),
           q.op = "begin", ledger' = LedgerResult(q), ledger.rows[q.row].status = "PENDING",
           UNCHANGED faults, UNCHANGED notificationVars
    PROVE  NewsInv'
<1> USE HandlersCall
<1>0. NewsTypes /\ NewsTypes' /\ CountsOK /\ CountsOK' /\ q.row \in RowIds
  BY NewsTypesAre, NewsTypesNext, CountsAre, CountsNext, LedgerFields
<1>1. /\ q = ask[c] /\ q # NoAsk /\ ask'[c] = NoAsk /\ ledger'.leads = ledger.leads
      /\ UNCHANGED <<forms, opened, task, budget>> /\ UNCHANGED <<loop, recovering, received, again>>
      /\ \A d \in Callers : d # c => ask'[d] = ask[d] /\ reply'[d] = reply[d]
  BY RowsRun DEF notificationVars
<1>2. c \in Deliveries(q.row) /\ loop[c].at = "begun"
  BY <1>1 DEF NewsInv, AskOfRows
<1>3. c \in Loops /\ c \notin Handlers /\ \A r \in RowIds : c \in Deliveries(r) => r = q.row
  BY <1>0, <1>2, DeliveriesAre
<1>4. /\ \A r \in RowIds : r # q.row => ledger'.rows[r] = ledger.rows[r]
      /\ ledger'.rows[q.row].status = "PENDING" /\ ~ ledger'.rows[q.row].failed
      /\ ledger'.rows[q.row].attempts = ledger.rows[q.row].attempts + 1
  <2>1. LedgerResult(q) = Begun(ledger, q)
    BY DEF LedgerResult
  <2>2. ledger \in Ledger
    BY <1>0 DEF NewsTypes
  <2> QED BY <2>1, <2>2, BegunIs DEF RowRewritten
<1>5. \A h \in Handlers : \A l : (Storing(h, l)' <=> Storing(h, l)) /\ (Enqueuing(h, l)' <=> Enqueuing(h, l))
  BY <1>1, <1>3 DEF Storing, Enqueuing
<1>6. \A d \in Loops : d # c => (Going(d)' <=> Going(d))
  BY <1>1, DeliveriesAre DEF Going
<1>7. ASSUME NEW r \in RowIds PROVE RowOK(r)'
  <2>1. RowOK(r)
    BY DEF NewsInv
  <2>2. CASE r = q.row
    <3>1. ledger.rows[r].attempts \in Nat
      BY <1>0, RowFields DEF NewsTypes
    <3>2. ledger'.rows[r].attempts # 0
      BY <1>4, <2>2, <3>1
    <3>3. r[1] \in DOMAIN ledger.leads /\ \A h \in Handlers : ~ Storing(h, r[1])
      BY <2>1, <2>2 DEF RowOK
    <3>4. Found(r)' => \A h \in Handlers : ~ Enqueuing(h, r[1])'
      BY <1>1, <1>5, <2>1, FoundSame DEF RowOK
    <3> QED BY <1>1, <1>4, <1>5, <2>2, <3>2, <3>3, <3>4 DEF RowOK
  <2>3. CASE r # q.row
    <3>1. \A d \in Deliveries(r) : Going(d)' <=> Going(d)
      BY <1>3, <1>6, <2>3, DeliveriesAre
    <3>2. Found(r)' => Found(r) /\ \A h \in Handlers : ~ Enqueuing(h, r[1])'
      BY <1>1, <1>5, <2>1, FoundSame DEF RowOK
    <3> QED BY <1>1, <1>4, <1>5, <2>1, <2>3, <3>1, <3>2, RowKept
  <2> QED BY <2>2, <2>3
<1>8. ASSUME NEW r \in RowIds PROVE PaidFor(r)'
  <2>4. Resumed(r)' <=> Resumed(r)
    BY <1>1, FoundSame
  <2>1. PaidFor(r) /\ ComingTo(r)' = ComingTo(r)
    BY <1>5, <2>4 DEF NewsInv, ComingTo
  <2>2. CASE r = q.row
    <3>1. Waiting(c) /\ loop'[c] = loop[c]
      BY <1>1, <1>2 DEF Waiting, Going, NoLoop
    <3>2. /\ GoingAt(c) = 0 /\ WaitingAt(c) = 1 /\ GoingAt(c)' + WaitingAt(c)' = 1
          /\ GoingAt(c)' \in {0, 1} /\ WaitingAt(c)' \in {0, 1}
      <4>1. Going(c)' \/ Waiting(c)'
        BY <3>1 DEF Waiting
      <4> QED BY <1>0, <1>3, <3>1, <4>1 DEF CountsOK, Waiting
    <3>3. \A d \in Deliveries(r) : d # c => GoingAt(d)' = GoingAt(d) /\ WaitingAt(d)' = WaitingAt(d)
      BY <1>1, <1>6, DeliveriesAre DEF GoingAt, WaitingAt, Waiting
    <3>4. FailingAt(r)' = 0 /\ received'[r] = received[r] /\ again'[r] = again[r]
      BY <1>1, <1>4, <2>2 DEF FailingAt
    <3>5. PICK d \in Deliveries(r) :
            /\ d # c /\ d \in Loops
            /\ Spent(r) = received[r] + GoingAt(c) + GoingAt(d) + ComingTo(r)
            /\ Spent(r)' = received'[r] + GoingAt(c)' + GoingAt(d)' + ComingTo(r)'
            /\ Spent(r) + WaitingAt(<<r, 1>>) + WaitingAt(<<r, 2>>) = Spent(r) + WaitingAt(c) + WaitingAt(d)
            /\ Spent(r)' + WaitingAt(<<r, 1>>)' + WaitingAt(<<r, 2>>)' =
               Spent(r)' + WaitingAt(c)' + WaitingAt(d)'
      BY <1>2, <2>2, TwoDeliveries
    <3>6. /\ faults["lost"] \in Nat /\ again[r] \in Nat /\ received[r] \in Nat /\ ComingTo(r) \in {0, 1}
          /\ GoingAt(d) \in {0, 1} /\ WaitingAt(d) \in {0, 1}
      BY <1>0, <3>5 DEF NewsTypes, CountsOK
    <3>7. GoingAt(d)' = GoingAt(d) /\ WaitingAt(d)' = WaitingAt(d)
      BY <3>3, <3>5
    <3>8. /\ Spent(r)' + WaitingAt(c)' + WaitingAt(d)' = Spent(r) + WaitingAt(c) + WaitingAt(d)
          /\ Spent(r)' <= Spent(r) + WaitingAt(c) + WaitingAt(d)
          /\ Spent(r)' \in Nat /\ Spent(r) \in Nat
      BY <2>1, <3>2, <3>4, <3>5, <3>6, <3>7
    <3>9. Spent(r) + WaitingAt(c) + WaitingAt(d) <= 1 + faults["lost"] + again[r]
      BY <2>1, <3>5 DEF PaidFor
    <3>10. Spent(r)' + FailingAt(r)' <= 1 + faults["lost"] + again[r]
      BY <3>2, <3>4, <3>6, <3>8, <3>9
    <3>11. Spent(r)' + WaitingAt(c)' + WaitingAt(d)' <= 1 + faults["lost"] + again[r]
      BY <3>8, <3>9
    <3> QED BY <3>4, <3>5, <3>10, <3>11 DEF PaidFor
  <2>3. CASE r # q.row
    <3>1. \A d \in Deliveries(r) : loop'[d] = loop[d] /\ (Going(d)' => Going(d))
      BY <1>1, <1>3, <1>6, <2>3, DeliveriesAre
    <3>2. FailingAt(r)' <= FailingAt(r) /\ ComingTo(r)' <= ComingTo(r)
      BY <1>0, <1>4, <2>1, <2>3, <2>4 DEF FailingAt, CountsOK
    <3> QED BY <1>1, <2>1, <3>1, <3>2, PaidSame
  <2> QED BY <2>2, <2>3
<1>9. \A r \in RowIds : ledger.rows[r].status # "NONE" => ledger'.rows[r].status # "NONE"
  BY <1>4
<1> QED BY <1>7, <1>8, <1>9, WrittenStays

\* writeState(): the outcome of an attempt; a row is left PENDING only by a delivery that goes on.
LEMMA MarkStays ==
    ASSUME TypeInv, TypeInv', NewsInv, NEW c \in Callers, NEW q \in LedgerRequest, LedgerRuns(c, q),
           q.op = "mark", ledger' = LedgerResult(q), UNCHANGED faults, UNCHANGED notificationVars
    PROVE  NewsInv'
<1> USE HandlersCall
<1>0. NewsTypes /\ NewsTypes' /\ CountsOK /\ CountsOK' /\ q.row \in RowIds
      /\ q.to \in {"PENDING", "SENT", "UNDELIVERABLE"}
  BY NewsTypesAre, NewsTypesNext, CountsAre, CountsNext, LedgerFields
<1>1. /\ q = ask[c] /\ q # NoAsk /\ ask'[c] = NoAsk /\ ledger'.leads = ledger.leads
      /\ UNCHANGED <<forms, opened, task, budget>> /\ UNCHANGED <<loop, recovering, received, again>>
      /\ \A d \in Callers : d # c => ask'[d] = ask[d] /\ reply'[d] = reply[d]
  BY RowsRun DEF notificationVars
<1>2. /\ c \in Deliveries(q.row) \cup {Boot}
      /\ ledger.rows[q.row].status # "NONE"
      /\ q.to = "SENT" => received[q.row] > 0
      /\ q.to = "PENDING" => c \in Deliveries(q.row) /\ loop[c].at = "check"
  BY <1>1 DEF NewsInv, AskOfRows
<1>3. c \notin Handlers
  BY <1>0, <1>2, DeliveriesAre, SalesAssumption
<1>4. /\ \A r \in RowIds : r # q.row => ledger'.rows[r] = ledger.rows[r]
      /\ ledger'.rows[q.row].status = q.to /\ ledger'.rows[q.row].attempts = ledger.rows[q.row].attempts
      /\ ledger'.rows[q.row].failed <=> q.to # "SENT"
  <2>1. LedgerResult(q) = Marked(ledger, q)
    BY DEF LedgerResult
  <2>2. ledger \in Ledger
    BY <1>0 DEF NewsTypes
  <2> QED BY <2>1, <2>2, MarkedIs DEF RowRewritten
<1>5. \A h \in Handlers : \A l : (Storing(h, l)' <=> Storing(h, l)) /\ (Enqueuing(h, l)' <=> Enqueuing(h, l))
  BY <1>1, <1>3 DEF Storing, Enqueuing
<1>6. \A d \in Loops : Going(d)' <=> Going(d)
  <2>1. \A d \in Loops : d = c => loop[d].at # "begun"
    BY <1>1 DEF NewsInv, LoopOK
  <2> QED BY <1>1, <2>1, DeliveriesAre DEF Going
<1>7. ASSUME NEW r \in RowIds PROVE RowOK(r)'
  <2>1. RowOK(r) /\ \A d \in Deliveries(r) : Going(d)' <=> Going(d)
    BY <1>6, DeliveriesAre DEF NewsInv
  <2>2. CASE r = q.row
    <3>1. r[1] \in DOMAIN ledger.leads /\ \A h \in Handlers : ~ Storing(h, r[1])
      BY <1>2, <2>1, <2>2 DEF RowOK
    <3>2. ledger'.rows[r].status # "NONE"
      BY <1>0, <1>4, <2>2
    <3>3. Found(r)' => \A h \in Handlers : ~ Enqueuing(h, r[1])'
      BY <1>1, <1>5, <2>1, FoundSame DEF RowOK
    <3>4. ledger'.rows[r].status = "SENT" => received'[r] > 0
      BY <1>1, <1>2, <1>4, <2>2
    <3>5. ledger'.rows[r].attempts = 0 => received'[r] = 0 /\ \A d \in Deliveries(r) : ~ Going(d)'
      BY <1>1, <1>4, <2>1, <2>2 DEF RowOK
    <3> QED BY <1>1, <1>5, <3>1, <3>2, <3>3, <3>4, <3>5 DEF RowOK, Deliveries
  <2>3. CASE r # q.row
    <3>1. Found(r)' => Found(r) /\ \A h \in Handlers : ~ Enqueuing(h, r[1])'
      BY <1>1, <1>5, <2>1, FoundSame DEF RowOK
    <3> QED BY <1>1, <1>4, <1>5, <2>1, <2>3, <3>1, RowKept
  <2> QED BY <2>2, <2>3
<1>8. ASSUME NEW r \in RowIds PROVE PaidFor(r)'
  <2>5. Resumed(r)' <=> Resumed(r)
    BY <1>1, FoundSame
  <2>1. PaidFor(r) /\ ComingTo(r)' <= ComingTo(r)
    BY <1>0, <1>5, <2>5 DEF NewsInv, ComingTo, CountsOK
  <2>2. \A d \in Deliveries(r) : loop'[d] = loop[d] /\ (Going(d)' => Going(d))
    BY <1>1, <1>6, DeliveriesAre
  <2>3. CASE r = q.row /\ q.to = "PENDING"
    <3>1. c \in Deliveries(r) /\ Waiting(c)
      BY <1>2, <2>3 DEF Waiting, Going, NoLoop
    <3>2. /\ GoingAt(c)' = GoingAt(c) /\ WaitingAt(c)' = 1 /\ WaitingAt(c) = 1
          /\ \A d \in Deliveries(r) : GoingAt(d)' = GoingAt(d) /\ WaitingAt(d)' = WaitingAt(d)
      <4>1. \A d \in Loops : GoingAt(d)' = GoingAt(d) /\ WaitingAt(d)' = WaitingAt(d)
        BY <1>1, <1>6 DEF GoingAt, WaitingAt, Waiting
      <4> QED BY <1>0, <3>1, <4>1, DeliveriesAre DEF CountsOK
    <3>3. PICK d \in Deliveries(r) :
            /\ d # c /\ d \in Loops
            /\ Spent(r) = received[r] + GoingAt(c) + GoingAt(d) + ComingTo(r)
            /\ Spent(r)' = received'[r] + GoingAt(c)' + GoingAt(d)' + ComingTo(r)'
            /\ Spent(r) + WaitingAt(<<r, 1>>) + WaitingAt(<<r, 2>>) = Spent(r) + WaitingAt(c) + WaitingAt(d)
            /\ Spent(r)' + WaitingAt(<<r, 1>>)' + WaitingAt(<<r, 2>>)' =
               Spent(r)' + WaitingAt(c)' + WaitingAt(d)'
      BY <3>1, TwoDeliveries
    <3>4. /\ faults["lost"] \in Nat /\ again[r] \in Nat /\ received[r] \in Nat
          /\ ComingTo(r) \in {0, 1} /\ ComingTo(r)' \in {0, 1} /\ FailingAt(r)' \in {0, 1}
          /\ \A e \in Deliveries(r) : GoingAt(e) \in {0, 1} /\ WaitingAt(e) \in {0, 1}
      BY <1>0, DeliveriesAre DEF NewsTypes, CountsOK
    <3>5. Spent(r)' <= Spent(r) /\ Spent(r)' \in Nat /\ Spent(r) \in Nat
      BY <1>1, <2>1, <3>1, <3>2, <3>3, <3>4
    <3>6. Spent(r) + WaitingAt(c) + WaitingAt(d) <= 1 + faults["lost"] + again[r]
      BY <2>1, <3>3 DEF PaidFor
    <3>7. Spent(r)' + WaitingAt(c)' + WaitingAt(d)' <= 1 + faults["lost"] + again[r]
      BY <3>2, <3>4, <3>5, <3>6
    <3>8. Spent(r)' + FailingAt(r)' <= 1 + faults["lost"] + again[r]
      BY <3>2, <3>4, <3>5, <3>6
    <3> QED BY <1>1, <3>3, <3>7, <3>8 DEF PaidFor
  <2>4. CASE ~ (r = q.row /\ q.to = "PENDING")
    <3>1. FailingAt(r)' <= FailingAt(r)
      BY <1>0, <1>4, <2>4, <2>5 DEF FailingAt, CountsOK
    <3> QED BY <1>1, <2>1, <2>2, <3>1, PaidSame
  <2> QED BY <2>3, <2>4
<1>9. \A r \in RowIds : ledger.rows[r].status # "NONE" => ledger'.rows[r].status # "NONE"
  BY <1>0, <1>4
<1> QED BY <1>7, <1>8, <1>9, WrittenStays

LEMMA LedgerNews ==
    ASSUME TypeInv, TypeInv', FormInv, NewsInv, NEW c \in Callers, NEW q \in LedgerRequest, LedgerRuns(c, q),
           ~ Beside(q), UNCHANGED notificationVars
    PROVE  NewsInv'
<1>0. TypeOK /\ NewsTypes
  BY NewsTypesAre DEF TypeInv
<1>1. \/ ledger' = LedgerResult(q) /\ UNCHANGED faults /\ reply'[c] = LedgerReply(q, LedgerResult(q))
      \/ UNCHANGED ledger /\ reply'[c] = 0
  BY DEF LedgerRuns
<1>2. CASE q.op = "create" \/ (UNCHANGED ledger /\ reply'[c] = 0)
  BY <1>2, RunsStay
<1>3. CASE /\ ledger' = LedgerResult(q) /\ UNCHANGED faults /\ reply'[c] = LedgerReply(q, LedgerResult(q))
           /\ q.op # "create"
  <2>1. CASE q.op = "enqueue"
    BY <1>3, <2>1, EnqueueStays
  <2>2. CASE q.op = "mark"
    BY <1>3, <2>2, MarkStays
  <2>3. CASE q.op = "begin" /\ ledger.rows[q.row].status = "PENDING"
    BY <1>3, <2>3, BeginStays
  <2>4. CASE q.op = "begin" /\ ledger.rows[q.row].status # "PENDING"
    <3>1. reply'[c] = None /\ None # 1
      BY <1>0, <1>3, <2>4, LedgerReplyIs, CampaignsAssumption
    <3>2. LedgerResult(q) = Begun(ledger, q) /\ ledger \in Ledger
      BY <1>0, <2>4 DEF LedgerResult, NewsTypes
    <3>3. ledger' = ledger
      BY <1>3, <2>4, <3>2, BegunIs
    <3> QED BY <3>1, <3>3, RunsStay
  <2> QED BY <1>3, <2>1, <2>2, <2>3, <2>4 DEF Beside
<1> QED BY <1>1, <1>2, <1>3

LEMMA LoopMovesStays ==
    ASSUME TypeInv, TypeInv', NewsInv, NEW d \in Loops, NEW x, LoopMoves(d, x)
    PROVE  NewsInv'
<1> USE HandlersCall
<1> DEFINE r0 == d[1]
<1>0. /\ NewsTypes /\ NewsTypes' /\ CountsOK /\ CountsOK'
      /\ r0 \in RowIds /\ d \in Deliveries(r0) /\ d \in Callers \ (Handlers \cup {Web, Boot})
      /\ \A r \in RowIds : d \in Deliveries(r) => r = r0
  BY NewsTypesAre, NewsTypesNext, CountsAre, CountsNext, DeliveriesAre
<1>1. /\ loop'[d] = x /\ \A e \in Loops : e # d => loop'[e] = loop[e]
      /\ UNCHANGED <<ledger, reply, task, recovering, again>>
      /\ \A c \in Callers : c # d => ask'[c] = ask[c]
      /\ \A r \in RowIds : received'[r] >= received[r]
      /\ \A r \in RowIds : received'[r] # received[r] => r = r0 /\ Going(d)
      /\ loop[d].at # "idle" \/ loop[d] = NoLoop
  BY <1>0 DEF LoopMoves, NewsTypes, NewsInv, LoopOK
<1>2. ledger.rows[r0].status # "NONE"
  BY DEF NewsInv, LoopOK, LoopMoves
<1>3. ~ Going(d)' /\ \A e \in Loops : e # d => (Going(e)' <=> Going(e)) /\ (Waiting(e)' <=> Waiting(e))
  <2>1. ~ Going(d)'
    <3>1. CASE x = NoLoop
      BY <1>1, <3>1 DEF Going, NoLoop
    <3>2. CASE ask'[d] = [op |-> "begin", row |-> d[1]]
      BY <3>2 DEF Going, NoAsk
    <3>3. CASE x.at # "begun"
      BY <1>1, <3>3 DEF Going
    <3> QED BY <3>1, <3>2, <3>3 DEF LoopMoves
  <2>2. \A e \in Loops : e # d => (Going(e)' <=> Going(e)) /\ (Waiting(e)' <=> Waiting(e))
    BY <1>1, DeliveriesAre DEF Going, Waiting
  <2> QED BY <2>1, <2>2
<1>4. ASSUME NEW c \in Callers PROVE AskOfRows(c)'
  <2>1. CASE c # d
    <3>1. AskOfRows(c) /\ ask'[c] = ask[c]
      BY <1>1, <2>1 DEF NewsInv
    <3>2. ask[c].op \in {"begin", "mark"} => ask[c].row \in RowIds
      <4>1. ask[c] \in LedgerRequest \/ ask[c].op \notin {"begin", "mark"}
        BY <1>0, BookFields DEF NewsTypes, AskType, BookOps, NoAsk
      <4> QED BY <4>1, LedgerFields
    <3>3. ask[c].op = "mark" => received'[ask[c].row] >= received[ask[c].row]
                                /\ received[ask[c].row] \in Nat /\ received'[ask[c].row] \in Nat
      BY <1>0, <1>1, <3>2 DEF NewsTypes
    <3>4. ask[c].op = "mark" /\ received[ask[c].row] > 0 => received'[ask[c].row] > 0
      BY <3>3
    <3>5. c \in Loops => loop'[c] = loop[c]
      BY <1>1, <2>1
    <3>6. ask[c].op = "mark" /\ ask[c].to = "PENDING" => c \in Loops
      BY <3>1, <3>2, DeliveriesAre DEF AskOfRows
    <3>7. ask[c].op = "begin" => c \in Loops
      BY <3>1, <3>2, DeliveriesAre DEF AskOfRows
    <3> QED BY <1>1, <3>1, <3>4, <3>5, <3>6, <3>7 DEF AskOfRows, Enqueuing
  <2>2. CASE c = d
    <3>1. CASE ask'[d] = NoAsk
      BY <2>2, <3>1 DEF AskOfRows, NoAsk
    <3>2. CASE ask'[d] = [op |-> "begin", row |-> d[1]] /\ x.at = "begun"
      BY <1>0, <1>1, <1>2, <2>2, <3>2 DEF AskOfRows
    <3>3. ASSUME NEW s \in {"PENDING", "SENT", "UNDELIVERABLE"},
                 ask'[d] = [op |-> "mark", row |-> d[1], to |-> s],
                 s = "SENT" => received'[d[1]] > 0, s = "PENDING" => x.at = "check"
          PROVE  AskOfRows(d)'
      <4>1. d # Boot
        BY <1>0
      <4> QED BY <1>0, <1>1, <1>2, <3>3, <4>1 DEF AskOfRows
    <3> QED BY <2>2, <3>1, <3>2, <3>3 DEF LoopMoves
  <2> QED BY <2>1, <2>2
<1>5. ASSUME NEW e \in Loops PROVE LoopOK(e)'
  <2>1. CASE e = d
    <3>1. x.at = "begun" => ask'[d].op = "begin"
      BY DEF LoopMoves, NoLoop
    <3>2. x.at = "idle" => x = NoLoop
      BY DEF LoopMoves
    <3> QED BY <1>1, <1>2, <2>1, <3>1, <3>2 DEF LoopOK
  <2>2. CASE e # d
    BY <1>1, <2>2, DeliveriesAre DEF NewsInv, LoopOK
  <2> QED BY <2>1, <2>2
<1>6. ASSUME NEW r \in RowIds PROVE RowOK(r)'
  <2>1. RowOK(r) /\ received[r] \in Nat /\ received'[r] \in Nat
    BY <1>0 DEF NewsInv, NewsTypes
  <2>2. received[r] > 0 => received'[r] > 0
    BY <1>1, <2>1
  <2>3. \A e \in Deliveries(r) : Going(e)' => Going(e)
    BY <1>3, DeliveriesAre
  <2>4. ledger.rows[r].attempts = 0 => received'[r] = 0
    BY <1>0, <1>1, <2>1 DEF RowOK
  <2>5. \A h \in Handlers : Storing(h, r[1])' => Storing(h, r[1])
    <3>1. \A h \in Handlers : ask'[h] = ask[h]
      BY <1>0, <1>1
    <3> QED BY <1>1, <3>1 DEF Storing
  <2>6. Found(r)' <=> Found(r)
    BY <1>1, FoundSame
  <2>7. \A h \in Handlers : Enqueuing(h, r[1])' <=> Enqueuing(h, r[1])
    BY <1>1 DEF Enqueuing
  <2>8. ledger'.rows[r].attempts = 0 => received'[r] = 0 /\ \A e \in Deliveries(r) : ~ Going(e)'
    BY <1>1, <2>1, <2>3, <2>4 DEF RowOK
  <2>9. Found(r)' => ledger'.rows[r].status # "NONE" /\ \A h \in Handlers : ~ Enqueuing(h, r[1])'
    BY <1>1, <2>1, <2>6, <2>7 DEF RowOK
  <2> QED BY <1>1, <2>1, <2>2, <2>5, <2>8, <2>9 DEF RowOK, Deliveries
<1>7. ASSUME NEW r \in RowIds PROVE PaidFor(r)'
  <2>0. Resumed(r)' <=> Resumed(r)
    BY <1>1, FoundSame
  <2>1. /\ PaidFor(r) /\ ComingTo(r)' = ComingTo(r) /\ FailingAt(r)' = FailingAt(r) /\ again'[r] = again[r]
    BY <1>1, <2>0 DEF NewsInv, ComingTo, FailingAt, Enqueuing
  <2>2. /\ faults["lost"] \in Nat /\ faults'["lost"] \in Nat /\ again[r] \in Nat
        /\ received[r] \in Nat /\ received'[r] \in Nat
        /\ ComingTo(r) \in {0, 1} /\ FailingAt(r) \in {0, 1}
    BY <1>0 DEF NewsTypes, CountsOK
  <2>3. faults'["lost"] >= faults["lost"]
    BY <1>0 DEF LoopMoves, NewsTypes
  <2>4. PICK c \in Deliveries(r) : IF r = r0 THEN c = d ELSE c = <<r, 1>>
    BY <1>0 DEF Deliveries
  <2>5. PICK e \in Deliveries(r) :
          /\ e # c /\ e \in Loops
          /\ Spent(r) = received[r] + GoingAt(c) + GoingAt(e) + ComingTo(r)
          /\ Spent(r)' = received'[r] + GoingAt(c)' + GoingAt(e)' + ComingTo(r)'
          /\ Spent(r) + WaitingAt(<<r, 1>>) + WaitingAt(<<r, 2>>) = Spent(r) + WaitingAt(c) + WaitingAt(e)
          /\ Spent(r)' + WaitingAt(<<r, 1>>)' + WaitingAt(<<r, 2>>)' =
             Spent(r)' + WaitingAt(c)' + WaitingAt(e)'
    BY TwoDeliveries
  <2>6. /\ c \in Loops
        /\ GoingAt(c) \in {0, 1} /\ WaitingAt(c) \in {0, 1} /\ GoingAt(c)' \in {0, 1} /\ WaitingAt(c)' \in {0, 1}
        /\ GoingAt(e) \in {0, 1} /\ WaitingAt(e) \in {0, 1}
    BY <1>0, <2>4, <2>5, DeliveriesAre DEF CountsOK
  <2>7. \A f \in Loops : f # d => GoingAt(f)' = GoingAt(f) /\ WaitingAt(f)' = WaitingAt(f)
    BY <1>3 DEF GoingAt, WaitingAt
  <2>8. e # d /\ GoingAt(e)' = GoingAt(e) /\ WaitingAt(e)' = WaitingAt(e)
    BY <1>0, <2>4, <2>5, <2>7
  <2>9. CASE r # r0
    <3>1. GoingAt(c)' = GoingAt(c) /\ WaitingAt(c)' = WaitingAt(c) /\ received'[r] = received[r]
      BY <1>0, <1>1, <2>4, <2>6, <2>7, <2>9
    <3>2. Spent(r)' = Spent(r) /\ Spent(r) \in Nat
      BY <2>1, <2>2, <2>5, <2>6, <2>8, <3>1
    <3>3. /\ Spent(r) + WaitingAt(c) + WaitingAt(e) <= 1 + faults["lost"] + again[r]
          /\ Spent(r) + FailingAt(r) <= 1 + faults["lost"] + again[r]
      BY <2>1, <2>5 DEF PaidFor
    <3>4. /\ Spent(r)' + WaitingAt(c)' + WaitingAt(e)' <= 1 + faults'["lost"] + again'[r]
          /\ Spent(r)' + FailingAt(r)' <= 1 + faults'["lost"] + again'[r]
      BY <2>1, <2>2, <2>3, <2>6, <2>8, <3>1, <3>2, <3>3
    <3> QED BY <2>5, <3>4 DEF PaidFor
  <2>10. CASE r = r0
    <3>1. c = d /\ GoingAt(d)' = 0
      BY <1>0, <1>3, <2>4, <2>10 DEF CountsOK
    <3>2. GoingAt(d) + WaitingAt(d) = 1
      <4>1. Going(d) \/ Waiting(d)
        BY DEF LoopMoves, Waiting
      <4> QED BY <1>0, <4>1 DEF CountsOK, Waiting
    <3>3. /\ received'[r] + WaitingAt(d)' + faults["lost"] <= received[r] + 1 + faults'["lost"]
          /\ received'[r] + faults["lost"] <= received[r] + GoingAt(d) + faults'["lost"]
      <4>1. x = NoLoop => WaitingAt(d)' = 0
        BY <1>0, <1>1 DEF CountsOK, Waiting
      <4>2. Going(d) => GoingAt(d) = 1
        BY <1>0 DEF CountsOK
      <4>3. \/ received'[r] = received[r] /\ faults'["lost"] = faults["lost"]
            \/ /\ GoingAt(d) = 1 /\ received'[r] = received[r] + 1
               /\ \/ WaitingAt(d)' = 0 /\ faults'["lost"] = faults["lost"]
                  \/ faults'["lost"] = faults["lost"] + 1
        BY <2>10, <4>1, <4>2 DEF LoopMoves
      <4> QED BY <2>2, <2>6, <3>1, <4>3
    <3>4. Spent(r) \in Nat /\ Spent(r)' \in Nat
      BY <2>1, <2>2, <2>5, <2>6, <2>8
    <3>5. /\ Spent(r) + WaitingAt(d) + WaitingAt(e) <= 1 + faults["lost"] + again[r]
          /\ Spent(r) + FailingAt(r) <= 1 + faults["lost"] + again[r]
      BY <2>1, <2>5, <3>1 DEF PaidFor
    <3>6. /\ Spent(r) = received[r] + GoingAt(d) + GoingAt(e) + ComingTo(r)
          /\ Spent(r)' = received'[r] + GoingAt(e) + ComingTo(r)
      BY <2>1, <2>2, <2>5, <2>6, <2>8, <3>1
    <3>7. /\ Spent(r)' + WaitingAt(d)' + WaitingAt(e)' <= 1 + faults'["lost"] + again'[r]
      BY <2>1, <2>2, <2>6, <2>8, <3>1, <3>2, <3>3, <3>5, <3>6
    <3>8. Spent(r)' + FailingAt(r)' <= 1 + faults'["lost"] + again'[r]
      BY <2>1, <2>2, <2>6, <3>1, <3>3, <3>5, <3>6
    <3> QED BY <2>5, <3>1, <3>7, <3>8 DEF PaidFor
  <2> QED BY <2>9, <2>10
<1> QED BY <1>4, <1>5, <1>6, <1>7 DEF NewsInv

LEMMA LoopsMove ==
    ASSUME TypeInv, TypeInv', NewsInv, NEW d \in Loops, CheckRow(d) \/ NotBegun(d) \/ Deliver(d) \/ Fail(d)
    PROVE  \E x : LoopMoves(d, x)
<1> DEFINE mark(s) == [op |-> "mark", row |-> d[1], to |-> s]
           begin == [op |-> "begin", row |-> d[1]]
           checked == [loop[d] EXCEPT !.at = "check"]
           begun == [at |-> "begun", tries |-> loop[d].tries + 1]
<1>0. /\ NewsTypes /\ NewsTypes' /\ d[1] \in RowIds /\ d \in Callers /\ loop[d] \in LoopState
      /\ faults \in [Kinds -> Nat] /\ received[d[1]] \in Nat
  BY NewsTypesAre, NewsTypesNext, DeliveriesAre DEF NewsTypes, TypeInv, TypeOK
<1>1. /\ ask[d] = NoAsk /\ UNCHANGED <<ledger, reply, task, recovering, again>>
      /\ \/ UNCHANGED ask
         \/ ask' = [ask EXCEPT ![d] = begin]
         \/ \E s \in {"PENDING", "SENT", "UNDELIVERABLE"} : ask' = [ask EXCEPT ![d] = mark(s)]
  BY LoopActs DEF LoopOnly, AsksLedger
<1>2. \A q : ask' = [ask EXCEPT ![d] = q] => ask'[d] = q /\ \A c \in Callers : c # d => ask'[c] = ask[c]
  BY <1>0 DEF NewsTypes
<1>3. \A c \in Callers : c # d => ask'[c] = ask[c]
  BY <1>1, <1>2
<1>4. loop[d] # NoLoop
  BY DEF CheckRow, NotBegun, Deliver, Fail, Began, NoLoop
<1>5. /\ NoLoop \in LoopState /\ NoLoop.at = "idle"
      /\ checked \in LoopState /\ checked.at = "check"
  BY <1>0, LoopFields
<1>6. (begun \in LoopState /\ begun.at = "begun") \/ Exhausted(d)
  <2>1. loop[d].tries \in 0 .. MaxAttempts /\ MaxAttempts \in Nat
    BY <1>0, LoopFields, NotificationAssumption
  <2>2. loop[d].tries < MaxAttempts \/ Exhausted(d)
    BY <2>1 DEF Exhausted
  <2> QED BY <1>0, <2>2, LoopFields
<1> HIDE DEF checked, begun
<1>7. CASE CheckRow(d)
  <2>1. UNCHANGED <<faults, received>>
    BY <1>7 DEF CheckRow
  <2>2. CASE LoopGoes(d, NoLoop) /\ UNCHANGED ask
    BY <1>1, <1>3, <1>4, <1>5, <2>1, <2>2 DEF LoopMoves, LoopGoes
  <2>3. CASE LoopGoes(d, NoLoop) /\ Marks(d, d[1], "UNDELIVERABLE")
    <3>1. ask'[d] = mark("UNDELIVERABLE")
      BY <1>2, <2>3 DEF Marks, AsksLedger
    <3>2. LoopMoves(d, NoLoop)
      BY <1>1, <1>3, <1>4, <1>5, <2>1, <2>3, <3>1 DEF LoopMoves, LoopGoes
    <3> QED BY <3>2
  <2>4. CASE LoopGoes(d, begun) /\ AsksLedger(d, begin) /\ ~ Exhausted(d)
    <3>1. ask'[d] = begin /\ begun.at = "begun" /\ begun \in LoopState
      BY <1>2, <1>6, <2>4 DEF AsksLedger
    <3>2. LoopMoves(d, begun)
      BY <1>1, <1>3, <1>4, <2>1, <2>4, <3>1 DEF LoopMoves, LoopGoes
    <3> QED BY <3>2
  <2> QED BY <1>7, <2>2, <2>3, <2>4 DEF CheckRow, begun
<1>8. CASE NotBegun(d)
  <2>1. LoopGoes(d, NoLoop) /\ UNCHANGED <<ask, faults, received>>
    BY <1>8 DEF NotBegun
  <2>2. LoopMoves(d, NoLoop)
    BY <1>1, <1>3, <1>4, <1>5, <2>1 DEF LoopMoves, LoopGoes
  <2> QED BY <2>2
<1>9. CASE Deliver(d)
  <2>1. /\ Going(d) /\ received' = [received EXCEPT ![d[1]] = received[d[1]] + 1]
    BY <1>9 DEF Deliver, Began, Going
  <2>2. /\ received'[d[1]] = received[d[1]] + 1 /\ received'[d[1]] > 0
        /\ \A r \in RowIds : r # d[1] => received'[r] = received[r]
    BY <1>0, <2>1 DEF NewsTypes
  <2>3. CASE LoopGoes(d, NoLoop) /\ Marks(d, d[1], "SENT") /\ UNCHANGED faults
    <3>1. ask'[d] = mark("SENT")
      BY <1>2, <2>3 DEF Marks, AsksLedger
    <3>2. LoopMoves(d, NoLoop)
      BY <1>1, <1>3, <1>4, <1>5, <2>1, <2>2, <2>3, <3>1 DEF LoopMoves, LoopGoes
    <3> QED BY <3>2
  <2>4. CASE Faulty("lost") /\ LoopGoes(d, checked) /\ Marks(d, d[1], "PENDING")
    <3>1. ask'[d] = mark("PENDING")
      BY <1>2, <2>4 DEF Marks, AsksLedger
    <3>2. faults'["lost"] = faults["lost"] + 1
      BY <2>4, FaultyIs DEF TypeInv, Kinds
    <3>3. LoopMoves(d, checked)
      BY <1>1, <1>3, <1>4, <1>5, <2>1, <2>2, <2>4, <3>1, <3>2 DEF LoopMoves, LoopGoes
    <3> QED BY <3>3
  <2> QED BY <1>9, <2>3, <2>4 DEF Deliver, checked
<1>10. CASE Fail(d)
  <2>1. LoopGoes(d, checked) /\ Marks(d, d[1], "PENDING") /\ UNCHANGED <<faults, received>>
    BY <1>10 DEF Fail, checked
  <2>2. ask'[d] = mark("PENDING")
    BY <1>2, <2>1 DEF Marks, AsksLedger
  <2>3. LoopMoves(d, checked)
    BY <1>1, <1>3, <1>4, <1>5, <2>1, <2>2 DEF LoopMoves, LoopGoes
  <2> QED BY <2>3
<1> QED BY <1>7, <1>8, <1>9, <1>10

\* dispatch() adds one loop to a row, if the row has one to add.
LEMMA OneMore ==
    ASSUME loop \in [Loops -> LoopState], NEW S, loop' = Dispatched(S), NEW r \in RowIds
    PROVE  \/ \A d \in Deliveries(r) : loop'[d] = loop[d]
           \/ /\ r \in S
              /\ \E d \in Deliveries(r) :
                    /\ loop[d] = NoLoop /\ loop'[d] = Checking
                    /\ \A e \in Deliveries(r) : e # d => loop'[e] = loop[e]
<1> DEFINE d1 == <<r, 1>>
           d2 == <<r, 2>>
<1>1. /\ d1 \in Loops /\ d2 \in Loops /\ d1 # d2 /\ Deliveries(r) = {d1, d2}
      /\ d1[1] = r /\ d1[2] = 1 /\ d2[1] = r /\ d2[2] = 2
  BY DeliveriesAre DEF Deliveries
<1>2. /\ 1 \in Idle(r) <=> loop[d1] = NoLoop
      /\ 2 \in Idle(r) <=> loop[d2] = NoLoop
      /\ \A n \in Idle(r) : n = 1 \/ n = 2
  BY DEF Idle
<1> HIDE DEF d1, d2
<1>3. /\ loop'[d1] = IF r \in S /\ 1 \in Idle(r) /\ (\A n \in Idle(r) : 1 <= n) THEN Checking ELSE loop[d1]
      /\ loop'[d2] = IF r \in S /\ 2 \in Idle(r) /\ (\A n \in Idle(r) : 2 <= n) THEN Checking ELSE loop[d2]
  BY <1>1 DEF Dispatched
<1>4. CASE r \in S /\ 1 \in Idle(r)
  <2>1. ~ (\A n \in Idle(r) : 2 <= n)
    BY <1>4
  <2>2. loop[d1] = NoLoop /\ loop'[d1] = Checking /\ loop'[d2] = loop[d2]
    BY <1>2, <1>3, <1>4, <2>1
  <2> QED BY <1>1, <1>4, <2>2
<1>5. CASE r \in S /\ 1 \notin Idle(r) /\ 2 \in Idle(r)
  <2>1. \A n \in Idle(r) : 2 <= n
    BY <1>2, <1>5
  <2>2. loop[d2] = NoLoop /\ loop'[d2] = Checking /\ loop'[d1] = loop[d1]
    BY <1>2, <1>3, <1>5, <2>1
  <2> QED BY <1>1, <1>5, <2>2
<1>6. CASE r \notin S \/ (1 \notin Idle(r) /\ 2 \notin Idle(r))
  BY <1>1, <1>3, <1>6
<1> QED BY <1>4, <1>5, <1>6

\* Rows are dispatched that can afford one more message.
LEMMA DispatchedStays ==
    ASSUME TypeInv, TypeInv', NewsInv, NEW S, loop' = Dispatched(S),
           \A r \in S : ledger.rows[r].status # "NONE",
           UNCHANGED <<ledger, ask, reply, faults, received>>, recovering' \subseteq recovering,
           \A h \in Handlers : ask[h] # NoAsk => task'[h] = task[h],
           \A h \in Handlers : \A l : /\ Storing(h, l)' => Storing(h, l)
                                      /\ Enqueuing(h, l)' => Enqueuing(h, l),
           \A r \in RowIds : /\ ComingTo(r)' <= ComingTo(r) /\ again'[r] >= again[r]
                             /\ ComingTo(r)' + FailingAt(r)' <= ComingTo(r) + FailingAt(r),
           \A r \in S : received[r] + GoingAt(<<r, 1>>) + GoingAt(<<r, 2>>) + ComingTo(r)'
                          + WaitingAt(<<r, 1>>) + WaitingAt(<<r, 2>>) <= faults["lost"] + again'[r]
    PROVE  NewsInv'
<1> USE HandlersCall
<1>0. /\ NewsTypes /\ NewsTypes' /\ CountsOK /\ CountsOK'
      /\ NoLoop.at = "idle" /\ Checking.at = "check" /\ Checking # NoLoop
  BY NewsTypesAre, NewsTypesNext, CountsAre, CountsNext DEF NoLoop, Checking
<1>1. \A d \in Loops : \/ loop'[d] = loop[d]
                       \/ loop'[d] = Checking /\ loop[d] = NoLoop /\ d[1] \in S
  BY <1>0, DispatchedIs DEF NewsTypes
<1>2. \A d \in Loops : Going(d)' <=> Going(d)
  BY <1>0, <1>1 DEF Going
<1>3. ASSUME NEW c \in Callers PROVE AskOfRows(c)'
  <2>1. AskOfRows(c) /\ ask'[c] = ask[c]
    BY DEF NewsInv
  <2>2. ask[c].op \in {"begin", "mark"} => ask[c].row \in RowIds
    <3>1. ask[c] \in LedgerRequest \/ ask[c].op \notin {"begin", "mark"}
      BY <1>0, BookFields DEF NewsTypes, AskType, BookOps, NoAsk
    <3> QED BY <3>1, LedgerFields
  <2>3. ask[c].op = "begin" => loop'[c] = loop[c]
    BY <1>0, <1>1, <2>1, <2>2, DeliveriesAre DEF AskOfRows
  <2>4. ask[c].op = "mark" /\ ask[c].to = "PENDING" => loop'[c] = loop[c]
    BY <1>0, <1>1, <2>1, <2>2, DeliveriesAre DEF AskOfRows
  <2>5. ask[c].op = "enqueue" => Enqueuing(c, ask[c].lead)' /\ c \in Handlers
    BY <2>1 DEF AskOfRows, Enqueuing, NoAsk
  <2> QED BY <2>1, <2>3, <2>4, <2>5 DEF AskOfRows
<1>4. ASSUME NEW d \in Loops PROVE LoopOK(d)'
  <2>1. LoopOK(d) /\ d \in Callers
    BY DeliveriesAre DEF NewsInv
  <2>2. CASE loop'[d] = loop[d]
    BY <2>1, <2>2 DEF LoopOK
  <2>3. CASE loop'[d] = Checking /\ d[1] \in S
    BY <1>0, <2>3 DEF LoopOK
  <2> QED BY <1>1, <2>2, <2>3
<1>5. ASSUME NEW r \in RowIds PROVE RowOK(r)'
  <2>1. RowOK(r) /\ \A d \in Deliveries(r) : Going(d)' => Going(d)
    BY <1>2, DeliveriesAre DEF NewsInv
  <2>2. Found(r)' => Found(r) /\ \A h \in Handlers : ~ Enqueuing(h, r[1])'
    BY <2>1 DEF Found, RowOK
  <2> QED BY <2>1, <2>2, RowKept
<1>6. ASSUME NEW r \in RowIds PROVE PaidFor(r)'
  <2>1. /\ PaidFor(r) /\ received'[r] = received[r] /\ faults'["lost"] = faults["lost"]
        /\ ComingTo(r)' <= ComingTo(r) /\ again'[r] >= again[r]
        /\ ComingTo(r)' + FailingAt(r)' <= ComingTo(r) + FailingAt(r)
    BY DEF NewsInv
  <2>2. \A d \in Loops : GoingAt(d)' = GoingAt(d)
    BY <1>2 DEF GoingAt
  <2>3. \A d \in Loops : loop'[d] = loop[d] => WaitingAt(d)' = WaitingAt(d)
    BY <1>2 DEF WaitingAt, Waiting
  <2>4. /\ <<r, 1>> \in Loops /\ <<r, 2>> \in Loops
    BY DeliveriesAre DEF Deliveries
  <2>5. /\ faults["lost"] \in Nat /\ again[r] \in Nat /\ again'[r] \in Nat /\ received[r] \in Nat
        /\ ComingTo(r) \in {0, 1} /\ ComingTo(r)' \in {0, 1}
        /\ FailingAt(r) \in {0, 1} /\ FailingAt(r)' \in {0, 1}
        /\ GoingAt(<<r, 1>>) \in {0, 1} /\ GoingAt(<<r, 2>>) \in {0, 1}
        /\ WaitingAt(<<r, 1>>) \in {0, 1} /\ WaitingAt(<<r, 2>>) \in {0, 1}
        /\ WaitingAt(<<r, 1>>)' \in {0, 1} /\ WaitingAt(<<r, 2>>)' \in {0, 1}
    BY <1>0, <2>4 DEF NewsTypes, CountsOK
  <2>6. Spent(r) \in Nat /\ Spent(r)' \in Nat /\ Spent(r)' <= Spent(r)
        /\ Spent(r)' + FailingAt(r)' <= Spent(r) + FailingAt(r)
        /\ Spent(r)' = received[r] + GoingAt(<<r, 1>>) + GoingAt(<<r, 2>>) + ComingTo(r)'
    BY <2>1, <2>2, <2>4, <2>5 DEF Spent
  <2>7. Spent(r)' + FailingAt(r)' <= 1 + faults'["lost"] + again'[r]
    BY <2>1, <2>5, <2>6 DEF PaidFor
  <2>8. CASE \A d \in Deliveries(r) : loop'[d] = loop[d]
    <3>1. WaitingAt(<<r, 1>>)' = WaitingAt(<<r, 1>>) /\ WaitingAt(<<r, 2>>)' = WaitingAt(<<r, 2>>)
      BY <2>3, <2>4, <2>8 DEF Deliveries
    <3> QED BY <2>1, <2>5, <2>6, <2>7, <3>1 DEF PaidFor
  <2>9. ASSUME r \in S, NEW d \in Deliveries(r), loop[d] = NoLoop, loop'[d] = Checking,
               \A e \in Deliveries(r) : e # d => loop'[e] = loop[e]
        PROVE  PaidFor(r)'
    <3>1. \A e \in Deliveries(r) : e # d => WaitingAt(e)' = WaitingAt(e)
      BY <2>3, <2>9, DeliveriesAre
    <3>2. WaitingAt(d) = 0 /\ d \in Loops
      BY <1>0, <2>9, DeliveriesAre DEF CountsOK, Waiting
    <3>3. <<r, 1>> # <<r, 2>> /\ Deliveries(r) = {<<r, 1>>, <<r, 2>>}
      BY DEF Deliveries
    <3>4. WaitingAt(<<r, 1>>)' + WaitingAt(<<r, 2>>)' <= WaitingAt(<<r, 1>>) + WaitingAt(<<r, 2>>) + 1
      <4>1. CASE d = <<r, 1>>
        BY <2>5, <3>1, <3>2, <3>3, <4>1
      <4>2. CASE d = <<r, 2>>
        BY <2>5, <3>1, <3>2, <3>3, <4>2
      <4> QED BY <3>3, <4>1, <4>2
    <3>5. received[r] + GoingAt(<<r, 1>>) + GoingAt(<<r, 2>>) + ComingTo(r)'
            + WaitingAt(<<r, 1>>) + WaitingAt(<<r, 2>>) <= faults["lost"] + again'[r]
      BY <2>9
    <3>6. Spent(r)' + WaitingAt(<<r, 1>>)' + WaitingAt(<<r, 2>>)' <= 1 + faults'["lost"] + again'[r]
      BY <2>1, <2>5, <2>6, <3>4, <3>5
    <3> QED BY <2>7, <3>6 DEF PaidFor
  <2> QED BY <1>0, <2>8, <2>9, OneMore DEF NewsTypes
<1> QED BY <1>3, <1>4, <1>5, <1>6 DEF NewsInv

LEMMA DispatchStays ==
    ASSUME TypeInv, TypeInv', FormInv, NewsInv, NEW h \in Handlers, Dispatch(h) \/ DispatchAgain(h)
    PROVE  NewsInv'
<1> USE HandlersCall
<1>0. NewsTypes /\ NewsTypes' /\ CountsOK /\ CountsOK' /\ NamesExist
  BY NewsTypesAre, NewsTypesNext, CountsAre, CountsNext DEF TypeInv
<1>1. /\ task' = [task EXCEPT ![h] = NoTask] /\ ask[h] = NoAsk /\ task[h].at \in {"enqueued", "retry"}
      /\ UNCHANGED <<ledger, ask, reply, faults, received, recovering>>
  BY DEF Dispatch, DispatchAgain, DispatchOnly, Goes, Answered, salesVars
<1>2. task'[h] = NoTask /\ \A g \in Handlers : g # h => task'[g] = task[g]
  BY <1>0, <1>1 DEF NewsTypes
<1>3. \A g \in Handlers : ask[g] # NoAsk => task'[g] = task[g]
  BY <1>1, <1>2
<1>4. \A g \in Handlers : \A l : Enqueuing(g, l)' => g # h
  BY <1>2 DEF Enqueuing, NoTask
<1>5. \A g \in Handlers : \A l : /\ Storing(g, l)' => Storing(g, l)
                                 /\ Enqueuing(g, l)' => Enqueuing(g, l)
  BY <1>1, <1>2 DEF Storing, Enqueuing, NoTask
<1>6. ASSUME NEW r \in RowIds
      PROVE  /\ ComingTo(r)' <= ComingTo(r)
             /\ ComingTo(r)' + FailingAt(r)' <= ComingTo(r) + FailingAt(r)
  <2>1. (Resumed(r)' <=> Resumed(r)) /\ FailingAt(r)' = FailingAt(r)
    BY <1>1 DEF Resumed, FailingAt
  <2>2. ComingTo(r)' <= ComingTo(r)
    BY <1>5, <2>1 DEF ComingTo
  <2>3. ComingTo(r) \in {0, 1} /\ ComingTo(r)' \in {0, 1} /\ FailingAt(r) \in {0, 1}
    BY <1>0 DEF CountsOK
  <2> QED BY <2>1, <2>2, <2>3
<1>7. \A r \in RowIds : /\ <<r, 1>> \in Loops /\ <<r, 2>> \in Loops
  BY DeliveriesAre DEF Deliveries
<1>8. ASSUME NEW r \in RowIds
      PROVE  /\ faults["lost"] \in Nat /\ again[r] \in Nat /\ received[r] \in Nat
             /\ ComingTo(r) \in {0, 1} /\ ComingTo(r)' \in {0, 1}
             /\ GoingAt(<<r, 1>>) \in {0, 1} /\ GoingAt(<<r, 2>>) \in {0, 1}
             /\ WaitingAt(<<r, 1>>) \in {0, 1} /\ WaitingAt(<<r, 2>>) \in {0, 1}
             /\ received[r] + GoingAt(<<r, 1>>) + GoingAt(<<r, 2>>) + ComingTo(r)
                  + WaitingAt(<<r, 1>>) + WaitingAt(<<r, 2>>) <= 1 + faults["lost"] + again[r]
  BY <1>0, <1>7 DEF NewsTypes, CountsOK, NewsInv, PaidFor, Spent
<1>9. CASE Dispatch(h)
  <2> DEFINE S == {r \in Pending : r[1] = task[h].lead}
  <2>1. task[h].at = "enqueued" /\ loop' = Dispatched(S) /\ UNCHANGED again
    BY <1>9 DEF Dispatch, Answered
  <2>2. \A r \in S : ledger.rows[r].status # "NONE"
    BY DEF Pending
  <2>3. ASSUME NEW r \in S
        PROVE  received[r] + GoingAt(<<r, 1>>) + GoingAt(<<r, 2>>) + ComingTo(r)'
                 + WaitingAt(<<r, 1>>) + WaitingAt(<<r, 2>>) <= faults["lost"] + again'[r]
    <3>1. r \in RowIds /\ r[1] = task[h].lead
      BY DEF Pending
    <3>2. Enqueuing(h, r[1]) /\ r[1] \in DOMAIN ledger.leads
      BY <1>0, <2>1, <3>1 DEF Enqueuing, NamesExist
    <3>3. \A g \in Handlers : ~ Enqueuing(g, r[1])'
      BY <1>4, <1>5, <3>2 DEF FormInv, EnqueuedOnce
    <3>4. ~ Resumed(r)'
      <4>1. ~ Found(r)
        BY <3>1, <3>2 DEF NewsInv, RowOK
      <4>2. Resumed(r)' <=> Resumed(r)
        BY <1>1 DEF Resumed
      <4> QED BY <4>1, <4>2, ResumedIsFound
    <3>6. ComingTo(r) = 1 /\ ComingTo(r)' = 0
      BY <3>2, <3>3, <3>4 DEF ComingTo
    <3>5. again'[r] = again[r]
      BY <2>1
    <3> QED BY <1>8, <3>1, <3>5, <3>6
  <2>4. \A r \in RowIds : again'[r] >= again[r]
    BY <1>0, <2>1 DEF NewsTypes
  <2> HIDE DEF S
  <2> QED BY <1>1, <1>3, <1>5, <1>6, <2>1, <2>2, <2>3, <2>4, DispatchedStays
<1>10. CASE DispatchAgain(h)
  <2>1. /\ loop' = Dispatched(Pending)
        /\ again' = [r \in RowIds |-> again[r] + IF r \in Pending THEN 1 ELSE 0]
    BY <1>10 DEF DispatchAgain
  <2>2. \A r \in RowIds : again'[r] = again[r] + IF r \in Pending THEN 1 ELSE 0
    BY <2>1
  <2>3. \A r \in RowIds : again'[r] >= again[r]
    BY <1>0, <2>2 DEF NewsTypes
  <2>4. ASSUME NEW r \in Pending
        PROVE  received[r] + GoingAt(<<r, 1>>) + GoingAt(<<r, 2>>) + ComingTo(r)'
                 + WaitingAt(<<r, 1>>) + WaitingAt(<<r, 2>>) <= faults["lost"] + again'[r]
    <3>1. r \in RowIds
      BY DEF Pending
    <3>2. again'[r] = again[r] + 1
      BY <2>2, <3>1
    <3> QED BY <1>6, <1>8, <3>1, <3>2
  <2>5. \A r \in Pending : ledger.rows[r].status # "NONE"
    BY DEF Pending
  <2> QED BY <1>1, <1>3, <1>5, <1>6, <2>1, <2>3, <2>4, <2>5, DispatchedStays
<1> QED BY <1>9, <1>10

\* recoverPending(): a row whose last attempt failed, or that had none, is sent after all.
LEMMA RecoverStays ==
    ASSUME TypeInv, TypeInv', NewsInv, NEW e \in recovering, Recover(e)
    PROVE  NewsInv'
<1> USE HandlersCall
<1> DEFINE r == e.row
<1>0. /\ NewsTypes /\ NewsTypes' /\ CountsOK /\ CountsOK'
      /\ e \in [row : RowIds, doubt : BOOLEAN] /\ r \in RowIds
      /\ e.doubt \in BOOLEAN /\ e = [row |-> r, doubt |-> e.doubt]
      /\ Deliveries(r) = {<<r, 1>>, <<r, 2>>} /\ <<r, 1>> \in Loops /\ <<r, 2>> \in Loops
  <2>1. e \in [row : RowIds, doubt : BOOLEAN]
    BY DEF TypeInv, TypeOK
  <2> QED BY <2>1, NewsTypesAre, NewsTypesNext, CountsAre, CountsNext, DeliveriesAre DEF Deliveries
<1>1. /\ ask[Boot] = NoAsk /\ recovering' = recovering \ {e} /\ recovering' \subseteq recovering
      /\ UNCHANGED <<ledger, reply, task, faults, received, again>>
  BY DEF Recover
<1>2. Found(r)
  BY DEF Found
<1>3. ledger.rows[r].status # "NONE" /\ \A h \in Handlers : ~ Enqueuing(h, r[1])
  BY <1>0, <1>2 DEF NewsInv, RowOK
<1> HIDE DEF r
<1>4. \A s : (Found(s)' => Found(s)) /\ (s # r => (Resumed(s)' <=> Resumed(s)))
  BY <1>0, <1>1 DEF Found, Resumed
<1>5. CASE e.doubt /\ Marks(Boot, r, "UNDELIVERABLE") /\ UNCHANGED loop
  <2> DEFINE q == [op |-> "mark", row |-> r, to |-> "UNDELIVERABLE"]
  <2>1. ask'[Boot] = q /\ \A c \in Callers : c # Boot => ask'[c] = ask[c]
    BY <1>0, <1>5 DEF Marks, AsksLedger, NewsTypes
  <2>2. \A c \in Handlers \cup Loops : c \in Callers /\ c # Boot
    BY DeliveriesAre, SalesAssumption
  <2>3. ASSUME NEW c \in Callers PROVE AskOfRows(c)'
    <3>1. CASE c = Boot
      <4>1. AskOfRows(Boot)'
        BY <1>1, <1>3, <2>1 DEF AskOfRows
      <4> QED BY <3>1, <4>1
    <3>2. CASE c # Boot
      BY <1>1, <1>5, <2>1, <3>2 DEF NewsInv, AskOfRows, Enqueuing
    <3> QED BY <3>1, <3>2
  <2>4. ASSUME NEW d \in Loops PROVE LoopOK(d)'
    BY <1>1, <1>5, <2>1, <2>2 DEF NewsInv, LoopOK
  <2>5. \A d \in Loops : Going(d)' <=> Going(d)
    BY <1>1, <1>5, <2>1, <2>2 DEF Going
  <2>6. ASSUME NEW s \in RowIds PROVE RowOK(s)' /\ PaidFor(s)'
    <3>1. RowOK(s) /\ PaidFor(s) /\ \A d \in Deliveries(s) : Going(d)' <=> Going(d)
      BY <2>5, DeliveriesAre DEF NewsInv
    <3>2. \A h \in Handlers : \A l : (Storing(h, l)' <=> Storing(h, l)) /\ (Enqueuing(h, l)' <=> Enqueuing(h, l))
      BY <1>1, <2>1, <2>2 DEF Storing, Enqueuing
    <3>3. Found(s)' => Found(s) /\ \A h \in Handlers : ~ Enqueuing(h, s[1])'
      BY <1>4, <3>1, <3>2 DEF RowOK
    <3>4. RowOK(s)'
      BY <1>1, <3>1, <3>2, <3>3, RowKept
    <3>5. Resumed(s)' <=> Resumed(s)
      BY <1>0, <1>1, <1>5 DEF Resumed
    <3>6. ComingTo(s)' <= ComingTo(s) /\ FailingAt(s)' <= FailingAt(s)
      BY <1>1, <3>2, <3>5 DEF ComingTo, FailingAt
    <3>7. \A d \in Deliveries(s) : loop'[d] = loop[d]
      BY <1>5
    <3> QED BY <1>1, <3>1, <3>4, <3>6, <3>7, PaidSame
  <2> QED BY <2>3, <2>4, <2>6 DEF NewsInv
<1>6. CASE ~ e.doubt /\ loop' = Dispatched({r}) /\ UNCHANGED <<ask, ledgerQueue>>
  <2>1. \A h \in Handlers : \A l : (Storing(h, l)' => Storing(h, l)) /\ (Enqueuing(h, l)' <=> Enqueuing(h, l))
    BY <1>1, <1>6 DEF Storing, Enqueuing
  <2>2. Resumed(r) /\ ~ Resumed(r)'
    BY <1>0, <1>1, <1>6 DEF Resumed
  <2>3. ComingTo(r) = 1 /\ ComingTo(r)' = 0
    BY <1>3, <2>1, <2>2 DEF ComingTo
  <2>4. ASSUME NEW s \in RowIds
        PROVE  /\ ComingTo(s)' <= ComingTo(s) /\ again'[s] >= again[s]
               /\ ComingTo(s)' + FailingAt(s)' <= ComingTo(s) + FailingAt(s)
    <3>1. /\ ComingTo(s) \in {0, 1} /\ ComingTo(s)' \in {0, 1} /\ again[s] \in Nat
          /\ FailingAt(s) \in {0, 1} /\ FailingAt(s)' \in {0, 1} /\ again'[s] = again[s]
      BY <1>0, <1>1 DEF CountsOK, NewsTypes
    <3>2. CASE s = r
      BY <2>3, <3>1, <3>2
    <3>3. CASE s # r
      <4>1. ComingTo(s)' = ComingTo(s) /\ FailingAt(s)' = FailingAt(s)
        BY <1>1, <1>4, <2>1, <3>3 DEF ComingTo, FailingAt
      <4> QED BY <3>1, <4>1
    <3> QED BY <3>2, <3>3
  <2>5. received[r] + GoingAt(<<r, 1>>) + GoingAt(<<r, 2>>) + ComingTo(r)'
          + WaitingAt(<<r, 1>>) + WaitingAt(<<r, 2>>) <= faults["lost"] + again'[r]
    <3>1. /\ received[r] \in Nat /\ again[r] \in Nat /\ faults["lost"] \in Nat /\ again'[r] = again[r]
          /\ GoingAt(<<r, 1>>) \in {0, 1} /\ GoingAt(<<r, 2>>) \in {0, 1}
          /\ WaitingAt(<<r, 1>>) \in {0, 1} /\ WaitingAt(<<r, 2>>) \in {0, 1}
      BY <1>0, <1>1 DEF NewsTypes, CountsOK
    <3>2. received[r] + GoingAt(<<r, 1>>) + GoingAt(<<r, 2>>) + ComingTo(r)
            + WaitingAt(<<r, 1>>) + WaitingAt(<<r, 2>>) <= 1 + faults["lost"] + again[r]
      BY <1>0 DEF NewsInv, PaidFor, Spent
    <3> QED BY <2>3, <3>1, <3>2
  <2> QED BY <1>1, <1>3, <1>6, <2>1, <2>4, <2>5, DispatchedStays
<1> QED BY <1>0, <1>5, <1>6 DEF Recover, r

LEMMA CrashStays ==
    ASSUME TypeInv, TypeInv', NewsInv, Crash
    PROVE  NewsInv'
<1> USE HandlersCall
<1>0. /\ NewsTypes /\ NewsTypes' /\ CountsOK /\ CountsOK'
  BY NewsTypesAre, NewsTypesNext, CountsAre, CountsNext
<1>1. /\ UNCHANGED <<ledger, received, again>>
      /\ recovering' = {[row |-> r, doubt |-> InDoubt(r)] : r \in Pending}
      /\ \A d \in Loops : loop'[d] = NoLoop
      /\ \A h \in Handlers : task'[h] = NoTask
      /\ \A c \in Callers : ask'[c] = NoAsk
      /\ Faulty("crash")
  BY DEF Crash, Restarted
<1>2. faults'["lost"] = faults["lost"]
  BY <1>1, FaultyIs DEF TypeInv, Kinds
<1>3. \A h \in Handlers : \A l : ~ Storing(h, l)' /\ ~ Enqueuing(h, l)'
  BY <1>1 DEF Storing, Enqueuing, NoTask
<1>4. \A d \in Loops : ~ Going(d)' /\ ~ Waiting(d)'
  BY <1>1 DEF Going, Waiting, NoLoop
<1>5. ASSUME NEW c \in Callers PROVE AskOfRows(c)'
  BY <1>1 DEF AskOfRows, NoAsk
<1>6. ASSUME NEW d \in Loops PROVE LoopOK(d)'
  BY <1>1 DEF LoopOK, NoLoop
<1>7. ASSUME NEW r \in RowIds PROVE RowOK(r)'
  <2>1. RowOK(r) /\ \A d \in Deliveries(r) : ~ Going(d)'
    BY <1>4, DeliveriesAre DEF NewsInv
  <2>2. Found(r)' => ledger.rows[r].status = "PENDING"
    BY <1>1 DEF Found, Pending
  <2> QED BY <1>1, <1>3, <2>1, <2>2 DEF RowOK, Deliveries
<1>8. ASSUME NEW r \in RowIds PROVE PaidFor(r)'
  <2>1. <<r, 1>> \in Loops /\ <<r, 2>> \in Loops
    BY DeliveriesAre DEF Deliveries
  <2>2. /\ GoingAt(<<r, 1>>)' = 0 /\ GoingAt(<<r, 2>>)' = 0
        /\ WaitingAt(<<r, 1>>)' = 0 /\ WaitingAt(<<r, 2>>)' = 0
    BY <1>0, <1>4, <2>1 DEF CountsOK
  <2>3. received'[r] = received[r] /\ again'[r] = again[r] /\ PaidFor(r)
    BY <1>1 DEF NewsInv
  <2>4. /\ faults["lost"] \in Nat /\ again[r] \in Nat /\ received[r] \in Nat
        /\ ComingTo(r) \in {0, 1} /\ FailingAt(r) \in {0, 1}
        /\ ComingTo(r)' \in {0, 1} /\ FailingAt(r)' \in {0, 1}
        /\ GoingAt(<<r, 1>>) \in {0, 1} /\ GoingAt(<<r, 2>>) \in {0, 1}
        /\ WaitingAt(<<r, 1>>) \in {0, 1} /\ WaitingAt(<<r, 2>>) \in {0, 1}
    BY <1>0, <2>1 DEF NewsTypes, CountsOK
  <2>5. Resumed(r)' <=> ledger.rows[r].status = "PENDING" /\ ~ InDoubt(r)
    <3>1. Resumed(r)' <=> [row |-> r, doubt |-> FALSE] \in {[row |-> s, doubt |-> InDoubt(s)] : s \in Pending}
      BY <1>1 DEF Resumed
    <3>2. InDoubt(r) \in BOOLEAN
      BY DEF InDoubt
    <3> QED BY <3>1, <3>2 DEF Pending
  <2>6. ComingTo(r)' = (IF Resumed(r)' THEN 1 ELSE 0)
    BY <1>3 DEF ComingTo
  <2>7. FailingAt(r)' = 0
    <3>1. ledger.rows[r].failed => ~ InDoubt(r)
      BY DEF InDoubt
    <3> QED BY <1>1, <2>5, <3>1 DEF FailingAt
  <2>8. received[r] + ComingTo(r)' <= 1 + faults["lost"] + again[r]
    <3>1. received[r] + ComingTo(r) + FailingAt(r) <= 1 + faults["lost"] + again[r]
      BY <2>3, <2>4 DEF PaidFor, Spent
    <3>2. CASE ComingTo(r)' = 0
      BY <2>4, <3>1, <3>2
    <3>3. CASE ledger.rows[r].attempts = 0
      <4>1. received[r] = 0
        BY <3>3 DEF NewsInv, RowOK
      <4> QED BY <2>4, <4>1
    <3>4. CASE ledger.rows[r].status = "PENDING" /\ ledger.rows[r].failed
      <4>1. ComingTo(r) + FailingAt(r) >= 1
        BY <3>4 DEF ComingTo, FailingAt
      <4> QED BY <2>4, <3>1, <4>1
    <3>5. ledger.rows[r].attempts \in Nat
      BY <1>0, RowFields DEF NewsTypes
    <3>6. ComingTo(r)' = 0 \/ ledger.rows[r].attempts = 0
            \/ (ledger.rows[r].status = "PENDING" /\ ledger.rows[r].failed)
      BY <2>5, <2>6, <3>5 DEF InDoubt
    <3> QED BY <3>2, <3>3, <3>4, <3>6
  <2> QED BY <1>2, <2>2, <2>3, <2>4, <2>7, <2>8 DEF PaidFor, Spent
<1> QED BY <1>5, <1>6, <1>7, <1>8 DEF NewsInv

LEMMA NewsStep == TypeInv /\ LinkInv /\ FormInv /\ NewsInv /\ [Next]_vars => NewsInv'
<1> SUFFICES ASSUME TypeInv, LinkInv, FormInv, NewsInv, [Next]_vars PROVE NewsInv'
  OBVIOUS
<1>1. TypeInv'
  BY TypeInvStep
<1>2. ASSUME NEW d \in Loops, CheckRow(d) \/ NotBegun(d) \/ Deliver(d) \/ Fail(d)
      PROVE  NewsInv'
  <2>1. PICK x : LoopMoves(d, x)
    BY <1>1, <1>2, LoopsMove
  <2> QED BY <1>1, <2>1, LoopMovesStays
<1> QED BY <1>1, <1>2, StepsAre, ElsewhereStays, FillingStays, LeadStays, LinkedStays, LedgerNews,
           DispatchStays, CrashStays, RecoverStays

LEMMA NewsStart == Init => NewsInv
<1> SUFFICES ASSUME Init PROVE NewsInv
  OBVIOUS
<1>0. TypeInv /\ NewsTypes /\ CountsOK
  BY TypeInvStart, NewsTypesAre, CountsAre
<1>1. /\ \A h \in Handlers : task[h] = NoTask
      /\ \A c \in Callers : ask[c] = NoAsk
      /\ \A d \in Loops : loop[d] = NoLoop
      /\ recovering = {} /\ ledger \in {NoLedger, OldLedger}
      /\ \A r \in RowIds : again[r] = 0 /\ received[r] = ledger.rows[r].attempts
      /\ faults["lost"] = 0
  BY DEF Init, Kinds
<1>2. \A h \in Handlers : \A l : ~ Storing(h, l) /\ ~ Enqueuing(h, l)
  BY <1>1 DEF Storing, Enqueuing, NoTask
<1>3. \A d \in Loops : ~ Going(d) /\ ~ Waiting(d)
  BY <1>1 DEF Going, Waiting, NoLoop
<1>4. \A r \in RowIds :
        \/ ledger.rows[r].status = "NONE" /\ ledger.rows[r].attempts = 0
        \/ ledger.rows[r].status = "SENT" /\ ledger.rows[r].attempts = 1 /\ r[1] \in DOMAIN ledger.leads
  <2>1. CASE ledger = NoLedger
    BY <2>1 DEF NoLedger, NoRow
  <2>2. CASE ledger = OldLedger
    BY <2>2, OldLedgerIs DEF NoRow
  <2> QED BY <1>1, <2>1, <2>2
<1>5. ASSUME NEW c \in Callers PROVE AskOfRows(c)
  BY <1>1 DEF AskOfRows, NoAsk
<1>6. ASSUME NEW d \in Loops PROVE LoopOK(d)
  BY <1>1 DEF LoopOK, NoLoop
<1>7. ASSUME NEW r \in RowIds PROVE RowOK(r)
  <2>1. \A d \in Deliveries(r) : ~ Going(d)
    BY <1>3, DeliveriesAre
  <2>2. ~ Found(r)
    BY <1>1 DEF Found
  <2> QED BY <1>1, <1>2, <1>4, <2>1, <2>2 DEF RowOK
<1>8. ASSUME NEW r \in RowIds PROVE PaidFor(r)
  <2>1. <<r, 1>> \in Loops /\ <<r, 2>> \in Loops
    BY DeliveriesAre DEF Deliveries
  <2>2. /\ GoingAt(<<r, 1>>) = 0 /\ GoingAt(<<r, 2>>) = 0
        /\ WaitingAt(<<r, 1>>) = 0 /\ WaitingAt(<<r, 2>>) = 0 /\ ComingTo(r) = 0
    BY <1>0, <1>1, <1>2, <1>3, <2>1 DEF CountsOK, ComingTo, Resumed
  <2>3. FailingAt(r) = 0 /\ received[r] \in {0, 1}
    BY <1>1, <1>4 DEF FailingAt
  <2> QED BY <1>1, <2>2, <2>3 DEF PaidFor, Spent
<1> QED BY <1>5, <1>6, <1>7, <1>8 DEF NewsInv

(* Beyond the one message, the news of a lead comes again only for an answer  *)
(* that was lost or an operator who asked for what was pending, and a row is  *)
(* SENT only if a message arrived: whatever crashes, fails or is retried.      *)
THEOREM NewsIsExplained == Spec => []RepeatedNewsIsExplained
<1>1. NewsInv /\ TypeInv => RepeatedNewsIsExplained
  <2> SUFFICES ASSUME NewsInv, TypeInv, NEW r \in RowIds
               PROVE  /\ received[r] <= 1 + faults["lost"] + again[r]
                      /\ ledger.rows[r].status = "SENT" => received[r] >= 1
    BY DEF RepeatedNewsIsExplained
  <2>1. NewsTypes /\ CountsOK
    BY NewsTypesAre, CountsAre
  <2>2. <<r, 1>> \in Loops /\ <<r, 2>> \in Loops
    BY DeliveriesAre DEF Deliveries
  <2>3. /\ faults["lost"] \in Nat /\ again[r] \in Nat /\ received[r] \in Nat
        /\ ComingTo(r) \in {0, 1} /\ FailingAt(r) \in {0, 1}
        /\ GoingAt(<<r, 1>>) \in {0, 1} /\ GoingAt(<<r, 2>>) \in {0, 1}
    BY <2>1, <2>2 DEF NewsTypes, CountsOK
  <2>4. Spent(r) + FailingAt(r) <= 1 + faults["lost"] + again[r]
    BY DEF NewsInv, PaidFor
  <2>5. received[r] <= 1 + faults["lost"] + again[r]
    BY <2>3, <2>4 DEF Spent
  <2>6. ledger.rows[r].status = "SENT" => received[r] > 0
    BY DEF NewsInv, RowOK
  <2> QED BY <2>3, <2>5, <2>6
<1> QED BY <1>1, TypeInvStart, LinkStart, FormStart, NewsStart, TypeInvStep, LinkStep, FormStepKeeps, NewsStep, PTL
        DEF Spec

-----------------------------------------------------------------------------
(* What is under way *)

LEMMA HealthGoes ==
    ASSUME TypeInv, UNCHANGED faults \/ \E k \in Kinds : Faulty(k)
    PROVE  /\ Healthy' => Healthy
           /\ Faulty("write") \/ Faulty("crash") => ~ Healthy'
<1>1. faults \in [Kinds -> Nat] /\ TypeOK /\ {"write", "crash", "lost"} \subseteq Kinds
  BY DEF TypeInv, TypeOK, Kinds
<1>2. ASSUME NEW k \in Kinds, Faulty(k)
      PROVE  /\ faults'["write"] \in Nat /\ faults'["crash"] \in Nat
             /\ faults'["write"] >= faults["write"] /\ faults'["crash"] >= faults["crash"]
             /\ faults'[k] > 0
  <2>1. /\ faults'[k] = faults[k] + 1 /\ \A i \in Kinds : i # k => faults'[i] = faults[i]
    BY <1>1, <1>2, FaultyIs
  <2> QED BY <1>1, <2>1
<1>3. \A k \in Kinds : Faulty(k) => (Healthy' => Healthy)
  BY <1>1, <1>2 DEF Healthy
<1>4. Faulty("write") \/ Faulty("crash") => ~ Healthy'
  <2>1. Faulty("write") => ~ Healthy'
    BY <1>1, <1>2 DEF Healthy
  <2>2. Faulty("crash") => ~ Healthy'
    BY <1>1, <1>2 DEF Healthy
  <2> QED BY <2>1, <2>2
<1> QED BY <1>3, <1>4 DEF Healthy

\* What is under way stays under way, and no row is written.
LEMMA ToldStays ==
    ASSUME TypeInv, ToldInv, Healthy' => Healthy, UNCHANGED <<loop, recovering>>,
           ledger'.rows = ledger.rows, DOMAIN ledger'.leads = DOMAIN ledger.leads,
           \A h \in Handlers : \A l :
             /\ l \in DOMAIN ledger.leads /\ Tells(h, l) => Tells(h, l)'
             /\ Enqueuing(h, l) => Enqueuing(h, l)',
           \A d \in Loops : Carries(d) => Carries(d)'
    PROVE  ToldInv'
<1>1. recovering' # {} => ~ Healthy'
  BY DEF ToldInv
<1>2. ASSUME Healthy', NEW r \in RowIds PROVE Told(r)'
  <2>1. Told(r)
    BY <1>2 DEF ToldInv
  <2>2. (\E h \in Handlers : Tells(h, r[1])) /\ r[1] \in DOMAIN ledger.leads => \E h \in Handlers : Tells(h, r[1])'
    OBVIOUS
  <2>3. (\E h \in Handlers : Enqueuing(h, r[1])) => \E h \in Handlers : Enqueuing(h, r[1])'
    OBVIOUS
  <2>4. \A d \in Deliveries(r) : Carries(d) => Carries(d)'
    BY DeliveriesAre
  <2> QED BY <2>1, <2>2, <2>3, <2>4 DEF Told, Comes, Deliveries
<1> QED BY <1>1, <1>2 DEF ToldInv

LEMMA ElsewhereTells ==
    ASSUME TypeInv, NewsInv, ToldInv, Elsewhere
    PROVE  ToldInv'
<1>1. Healthy' => Healthy
  BY DEF Elsewhere, Healthy
<1>2. ASSUME NEW h \in Handlers
      PROVE  \A l : /\ Tells(h, l) => Tells(h, l)'
                    /\ Enqueuing(h, l) => Enqueuing(h, l)'
  <2>1. CASE task'[h] = task[h] /\ ask'[h] = ask[h] /\ reply'[h] = reply[h]
    BY <2>1 DEF Tells, Storing, Enqueuing
  <2>2. CASE task'[h] = task[h] /\ task[h].at \in {"linked", "enqueued"}
    <3>1. ask'[h] = ask[h] \/ ask[h].op # "enqueue"
      BY HandlersCall DEF Elsewhere, Beside
    <3> QED BY <2>2, <3>1 DEF Tells, Storing, Enqueuing
  <2>3. CASE Aside(task[h]) /\ Aside(task'[h])
    BY <2>3 DEF Tells, Storing, Enqueuing, Aside
  <2> QED BY <2>1, <2>2, <2>3 DEF Elsewhere
<1>3. ASSUME NEW d \in Loops PROVE Carries(d) => Carries(d)'
  <2>1. loop'[d] = loop[d] /\ LoopOK(d)
    BY DEF Elsewhere, NewsInv
  <2>2. CASE ask'[d] = ask[d] /\ reply'[d] = reply[d]
    BY <2>1, <2>2 DEF Carries
  <2>3. CASE ask[d] # NoAsk /\ Beside(ask[d])
    BY <2>1, <2>3 DEF Carries, LoopOK, Beside
  <2> QED BY <2>2, <2>3 DEF Elsewhere
<1> QED BY <1>1, <1>2, <1>3, ToldStays DEF Elsewhere

\* While updates are served, a handler goes on with its lead.
LEMMA HandlerTells ==
    ASSUME TypeInv, ToldInv, NEW h \in Handlers, UNCHANGED notificationVars, UNCHANGED <<ledger, faults>>,
           \A c \in Callers : c # h => ask'[c] = ask[c] /\ reply'[c] = reply[c],
           \A g \in Handlers : g # h => task'[g] = task[g],
           \A l : /\ l \in DOMAIN ledger.leads /\ Tells(h, l) => Tells(h, l)'
                  /\ Enqueuing(h, l) => Enqueuing(h, l)'
    PROVE  ToldInv'
<1> USE HandlersCall
<1>1. ASSUME NEW d \in Loops PROVE Carries(d) => Carries(d)'
  <2>1. d \in Callers /\ d # h
    BY DeliveriesAre
  <2> QED BY <2>1 DEF Carries, notificationVars
<1>2. ASSUME NEW g \in Handlers
      PROVE  \A l : /\ l \in DOMAIN ledger.leads /\ Tells(g, l) => Tells(g, l)'
                    /\ Enqueuing(g, l) => Enqueuing(g, l)'
  <2>1. CASE g # h
    BY <2>1 DEF Tells, Storing, Enqueuing
  <2> QED BY <2>1
<1>3. Healthy' => Healthy
  BY DEF Healthy
<1> QED BY <1>1, <1>2, <1>3, ToldStays DEF notificationVars

LEMMA FillingTells ==
    ASSUME TypeInv, ToldInv, NEW p \in People, UNCHANGED notificationVars,
           OpenForm(p) \/ Answer(p) \/ SkipDescription(p) \/ EditForm(p) \/ LeaveForm(p) \/ Confirm(p)
    PROVE  ToldInv'
<1> USE HandlersCall
<1>0. /\ NewsTypes /\ Home[p] \in Handlers /\ UNCHANGED <<ledger, reply, faults>> /\ Free(Home[p])
  BY NewsTypesAre, CampaignsAssumption
     DEF OpenForm, Answer, SkipDescription, EditForm, LeaveForm, FormKept, FormOnly, Confirm
<1>1. \A l : ~ Tells(Home[p], l) /\ ~ Enqueuing(Home[p], l)
  BY <1>0 DEF Free, NoTask, Tells, Storing, Enqueuing
<1>2. /\ \A c \in Callers : c # Home[p] => ask'[c] = ask[c]
      /\ \A g \in Handlers : g # Home[p] => task'[g] = task[g]
  <2>1. CASE UNCHANGED <<ask, task>>
    BY <2>1
  <2>2. ASSUME NEW q, AsksLedger(Home[p], q), NEW t, task' = [task EXCEPT ![Home[p]] = t]
        PROVE  /\ \A c \in Callers : c # Home[p] => ask'[c] = ask[c]
               /\ \A g \in Handlers : g # Home[p] => task'[g] = task[g]
    BY <1>0, <2>2 DEF AsksLedger, NewsTypes
  <2> QED BY <2>1, <2>2
          DEF OpenForm, Answer, SkipDescription, EditForm, LeaveForm, FormKept, FormOnly, Confirm
<1> QED BY <1>0, <1>1, <1>2, HandlerTells

\* The lead is stored, linked and its rows are asked for: one handler after the other.
LEMMA LeadTells ==
    ASSUME TypeInv, ToldInv, NEW h \in Handlers, UNCHANGED notificationVars,
           LeadStored(h) \/ LeadRefused(h) \/ LeadLinked(h)
    PROVE  ToldInv'
<1> USE HandlersCall
<1>0. /\ NewsTypes /\ ask \in [Callers -> AskType] /\ reply \in [Callers -> Int \cup {None}]
      /\ 0 \notin DOMAIN ledger.leads /\ None \notin DOMAIN ledger.leads
  <2>1. ledger \in Ledger /\ reply \in [Callers -> Int \cup {None}]
    BY DEF TypeInv, TypeOK
  <2> QED BY <2>1, NewsTypesAre, LedgerParts, CampaignsAssumption DEF NewsTypes
<1>1. CASE LeadStored(h)
  <2> DEFINE m == LeadOf(reply[h])
             next == [at |-> "linked", who |-> task[h].who, lead |-> m]
  <2>1. /\ task[h].at = "created" /\ ask[h] = NoAsk
        /\ Links(h, "LEAD", task[h].who, ledger.leads[m].at)
        /\ task' = [task EXCEPT ![h] = next] /\ UNCHANGED ledger
    BY <1>1, LeadActs DEF salesVars
  <2>2. next.at = "linked" /\ next.lead = m
    OBVIOUS
  <2> HIDE DEF next
  <2>3. task'[h] = next /\ \A g \in Handlers : g # h => task'[g] = task[g]
    BY <1>0, <2>1 DEF NewsTypes
  <2>4. \A l : (Tells(h, l) => Tells(h, l)') /\ ~ Enqueuing(h, l)
    BY <2>1, <2>2, <2>3 DEF Tells, Storing, Enqueuing
  <2>5. /\ \A c \in Callers : c # h => ask'[c] = ask[c] /\ reply'[c] = reply[c]
        /\ UNCHANGED faults
    <3> DEFINE q == RegisterAsk("LEAD", task[h].who, ledger.leads[m].at)
    <3>1. UNCHANGED faults /\ \/ ask' = [ask EXCEPT ![h] = q] /\ UNCHANGED reply
                              \/ reply' = [reply EXCEPT ![h] = 0] /\ UNCHANGED ask
      BY <2>1 DEF Links, AsksBook
    <3> HIDE DEF q
    <3> QED BY <1>0, <3>1
  <2> QED BY <2>1, <2>3, <2>4, <2>5, HandlerTells
<1>2. CASE LeadRefused(h)
  <2>1. /\ task[h].at = "created" /\ reply[h] \in {0, None} /\ task' = [task EXCEPT ![h] = NoTask]
        /\ UNCHANGED <<ledger, ask, reply, faults>>
    BY <1>2 DEF LeadRefused, Answered, Goes
  <2>2. \A g \in Handlers : g # h => task'[g] = task[g]
    BY <1>0, <2>1 DEF NewsTypes
  <2>3. \A l : (l \in DOMAIN ledger.leads => ~ Tells(h, l)) /\ ~ Enqueuing(h, l)
    BY <1>0, <2>1, LeadOfNothing DEF Tells, Storing, Enqueuing
  <2> QED BY <2>1, <2>2, <2>3, HandlerTells
<1>3. CASE LeadLinked(h)
  <2> DEFINE q == [op |-> "enqueue", lead |-> task[h].lead]
             t == [at |-> "enqueued", lead |-> task[h].lead]
  <2>1. /\ task[h].at = "linked" /\ AsksLedger(h, q)
        /\ task' = [task EXCEPT ![h] = t] /\ UNCHANGED <<ledger, reply, faults>>
    BY <1>3 DEF LeadLinked, Answered, Goes
  <2>2. q.op = "enqueue" /\ t.at = "enqueued" /\ t.lead = task[h].lead
    OBVIOUS
  <2> HIDE DEF q, t
  <2>3. /\ ask'[h] = q /\ \A d \in Callers : d # h => ask'[d] = ask[d]
        /\ task'[h] = t /\ \A g \in Handlers : g # h => task'[g] = task[g]
    BY <1>0, <2>1 DEF AsksLedger, NewsTypes
  <2>4. \A l : (Tells(h, l) => Tells(h, l)') /\ ~ Enqueuing(h, l)
    BY <2>1, <2>2, <2>3 DEF Tells, Storing, Enqueuing
  <2> QED BY <2>1, <2>3, <2>4, HandlerTells
<1> QED BY <1>1, <1>2, <1>3

\* A transaction is answered: of its own rows the caller knows what comes next.
LEMMA AnsweredTells ==
    ASSUME TypeInv, NewsInv, ToldInv, NEW c \in Callers, NEW q \in LedgerRequest, LedgerRuns(c, q),
           UNCHANGED notificationVars, UNCHANGED faults,
           DOMAIN ledger'.leads = DOMAIN ledger.leads,
           \A h \in Handlers : \A l :
             l \in DOMAIN ledger.leads /\ Tells(h, l) =>
                Tells(h, l)' \/ \A r \in RowIds : r[1] = l => ledger'.rows[r].status # "NONE",
           \A r \in RowIds :
             \/ ledger'.rows[r].status = ledger.rows[r].status /\ c \notin Deliveries(r)
             \/ Told(r)'
    PROVE  ToldInv'
<1> USE HandlersCall
<1>1. recovering' # {} => ~ Healthy'
  BY DEF ToldInv, notificationVars, Healthy
<1>2. UNCHANGED task /\ \A d \in Callers : d # c => ask'[d] = ask[d] /\ reply'[d] = reply[d]
  BY DEF LedgerRuns
<1>3. ASSUME Healthy', NEW r \in RowIds,
             ledger'.rows[r].status = ledger.rows[r].status, c \notin Deliveries(r)
      PROVE  Told(r)'
  <2>1. Told(r)
    BY <1>3 DEF ToldInv, Healthy
  <2>2. ASSUME NEW d \in Deliveries(r) PROVE loop'[d] = loop[d] /\ (Carries(d) => Carries(d)')
    <3>1. d \in Callers /\ d # c
      BY <1>3, DeliveriesAre
    <3> QED BY <1>2, <3>1 DEF Carries, notificationVars
  <2>3. \A h \in Handlers : Enqueuing(h, r[1]) => Enqueuing(h, r[1])'
    BY <1>2 DEF Enqueuing
  <2>4. Comes(r) \/ (\E d \in Deliveries(r) : Carries(d)) =>
          Comes(r)' \/ (\E d \in Deliveries(r) : Carries(d)')
    BY <2>2, <2>3 DEF Comes, Deliveries
  <2>5. r[1] \in DOMAIN ledger.leads /\ ledger.rows[r].status = "NONE" => \E h \in Handlers : Tells(h, r[1])'
    BY <1>3, <2>1 DEF Told
  <2> QED BY <1>3, <2>1, <2>4, <2>5 DEF Told, Deliveries
<1> QED BY <1>1, <1>3 DEF ToldInv

LEMMA CreateTells ==
    ASSUME TypeInv, FormInv, NewsInv, ToldInv, NEW c \in Callers, NEW q \in LedgerRequest, LedgerRuns(c, q),
           q.op = "create", UNCHANGED notificationVars, UNCHANGED faults
    PROVE  ToldInv'
<1> USE HandlersCall
<1> DEFINE m == Len(ledger.leads) + 1
<1>0. NewsTypes /\ q # NoAsk /\ q = ask[c] /\ ask'[c] = NoAsk
      /\ \A d \in Callers : d # c => ask'[d] = ask[d] /\ reply'[d] = reply[d]
  BY NewsTypesAre, OneDocument DEF LedgerRuns
<1>1. /\ c \in Handlers /\ task[c].at = "created" /\ UNCHANGED task
      /\ \/ UNCHANGED ledger
         \/ /\ ledger'.rows = ledger.rows /\ DOMAIN ledger'.leads = 1 .. m
            /\ \A l \in 1 .. m : l \in DOMAIN ledger.leads \/ l = m
            /\ LeadOf(reply'[c]) = m
  BY CreateIsNew DEF LedgerRuns
<1> HIDE DEF m
<1>2. \A l : ~ Tells(c, l) /\ ~ Enqueuing(c, l)
  BY <1>0, <1>1 DEF Tells, Storing, Enqueuing
<1>3. \A h \in Handlers : \A l : /\ Tells(h, l) => Tells(h, l)'
                                 /\ Enqueuing(h, l) => Enqueuing(h, l)'
  <2>1. ASSUME NEW h \in Handlers, h # c
        PROVE  \A l : (Tells(h, l) => Tells(h, l)') /\ (Enqueuing(h, l) => Enqueuing(h, l)')
    BY <1>0, <1>1, <2>1 DEF Tells, Storing, Enqueuing
  <2> QED BY <1>2, <2>1
<1>4. \A d \in Loops : (Carries(d) => Carries(d)') /\ loop'[d] = loop[d]
  <2>1. \A d \in Loops : d \in Callers /\ d # c
    BY <1>1, DeliveriesAre
  <2> QED BY <1>0, <2>1 DEF Carries, notificationVars
<1>5. CASE UNCHANGED ledger
  BY <1>3, <1>4, <1>5, ToldStays DEF Healthy, notificationVars
<1>6. CASE /\ ledger'.rows = ledger.rows /\ DOMAIN ledger'.leads = 1 .. m
           /\ \A l \in 1 .. m : l \in DOMAIN ledger.leads \/ l = m
           /\ LeadOf(reply'[c]) = m
  <2>1. \A l : l = m => Tells(c, l)'
    BY <1>0, <1>1, <1>6 DEF Tells, Storing
  <2>2. ASSUME Healthy', NEW r \in RowIds PROVE Told(r)'
    <3>1. Told(r)
      BY <2>2 DEF ToldInv, Healthy
    <3>2. r[1] \in DOMAIN ledger'.leads /\ ledger.rows[r].status = "NONE" =>
            \E h \in Handlers : Tells(h, r[1])'
      <4>1. r[1] = m => \E h \in Handlers : Tells(h, r[1])'
        BY <1>1, <2>1
      <4>2. r[1] \in DOMAIN ledger.leads /\ ledger.rows[r].status = "NONE" =>
              \E h \in Handlers : Tells(h, r[1])'
        BY <1>3, <3>1 DEF Told
      <4> QED BY <1>6, <4>1, <4>2
    <3>3. ledger.rows[r].status = "PENDING" => Comes(r)' \/ \E d \in Deliveries(r) : Carries(d)'
      BY <1>3, <1>4, <3>1, DeliveriesAre DEF Told, Comes, Deliveries
    <3> QED BY <1>6, <3>2, <3>3 DEF Told, Deliveries
  <2>3. recovering' # {} => ~ Healthy'
    BY DEF ToldInv, notificationVars, Healthy
  <2> QED BY <2>2, <2>3 DEF ToldInv
<1> QED BY <1>1, <1>5, <1>6

\* The rows of a lead are added: its handler is about to dispatch them.
LEMMA EnqueueTells ==
    ASSUME TypeInv, NewsInv, ToldInv, NEW c \in Callers, NEW q \in LedgerRequest, LedgerRuns(c, q),
           q.op = "enqueue", ledger' = LedgerResult(q), UNCHANGED faults, UNCHANGED notificationVars
    PROVE  ToldInv'
<1> USE HandlersCall
<1>0. NewsTypes
  BY NewsTypesAre
<1>1. /\ q = ask[c] /\ ledger'.leads = ledger.leads /\ UNCHANGED <<task, loop>>
      /\ \A d \in Callers : d # c => ask'[d] = ask[d] /\ reply'[d] = reply[d]
  BY RowsRun DEF notificationVars
<1>2. c \in Handlers /\ Enqueuing(c, q.lead) /\ task[c].at = "enqueued"
  BY <1>1 DEF NewsInv, AskOfRows, Enqueuing
<1>3. ASSUME NEW r \in RowIds
      PROVE  IF r[1] = q.lead /\ ledger.rows[r].status = "NONE"
             THEN ledger'.rows[r].status = "PENDING" ELSE ledger'.rows[r] = ledger.rows[r]
  <2>1. LedgerResult(q) = Enqueued(ledger, q)
    BY DEF LedgerResult
  <2>2. ledger \in Ledger
    BY <1>0 DEF NewsTypes
  <2> QED BY <2>1, <2>2, EnqueuedIs
<1>4. ASSUME NEW h \in Handlers, NEW l, Tells(h, l)
      PROVE  Tells(h, l)' \/ \A r \in RowIds : r[1] = l => ledger'.rows[r].status # "NONE"
  <2>1. CASE h # c
    BY <1>1, <1>4, <2>1 DEF Tells, Storing, Enqueuing
  <2>2. CASE h = c
    <3>1. l = q.lead
      BY <1>2, <1>4, <2>2 DEF Tells, Storing, Enqueuing
    <3> QED BY <1>3, <3>1
  <2> QED BY <2>1, <2>2
<1>5. ASSUME NEW r \in RowIds
      PROVE  \/ ledger'.rows[r].status = ledger.rows[r].status /\ c \notin Deliveries(r)
             \/ Told(r)'
  <2>1. CASE r[1] = q.lead /\ ledger.rows[r].status = "NONE"
    <3>1. \A d \in Deliveries(r) : loop'[d] = NoLoop
      BY <1>1, <2>1, DeliveriesAre DEF NewsInv, LoopOK
    <3>2. Enqueuing(c, r[1])'
      BY <1>1, <1>2, <2>1 DEF Enqueuing
    <3>3. Comes(r)' /\ ledger'.rows[r].status = "PENDING"
      BY <1>2, <1>3, <2>1, <3>1, <3>2 DEF Comes, Deliveries
    <3> QED BY <3>3 DEF Told
  <2>2. CASE ~ (r[1] = q.lead /\ ledger.rows[r].status = "NONE")
    <3>1. c \notin Deliveries(r)
      BY <1>2, DeliveriesAre
    <3> QED BY <1>3, <2>2, <3>1
  <2> QED BY <2>1, <2>2
<1> QED BY <1>1, <1>4, <1>5, AnsweredTells

\* An attempt is counted, or its row is not there to be tried any more.
LEMMA BeginTells ==
    ASSUME TypeInv, NewsInv, ToldInv, NEW c \in Callers, NEW q \in LedgerRequest, LedgerRuns(c, q),
           q.op = "begin", ledger' = LedgerResult(q), reply'[c] = LedgerReply(q, LedgerResult(q)),
           UNCHANGED faults, UNCHANGED notificationVars
    PROVE  ToldInv'
<1> USE HandlersCall
<1>0. NewsTypes /\ TypeOK /\ q.row \in RowIds
  BY NewsTypesAre, LedgerFields DEF TypeInv
<1>1. /\ q = ask[c] /\ ledger'.leads = ledger.leads /\ UNCHANGED <<task, loop>>
      /\ \A d \in Callers : d # c => ask'[d] = ask[d] /\ reply'[d] = reply[d]
  BY RowsRun DEF notificationVars
<1>2. c \in Deliveries(q.row) /\ loop[c].at = "begun" /\ ledger.rows[q.row].status # "NONE"
  BY <1>1 DEF NewsInv, AskOfRows
<1>3. c \in Loops /\ c \notin Handlers /\ \A r \in RowIds : c \in Deliveries(r) => r = q.row
  BY <1>0, <1>2, DeliveriesAre
<1>4. /\ \A r \in RowIds : r # q.row => ledger'.rows[r] = ledger.rows[r]
      /\ ledger'.rows[q.row].status = ledger.rows[q.row].status
      /\ ledger.rows[q.row].status = "PENDING" => reply'[c] = 1
  <2>1. LedgerResult(q) = Begun(ledger, q) /\ ledger \in Ledger
    BY <1>0 DEF LedgerResult, NewsTypes
  <2>2. ledger.rows[q.row].status = "PENDING" => reply'[c] = 1
    BY <1>0, LedgerReplyIs
  <2> QED BY <2>1, <2>2, BegunIs DEF RowRewritten
<1>5. \A h \in Handlers : \A l : Tells(h, l) => Tells(h, l)'
  BY <1>1, <1>3 DEF Tells, Storing, Enqueuing
<1>6. Told(q.row)'
  <2>1. ledger.rows[q.row].status = "PENDING" => Carries(c)'
    BY <1>1, <1>2, <1>4 DEF Carries
  <2> QED BY <1>2, <1>4, <2>1 DEF Told, Deliveries
<1>7. ASSUME NEW r \in RowIds
      PROVE  \/ ledger'.rows[r].status = ledger.rows[r].status /\ c \notin Deliveries(r)
             \/ Told(r)'
  BY <1>3, <1>4, <1>6
<1> QED BY <1>1, <1>5, <1>7, AnsweredTells

\* How an attempt went is written: the row is settled, or the delivery goes on.
LEMMA MarkTells ==
    ASSUME TypeInv, NewsInv, ToldInv, NEW c \in Callers, NEW q \in LedgerRequest, LedgerRuns(c, q),
           q.op = "mark", ledger' = LedgerResult(q), UNCHANGED faults, UNCHANGED notificationVars
    PROVE  ToldInv'
<1> USE HandlersCall
<1>0. NewsTypes /\ q.row \in RowIds /\ q.to \in {"PENDING", "SENT", "UNDELIVERABLE"}
  BY NewsTypesAre, LedgerFields
<1>1. /\ q = ask[c] /\ ledger'.leads = ledger.leads /\ UNCHANGED <<task, loop>>
      /\ \A d \in Callers : d # c => ask'[d] = ask[d] /\ reply'[d] = reply[d]
  BY RowsRun DEF notificationVars
<1>2. /\ c \in Deliveries(q.row) \cup {Boot}
      /\ q.to = "PENDING" => c \in Deliveries(q.row) /\ loop[c].at = "check"
  BY <1>1 DEF NewsInv, AskOfRows
<1>3. c \notin Handlers /\ \A r \in RowIds : c \in Deliveries(r) => r = q.row
  BY <1>0, <1>2, DeliveriesAre, SalesAssumption
<1>4. /\ \A r \in RowIds : r # q.row => ledger'.rows[r] = ledger.rows[r]
      /\ ledger'.rows[q.row].status = q.to
  <2>1. LedgerResult(q) = Marked(ledger, q) /\ ledger \in Ledger
    BY <1>0 DEF LedgerResult, NewsTypes
  <2> QED BY <2>1, MarkedIs DEF RowRewritten
<1>5. \A h \in Handlers : \A l : Tells(h, l) => Tells(h, l)'
  BY <1>1, <1>3 DEF Tells, Storing, Enqueuing
<1>6. Told(q.row)'
  <2>1. q.to = "PENDING" => Carries(c)'
    BY <1>1, <1>2 DEF Carries
  <2> QED BY <1>0, <1>2, <1>4, <2>1 DEF Told, Deliveries
<1>7. ASSUME NEW r \in RowIds
      PROVE  \/ ledger'.rows[r].status = ledger.rows[r].status /\ c \notin Deliveries(r)
             \/ Told(r)'
  BY <1>3, <1>4, <1>6
<1> QED BY <1>1, <1>5, <1>7, AnsweredTells

LEMMA LedgerTells ==
    ASSUME TypeInv, FormInv, NewsInv, ToldInv, NEW c \in Callers, NEW q \in LedgerRequest, LedgerRuns(c, q),
           ~ Beside(q), UNCHANGED notificationVars
    PROVE  ToldInv'
<1>1. \/ ledger' = LedgerResult(q) /\ UNCHANGED faults /\ reply'[c] = LedgerReply(q, LedgerResult(q))
      \/ Faulty("write")
  BY DEF LedgerRuns
<1>2. CASE Faulty("write")
  <2>1. ~ Healthy'
    BY <1>2, HealthGoes DEF Kinds
  <2> QED BY <2>1 DEF ToldInv
<1>3. CASE ledger' = LedgerResult(q) /\ UNCHANGED faults /\ reply'[c] = LedgerReply(q, LedgerResult(q))
  BY <1>3, CreateTells, EnqueueTells, BeginTells, MarkTells DEF Beside
<1> QED BY <1>1, <1>2, <1>3

\* A delivery ends only when nothing of its row is left to be decided by it.
LEMMA LoopMovesTells ==
    ASSUME TypeInv, ToldInv, NEW d \in Loops, NEW x, LoopMoves(d, x), Healthy' => Healthy,
           Carries(d)' \/ ~ Carries(d) \/ ledger.rows[d[1]].status # "PENDING"
    PROVE  ToldInv'
<1> USE HandlersCall
<1>0. NewsTypes /\ d \in Callers \ Handlers /\ d \in Deliveries(d[1])
  BY NewsTypesAre, DeliveriesAre
<1>1. /\ loop[d] # NoLoop /\ \A e \in Loops : e # d => loop'[e] = loop[e]
      /\ UNCHANGED <<ledger, reply, task, recovering>>
      /\ \A c \in Callers : c # d => ask'[c] = ask[c]
  BY <1>0 DEF LoopMoves, NewsTypes
<1>2. recovering' # {} => ~ Healthy'
  BY <1>1 DEF ToldInv
<1>3. \A h \in Handlers : \A l : Tells(h, l) => Tells(h, l)'
  BY <1>0, <1>1 DEF Tells, Storing, Enqueuing
<1>4. ASSUME Healthy', NEW r \in RowIds PROVE Told(r)'
  <2>1. Told(r)
    BY <1>4 DEF ToldInv
  <2>2. ASSUME NEW e \in Deliveries(r), e # d PROVE loop'[e] = loop[e] /\ (Carries(e) => Carries(e)')
    <3>1. e \in Loops /\ e \in Callers
      BY DeliveriesAre
    <3> QED BY <1>1, <2>2, <3>1 DEF Carries
  <2>3. CASE r # d[1]
    <3>1. d \notin Deliveries(r)
      BY <2>3, DeliveriesAre
    <3>2. \A e \in Deliveries(r) : loop'[e] = loop[e] /\ (Carries(e) => Carries(e)')
      BY <2>2, <3>1
    <3>3. Comes(r) => Comes(r)'
      BY <1>1, <3>2 DEF Comes, Enqueuing, Deliveries
    <3>4. (\E e \in Deliveries(r) : Carries(e)) => \E e \in Deliveries(r) : Carries(e)'
      BY <3>2
    <3> QED BY <1>1, <1>3, <2>1, <3>3, <3>4 DEF Told, Deliveries
  <2>4. CASE r = d[1]
    <3>1. ~ Comes(r)
      BY <1>0, <1>1, <2>4 DEF Comes
    <3>2. ledger.rows[r].status = "PENDING" => \E e \in Deliveries(r) : Carries(e)'
      BY <1>0, <2>1, <2>2, <2>4, <3>1 DEF Told
    <3> QED BY <1>1, <1>3, <2>1, <3>2 DEF Told, Deliveries
  <2> QED BY <2>3, <2>4
<1> QED BY <1>2, <1>4 DEF ToldInv

LEMMA LoopsTell ==
    ASSUME TypeInv, TypeInv', NewsInv, ToldInv,
           NEW d \in Loops, CheckRow(d) \/ NotBegun(d) \/ Deliver(d) \/ Fail(d)
    PROVE  ToldInv'
<1>1. PICK x : LoopMoves(d, x)
  BY LoopsMove
<1>2. Healthy' => Healthy
  <2>1. UNCHANGED faults \/ Faulty("lost")
    BY DEF CheckRow, NotBegun, Deliver, Fail
  <2> QED BY <2>1, HealthGoes DEF Kinds
<1>3. NewsTypes /\ loop'[d] = x /\ d \in Callers /\ UNCHANGED reply
  BY <1>1, NewsTypesAre, DeliveriesAre DEF LoopMoves, NewsTypes
<1>4. Carries(d)' \/ (ask'[d] = NoAsk /\ x = NoLoop)
  <2>1. CASE ask'[d] = [op |-> "begin", row |-> d[1]] /\ x.at = "begun"
    <3>1. ask'[d] # NoAsk
      BY <2>1 DEF NoAsk
    <3> QED BY <1>3, <2>1, <3>1 DEF Carries
  <2>2. ASSUME NEW s \in {"PENDING", "SENT", "UNDELIVERABLE"},
               ask'[d] = [op |-> "mark", row |-> d[1], to |-> s], s = "PENDING" => x.at = "check"
        PROVE  Carries(d)'
    BY <1>3, <2>2 DEF Carries
  <2> QED BY <1>1, <2>1, <2>2 DEF LoopMoves
<1>5. ASSUME ask'[d] = NoAsk, x = NoLoop
      PROVE  ~ Carries(d) \/ ledger.rows[d[1]].status # "PENDING"
  <2>1. ask[d] = NoAsk /\ ask[d].op # "mark"
    BY <1>1 DEF LoopMoves, NoAsk
  <2>2. CASE NotBegun(d)
    BY <2>1, <2>2 DEF NotBegun, Carries
  <2>3. CASE CheckRow(d)
    <3>1. ~ Marks(d, d[1], "UNDELIVERABLE")
      BY <1>3, <1>5 DEF Marks, AsksLedger, NoAsk, NewsTypes
    <3>2. ~ LoopGoes(d, [at |-> "begun", tries |-> loop[d].tries + 1])
      BY <1>3, <1>5 DEF LoopGoes, NoLoop, NewsTypes
    <3> QED BY <2>3, <3>1, <3>2 DEF CheckRow
  <2>4. CASE Deliver(d) \/ Fail(d)
    <3>1. \E s \in {"PENDING", "SENT"} : Marks(d, d[1], s)
      BY <2>4 DEF Deliver, Fail
    <3> QED BY <1>3, <1>5, <3>1 DEF Marks, AsksLedger, NoAsk, NewsTypes
  <2> QED BY <2>2, <2>3, <2>4
<1> QED BY <1>1, <1>2, <1>4, <1>5, LoopMovesTells

\* dispatch() finds a delivery under way, or starts one.
LEMMA DispatchTells ==
    ASSUME TypeInv, TypeInv', FormInv, NewsInv, ToldInv, NEW h \in Handlers, Dispatch(h) \/ DispatchAgain(h)
    PROVE  ToldInv'
<1> USE HandlersCall
<1>0. NewsTypes
  BY NewsTypesAre
<1>1. /\ task' = [task EXCEPT ![h] = NoTask] /\ ask[h] = NoAsk /\ task[h].at \in {"enqueued", "retry"}
      /\ UNCHANGED <<ledger, ask, reply, faults, recovering>>
  BY DEF Dispatch, DispatchAgain, DispatchOnly, Goes, Answered, salesVars
<1>2. \A g \in Handlers : g # h => task'[g] = task[g]
  BY <1>0, <1>1 DEF NewsTypes
<1>3. \A g \in Handlers : \A l : Tells(g, l) => Tells(g, l)'
  <2>1. \A l : ~ Tells(h, l)
    <3>1. ask[h].op # "enqueue"
      BY <1>1 DEF NoAsk
    <3> QED BY <1>1, <3>1 DEF Tells, Storing
  <2>2. \A g \in Handlers : g # h => \A l : Tells(g, l) => Tells(g, l)'
    BY <1>1, <1>2 DEF Tells, Storing, Enqueuing
  <2> QED BY <2>1, <2>2
<1>4. PICK S : loop' = Dispatched(S) /\ S \subseteq Pending
               /\ (DispatchAgain(h) => S = Pending)
               /\ (Dispatch(h) => S = {r \in Pending : r[1] = task[h].lead})
  <2>1. CASE Dispatch(h) /\ ~ DispatchAgain(h)
    BY <2>1 DEF Dispatch
  <2>2. CASE DispatchAgain(h)
    <3>1. ~ Dispatch(h)
      BY <2>2 DEF Dispatch, DispatchAgain, Answered
    <3> QED BY <2>2, <3>1 DEF DispatchAgain
  <2> QED BY <2>1, <2>2
<1>5. \A d \in Loops : Carries(d) => Carries(d)'
  <2>1. ASSUME NEW d \in Loops PROVE loop'[d] = loop[d] \/ loop'[d].at = "check"
    BY <1>4 DEF Dispatched, Checking
  <2>2. ASSUME NEW d \in Loops, Carries(d) PROVE Carries(d)'
    BY <1>1, <2>1, <2>2 DEF Carries
  <2> QED BY <2>2
<1>6. ASSUME NEW r \in S, \A d \in Deliveries(r) : loop[d] = NoLoop
      PROVE  \E d \in Deliveries(r) : Carries(d)'
  <2>1. /\ r \in RowIds /\ <<r, 1>> \in Loops /\ <<r, 1>> \in Deliveries(r)
        /\ <<r, 1>>[1] = r /\ <<r, 1>>[2] = 1
    BY <1>4, DeliveriesAre DEF Pending, Deliveries
  <2>2. 1 \in Idle(r) /\ \A n \in Idle(r) : 1 <= n
    BY <1>6 DEF Idle, Deliveries
  <2>3. loop'[<<r, 1>>] = Checking
    BY <1>4, <2>1, <2>2 DEF Dispatched
  <2> QED BY <2>1, <2>3 DEF Carries, Checking
<1>7. ASSUME Healthy', NEW r \in RowIds PROVE Told(r)'
  <2>1. Told(r)
    BY <1>1, <1>7 DEF ToldInv, Healthy
  <2>2. ASSUME Comes(r), r \notin S, ledger.rows[r].status = "PENDING"
        PROVE  Comes(r)'
    <3>1. PICK g \in Handlers : Enqueuing(g, r[1])
      BY <2>2 DEF Comes
    <3>2. r \in Pending
      BY <2>2 DEF Pending
    <3>3. g # h
      BY <1>1, <1>4, <2>2, <3>1, <3>2 DEF Enqueuing
    <3>4. Enqueuing(g, r[1])'
      BY <1>2, <3>1, <3>3 DEF Enqueuing
    <3>5. \A d \in Deliveries(r) : loop'[d] = loop[d]
      BY <1>4, <2>2, DeliveriesAre DEF Dispatched
    <3> QED BY <2>2, <3>4, <3>5 DEF Comes, Deliveries
  <2>3. ledger.rows[r].status = "PENDING" => Comes(r)' \/ \E d \in Deliveries(r) : Carries(d)'
    BY <1>5, <1>6, <2>1, <2>2, DeliveriesAre DEF Told, Comes
  <2> QED BY <1>1, <1>3, <2>1, <2>3 DEF Told, Deliveries
<1>8. recovering' # {} => ~ Healthy'
  BY <1>1 DEF ToldInv, Healthy
<1> QED BY <1>7, <1>8 DEF ToldInv

LEMMA ToldStep == TypeInv /\ LinkInv /\ FormInv /\ NewsInv /\ ToldInv /\ [Next]_vars => ToldInv'
<1> SUFFICES ASSUME TypeInv, LinkInv, FormInv, NewsInv, ToldInv, [Next]_vars PROVE ToldInv'
  OBVIOUS
<1>1. TypeInv'
  BY TypeInvStep
<1>2. CASE Crash
  <2>1. ~ Healthy'
    BY <1>2, HealthGoes DEF Crash, Kinds
  <2> QED BY <2>1 DEF ToldInv
<1>3. ASSUME NEW e \in recovering, Recover(e) PROVE ToldInv'
  <2>1. ~ Healthy'
    BY <1>3 DEF ToldInv, Recover, Healthy
  <2> QED BY <2>1 DEF ToldInv
<1> QED BY <1>1, <1>2, <1>3, StepsAre, ElsewhereTells, FillingTells, LeadTells, LedgerTells, DispatchTells, LoopsTell

LEMMA ToldStart == Init => ToldInv
<1> SUFFICES ASSUME Init PROVE ToldInv
  OBVIOUS
<1>1. recovering = {} /\ ledger \in {NoLedger, OldLedger}
  BY DEF Init
<1>2. ASSUME NEW r \in RowIds PROVE Told(r)
  <2>1. CASE ledger = NoLedger
    <3>1. DOMAIN ledger.leads = {} /\ ledger.rows[r] = NoRow
      BY <2>1, EmptyLedgerIs, EmptySeq
    <3> QED BY <3>1 DEF Told, NoRow
  <2>2. CASE ledger = OldLedger
    BY <2>2, OldLedgerIs DEF Told, NoRow
  <2> QED BY <1>1, <2>1, <2>2
<1> QED BY <1>1, <1>2 DEF ToldInv

\* Leads are no more than the forms, and the one that was there: keys tell them apart.
LEMMA LeadsAreFew == TypeInv /\ FormInv => DOMAIN ledger.leads \subseteq 1 .. MaxForms + 1
<1> SUFFICES ASSUME TypeInv, FormInv PROVE DOMAIN ledger.leads \subseteq 1 .. MaxForms + 1
  OBVIOUS
<1> DEFINE n == Len(ledger.leads)
           few == MaxForms + 1
           key == [l \in 1 .. n |-> ledger.leads[l].key + 1]
<1>1. /\ n \in Nat /\ DOMAIN ledger.leads = 1 .. n /\ MaxForms \in Nat
      /\ opened \in Nat /\ budget.forms \in Nat
      /\ \A l \in 1 .. n : ledger.leads[l].key \in Nat
  <2>1. ledger \in Ledger /\ opened \in Nat /\ budget \in [requests : Nat, campaigns : Nat, forms : Nat, ticks : Nat]
    BY DEF TypeInv, TypeOK
  <2>2. \A l \in DOMAIN ledger.leads : ledger.leads[l].key \in Nat
    BY <2>1, LedgerParts, LeadFields
  <2> QED BY <2>1, <2>2, LedgerParts, CampaignsAssumption
<1> HIDE DEF n, few
<1>2. key \in [1 .. n -> 1 .. few]
  <2>1. opened <= MaxForms
    BY <1>1 DEF FormInv, KeysOK
  <2>2. ASSUME NEW l \in 1 .. n PROVE ledger.leads[l].key + 1 \in 1 .. few
    <3>1. ledger.leads[l].key <= opened
      BY <1>1 DEF FormInv, KeysOK
    <3> QED BY <1>1, <2>1, <3>1 DEF few
  <2> QED BY <2>2
<1>3. \A l, m \in 1 .. n : key[l] = key[m] => l = m
  <2>1. ASSUME NEW l \in 1 .. n, NEW m \in 1 .. n, key[l] = key[m] PROVE l = m
    <3>1. ledger.leads[l].key = ledger.leads[m].key
      BY <1>1, <2>1
    <3> QED BY <1>1, <3>1 DEF FormInv, KeysOK
  <2> QED BY <2>1
<1>4. \A k \in Nat : IsFiniteSet(1 .. k) /\ Cardinality(1 .. k) = k
  <2>1. ASSUME NEW k \in Nat PROVE IsFiniteSet(1 .. k) /\ Cardinality(1 .. k) = k
    <3>1. IsFiniteSet(1 .. k) /\ Cardinality(1 .. k) = IF 1 > k THEN 0 ELSE k - 1 + 1
      BY FS_Interval
    <3> QED BY <3>1
  <2> QED BY <2>1
<1>5. ~ (few < n)
  <2> HIDE DEF key
  <2>1. SUFFICES ASSUME few < n PROVE FALSE
    OBVIOUS
  <2>2. few \in Nat
    BY <1>1 DEF few
  <2>3. \E l, m \in 1 .. n : l # m /\ key[l] = key[m]
    BY <1>1, <1>2, <1>4, <2>1, <2>2, FS_PigeonHole
  <2> QED BY <1>3, <2>3
<1> QED BY <1>1, <1>5 DEF few

(* Unless a write failed or the process died, nobody who is to hear of a lead is  *)
(* forgotten: when nothing is under way every one of its rows has an outcome and   *)
(* its form is gone, however its deliveries, retries and requests have interleaved *)
(* (confirm, enqueueForLead, dispatchForLead, deliver).                            *)
THEOREM QuietAlwaysMeansTold == Spec => []QuietMeansTold
<1>1. TypeInv /\ FormInv /\ ToldInv => QuietMeansTold
  <2> SUFFICES ASSUME TypeInv, FormInv, ToldInv, Quiet, faults["write"] + faults["crash"] = 0,
                      NEW l \in DOMAIN ledger.leads
               PROVE  /\ \A t \in Targets : ledger.rows[<<l, t>>].status \in {"SENT", "UNDELIVERABLE"}
                      /\ \A p \in People : HasForm(p) => forms[p].key # ledger.leads[l].key
    BY DEF QuietMeansTold
  <2>1. Healthy
    <3>1. faults["write"] \in Nat /\ faults["crash"] \in Nat
      BY DEF TypeInv, TypeOK, Kinds
    <3> QED BY <3>1 DEF Healthy
  <2>2. \A h \in Handlers : \A k : ~ Tells(h, k) /\ ~ Enqueuing(h, k) /\ ~ Storing(h, k)
    BY DEF Quiet, NoTask, Tells, Storing, Enqueuing
  <2>3. \A d \in Loops : ~ Carries(d)
    BY DeliveriesAre DEF Quiet, Carries, NoLoop, NoAsk
  <2>4. ASSUME NEW t \in Targets PROVE ledger.rows[<<l, t>>].status \in {"SENT", "UNDELIVERABLE"}
    <3>1. <<l, t>> \in RowIds /\ <<l, t>>[1] = l
      BY LeadsAreFew DEF RowIds
    <3>2. Told(<<l, t>>) /\ Deliveries(<<l, t>>) \subseteq Loops
      BY <2>1, <3>1, DeliveriesAre DEF ToldInv
    <3>3. ledger.rows[<<l, t>>].status \notin {"NONE", "PENDING"}
      BY <2>2, <2>3, <3>1, <3>2 DEF Told, Comes
    <3>4. ledger.rows[<<l, t>>] \in Row
      BY <3>1, NewsTypesAre DEF NewsTypes
    <3> QED BY <3>3, <3>4, RowFields
  <2>5. ASSUME NEW p \in People, HasForm(p), forms[p].key = ledger.leads[l].key PROVE FALSE
    <3>1. Storing(Home[p], l)
      BY <2>5 DEF FormInv, FormGoes
    <3> QED BY <2>2, <3>1, HandlersCall
  <2> QED BY <2>4, <2>5
<1> QED BY <1>1, TypeInvStart, LinkStart, FormStart, NewsStart, ToldStart,
           TypeInvStep, LinkStep, FormStepKeeps, NewsStep, ToldStep, PTL DEF Spec
=============================================================================
