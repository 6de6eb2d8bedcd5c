--------------------------- MODULE ContentService ---------------------------
(***************************************************************************)
(* Editorial content and the channel document it lives in (source:         *)
(* channel/content.service.ts, channel/publication.store.ts).  The store   *)
(* is the machinery of DocumentStore: here a transaction and its write are *)
(* one step, whose write may fail unseen by its caller.                    *)
(*                                                                         *)
(* Every method of the service looks at the item, awaits its transaction   *)
(* and changes, there, whatever the item has become: `request[p]` is the   *)
(* method an administrator of platform p is awaiting.                      *)
(***************************************************************************)
EXTENDS Naturals, FiniteSets

CONSTANTS
    Contents,       \* items of editorial content
    Nightly,        \* those whose text is about the day they are written on
    Slots,          \* market messages: a minute's prices, a minute's movements of
                    \* some symbols
    Symbols,        \* of the market
    MaxPrice,       \* bound: their prices
    Destinations,   \* the channels
    Admins,         \* platforms an administrator may write from
    MaxRevision,    \* bounds: material edits, the clock (one tick is a day),
    MaxTime,        \* requests, and failed writes
    MaxRequests,
    MaxWriteFailures

ASSUME ContentAssumption ==
    /\ Nightly \subseteq Contents
    /\ Contents \cap Slots = {}
    /\ {MaxRevision, MaxTime, MaxPrice} \subseteq Nat \ {0}
    /\ {MaxRequests, MaxWriteFailures} \subseteq Nat

VARIABLES
    memory,     \* the maps of the publication store
    disk,       \* its file
    failures,   \* failed writes so far
    request,    \* what each administrator's handler awaits
    asked,      \* requests so far
    now,        \* the clock
    approved    \* history: the revisions that were approved

contentVars == <<memory, disk, failures, request, asked, now, approved>>

Revisions == 1 .. MaxRevision

\* The idempotency key of a job: an item and its revision, or a market message.
Key == (Contents \X Revisions) \cup (Slots \X {0})

JobStatus == {"PENDING", "PUBLISHING", "PUBLISHED", "FAILED", "SKIPPED"}
DeliveryStatus == {"SENDING", "SENT", "FAILED", "UNKNOWN"}
ContentStatus == {"NONE", "DRAFT", "APPROVED", "SCHEDULED", "PUBLISHED", "FAILED", "CANCELLED"}

\* scheduledAt is 0 for null, approved is "approvedAt is not null".
Item == [status : ContentStatus, revision : 0 .. MaxRevision,
         approved : BOOLEAN, scheduledAt : 0 .. MaxTime, day : 0 .. MaxTime]
NoItem == [status |-> "NONE", revision |-> 0, approved |-> FALSE,
           scheduledAt |-> 0, day |-> 0]

\* The last movement of a symbol that was published today.
MovementEvent == [known : BOOLEAN, at : 0 .. MaxTime, armed : BOOLEAN]
NoMovement == [known |-> FALSE, at |-> 0, armed |-> FALSE]

\* The jobs and the deliveries are maps that hold what was recorded.
Maps(S, T) == UNION {[D -> T] : D \in SUBSET S}
NoMap == <<>>
At(map, x, none) == IF x \in DOMAIN map THEN map[x] ELSE none
Put(map, x, value) == [y \in DOMAIN map \cup {x} |-> IF y = x THEN value ELSE map[y]]

Document ==
    [contents : [Contents -> Item],
     jobs : Maps(Key, JobStatus),
     deliveries : Maps(Key \X Destinations, DeliveryStatus),
     enabled : BOOLEAN,
     movements : [Symbols -> MovementEvent]]

NoDocument ==
    [contents |-> [c \in Contents |-> NoItem],
     jobs |-> NoMap,
     deliveries |-> NoMap,
     enabled |-> TRUE,
     movements |-> [s \in Symbols |-> NoMovement]]

Requests == {"edit", "approve", "schedule", "cancel", "reopen"}
NoRequest == [kind |-> "none", content |-> "none", at |-> 0]

\* transact(): the maps change; the file follows unless the write fails.
Save(d) ==
    /\ memory' = d
    /\ \/ disk' = d /\ UNCHANGED failures
       \/ /\ failures < MaxWriteFailures
          /\ failures' = failures + 1
          /\ UNCHANGED disk

-----------------------------------------------------------------------------
(* What each method requires of the item it finds, and makes of the item   *)
(* the transaction finds.                                                  *)

Allowed(kind, item) ==
    CASE kind = "edit" -> item.status \notin {"NONE", "PUBLISHED"}
      [] kind = "approve" -> item.status \notin {"NONE", "PUBLISHED", "CANCELLED"}
      [] kind = "schedule" -> item.status \notin {"NONE", "DRAFT", "PUBLISHED", "CANCELLED"}
      [] kind = "cancel" -> item.status \notin {"NONE", "PUBLISHED"}
      [] kind = "reopen" -> item.status = "CANCELLED"

\* A material edit or another call to action: a new revision without approval.
Revised(item) ==
    [item EXCEPT !.revision = @ + 1, !.status = "DRAFT",
                 !.approved = FALSE, !.scheduledAt = 0]

Approved(item) == [item EXCEPT !.status = "APPROVED", !.approved = TRUE]

Scheduled(item, at) == [item EXCEPT !.status = "SCHEDULED", !.scheduledAt = at]

Cancelled(item) == [item EXCEPT !.status = "CANCELLED", !.scheduledAt = 0]

Reopened(item) ==
    [item EXCEPT !.revision = @ + 1, !.status = "DRAFT", !.approved = FALSE]

Changed(r, item) ==
    CASE r.kind = "edit" -> Revised(item)
      [] r.kind = "approve" -> Approved(item)
      [] r.kind = "schedule" -> Scheduled(item, r.at)
      [] r.kind = "cancel" -> Cancelled(item)
      [] r.kind = "reopen" -> Reopened(item)

-----------------------------------------------------------------------------
Create(c) ==
    /\ memory.contents[c].status = "NONE"
    /\ Save([memory EXCEPT !.contents[c] =
                [NoItem EXCEPT !.status = "DRAFT", !.revision = 1,
                               !.day = IF c \in Nightly THEN now ELSE 0]])
    /\ UNCHANGED <<request, asked, now, approved>>

\* The checks before the transaction is awaited.
Ask(p, kind, c, at) ==
    /\ request[p] = NoRequest /\ asked < MaxRequests
    /\ asked' = asked + 1
    /\ Allowed(kind, memory.contents[c])
    /\ kind \in {"edit", "reopen"} => memory.contents[c].revision < MaxRevision
    /\ at # 0 <=> kind = "schedule"
    /\ request' = [request EXCEPT ![p] = [kind |-> kind, content |-> c, at |-> at]]
    /\ UNCHANGED <<memory, disk, failures, now, approved>>

Change(p) ==
    /\ request[p] # NoRequest
    /\ LET r == request[p]
           item == Changed(r, memory.contents[r.content])
       IN /\ item.revision <= MaxRevision
          /\ Save([memory EXCEPT !.contents[r.content] = item])
          /\ approved' = IF r.kind = "approve"
                         THEN approved \cup {<<r.content, item.revision>>} ELSE approved
    /\ request' = [request EXCEPT ![p] = NoRequest]
    /\ UNCHANGED <<asked, now>>

Tick ==
    /\ now < MaxTime
    /\ now' = now + 1
    /\ UNCHANGED <<memory, disk, failures, request, asked, approved>>

ContentInit ==
    /\ memory = NoDocument
    /\ disk = NoDocument
    /\ failures = 0
    /\ request = [p \in Admins |-> NoRequest]
    /\ asked = 0
    /\ approved = {}
=============================================================================
