--------------------------- MODULE OperatorSurface ---------------------------
(***************************************************************************)
(* What operators do in their chat (bot/admin/admin.service.ts,            *)
(* bot/sales/sales-admin.service.ts, and the surfaces of contents and      *)
(* campaigns): the draft of a broadcast and the question an operator still *)
(* has to answer, in memory and for each user.  What the other components  *)
(* do with a request is in their modules; here it is only sent.            *)
(***************************************************************************)
CONSTANTS
    Audiences,  \* audiences of a broadcast
    Texts,      \* texts a user may type
    Blank,      \* a text with nothing but spaces
    Leads,      \* leads of the sales surface
    None

AdminRights == {"manage", "stats", "users", "channels", "alerts", "leads",
                "campaigns", "errors", "broadcast"}

OwnerRights == AdminRights \cup {"audit", "broadcast.send"}

VARIABLES
    rights,   \* what the user may do, by the configuration of the process
    admin,    \* the draft of a broadcast, its newest preview, the panel's question
    seller,   \* the question of the sales surface
    request   \* what the handler has asked of another component

operatorVars == <<rights, admin, seller, request>>

NoQuestion == [kind |-> "none"]

Question(kind, about) == [kind |-> kind, about |-> about, late |-> FALSE]

\* A screen with a button that confirms: what it says, and whether it arrived.
\* Handlers ignore the result of render(), so nothing else tells a lost one.
Screen(said, arrived) == [said |-> said, arrived |-> arrived]

\* Such a button names nothing: it is the newest screen's own, which must have
\* arrived, or that of an older message, which does the same.
Buttons(screen) == IF screen.arrived THEN {"own", "older"} ELSE {"older"}

NoDraft == [audience |-> None, text |-> None]

NoSession == [audience |-> None, text |-> None, pending |-> NoQuestion,
              preview |-> Screen(NoDraft, FALSE)]

NoRequest == [to |-> "none", what |-> None, by |-> None]

Can(c) == c \in rights

\* Asked by a button that confirms, and by anything else.
Confirms(to, what, button) == request' = [to |-> to, what |-> what, by |-> button]

Asks(to, what) == Confirms(to, what, None)

\* clearPending() of both surfaces, for a command.
ClearPending ==
    /\ admin' = [admin EXCEPT !.pending = NoQuestion]
    /\ seller' = NoQuestion

AdminOnly == UNCHANGED <<rights, seller>>

-----------------------------------------------------------------------------
(* Answers typed to the panel *)

\* An answer that is late is consumed, and so is its question.
TakesLate ==
    /\ admin.pending.late
    /\ admin' = [admin EXCEPT !.pending = NoQuestion]

\* The text of the broadcast, for the audience of the question, is kept; then
\* the preview is sent, which may be lost.
TakesBroadcastText(x) ==
    /\ admin.pending.kind = "broadcast-text" /\ ~ admin.pending.late
    /\ IF x = Blank
       THEN UNCHANGED admin
       ELSE \E arrived \in BOOLEAN :
            LET draft == [audience |-> admin.pending.about, text |-> x] IN
            admin' = [audience |-> draft.audience, text |-> draft.text, pending |-> NoQuestion,
                      preview |-> Screen(draft, arrived)]

\* A first day asks for the last one, unless it is no day.
TakesDay ==
    /\ admin.pending.kind \in {"from-day", "to-day"} /\ ~ admin.pending.late
    /\ \/ admin' = [admin EXCEPT !.pending = NoQuestion]
       \/ /\ admin.pending.kind = "from-day"
          /\ admin' = [admin EXCEPT !.pending = Question("to-day", None)]

TakesSearch ==
    /\ admin.pending.kind = "user-search" /\ ~ admin.pending.late
    /\ admin' = [admin EXCEPT !.pending = NoQuestion]

\* AdminService.consumeInput(): rights do not change while the process runs.
AdminTakes(x) ==
    /\ admin.pending # NoQuestion
    /\ TakesLate \/ TakesBroadcastText(x) \/ TakesDay \/ TakesSearch
    /\ UNCHANGED request
    /\ AdminOnly

-----------------------------------------------------------------------------
(* Buttons of the panel.  Every press is authorised, and drops the question. *)

Press(c) == Can(c) /\ AdminOnly

\* /admin, with the name of a screen or without one.
AdminCommand == Can("manage") /\ UNCHANGED request

Unasked == [admin EXCEPT !.pending = NoQuestion]

\* Hub, statistics, lists and details: they only show something.
OpenScreen(c) ==
    /\ Press(c)
    /\ admin' = Unasked
    /\ UNCHANGED request

AskForDays ==
    /\ Press("stats")
    /\ admin' = [admin EXCEPT !.pending = Question("from-day", None)]
    /\ UNCHANGED request

AskForUser ==
    /\ Press("users")
    /\ admin' = [admin EXCEPT !.pending = Question("user-search", None)]
    /\ UNCHANGED request

\* The switch of publishing: asked for, then confirmed.
SwitchPublishing(confirmed) ==
    /\ Press("channels")
    /\ admin' = Unasked
    /\ IF confirmed THEN Asks("publishing", None) ELSE UNCHANGED request

\* A message to a destination, outside the jobs of the channel.
SendTestMessage(confirmed) ==
    /\ Press("channels")
    /\ admin' = Unasked
    /\ IF confirmed THEN Asks("destination", None) ELSE UNCHANGED request

\* An alert of any user is enabled or disabled, by the rules of its owner.
ApplyAlertState(confirmed) ==
    /\ Press("alerts")
    /\ admin' = Unasked
    /\ IF confirmed THEN Asks("alert-state", None) ELSE UNCHANGED request

ApplyIncidentAction ==
    /\ Press("errors")
    /\ admin' = Unasked
    /\ Asks("incidents", None) \/ UNCHANGED request

\* By the source of the incident: a job, the rows of leads or of alerts, or nothing.
Retryable == {"publication", "alert-notification", "sales-notification"}

RetryIncident(source) ==
    /\ Press("errors")
    /\ admin' = Unasked
    /\ Asks(source, None) \/ UNCHANGED request

\* Mutant: the text composed for another audience is kept.
ChooseAudienceWithText(a) ==
    /\ Press("broadcast")
    /\ admin' = [Unasked EXCEPT !.audience = a]
    /\ UNCHANGED request

ChooseAudience(a) ==
    /\ Press("broadcast")
    /\ admin' = [Unasked EXCEPT !.audience = a, !.text = None]
    /\ UNCHANGED request

AskForText ==
    /\ Press("broadcast")
    /\ admin' = [admin EXCEPT !.pending =
            IF admin.audience = None THEN NoQuestion ELSE Question("broadcast-text", admin.audience)]
    /\ UNCHANGED request

Draft == [audience |-> admin.audience, text |-> admin.text]

HasDraft == admin.audience # None /\ admin.text # None

ShowPreview ==
    /\ Press("broadcast")
    /\ \E arrived \in BOOLEAN :
        admin' = IF HasDraft THEN [Unasked EXCEPT !.preview = Screen(Draft, arrived)] ELSE Unasked
    /\ UNCHANGED request

PrepareBroadcast ==
    /\ Press("broadcast.send")
    /\ admin' = Unasked
    /\ IF HasDraft
       THEN \E button \in Buttons(admin.preview) : Confirms("prepare", Draft, button)
       ELSE UNCHANGED request

\* The reference is in the button; a tick follows what was accepted.
RunBroadcast(op) ==
    /\ Press("broadcast.send")
    /\ admin' = Unasked
    /\ Asks(op, None)

\* A capability that is missing: answered and recorded, nothing else.
Denied(c) ==
    /\ ~ Can(c)
    /\ UNCHANGED operatorVars

BroadcastPress ==
    \/ \E a \in Audiences : ChooseAudience(a)
    \/ AskForText
    \/ ShowPreview
    \/ PrepareBroadcast
    \/ \E op \in {"start", "cancel", "retry"} : RunBroadcast(op)

AdminPress ==
    \/ \E c \in OwnerRights : OpenScreen(c) \/ Denied(c)
    \/ AskForDays
    \/ AskForUser
    \/ \E confirmed \in BOOLEAN :
        SwitchPublishing(confirmed) \/ SendTestMessage(confirmed) \/ ApplyAlertState(confirmed)
    \/ ApplyIncidentAction
    \/ \E source \in Retryable : RetryIncident(source)
    \/ BroadcastPress

-----------------------------------------------------------------------------
(* The sales surface *)

SellerOnly == UNCHANGED <<rights, admin>>

\* hasPendingInput() drops a question that is late, and says no.
SellerWaits == seller # NoQuestion /\ ~ seller.late

\* The note, or the amount of the sale if it can be read, goes to the lead.
SellerTakes(x) ==
    /\ SellerWaits
    /\ seller' = NoQuestion
    /\ \/ Asks("lead", [lead |-> seller.about, text |-> x])
       \/ seller.kind = "sale" /\ UNCHANGED request
    /\ SellerOnly

\* A list, a lead, its history or the statistics.
SellerScreen == UNCHANGED request

\* One change of a lead: decided by the domain, not here.
SellerChange == Asks("sales", None)

\* An unknown word, status or reason asks for nothing.
SellerCommand == SellerScreen \/ SellerChange

AskForNote(l) == seller' = Question("note", l) /\ UNCHANGED request

AskForSale(l) == seller' = Question("sale", l) /\ UNCHANGED request

\* A press of an operator; another user is refused.
SellerPress ==
    /\ IF ~ Can("sales")
       THEN UNCHANGED <<seller, request>>
       ELSE \/ \E l \in Leads : AskForNote(l) \/ AskForSale(l)
            \/ seller' = NoQuestion /\ (SellerScreen \/ SellerChange)
    /\ SellerOnly

-----------------------------------------------------------------------------
(* Contents and campaigns: nothing is kept between two messages, and what     *)
(* cannot be read or is not there asks for nothing.                           *)

EditContent == Asks("content", None)

\* Approved, scheduled, cancelled or opened again.
DecideContent == Asks("content", None)

\* By the engine of the channel, whose answer is waited for.
PublishContent == Asks("publication", None)

ContentCommand == EditContent \/ DecideContent \/ PublishContent \/ UNCHANGED request

ContentPress ==
    /\ UNCHANGED request \/ (Can("content") /\ (DecideContent \/ PublishContent))
    /\ UNCHANGED <<rights, admin, seller>>

ChangeCampaign == Asks("campaigns", None)

\* Numbers of other platforms, leads, customers and their corrections.
RecordConversion == Asks("conversions", None)

CampaignCommand == ChangeCampaign \/ RecordConversion \/ UNCHANGED request

CampaignPress ==
    /\ UNCHANGED request \/ (Can("content") /\ ChangeCampaign)
    /\ UNCHANGED <<rights, admin, seller>>

-----------------------------------------------------------------------------
\* A quarter of an hour: SETUP_TTL_MS, PENDING_TTL_MS.
QuestionExpires ==
    /\ \/ /\ admin.pending # NoQuestion /\ ~ admin.pending.late
          /\ admin' = [admin EXCEPT !.pending.late = TRUE] /\ UNCHANGED seller
       \/ /\ SellerWaits
          /\ seller' = [seller EXCEPT !.late = TRUE] /\ UNCHANGED admin
    /\ UNCHANGED <<rights, request>>

OperatorsStart ==
    /\ admin = NoSession
    /\ seller = NoQuestion
    /\ request = NoRequest
=============================================================================
