---------------------------- MODULE Conversation ----------------------------
(***************************************************************************)
(* The conversation of one user with the bot (bot/ux/bot-ux.service.ts):   *)
(* the wizard that creates or edits an alert, the form of a purchase, and  *)
(* the router that decides which of them, and which surface of operators,  *)
(* a message or a button belongs to.  Buttons of old messages may be       *)
(* pressed at any time.  The updates of a platform are handled one after   *)
(* the other, so a handler that waits for another component is alone.      *)
(***************************************************************************)
EXTENDS OperatorSurface

CONSTANTS
    Configurations,  \* what the user may be allowed to do
    Symbols,
    Types,           \* types of alerts
    Percents,        \* those whose baseline is the price when they are stored
    Prices,          \* usable prices
    Alerts,          \* alerts the user has
    Subject          \* the symbol and the type of each of them

ASSUME ConversationAssumption ==
    /\ Configurations \subseteq SUBSET (OwnerRights \cup {"content", "sales"})
    /\ Subject \in [Alerts -> Symbols \X Types]
    /\ Percents \subseteq Types
    /\ Blank \notin Texts

VARIABLES
    wizard,  \* NavigationState.wizard, and the newest screen that asked to confirm it
    form,    \* whether a purchase form is open; its steps are in Sales
    price    \* the price a baseline is taken from, whatever the symbol

vars == <<operatorVars, wizard, form, price>>

NoWizard == [step |-> "none"]

\* A percentage is of the price of now, on the screen and again when it is stored.
Baseline(type) == IF type \in Percents THEN price ELSE None

Wanted(a, symbol, type, target) ==
    [alert |-> a, symbol |-> symbol, type |-> type, target |-> target, baseline |-> Baseline(type)]

NothingWanted == [alert |-> None, symbol |-> None, type |-> None, target |-> None, baseline |-> None]

Wizard(step, a, subject) ==
    [step |-> step, alert |-> a, symbol |-> subject[1], type |-> subject[2],
     target |-> None, late |-> FALSE, screen |-> Screen(NothingWanted, FALSE)]

\* What handlers of the user's own flows leave alone.
OwnOnly == UNCHANGED <<rights, admin, seller>>

Silent == OwnOnly /\ UNCHANGED request

Waiting == request # NoRequest

-----------------------------------------------------------------------------
(* The wizard *)

\* Mutant: a purchase form stays open beside the wizard.
StartWizardBesideForm(step, a, subject) ==
    /\ wizard' = Wizard(step, a, subject)
    /\ UNCHANGED form

\* startWizard(): at most one flow of several steps.
StartWizard(step, a, subject) ==
    /\ wizard' = Wizard(step, a, subject)
    /\ form' = "none"

\* clearWizard(), and remember(), which forgets the wizard too.
DropWizard == wizard' = NoWizard /\ UNCHANGED form

\* Mutant: a button continues the wizard from whatever step it is at.
WizardAtAnyStep(step) == wizard # NoWizard /\ ~ wizard.late

\* wizardMatching()
WizardMatching(step) == wizard.step = step /\ ~ wizard.late

\* activeWizard() drops one that is late; otherwise the wrong step is only said.
NoMatch == IF wizard = NoWizard THEN UNCHANGED <<wizard, form>>
           ELSE IF wizard.late THEN DropWizard ELSE UNCHANGED <<wizard, form>>

NewAlert == StartWizard("symbol", None, <<None, None>>) /\ Silent

PressSymbol(s) ==
    /\ IF WizardMatching("symbol")
       THEN wizard' = [wizard EXCEPT !.symbol = s, !.step = "type"] /\ UNCHANGED form
       ELSE NoMatch
    /\ Silent

PressType(t) ==
    /\ IF WizardMatching("type")
       THEN wizard' = [wizard EXCEPT !.type = t, !.step = "target"] /\ UNCHANGED form
       ELSE NoMatch
    /\ Silent

\* Cancelled, or left for the list or the details of an alert.
LeaveWizard == DropWizard /\ Silent

\* An alert that exists and is not TRIGGERED.
EditAlert(a) == StartWizard("edit-target", a, Subject[a]) /\ Silent

\* Enabled, disabled or deleted, after a look at who owns it; the wizard stays.
ChangeAlert(a) ==
    /\ Asks("alerts", None)
    /\ UNCHANGED <<wizard, form>>
    /\ OwnOnly

\* confirmWizard(): create() and edit() take the baseline before they wait.
ConfirmWizard ==
    /\ IF WizardMatching("confirm") /\ wizard.symbol # None /\ wizard.type # None
       THEN /\ \E button \in Buttons(wizard.screen) :
                Confirms(IF wizard.alert = None THEN "create" ELSE "edit",
                         Wanted(wizard.alert, wizard.symbol, wizard.type, wizard.target), button)
            /\ UNCHANGED <<wizard, form>>
       ELSE NoMatch /\ UNCHANGED request
    /\ OwnOnly

WizardWaits == wizard.step \in {"target", "edit-target"}

\* consumeWizardInput(): confirmed next, asked again, or closed because no
\* number can be right.  The step is taken whether or not the screen arrives,
\* and without a look at the age of the wizard.
WizardTakes(x) ==
    /\ WizardWaits
    /\ \/ /\ x # Blank
          /\ \E arrived \in BOOLEAN :
                wizard' = [wizard EXCEPT !.target = x, !.step = "confirm", !.screen =
                    Screen(Wanted(wizard.alert, wizard.symbol, wizard.type, x), arrived)]
       \/ UNCHANGED wizard
       \/ wizard' = NoWizard
    /\ UNCHANGED <<form, request>>
    /\ OwnOnly

\* confirmWizard() when the answer is there: the wizard stays for another try
\* after a duplicate, an impossible target, or a failed edit.
Created(closes) ==
    /\ request.to \in {"create", "edit"}
    /\ IF closes THEN DropWizard ELSE UNCHANGED <<wizard, form>>

-----------------------------------------------------------------------------
(* The purchase form, from outside *)

OpenForm ==
    /\ wizard' = NoWizard
    /\ form' = "open"
    /\ Silent

\* A step of an open form changes nothing here, a late one is dropped; the hub
\* and a cancel drop any.
PressForm ==
    /\ wizard' = NoWizard
    /\ form' \in {"none", IF form = "open" THEN "open" ELSE "none"}
    /\ Silent

\* The lead is asked for; if the form is not complete it starts over.
ConfirmForm ==
    /\ wizard' = NoWizard
    /\ form' = IF form = "open" THEN "open" ELSE "none"
    /\ (form = "open" /\ Asks("leads", None)) \/ UNCHANGED request
    /\ OwnOnly

FormTakes ==
    /\ form # "none"
    /\ form' = IF form = "open" THEN "open" ELSE "none"
    /\ UNCHANGED wizard
    /\ Silent

-----------------------------------------------------------------------------
(* Messages *)

\* The order in which a text is offered; what nobody takes shows the menu.
TypedText(x) ==
    \/ WizardTakes(x)
    \/ ~ WizardWaits /\ FormTakes
    \/ /\ ~ WizardWaits /\ form = "none"
       /\ \/ AdminTakes(x) /\ UNCHANGED <<wizard, form>>
          \/ /\ admin.pending = NoQuestion
             /\ \/ SellerTakes(x) /\ UNCHANGED <<wizard, form>>
                \/ /\ ~ SellerWaits
                   /\ seller' = NoQuestion
                   /\ DropWizard
                   /\ UNCHANGED <<rights, admin, request>>

\* A picture or anything else without a text shows the menu.
SentOther == DropWizard /\ Silent

\* A command leaves the form and the questions of operators.
LeaveForm == form' = "none" /\ ClearPending /\ UNCHANGED rights

\* /start with the payload of a route: the wizard, or the screen of the route.
EnterRoute(alert) ==
    IF alert THEN StartWizard("symbol", None, <<None, None>>)
             ELSE wizard' = NoWizard /\ form' = "none"

\* /start: a welcome, an unknown payload, an invitation, a campaign or a route.
CommandStart ==
    /\ \E alert \in BOOLEAN : EnterRoute(alert)
    /\ ClearPending
    /\ UNCHANGED <<rights, request>>

\* /menu, /prices, /buy, an unknown one, or one of a surface that is refused.
CommandMenu == LeaveForm /\ wizard' = NoWizard /\ UNCHANGED request

\* A surface that is not refused leaves the wizard where it is.
CommandSurface ==
    /\ LeaveForm
    /\ UNCHANGED wizard
    /\ \/ AdminCommand
       \/ Can("sales") /\ SellerCommand
       \/ Can("content") /\ (ContentCommand \/ CampaignCommand)

Command == CommandStart \/ CommandMenu \/ CommandSurface

Message == (\E x \in Texts \cup {Blank} : TypedText(x)) \/ SentOther \/ Command

-----------------------------------------------------------------------------
(* Buttons *)

\* handleFavoriteAction(): the screen is remembered when the change is done.
PressFavorite ==
    /\ Asks("favorites", None)
    /\ UNCHANGED <<wizard, form>>
    /\ OwnOnly

AlertPress ==
    \/ NewAlert
    \/ \E s \in Symbols : PressSymbol(s)
    \/ \E t \in Types : PressType(t)
    \/ LeaveWizard
    \/ \E a \in Alerts : EditAlert(a) \/ ChangeAlert(a)
    \/ ConfirmWizard

FormPress == OpenForm \/ PressForm \/ ConfirmForm

\* Another screen ends both flows; a payload that cannot be read, the wizard.
Navigate ==
    /\ wizard' = NoWizard
    /\ form' = "none" \/ UNCHANGED form
    /\ Silent

\* Operators of the panel lose the wizard, those of the other surfaces do not.
OperatorPress ==
    \/ AdminPress /\ DropWizard
    \/ SellerPress /\ UNCHANGED <<wizard, form>>
    \/ ContentPress /\ UNCHANGED <<wizard, form>>
    \/ CampaignPress /\ UNCHANGED <<wizard, form>>

Callback == AlertPress \/ FormPress \/ PressFavorite \/ Navigate \/ OperatorPress

-----------------------------------------------------------------------------
\* The update is handled to its end.
Answered ==
    /\ Waiting
    /\ request' = NoRequest
    /\ \/ \E closes \in BOOLEAN : Created(closes)
       \/ request.to = "favorites" /\ (DropWizard \/ UNCHANGED <<wizard, form>>)
       \/ request.to = "leads" /\ (form' = "none" \/ UNCHANGED form) /\ UNCHANGED wizard
       \/ request.to \notin {"create", "edit", "favorites", "leads"} /\ UNCHANGED <<wizard, form>>
    /\ UNCHANGED <<rights, admin, seller>>

Expires ==
    \/ QuestionExpires /\ UNCHANGED <<wizard, form>>
    \/ /\ wizard # NoWizard /\ ~ wizard.late
       /\ wizard' = [wizard EXCEPT !.late = TRUE]
       /\ UNCHANGED form /\ Silent
    \/ form = "open" /\ form' = "late" /\ UNCHANGED wizard /\ Silent

\* Nothing of a conversation survives; an update that is delivered again is
\* one more message or press.  The configuration may be another one.
Crash ==
    /\ rights' \in Configurations
    /\ admin' = NoSession /\ seller' = NoQuestion /\ request' = NoRequest
    /\ wizard' = NoWizard /\ form' = "none"

Init ==
    /\ rights \in Configurations
    /\ OperatorsStart
    /\ wizard = NoWizard /\ form = "none"
    /\ price \in Prices

\* What moves while an answer is awaited no longer counts for what was asked.
PriceMoves ==
    /\ ~ Waiting
    /\ price' \in Prices
    /\ UNCHANGED <<operatorVars, wizard, form>>

Next ==
    \/ /\ \/ ~ Waiting /\ (Message \/ Callback \/ Expires)
          \/ Answered
          \/ Crash
       /\ UNCHANGED price
    \/ PriceMoves

Spec == Init /\ [][Next]_vars

-----------------------------------------------------------------------------
(* Properties *)

\* The code says that a user is in one flow of several steps at most: no
\* history of messages, old buttons and restarts leaves a wizard and a form
\* that both wait for the next text.
OneFlow == ~ (wizard # NoWizard /\ form # "none")

\* Alerts are of what a screen said; the baseline is too, unless the price is
\* no longer the one the screen was made with.
AsSaid(what, said) ==
    /\ \A f \in {"alert", "symbol", "type", "target"} : what[f] = said[f]
    /\ what.baseline # said.baseline => said.baseline # price

\* Confirming buttons of all ages do one thing: what the newest screen of their
\* kind says, whatever was pressed, typed or forgotten since it was sent, so
\* that its own button does what the user read there.  If that screen was lost,
\* an older button still does what it says, which nobody read.
NewestScreenDecides ==
    /\ request.to \in {"create", "edit"} =>
        /\ AsSaid(request.what, wizard.screen.said)
        /\ request.by = "own" => wizard.screen.arrived
    /\ request.to = "prepare" =>
        /\ request.what = admin.preview.said
        /\ request.by = "own" => admin.preview.arrived
=============================================================================
