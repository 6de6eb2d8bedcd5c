------------------------ MODULE Conversation_proofs ------------------------
(***************************************************************************)
(* The two promises of the conversation, for any texts, symbols, alerts,   *)
(* audiences, leads, rights and prices, and for any loss of screens.       *)
(* Neither is inductive alone: what a button confirms is what the newest   *)
(* screen says because a wizard that waits for confirmation is the one     *)
(* its screen says, but for a price that moved, and a draft that is        *)
(* complete is the one of its preview.                                     *)
(***************************************************************************)
EXTENDS Conversation, TLAPS

\* A wizard has all its fields, or is none.
WizardShape ==
    wizard = NoWizard \/
    wizard = [step |-> wizard.step, alert |-> wizard.alert, symbol |-> wizard.symbol,
              type |-> wizard.type, target |-> wizard.target, late |-> wizard.late,
              screen |-> wizard.screen]

SessionShape ==
    admin = [audience |-> admin.audience, text |-> admin.text, pending |-> admin.pending,
             preview |-> admin.preview]

\* The alert a screen speaks of; only a percentage has a baseline.
Says(said, w) ==
    /\ said.alert = w.alert
    /\ said.symbol = w.symbol
    /\ said.type = w.type
    /\ said.target = w.target
    /\ w.type \notin Percents => said.baseline = None

ConfirmationIsShown == wizard.step = "confirm" => Says(wizard.screen.said, wizard)

DraftIsShown == HasDraft => admin.preview.said = Draft

FlowInv == WizardShape /\ OneFlow /\ ConfirmationIsShown
DraftInv == SessionShape /\ DraftIsShown

Inv == FlowInv /\ DraftInv /\ NewestScreenDecides

FlowVars == <<wizard, form>>

-----------------------------------------------------------------------------
(* Steps that leave the flows, or the draft, as they are *)

LEMMA FlowKept == FlowInv /\ UNCHANGED FlowVars => FlowInv'
BY DEF FlowInv, FlowVars, WizardShape, OneFlow, ConfirmationIsShown, Says, NoWizard

LEMMA NoWizardIsSafe == wizard' = NoWizard => FlowInv'
BY DEF FlowInv, WizardShape, OneFlow, ConfirmationIsShown, NoWizard

LEMMA DropKeeps == FlowInv /\ DropWizard => FlowInv'
BY NoWizardIsSafe DEF DropWizard

LEMMA DraftKept == DraftInv /\ UNCHANGED admin => DraftInv'
BY DEF DraftInv, SessionShape, DraftIsShown, HasDraft, Draft

\* A question asked, answered or dropped is not a change of the draft.
LEMMA QuestionKeepsDraft ==
    ASSUME NEW q, DraftInv, admin' = [admin EXCEPT !.pending = q]
    PROVE  DraftInv'
BY DEF DraftInv, SessionShape, DraftIsShown, HasDraft, Draft

LEMMA NothingAsked == request' = NoRequest => NewestScreenDecides'
BY DEF NewestScreenDecides, NoRequest

\* What is asked of others than the alerts and the broadcasts needs no screen.
LEMMA AskedOthers ==
    ASSUME NEW to, NEW what, Asks(to, what), to \notin {"create", "edit", "prepare"}
    PROVE  NewestScreenDecides'
BY DEF Asks, Confirms, NewestScreenDecides

-----------------------------------------------------------------------------
(* The surface of operators *)

LEMMA AdminTakesKeeps ==
    ASSUME NEW x, DraftInv, AdminTakes(x)
    PROVE  DraftInv'
<1>1. CASE TakesLate
    BY <1>1, QuestionKeepsDraft DEF TakesLate
<1>2. CASE TakesBroadcastText(x)
    <2>1. CASE x = Blank
        BY <1>2, <2>1, DraftKept DEF TakesBroadcastText
    <2>2. CASE x # Blank
        <3>1. PICK arrived \in BOOLEAN :
                admin' = [audience |-> admin.pending.about, text |-> x, pending |-> NoQuestion,
                          preview |-> Screen([audience |-> admin.pending.about, text |-> x], arrived)]
            BY <1>2, <2>2 DEF TakesBroadcastText
        <3> QED BY <3>1 DEF DraftInv, SessionShape, DraftIsShown, HasDraft, Draft, Screen
    <2> QED BY <2>1, <2>2
<1>3. CASE TakesDay
    BY <1>3, QuestionKeepsDraft DEF TakesDay
<1>4. CASE TakesSearch
    BY <1>4, QuestionKeepsDraft DEF TakesSearch
<1> QED BY <1>1, <1>2, <1>3, <1>4 DEF AdminTakes

LEMMA BroadcastPressKeeps ==
    ASSUME DraftInv, request = NoRequest, BroadcastPress
    PROVE  DraftInv' /\ NewestScreenDecides'
<1>1. ASSUME NEW a \in Audiences, ChooseAudience(a)
      PROVE  DraftInv' /\ NewestScreenDecides'
    <2>1. admin' = [audience |-> a, text |-> None, pending |-> NoQuestion,
                    preview |-> admin.preview]
        BY <1>1 DEF ChooseAudience, Unasked, DraftInv, SessionShape
    <2>2. DraftInv'
        BY <2>1 DEF DraftInv, SessionShape, DraftIsShown, HasDraft
    <2> QED BY <1>1, <2>2, NothingAsked DEF ChooseAudience
<1>2. CASE AskForText
    <2>1. PICK q : admin' = [admin EXCEPT !.pending = q]
        BY <1>2 DEF AskForText
    <2> QED BY <1>2, <2>1, QuestionKeepsDraft, NothingAsked DEF AskForText
<1>3. CASE ShowPreview
    <2>1. PICK arrived \in BOOLEAN :
            admin' = IF HasDraft THEN [Unasked EXCEPT !.preview = Screen(Draft, arrived)] ELSE Unasked
        BY <1>3 DEF ShowPreview
    <2>2. CASE HasDraft
        <3>1. admin' = [audience |-> admin.audience, text |-> admin.text, pending |-> NoQuestion,
                        preview |-> Screen(Draft, arrived)]
            BY <2>1, <2>2 DEF Unasked, DraftInv, SessionShape
        <3>2. DraftInv'
            BY <3>1 DEF DraftInv, SessionShape, DraftIsShown, HasDraft, Draft, Screen
        <3> QED BY <1>3, <3>2, NothingAsked DEF ShowPreview
    <2>3. CASE ~ HasDraft
        BY <1>3, <2>1, <2>3, QuestionKeepsDraft, NothingAsked DEF ShowPreview, Unasked
    <2> QED BY <2>2, <2>3
<1>4. CASE PrepareBroadcast
    <2>1. DraftInv'
        BY <1>4, QuestionKeepsDraft DEF PrepareBroadcast, Unasked
    <2>2. CASE HasDraft
        <3>1. PICK button \in Buttons(admin.preview) :
                request' = [to |-> "prepare", what |-> Draft, by |-> button]
            BY <1>4, <2>2 DEF PrepareBroadcast, Confirms
        <3>2. admin'.preview = admin.preview
            BY <1>4 DEF PrepareBroadcast, Unasked, DraftInv, SessionShape
        <3>3. admin'.preview.said = Draft
            BY <2>2, <3>2 DEF DraftInv, DraftIsShown
        <3>4. button = "own" => admin'.preview.arrived
            BY <3>1, <3>2 DEF Buttons
        <3> QED BY <2>1, <3>1, <3>3, <3>4 DEF NewestScreenDecides
    <2>3. CASE ~ HasDraft
        BY <1>4, <2>1, <2>3, NothingAsked DEF PrepareBroadcast
    <2> QED BY <2>2, <2>3
<1>5. ASSUME NEW op \in {"start", "cancel", "retry"}, RunBroadcast(op)
      PROVE  DraftInv' /\ NewestScreenDecides'
    BY <1>5, QuestionKeepsDraft, AskedOthers DEF RunBroadcast, Unasked
<1> QED BY <1>1, <1>2, <1>3, <1>4, <1>5 DEF BroadcastPress

LEMMA AdminPressKeeps ==
    ASSUME DraftInv, request = NoRequest, AdminPress
    PROVE  DraftInv' /\ NewestScreenDecides'
<1>1. ASSUME NEW c, OpenScreen(c)
      PROVE  DraftInv' /\ NewestScreenDecides'
    BY <1>1, QuestionKeepsDraft, NothingAsked DEF OpenScreen, Unasked
<1>2. ASSUME NEW c, Denied(c)
      PROVE  DraftInv' /\ NewestScreenDecides'
    BY <1>2, DraftKept, NothingAsked DEF Denied, operatorVars
<1>3. CASE AskForDays \/ AskForUser
    BY <1>3, QuestionKeepsDraft, NothingAsked DEF AskForDays, AskForUser
<1>4. ASSUME NEW confirmed \in BOOLEAN,
             \/ SwitchPublishing(confirmed)
             \/ SendTestMessage(confirmed)
             \/ ApplyAlertState(confirmed)
      PROVE  DraftInv' /\ NewestScreenDecides'
    BY <1>4, QuestionKeepsDraft, NothingAsked, AskedOthers
       DEF SwitchPublishing, SendTestMessage, ApplyAlertState, Unasked
<1>5. CASE ApplyIncidentAction
    BY <1>5, QuestionKeepsDraft, NothingAsked, AskedOthers DEF ApplyIncidentAction, Unasked
<1>6. ASSUME NEW source \in Retryable, RetryIncident(source)
      PROVE  DraftInv' /\ NewestScreenDecides'
    BY <1>6, QuestionKeepsDraft, NothingAsked, AskedOthers DEF RetryIncident, Unasked, Retryable
<1>7. CASE BroadcastPress
    BY <1>7, BroadcastPressKeeps
<1> QED BY <1>1, <1>2, <1>3, <1>4, <1>5, <1>6, <1>7 DEF AdminPress

\* Sales, contents and campaigns keep out of the draft and of the flows.
LEMMA OtherPressKeeps ==
    ASSUME DraftInv, request = NoRequest, SellerPress \/ ContentPress \/ CampaignPress
    PROVE  DraftInv' /\ NewestScreenDecides'
<1>1. CASE SellerPress
    <2>1. UNCHANGED admin
        BY <1>1 DEF SellerPress, SellerOnly
    <2>2. request' = NoRequest \/ Asks("sales", None)
        BY <1>1 DEF SellerPress, AskForNote, AskForSale, SellerScreen, SellerChange
    <2> QED BY <2>1, <2>2, DraftKept, NothingAsked, AskedOthers
<1>2. CASE ContentPress
    BY <1>2, DraftKept, NothingAsked, AskedOthers
       DEF ContentPress, DecideContent, PublishContent
<1>3. CASE CampaignPress
    BY <1>3, DraftKept, NothingAsked, AskedOthers
       DEF CampaignPress, ChangeCampaign
<1> QED BY <1>1, <1>2, <1>3

-----------------------------------------------------------------------------
(* The user's own flows *)

LEMMA StartKeeps ==
    ASSUME NEW step, NEW a, NEW subject, step # "confirm", StartWizard(step, a, subject)
    PROVE  FlowInv'
BY DEF StartWizard, Wizard, FlowInv, WizardShape, OneFlow, ConfirmationIsShown

\* A wizard that gets its next answer, short of the confirmation.
LEMMA AdvanceKeeps ==
    ASSUME NEW s, NEW t, NEW step, step # "confirm", FlowInv, wizard # NoWizard,
           wizard' = [step |-> step, alert |-> wizard.alert, symbol |-> s, type |-> t,
                      target |-> wizard.target, late |-> wizard.late, screen |-> wizard.screen],
           UNCHANGED form
    PROVE  FlowInv'
BY DEF FlowInv, WizardShape, OneFlow, ConfirmationIsShown, NoWizard

LEMMA NoMatchKeeps == FlowInv /\ NoMatch => FlowInv'
BY FlowKept, DropKeeps DEF NoMatch, FlowVars

LEMMA AlertPressKeeps ==
    ASSUME Inv, request = NoRequest, AlertPress, UNCHANGED price
    PROVE  Inv'
<1> USE DEF Inv
<1>1. CASE NewAlert
    BY <1>1, StartKeeps, DraftKept, NothingAsked DEF NewAlert, Silent, OwnOnly
<1>2. ASSUME NEW s \in Symbols, PressSymbol(s)
      PROVE  Inv'
    <2>1. DraftInv' /\ NewestScreenDecides'
        BY <1>2, DraftKept, NothingAsked DEF PressSymbol, Silent, OwnOnly
    <2>2. CASE WizardMatching("symbol")
        <3>1. wizard # NoWizard
            BY <2>2 DEF WizardMatching, NoWizard
        <3>2. wizard' = [step |-> "type", alert |-> wizard.alert, symbol |-> s, type |-> wizard.type,
                         target |-> wizard.target, late |-> wizard.late, screen |-> wizard.screen]
            BY <1>2, <2>2, <3>1 DEF PressSymbol, FlowInv, WizardShape
        <3>3. FlowInv /\ UNCHANGED form
            BY <1>2, <2>2 DEF PressSymbol
        <3>4. FlowInv'
            BY <3>1, <3>2, <3>3, AdvanceKeeps
        <3> QED BY <2>1, <3>4
    <2>3. CASE ~ WizardMatching("symbol")
        BY <1>2, <2>1, <2>3, NoMatchKeeps DEF PressSymbol, Silent
    <2> QED BY <2>2, <2>3
<1>3. ASSUME NEW t \in Types, PressType(t)
      PROVE  Inv'
    <2>1. DraftInv' /\ NewestScreenDecides'
        BY <1>3, DraftKept, NothingAsked DEF PressType, Silent, OwnOnly
    <2>2. CASE WizardMatching("type")
        <3>1. wizard # NoWizard
            BY <2>2 DEF WizardMatching, NoWizard
        <3>2. wizard' = [step |-> "target", alert |-> wizard.alert, symbol |-> wizard.symbol, type |-> t,
                         target |-> wizard.target, late |-> wizard.late, screen |-> wizard.screen]
            BY <1>3, <2>2, <3>1 DEF PressType, FlowInv, WizardShape
        <3>3. FlowInv /\ UNCHANGED form
            BY <1>3, <2>2 DEF PressType
        <3>4. FlowInv'
            BY <3>1, <3>2, <3>3, AdvanceKeeps
        <3> QED BY <2>1, <3>4
    <2>3. CASE ~ WizardMatching("type")
        BY <1>3, <2>1, <2>3, NoMatchKeeps DEF PressType, Silent
    <2> QED BY <2>2, <2>3
<1>4. CASE LeaveWizard
    BY <1>4, DropKeeps, DraftKept, NothingAsked DEF LeaveWizard, Silent, OwnOnly
<1>5. ASSUME NEW a \in Alerts, EditAlert(a)
      PROVE  Inv'
    BY <1>5, StartKeeps, DraftKept, NothingAsked DEF EditAlert, Silent, OwnOnly
<1>6. ASSUME NEW a \in Alerts, ChangeAlert(a)
      PROVE  Inv'
    BY <1>6, FlowKept, DraftKept, AskedOthers DEF ChangeAlert, OwnOnly, FlowVars
<1>7. CASE ConfirmWizard
    <2>1. DraftInv'
        BY <1>7, DraftKept DEF ConfirmWizard, OwnOnly
    <2>2. CASE WizardMatching("confirm") /\ wizard.symbol # None /\ wizard.type # None
        <3>1. UNCHANGED <<wizard, form>>
            BY <1>7, <2>2 DEF ConfirmWizard
        <3>2. FlowInv'
            BY <3>1, FlowKept DEF FlowVars
        <3> DEFINE want == Wanted(wizard.alert, wizard.symbol, wizard.type, wizard.target)
        <3>3. PICK to \in {"create", "edit"}, button \in Buttons(wizard.screen) :
                request' = [to |-> to, what |-> want, by |-> button]
            BY <1>7, <2>2 DEF ConfirmWizard, Confirms
        <3>4. Says(wizard.screen.said, wizard)
            BY <2>2 DEF WizardMatching, FlowInv, ConfirmationIsShown
        <3>5. AsSaid(want, wizard.screen.said)
            BY <3>4 DEF AsSaid, Says, Wanted, Baseline
        <3>6. AsSaid(request.what, wizard.screen.said)'
            BY <3>1, <3>3, <3>5 DEF AsSaid
        <3>7. button = "own" => wizard'.screen.arrived
            BY <3>1, <3>3 DEF Buttons
        <3> QED BY <2>1, <3>2, <3>3, <3>6, <3>7 DEF NewestScreenDecides
    <2>3. CASE ~ (WizardMatching("confirm") /\ wizard.symbol # None /\ wizard.type # None)
        BY <1>7, <2>1, <2>3, NoMatchKeeps, NothingAsked DEF ConfirmWizard
    <2> QED BY <2>2, <2>3
<1> QED BY <1>1, <1>2, <1>3, <1>4, <1>5, <1>6, <1>7 DEF AlertPress

LEMMA FormPressKeeps ==
    ASSUME Inv, request = NoRequest, FormPress
    PROVE  Inv'
<1>1. FlowInv'
    BY NoWizardIsSafe DEF FormPress, OpenForm, PressForm, ConfirmForm
<1>2. DraftInv'
    BY DraftKept DEF Inv, FormPress, OpenForm, PressForm, ConfirmForm, Silent, OwnOnly
<1>3. request' = NoRequest \/ Asks("leads", None)
    BY DEF FormPress, OpenForm, PressForm, ConfirmForm, Silent
<1> QED BY <1>1, <1>2, <1>3, NothingAsked, AskedOthers DEF Inv

-----------------------------------------------------------------------------
(* Messages *)

LEMMA WizardTakesKeeps ==
    ASSUME NEW x, Inv, request = NoRequest, WizardTakes(x)
    PROVE  Inv'
<1>1. DraftInv' /\ NewestScreenDecides'
    BY DraftKept, NothingAsked DEF Inv, WizardTakes, OwnOnly
<1>2. ASSUME NEW arrived \in BOOLEAN,
             wizard' = [wizard EXCEPT !.target = x, !.step = "confirm", !.screen =
                Screen(Wanted(wizard.alert, wizard.symbol, wizard.type, x), arrived)]
      PROVE  Inv'
    <2>1. form' = "none" /\ wizard # NoWizard
        <3>1. WizardWaits /\ UNCHANGED form
            BY DEF WizardTakes
        <3>2. wizard # NoWizard
            BY <3>1 DEF WizardWaits, NoWizard
        <3> QED BY <3>1, <3>2 DEF Inv, FlowInv, OneFlow
    <2>2. wizard' = [step |-> "confirm", alert |-> wizard.alert, symbol |-> wizard.symbol,
                     type |-> wizard.type, target |-> x, late |-> wizard.late,
                     screen |-> Screen(Wanted(wizard.alert, wizard.symbol, wizard.type, x), arrived)]
        BY <1>2, <2>1 DEF Inv, FlowInv, WizardShape
    <2>3. WizardShape'
        BY <2>2 DEF WizardShape
    <2>4. ConfirmationIsShown'
        BY <2>2 DEF ConfirmationIsShown, Says, Screen, Wanted, Baseline
    <2> QED BY <1>1, <2>1, <2>3, <2>4 DEF Inv, FlowInv, OneFlow
<1>3. CASE UNCHANGED wizard
    BY <1>1, <1>3, FlowKept DEF Inv, WizardTakes, FlowVars
<1>4. CASE wizard' = NoWizard
    BY <1>1, <1>4, NoWizardIsSafe DEF Inv
<1> QED BY <1>2, <1>3, <1>4 DEF WizardTakes

LEMMA TypedTextKeeps ==
    ASSUME NEW x, Inv, request = NoRequest, TypedText(x)
    PROVE  Inv'
<1> USE DEF Inv
<1>1. CASE WizardTakes(x)
    BY <1>1, WizardTakesKeeps
<1>2. CASE FormTakes
    <2>1. wizard = NoWizard
        BY <1>2 DEF FormTakes, FlowInv, OneFlow
    <2> QED BY <1>2, <2>1, NoWizardIsSafe, DraftKept, NothingAsked
            DEF FormTakes, Silent, OwnOnly
<1>3. CASE AdminTakes(x) /\ UNCHANGED <<wizard, form>>
    BY <1>3, AdminTakesKeeps, FlowKept, NothingAsked DEF AdminTakes, FlowVars
<1>4. CASE SellerTakes(x) /\ UNCHANGED <<wizard, form>>
    <2>1. request' = NoRequest \/ Asks("lead", [lead |-> seller.about, text |-> x])
        BY <1>4 DEF SellerTakes
    <2> QED BY <1>4, <2>1, FlowKept, DraftKept, NothingAsked, AskedOthers
            DEF SellerTakes, SellerOnly, FlowVars
<1>5. CASE DropWizard /\ UNCHANGED <<rights, admin, request>>
    BY <1>5, DropKeeps, DraftKept, NothingAsked
<1> QED BY <1>1, <1>2, <1>3, <1>4, <1>5 DEF TypedText

LEMMA CommandKeeps ==
    ASSUME Inv, request = NoRequest, Command
    PROVE  Inv'
<1> USE DEF Inv
<1>1. ASSUME ClearPending PROVE DraftInv'
    BY <1>1, QuestionKeepsDraft DEF ClearPending
<1>2. CASE CommandStart
    <2>1. PICK alert \in BOOLEAN : EnterRoute(alert)
        BY <1>2 DEF CommandStart
    <2>2. FlowInv'
        BY <2>1, StartKeeps, NoWizardIsSafe DEF EnterRoute
    <2> QED BY <1>1, <1>2, <2>2, NothingAsked DEF CommandStart
<1>3. CASE CommandMenu
    BY <1>1, <1>3, NoWizardIsSafe, NothingAsked DEF CommandMenu, LeaveForm
<1>4. CASE CommandSurface
    <2>1. FlowInv'
        BY <1>4 DEF CommandSurface, LeaveForm, FlowInv, WizardShape, OneFlow, ConfirmationIsShown,
            Says, NoWizard
    <2>2. \/ request' = NoRequest
          \/ \E to \in {"sales", "content", "publication", "campaigns", "conversions"} : Asks(to, None)
        BY <1>4 DEF CommandSurface, AdminCommand, SellerCommand, SellerScreen, SellerChange,
            ContentCommand, EditContent, DecideContent, PublishContent, CampaignCommand,
            ChangeCampaign, RecordConversion
    <2>3. NewestScreenDecides'
        BY <2>2, NothingAsked, AskedOthers
    <2> QED BY <1>1, <1>4, <2>1, <2>3 DEF CommandSurface, LeaveForm
<1> QED BY <1>2, <1>3, <1>4 DEF Command

-----------------------------------------------------------------------------
LEMMA MessageKeeps ==
    ASSUME Inv, request = NoRequest, Message
    PROVE  Inv'
<1>1. CASE SentOther
    BY <1>1, DropKeeps, DraftKept, NothingAsked DEF Inv, SentOther, Silent, OwnOnly
<1> QED BY <1>1, TypedTextKeeps, CommandKeeps DEF Message

LEMMA CallbackKeeps ==
    ASSUME Inv, request = NoRequest, Callback, UNCHANGED price
    PROVE  Inv'
<1> USE DEF Inv
<1>1. CASE AlertPress \/ FormPress
    BY <1>1, AlertPressKeeps, FormPressKeeps
<1>2. CASE PressFavorite
    BY <1>2, FlowKept, DraftKept, AskedOthers DEF PressFavorite, OwnOnly, FlowVars
<1>3. CASE Navigate
    BY <1>3, NoWizardIsSafe, DraftKept, NothingAsked DEF Navigate, Silent, OwnOnly
<1>4. CASE AdminPress /\ DropWizard
    BY <1>4, AdminPressKeeps, DropKeeps
<1>5. CASE /\ SellerPress \/ ContentPress \/ CampaignPress
           /\ UNCHANGED <<wizard, form>>
    BY <1>5, OtherPressKeeps, FlowKept DEF FlowVars
<1> QED BY <1>1, <1>2, <1>3, <1>4, <1>5 DEF Callback, OperatorPress

LEMMA ExpiryKeeps ==
    ASSUME Inv, request = NoRequest, Expires
    PROVE  Inv'
<1> USE DEF Inv
<1>1. CASE QuestionExpires /\ UNCHANGED <<wizard, form>>
    <2>1. FlowInv' /\ NewestScreenDecides'
        BY <1>1, FlowKept, NothingAsked DEF QuestionExpires, FlowVars
    <2>2. CASE admin' = [admin EXCEPT !.pending.late = TRUE]
        BY <1>1, <2>1, <2>2, QuestionKeepsDraft DEF QuestionExpires
    <2>3. CASE UNCHANGED admin
        BY <1>1, <2>1, <2>3, DraftKept DEF QuestionExpires
    <2> QED BY <1>1, <2>2, <2>3 DEF QuestionExpires
<1>2. CASE /\ wizard # NoWizard /\ ~ wizard.late
           /\ wizard' = [wizard EXCEPT !.late = TRUE]
           /\ UNCHANGED form /\ Silent
    <2>1. FlowInv'
        BY <1>2 DEF Silent, FlowInv, WizardShape, OneFlow, ConfirmationIsShown, Says
    <2> QED BY <1>2, <2>1, DraftKept, NothingAsked DEF Silent, OwnOnly
<1>3. CASE form = "open" /\ form' = "late" /\ UNCHANGED wizard /\ Silent
    <2>1. wizard' = NoWizard
        BY <1>3 DEF FlowInv, OneFlow
    <2> QED BY <1>3, <2>1, NoWizardIsSafe, DraftKept, NothingAsked DEF Silent, OwnOnly
<1> QED BY <1>1, <1>2, <1>3 DEF Expires

LEMMA AnswerKeeps ==
    ASSUME Inv, Answered
    PROVE  Inv'
<1>1. DraftInv' /\ NewestScreenDecides'
    BY DraftKept, NothingAsked DEF Inv, Answered
<1>2. CASE DropWizard
    BY <1>1, <1>2, DropKeeps DEF Inv
<1>3. CASE UNCHANGED <<wizard, form>>
    BY <1>1, <1>3, FlowKept DEF Inv, Answered, FlowVars
<1>4. CASE form' = "none" /\ UNCHANGED wizard
    <2>1. FlowInv'
        BY <1>4 DEF Inv, Answered, FlowInv, WizardShape, OneFlow, ConfirmationIsShown, Says, NoWizard
    <2> QED BY <1>1, <2>1 DEF Inv
<1> QED BY <1>2, <1>3, <1>4 DEF Answered, Created

LEMMA CrashKeeps == Crash => Inv'
BY NoWizardIsSafe, NothingAsked
   DEF Crash, Inv, DraftInv, SessionShape, DraftIsShown, HasDraft, NoSession

-----------------------------------------------------------------------------
\* Whatever a user types and presses, when questions expire and the process
\* restarts, the two promises hold with what they rest on.
THEOREM ConversationIsSound == Spec => []Inv
<1>1. Init => Inv
    BY DEF Init, OperatorsStart, Inv, FlowInv, DraftInv, WizardShape, SessionShape, OneFlow,
        ConfirmationIsShown, DraftIsShown, HasDraft, NewestScreenDecides, NoSession, NoRequest, NoWizard
<1>2. Inv /\ [Next]_vars => Inv'
    <2> SUFFICES ASSUME Inv, [Next]_vars PROVE Inv'
        OBVIOUS
    <2>1. CASE request = NoRequest /\ Message
        BY <2>1, MessageKeeps
    <2>2. CASE request = NoRequest /\ Callback /\ UNCHANGED price
        BY <2>2, CallbackKeeps
    <2>3. CASE request = NoRequest /\ Expires
        BY <2>3, ExpiryKeeps
    <2>4. CASE Answered
        BY <2>4, AnswerKeeps
    <2>5. CASE Crash
        BY <2>5, CrashKeeps
    <2>6. CASE PriceMoves
        BY <2>6, FlowKept, DraftKept, NothingAsked DEF PriceMoves, Waiting, operatorVars, FlowVars, Inv
    <2>7. CASE UNCHANGED vars
        <3>1. UNCHANGED FlowVars /\ UNCHANGED <<admin, request, price>>
            BY <2>7 DEF vars, operatorVars, FlowVars
        <3>2. NewestScreenDecides'
            BY <3>1 DEF Inv, NewestScreenDecides, AsSaid, FlowVars
        <3> QED BY <3>1, <3>2, FlowKept, DraftKept DEF Inv
    <2> QED BY <2>1, <2>2, <2>3, <2>4, <2>5, <2>6, <2>7 DEF Next, Waiting
<1> QED BY <1>1, <1>2, PTL DEF Spec

\* A user is in one flow of several steps at most.
THEOREM OneFlowAlways == Spec => []OneFlow
<1>1. Inv => OneFlow
    BY DEF Inv, FlowInv
<1> QED BY <1>1, ConversationIsSound, PTL

\* A button that confirms, of a message of any age, does what the newest screen
\* of its kind says, but for the baseline of a price that moved; its own button
\* is pressed only where that screen arrived.
THEOREM NewestScreenAlwaysDecides == Spec => []NewestScreenDecides
<1>1. Inv => NewestScreenDecides
    BY DEF Inv
<1> QED BY <1>1, ConversationIsSound, PTL
=============================================================================
