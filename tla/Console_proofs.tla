--------------------------- MODULE Console_proofs ---------------------------
(***************************************************************************)
(* Console keeps its promises for any organisations, applications,         *)
(* workflows and number of requests in flight.                             *)
(***************************************************************************)
EXTENDS Console, TLAPS

(***************************************************************************)
(* The confirmation dialog                                                 *)
(***************************************************************************)
\* What a step does to the dialog, unless it opens one that asks for a
\* confirmation: it leaves the dialog and the action alone, or what it shows
\* asks for no confirmation.
NoConfirm == UNCHANGED dialog \/ modal'.kind # "confirm"

LEMMA RenderNoConfirm ==
  ASSUME NEW s, render(s)
  PROVE  NoConfirm
  BY DEF render, NoConfirm, NoModal

LEMMA AnswerNoConfirm ==
  ASSUME NEW s \in Slots, Answer(s)
  PROVE  NoConfirm
<1>1. CASE OrgsAnswer(s)
  BY <1>1, RenderNoConfirm DEF OrgsAnswer, NoConfirm, dialog
<1>2. CASE AppsAnswer(s)
  BY <1>2, RenderNoConfirm DEF AppsAnswer, handleRouting, RenderedForOrg, NoConfirm, dialog
<1>3. CASE LoadAnswer(s) \/ DetailAnswer(s)
  BY <1>3 DEF LoadAnswer, DetailAnswer, NoConfirm
<1>4. CASE SearchAnswer(s)
  BY <1>4 DEF SearchAnswer, NoConfirm
<1>5. CASE OperationAnswer(s)
  <2>1. modal' = modal \/ modal' = NoModal \/ modal' = [NoModal EXCEPT !.kind = "token"]
    BY <1>5 DEF OperationAnswer
  <2>2. pending' = pending
    BY <1>5 DEF OperationAnswer
  <2>3. NoModal.kind # "confirm" /\ [NoModal EXCEPT !.kind = "token"].kind # "confirm"
    BY DEF NoModal
  <2> QED
    BY <2>1, <2>2, <2>3 DEF NoConfirm, dialog
<1>6. CASE TabAnswer(s)
  BY <1>6 DEF TabAnswer, NoConfirm
<1> QED
  BY <1>1, <1>2, <1>3, <1>4, <1>5, <1>6 DEF Answer

LEMMA UserNoConfirm ==
  ASSUME NEW s \in Slots, UserStep(s)
  PROVE  NoConfirm
<1>1. CASE Refresh(s)
  BY <1>1 DEF Refresh, NoConfirm
<1>2. CASE executePendingConfirm(s)
  BY <1>2 DEF executePendingConfirm, NoConfirm, NoModal
<1>3. CASE SubmitForm(s)
  BY <1>3 DEF SubmitForm, NoConfirm
<1>4. CASE CopyAndClose(s)
  BY <1>4 DEF CopyAndClose, NoConfirm, NoModal
<1>5. CASE \E a \in Apps \cup {None} : onAppChange(a, s)
  BY <1>5 DEF onAppChange, NoConfirm
<1>6. CASE \E o \in Orgs : onOrgChange(o, s)
  BY <1>6 DEF onOrgChange, NoConfirm
<1>7. CASE \E k \in {None, "token", org} : SignIn(k, s)
  BY <1>7 DEF SignIn, NoConfirm, NoModal
<1>8. CASE \E f \in DOMAIN filters, p \in 0..MaxPage : Filter(f, p, s)
  BY <1>8 DEF Filter, NoConfirm
<1>9. CASE \E o \in Operations : Operate(o, s)
  BY <1>9 DEF Operate, NoConfirm
<1>10. CASE \E t \in Tabs : switchWfTab(t, s)
  BY <1>10 DEF switchWfTab, NoConfirm
<1> QED
  BY <1>1, <1>2, <1>3, <1>4, <1>5, <1>6, <1>7, <1>8, <1>9, <1>10 DEF UserStep

\* Whatever dialogs were opened, replaced and dismissed, the button of a
\* confirmation (executePendingConfirm) runs the action the dialog describes.
THEOREM ConsoleConfirms == Spec => []ConfirmMatchesDialog
<1>1. Init => ConfirmMatchesDialog
  BY DEF Init, NoModal, ConfirmMatchesDialog
<1>2. ConfirmMatchesDialog /\ [Next]_vars => ConfirmMatchesDialog'
  <2> SUFFICES ASSUME ConfirmMatchesDialog, [Next]_vars
               PROVE  ConfirmMatchesDialog'
    OBVIOUS
  <2>1. CASE NoConfirm
    BY <2>1 DEF NoConfirm, dialog, ConfirmMatchesDialog
  <2>2. CASE \E o \in Operations : showConfirm(o)
    BY <2>2 DEF showConfirm, ConfirmMatchesDialog
  <2>3. CASE UNCHANGED vars
    BY <2>1, <2>3 DEF vars, NoConfirm
  <2>4. CASE OtherStep
    <3>1. CASE closeModal
      BY <2>1, <3>1 DEF closeModal, NoConfirm, NoModal
    <3>2. CASE StreamEvent
      BY <2>1, <3>2 DEF StreamEvent, NoConfirm
    <3>3. CASE \E h \in Hashes : Navigate(h)
      BY <2>1, <3>3 DEF Navigate, NoConfirm
    <3>4. CASE \E w \in Workflows : OpenWorkflow(w) \/ ViewChild(w)
      BY <2>1, <3>4 DEF OpenWorkflow, ViewChild, NoConfirm, NoModal
    <3>5. CASE \E m \in Modes : setPollInterval(m)
      BY <2>1, <3>5 DEF setPollInterval, NoConfirm
    <3>6. CASE \E o \in Operations : OpenDialog("form", o)
      BY <2>1, <3>6 DEF OpenDialog, NoConfirm, NoModal
    <3>7. CASE \E k \in {"signIn", "step", "payload"} : OpenDialog(k, None)
      BY <2>1, <3>7 DEF OpenDialog, NoConfirm, NoModal
    <3>8. CASE \E o \in Orgs : \E a \in Registered[o] \cup {None} : OtherTab(o, a)
      BY <2>1, <3>8 DEF OtherTab, NoConfirm
    <3> QED
      BY <2>2, <2>4, <3>1, <3>2, <3>3, <3>4, <3>5, <3>6, <3>7, <3>8 DEF OtherStep
  <2>5. ASSUME NEW s \in Slots,
               Answer(s) \/ HashChange(s) \/ Tick(s) \/ Debounced(s) \/ UserStep(s)
        PROVE  NoConfirm
    <3>1. CASE HashChange(s)
      BY <3>1, RenderNoConfirm DEF HashChange, handleRouting
    <3>2. CASE Tick(s)
      BY <3>2 DEF Tick, poll, NoConfirm
    <3>3. CASE Debounced(s)
      BY <3>3 DEF Debounced, poll, NoConfirm
    <3> QED
      BY <2>5, <3>1, <3>2, <3>3, AnswerNoConfirm, UserNoConfirm
  <2> QED
    BY <2>1, <2>3, <2>4, <2>5 DEF Next
<1> QED
  BY <1>1, <1>2, PTL DEF Spec

(***************************************************************************)
(* Polling and the event stream                                            *)
(***************************************************************************)
\* The parts of the selection that a stream is opened for.
SelectionOK ==
  /\ org \in Orgs /\ storedOrg \in Orgs \cup {None}
  /\ app \in Apps \cup {None} /\ storedApp \in Apps \cup {None}

\* What a step does that touches neither the selection nor the live source.
Calm == UNCHANGED <<org, storedOrg, app, storedApp, mode, timer, sse>>

LEMMA StartsSource ==
  ASSUME SelectionOK', startSSE(None)
  PROVE  LiveSourceMatchesMode'
<1>1. CASE mode' = "stream" /\ sse' = [org |-> org', app |-> app'] /\ timer' = None
  <2>1. sse' \in [org : Orgs, app : Apps \cup {None}]
    BY <1>1 DEF SelectionOK
  <2>2. sse' # None
    BY <2>1, ConsoleAssumption DEF ConsoleAssumption
  <2> QED
    BY <1>1, <2>2 DEF LiveSourceMatchesMode, Intervals
<1>2. CASE mode' = "5000" /\ sse' = None /\ timer' = "5000"
  BY <1>2 DEF LiveSourceMatchesMode, Intervals
<1> QED
  BY <1>1, <1>2 DEF startSSE

\* A stream that is open is opened again for the new selection.
LEMMA RestartsSource ==
  ASSUME LiveSourceMatchesMode, SelectionOK',
         IF mode = "stream" THEN startSSE(timer) ELSE UNCHANGED <<mode, timer, sse>>
  PROVE  LiveSourceMatchesMode'
<1>1. CASE mode = "stream"
  BY <1>1, StartsSource DEF LiveSourceMatchesMode, Intervals
<1>2. CASE mode # "stream"
  BY <1>2 DEF LiveSourceMatchesMode
<1> QED
  BY <1>1, <1>2

LEMMA AnswerKeepsSource ==
  ASSUME NEW s \in Slots, Answer(s), SelectionOK, LiveSourceMatchesMode
  PROVE  (SelectionOK /\ LiveSourceMatchesMode)'
<1>0. CASE Calm
  BY <1>0 DEF Calm, SelectionOK, LiveSourceMatchesMode
<1>1. CASE OrgsAnswer(s)
  <2>1. org' \in Orgs /\ storedOrg' \in Orgs \cup {None}
    BY <1>1, ConsoleAssumption
    DEF OrgsAnswer, PreferredOrgs, SelectionOK, ConsoleAssumption
  <2>2. UNCHANGED <<app, storedApp, mode, timer, sse>>
    BY <1>1 DEF OrgsAnswer, liveVars
  <2> QED
    BY <2>1, <2>2 DEF SelectionOK, LiveSourceMatchesMode
<1>2. CASE AppsAnswer(s)
  <2>1. SelectionOK'
    BY <1>2 DEF AppsAnswer, ApplicationsLoaded, SelectionOK
  <2>3. LiveSourceMatchesMode'
    <3>1. CASE UNCHANGED <<mode, timer, sse>>
      BY <3>1 DEF LiveSourceMatchesMode
    <3>2. CASE IF mode = "stream" THEN startSSE(timer) ELSE UNCHANGED <<mode, timer, sse>>
      BY <2>1, <3>2, RestartsSource
    <3> QED
      BY <1>2, <3>1, <3>2 DEF AppsAnswer, RenderedForOrg
  <2> QED
    BY <2>1, <2>3
<1>3. CASE LoadAnswer(s) \/ DetailAnswer(s)
  BY <1>0, <1>3 DEF LoadAnswer, DetailAnswer, Calm, selection, liveVars
<1>4. CASE SearchAnswer(s)
  BY <1>0, <1>4 DEF SearchAnswer, Calm, selection, liveVars
<1>5. CASE OperationAnswer(s)
  BY <1>0, <1>5 DEF OperationAnswer, Calm, selection, liveVars
<1>6. CASE TabAnswer(s)
  BY <1>0, <1>6 DEF TabAnswer, Calm, selection, liveVars
<1> QED
  BY <1>1, <1>2, <1>3, <1>4, <1>5, <1>6 DEF Answer

LEMMA UserKeepsSource ==
  ASSUME NEW s \in Slots, UserStep(s), SelectionOK, LiveSourceMatchesMode
  PROVE  (SelectionOK /\ LiveSourceMatchesMode)'
<1>0. CASE Calm
  BY <1>0 DEF Calm, SelectionOK, LiveSourceMatchesMode
<1> USE DEF Calm, selection, liveVars
<1>1. CASE Refresh(s)
  BY <1>0, <1>1 DEF Refresh
<1>2. CASE executePendingConfirm(s)
  BY <1>0, <1>2 DEF executePendingConfirm
<1>3. CASE SubmitForm(s)
  BY <1>0, <1>3 DEF SubmitForm
<1>4. CASE CopyAndClose(s)
  BY <1>0, <1>4 DEF CopyAndClose
<1>5. CASE \E a \in Apps \cup {None} : onAppChange(a, s)
  <2>1. PICK a \in Apps \cup {None} : onAppChange(a, s)
    BY <1>5
  <2>2. SelectionOK'
    BY <2>1 DEF onAppChange, SelectionOK
  <2>3. IF mode = "stream" THEN startSSE(timer) ELSE UNCHANGED <<mode, timer, sse>>
    BY <2>1 DEF onAppChange
  <2> QED
    BY <2>2, <2>3, RestartsSource
<1>6. CASE \E o \in Orgs : onOrgChange(o, s)
  BY <1>6 DEF onOrgChange, SelectionOK, LiveSourceMatchesMode
<1>7. CASE \E k \in {None, "token", org} : SignIn(k, s)
  BY <1>0, <1>7 DEF SignIn
<1>8. CASE \E f \in DOMAIN filters, p \in 0..MaxPage : Filter(f, p, s)
  BY <1>0, <1>8 DEF Filter
<1>9. CASE \E o \in Operations : Operate(o, s)
  BY <1>0, <1>9 DEF Operate
<1>10. CASE \E t \in Tabs : switchWfTab(t, s)
  BY <1>0, <1>10 DEF switchWfTab
<1> QED
  BY <1>1, <1>2, <1>3, <1>4, <1>5, <1>6, <1>7, <1>8, <1>9, <1>10 DEF UserStep

LEMMA OtherKeepsSource ==
  ASSUME OtherStep, SelectionOK, LiveSourceMatchesMode
  PROVE  (SelectionOK /\ LiveSourceMatchesMode)'
<1>0. CASE Calm
  BY <1>0 DEF Calm, SelectionOK, LiveSourceMatchesMode
<1> USE DEF Calm, selection, liveVars
<1>1. CASE closeModal
  BY <1>0, <1>1 DEF closeModal
<1>2. CASE StreamEvent
  BY <1>0, <1>2 DEF StreamEvent
<1>3. CASE \E h \in Hashes : Navigate(h)
  BY <1>0, <1>3 DEF Navigate
<1>4. CASE \E w \in Workflows : OpenWorkflow(w) \/ ViewChild(w)
  BY <1>0, <1>4 DEF OpenWorkflow, ViewChild
<1>5. CASE \E m \in Modes : setPollInterval(m)
  <2>1. PICK m \in Modes : setPollInterval(m)
    BY <1>5
  <2>2. SelectionOK'
    BY <2>1 DEF setPollInterval, SelectionOK
  <2>3. CASE m = "stream"
    BY <2>1, <2>2, <2>3, StartsSource DEF setPollInterval
  <2>4. CASE m # "stream"
    BY <2>1, <2>2, <2>4 DEF setPollInterval, LiveSourceMatchesMode, Modes, Intervals
  <2> QED
    BY <2>2, <2>3, <2>4
<1>6. CASE \E o \in Operations : showConfirm(o) \/ OpenDialog("form", o)
  BY <1>0, <1>6 DEF showConfirm, OpenDialog
<1>7. CASE \E k \in {"signIn", "step", "payload"} : OpenDialog(k, None)
  BY <1>0, <1>7 DEF OpenDialog
<1>8. CASE \E o \in Orgs : \E a \in Registered[o] \cup {None} : OtherTab(o, a)
  <2>1. PICK o \in Orgs : \E a \in Registered[o] \cup {None} : OtherTab(o, a)
    BY <1>8
  <2>2. Registered[o] \subseteq Apps
    BY ConsoleAssumption DEF ConsoleAssumption
  <2> QED
    BY <2>1, <2>2 DEF OtherTab, SelectionOK, LiveSourceMatchesMode
<1> QED
  BY <1>1, <1>2, <1>3, <1>4, <1>5, <1>6, <1>7, <1>8 DEF OtherStep

\* Exactly the source of refreshes that the mode names is active: a timer or a
\* stream, never both and never neither, also when a stream cannot be opened
\* (startSSE falls back to polling) while the selection changes.
THEOREM ConsoleLiveSource == Spec => []LiveSourceMatchesMode
<1> DEFINE Inv == SelectionOK /\ LiveSourceMatchesMode
<1>1. Init => Inv
  BY ConsoleAssumption
  DEF Init, SavedOrg, SelectionOK, LiveSourceMatchesMode, Intervals, ConsoleAssumption
<1>2. Inv /\ [Next]_vars => Inv'
  <2> SUFFICES ASSUME Inv, [Next]_vars
               PROVE  Inv'
    OBVIOUS
  <2>1. CASE Calm
    BY <2>1 DEF Calm, SelectionOK, LiveSourceMatchesMode
  <2>2. CASE UNCHANGED vars
    BY <2>1, <2>2 DEF vars, selection, liveVars, Calm
  <2>3. ASSUME NEW s \in Slots, HashChange(s) \/ Tick(s) \/ Debounced(s)
        PROVE  Calm
    BY <2>3 DEF HashChange, Tick, Debounced, poll, Calm, selection, liveVars
  <2> QED
    BY <2>1, <2>2, <2>3, AnswerKeepsSource, UserKeepsSource, OtherKeepsSource DEF Next
<1>3. Inv => LiveSourceMatchesMode
  OBVIOUS
<1> QED
  BY <1>1, <1>2, <1>3, PTL DEF Spec

(***************************************************************************)
(* What the page shows                                                     *)
(***************************************************************************)
Fields == {"kind", "then", "screen", "live", "org", "app", "apps", "wf", "page"}

\* The tasks are records in slots; nothing else of their type is needed.
Fit(ts) == DOMAIN ts = Slots /\ \A t \in Slots : DOMAIN ts[t] = Fields

\* A task whose answer replaces the content view, and not only a panel in it.
Fills(k) == k.live /\ k.kind # "tab"

\* A task that may write to the page as it is.
Belongs(k) ==
  /\ Fills(k) => k.screen \in {route, "detail"}
  /\ k.live => k.org = org

\* A task that ends a switch of organisation.
Ends(k) == k.kind = "apps" /\ k.then \in {"init", "orgSwitch"}

\* Task k is task l, or was detached from the page.
Same(k, l) ==
  /\ k.kind = l.kind /\ k.then = l.then /\ k.screen = l.screen /\ k.org = l.org
  /\ k.live => l.live

\* The inductive invariant: what will be written belongs to the current route,
\* and to the current organisation unless a switch is under way.
PageInv ==
  /\ Fit(tasks)
  /\ ViewMatchesRoute
  /\ OrgIsolated
  /\ \A t \in Slots : Fills(tasks[t]) => tasks[t].screen \in {route, "detail"}

\* A step that renders the page: all older tasks are detached.
Fresh(s) ==
  /\ Fit(tasks')
  /\ \A t \in Slots \ {s} : ~tasks'[t].live
  /\ tasks'[s].live => tasks'[s].screen = route' /\ tasks'[s].org = org'
  /\ view'.screen = route' /\ view'.org = None

\* A step within the same page and organisation, in which one task goes on,
\* ends or begins.
Continues(s) ==
  /\ Fit(tasks')
  /\ UNCHANGED <<route, org>>
  /\ ~Ends(tasks[s])
  /\ \A t \in Slots \ {s} : Same(tasks'[t], tasks[t])
  /\ Belongs(tasks'[s])
  /\ \/ view' = view
     \/ /\ view'.screen \in {route, "detail"}
        /\ ~Switching => view'.org \in {None, org}

LEMMA FreshKeepsPage ==
  ASSUME NEW s \in Slots, Fresh(s)
  PROVE  PageInv'
BY DEF Fresh, PageInv, Fills, ViewMatchesRoute, OrgIsolated

LEMMA ContinuesKeepsPage ==
  ASSUME NEW s \in Slots, Continues(s), PageInv
  PROVE  PageInv'
<1>1. Switching => Switching'
  <2> SUFFICES ASSUME Switching PROVE Switching'
    OBVIOUS
  <2>1. PICK t \in Slots : Ends(tasks[t])
    BY DEF Switching, Ends
  <2>2. t # s
    BY <2>1 DEF Continues
  <2>3. Ends(tasks'[t])
    BY <2>1, <2>2 DEF Continues, Same, Ends
  <2> QED
    BY <2>3 DEF Switching, Ends
<1>2. ViewMatchesRoute'
  BY DEF Continues, PageInv, ViewMatchesRoute
<1>3. OrgIsolated'
  <2> SUFFICES ASSUME ~Switching'
               PROVE  /\ view'.org \in {None, org'}
                      /\ \A t \in Slots : tasks'[t].live => tasks'[t].org = org'
    BY DEF OrgIsolated
  <2>1. view'.org \in {None, org'}
    BY <1>1 DEF Continues, PageInv, OrgIsolated
  <2>2. ASSUME NEW t \in Slots, tasks'[t].live
        PROVE  tasks'[t].org = org'
    <3>1. CASE t = s
      BY <2>2, <3>1 DEF Continues, Belongs
    <3>2. CASE t # s
      BY <1>1, <2>2, <3>2 DEF Continues, Same, PageInv, OrgIsolated
    <3> QED
      BY <3>1, <3>2
  <2> QED
    BY <2>1, <2>2
<1>4. ASSUME NEW t \in Slots, Fills(tasks'[t])
      PROVE  tasks'[t].screen \in {route', "detail"}
  <2>1. CASE t = s
    BY <1>4, <2>1 DEF Continues, Belongs
  <2>2. CASE t # s
    BY <1>4, <2>2 DEF Continues, Same, Fills, PageInv
  <2> QED
    BY <2>1, <2>2
<1> QED
  BY <1>2, <1>3, <1>4 DEF Continues, PageInv

LEMMA IdleFits == DOMAIN Idle = Fields /\ ~Idle.live /\ ~Ends(Idle)
BY DEF Idle, Fields, Ends

LEMMA IdleBelongs == DOMAIN Idle = Fields /\ Belongs(Idle)
BY IdleFits DEF Belongs, Fills

LEMMA RequestFits ==
  ASSUME NEW kind, NEW screen, NEW a
  PROVE  /\ DOMAIN Request(kind, screen, a) = Fields
         /\ Request(kind, screen, a).kind = kind
         /\ Request(kind, screen, a).then = None
         /\ Request(kind, screen, a).screen = screen
         /\ Request(kind, screen, a).org = org'
BY IdleFits DEF Request, Idle, Fields

LEMMA FirstRequestFits ==
  ASSUME NEW screen, NEW target, NEW r \in FirstRequests(screen, target)
  PROVE  DOMAIN r = Fields /\ r.screen = screen /\ r.org = org'
BY RequestFits DEF FirstRequests, Fields

LEMMA OverwrittenSame ==
  ASSUME NEW ts, Fit(ts)
  PROVE  Fit(Overwritten(ts)) /\ \A t \in Slots : Same(Overwritten(ts)[t], ts[t])
BY DEF Fit, Overwritten, Same, Fields

LEMMA DetachedSame ==
  ASSUME NEW ts, Fit(ts)
  PROVE  /\ Fit(Detached(ts))
         /\ \A t \in Slots : ~Detached(ts)[t].live
BY DEF Fit, Detached, Fields

\* What rendering a screen into slot s does to tasks and view.
LEMMA RenderScreenStep ==
  ASSUME NEW ts, Fit(ts), NEW s \in Slots, NEW screen, NEW silent \in BOOLEAN, NEW wa,
         RenderScreen(ts, s, screen, silent, wa)
  PROVE  /\ Fit(tasks')
         /\ \A t \in Slots \ {s} : Same(tasks'[t], ts[t])
         /\ tasks'[s].live => tasks'[s].screen = screen /\ tasks'[s].org = org'
         /\ (view'.screen = screen /\ view'.org = None) \/ (silent /\ view' = view)
<1>1. \A t \in Slots : Same(ts[t], ts[t])
  BY DEF Same
<1>2. PICK us, r : /\ tasks' = [us EXCEPT ![s] = r]
                   /\ us \in {ts, Overwritten(ts)}
                   /\ r = Idle \/ \E target : r \in FirstRequests(screen, target)
  BY DEF RenderScreen
<1>3. Fit(us) /\ \A t \in Slots : Same(us[t], ts[t])
  BY <1>1, <1>2, OverwrittenSame
<1>4. DOMAIN r = Fields /\ (r.live => r.screen = screen /\ r.org = org')
  BY <1>2, IdleFits, FirstRequestFits
<1>5. tasks'[s] = r /\ \A t \in Slots \ {s} : tasks'[t] = us[t]
  BY <1>2, <1>3 DEF Fit
<1>6. Fit(tasks')
  BY <1>2, <1>3, <1>4, <1>5 DEF Fit
<1>7. view' = Plain(screen, "choose") \/ view' = Plain(screen, "loading") \/ (silent /\ view' = view)
  BY DEF RenderScreen
<1>8. \A kind : Plain(screen, kind).screen = screen /\ Plain(screen, kind).org = None
  BY DEF Plain
<1> QED
  BY <1>3, <1>4, <1>5, <1>6, <1>7, <1>8

LEMMA RenderIsFresh ==
  ASSUME NEW s \in Slots, PageInv, render(s)
  PROVE  Fresh(s)
<1>1. Fit(Detached(tasks)) /\ \A t \in Slots : ~Detached(tasks)[t].live
  BY DetachedSame DEF PageInv
<1>2. RenderScreen(Detached(tasks), s, route', FALSE, wfApp)
  BY DEF render, renderContentView
<1>3. /\ Fit(tasks')
      /\ \A t \in Slots \ {s} : Same(tasks'[t], Detached(tasks)[t])
      /\ tasks'[s].live => tasks'[s].screen = route' /\ tasks'[s].org = org'
      /\ view'.screen = route' /\ view'.org = None
  BY <1>1, <1>2, RenderScreenStep
<1>4. \A t \in Slots \ {s} : ~tasks'[t].live
  BY <1>1, <1>3 DEF Same
<1> QED
  BY <1>3, <1>4 DEF Fresh

LEMMA RefillContinues ==
  ASSUME NEW s \in Slots, NEW screen \in {route, "detail"}, NEW silent \in BOOLEAN, PageInv,
         UNCHANGED <<route, org>>, ~Ends(tasks[s]), RenderScreen(tasks, s, screen, silent, wfApp)
  PROVE  Continues(s)
BY RenderScreenStep DEF PageInv, Continues, Belongs, Fills

\* A step that leaves the page alone.
Still == UNCHANGED <<route, org, view, tasks>>

LEMMA StillKeepsPage ==
  ASSUME Still, PageInv
  PROVE  PageInv'
BY DEF Still, PageInv, Fit, ViewMatchesRoute, OrgIsolated, Switching

\* A task in slot s is replaced by one that belongs to the page.
LEMMA ReplacedContinues ==
  ASSUME NEW s \in Slots, NEW r, PageInv, UNCHANGED <<route, org, view>>, ~Ends(tasks[s]),
         tasks' = [tasks EXCEPT ![s] = r], DOMAIN r = Fields,
         Belongs(r)
  PROVE  Continues(s)
BY DEF PageInv, Fit, Continues, Same

LEMMA FreeEnds ==
  ASSUME NEW s \in Slots, Free(s)
  PROVE  ~Ends(tasks[s])
BY IdleFits DEF Free

LEMMA OrgsKeepsPage ==
  ASSUME NEW s \in Slots, PageInv, OrgsAnswer(s)
  PROVE  PageInv'
<1>1. CASE render(s)
  BY <1>1, RenderIsFresh, FreshKeepsPage
<1>2. CASE /\ tasks' = [tasks EXCEPT ![s] =
                 [Idle EXCEPT !.kind = "apps", !.then = "init", !.org = org']]
           /\ view' = view
  <2> DEFINE r == [Idle EXCEPT !.kind = "apps", !.then = "init", !.org = org']
  <2>1. DOMAIN r = Fields /\ ~r.live /\ Ends(r)
    BY DEF Idle, Fields, Ends
  <2>2. tasks'[s] = r /\ \A t \in Slots \ {s} : tasks'[t] = tasks[t]
    BY <1>2 DEF PageInv, Fit
  <2>3. Fit(tasks')
    BY <1>2, <2>1, <2>2 DEF PageInv, Fit
  <2>4. Switching'
    BY <2>1, <2>2 DEF Switching, Ends
  <2>5. route' = route
    BY DEF OrgsAnswer, place
  <2> QED
    BY <1>2, <2>1, <2>2, <2>3, <2>4, <2>5 DEF PageInv, Fills, ViewMatchesRoute, OrgIsolated
<1> QED
  BY <1>1, <1>2 DEF OrgsAnswer

LEMMA AppsKeepsPage ==
  ASSUME NEW s \in Slots, PageInv, AppsAnswer(s)
  PROVE  PageInv'
<1>1. CASE render(s)
  BY <1>1, RenderIsFresh, FreshKeepsPage
<1>2. CASE tasks[s].then = "fleet"
  <2> DEFINE r == [tasks[s] EXCEPT !.kind = "load", !.then = None, !.org = org, !.app = app',
                                   !.apps = IF app' # None THEN {app'} ELSE apps']
  <2>1. /\ tasks' = [tasks EXCEPT ![s] = r] /\ UNCHANGED <<route, org, view>>
        /\ tasks[s].kind = "apps"
    BY <1>2 DEF AppsAnswer
  <2>2. DOMAIN tasks[s] = Fields
    BY DEF PageInv, Fit
  <2>3. DOMAIN r = Fields /\ r.screen = tasks[s].screen /\ r.live = tasks[s].live /\ r.org = org
    BY <2>2 DEF Fields
  <2>4. Belongs(r)
    BY <2>1, <2>3 DEF Belongs, Fills, PageInv
  <2>5. ~Ends(tasks[s])
    BY <1>2 DEF Ends
  <2> QED
    BY <2>1, <2>3, <2>4, <2>5, ReplacedContinues, ContinuesKeepsPage
<1> QED
  BY <1>1, <1>2 DEF AppsAnswer, handleRouting, RenderedForOrg

LEMMA LoadKeepsPage ==
  ASSUME NEW s \in Slots, PageInv, LoadAnswer(s)
  PROVE  PageInv'
<1>1. tasks[s].kind = "load" /\ UNCHANGED <<route, org>>
  BY DEF LoadAnswer, place, selection
<1>2. ~Ends(tasks[s])
  BY <1>1 DEF Ends
<1>3. CASE tasks' = [tasks EXCEPT ![s] = Idle] /\ view' = view
  BY <1>1, <1>2, <1>3, IdleBelongs, ReplacedContinues, ContinuesKeepsPage
<1>4. CASE /\ tasks[s].live
           /\ tasks' = [Overwritten(tasks) EXCEPT ![s] = Idle]
           /\ view'.screen = tasks[s].screen /\ view'.org = tasks[s].org
  <2>1. Fit(Overwritten(tasks)) /\ \A t \in Slots : Same(Overwritten(tasks)[t], tasks[t])
    BY OverwrittenSame DEF PageInv
  <2>2. tasks'[s] = Idle /\ \A t \in Slots \ {s} : tasks'[t] = Overwritten(tasks)[t]
    BY <1>4, <2>1 DEF Fit
  <2>3. Fit(tasks')
    BY <1>4, <2>1, <2>2, IdleFits DEF Fit
  <2>4. Fills(tasks[s]) /\ tasks[s].live
    BY <1>1, <1>4 DEF Fills
  <2>5. view'.screen \in {route, "detail"} /\ (~Switching => view'.org = org)
    BY <1>4, <2>4 DEF PageInv, OrgIsolated
  <2>6. Continues(s)
    BY <1>1, <1>2, <2>1, <2>2, <2>3, <2>5, IdleFits DEF Continues, Belongs, Fills
  <2> QED
    BY <2>6, ContinuesKeepsPage
<1> QED
  BY <1>3, <1>4 DEF LoadAnswer, Shown

LEMMA DetailKeepsPage ==
  ASSUME NEW s \in Slots, PageInv, DetailAnswer(s)
  PROVE  PageInv'
<1> DEFINE r == [tasks[s] EXCEPT !.then = "steps", !.org = org, !.wf = wfId]
<1>1. /\ tasks' = [tasks EXCEPT ![s] = r] /\ UNCHANGED <<route, org, view>>
      /\ tasks[s].kind = "load"
  BY DEF DetailAnswer, place, selection
<1>2. DOMAIN tasks[s] = Fields
  BY DEF PageInv, Fit
<1>3. /\ DOMAIN r = Fields /\ r.screen = tasks[s].screen /\ r.live = tasks[s].live
      /\ r.kind = tasks[s].kind /\ r.org = org
  BY <1>2 DEF Fields
<1>4. Belongs(r)
  BY <1>1, <1>3 DEF Belongs, Fills, PageInv
<1>5. ~Ends(tasks[s])
  BY <1>1 DEF Ends
<1> HIDE DEF r
<1> QED
  BY <1>1, <1>3, <1>4, <1>5, ReplacedContinues, ContinuesKeepsPage

LEMMA SearchKeepsPage ==
  ASSUME NEW s \in Slots, PageInv, SearchAnswer(s)
  PROVE  PageInv'
<1>1. tasks[s].kind = "search" /\ UNCHANGED <<route, org, view>>
  BY DEF SearchAnswer, place, selection
<1>2. DOMAIN tasks[s] = Fields
  BY DEF PageInv, Fit
<1>3. \E r : /\ tasks' = [tasks EXCEPT ![s] = r]
             /\ DOMAIN r = Fields
             /\ r.screen = tasks[s].screen /\ r.live = tasks[s].live /\ r.org = org
  <2> DEFINE Load(a) == [tasks[s] EXCEPT !.kind = "load", !.org = org, !.app = a,
                                         !.apps = {a}, !.wf = wfId]
             Retry(a) == [tasks[s] EXCEPT !.org = org, !.app = a, !.apps = @ \ {a}, !.wf = wfId]
  <2>1. \E a : tasks' = [tasks EXCEPT ![s] = Load(a)] \/ tasks' = [tasks EXCEPT ![s] = Retry(a)]
    BY DEF SearchAnswer
  <2>2. \A a : /\ DOMAIN Load(a) = Fields /\ DOMAIN Retry(a) = Fields
               /\ Load(a).screen = tasks[s].screen /\ Load(a).live = tasks[s].live
               /\ Retry(a).screen = tasks[s].screen /\ Retry(a).live = tasks[s].live
               /\ Load(a).org = org /\ Retry(a).org = org
    BY <1>2 DEF Fields
  <2> HIDE DEF Load, Retry
  <2> QED
    BY <2>1, <2>2
<1>4. PICK r : /\ tasks' = [tasks EXCEPT ![s] = r]
               /\ DOMAIN r = Fields
               /\ r.screen = tasks[s].screen /\ r.live = tasks[s].live /\ r.org = org
  BY <1>3
<1>5. Belongs(r)
  BY <1>1, <1>4 DEF Belongs, Fills, PageInv
<1>6. ~Ends(tasks[s])
  BY <1>1 DEF Ends
<1> QED
  BY <1>1, <1>4, <1>5, <1>6, ReplacedContinues, ContinuesKeepsPage

LEMMA OperationKeepsPage ==
  ASSUME NEW s \in Slots, PageInv, OperationAnswer(s)
  PROVE  PageInv'
<1>1. UNCHANGED <<route, org>> /\ ~Ends(tasks[s])
  BY DEF OperationAnswer, selection, Ends
<1>2. CASE tasks' = [tasks EXCEPT ![s] = Idle] /\ view' = view
  BY <1>1, <1>2, IdleBelongs, ReplacedContinues, ContinuesKeepsPage
<1>3. CASE \E screen \in {route, "detail"} : RenderScreen(tasks, s, screen, FALSE, wfApp)
  BY <1>1, <1>3, RefillContinues, ContinuesKeepsPage
<1> QED
  BY <1>1, <1>2, <1>3 DEF OperationAnswer, renderContentView

LEMMA PanelWrittenSame ==
  ASSUME NEW ts, Fit(ts)
  PROVE  Fit(PanelWritten(ts)) /\ \A t \in Slots : Same(PanelWritten(ts)[t], ts[t])
BY DEF Fit, PanelWritten, Same, Fields

\* A task of the panel begins or ends, and may detach others.
LEMMA PanelContinues ==
  ASSUME NEW s \in Slots, NEW r, PageInv, UNCHANGED <<route, org, view>>, ~Ends(tasks[s]),
         DOMAIN r = Fields, Belongs(r),
         tasks' = [tasks EXCEPT ![s] = r] \/ tasks' = [PanelWritten(tasks) EXCEPT ![s] = r]
  PROVE  PageInv'
<1>1. CASE tasks' = [tasks EXCEPT ![s] = r]
  BY <1>1, ReplacedContinues, ContinuesKeepsPage
<1>2. CASE tasks' = [PanelWritten(tasks) EXCEPT ![s] = r]
  <2>1. Fit(PanelWritten(tasks)) /\ \A t \in Slots : Same(PanelWritten(tasks)[t], tasks[t])
    BY PanelWrittenSame DEF PageInv
  <2>2. tasks'[s] = r /\ \A t \in Slots \ {s} : tasks'[t] = PanelWritten(tasks)[t]
    BY <1>2, <2>1 DEF Fit
  <2>3. Fit(tasks')
    BY <1>2, <2>1, <2>2 DEF Fit
  <2>4. Continues(s)
    BY <2>1, <2>2, <2>3 DEF Continues
  <2> QED
    BY <2>4, ContinuesKeepsPage
<1> QED
  BY <1>1, <1>2

LEMMA TabKeepsPage ==
  ASSUME NEW s \in Slots, PageInv, TabAnswer(s)
  PROVE  PageInv'
<1>1. UNCHANGED <<route, org, view>> /\ ~Ends(tasks[s])
  BY DEF TabAnswer, place, selection, Ends
<1>2. tasks' = [tasks EXCEPT ![s] = Idle] \/ tasks' = [PanelWritten(tasks) EXCEPT ![s] = Idle]
  BY DEF TabAnswer
<1> QED
  BY <1>1, <1>2, IdleBelongs, PanelContinues

LEMMA AnswerKeepsPage ==
  ASSUME NEW s \in Slots, PageInv, Answer(s)
  PROVE  PageInv'
BY OrgsKeepsPage, AppsKeepsPage, DetailKeepsPage, LoadKeepsPage, SearchKeepsPage,
   OperationKeepsPage, TabKeepsPage
DEF Answer

\* poll() and the other ways to fill the content view again.
LEMMA RefillKeepsPage ==
  ASSUME NEW s \in Slots, NEW silent \in BOOLEAN, PageInv, Free(s), UNCHANGED <<route, org>>,
         renderContentView(tasks, s, silent, wfApp)
  PROVE  PageInv'
<1>1. RenderScreen(tasks, s, route, silent, wfApp)
  BY DEF renderContentView
<1> QED
  BY <1>1, FreeEnds, RefillContinues, ContinuesKeepsPage

\* A request that belongs to the page begins.
LEMMA SendKeepsPage ==
  ASSUME NEW s \in Slots, NEW r, PageInv, Free(s), UNCHANGED <<route, org, view>>,
         tasks' = [tasks EXCEPT ![s] = r], DOMAIN r = Fields, Belongs(r)
  PROVE  PageInv'
BY FreeEnds, ReplacedContinues, ContinuesKeepsPage

LEMMA SentFits ==
  ASSUME NEW o, NEW a
  PROVE  DOMAIN Sent(o, a) = Fields /\ Belongs(Sent(o, a))
BY DEF Sent, Idle, Fields, Belongs, Fills

LEMMA OrgChangeKeepsPage ==
  ASSUME NEW s \in Slots, NEW o \in Orgs, PageInv, onOrgChange(o, s)
  PROVE  PageInv'
<1> DEFINE r == [Idle EXCEPT !.kind = "apps", !.then = "orgSwitch", !.org = o]
<1>1. DOMAIN r = Fields /\ ~r.live /\ Ends(r)
  BY DEF Idle, Fields, Ends
<1>2. tasks' = [tasks EXCEPT ![s] = r] /\ UNCHANGED <<route, view>>
  BY DEF onOrgChange, place
<1>3. tasks'[s] = r /\ \A t \in Slots \ {s} : tasks'[t] = tasks[t]
  BY <1>2 DEF PageInv, Fit
<1>4. Fit(tasks')
  BY <1>1, <1>2, <1>3 DEF PageInv, Fit
<1>5. Switching'
  BY <1>1, <1>3 DEF Switching, Ends
<1> QED
  BY <1>1, <1>2, <1>3, <1>4, <1>5 DEF PageInv, Fills, ViewMatchesRoute, OrgIsolated

LEMMA UserKeepsPage ==
  ASSUME NEW s \in Slots, PageInv, UserStep(s)
  PROVE  PageInv'
<1> USE DEF place, selection
<1>1. CASE Refresh(s)
  BY <1>1, RefillKeepsPage DEF Refresh
<1>2. CASE executePendingConfirm(s)
  <2>1. CASE pending = None
    BY <1>2, <2>1, StillKeepsPage DEF executePendingConfirm, Still
  <2>2. CASE pending # None
    BY <1>2, <2>2, SentFits, SendKeepsPage DEF executePendingConfirm
  <2> QED
    BY <2>1, <2>2
<1>3. CASE SubmitForm(s)
  BY <1>3, SentFits, SendKeepsPage DEF SubmitForm
<1>4. CASE CopyAndClose(s)
  BY <1>4, RefillKeepsPage DEF CopyAndClose
<1>5. CASE \E a \in Apps \cup {None} : onAppChange(a, s)
  BY <1>5, RefillKeepsPage DEF onAppChange
<1>6. CASE \E o \in Orgs : onOrgChange(o, s)
  BY <1>6, OrgChangeKeepsPage
<1>7. CASE \E k \in {None, "token", org} : SignIn(k, s)
  <2> DEFINE r == [Idle EXCEPT !.kind = "orgs", !.then = "render"]
  <2>1. DOMAIN r = Fields /\ Belongs(r)
    BY DEF Idle, Fields, Belongs, Fills
  <2>2. Free(s) /\ UNCHANGED <<route, org, view>> /\ tasks' = [tasks EXCEPT ![s] = r]
    BY <1>7 DEF SignIn
  <2> QED
    BY <2>1, <2>2, SendKeepsPage
<1>8. CASE \E f \in DOMAIN filters, p \in 0..MaxPage : Filter(f, p, s)
  BY <1>8, RefillKeepsPage DEF Filter
<1>9. CASE \E o \in Operations : Operate(o, s)
  BY <1>9, SentFits, SendKeepsPage DEF Operate
<1>10. CASE \E t \in Tabs : switchWfTab(t, s)
  <2>1. PICK t \in Tabs : switchWfTab(t, s)
    BY <1>10
  <2> DEFINE r == [Idle EXCEPT !.kind = "tab", !.then = t, !.live = TRUE, !.org = org,
                     !.app = TargetApp(wfApp, wfMap, wfId, app), !.wf = wfId]
  <2>2. DOMAIN r = Fields /\ Belongs(r)
    BY DEF Idle, Fields, Belongs, Fills
  <2>3. /\ Free(s) /\ UNCHANGED <<route, org, view>>
        /\ \/ tasks' = [tasks EXCEPT ![s] = r]
           \/ tasks' = [PanelWritten(tasks) EXCEPT ![s] = r]
    BY <2>1 DEF switchWfTab
  <2> HIDE DEF r
  <2> QED
    BY <2>2, <2>3, FreeEnds, PanelContinues
<1> QED
  BY <1>1, <1>2, <1>3, <1>4, <1>5, <1>6, <1>7, <1>8, <1>9, <1>10 DEF UserStep

LEMMA OtherIsStill ==
  ASSUME OtherStep
  PROVE  Still
BY DEF OtherStep, closeModal, StreamEvent, Navigate, OpenWorkflow, ViewChild, setPollInterval,
       showConfirm, OpenDialog, OtherTab, Still, place, selection

LEMMA PageInvariant == Spec => []PageInv
<1>1. Init => PageInv
  <2> SUFFICES ASSUME Init PROVE PageInv
    OBVIOUS
  <2> DEFINE first == [Idle EXCEPT !.kind = "orgs", !.then = "init"]
  <2>1. DOMAIN first = Fields /\ ~first.live
    BY DEF Idle, Fields
  <2>2. \A t \in Slots : tasks[t] \in {first, Idle}
    BY DEF Init
  <2>3. Fit(tasks) /\ \A t \in Slots : ~tasks[t].live
    BY <2>1, <2>2, IdleFits DEF Init, Fit
  <2>4. view.screen = "boot" /\ view.org = None
    BY DEF Init, Plain
  <2> QED
    BY <2>3, <2>4 DEF PageInv, Fills, ViewMatchesRoute, OrgIsolated
<1>2. PageInv /\ [Next]_vars => PageInv'
  <2> SUFFICES ASSUME PageInv, [Next]_vars
               PROVE  PageInv'
    OBVIOUS
  <2>1. CASE UNCHANGED vars
    BY <2>1, StillKeepsPage DEF vars, place, selection, Still
  <2>2. CASE OtherStep
    BY <2>2, OtherIsStill, StillKeepsPage
  <2>3. ASSUME NEW s \in Slots, HashChange(s)
        PROVE  PageInv'
    BY <2>3, RenderIsFresh, FreshKeepsPage DEF HashChange, handleRouting
  <2>4. ASSUME NEW s \in Slots, poll(s)
        PROVE  PageInv'
    BY <2>4, RefillKeepsPage DEF poll, place, selection
  <2>5. ASSUME NEW s \in Slots, Debounced(s)
        PROVE  PageInv'
    BY <2>4, <2>5, StillKeepsPage DEF Debounced, Still, place, selection
  <2> QED
    BY <2>1, <2>2, <2>3, <2>4, <2>5, AnswerKeepsPage, UserKeepsPage DEF Next, Tick
<1> QED
  BY <1>1, <1>2, PTL DEF Spec

\* The view belongs to the current route whatever answers are still on their way:
\* render() detaches every older task when the route changes.
THEOREM ConsoleViewMatchesRoute == Spec => []ViewMatchesRoute
BY PageInvariant, PTL DEF PageInv

\* Once a switch is complete the content view holds nothing of another
\* organisation, and no request made before it can write there any more, however
\* late it is answered: render() detaches them all.
THEOREM ConsoleOrgIsolated == Spec => []OrgIsolated
BY PageInvariant, PTL DEF PageInv

(***************************************************************************)
(* Types                                                                   *)
(***************************************************************************)
\* A task as the action that takes its answer needs it: what will be rendered
\* has a screen, the applications listed are those of an organisation, and
\* what the panel will show is a tab.
Job ==
  {k \in Task :
     /\ k.kind \in {"load", "search"} => k.screen \in ScreenNames
     /\ k.kind = "apps" => k.org \in Orgs /\ (k.then = "fleet" => k.screen \in ScreenNames)
     /\ k.kind = "tab" => k.then \in Tabs}

PlaceOK ==
  /\ hash \in Hashes /\ hashEvents \in Nat
  /\ route \in Routes /\ wfId \in Workflows \cup {None}
ChosenOK ==
  /\ SelectionOK
  /\ orgs \subseteq Orgs /\ apps \subseteq Apps /\ key \in Keys
HeaderOK ==
  header \in [org : Orgs \cup {None}, app : Apps \cup {None}, apps : SUBSET Apps, orgs : SUBSET Orgs]
LiveOK ==
  /\ mode \in Modes /\ timer \in Intervals \cup {None}
  /\ sse \in [org : Orgs, app : Apps \cup {None}] \cup {None}
  /\ debounced \in BOOLEAN
DialogOK ==
  /\ modal \in [kind : {"none", "confirm", "form", "signIn", "step", "payload", "token"},
                what : Operations \cup {None}, app : AppNames]
  /\ modal.kind = "form" => modal.what \in Operations
  /\ pending \in [what : Operations, app : AppNames] \cup {None}
FiltersOK == filters \in [{"audit", "metrics"} -> 0..MaxPage]
LookupOK == wfApp \in AppNames /\ wfMap \in [Workflows -> AppNames]
PanelOK == tab \in Tabs \cup {None} /\ tabShown \in Tabs \cup {None, "loading", "unavailable"}
ContentOK == view \in View /\ tasks \in [Slots -> Job]
EventsOK == events \in 0..MaxEvents

\* The inductive invariant: the types, with Job for Task, and a form that is
\* always the form of an operation.
TypeInv ==
  /\ PlaceOK /\ ChosenOK /\ HeaderOK /\ LiveOK /\ DialogOK /\ FiltersOK
  /\ LookupOK /\ PanelOK /\ ContentOK /\ EventsOK

LEMMA TypeInvTypes ==
  ASSUME TypeInv
  PROVE  ConsoleTypeOK
<1>1. tasks \in [Slots -> Task]
  BY DEF TypeInv, ContentOK, Job
<1> QED
  BY <1>1 DEF TypeInv, PlaceOK, ChosenOK, SelectionOK, HeaderOK, LiveOK, DialogOK, FiltersOK,
              LookupOK, PanelOK, ContentOK, EventsOK, ConsoleTypeOK

LEMMA ScreenRoutes == /\ ScreenNames \subseteq Routes /\ "detail" \in ScreenNames
                      /\ "fleet" \in ScreenNames
                      /\ \A r \in Routes : r # "unknown" => r \in ScreenNames
BY DEF Routes, ScreenNames, Screens

LEMMA IdleIsJob == Idle \in Job
<1>1. 0 \in 0..MaxPage
  BY ConsoleAssumption DEF ConsoleAssumption
<1>2. Idle \in Task
  BY <1>1 DEF Idle, Task, AppNames
<1>3. Idle.kind = "idle"
  BY DEF Idle
<1> QED
  BY <1>2, <1>3 DEF Job

LEMMA OperationFields ==
  ASSUME NEW o \in Operations
  PROVE  /\ o.to \in {"row", "selected", "workflow", "picked", "org"}
         /\ o.then \in {"detail", "navigate", "close", "refresh", "closeRefresh", "token"}
BY DEF Operations, Op, cancelWorkflow, resumeWorkflow, restartWorkflow, sendMessage, pauseSchedule,
   resumeSchedule, triggerSchedule, createAlert, deleteAlertRule, createKey, revokeKey, createRole,
   appSettings, autoscalingPolicy, deleteAutoscalingPolicy

\* A task that is detached stays the task it was.
LEMMA DetachIsJob ==
  ASSUME NEW k \in Job
  PROVE  [k EXCEPT !.live = FALSE] \in Job
<1> DEFINE d == [k EXCEPT !.live = FALSE]
<1>1. d \in Task
  BY DEF Job, Task
<1>2. d.kind = k.kind /\ d.then = k.then /\ d.screen = k.screen /\ d.org = k.org
  BY DEF Job, Task
<1> HIDE DEF d
<1>3. d \in Job
  BY <1>1, <1>2 DEF Job
<1> QED
  BY <1>3 DEF d

LEMMA DetachedAreJobs ==
  ASSUME NEW ts \in [Slots -> Job]
  PROVE  /\ Detached(ts) \in [Slots -> Job]
         /\ Overwritten(ts) \in [Slots -> Job]
         /\ PanelWritten(ts) \in [Slots -> Job]
BY DetachIsJob DEF Detached, Overwritten, PanelWritten

LEMMA TargetAppTyped ==
  ASSUME NEW wa \in AppNames, NEW map \in [Workflows -> AppNames],
         NEW w \in Workflows \cup {None}, NEW a \in AppNames
  PROVE  TargetApp(wa, map, w, a) \in AppNames
BY DEF TargetApp

LEMMA PlainIsView ==
  ASSUME NEW screen \in Routes, NEW kind \in {"loading", "choose"}
  PROVE  Plain(screen, kind) \in View
<1>1. 0 \in 0..MaxPage
  BY ConsoleAssumption DEF ConsoleAssumption
<1> QED
  BY <1>1 DEF Plain, View, AppNames

LEMMA RequestIsJob ==
  ASSUME NEW kind \in {"apps", "load", "search"}, NEW screen \in ScreenNames, NEW a \in AppNames,
         ChosenOK', FiltersOK, FiltersOK', wfId' \in Workflows \cup {None}
  PROVE  Request(kind, screen, a) \in Job
<1> DEFINE r == Request(kind, screen, a)
           as == IF a # None THEN {a} ELSE IF "app" \in Screens[screen].scope THEN apps' ELSE {}
           w == IF screen = "detail" THEN wfId' ELSE None
           p == IF screen \in DOMAIN filters THEN filters'[screen] ELSE 0
<1>1. as \in SUBSET AppNames
  BY DEF ChosenOK, AppNames
<1>2. w \in Workflows \cup {None}
  OBVIOUS
<1>3. p \in 0..MaxPage
  BY ConsoleAssumption DEF FiltersOK, ConsoleAssumption
<1>4. org' \in Orgs
  BY DEF ChosenOK, SelectionOK
<1> HIDE DEF as, w, p
<1>5. r = [Idle EXCEPT !.kind = kind, !.screen = screen, !.live = TRUE, !.org = org', !.app = a,
                        !.apps = as, !.wf = w, !.page = p]
  BY DEF Request, as, w, p
<1> HIDE DEF r
<1>6. r \in Task
  BY <1>1, <1>2, <1>3, <1>4, <1>5, IdleIsJob DEF Job, Task
<1>7. r.kind = kind /\ r.screen = screen /\ r.org = org'
  BY <1>5, IdleIsJob DEF Job, Task
<1>8. r \in Job
  BY <1>4, <1>6, <1>7 DEF Job
<1> QED
  BY <1>8 DEF r

LEMMA FirstRequestIsJob ==
  ASSUME NEW screen \in ScreenNames, NEW target \in AppNames, NEW r \in FirstRequests(screen, target),
         ChosenOK', FiltersOK, FiltersOK', wfId' \in Workflows \cup {None}
  PROVE  r \in Job
<1>0. apps' \subseteq AppNames /\ app' \in AppNames /\ None \in AppNames
  BY DEF ChosenOK, SelectionOK, AppNames
<1>1. CASE \E a \in AppNames : r = Request("load", screen, a)
  BY <1>1, RequestIsJob
<1>2. CASE r = [Request("apps", screen, None) EXCEPT !.then = "fleet"]
  <2> DEFINE q == Request("apps", screen, None)
  <2>1. q \in Job
    BY <1>0, RequestIsJob
  <2>2. q.kind = "apps" /\ q.screen = screen /\ q.org = org'
    BY RequestFits
  <2> HIDE DEF q
  <2>3. r = [q EXCEPT !.then = "fleet"]
    BY <1>2 DEF q
  <2>4. r \in Task
    BY <2>1, <2>3 DEF Job, Task
  <2>5. r.kind = "apps" /\ r.screen = screen /\ r.org = org'
    BY <2>1, <2>2, <2>3 DEF Job, Task
  <2>6. org' \in Orgs
    BY DEF ChosenOK, SelectionOK
  <2> QED
    BY <2>4, <2>5, <2>6 DEF Job
<1>3. CASE \E a \in apps' : r = [Request("search", screen, a) EXCEPT !.apps = apps' \ {a}]
  <2>1. PICK a \in apps' : r = [Request("search", screen, a) EXCEPT !.apps = apps' \ {a}]
    BY <1>3
  <2> DEFINE q == Request("search", screen, a)
  <2>2. q \in Job
    BY <1>0, RequestIsJob
  <2>3. q.kind = "search" /\ q.screen = screen
    BY RequestFits
  <2> HIDE DEF q
  <2>4. r = [q EXCEPT !.apps = apps' \ {a}]
    BY <2>1 DEF q
  <2>5. r \in Task
    BY <1>0, <2>2, <2>4 DEF Job, Task
  <2>6. r.kind = "search" /\ r.screen = screen
    BY <2>2, <2>3, <2>4 DEF Job, Task
  <2> QED
    BY <2>5, <2>6 DEF Job
<1> QED
  BY <1>0, <1>1, <1>2, <1>3 DEF FirstRequests

\* Rendering a screen keeps the types of all it writes.
LEMMA RenderScreenTyped ==
  ASSUME NEW ts \in [Slots -> Job], NEW s \in Slots, NEW screen \in Routes, NEW silent \in BOOLEAN,
         NEW wa \in AppNames, ChosenOK', FiltersOK, FiltersOK', wfId' \in Workflows \cup {None},
         wfMap' \in [Workflows -> AppNames], view \in View, PanelOK,
         RenderScreen(ts, s, screen, silent, wa)
  PROVE  LookupOK' /\ PanelOK' /\ ContentOK'
<1> DEFINE known == TargetApp(wa, wfMap', wfId', app')
           target == IF known = None /\ apps' = {} THEN "default" ELSE known
           asks == screen = "unknown" \/ (Screens[screen].needsApp /\ app' = None)
<1>1. target \in AppNames
  <2>1. app' \in AppNames
    BY DEF ChosenOK, SelectionOK, AppNames
  <2>2. known \in AppNames
    BY <2>1, TargetAppTyped
  <2> QED
    BY <2>2 DEF AppNames
<1>2. wfApp' = IF screen = "detail" /\ target # None THEN target ELSE wa
  BY DEF RenderScreen
<1>3. LookupOK'
  BY <1>1, <1>2 DEF LookupOK
<1>4. PanelOK'
  BY DEF RenderScreen, PanelOK, panel
<1>5. view' \in View
  BY PlainIsView DEF RenderScreen
<1>6. tasks' \in [Slots -> Job]
  <2>1. Overwritten(ts) \in [Slots -> Job]
    BY DetachedAreJobs
  <2>2. CASE asks
    BY <2>1, <2>2, IdleIsJob DEF RenderScreen
  <2>3. CASE ~asks
    <3>1. screen \in ScreenNames
      BY <2>3, ScreenRoutes
    <3>2. PICK r \in FirstRequests(screen, target) :
            tasks' = [(IF silent THEN ts ELSE Overwritten(ts)) EXCEPT ![s] = r]
      BY <2>3 DEF RenderScreen
    <3>3. r \in Job
      BY <1>1, <3>1, FirstRequestIsJob
    <3> QED
      BY <2>1, <3>2, <3>3
  <2> QED
    BY <2>2, <2>3
<1> QED
  BY <1>3, <1>4, <1>5, <1>6 DEF ContentOK

\* The parts of the page that a step which renders leaves to render() or to
\* renderContentView().
Written == LookupOK /\ PanelOK /\ ContentOK

LEMMA RenderTyped ==
  ASSUME NEW s \in Slots, TypeInv, ChosenOK', PlaceOK', UNCHANGED <<filters, pending, wfMap>>, render(s)
  PROVE  Written' /\ HeaderOK' /\ DialogOK' /\ FiltersOK'
<1>1. FiltersOK'
  BY DEF TypeInv, FiltersOK
<1>2. HeaderOK'
  BY DEF render, HeaderOK, ChosenOK, SelectionOK
<1>3. DialogOK'
  BY DEF render, TypeInv, DialogOK, NoModal, AppNames
<1>4. Detached(tasks) \in [Slots -> Job]
  BY DetachedAreJobs DEF TypeInv, ContentOK
<1>5. RenderScreen(Detached(tasks), s, route', FALSE, wfApp)
  BY DEF render, renderContentView
<1>6. Written'
  BY <1>1, <1>4, <1>5, RenderScreenTyped DEF TypeInv, PlaceOK, LookupOK, ContentOK, Written
<1> QED
  BY <1>1, <1>2, <1>3, <1>6

LEMMA RefillTyped ==
  ASSUME NEW s \in Slots, NEW screen \in Routes, NEW silent \in BOOLEAN, TypeInv, ChosenOK', FiltersOK',
         UNCHANGED <<wfId, wfMap>>, RenderScreen(tasks, s, screen, silent, wfApp)
  PROVE  Written'
BY RenderScreenTyped DEF TypeInv, PlaceOK, LookupOK, ContentOK, Written

\* Slot s gets task r, and nothing else of the content view changes.
LEMMA SlotTyped ==
  ASSUME NEW s \in Slots, NEW r \in Job, TypeInv, view' = view,
         \/ tasks' = [tasks EXCEPT ![s] = r]
         \/ tasks' = [PanelWritten(tasks) EXCEPT ![s] = r]
  PROVE  ContentOK'
BY DetachedAreJobs DEF TypeInv, ContentOK

LEMMA OrgsTyped ==
  ASSUME NEW s \in Slots, TypeInv, OrgsAnswer(s)
  PROVE  TypeInv'
<1>1. /\ UNCHANGED <<hash, hashEvents, route, wfId, app, apps, storedApp, key, pending, filters, wfMap>>
      /\ UNCHANGED <<mode, timer, sse, debounced, events>>
  BY DEF OrgsAnswer, place, liveVars
<1>2. PlaceOK' /\ LiveOK' /\ FiltersOK' /\ EventsOK'
  BY <1>1 DEF TypeInv, PlaceOK, LiveOK, FiltersOK, EventsOK
<1>3. org' \in Orgs /\ storedOrg' \in Orgs \cup {None} /\ orgs' \subseteq Orgs
  BY ConsoleAssumption
  DEF OrgsAnswer, PreferredOrgs, TypeInv, ChosenOK, SelectionOK, ConsoleAssumption
<1>4. ChosenOK'
  BY <1>1, <1>3 DEF TypeInv, ChosenOK, SelectionOK
<1>5. CASE render(s)
  BY <1>1, <1>2, <1>4, <1>5, RenderTyped DEF TypeInv, Written
<1>6. CASE /\ tasks' = [tasks EXCEPT ![s] =
                 [Idle EXCEPT !.kind = "apps", !.then = "init", !.org = org']]
           /\ UNCHANGED <<header, modal, view, wfApp, panel>>
  <2> DEFINE r == [Idle EXCEPT !.kind = "apps", !.then = "init", !.org = org']
  <2>1. r \in Task
    BY <1>3, IdleIsJob DEF Job, Task
  <2>2. r.kind = "apps" /\ r.then = "init" /\ r.org = org'
    BY DEF Idle
  <2> HIDE DEF r
  <2>3. r \in Job
    BY <1>3, <2>1, <2>2 DEF Job
  <2>4. tasks' = [tasks EXCEPT ![s] = r]
    BY <1>6 DEF r
  <2>5. ContentOK'
    BY <1>6, <2>3, <2>4, SlotTyped
  <2>6. HeaderOK' /\ DialogOK' /\ LookupOK' /\ PanelOK'
    BY <1>1, <1>6 DEF TypeInv, HeaderOK, DialogOK, LookupOK, PanelOK, panel
  <2> QED
    BY <1>2, <1>4, <2>5, <2>6 DEF TypeInv
<1> QED
  BY <1>5, <1>6 DEF OrgsAnswer

LEMMA StartTyped ==
  ASSUME NEW t \in Intervals \cup {None}, ChosenOK', startSSE(t)
  PROVE  mode' \in Modes /\ timer' \in Intervals \cup {None}
         /\ sse' \in [org : Orgs, app : Apps \cup {None}] \cup {None}
BY DEF startSSE, ChosenOK, SelectionOK, Modes, Intervals

\* A stream that is open is opened again; nothing else of the source changes.
LEMMA RestartTyped ==
  ASSUME TypeInv, ChosenOK', debounced' = debounced,
         IF mode = "stream" THEN startSSE(timer) ELSE UNCHANGED <<mode, timer, sse>>
  PROVE  LiveOK'
BY StartTyped DEF TypeInv, LiveOK

LEMMA RoutingTyped ==
  ASSUME NEW h \in Hashes, PlaceOK
  PROVE  /\ h.route \in Routes
         /\ (IF h.route = "detail" THEN h.wf ELSE wfId) \in Workflows \cup {None}
BY ConsoleAssumption, ScreenRoutes DEF Hashes, PlaceOK, ConsoleAssumption

LEMMA AppsTyped ==
  ASSUME NEW s \in Slots, TypeInv, AppsAnswer(s)
  PROVE  TypeInv'
<1>1. /\ UNCHANGED <<hash, hashEvents, org, orgs, storedOrg, storedApp, key, debounced>>
      /\ UNCHANGED <<pending, filters, wfMap, events>>
  BY DEF AppsAnswer
<1>2. FiltersOK' /\ EventsOK'
  BY <1>1 DEF TypeInv, FiltersOK, EventsOK
<1>3. tasks[s] \in Job /\ tasks[s].kind = "apps"
  BY DEF TypeInv, ContentOK, AppsAnswer
<1>4. tasks[s].org \in Orgs
  BY <1>3 DEF Job
<1>5. Registered[tasks[s].org] \subseteq Apps
  BY <1>4, ConsoleAssumption DEF ConsoleAssumption
<1>6. apps' \subseteq Apps /\ app' \in Apps \cup {None}
  BY <1>5 DEF AppsAnswer, ApplicationsLoaded, TypeInv, ChosenOK, SelectionOK
<1>7. ChosenOK'
  BY <1>1, <1>6 DEF TypeInv, ChosenOK, SelectionOK
<1>8. CASE handleRouting(s) /\ UNCHANGED <<mode, timer, sse>>
  <2>1. PlaceOK'
    BY <1>1, <1>8, RoutingTyped DEF handleRouting, TypeInv, PlaceOK
  <2>2. LiveOK'
    BY <1>1, <1>8 DEF TypeInv, LiveOK
  <2>3. render(s)
    BY <1>8 DEF handleRouting
  <2> QED
    BY <1>1, <1>2, <1>7, <2>1, <2>2, <2>3, RenderTyped DEF TypeInv, Written
<1>9. CASE RenderedForOrg(s)
  <2>1. PlaceOK'
    BY <1>1, <1>9 DEF RenderedForOrg, TypeInv, PlaceOK
  <2>2. LiveOK'
    BY <1>1, <1>7, <1>9, RestartTyped DEF RenderedForOrg
  <2>3. render(s)
    BY <1>9 DEF RenderedForOrg
  <2> QED
    BY <1>1, <1>2, <1>7, <2>1, <2>2, <2>3, RenderTyped DEF TypeInv, Written
<1>10. CASE /\ tasks[s].then = "fleet"
            /\ tasks' = [tasks EXCEPT ![s] =
                 [@ EXCEPT !.kind = "load", !.then = None, !.org = org, !.app = app',
                           !.apps = IF app' # None THEN {app'} ELSE apps']]
            /\ UNCHANGED <<route, wfId, mode, timer, sse, header, modal, view, wfApp, panel>>
  <2> DEFINE as == IF app' # None THEN {app'} ELSE apps'
             r == [tasks[s] EXCEPT !.kind = "load", !.then = None, !.org = org, !.app = app', !.apps = as]
  <2>1. as \in SUBSET AppNames /\ app' \in AppNames /\ org \in Orgs
    BY <1>6 DEF AppNames, TypeInv, ChosenOK, SelectionOK
  <2>2. tasks' = [tasks EXCEPT ![s] = r]
    BY <1>10 DEF TypeInv, ContentOK
  <2> HIDE DEF as
  <2>3. r \in Task
    BY <1>3, <2>1 DEF Job, Task
  <2>4. r.kind = "load" /\ r.screen = tasks[s].screen
    BY <1>3 DEF Job, Task
  <2>5. tasks[s].screen \in ScreenNames
    BY <1>3, <1>10 DEF Job
  <2> HIDE DEF r
  <2>6. r \in Job
    BY <2>3, <2>4, <2>5 DEF Job
  <2>7. ContentOK'
    BY <1>10, <2>2, <2>6, SlotTyped
  <2>8. PlaceOK' /\ LiveOK' /\ HeaderOK' /\ DialogOK' /\ LookupOK' /\ PanelOK'
    BY <1>1, <1>10 DEF TypeInv, PlaceOK, LiveOK, HeaderOK, DialogOK, LookupOK, PanelOK, panel
  <2> QED
    BY <1>2, <1>7, <2>7, <2>8 DEF TypeInv
<1> QED
  BY <1>8, <1>9, <1>10 DEF AppsAnswer

LEMMA PresentationTyped ==
  ASSUME NEW screen, NEW e, NEW inAll
  PROVE  Presentation(screen, e, inAll) \in {"data", "signIn", "offline", "error"}
BY DEF Presentation

LEMMA RecordedTyped ==
  ASSUME NEW k, TypeInv
  PROVE  Recorded(k) \in [Workflows -> AppNames]
<1>1. \A w \in Workflows : Owner[w].app \in AppNames /\ wfMap[w] \in AppNames
  BY ConsoleAssumption DEF ConsoleAssumption, AppNames, TypeInv, LookupOK
<1>2. app \in AppNames
  BY DEF TypeInv, ChosenOK, SelectionOK, AppNames
<1> QED
  BY <1>1, <1>2 DEF Recorded

LEMMA LoadTyped ==
  ASSUME NEW s \in Slots, TypeInv, LoadAnswer(s)
  PROVE  TypeInv'
<1> DEFINE k == tasks[s]
<1>1. UNCHANGED <<place, selection, header, liveVars, dialog, filters, wfApp, events>>
  BY DEF LoadAnswer
<1>2. PlaceOK' /\ ChosenOK' /\ HeaderOK' /\ LiveOK' /\ DialogOK' /\ FiltersOK' /\ EventsOK'
  BY <1>1 DEF place, selection, liveVars, dialog, TypeInv, PlaceOK, ChosenOK, SelectionOK, HeaderOK,
              LiveOK, DialogOK, FiltersOK, EventsOK
<1>3. k \in Job /\ k.kind = "load"
  BY DEF TypeInv, ContentOK, LoadAnswer
<1>4. LookupOK'
  BY <1>1, RecordedTyped DEF LoadAnswer, TypeInv, LookupOK
<1>5. PanelOK'
  BY DEF LoadAnswer, TypeInv, PanelOK, panel, Tabs
<1>6. tasks' \in [Slots -> Job]
  BY IdleIsJob, DetachedAreJobs DEF LoadAnswer, TypeInv, ContentOK
<1>7. view' \in View
  <2>1. CASE view' = view
    BY <2>1 DEF TypeInv, ContentOK
  <2>2. ASSUME NEW e \in Faults \cup {IF Exists(k) THEN None ELSE "missing"},
               view' = [screen |-> k.screen, error |-> e,
                      kind |-> IF e = None THEN "data" ELSE Presentation(k.screen, e, k.app = None),
                      org |-> k.org, app |-> k.app, apps |-> k.apps,
                      label |-> IF Screens[k.screen].relabels /\ k.app # None THEN app ELSE k.app,
                      wf |-> k.wf, page |-> k.page]
        PROVE  view' \in View
    <3> DEFINE kind == IF e = None THEN "data" ELSE Presentation(k.screen, e, k.app = None)
               label == IF Screens[k.screen].relabels /\ k.app # None THEN app ELSE k.app
    <3>1. e \in ErrorClasses \cup {None}
      BY ConsoleAssumption DEF ConsoleAssumption, ErrorClasses
    <3>2. k.screen \in Routes
      BY <1>3, ScreenRoutes DEF Job
    <3>3. kind \in {"loading", "choose", "data", "signIn", "offline", "error"}
      BY PresentationTyped
    <3>4. /\ k.org \in Orgs \cup {None} /\ k.app \in AppNames /\ k.apps \in SUBSET AppNames
          /\ k.wf \in Workflows \cup {None} /\ k.page \in 0..MaxPage
      BY <1>3 DEF Job, Task
    <3>5. label \in AppNames
      BY <3>4 DEF TypeInv, ChosenOK, SelectionOK, AppNames
    <3> HIDE DEF kind, label
    <3>6. view' = [screen |-> k.screen, error |-> e, kind |-> kind, org |-> k.org, app |-> k.app,
                   apps |-> k.apps, label |-> label, wf |-> k.wf, page |-> k.page]
      BY <2>2 DEF kind, label
    <3> QED
      BY <3>1, <3>2, <3>3, <3>4, <3>5, <3>6 DEF View
  <2> QED
    BY <2>1, <2>2 DEF LoadAnswer
<1> QED
  BY <1>2, <1>4, <1>5, <1>6, <1>7 DEF TypeInv, ContentOK

LEMMA DetailTyped ==
  ASSUME NEW s \in Slots, TypeInv, DetailAnswer(s)
  PROVE  TypeInv'
<1> DEFINE k == tasks[s]
           r == [k EXCEPT !.then = "steps", !.org = org, !.wf = wfId]
<1>1. UNCHANGED <<place, selection, header, liveVars, dialog, filters, lookup, panel, view, events>>
  BY DEF DetailAnswer
<1>2. /\ PlaceOK' /\ ChosenOK' /\ HeaderOK' /\ LiveOK' /\ DialogOK' /\ FiltersOK' /\ LookupOK'
      /\ PanelOK' /\ EventsOK'
  BY <1>1 DEF place, selection, liveVars, dialog, lookup, panel, TypeInv, PlaceOK, ChosenOK,
              SelectionOK, HeaderOK, LiveOK, DialogOK, FiltersOK, LookupOK, PanelOK, EventsOK
<1>3. k \in Task /\ k.screen \in ScreenNames /\ k.kind = "load"
  BY DEF TypeInv, ContentOK, DetailAnswer, Job
<1>4. org \in Orgs /\ wfId \in Workflows \cup {None}
  BY DEF TypeInv, ChosenOK, SelectionOK, PlaceOK
<1>5. r \in Task /\ r.kind = "load" /\ r.screen = k.screen
  BY <1>3, <1>4 DEF Task
<1>6. tasks' = [tasks EXCEPT ![s] = r]
  BY DEF DetailAnswer
<1> HIDE DEF r
<1>7. r \in Job
  BY <1>3, <1>5 DEF Job
<1>8. ContentOK'
  BY <1>1, <1>6, <1>7, SlotTyped
<1> QED
  BY <1>2, <1>8 DEF TypeInv

LEMMA SearchTyped ==
  ASSUME NEW s \in Slots, TypeInv, SearchAnswer(s)
  PROVE  TypeInv'
<1> DEFINE k == tasks[s]
           Load(a) == [k EXCEPT !.kind = "load", !.org = org, !.app = a, !.apps = {a}, !.wf = wfId]
           Retry(a) == [k EXCEPT !.org = org, !.app = a, !.apps = @ \ {a}, !.wf = wfId]
           fallback == IF app # None THEN {app} ELSE IF apps # {} THEN apps ELSE {"default"}
<1>1. UNCHANGED <<place, selection, header, liveVars, dialog, filters, panel, view, events>>
  BY DEF SearchAnswer
<1>2. /\ PlaceOK' /\ ChosenOK' /\ HeaderOK' /\ LiveOK' /\ DialogOK' /\ FiltersOK' /\ PanelOK'
      /\ EventsOK'
  BY <1>1 DEF place, selection, liveVars, dialog, panel, TypeInv, PlaceOK, ChosenOK, SelectionOK,
              HeaderOK, LiveOK, DialogOK, FiltersOK, PanelOK, EventsOK
<1>3. k \in Job /\ k.kind = "search"
  BY DEF TypeInv, ContentOK, SearchAnswer
<1>4. /\ k \in Task /\ k.screen \in ScreenNames /\ k.app \in AppNames /\ k.apps \in SUBSET AppNames
      /\ k.then \in {None, "init", "render", "orgSwitch", "fleet", "steps", "io", "events", "notifications",
                 "detail", "navigate", "close", "refresh", "closeRefresh", "token"}
  BY <1>3 DEF Job, Task
<1>5. fallback \subseteq AppNames /\ org \in Orgs /\ wfId \in Workflows \cup {None}
  BY DEF TypeInv, ChosenOK, SelectionOK, PlaceOK, AppNames
<1>6. ASSUME NEW a \in AppNames
      PROVE  Load(a) \in Job
  <2>1. Load(a) \in Task
    BY <1>4, <1>5 DEF Task
  <2>2. Load(a).kind = "load" /\ Load(a).screen = k.screen
    BY <1>4 DEF Task
  <2> HIDE DEF Load
  <2> QED
    BY <1>4, <2>1, <2>2 DEF Job
<1>7. ASSUME NEW a \in AppNames
      PROVE  Retry(a) \in Job
  <2>1. Retry(a) \in Task
    BY <1>4, <1>5 DEF Task
  <2>2. Retry(a).kind = "search" /\ Retry(a).screen = k.screen
    BY <1>3, <1>4 DEF Task
  <2> HIDE DEF Retry
  <2> QED
    BY <1>4, <2>1, <2>2 DEF Job
<1>8. CASE /\ wfMap' = [wfMap EXCEPT ![wfId] = k.app] /\ wfApp' = k.app
           /\ tasks' = [tasks EXCEPT ![s] = Load(k.app)]
  <2>1. LookupOK'
    BY <1>4, <1>8 DEF TypeInv, LookupOK
  <2>2. ContentOK'
    BY <1>1, <1>4, <1>6, <1>8, SlotTyped
  <2> QED
    BY <1>2, <2>1, <2>2 DEF TypeInv
<1>9. CASE (\E a \in k.apps : tasks' = [tasks EXCEPT ![s] = Retry(a)]) /\ UNCHANGED lookup
  <2>1. LookupOK'
    BY <1>9 DEF TypeInv, LookupOK, lookup
  <2>2. PICK a \in AppNames : tasks' = [tasks EXCEPT ![s] = Retry(a)]
    BY <1>4, <1>9
  <2>3. ContentOK'
    BY <1>1, <1>7, <2>2, SlotTyped
  <2> QED
    BY <1>2, <2>1, <2>3 DEF TypeInv
<1>10. CASE /\ \E a \in fallback : wfApp' = a /\ tasks' = [tasks EXCEPT ![s] = Load(a)]
            /\ UNCHANGED wfMap
  <2>1. PICK a \in AppNames : wfApp' = a /\ tasks' = [tasks EXCEPT ![s] = Load(a)]
    BY <1>5, <1>10
  <2>2. LookupOK'
    BY <1>10, <2>1 DEF TypeInv, LookupOK
  <2>3. ContentOK'
    BY <1>1, <1>6, <2>1, SlotTyped
  <2> QED
    BY <1>2, <2>2, <2>3 DEF TypeInv
<1> QED
  BY <1>8, <1>9, <1>10 DEF SearchAnswer

\* Where navigate() goes, the hash stays one the console knows.
LEMMA NavigateTyped ==
  ASSUME NEW h \in Hashes, PlaceOK, UNCHANGED <<route, wfId>>, navigate(h)
  PROVE  PlaceOK'
BY DEF PlaceOK, navigate

LEMMA DetailHash ==
  ASSUME NEW w \in Workflows
  PROVE  [route |-> "detail", wf |-> w] \in Hashes
BY DEF Hashes

LEMMA OperationTyped ==
  ASSUME NEW s \in Slots, TypeInv, OperationAnswer(s)
  PROVE  TypeInv'
<1> DEFINE k == tasks[s]
<1>1. UNCHANGED <<route, wfId, selection, header, liveVars, pending, filters, events>>
  BY DEF OperationAnswer
<1>2. ChosenOK' /\ HeaderOK' /\ LiveOK' /\ FiltersOK' /\ EventsOK'
  BY <1>1 DEF selection, liveVars, TypeInv, ChosenOK, SelectionOK, HeaderOK, LiveOK, FiltersOK, EventsOK
<1>3. k.app \in AppNames
  BY DEF TypeInv, ContentOK, Job, Task
<1>4. DialogOK'
  <2>1. modal' = modal \/ modal' = NoModal \/ modal' = [NoModal EXCEPT !.kind = "token"]
    BY DEF OperationAnswer
  <2> QED
    BY <1>1, <2>1 DEF TypeInv, DialogOK, NoModal, AppNames
<1>5. CASE /\ UNCHANGED <<hash, hashEvents, wfMap>>
           /\ \E screen \in {route', "detail"} : RenderScreen(tasks, s, screen, FALSE, wfApp)
  <2>1. PlaceOK'
    BY <1>1, <1>5 DEF TypeInv, PlaceOK
  <2>2. PICK screen \in Routes : RenderScreen(tasks, s, screen, FALSE, wfApp)
    BY <1>5, <2>1, ScreenRoutes DEF PlaceOK
  <2>3. Written'
    BY <1>1, <1>2, <1>5, <2>2, RefillTyped
  <2> QED
    BY <1>2, <1>4, <2>1, <2>3 DEF TypeInv, Written
<1>6. CASE /\ \E w \in Workflows : /\ wfMap' = [wfMap EXCEPT ![w] = k.app]
                                   /\ navigate([route |-> "detail", wf |-> w])
           /\ wfApp' = k.app /\ tasks' = [tasks EXCEPT ![s] = Idle] /\ UNCHANGED <<view, panel>>
  <2>1. PlaceOK'
    BY <1>1, <1>6, DetailHash, NavigateTyped DEF TypeInv
  <2>2. LookupOK'
    BY <1>3, <1>6 DEF TypeInv, LookupOK
  <2>3. ContentOK' /\ PanelOK'
    BY <1>6, IdleIsJob, SlotTyped DEF TypeInv, PanelOK, panel
  <2> QED
    BY <1>2, <1>4, <2>1, <2>2, <2>3 DEF TypeInv
<1>7. CASE tasks' = [tasks EXCEPT ![s] = Idle] /\ UNCHANGED <<hash, hashEvents, lookup, view, panel>>
  <2>1. PlaceOK' /\ LookupOK'
    BY <1>1, <1>7 DEF TypeInv, PlaceOK, LookupOK, lookup
  <2>2. ContentOK' /\ PanelOK'
    BY <1>7, IdleIsJob, SlotTyped DEF TypeInv, PanelOK, panel
  <2> QED
    BY <1>2, <1>4, <2>1, <2>2 DEF TypeInv
<1> QED
  BY <1>5, <1>6, <1>7 DEF OperationAnswer, renderContentView

LEMMA TabTyped ==
  ASSUME NEW s \in Slots, TypeInv, TabAnswer(s)
  PROVE  TypeInv'
<1>1. UNCHANGED <<place, selection, header, liveVars, dialog, filters, lookup, tab, view, events>>
  BY DEF TabAnswer
<1>2. /\ PlaceOK' /\ ChosenOK' /\ HeaderOK' /\ LiveOK' /\ DialogOK' /\ FiltersOK' /\ LookupOK'
      /\ EventsOK'
  BY <1>1 DEF place, selection, liveVars, dialog, lookup, TypeInv, PlaceOK, ChosenOK, SelectionOK,
              HeaderOK, LiveOK, DialogOK, FiltersOK, LookupOK, EventsOK
<1>3. tasks[s].then \in Tabs
  BY DEF TypeInv, ContentOK, TabAnswer, Job
<1>4. PanelOK'
  BY <1>1, <1>3 DEF TypeInv, PanelOK, TabAnswer
<1>5. ContentOK'
  BY <1>1, IdleIsJob, SlotTyped DEF TabAnswer
<1> QED
  BY <1>2, <1>4, <1>5 DEF TypeInv

LEMMA AnswerTyped ==
  ASSUME NEW s \in Slots, TypeInv, Answer(s)
  PROVE  TypeInv'
BY OrgsTyped, AppsTyped, DetailTyped, LoadTyped, SearchTyped, OperationTyped, TabTyped DEF Answer

LEMMA HashChangeTyped ==
  ASSUME NEW s \in Slots, TypeInv, HashChange(s)
  PROVE  TypeInv'
<1>1. UNCHANGED <<hash, selection, liveVars, pending, filters, wfMap, events>>
  BY DEF HashChange
<1>2. ChosenOK' /\ LiveOK' /\ EventsOK'
  BY <1>1 DEF selection, liveVars, TypeInv, ChosenOK, SelectionOK, LiveOK, EventsOK
<1>3. PlaceOK'
  <2>1. hashEvents' \in Nat
    BY DEF HashChange, TypeInv, PlaceOK
  <2> QED
    BY <1>1, <2>1, RoutingTyped DEF HashChange, handleRouting, TypeInv, PlaceOK
<1>4. render(s)
  BY DEF HashChange, handleRouting
<1> QED
  BY <1>1, <1>2, <1>3, <1>4, RenderTyped DEF TypeInv, Written

LEMMA EventTyped ==
  ASSUME NEW u, EventsOK, Event(u)
  PROVE  EventsOK'
BY ConsoleAssumption DEF EventsOK, Event, ConsoleAssumption

\* The content view is filled again, and little else changes.
LEMMA FilledTyped ==
  ASSUME NEW s \in Slots, NEW silent \in BOOLEAN, TypeInv, UNCHANGED <<place, wfMap>>, ChosenOK',
         HeaderOK', LiveOK', DialogOK', FiltersOK', EventsOK', renderContentView(tasks, s, silent, wfApp)
  PROVE  TypeInv'
<1>1. PlaceOK' /\ wfId' = wfId /\ route' \in Routes
  BY DEF TypeInv, PlaceOK, place
<1>2. Written'
  BY <1>1, RefillTyped DEF renderContentView
<1> QED
  BY <1>1, <1>2 DEF TypeInv, Written

LEMMA PollTyped ==
  ASSUME NEW s \in Slots, TypeInv, LiveOK', EventsOK', poll(s)
  PROVE  TypeInv'
<1>1. UNCHANGED <<place, selection, header, dialog, filters, wfMap>>
  BY DEF poll
<1>2. ChosenOK' /\ HeaderOK' /\ DialogOK' /\ FiltersOK'
  BY <1>1 DEF selection, dialog, TypeInv, ChosenOK, SelectionOK, HeaderOK, DialogOK, FiltersOK
<1> QED
  BY <1>1, <1>2, FilledTyped DEF poll

LEMMA TickTyped ==
  ASSUME NEW s \in Slots, TypeInv, Tick(s)
  PROVE  TypeInv'
<1>1. LiveOK'
  BY DEF Tick, TypeInv, LiveOK, liveVars
<1>2. EventsOK'
  BY EventTyped DEF Tick, TypeInv
<1> QED
  BY <1>1, <1>2, PollTyped DEF Tick

LEMMA DebouncedTyped ==
  ASSUME NEW s \in Slots, TypeInv, Debounced(s)
  PROVE  TypeInv'
<1>1. LiveOK' /\ EventsOK'
  BY DEF Debounced, TypeInv, LiveOK, EventsOK
<1>2. CASE poll(s)
  BY <1>1, <1>2, PollTyped
<1>3. CASE UNCHANGED <<place, selection, header, dialog, filters, lookup, panel, view, tasks>>
  BY <1>1, <1>3
  DEF place, selection, dialog, lookup, panel, TypeInv, PlaceOK, ChosenOK, SelectionOK, HeaderOK,
      DialogOK, FiltersOK, LookupOK, PanelOK, ContentOK
<1> QED
  BY <1>2, <1>3 DEF Debounced

LEMMA SentIsJob ==
  ASSUME NEW o \in Operations, NEW a \in AppNames, org \in Orgs
  PROVE  Sent(o, a) \in Job
<1>1. o.then \in {"detail", "navigate", "close", "refresh", "closeRefresh", "token"}
  BY OperationFields
<1>2. Sent(o, a) \in Task
  BY <1>1, IdleIsJob DEF Sent, Job, Task
<1>3. Sent(o, a).kind = "operation"
  BY DEF Sent, Idle
<1> QED
  BY <1>2, <1>3 DEF Job

LEMMA TargetsTyped ==
  ASSUME NEW o \in Operations, TypeInv
  PROVE  Targets(o) \subseteq AppNames
<1>1. RowApps \subseteq AppNames
  BY DEF RowApps, TypeInv, ContentOK, View, ChosenOK, SelectionOK, AppNames
<1>2. app \in AppNames /\ apps \subseteq AppNames /\ None \in AppNames
  BY DEF TypeInv, ChosenOK, SelectionOK, AppNames
<1>3. TargetApp(wfApp, wfMap, wfId, app) \in AppNames
  BY <1>2, TargetAppTyped DEF TypeInv, LookupOK, PlaceOK
<1> QED
  BY <1>1, <1>2, <1>3, OperationFields DEF Targets

\* A request that draws nothing begins, and the rest of the page is as it was.
LEMMA BegunTyped ==
  ASSUME NEW s \in Slots, NEW r \in Job, TypeInv, ChosenOK', HeaderOK', DialogOK', EventsOK',
         UNCHANGED <<place, liveVars, filters, lookup, panel, view>>,
         tasks' = [tasks EXCEPT ![s] = r]
  PROVE  TypeInv'
<1>1. PlaceOK' /\ LiveOK' /\ FiltersOK' /\ LookupOK' /\ PanelOK'
  BY DEF place, liveVars, lookup, panel, TypeInv, PlaceOK, LiveOK, FiltersOK, LookupOK, PanelOK
<1>2. ContentOK'
  BY SlotTyped
<1> QED
  BY <1>1, <1>2 DEF TypeInv

LEMMA DialogsTyped ==
  ASSUME NEW s \in Slots, TypeInv, executePendingConfirm(s) \/ SubmitForm(s)
  PROVE  TypeInv'
<1>1. EventsOK'
  BY EventTyped DEF executePendingConfirm, SubmitForm, TypeInv
<1>2. UNCHANGED <<place, selection, header, liveVars, filters, lookup, panel, view>>
  BY DEF executePendingConfirm, SubmitForm
<1>3. ChosenOK' /\ HeaderOK' /\ org \in Orgs
  BY <1>2 DEF selection, TypeInv, ChosenOK, SelectionOK, HeaderOK
<1>4. DialogOK'
  BY DEF executePendingConfirm, SubmitForm, dialog, NoModal, AppNames, TypeInv, DialogOK
<1>5. CASE executePendingConfirm(s) /\ pending = None
  BY <1>1, <1>2, <1>3, <1>4, <1>5
  DEF executePendingConfirm, place, liveVars, lookup, panel, TypeInv, PlaceOK, LiveOK, FiltersOK,
      LookupOK, PanelOK, ContentOK
<1>6. CASE executePendingConfirm(s) /\ pending # None
  <2>1. pending.what \in Operations /\ pending.app \in AppNames
    BY <1>6 DEF TypeInv, DialogOK
  <2>2. Sent(pending.what, pending.app) \in Job
    BY <1>3, <2>1, SentIsJob
  <2> QED
    BY <1>1, <1>2, <1>3, <1>4, <1>6, <2>2, BegunTyped DEF executePendingConfirm
<1>7. CASE SubmitForm(s)
  <2>1. modal.what \in Operations
    BY <1>7 DEF SubmitForm, TypeInv, DialogOK
  <2>2. PICK a \in AppNames : tasks' = [tasks EXCEPT ![s] = Sent(modal.what, a)]
    BY <1>7, <2>1, TargetsTyped DEF SubmitForm
  <2>3. Sent(modal.what, a) \in Job
    BY <1>3, <2>1, SentIsJob
  <2> QED
    BY <1>1, <1>2, <1>3, <1>4, <2>2, <2>3, BegunTyped
<1> QED
  BY <1>5, <1>6, <1>7

LEMMA FillsTyped ==
  ASSUME NEW s \in Slots, TypeInv, Refresh(s) \/ CopyAndClose(s)
  PROVE  TypeInv'
<1>1. EventsOK'
  BY EventTyped DEF Refresh, CopyAndClose, Click, TypeInv
<1>2. UNCHANGED <<place, selection, header, liveVars, pending, filters, wfMap>>
  BY DEF Refresh, CopyAndClose, dialog
<1>3. ChosenOK' /\ HeaderOK' /\ LiveOK' /\ FiltersOK'
  BY <1>2 DEF selection, liveVars, TypeInv, ChosenOK, SelectionOK, HeaderOK, LiveOK, FiltersOK
<1>4. DialogOK'
  <2>1. modal' = modal \/ modal' = NoModal
    BY DEF Refresh, CopyAndClose, dialog
  <2> QED
    BY <1>2, <2>1 DEF NoModal, AppNames, TypeInv, DialogOK
<1> QED
  BY <1>1, <1>2, <1>3, <1>4, FilledTyped DEF Refresh, CopyAndClose

LEMMA AppChangeTyped ==
  ASSUME NEW s \in Slots, NEW a \in Apps \cup {None}, TypeInv, onAppChange(a, s)
  PROVE  TypeInv'
<1>1. EventsOK'
  BY EventTyped DEF onAppChange, Click, TypeInv
<1>2. UNCHANGED <<place, org, apps, orgs, storedOrg, key, debounced, dialog, filters, wfMap>>
  BY DEF onAppChange
<1>3. ChosenOK'
  BY <1>2 DEF onAppChange, TypeInv, ChosenOK, SelectionOK
<1>4. HeaderOK'
  BY DEF onAppChange, TypeInv, HeaderOK
<1>5. LiveOK'
  BY <1>2, <1>3, RestartTyped DEF onAppChange
<1>6. DialogOK' /\ FiltersOK'
  BY <1>2 DEF dialog, TypeInv, DialogOK, FiltersOK
<1> QED
  BY <1>1, <1>2, <1>3, <1>4, <1>5, <1>6, FilledTyped DEF onAppChange

LEMMA OrgChangeTyped ==
  ASSUME NEW s \in Slots, NEW o \in Orgs, TypeInv, onOrgChange(o, s)
  PROVE  TypeInv'
<1> DEFINE r == [Idle EXCEPT !.kind = "apps", !.then = "orgSwitch", !.org = o]
<1>1. r \in Task
  BY IdleIsJob DEF Job, Task
<1>2. r.kind = "apps" /\ r.then = "orgSwitch" /\ r.org = o
  BY DEF Idle
<1>3. tasks' = [tasks EXCEPT ![s] = r]
  BY DEF onOrgChange
<1> HIDE DEF r
<1>4. r \in Job
  BY <1>1, <1>2 DEF Job
<1>5. EventsOK'
  BY EventTyped DEF onOrgChange, Click, TypeInv
<1>6. key' \in Keys
  BY DEF onOrgChange, TypeInv, ChosenOK, Keys
<1>7. ChosenOK'
  BY <1>6 DEF onOrgChange, TypeInv, ChosenOK, SelectionOK
<1>8. HeaderOK'
  BY DEF onOrgChange, TypeInv, HeaderOK
<1>9. DialogOK'
  BY DEF onOrgChange, dialog, TypeInv, DialogOK
<1> QED
  BY <1>3, <1>4, <1>5, <1>7, <1>8, <1>9, BegunTyped DEF onOrgChange

LEMMA SignInTyped ==
  ASSUME NEW s \in Slots, NEW k \in {None, "token", org}, TypeInv, SignIn(k, s)
  PROVE  TypeInv'
<1> DEFINE r == [Idle EXCEPT !.kind = "orgs", !.then = "render"]
<1>1. r \in Task
  BY IdleIsJob DEF Job, Task
<1>2. r.kind = "orgs"
  BY DEF Idle
<1>3. tasks' = [tasks EXCEPT ![s] = r]
  BY DEF SignIn
<1> HIDE DEF r
<1>4. r \in Job
  BY <1>1, <1>2 DEF Job
<1>5. EventsOK'
  BY EventTyped DEF SignIn, TypeInv
<1>6. ChosenOK' /\ HeaderOK'
  BY DEF SignIn, TypeInv, ChosenOK, SelectionOK, Keys, HeaderOK
<1>7. DialogOK'
  BY DEF SignIn, TypeInv, DialogOK, NoModal, AppNames
<1> QED
  BY <1>3, <1>4, <1>5, <1>6, <1>7, BegunTyped DEF SignIn

LEMMA FilterTyped ==
  ASSUME NEW s \in Slots, NEW f \in DOMAIN filters, NEW p \in 0..MaxPage, TypeInv, Filter(f, p, s)
  PROVE  TypeInv'
<1>1. EventsOK'
  BY EventTyped DEF Filter, Click, TypeInv
<1>2. UNCHANGED <<place, selection, header, liveVars, dialog, wfMap>>
  BY DEF Filter
<1>3. ChosenOK' /\ HeaderOK' /\ LiveOK' /\ DialogOK'
  BY <1>2 DEF selection, liveVars, dialog, TypeInv, ChosenOK, SelectionOK, HeaderOK, LiveOK, DialogOK
<1>4. FiltersOK'
  BY DEF Filter, TypeInv, FiltersOK
<1> QED
  BY <1>1, <1>2, <1>3, <1>4, FilledTyped DEF Filter

LEMMA OperateTyped ==
  ASSUME NEW s \in Slots, NEW o \in Operations, TypeInv, Operate(o, s)
  PROVE  TypeInv'
<1>1. EventsOK'
  BY EventTyped DEF Operate, Click, TypeInv
<1>2. ChosenOK' /\ HeaderOK' /\ DialogOK' /\ org \in Orgs
  BY DEF Operate, selection, dialog, TypeInv, ChosenOK, SelectionOK, HeaderOK, DialogOK
<1>3. PICK a \in AppNames : tasks' = [tasks EXCEPT ![s] = Sent(o, a)]
  BY TargetsTyped DEF Operate
<1>4. Sent(o, a) \in Job
  BY <1>2, SentIsJob
<1> QED
  BY <1>1, <1>2, <1>3, <1>4, BegunTyped DEF Operate

LEMMA SwitchTabTyped ==
  ASSUME NEW s \in Slots, NEW t \in Tabs, TypeInv, switchWfTab(t, s)
  PROVE  TypeInv'
<1> DEFINE a == TargetApp(wfApp, wfMap, wfId, app)
           r == [Idle EXCEPT !.kind = "tab", !.then = t, !.live = TRUE, !.org = org,
                             !.app = a, !.wf = wfId]
<1>1. a \in AppNames /\ org \in Orgs /\ wfId \in Workflows \cup {None}
  <2>1. app \in AppNames
    BY DEF TypeInv, ChosenOK, SelectionOK, AppNames
  <2> QED
    BY <2>1, TargetAppTyped DEF TypeInv, LookupOK, PlaceOK, ChosenOK, SelectionOK
<1>2. \/ tasks' = [tasks EXCEPT ![s] = r]
      \/ tasks' = [PanelWritten(tasks) EXCEPT ![s] = r]
  BY DEF switchWfTab
<1> HIDE DEF a
<1>3. r \in Task
  BY <1>1, IdleIsJob DEF Job, Task, Tabs
<1>4. r.kind = "tab" /\ r.then = t
  BY DEF Idle
<1> HIDE DEF r
<1>5. r \in Job
  BY <1>3, <1>4 DEF Job
<1>6. EventsOK'
  BY EventTyped DEF switchWfTab, Click, TypeInv
<1>7. UNCHANGED <<place, selection, header, liveVars, dialog, filters, lookup, view>>
  BY DEF switchWfTab
<1>8. PlaceOK' /\ ChosenOK' /\ HeaderOK' /\ LiveOK' /\ DialogOK' /\ FiltersOK' /\ LookupOK'
  BY <1>7 DEF place, selection, liveVars, dialog, lookup, TypeInv, PlaceOK, ChosenOK, SelectionOK,
              HeaderOK, LiveOK, DialogOK, FiltersOK, LookupOK
<1>9. PanelOK'
  BY DEF switchWfTab, TypeInv, PanelOK
<1>10. ContentOK'
  BY <1>2, <1>5, <1>7, SlotTyped
<1> QED
  BY <1>6, <1>8, <1>9, <1>10 DEF TypeInv

LEMMA UserTyped ==
  ASSUME NEW s \in Slots, TypeInv, UserStep(s)
  PROVE  TypeInv'
BY DialogsTyped, FillsTyped, AppChangeTyped, OrgChangeTyped, SignInTyped, FilterTyped, OperateTyped,
   SwitchTabTyped
DEF UserStep

\* A step of the user that asks the server for nothing.
LEMMA OtherTyped ==
  ASSUME TypeInv, OtherStep
  PROVE  TypeInv'
<1>1. UNCHANGED <<route, wfId, header, filters, panel, view, tasks>>
  BY DEF OtherStep, closeModal, StreamEvent, Navigate, OpenWorkflow, ViewChild, setPollInterval,
         showConfirm, OpenDialog, OtherTab, place
<1>2. HeaderOK' /\ FiltersOK' /\ PanelOK' /\ ContentOK'
  BY <1>1 DEF TypeInv, HeaderOK, FiltersOK, PanelOK, ContentOK, panel
<1>3. EventsOK'
  <2>1. UNCHANGED events \/ \E u : Event(u)
    BY DEF OtherStep, closeModal, StreamEvent, Navigate, OpenWorkflow, ViewChild, setPollInterval,
           showConfirm, OpenDialog, OtherTab, Click, Uncounted
  <2> QED
    BY <2>1, EventTyped DEF TypeInv, EventsOK
<1>4. PlaceOK'
  <2>1. UNCHANGED <<hash, hashEvents>> \/ \E h \in Hashes : navigate(h)
    BY DetailHash
    DEF OtherStep, closeModal, StreamEvent, Navigate, OpenWorkflow, ViewChild, setPollInterval,
        showConfirm, OpenDialog, OtherTab, place
  <2> QED
    BY <1>1, <2>1, NavigateTyped DEF TypeInv, PlaceOK
<1>5. ChosenOK'
  <2>1. CASE \E o \in Orgs : \E a \in Registered[o] \cup {None} : OtherTab(o, a)
    <3>1. \A o \in Orgs : Registered[o] \subseteq Apps
      BY ConsoleAssumption DEF ConsoleAssumption
    <3> QED
      BY <2>1, <3>1 DEF OtherTab, TypeInv, ChosenOK, SelectionOK
  <2>2. CASE UNCHANGED selection
    BY <2>2 DEF selection, TypeInv, ChosenOK, SelectionOK
  <2> QED
    BY <2>1, <2>2 DEF OtherStep, closeModal, StreamEvent, Navigate, OpenWorkflow, ViewChild,
                      setPollInterval, showConfirm, OpenDialog
<1>6. LiveOK'
  <2>1. CASE \E m \in Modes : setPollInterval(m)
    <3>1. PICK m \in Modes : setPollInterval(m)
      BY <2>1
    <3>2. CASE m = "stream"
      BY <1>5, <3>1, <3>2, StartTyped DEF setPollInterval, TypeInv, LiveOK
    <3>3. CASE m # "stream"
      BY <3>1, <3>3 DEF setPollInterval, Modes, TypeInv, LiveOK
    <3> QED
      BY <3>2, <3>3
  <2>2. CASE StreamEvent
    BY <2>2 DEF StreamEvent, TypeInv, LiveOK
  <2>3. CASE UNCHANGED liveVars
    BY <2>3 DEF liveVars, TypeInv, LiveOK
  <2> QED
    BY <2>1, <2>2, <2>3 DEF OtherStep, closeModal, Navigate, OpenWorkflow, ViewChild, showConfirm,
                            OpenDialog, OtherTab
<1>7. DialogOK'
  <2>1. CASE \E o \in Operations : showConfirm(o)
    <3>1. PICK o \in Operations : showConfirm(o)
      BY <2>1
    <3>2. PICK a \in AppNames : /\ pending' = [what |-> o, app |-> a]
                                /\ modal' = [kind |-> "confirm", what |-> o, app |-> a]
      BY <3>1, TargetsTyped DEF showConfirm
    <3> QED
      BY <3>2 DEF DialogOK
  <2>2. CASE \E o \in Operations : OpenDialog("form", o)
    BY <2>2 DEF OpenDialog, NoModal, AppNames, TypeInv, DialogOK
  <2>3. CASE \E k \in {"signIn", "step", "payload"} : OpenDialog(k, None)
    BY <2>3 DEF OpenDialog, NoModal, AppNames, TypeInv, DialogOK
  <2>4. CASE modal' = NoModal /\ pending' = pending
    BY <2>4 DEF NoModal, AppNames, TypeInv, DialogOK
  <2>5. CASE UNCHANGED dialog
    BY <2>5 DEF dialog, TypeInv, DialogOK
  <2> QED
    BY <2>1, <2>2, <2>3, <2>4, <2>5
    DEF OtherStep, closeModal, StreamEvent, Navigate, OpenWorkflow, ViewChild, setPollInterval, OtherTab
<1>8. LookupOK'
  <2>1. CASE \E w \in Workflows : OpenWorkflow(w)
    <3>1. PICK w \in Workflows : OpenWorkflow(w)
      BY <2>1
    <3> DEFINE a == IF view.app = None \/ view.screen = "fleet" THEN Owner[w].app ELSE view.label
    <3>2. a \in AppNames
      BY ConsoleAssumption DEF ConsoleAssumption, AppNames, TypeInv, ContentOK, View
    <3>3. UNCHANGED lookup \/ (wfApp' = a /\ wfMap' = [wfMap EXCEPT ![w] = a])
      BY <3>1 DEF OpenWorkflow
    <3> HIDE DEF a
    <3> QED
      BY <3>2, <3>3 DEF lookup, TypeInv, LookupOK
  <2>2. CASE UNCHANGED lookup
    BY <2>2 DEF lookup, TypeInv, LookupOK
  <2> QED
    BY <2>1, <2>2 DEF OtherStep, closeModal, StreamEvent, Navigate, ViewChild, setPollInterval,
                      showConfirm, OpenDialog, OtherTab
<1> QED
  BY <1>2, <1>3, <1>4, <1>5, <1>6, <1>7, <1>8 DEF TypeInv

LEMMA InitTyped ==
  ASSUME Init
  PROVE  TypeInv
<1>1. 0 \in 0..MaxPage /\ MaxEvents \in 0..MaxEvents
  BY ConsoleAssumption DEF ConsoleAssumption
<1>2. PlaceOK
  BY ScreenRoutes DEF Init, PlaceOK
<1>3. ChosenOK
  BY ConsoleAssumption DEF Init, SavedOrg, ChosenOK, SelectionOK, Keys, ConsoleAssumption
<1>4. HeaderOK /\ LiveOK /\ FiltersOK /\ LookupOK /\ PanelOK /\ EventsOK
  BY <1>1 DEF Init, HeaderOK, LiveOK, Modes, FiltersOK, LookupOK, AppNames, PanelOK, EventsOK
<1>5. DialogOK
  BY DEF Init, DialogOK, NoModal, AppNames
<1>6. view \in View
  BY <1>1 DEF Init, Plain, View, AppNames
<1>7. tasks \in [Slots -> Job]
  <2> DEFINE r == [Idle EXCEPT !.kind = "orgs", !.then = "init"]
  <2>1. r \in Task
    BY IdleIsJob DEF Job, Task
  <2>2. r.kind = "orgs"
    BY DEF Idle
  <2> HIDE DEF r
  <2>3. r \in Job
    BY <2>1, <2>2 DEF Job
  <2>4. tasks = [s \in Slots |-> IF s = 1 THEN r ELSE Idle]
    BY DEF Init, r
  <2> QED
    BY <2>3, <2>4, IdleIsJob
<1> QED
  BY <1>2, <1>3, <1>4, <1>5, <1>6, <1>7 DEF TypeInv, ContentOK

LEMMA TypeInvariant == Spec => []TypeInv
<1>1. Init => TypeInv
  BY InitTyped
<1>2. TypeInv /\ [Next]_vars => TypeInv'
  <2> SUFFICES ASSUME TypeInv, [Next]_vars
               PROVE  TypeInv'
    OBVIOUS
  <2>1. CASE UNCHANGED vars
    BY <2>1 DEF vars, place, selection, liveVars, dialog, lookup, panel, TypeInv, PlaceOK, ChosenOK,
                SelectionOK, HeaderOK, LiveOK, DialogOK, FiltersOK, LookupOK, PanelOK, ContentOK, EventsOK
  <2> QED
    BY <2>1, AnswerTyped, HashChangeTyped, TickTyped, DebouncedTyped, UserTyped, OtherTyped DEF Next
<1> QED
  BY <1>1, <1>2, PTL DEF Spec

\* Every answer finds the page in a state its handler can use: a load knows its
\* screen, a list of applications its organisation, a tab its panel, a form its
\* operation, whatever was rendered, selected or opened since it was asked for.
THEOREM ConsoleTypes == Spec => []ConsoleTypeOK
BY TypeInvariant, TypeInvTypes, PTL
=============================================================================
