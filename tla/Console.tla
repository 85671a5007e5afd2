------------------------------ MODULE Console -------------------------------
(***************************************************************************)
(* The web console (console/src/app.js): one page, one object with the     *)
(* selection, and asynchronous functions that read and write it around     *)
(* their awaits.                                                           *)
(*                                                                         *)
(* JavaScript runs one function at a time, so an action is a run from an   *)
(* event or an answer up to the next await.  What waits for an answer is a *)
(* task; its answer may come at any time, in any order, or be an error.    *)
(* A task that renders holds the element it will write to: render()        *)
(* replaces #content-view and #modal-root, and what older tasks write then *)
(* is never seen (live is FALSE), while what they assign to the object is. *)
(*                                                                         *)
(* Texts, tables, focus and layout are left out: the view is the screen it *)
(* shows, what kind of thing it shows (data, a spinner, one of the error   *)
(* cards) and the scope the data was asked with.                           *)
(***************************************************************************)
EXTENDS ConsoleScreens, Naturals, FiniteSets

CONSTANTS Orgs, DefaultOrg,  \* organisations, and the one named "default"
          Directories,       \* the lists of organisations the server answers with
          Apps, Registered,  \* application names, and those of each organisation
          Workflows, Owner,  \* workflow ids, and [org, app] of each
          Visited,           \* the routes the user goes to
          StoredOrgs, StoredApps, StoredKeys, \* what the browser has stored
          Faults,            \* the errors that occur
          Uses,              \* the kinds of event that occur
          MaxTasks,          \* bound on the tasks in flight
          MaxEvents,         \* bound on user, timer and stream events
          MaxPage,           \* bound on the pages of a filtered list
          None

ASSUME ConsoleAssumption ==
  /\ DefaultOrg \in Orgs /\ Directories \subseteq SUBSET Orgs
  /\ Registered \in [Orgs -> SUBSET Apps]
  /\ Owner \in [Workflows -> [org : Orgs, app : Apps]]
  /\ Visited \subseteq Routes \ {"detail"}
  /\ Faults \subseteq ErrorClasses
  /\ StoredOrgs \subseteq Orgs \cup {None} /\ StoredApps \subseteq Apps \cup {None}
  /\ StoredKeys \subseteq Orgs \cup {"token", None}
  /\ MaxTasks \in Nat \ {0} /\ MaxEvents \in Nat /\ MaxPage \in Nat
  /\ None \notin Orgs \cup Apps \cup Workflows
  /\ None \notin [org : Orgs, app : Apps \cup {None}]

VARIABLES hash, hashEvents,     \* location.hash, hashchange events to come
          route, wfId,          \* currentRoute, selectedWorkflowId
          org, app, apps, orgs, \* orgName, appName, apps, organizations
          storedOrg, storedApp, \* the selection in localStorage
          key,                  \* apiKey: an organisation's key, a token, none
          header,               \* what the selectors in the header show
          mode, timer, sse,     \* pollInterval, pollTimer, sseSource
          debounced,            \* a refresh after a stream event is due
          modal, pending,       \* #modal-root, pendingConfirmAction
          filters,              \* auditFilters.offset and metricsFilters
          wfApp, wfMap,         \* selectedWorkflowApp, workflowAppMap
          tab, tabShown,        \* the active tab, what the tab's panel shows
          view,                 \* #content-view
          tasks,                \* what waits for an answer
          events                \* events left

place == <<hash, hashEvents, route, wfId>>
selection == <<org, app, apps, orgs, storedOrg, storedApp, key>>
liveVars == <<mode, timer, sse, debounced>>
dialog == <<modal, pending>>
lookup == <<wfApp, wfMap>>
panel == <<tab, tabShown>>
vars == <<place, selection, header, liveVars, dialog, filters, lookup, panel,
          view, tasks, events>>

Intervals == {"2000", "5000", "15000"}
Modes == Intervals \cup {"off", "stream"}
Keys == Orgs \cup {"token", None}
Slots == 1..MaxTasks
AppNames == Apps \cup {"default", None}

Idle == [kind |-> "idle", then |-> None, screen |-> None, live |-> FALSE,
         org |-> None, app |-> None, apps |-> {}, wf |-> None, page |-> 0]
NoModal == [kind |-> "none", what |-> None, app |-> None]

\* A view no answer has filled: a spinner, or a card that asks for a choice.
Plain(screen, kind) ==
  [screen |-> screen, kind |-> kind, error |-> None, org |-> None, app |-> None,
   apps |-> {}, label |-> None, wf |-> None, page |-> 0]

Hashes == [route : Visited, wf : {None}] \cup [route : {"detail"}, wf : Workflows]

\* Seeded fault: the stored organisation is taken although there is none.
StoredOnly == storedOrg

\* The constructor: the stored organisation, or "default".
SavedOrg == IF storedOrg # None THEN storedOrg ELSE DefaultOrg

\* loadOrganizations(): the stored one if it is listed, or "default" if that
\* is, or the first of the list, whose order is the server's.
PreferredOrgs(listed) ==
  IF storedOrg \in listed THEN {storedOrg}
  ELSE IF DefaultOrg \in listed THEN {DefaultOrg} ELSE listed

\* The constructor, and init() up to its first await; an address with ?app=
\* or ?org= has stored its values by then.
Init ==
  /\ hash \in Hashes /\ hashEvents = 0
  /\ route = "fleet" /\ wfId = None
  /\ storedOrg \in StoredOrgs /\ storedApp \in StoredApps
  /\ org = SavedOrg
  /\ app = None /\ apps = {} /\ orgs = {}
  /\ key \in StoredKeys
  /\ header = [org |-> None, app |-> None, apps |-> {}, orgs |-> {}]
  /\ mode = "off" /\ timer = None /\ sse = None /\ debounced = FALSE
  /\ modal = NoModal /\ pending = None
  /\ filters = [f \in {"audit", "metrics"} |-> 0]
  /\ wfApp = None /\ wfMap = [w \in Workflows |-> None]
  /\ tab = None /\ tabShown = None
  /\ view = Plain("boot", "loading")
  /\ tasks = [s \in Slots |->
        IF s = 1 THEN [Idle EXCEPT !.kind = "orgs", !.then = "init"] ELSE Idle]
  /\ events = MaxEvents

(***************************************************************************)
(* Rendering.  These operators read the selection after the step, which    *)
(* the actions assign before they call them; ts are the tasks they start   *)
(* from, s is the slot they may use and wa is selectedWorkflowApp.         *)
(***************************************************************************)
\* selectedWorkflowApp || workflowAppMap.get(id) || appName
TargetApp(wa, map, w, a) ==
  IF wa # None THEN wa
  ELSE IF w # None /\ map[w] # None THEN map[w] ELSE a

Detached(ts) == [t \in Slots |-> [ts[t] EXCEPT !.live = FALSE]]
\* New content of #content-view detaches the panel of the tabs within it.
Overwritten(ts) ==
  [t \in Slots |-> IF ts[t].kind = "tab" THEN [ts[t] EXCEPT !.live = FALSE] ELSE ts[t]]

Request(kind, screen, a) ==
  [Idle EXCEPT !.kind = kind, !.screen = screen, !.live = TRUE, !.org = org', !.app = a,
     !.apps = IF a # None THEN {a} ELSE IF "app" \in Screens[screen].scope THEN apps' ELSE {},
     !.wf = IF screen = "detail" THEN wfId' ELSE None,
     !.page = IF screen \in DOMAIN filters THEN filters'[screen] ELSE 0]

\* The request a screen is waiting for at its first await.  The fleet lists
\* the applications again, the detail of a workflow whose application is not
\* known tries one application after the other.
FirstRequests(screen, target) ==
  IF screen = "fleet" THEN {[Request("apps", screen, None) EXCEPT !.then = "fleet"]}
  ELSE IF screen = "detail" /\ target = None
    THEN {[Request("search", screen, a) EXCEPT !.apps = apps' \ {a}] : a \in apps'}
  ELSE {Request("load", screen, IF screen = "detail" THEN target ELSE app')}

\* render<screen>Screen(el, silent) up to its first await.
RenderScreen(ts, s, screen, silent, wa) ==
  LET known == TargetApp(wa, wfMap', wfId', app')
      target == IF known = None /\ apps' = {} THEN "default" ELSE known
      asks == screen = "unknown" \/ (Screens[screen].needsApp /\ app' = None)
  IN /\ wfApp' = IF screen = "detail" /\ target # None THEN target ELSE wa
     /\ IF asks
          THEN /\ view' = Plain(screen, "choose")
               /\ tasks' = [Overwritten(ts) EXCEPT ![s] = Idle]
          ELSE /\ view' = IF silent THEN view ELSE Plain(screen, "loading")
               /\ \E r \in FirstRequests(screen, target) :
                    tasks' = [(IF silent THEN ts ELSE Overwritten(ts)) EXCEPT ![s] = r]
     /\ IF asks \/ ~silent THEN tab' = None /\ tabShown' = None ELSE UNCHANGED panel

renderContentView(ts, s, silent, wa) == RenderScreen(ts, s, route', silent, wa)

\* render(): a new header, a new #content-view, an empty #modal-root.
render(s) ==
  /\ header' = [org |-> org', app |-> app', apps |-> apps', orgs |-> orgs']
  /\ modal' = NoModal
  /\ renderContentView(Detached(tasks), s, FALSE, wfApp)

\* Seeded fault: a change of route only fills the content view again.
handleRoutingInPlace(s) ==
  /\ route' = hash.route
  /\ wfId' = IF hash.route = "detail" THEN hash.wf ELSE wfId
  /\ UNCHANGED <<header, modal>>
  /\ renderContentView(tasks, s, FALSE, wfApp)

\* handleRouting(): the route is read from the hash.
handleRouting(s) ==
  /\ route' = hash.route
  /\ wfId' = IF hash.route = "detail" THEN hash.wf ELSE wfId
  /\ render(s)

\* Seeded fault: the fallback starts the timer and leaves the mode alone.
startSSEOrTimer(t) ==
  \/ mode' = "stream" /\ sse' = [org |-> org', app |-> app'] /\ timer' = t
  \/ mode' = "stream" /\ sse' = None /\ timer' = "5000"

\* new EventSource(url), which may throw: then it polls every five seconds.
\* t is the timer, which startSSE itself leaves alone.
startSSE(t) ==
  \/ mode' = "stream" /\ sse' = [org |-> org', app |-> app'] /\ timer' = t
  \/ mode' = "5000" /\ sse' = None /\ timer' = "5000"

\* navigate(): the event follows, unless the hash is the same.
navigate(h) ==
  /\ hash' = h
  /\ hashEvents' = hashEvents + (IF h = hash THEN 0 ELSE 1)

(***************************************************************************)
(* Answers                                                                 *)
(***************************************************************************)
\* loadOrganizations() after its await, and what follows in init() or in
\* submitSignIn() and signOut().
OrgsAnswer(s) ==
  /\ tasks[s].kind = "orgs"
  /\ \/ \E listed \in Directories \ {{}} :
          /\ orgs' = listed
          /\ org' \in PreferredOrgs(listed)
          /\ storedOrg' = org'
     \/ /\ orgs' = {}                 \* none listed, or 404: no directory
        /\ org' = IF storedOrg # None THEN storedOrg ELSE org
        /\ UNCHANGED storedOrg
     \/ /\ orgs' = {}                 \* any other error
        /\ UNCHANGED <<org, storedOrg>>
  /\ UNCHANGED <<place, app, apps, storedApp, key, liveVars, pending, filters, wfMap, events>>
  /\ \/ /\ tasks[s].then = "init"
        /\ tasks' = [tasks EXCEPT ![s] =
              [Idle EXCEPT !.kind = "apps", !.then = "init", !.org = org']]
        /\ UNCHANGED <<header, modal, view, wfApp, panel>>
     \/ /\ tasks[s].then = "render"
        /\ render(s)

\* loadApplications() after its await: the list and the stored application.
ApplicationsLoaded(listed) ==
  /\ apps' = listed
  /\ app' = IF storedApp \in listed THEN storedApp ELSE None

\* Seeded fault: only the content view is filled again.
RefilledForOrg(s) ==
  /\ UNCHANGED <<route, wfId, header, modal>>
  /\ renderContentView(tasks, s, FALSE, wfApp)
  /\ IF mode = "stream" THEN startSSE(timer) ELSE UNCHANGED <<mode, timer, sse>>

\* The rest of onOrgChange(): the page is rendered, a stream reopened.
RenderedForOrg(s) ==
  /\ UNCHANGED <<route, wfId>>
  /\ render(s)
  /\ IF mode = "stream" THEN startSSE(timer) ELSE UNCHANGED <<mode, timer, sse>>

\* ... and what follows in init(), in onOrgChange() or on the fleet screen.
AppsAnswer(s) ==
  /\ tasks[s].kind = "apps"
  /\ \E listed \in {Registered[tasks[s].org], {}} : ApplicationsLoaded(listed)
  /\ UNCHANGED <<hash, hashEvents, org, orgs, storedOrg, storedApp, key, debounced,
                 pending, filters, wfMap, events>>
  /\ \/ /\ tasks[s].then = "init"
        /\ handleRouting(s)
        /\ UNCHANGED <<mode, timer, sse>>
     \/ /\ tasks[s].then = "orgSwitch"
        /\ RenderedForOrg(s)
     \/ /\ tasks[s].then = "fleet"
        /\ tasks' = [tasks EXCEPT ![s] =
              [@ EXCEPT !.kind = "load", !.then = None, !.org = org, !.app = app',
                        !.apps = IF app' # None THEN {app'} ELSE apps']]
        /\ UNCHANGED <<route, wfId, mode, timer, sse, header, modal, view, wfApp, panel>>

\* The workflows an answer to task k lists, and the application each is
\* recorded under: the one selected by now, if one is.
Recorded(k) ==
  [w \in Workflows |->
     IF Owner[w].org # k.org \/ Owner[w].app \notin k.apps THEN wfMap[w]
     ELSE IF k.screen = "fleet" \/ k.app = None THEN Owner[w].app
     ELSE IF app # None THEN app ELSE wfMap[w]]

\* What is asked for exists: otherwise the answer is an error.
Exists(k) ==
  /\ k.apps \subseteq Registered[k.org]
  /\ k.screen = "detail" => k.wf # None /\ Owner[k.wf] = [org |-> k.org, app |-> k.app]

\* Seeded fault: only data is written, an error stays unhandled.
ShownIfData(k, e) == k.live /\ e = None

\* Whether the end of task k is seen: data and errors alike, if the element
\* it holds is still part of the page.
Shown(k, e) == k.live

\* The detail screen asks for the workflow and then, of what is selected by
\* then, for its steps.  The children of the steps are asked for last, and what
\* fails there is left out.
AsksForSteps(k) == k.screen = "detail" /\ k.then = None

DetailAnswer(s) ==
  LET k == tasks[s] IN
  /\ k.kind = "load" /\ AsksForSteps(k) /\ Exists(k)
  /\ tasks' = [tasks EXCEPT ![s] = [k EXCEPT !.then = "steps", !.org = org, !.wf = wfId]]
  /\ UNCHANGED <<place, selection, header, liveVars, dialog, filters, lookup, panel, view,
                 events>>

\* A screen's render function after its last await, or at an error.  An error
\* of one of several requests sent together stands for all of them.
LoadAnswer(s) ==
  LET k == tasks[s] IN
  /\ k.kind = "load"
  /\ \E e \in Faults \cup {IF Exists(k) THEN None ELSE "missing"} :
       /\ ~(AsksForSteps(k) /\ e = None)
       /\ wfMap' = IF e = None /\ k.screen \in {"fleet", "workflows"} THEN Recorded(k) ELSE wfMap
       /\ IF Shown(k, e)
            THEN /\ view' = [screen |-> k.screen, error |-> e,
                      kind |-> IF e = None THEN "data" ELSE Presentation(k.screen, e, k.app = None),
                      org |-> k.org, app |-> k.app, apps |-> k.apps,
                      label |-> IF Screens[k.screen].relabels /\ k.app # None THEN app ELSE k.app,
                      wf |-> k.wf, page |-> k.page]
                 /\ tasks' = [Overwritten(tasks) EXCEPT ![s] = Idle]
                 /\ tab' = IF k.screen = "detail" /\ e = None THEN "io" ELSE None
                 /\ tabShown' = tab'
            ELSE /\ tasks' = [tasks EXCEPT ![s] = Idle]
                 /\ UNCHANGED <<view, panel>>
  /\ UNCHANGED <<place, selection, header, liveVars, dialog, filters, wfApp, events>>

\* The search for a workflow's application: the one that answers is taken
\* for the application of the workflow that is selected by now.
SearchAnswer(s) ==
  LET k == tasks[s]
      Load(a) == [k EXCEPT !.kind = "load", !.org = org, !.app = a, !.apps = {a}, !.wf = wfId]
      fallback == IF app # None THEN {app} ELSE IF apps # {} THEN apps ELSE {"default"}
  IN
  /\ k.kind = "search"
  /\ \/ /\ Owner[k.wf] = [org |-> k.org, app |-> k.app]
        /\ wfMap' = [wfMap EXCEPT ![wfId] = k.app]
        /\ wfApp' = k.app
        /\ tasks' = [tasks EXCEPT ![s] = Load(k.app)]
     \/ /\ k.apps # {}
        /\ \E a \in k.apps :
             tasks' = [tasks EXCEPT ![s] =
               [k EXCEPT !.org = org, !.app = a, !.apps = @ \ {a}, !.wf = wfId]]
        /\ UNCHANGED lookup
     \/ /\ k.apps = {}
        /\ \E a \in fallback : wfApp' = a /\ tasks' = [tasks EXCEPT ![s] = Load(a)]
        /\ UNCHANGED wfMap
  /\ UNCHANGED <<place, selection, header, liveVars, dialog, filters, panel, view, events>>

\* An operation after its await.
OperationAnswer(s) ==
  LET k == tasks[s] IN
  /\ k.kind = "operation"
  /\ UNCHANGED <<route, wfId, selection, header, liveVars, pending, filters, events>>
  /\ \/ /\ k.then \in {"refresh", "closeRefresh"}
        /\ modal' = IF k.then = "refresh" THEN modal ELSE NoModal
        /\ UNCHANGED <<hash, hashEvents, wfMap>>
        /\ renderContentView(tasks, s, FALSE, wfApp)
     \/ /\ k.then = "detail"            \* cancel and resume render the detail
        /\ UNCHANGED <<hash, hashEvents, modal, wfMap>>
        /\ RenderScreen(tasks, s, "detail", FALSE, wfApp)
     \/ /\ k.then = "navigate"          \* restart and trigger show a new workflow
        /\ \E w \in {v \in Workflows : Owner[v] = [org |-> k.org, app |-> k.app]} :
             /\ wfMap' = [wfMap EXCEPT ![w] = k.app]
             /\ navigate([route |-> "detail", wf |-> w])
        /\ wfApp' = k.app
        /\ tasks' = [tasks EXCEPT ![s] = Idle]
        /\ UNCHANGED <<modal, view, panel>>
     \/ /\ k.then \in {"close", "token"}
        /\ modal' = IF k.then = "close" THEN NoModal ELSE [NoModal EXCEPT !.kind = "token"]
        /\ tasks' = [tasks EXCEPT ![s] = Idle]
        /\ UNCHANGED <<hash, hashEvents, lookup, view, panel>>
     \/ /\ tasks' = [tasks EXCEPT ![s] = Idle]   \* an error: a toast
        /\ UNCHANGED <<hash, hashEvents, modal, lookup, view, panel>>

\* New content of the panel detaches the list of events within it.
PanelWritten(ts) ==
  [t \in Slots |-> IF ts[t].kind = "tab" /\ ts[t].then = "events"
                    THEN [ts[t] EXCEPT !.live = FALSE] ELSE ts[t]]

\* switchWfTab() after its await.  A failure of io or of notifications is an
\* unhandled rejection: what the panel showed stays.
TabAnswer(s) ==
  LET k == tasks[s] IN
  /\ k.kind = "tab"
  /\ \/ /\ k.live
        /\ tabShown' = k.then
        /\ tasks' = [(IF k.then = "events" THEN tasks ELSE PanelWritten(tasks)) EXCEPT ![s] = Idle]
     \/ /\ k.live /\ CatchesFailure(k.then)
        /\ tabShown' = "unavailable"
        /\ tasks' = [tasks EXCEPT ![s] = Idle]
     \/ /\ ~k.live \/ ~CatchesFailure(k.then)
        /\ tasks' = [tasks EXCEPT ![s] = Idle]
        /\ UNCHANGED tabShown
  /\ UNCHANGED <<place, selection, header, liveVars, dialog, filters, lookup, tab, view, events>>

\* A new task takes the first slot that is free.
Free(s) == tasks[s] = Idle /\ \A t \in 1..(s - 1) : tasks[t] # Idle

\* The hashchange event.
HashChange(s) ==
  /\ hashEvents > 0 /\ Free(s)
  /\ hashEvents' = hashEvents - 1
  /\ UNCHANGED <<hash, selection, liveVars, pending, filters, wfMap, events>>
  /\ handleRouting(s)

(***************************************************************************)
(* Timers and the event stream                                             *)
(***************************************************************************)
Event(u) == u \in Uses /\ events > 0 /\ events' = events - 1
\* A dialog covers the page: what is under it cannot be clicked.
Click(u) == Event(u) /\ modal = NoModal
\* Opening and closing a dialog asks the server for nothing and is not counted.
Uncounted == "dialog" \in Uses /\ UNCHANGED events

\* poll(): skipped while a dialog is open or an input has the focus.
poll(s) ==
  /\ modal = NoModal /\ Free(s)
  /\ UNCHANGED <<place, selection, header, dialog, filters, wfMap>>
  /\ renderContentView(tasks, s, TRUE, wfApp)

Tick(s) ==
  /\ Event("live") /\ timer # None
  /\ UNCHANGED liveVars
  /\ poll(s)

StreamEvent ==
  /\ Event("live") /\ sse # None
  /\ debounced' = TRUE
  /\ UNCHANGED <<place, selection, header, mode, timer, sse, dialog, filters, lookup,
                 panel, view, tasks>>

\* 150 ms after the last event of a stream, also of one closed since.
Debounced(s) ==
  /\ debounced
  /\ debounced' = FALSE
  /\ UNCHANGED <<mode, timer, sse, events>>
  /\ \/ poll(s)
     \/ UNCHANGED <<place, selection, header, dialog, filters, lookup, panel, view, tasks>>

setPollInterval(m) ==
  /\ Click("live") /\ view.screen # "boot"
  /\ UNCHANGED <<place, selection, header, debounced, dialog, filters, lookup, panel,
                 view, tasks>>
  /\ IF m = "stream" THEN startSSE(None)
     ELSE mode' = m /\ sse' = None /\ timer' = IF m = "off" THEN None ELSE m

(***************************************************************************)
(* The user                                                                *)
(***************************************************************************)
\* A link of the sidebar, or the browser's history, which no dialog covers.
Navigate(h) ==
  /\ \/ Click("navigate") /\ h.wf = None
     \/ Event("history")
  /\ h # hash
  /\ navigate(h)
  /\ UNCHANGED <<route, wfId, selection, header, liveVars, dialog, filters, lookup, panel,
                 view, tasks>>

\* The application written on the rows of the view.
RowApps ==
  IF view.screen = "detail" THEN {view.app}
  ELSE IF view.app = None THEN view.apps
  ELSE {IF view.label # None THEN view.label ELSE app}

\* A row of a list of workflows.
OpenWorkflow(w) ==
  /\ Click("navigate")
  /\ view.screen \in {"fleet", "workflows"} /\ view.kind = "data" /\ view.error = None
  /\ Owner[w].org = view.org /\ Owner[w].app \in view.apps
  /\ LET a == IF view.app = None \/ view.screen = "fleet" THEN Owner[w].app ELSE view.label IN
       IF a = None THEN UNCHANGED lookup
       ELSE wfApp' = a /\ wfMap' = [wfMap EXCEPT ![w] = a]
  /\ navigate([route |-> "detail", wf |-> w])
  /\ UNCHANGED <<route, wfId, selection, header, liveVars, dialog, filters, panel, view, tasks>>

\* The refresh button and the R key.
Refresh(s) ==
  /\ Click("refresh") /\ Free(s) /\ view.screen # "boot"
  /\ UNCHANGED <<place, selection, header, liveVars, dialog, filters, wfMap>>
  /\ renderContentView(tasks, s, FALSE, wfApp)

\* The selector of the header, hidden on two screens, and the rows of the fleet.
onAppChange(a, s) ==
  /\ Click("select") /\ Free(s) /\ view.screen # "boot"
  /\ \/ route \notin {"audit", "keys"} /\ a \in (header.apps \cup {None}) \ {header.app}
     \/ view.screen = "fleet" /\ view.kind = "data" /\ a \in view.apps
  /\ app' = a /\ storedApp' = a
  /\ header' = [header EXCEPT !.app = a]
  /\ UNCHANGED <<place, org, apps, orgs, storedOrg, key, debounced, dialog, filters, wfMap>>
  /\ IF mode = "stream" THEN startSSE(timer) ELSE UNCHANGED <<mode, timer, sse>>
  /\ renderContentView(tasks, s, FALSE, wfApp)

\* An API key belongs to one organisation and is dropped; a token is kept.
onOrgChange(o, s) ==
  /\ Click("select") /\ Free(s)
  /\ o \in header.orgs \ {header.org, org}
  /\ key' = IF key \in Orgs THEN None ELSE key
  /\ org' = o /\ storedOrg' = o /\ app' = None /\ storedApp' = None
  /\ header' = [header EXCEPT !.org = o]
  /\ tasks' = [tasks EXCEPT ![s] =
        [Idle EXCEPT !.kind = "apps", !.then = "orgSwitch", !.org = o]]
  /\ UNCHANGED <<place, apps, orgs, liveVars, dialog, filters, lookup, panel, view>>

\* Another tab of the browser stores its selection.
OtherTab(o, a) ==
  /\ Event("otherTab")
  /\ storedOrg' = o /\ storedApp' = a
  /\ UNCHANGED <<place, org, app, apps, orgs, key, header, liveVars, dialog, filters,
                 lookup, panel, view, tasks>>

\* submitSignIn(): from the dialog or the card; signOut(): from the header.
SignIn(k, s) ==
  /\ Event("signIn") /\ Free(s)
  /\ \/ modal.kind = "signIn"
     \/ modal = NoModal /\ view.kind = "signIn"
     \/ modal = NoModal /\ key # None /\ k = None /\ view.screen # "boot"
  /\ key' = k
  /\ modal' = NoModal
  /\ tasks' = [tasks EXCEPT ![s] = [Idle EXCEPT !.kind = "orgs", !.then = "render"]]
  /\ UNCHANGED <<place, org, app, apps, orgs, storedOrg, storedApp, header, liveVars,
                 pending, filters, lookup, panel, view>>

\* The filters and the pages of the audit log, the filters of the metrics.
Filter(screen, p, s) ==
  /\ Click("filter") /\ Free(s)
  /\ view.screen = screen /\ view.kind = "data" /\ route = screen
  /\ \/ p = 0                                        \* apply, clear
     \/ screen = "metrics" /\ p \in 1..MaxPage        \* apply
     \/ screen = "audit" /\ filters[screen] > 0 /\ p = filters[screen] - 1
     \/ screen = "audit" /\ p = filters[screen] + 1 /\ p <= MaxPage
  /\ filters' = [filters EXCEPT ![screen] = p]
  /\ UNCHANGED <<place, selection, header, liveVars, dialog, wfMap>>
  /\ renderContentView(tasks, s, FALSE, wfApp)

(***************************************************************************)
(* Operations and dialogs                                                  *)
(***************************************************************************)
\* The application operation o is sent to when it is sent now.
Targets(o) ==
  CASE o.to = "row" -> RowApps
    [] o.to = "selected" -> {app}
    [] o.to = "workflow" -> {TargetApp(wfApp, wfMap, wfId, app)}
    [] o.to = "picked" -> apps
    [] o.to = "org" -> {None}

Sent(o, a) == [Idle EXCEPT !.kind = "operation", !.then = o.then, !.org = org, !.app = a]

Offered(o) == view.screen = o.screen /\ view.kind = "data"

\* An operation without a dialog.
Operate(o, s) ==
  /\ Click("operate") /\ Free(s) /\ Offered(o) /\ o.how = "direct"
  /\ \E a \in Targets(o) : tasks' = [tasks EXCEPT ![s] = Sent(o, a)]
  /\ UNCHANGED <<place, selection, header, liveVars, dialog, filters, lookup, panel, view>>

\* Seeded fault: an action that is still pending is kept.
showConfirmOnce(o) ==
  /\ Uncounted /\ modal = NoModal /\ Offered(o) /\ o.how = "confirm"
  /\ \E a \in Targets(o) :
       /\ pending' = IF pending # None THEN pending ELSE [what |-> o, app |-> a]
       /\ modal' = [kind |-> "confirm", what |-> o, app |-> a]
  /\ UNCHANGED <<place, selection, header, liveVars, filters, lookup, panel, view, tasks>>

\* showConfirm(): the dialog, and the action its button runs.
showConfirm(o) ==
  /\ Uncounted /\ modal = NoModal /\ Offered(o) /\ o.how = "confirm"
  /\ \E a \in Targets(o) :
       /\ pending' = [what |-> o, app |-> a]
       /\ modal' = [kind |-> "confirm", what |-> o, app |-> a]
  /\ UNCHANGED <<place, selection, header, liveVars, filters, lookup, panel, view, tasks>>

\* The button of the dialog: the organisation is read now.
executePendingConfirm(s) ==
  /\ Event("dialog") /\ Free(s) /\ modal.kind = "confirm"
  /\ pending' = None
  /\ modal' = NoModal
  /\ tasks' = IF pending = None THEN tasks
              ELSE [tasks EXCEPT ![s] = Sent(pending.what, pending.app)]
  /\ UNCHANGED <<place, selection, header, liveVars, filters, lookup, panel, view>>

\* The forms, and the dialogs that only show something.
OpenDialog(kind, o) ==
  /\ Uncounted /\ modal = NoModal
  /\ \/ kind = "form" /\ Offered(o) /\ o.how = "form" /\ modal' = [NoModal EXCEPT !.kind = kind, !.what = o]
     \/ kind = "signIn" /\ key = None /\ view.screen # "boot" /\ modal' = [NoModal EXCEPT !.kind = kind]
     \/ kind \in {"step", "payload"} /\ view.screen = "detail" /\ view.kind = "data"
        /\ modal' = [NoModal EXCEPT !.kind = kind]
  /\ UNCHANGED <<place, selection, header, liveVars, pending, filters, lookup, panel, view, tasks>>

\* The button of a form; the form stays until the answer.
SubmitForm(s) ==
  /\ Event("dialog") /\ Free(s) /\ modal.kind = "form"
  /\ \E a \in Targets(modal.what) : tasks' = [tasks EXCEPT ![s] = Sent(modal.what, a)]
  /\ UNCHANGED <<place, selection, header, liveVars, dialog, filters, lookup, panel, view>>

\* Escape, the overlay, the close buttons: pendingConfirmAction is kept.
closeModal ==
  /\ Uncounted /\ modal # NoModal
  /\ modal' = NoModal
  /\ UNCHANGED <<place, selection, header, liveVars, pending, filters, lookup, panel, view, tasks>>

\* "Copy" in the dialog that shows a new key.
CopyAndClose(s) ==
  /\ Event("dialog") /\ Free(s) /\ modal.kind = "token"
  /\ modal' = NoModal
  /\ UNCHANGED <<place, selection, header, liveVars, pending, filters, wfMap>>
  /\ renderContentView(tasks, s, FALSE, wfApp)

\* The link to a child workflow in the drawer of a step.
ViewChild(w) ==
  /\ Event("dialog") /\ modal.kind = "step"
  /\ modal' = NoModal
  /\ navigate([route |-> "detail", wf |-> w])
  /\ UNCHANGED <<route, wfId, selection, header, liveVars, pending, filters, lookup, panel,
                 view, tasks>>

\* switchWfTab() up to its await.
switchWfTab(t, s) ==
  /\ Click("tab") /\ Free(s) /\ tab # None
  /\ tab' = t
  /\ tabShown' = IF WritesFirst(t) THEN "loading" ELSE tabShown
  /\ tasks' = [(IF WritesFirst(t) THEN PanelWritten(tasks) ELSE tasks) EXCEPT ![s] =
        [Idle EXCEPT !.kind = "tab", !.then = t, !.live = TRUE, !.org = org,
                     !.app = TargetApp(wfApp, wfMap, wfId, app), !.wf = wfId]]
  /\ UNCHANGED <<place, selection, header, liveVars, dialog, filters, lookup, view>>

Answer(s) ==
  \/ OrgsAnswer(s) \/ AppsAnswer(s) \/ DetailAnswer(s) \/ LoadAnswer(s) \/ SearchAnswer(s)
  \/ OperationAnswer(s) \/ TabAnswer(s)

UserStep(s) ==
  \/ Refresh(s) \/ executePendingConfirm(s) \/ SubmitForm(s) \/ CopyAndClose(s)
  \/ \E a \in Apps \cup {None} : onAppChange(a, s)
  \/ \E o \in Orgs : onOrgChange(o, s)
  \/ \E k \in {None, "token", org} : SignIn(k, s)
  \/ \E f \in DOMAIN filters, p \in 0..MaxPage : Filter(f, p, s)
  \/ \E o \in Operations : Operate(o, s)
  \/ \E t \in Tabs : switchWfTab(t, s)

OtherStep ==
  \/ closeModal \/ StreamEvent
  \/ \E h \in Hashes : Navigate(h)
  \/ \E w \in Workflows : OpenWorkflow(w) \/ ViewChild(w)
  \/ \E m \in Modes : setPollInterval(m)
  \/ \E o \in Operations : showConfirm(o) \/ OpenDialog("form", o)
  \/ \E k \in {"signIn", "step", "payload"} : OpenDialog(k, None)
  \/ \E o \in Orgs : \E a \in Registered[o] \cup {None} : OtherTab(o, a)

Next ==
  \/ OtherStep
  \/ \E s \in Slots : Answer(s) \/ HashChange(s) \/ Tick(s) \/ Debounced(s) \/ UserStep(s)

(***************************************************************************)
(* Every request is answered or fails in the end, and the browser delivers *)
(* its events; the user and the timers owe nothing.                        *)
(***************************************************************************)
Fairness ==
  /\ \A s \in Slots : WF_vars(Answer(s))
  /\ WF_vars(\E s \in Slots : HashChange(s))

Spec == Init /\ [][Next]_vars /\ Fairness

(***************************************************************************)
(* Properties                                                              *)
(***************************************************************************)
Task == [kind : {"idle", "orgs", "apps", "load", "search", "operation", "tab"},
         then : {None, "init", "render", "orgSwitch", "fleet", "steps", "io", "events", "notifications",
                 "detail", "navigate", "close", "refresh", "closeRefresh", "token"},
         screen : ScreenNames \cup {None}, live : BOOLEAN, org : Orgs \cup {None},
         app : AppNames, apps : SUBSET AppNames, wf : Workflows \cup {None}, page : 0..MaxPage]
View == [screen : Routes \cup {"boot"},
         kind : {"loading", "choose", "data", "signIn", "offline", "error"},
         error : ErrorClasses \cup {None}, org : Orgs \cup {None}, app : AppNames,
         apps : SUBSET AppNames, label : AppNames, wf : Workflows \cup {None}, page : 0..MaxPage]

\* The values every variable of the console takes.
ConsoleTypeOK ==
  /\ hash \in Hashes /\ hashEvents \in Nat
  /\ route \in Routes /\ wfId \in Workflows \cup {None}
  /\ org \in Orgs /\ orgs \subseteq Orgs /\ storedOrg \in Orgs \cup {None}
  /\ app \in Apps \cup {None} /\ apps \subseteq Apps /\ storedApp \in Apps \cup {None}
  /\ key \in Keys
  /\ header \in [org : Orgs \cup {None}, app : Apps \cup {None}, apps : SUBSET Apps, orgs : SUBSET Orgs]
  /\ mode \in Modes /\ timer \in Intervals \cup {None}
  /\ sse \in [org : Orgs, app : Apps \cup {None}] \cup {None}
  /\ debounced \in BOOLEAN
  /\ modal \in [kind : {"none", "confirm", "form", "signIn", "step", "payload", "token"},
                what : Operations \cup {None}, app : AppNames]
  /\ pending \in [what : Operations, app : AppNames] \cup {None}
  /\ filters \in [{"audit", "metrics"} -> 0..MaxPage]
  /\ wfApp \in AppNames /\ wfMap \in [Workflows -> AppNames]
  /\ tab \in Tabs \cup {None} /\ tabShown \in Tabs \cup {None, "loading", "unavailable"}
  /\ view \in View
  /\ tasks \in [Slots -> Task]
  /\ events \in 0..MaxEvents

\* An older load never writes over the screen of a newer route: what is shown
\* belongs to the current route.  (Cancelling or resuming a workflow renders
\* its detail wherever the user is by then.)
ViewMatchesRoute == view.screen \in {route, "detail", "boot"}

\* An organisation is being selected: its applications are awaited.
Switching == \E s \in Slots : tasks[s].kind = "apps" /\ tasks[s].then \in {"init", "orgSwitch"}

\* Once a switch of organisation is complete, nothing that was asked for under
\* another organisation is in the content view, and no request that can still
\* write there asks for another one, whenever it is answered.  (While the new
\* list of applications is awaited the old content stays; the list itself is
\* not covered: see AppsOfOrg.)
OrgIsolated ==
  ~Switching =>
    /\ view.org \in {None, org}
    /\ \A s \in Slots : tasks[s].live => tasks[s].org = org

\* The action a confirmation dialog would run is the one it describes, after
\* any number of dialogs that were opened, replaced, dismissed or swept away.
ConfirmMatchesDialog ==
  modal.kind = "confirm" => pending = [what |-> modal.what, app |-> modal.app]

\* Exactly the live source the mode names is active, also after a stream
\* could not be opened and the console fell back to polling.
LiveSourceMatchesMode ==
  /\ (sse # None) = (mode = "stream")
  /\ timer = IF mode \in Intervals THEN mode ELSE None

\* The spinner of a screen, and that of a tab that catches a failure, gives way
\* to an answer in the end.  (The notifications are awaited without a catch: a
\* failure leaves their spinner for ever, and refutes PanelShowsTab.)
SpinnersEnd ==
  <>[](view.kind # "loading" /\ (tabShown = "loading" => ~CatchesFailure(tab)))

Quiet == hashEvents = 0 /\ \A s \in Slots : tasks[s] = Idle

\* docs/manual/dashboard-acceptance.md: switching applications updates the
\* active application context across all views.
ViewFollowsSelection ==
  Quiet /\ view.kind = "data" /\ "app" \in Screens[view.screen].scope => view.app = app

\* ... after a switch of organisation the list of applications is the new one's.
AppsOfOrg == Quiet => apps \subseteq Registered[org]

\* ... clicking a navigation item switches the active view.
NavigationWins == Quiet => view.screen = route

\* ... unauthorized requests prompt for an API key or a token.
UnauthorizedPrompts == view.error \in Unauthorized => view.kind = "signIn"

\* console/src/app.js:773: API keys are per organisation and cannot follow the switch.
KeyStaysInOrg == [][org' # org /\ key' \in Orgs => key' = org']_vars

\* The tab's panel shows the active tab.
PanelShowsTab == Quiet => tabShown \in {tab, "unavailable"}
=============================================================================
