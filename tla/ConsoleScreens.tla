--------------------------- MODULE ConsoleScreens ---------------------------
(***************************************************************************)
(* What each screen of the web console asks for and shows, and what each   *)
(* of its operations changes (console/src/app.js, lib/api/client.ts).      *)
(* Nothing here has state: Console gives these tables their behaviour.     *)
(***************************************************************************)

(***************************************************************************)
(* The ways a request can fail, as far as the console tells them apart.    *)
(* ApiClient.request throws an error whose message is the detail of the    *)
(* problem document and which carries the HTTP status:                     *)
(*   noAuth     401 "Authorization header required"                        *)
(*   badKey     401 with any other detail ("Invalid API key")              *)
(*   forbidden  403                                                        *)
(*   missing    404; noLogin is the 404 whose message names OAuth          *)
(*   noExecutor 503 for want of a live executor                            *)
(*   storeDown  503 "database store is unavailable"                        *)
(*   other      any other status, or no answer at all                      *)
(***************************************************************************)
ErrorClasses == {"noAuth", "badKey", "forbidden", "missing", "noLogin",
                 "noExecutor", "storeDown", "other"}

Unauthorized == {"noAuth", "badKey"}    \* the ones with status 401

\* Both look at the text of the message, the second at the status too.
isAuthError == {"noAuth"}
isNoExecutorError == {"noExecutor", "storeDown"}

(***************************************************************************)
(* A screen: which parts of the selection its data depends on (scope),     *)
(* whether it needs an application to be selected, whether its rows are    *)
(* labelled with the application that is selected when the answer comes,   *)
(* which errors are dropped (and which only while all applications are     *)
(* shown, one request each), which call for a sign-in (renderAuthRequired) *)
(* and which for the "No Connected Executors" card                         *)
(* (renderNoExecutorState); the rest reach renderErrorState.               *)
(***************************************************************************)
fleetScreen ==
  [scope |-> {"org", "app"}, needsApp |-> FALSE, relabels |-> FALSE,
   drops |-> ErrorClasses, dropsInAll |-> ErrorClasses,
   signIn |-> {}, offline |-> {}]

workflowsScreen ==
  [scope |-> {"org", "app"}, needsApp |-> FALSE, relabels |-> TRUE,
   drops |-> {}, dropsInAll |-> ErrorClasses, signIn |-> {}, offline |-> {}]

workflowDetailScreen ==
  [scope |-> {"org", "wf"}, needsApp |-> FALSE, relabels |-> FALSE,
   drops |-> {}, dropsInAll |-> {}, signIn |-> {}, offline |-> {}]

queuesScreen ==
  [workflowsScreen EXCEPT !.offline = isNoExecutorError]

schedulesScreen ==
  [workflowsScreen EXCEPT !.offline = isNoExecutorError]

alertingScreen ==
  [workflowsScreen EXCEPT !.signIn = isAuthError]

keysScreen ==
  [scope |-> {"org"}, needsApp |-> FALSE, relabels |-> FALSE,
   drops |-> {}, dropsInAll |-> {}, signIn |-> isAuthError, offline |-> {}]

\* Of its three requests a failure of listPermissions alone is dropped.
rolesScreen == keysScreen

settingsScreen ==
  [scope |-> {"org", "app"}, needsApp |-> TRUE, relabels |-> FALSE,
   drops |-> {}, dropsInAll |-> {}, signIn |-> isAuthError, offline |-> {}]

\* An application without a policy answers 404; the list of queues and the
\* recommendations may fail and leave a note on the screen.
autoscalingScreen == [settingsScreen EXCEPT !.drops = {"missing", "noLogin"}]

\* The metrics of the whole server, narrowed by the screen's own filters.
metricsScreen ==
  [scope |-> {"page"}, needsApp |-> FALSE, relabels |-> FALSE,
   drops |-> {}, dropsInAll |-> {},
   signIn |-> isAuthError \cup {"forbidden"}, offline |-> {}]

auditScreen ==
  [scope |-> {"org", "page"}, needsApp |-> FALSE, relabels |-> FALSE,
   drops |-> {}, dropsInAll |-> {},
   signIn |-> isAuthError \cup {"noLogin"}, offline |-> {}]

\* renderContentView's switch; any other route has no screen.
Screens ==
  [fleet |-> fleetScreen, workflows |-> workflowsScreen,
   detail |-> workflowDetailScreen, queues |-> queuesScreen,
   schedules |-> schedulesScreen, alerting |-> alertingScreen,
   keys |-> keysScreen, roles |-> rolesScreen, settings |-> settingsScreen,
   autoscaling |-> autoscalingScreen, metrics |-> metricsScreen,
   audit |-> auditScreen]

ScreenNames == DOMAIN Screens
Routes == ScreenNames \cup {"unknown"}

\* What a screen shows after error e; inAll: all applications are selected.
Presentation(screen, e, inAll) ==
  LET sc == Screens[screen] IN
  CASE e \in sc.drops -> "data"
    [] inAll /\ e \in sc.dropsInAll -> "data"
    [] e \in sc.signIn -> "signIn"
    [] e \in sc.offline -> "offline"
    [] OTHER -> "error"

(***************************************************************************)
(* An operation the user starts on a screen: where it is offered; how it   *)
(* is started (at once, through showConfirm, or from a form in a dialog);  *)
(* the application it is sent to (the one on the row, the one selected     *)
(* when it is sent, the one of the workflow shown, one the user picks, or  *)
(* none for what belongs to the organisation); and what it does when it    *)
(* succeeded.  A failure only shows a toast.  (The buttons that delete a   *)
(* role and grant or take away a member's are not among the ones the click *)
(* handler looks for, so they start nothing.)                              *)
(***************************************************************************)
Op(screen, how, to, then) == [screen |-> screen, how |-> how, to |-> to, then |-> then]

cancelWorkflow == Op("detail", "confirm", "row", "detail")
resumeWorkflow == Op("detail", "direct", "row", "detail")
restartWorkflow == Op("detail", "direct", "row", "navigate")
sendMessage == Op("detail", "form", "workflow", "close")
pauseSchedule == Op("schedules", "direct", "row", "refresh")
resumeSchedule == Op("schedules", "direct", "row", "refresh")
triggerSchedule == Op("schedules", "direct", "row", "navigate")
createAlert == Op("alerting", "form", "picked", "closeRefresh")
deleteAlertRule == Op("alerting", "confirm", "row", "refresh")
createKey == Op("keys", "form", "org", "token")
revokeKey == Op("keys", "confirm", "org", "refresh")
createRole == Op("roles", "form", "org", "closeRefresh")
appSettings == Op("settings", "direct", "selected", "refresh")
autoscalingPolicy == Op("autoscaling", "direct", "selected", "refresh")
deleteAutoscalingPolicy == Op("autoscaling", "confirm", "selected", "refresh")

Operations ==
  {cancelWorkflow, resumeWorkflow, restartWorkflow, sendMessage, pauseSchedule,
   resumeSchedule, triggerSchedule, createAlert, deleteAlertRule, createKey,
   revokeKey, createRole, appSettings, autoscalingPolicy, deleteAutoscalingPolicy}

\* The tabs of the detail screen: only the list of events catches a failure.
Tabs == {"io", "events", "notifications"}
CatchesFailure(tab) == tab = "events"
\* io fetches before it writes anything; the others write a spinner first.
WritesFirst(tab) == tab # "io"
=============================================================================
