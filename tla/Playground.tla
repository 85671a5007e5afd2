----------------------------- MODULE Playground -----------------------------
(***************************************************************************)
(* The playground page (site/playground/playground.js) with the console    *)
(* that it shows in a frame, whose requests relay-bridge.js answers from   *)
(* the database of the page and from RelayBridge's directory.              *)
(*                                                                         *)
(* The page opens PGlite, creates its tables and fills them with a demo    *)
(* workflow.  A click on Run writes a workflow step by step, with a pause  *)
(* between two steps in which everything else may happen; a click on Reset *)
(* writes the demo data again.  The page tells the console of a change by  *)
(* a message on a BroadcastChannel or by setting the location of the frame,*)
(* and the console reads the database some time after that.                *)
(*                                                                         *)
(* PGlite runs one statement, or one exec() of several, at a time.  The SQL*)
(* that a user types is taken to read only.  The clocks, the texts and the *)
(* themes are left out.                                                    *)
(***************************************************************************)
EXTENDS RelayBridge, FiniteSets

CONSTANTS Numbers,    \* the numbers that runWorkflow() draws from
          Draws,      \* the ones Math.random() yields, one for each click
          Demo,       \* the number of the demo workflow, 89214 in the code
          MaxErrors,  \* bound on the statements that throw once there are tables
          MaxClicks   \* bound on what the user does: clicks and requests

ASSUME PlaygroundAssumption ==
  /\ Demo \in Numbers /\ Draws \in [1..MaxClicks -> Numbers]
  /\ MaxErrors \in Nat /\ MaxClicks \in Nat

VARIABLES engine,        \* window.pgliteDb: "none", "pglite" or "fallback"
          loading,       \* what initDatabase() does next
          tables,        \* the schema exists
          rows,          \* dbos.workflow_status: the status by workflow
          ops,           \* dbos.operation_execution
          at,            \* where runWorkflow() is; "idle" is ~isRunning
          suffix,        \* the number it drew
          drawn,         \* numbers drawn so far
          early,         \* history: those drawn before the demo data were there
          broken,        \* history: those whose run was ended by an error
          injectFailure,
          resets,        \* resetDatabase() calls that wait for executeSql()
          hash,          \* the location of the frame
          renders,       \* messages and location changes not yet handled
          shown,         \* what the console shows
          clicks         \* what the user may still do

database == <<engine, loading, tables, rows, ops>>
run == <<at, suffix, drawn, early, broken, injectFailure>>
console == <<hash, renders, shown>>
vars == <<directory, database, run, resets, console, clicks>>

ord(n) == <<"ord", n>>
pay(n) == <<"pay", n>>
auth == <<"auth", Demo>>
ship == <<"ship", Demo>>
Workflows == {ord(n) : n \in Numbers} \cup {pay(n) : n \in Numbers} \cup {auth, ship}
Fleet == <<"fleet", Demo>>

NoRows == [w \in {} |-> "SUCCESS"]

Op(w, f, status) == [wf |-> w, fid |-> f, status |-> status, child |-> Fleet]
ChildOp(w, f, c) == [wf |-> w, fid |-> f, status |-> "SUCCESS", child |-> c]

Init ==
  /\ BridgeInit
  /\ engine = "none" /\ loading = "import"
  /\ tables = FALSE /\ rows = NoRows /\ ops = {}
  /\ at = "idle" /\ suffix = Demo /\ drawn = {Demo} /\ early = {} /\ broken = {}
  /\ injectFailure = FALSE
  /\ resets = 0
  /\ hash = Fleet /\ renders = 0 /\ shown = [of |-> Fleet, status |-> "none"]
  /\ clicks = MaxClicks

Click == clicks > 0 /\ clicks' = clicks - 1

(***************************************************************************)
(* The database                                                            *)
(***************************************************************************)
\* A query can be answered: otherwise it throws.
Answers == engine = "fallback" \/ (engine = "pglite" /\ tables)

\* The demo data of seedInitialData(); the other tables never change.
DemoRows == [w \in {ord(Demo), auth, ship} |-> "SUCCESS"]
DemoOps ==
  {Op(ord(Demo), f, "SUCCESS") : f \in {1, 2, 5}}
  \cup {ChildOp(ord(Demo), 3, auth), ChildOp(ord(Demo), 4, ship)}
  \cup {Op(w, f, "SUCCESS") : w \in {auth, ship}, f \in {1, 2}}

\* seedInitialData(): one exec() that deletes everything and inserts the demo.
\* The emulator's exec() does nothing.
Seeded ==
  IF engine = "pglite" THEN rows' = DemoRows /\ ops' = DemoOps ELSE UNCHANGED <<rows, ops>>

\* The emulator answers a write as if it had been made.
Inserted(w, status) ==
  rows' = IF engine = "fallback" THEN rows
          ELSE [v \in DOMAIN rows \cup {w} |-> IF v = w THEN status ELSE rows[v]]

\* UPDATE ... WHERE workflow_id = w, which matches nothing if the row is gone.
Updated(w, status) ==
  rows' = IF w \in DOMAIN rows THEN [rows EXCEPT ![w] = status] ELSE rows

Recording(S) == ops' = IF engine = "fallback" THEN ops ELSE ops \cup S

(***************************************************************************)
(* initDatabase()                                                          *)
(***************************************************************************)
\* Any of its steps may throw; the emulator then replaces the database.
initFallbackEngine ==
  /\ loading \in {"import", "schema", "seed"}
  /\ engine' = "fallback" /\ loading' = "done"
  /\ rows' = NoRows /\ ops' = {}
  /\ renders' = renders + 1
  /\ UNCHANGED <<directory, tables, run, resets, hash, shown, clicks>>

\* The database can be reached before its tables exist.
ImportPGlite ==
  /\ loading = "import"
  /\ engine' = "pglite" /\ loading' = "schema"
  /\ UNCHANGED <<directory, tables, rows, ops, run, resets, console, clicks>>

createSchema ==
  /\ loading = "schema"
  /\ tables' = TRUE /\ loading' = "seed"
  /\ UNCHANGED <<directory, engine, rows, ops, run, resets, console, clicks>>

seedInitialData ==
  /\ loading = "seed"
  /\ loading' = "done"
  /\ Seeded
  /\ renders' = renders + 1
  /\ UNCHANGED <<directory, engine, tables, run, resets, hash, shown, clicks>>

(***************************************************************************)
(* resetDatabase()                                                         *)
(***************************************************************************)
\* Without tables exec() throws and the rest is not reached.
resetDatabase ==
  /\ Click /\ Answers
  /\ Seeded
  /\ renders' = renders + 1
  /\ resets' = resets + 1
  /\ UNCHANGED <<directory, engine, loading, tables, run, hash, shown>>

\* Setting a location is an event only if it differs.
Located(h) == hash' = h /\ renders' = renders + (IF h = hash THEN 0 ELSE 1)

\* Seeded fault: the console stays where it is.
ResetDoneInPlace ==
  /\ resets > 0
  /\ resets' = resets - 1
  /\ UNCHANGED <<directory, database, run, hash, renders, shown, clicks>>

\* After executeSql(), whose failure is caught.
ResetDone ==
  /\ resets > 0
  /\ resets' = resets - 1
  /\ Located(Fleet)
  /\ UNCHANGED <<directory, database, run, shown, clicks>>

(***************************************************************************)
(* runWorkflow()                                                           *)
(***************************************************************************)
toggleFailure ==
  /\ Click
  /\ injectFailure' = ~injectFailure
  /\ UNCHANGED <<directory, database, at, suffix, drawn, early, broken, resets, console>>

\* A click on Run; nothing while a workflow runs.  The number is random, one of
\* 90000; that it is drawn twice, or is the demo's, is not modelled.
runWorkflow(n) ==
  /\ Click /\ at = "idle"
  /\ n = Draws[Cardinality(drawn)] /\ n \notin drawn
  /\ at' = "insert" /\ suffix' = n /\ drawn' = drawn \cup {n}
  /\ early' = early \cup (IF loading = "done" THEN {} ELSE {n})
  /\ UNCHANGED <<directory, database, broken, injectFailure, resets, console>>

Goto(next) ==
  /\ at' = next
  /\ UNCHANGED <<engine, loading, tables, suffix, drawn, early, broken, injectFailure>>

\* The PENDING row, and the console is sent to the workflow.  What follows a
\* statement runs before what follows any later one, so the two are one step.
InsertWorkflow ==
  /\ at = "insert" /\ Answers
  /\ Inserted(ord(suffix), "PENDING")
  /\ Goto("validateCart")
  /\ hash' = ord(suffix)
  /\ renders' = renders + 1 + (IF hash = ord(suffix) THEN 0 ELSE 1)
  /\ UNCHANGED <<ops, shown>>

\* One step that succeeds.
StepDone(pc, f, next) ==
  /\ at = pc /\ Answers
  /\ Recording({Op(ord(suffix), f, "SUCCESS")})
  /\ Goto(next)
  /\ UNCHANGED <<rows, console>>

\* The switch is read when the step begins.
StepFailed ==
  /\ at = "reserveInventory" /\ injectFailure /\ Answers
  /\ Recording({Op(ord(suffix), 1, "ERROR")})
  /\ Goto("failed")
  /\ UNCHANGED <<rows, console>>

\* Seeded fault: the console is not told.
FinishedQuietly(pc, status) ==
  /\ at = pc /\ Answers
  /\ Updated(ord(suffix), status)
  /\ Goto("idle")
  /\ UNCHANGED <<ops, console>>

\* The row is written, then the console is told.
Finished(pc, status) ==
  /\ at = pc /\ Answers
  /\ Updated(ord(suffix), status)
  /\ Goto("idle")
  /\ renders' = renders + 1
  /\ UNCHANGED <<ops, hash, shown>>

\* The child workflow is written by three statements.
InsertChild ==
  /\ at = "authorizePayment" /\ Answers
  /\ Inserted(pay(suffix), "SUCCESS")
  /\ Goto("linkChild")
  /\ UNCHANGED <<ops, console>>

LinkChild ==
  /\ at = "linkChild" /\ Answers
  /\ Recording({ChildOp(ord(suffix), 2, pay(suffix))})
  /\ Goto("childSteps")
  /\ UNCHANGED <<rows, console>>

ChildSteps ==
  /\ at = "childSteps" /\ Answers
  /\ Recording({Op(pay(suffix), f, "SUCCESS") : f \in {0, 1}})
  /\ Goto("scheduleShipping")
  /\ UNCHANGED <<rows, console>>

\* A statement that throws ends the run where it is, and the row stays what it
\* was: without a database or its tables every statement throws, later any one
\* may.  The emulator's never do.
RunThrows ==
  /\ at # "idle" /\ engine # "fallback"
  /\ ~Answers \/ Cardinality(broken) < MaxErrors
  /\ at' = "idle" /\ broken' = IF Answers THEN broken \cup {suffix} ELSE broken
  /\ UNCHANGED <<engine, loading, tables, suffix, drawn, early, injectFailure>>
  /\ UNCHANGED <<rows, ops, console>>

\* Seeded fault: a failed step does not stop the workflow.
RunStepFallsThrough ==
  \/ InsertWorkflow
  \/ StepDone("validateCart", 0, "reserveInventory")
  \/ /\ at = "reserveInventory" /\ Answers
     /\ Recording({Op(ord(suffix), 1, IF injectFailure THEN "ERROR" ELSE "SUCCESS")})
     /\ Goto("authorizePayment") /\ UNCHANGED <<rows, console>>
  \/ InsertChild \/ LinkChild \/ ChildSteps
  \/ StepDone("scheduleShipping", 3, "sendReceiptNotification")
  \/ StepDone("sendReceiptNotification", 4, "complete")
  \/ Finished("complete", "SUCCESS")
  \/ RunThrows

\* Seeded fault: an error leaves isRunning set.
RunStepNoFinally ==
  \/ InsertWorkflow
  \/ StepDone("validateCart", 0, "reserveInventory")
  \/ StepFailed
  \/ Finished("failed", "ERROR")
  \/ ~injectFailure /\ StepDone("reserveInventory", 1, "authorizePayment")
  \/ InsertChild \/ LinkChild \/ ChildSteps
  \/ StepDone("scheduleShipping", 3, "sendReceiptNotification")
  \/ StepDone("sendReceiptNotification", 4, "complete")
  \/ Finished("complete", "SUCCESS")

\* The statements of runWorkflow() in their order, and its catch and finally.
RunStep ==
  \/ InsertWorkflow
  \/ StepDone("validateCart", 0, "reserveInventory")
  \/ StepFailed
  \/ Finished("failed", "ERROR")
  \/ ~injectFailure /\ StepDone("reserveInventory", 1, "authorizePayment")
  \/ InsertChild \/ LinkChild \/ ChildSteps
  \/ StepDone("scheduleShipping", 3, "sendReceiptNotification")
  \/ StepDone("sendReceiptNotification", 4, "complete")
  \/ Finished("complete", "SUCCESS")
  \/ RunThrows

(***************************************************************************)
(* What the bridge answers, and what the console makes of it               *)
(***************************************************************************)
\* Seeded fault: the canned workflow is served only while there is no database.
WorkflowOfEngine(w) ==
  IF engine = "pglite" /\ tables THEN (IF w \in DOMAIN rows THEN rows[w] ELSE "404")
  ELSE IF w = ord(Demo) THEN "SUCCESS" ELSE "404"

\* GET a workflow: its row; if there is none, or the query fails, the workflow
\* that the bridge has of its own.
Workflow(w) ==
  IF w \in DOMAIN rows THEN rows[w]
  ELSE IF w = ord(Demo) THEN "SUCCESS" ELSE "404"

\* GET its steps, with five canned steps of the demo.
StepsOf(w) ==
  LET found == {o \in ops : o.wf = w}
  IN IF found # {} THEN Cardinality(found) ELSE IF w = ord(Demo) THEN 5 ELSE 0

View(h) == [of |-> h, status |-> IF h = Fleet THEN "none" ELSE Workflow(h)]

\* The console handles a message or a new location: it draws its screen again.
Render ==
  /\ renders > 0
  /\ renders' = renders - 1
  /\ shown' = View(hash)
  /\ UNCHANGED <<directory, database, run, resets, hash, clicks>>

Next ==
  \/ initFallbackEngine \/ ImportPGlite \/ createSchema \/ seedInitialData
  \/ resetDatabase \/ ResetDone
  \/ toggleFailure
  \/ \E n \in Numbers : runWorkflow(n)
  \/ RunStep /\ UNCHANGED <<directory, resets, clicks>>
  \/ Render
  \/ Click /\ BridgeNext /\ UNCHANGED <<database, run, resets, console>>

\* The event loop runs every continuation and delivers every message; a
\* statement of the database is answered or throws.
Fairness ==
  /\ WF_vars(RunStep /\ UNCHANGED <<directory, resets, clicks>>)
  /\ WF_vars(ResetDone)
  /\ WF_vars(Render)

Spec == Init /\ [][Next]_vars /\ Fairness
-----------------------------------------------------------------------------
Places ==
  {"idle", "insert", "validateCart", "reserveInventory", "failed", "authorizePayment", "linkChild",
   "childSteps", "scheduleShipping", "sendReceiptNotification", "complete"}

\* The values of every variable.
PlaygroundTypeOK ==
  /\ BridgeTypeOK
  /\ engine \in {"none", "pglite", "fallback"}
  /\ loading \in {"import", "schema", "seed", "done"}
  /\ tables \in BOOLEAN
  /\ DOMAIN rows \subseteq Workflows
  /\ \A w \in DOMAIN rows : rows[w] \in {"PENDING", "SUCCESS", "ERROR"}
  /\ ops \subseteq [wf : Workflows, fid : 0..5, status : {"SUCCESS", "ERROR"},
                    child : Workflows \cup {Fleet}]
  /\ at \in Places
  /\ suffix \in Numbers /\ drawn \subseteq Numbers /\ early \subseteq drawn
  /\ broken \subseteq Numbers
  /\ injectFailure \in BOOLEAN
  /\ resets \in 0..MaxClicks /\ clicks \in 0..MaxClicks
  /\ renders \in Nat
  /\ hash \in Workflows \cup {Fleet}
  /\ shown \in [of : Workflows \cup {Fleet}, status : {"none", "404", "PENDING", "SUCCESS", "ERROR"}]

\* The steps that the table has of a workflow, and steps that succeeded.
StepsRecorded(w) == {[fid |-> o.fid, status |-> o.status] : o \in {p \in ops : p.wf = w}}
Succeeded(F) == {[fid |-> f, status |-> "SUCCESS"] : f \in F}

\* What the tables say of a run is one story, whenever it is read: SUCCESS with
\* five steps and the child they started, ERROR with the failed step last and no
\* child, PENDING only while runWorkflow() is at it or after an error has ended
\* it.  A reset in the middle of a run, or a failure armed in the middle of it,
\* does not mix the stories.  (The child has its SUCCESS before its steps, and
\* what a run writes after a reset belongs to no row: see NoOrphanSteps.)
RunsWhole ==
  \A n \in Numbers \ {Demo} : ord(n) \in DOMAIN rows =>
    CASE rows[ord(n)] = "SUCCESS" ->
           /\ StepsRecorded(ord(n)) = Succeeded(0..4)
           /\ pay(n) \in DOMAIN rows /\ StepsRecorded(pay(n)) = Succeeded({0, 1})
      [] rows[ord(n)] = "ERROR" ->
           /\ StepsRecorded(ord(n)) = Succeeded({0}) \cup {[fid |-> 1, status |-> "ERROR"]}
           /\ pay(n) \notin DOMAIN rows
      [] OTHER -> n \in broken \/ (at # "idle" /\ suffix = n)

\* The console is not left at a workflow that a reset has deleted.  (A run that is
\* started while the page still opens its database is deleted by the demo data, and
\* the console does stay at it.)
NoDanglingView ==
  engine = "pglite" =>
    \/ hash = Fleet \/ hash \in DOMAIN rows
    \/ resets > 0
    \/ \E n \in early : hash = ord(n)

\* Once everything is at rest the console shows what the database holds, by the
\* messages alone, without its polling.
ConsoleCatchesUp ==
  renders = 0 /\ at = "idle" /\ resets = 0 => shown = View(hash)

\* The demo workflow can be opened at any time: before there is a database, before
\* it has tables or data, during and after a reset, and with the emulator.
DemoAnswered == Workflow(ord(Demo)) = "SUCCESS" /\ StepsOf(ord(Demo)) = 5

\* The Run button comes back, whatever is thrown.
RunsEnd == (at # "idle") ~> (at = "idle")

\* When no reset is under way the steps belong to workflows that exist.  (Refuted:
\* a run goes on writing its steps after a reset deleted its row.)
NoOrphanSteps == \A o \in ops : o.wf \in DOMAIN rows
=============================================================================
