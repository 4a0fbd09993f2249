----------------------------- MODULE WebClient -----------------------------
(***************************************************************************)
(* The web client's goal pages (web/src/App.tsx, AuthPanel.tsx): one tab,  *)
(* the account it is signed in to, the goal that is selected, the panels   *)
(* loaded for it and the AI job whose state is followed.                   *)
(*                                                                         *)
(* A handler runs from one await to the next with the values it had when   *)
(* it began: a request keeps them.  A step of the client is what runs      *)
(* between two awaits, the render it leads to and the effects of that      *)
(* render: they clear panels, send the requests that depend on what has    *)
(* changed, and restart the polling of the job.                            *)
(*                                                                         *)
(* The server is as much as its answers need: the goals of two accounts,   *)
(* the jobs of plans and failure reports.  Left out: forms and messages,   *)
(* the time line, the settings and the administration's pages.             *)
(***************************************************************************)
EXTENDS Integers, Sequences, FiniteSets, SequencesExt

CONSTANTS
  MaxGoals, MaxJobs,
  Scenes      \* what a behaviour begins with: [goal, owner, stored, page, async], and its
              \* bounds: the user's acts and their number, answers lost [acts, maxActs, maxFaults]

Goals == 1..MaxGoals
Jobs == 1..MaxJobs
Tokens == {1, 2}   \* the sessions of two accounts

VARIABLES
  scene,   \* what the user does in this behaviour and how the server is configured
  live,    \* the accounts that exist
  goal,    \* [Goals -> GoalStatus]: on the server
  owner,   \* [Goals -> Tokens \cup {0}]
  job,     \* [Jobs -> [goal, kind, status]]: on the server
  stored,  \* localStorage "goalmate.session"
  ui,      \* the component's state
  calls,   \* requests under way, in the order they were sent
  crossed, \* panels a load for another goal than the selected one may have filled
  latest,  \* the job that was tracked last
  taken,   \* jobs whose state a button's answer, not the polling, has shown
  torn,    \* an answer to a sign-in, a restoring or a list was lost or met another
  acts, faults

server == <<live, goal, owner, job>>
clientVars == <<scene, server, stored, ui, calls, crossed, latest, taken, torn, acts, faults>>
-----------------------------------------------------------------------------
GoalStatus == {"none", "DRAFT", "GENERATING", "GENERATION_FAILED", "WAITING_CONFIRMATION",
               "ACTIVE", "REPLANNING", "FAILED", "deleted"}
JobStatus == {"none", "QUEUED", "RUNNING", "SUCCEEDED", "FAILED", "CANCELLED"}
activeAiJobStatuses == {"QUEUED", "RUNNING"}
terminalAiJobStatuses == {"SUCCEEDED", "FAILED", "CANCELLED"}
Panels == {"board", "report", "artifacts", "health"}
Pages == {"create", "goals", "plan", "today", "rewards", "failure", "account"}
Flags == {"auth", "create", "generate", "replan", "confirm", "settle", "restart", "refresh", "cancel",
          "trend", "board", "report"}

ASSUME WebClientAssumption ==
  /\ MaxGoals \in Nat /\ MaxJobs \in Nat
  /\ Scenes \subseteq [goal : [Goals -> GoalStatus], owner : [Goals -> Tokens \cup {0}], stored : Tokens \cup {0},
                      page : Pages, async : BOOLEAN, acts : SUBSET STRING, maxActs : Nat, maxFaults : Nat]

NoGoals == [g \in Goals |-> "none"]
NoJob == [job |-> 0, status |-> "none"]
Fresh(page) ==
  [session |-> 0, page |-> page, sel |-> 0, list |-> NoGoals, of |-> 0, created |-> [goal |-> 0, status |-> "none"],
   plan |-> 0, panel |-> [p \in Panels |-> 0], tracked |-> NoJob, busy |-> {}]

NoAnswer == [ok |-> FALSE, list |-> NoGoals, goal |-> 0, job |-> 0, status |-> "none", ready |-> FALSE]
\* A request of u: what it asks for, and what the handler that waits for it remembers.
Ask(u, op, g) ==
  [op |-> op, at |-> "sent", token |-> u.session, goal |-> g, job |-> 0, sel |-> u.sel,
   pref |-> 0, then |-> "none", res |-> NoAnswer, got |-> NoAnswer]
AskList(u, pref, sel, then) == [Ask(u, "list", 0) EXCEPT !.pref = pref, !.sel = sel, !.then = then]
AskJob(u, op) == [Ask(u, op, 0) EXCEPT !.job = u.tracked.job]

Shows(u, g) == g # 0 /\ u.list[g] # "none"
StatusShown(u, g) == IF Shows(u, g) THEN u.list[g]
                     ELSE IF g # 0 /\ u.created.goal = g THEN u.created.status ELSE "none"
SelectedStatus(u) == StatusShown(u, u.sel)
\* selectedGoal ?? createdGoal
Target(u) == IF SelectedStatus(u) # "none" THEN u.sel ELSE u.created.goal
currentGoalId(u) == IF u.sel # 0 THEN u.sel
                    ELSE IF u.created.status = "ACTIVE" THEN u.created.goal ELSE 0
Tracking(u) == u.session # 0 /\ u.tracked.status \in activeAiJobStatuses

\* The newest goal first, as the list is ordered.
getDefaultGoalId(list) ==
  LET of(S) == {g \in Goals : list[g] \in S}
      first(S) == CHOOSE g \in S : \A h \in S : h <= g
  IN IF of({"ACTIVE"}) # {} THEN first(of({"ACTIVE"}))
     ELSE IF of({"WAITING_CONFIRMATION"}) # {} THEN first(of({"WAITING_CONFIRMATION"}))
     ELSE IF of(GoalStatus \ {"none"}) # {} THEN first(of(GoalStatus \ {"none"})) ELSE 0
-----------------------------------------------------------------------------
(* A render.  u is what was shown, v what the handler has set.              *)

\* Mutant of SignedOut: the goals stay.
SignedOutWithGoals(u, v) ==
  IF v.session = 0 /\ u.session # 0 THEN [v EXCEPT !.sel = 0, !.panel = [p \in Panels |-> 0]] ELSE v
SignedOut(u, v) == IF v.session = 0 /\ u.session # 0
                   THEN [v EXCEPT !.list = NoGoals, !.of = 0, !.sel = 0, !.panel = [p \in Panels |-> 0]]
                   ELSE v

\* Mutant of Reselected: the failure report stays.
ReselectedWithReport(u, v) ==
  IF v.sel = u.sel THEN v
  ELSE [v EXCEPT !.panel = [p \in Panels |-> IF p \in {"health", "report"} THEN @[p] ELSE 0]]
Reselected(u, v) == IF v.sel = u.sel THEN v
                    ELSE [v EXCEPT !.panel = [p \in Panels |-> IF p = "health" THEN @[p] ELSE 0]]

Rendered(u, v) == Reselected(u, SignedOut(u, v))

\* The requests the effects send, each when one of its dependencies has changed.
Loads(u, v) ==
  LET one(enabled, c) == IF enabled THEN <<c>> ELSE <<>>
      in == v.session # 0
      session == u.session # v.session
      chosen == session \/ u.sel # v.sel
      seen == chosen \/ u.page # v.page
      status == SelectedStatus(v)
      known == seen \/ SelectedStatus(u) # status
  IN one(in /\ session, AskList(v, 0, v.sel, "none"))
     \o one(in /\ seen /\ v.sel # 0 /\ v.page = "rewards", Ask(v, "board", v.sel))
     \o one(in /\ known /\ v.sel # 0 /\ v.page = "failure" /\ status = "FAILED", Ask(v, "report", v.sel))
     \o one(in /\ chosen, [Ask(v, "daily", v.sel) EXCEPT !.pref = currentGoalId(v)])
     \o one(in /\ known /\ v.sel # 0 /\ v.plan # v.sel
              /\ (v.page = "plan" \/ status \in {"WAITING_CONFIRMATION", "ACTIVE"}), Ask(v, "plan", v.sel))

PollRestarts(u, v) == u.session # v.session \/ u.tracked # v.tracked \/ u.sel # v.sel
IsPoll(c) == c.op = "poll"
\* Mutant of Polls: the polling that is stopped takes its answer.
PollsGoOn(u, v, waiting) ==
  IF PollRestarts(u, v) /\ Tracking(v) THEN Append(waiting, AskJob(v, "poll")) ELSE waiting

\* The polling that is stopped ignores its answer; the new one asks at once.
Polls(u, v, waiting) ==
  LET polls == {i \in DOMAIN waiting : IsPoll(waiting[i])}   \* one at most
      left == IF polls = {} THEN waiting ELSE RemoveAt(waiting, CHOOSE i \in polls : TRUE)
  IN IF ~PollRestarts(u, v) THEN waiting
     ELSE IF Tracking(v) THEN Append(left, AskJob(v, "poll")) ELSE left

PanelsOf(c) == CASE c.op = "board" -> {"board"}
                 [] c.op \in {"report", "settle"} \/ (c.op = "list" /\ c.then = "settled") -> {"report"}
                 [] c.op = "daily" -> {"artifacts", "health"}
                 [] c.op = "trend" -> {"artifacts"}
                 [] OTHER -> {}
Filling(waiting) == UNION {PanelsOf(waiting[i]) : i \in DOMAIN waiting}
About(c) == IF c.op = "daily" /\ c.goal = 0 THEN c.pref ELSE IF c.op = "list" THEN c.pref ELSE c.goal
Crossing(u, waiting) == UNION {PanelsOf(waiting[i]) : i \in {i \in DOMAIN waiting : About(waiting[i]) # u.sel}}

\* The client's state becomes v, with the requests kept and sent.
Step(v, kept, sent) ==
  LET w == Rendered(ui, v)
      asked == sent \o Loads(ui, w)
      waiting == Polls(ui, w, kept \o asked)
      loading == {asked[i].op : i \in DOMAIN asked} \cap {"board", "report"}
  IN
  /\ ui' = [w EXCEPT !.busy = @ \cup loading]
  /\ calls' = waiting
  /\ crossed' = Crossing(w, waiting)
                \cup {p \in crossed \cup Crossing(ui, calls) : w.panel[p] \notin {0, w.sel}}
-----------------------------------------------------------------------------
(* What the user does.                                                      *)

Act(name) == /\ name \in scene.acts /\ acts < scene.maxActs /\ acts' = acts + 1
Pressable(flag) == flag \notin ui.busy
Begun(u, flag) == [u EXCEPT !.busy = @ \cup {flag}]
Done(u, flag) == [u EXCEPT !.busy = @ \ {flag}]

\* Nothing of the server, and nothing the acts below do not name, changes.
Quiet == UNCHANGED <<scene, server, latest, taken, faults>>

Select(g) ==
  /\ Act("select") /\ Shows(ui, g)
  /\ Step([ui EXCEPT !.sel = g, !.created = [goal |-> g, status |-> ui.list[g]]], calls, <<>>)
  /\ Quiet /\ UNCHANGED <<stored, torn>>

setActivePage(p) ==
  /\ Act("page") /\ p # ui.page
  /\ Step([ui EXCEPT !.page = p], calls, <<>>)
  /\ Quiet /\ UNCHANGED <<stored, torn>>

\* A request for the goal that the page is about, by a button that is disabled meanwhile.
Press(name, g) ==
  /\ Act(name) /\ ui.session # 0 /\ g # 0 /\ Pressable(name)
  /\ Step(Begun(ui, name), calls, <<Ask(ui, name, g)>>)
  /\ Quiet /\ UNCHANGED <<stored, torn>>

handleGeneratePlan == Press("generate", Target(ui))
handleRequestReplan == Press("replan", Target(ui))
handleConfirmPlan ==
  /\ ui.plan = ui.sel /\ SelectedStatus(ui) = "WAITING_CONFIRMATION"
  /\ Press("confirm", Target(ui))
handleSettleSelectedGoal == Press("settle", ui.sel)
\* The draft that is sent is the one in the report shown, which pref remembers.
handleRestartGoal ==
  /\ Act("restart") /\ ui.session # 0 /\ ui.sel # 0 /\ ui.panel["report"] # 0 /\ Pressable("restart")
  /\ Step(Begun(ui, "restart"), calls, <<[Ask(ui, "restart", ui.sel) EXCEPT !.pref = ui.panel["report"]]>>)
  /\ Quiet /\ UNCHANGED <<stored, torn>>
handleCreateGoal ==
  /\ Act("create") /\ ui.session # 0 /\ Pressable("create")
  /\ Step(Begun(ui, "create"), calls, <<Ask(ui, "create", 0)>>)
  /\ Quiet /\ UNCHANGED <<stored, torn>>

\* No flag disables these: writing the goal's reward cards and its milestones, deleting it.
Again(name, op) ==
  /\ Act(name) /\ ui.session # 0 /\ ui.sel # 0
  /\ Step(ui, calls, <<Ask(ui, op, ui.sel)>>)
  /\ Quiet /\ UNCHANGED <<stored, torn>>
\* The deletion's handler has the job that was tracked when it began.
handleDeleteSelectedGoal ==
  /\ Act("delete") /\ ui.session # 0 /\ ui.sel # 0 /\ SelectedStatus(ui) # "none"
  /\ Step(ui, calls, <<[Ask(ui, "delete", ui.sel) EXCEPT !.job = ui.tracked.job]>>)
  /\ Quiet /\ UNCHANGED <<stored, torn>>
EditRewards == Again("cards", "card")
handleSetMilestoneCompletion == Again("milestone", "milestone")
handleGenerateReportArtifact == Press("trend", ui.sel)
\* A panel is loaded again by a button that is disabled from a load's start to the first end.
LoadPanel == \E op \in {"board", "report"} : Pressable(op) /\ Again("load", op)

handleRefreshTrackedAiJob ==
  /\ Act("refresh") /\ ui.session # 0 /\ ui.tracked.job # 0 /\ Pressable("refresh")
  /\ Step(Begun(ui, "refresh"), calls, <<AskJob(ui, "refresh")>>)
  /\ Quiet /\ UNCHANGED <<stored, torn>>
handleCancelTrackedAiJob ==
  /\ Act("cancel") /\ ui.session # 0 /\ ui.tracked.status = "QUEUED" /\ Pressable("cancel")
  /\ Step(Begun(ui, "cancel"), calls, <<AskJob(ui, "cancel")>>)
  /\ Quiet /\ UNCHANGED <<stored, torn>>

\* AuthPanel is shown to who is not signed in.
SignIn(t) ==
  /\ Act("signin") /\ ui.session = 0 /\ ui.page = "account" /\ Pressable("auth")
  /\ Step(Begun(ui, "auth"), calls, <<[Ask(ui, "signin", 0) EXCEPT !.token = t]>>)
  /\ torn' = (torn \/ \E i \in DOMAIN calls : calls[i].op = "me")
  /\ Quiet /\ UNCHANGED stored
handleDeleteCurrentAccount ==
  /\ Act("leave") /\ ui.session # 0
  /\ Step(ui, calls, <<Ask(ui, "leave", 0)>>)
  /\ Quiet /\ UNCHANGED <<stored, torn>>

\* The tab is closed and opened: what was asked for is done by the server or is not.
Reload ==
  /\ Act("reload")
  /\ ui' = Fresh("create")
  /\ calls' = IF stored = 0 THEN <<>> ELSE <<[Ask(ui', "me", 0) EXCEPT !.token = stored]>>
  /\ crossed' = {} /\ torn' = FALSE
  /\ Quiet /\ UNCHANGED stored

\* The interval of the polling; nothing is sent while an answer is awaited.
pollTrackedAiJob ==
  /\ Tracking(ui) /\ ~\E i \in DOMAIN calls : IsPoll(calls[i])
  /\ calls' = Append(calls, AskJob(ui, "poll"))
  /\ UNCHANGED <<scene, server, stored, ui, crossed, latest, taken, torn, acts, faults>>
-----------------------------------------------------------------------------
(* The server: what a request does and what it answers.                     *)

Mine(c, g) == g # 0 /\ goal[g] \notin {"none", "deleted"} /\ owner[g] = c.token /\ c.token \in live
JobOf(c) == c.job # 0 /\ Mine(c, job[c.job].goal)
NewGoals == {g \in Goals : goal[g] = "none"}
NewJobs == {j \in Jobs : job[j].status = "none"}
\* New rows take the next number.
Next1(S) == CHOOSE n \in S : \A m \in S : n <= m

Answered(i, got) == calls' = [calls EXCEPT ![i].at = "back", ![i].got = got]
Ok(g, s) == [NoAnswer EXCEPT !.ok = TRUE, !.goal = g, !.status = s]
OkJob(j, s, g, r) == [NoAnswer EXCEPT !.ok = TRUE, !.job = j, !.status = s, !.goal = g, !.ready = r]
Reported(g) == \E j \in Jobs : job[j] = [goal |-> g, kind |-> "report", status |-> "SUCCEEDED"]
ListFor(t) == [g \in Goals |-> IF owner[g] = t /\ goal[g] # "deleted" THEN goal[g] ELSE "none"]

Keep == UNCHANGED <<scene, stored, ui, crossed, latest, taken, torn, acts, faults>>
Serve(i, op) == /\ i \in DOMAIN calls /\ calls[i].at = "sent" /\ calls[i].op = op /\ Keep
Refuse(i) == Answered(i, NoAnswer) /\ UNCHANGED server

\* The answer of these reads is taken as they are when it arrives; of a goal that has been
\* deleted meanwhile, as it was or not at all.
Reads == {"board", "report", "plan", "daily", "card", "milestone", "trend"}
Found(c) ==
  LET seen == c.goal # 0 /\ owner[c.goal] = c.token
      gone == seen /\ goal[c.goal] = "deleted"
      plans == {"WAITING_CONFIRMATION", "ACTIVE", "REPLANNING", "FAILED"}
  IN IF c.op = "daily" /\ c.goal = 0 THEN {c.token \in live}
     ELSE IF c.token \notin live THEN {FALSE}
     ELSE IF c.op = "report" THEN {seen /\ Reported(c.goal)}
     ELSE IF c.op = "plan" /\ seen THEN {goal[c.goal] \in plans} \cup (IF goal[c.goal] = "DRAFT" THEN {} ELSE {TRUE})
     ELSE {seen} \cup (IF gone THEN {FALSE} ELSE {})

ServeReads(i) ==
  LET c == calls[i] IN
  \/ /\ Serve(i, "list") /\ UNCHANGED server
     /\ Answered(i, [NoAnswer EXCEPT !.ok = c.token \in live, !.list = ListFor(c.token)])
  \/ /\ Serve(i, "me") /\ UNCHANGED server
     /\ Answered(i, [NoAnswer EXCEPT !.ok = c.token \in live])
  \/ /\ \/ Serve(i, "poll") \/ Serve(i, "refresh")
     /\ UNCHANGED server
     /\ IF JobOf(c) THEN Answered(i, OkJob(c.job, job[c.job].status, job[c.job].goal, FALSE)) ELSE Refuse(i)

\* A queued job is made, or, where nothing is queued, its work done at once, which may
\* fail: the answer then has the job that failed and no plan.
ServePlan(i, op, from, during) ==
  LET c == calls[i]
      j == Next1(NewJobs)
      ends == IF scene.async THEN {[job |-> "QUEUED", goal |-> during]}
              ELSE {[job |-> "SUCCEEDED", goal |-> "WAITING_CONFIRMATION"], [job |-> "FAILED", goal |-> "GENERATION_FAILED"]}
  IN
  /\ Serve(i, op)
  /\ IF Mine(c, c.goal) /\ goal[c.goal] \in from /\ NewJobs # {}
     THEN \E e \in ends :
          /\ job' = [job EXCEPT ![j] = [goal |-> c.goal, kind |-> "plan", status |-> e.job]]
          /\ goal' = [goal EXCEPT ![c.goal] = e.goal]
          /\ Answered(i, [OkJob(j, e.job, c.goal, e.job = "SUCCEEDED") EXCEPT !.list = [NoGoals EXCEPT ![c.goal] = e.goal]])
          /\ UNCHANGED <<live, owner>>
     ELSE Refuse(i)
ServeConfirm(i) ==
  LET c == calls[i] IN
  /\ Serve(i, "confirm")
  /\ IF Mine(c, c.goal) /\ goal[c.goal] = "WAITING_CONFIRMATION"
     THEN /\ goal' = [goal EXCEPT ![c.goal] = "ACTIVE"]
          /\ Answered(i, Ok(c.goal, "ACTIVE")) /\ UNCHANGED <<live, owner, job>>
     ELSE Refuse(i)

\* The goal's status may not change; where it fails, its report is made or queued.
ServeSettle(i) ==
  LET c == calls[i]
      j == Next1(NewJobs)
      end == IF scene.async THEN "QUEUED" ELSE "SUCCEEDED"
  IN
  /\ Serve(i, "settle")
  /\ \/ /\ Mine(c, c.goal) /\ goal[c.goal] = "ACTIVE" /\ NewJobs # {}
        /\ goal' = [goal EXCEPT ![c.goal] = "FAILED"]
        /\ job' = [job EXCEPT ![j] = [goal |-> c.goal, kind |-> "report", status |-> end]]
        /\ Answered(i, [OkJob(j, end, c.goal, ~scene.async) EXCEPT !.list = [NoGoals EXCEPT ![c.goal] = "FAILED"]])
        /\ UNCHANGED <<live, owner>>
     \/ /\ Mine(c, c.goal) /\ goal[c.goal] = "FAILED" /\ UNCHANGED server
        /\ \E k \in {k \in Jobs : job[k].goal = c.goal /\ job[k].kind = "report"} \cup {0} :
             Answered(i, [OkJob(k, IF k = 0 THEN "none" ELSE job[k].status, c.goal, Reported(c.goal))
                            EXCEPT !.list = [NoGoals EXCEPT ![c.goal] = "FAILED"]])
     \/ /\ Mine(c, c.goal) /\ goal[c.goal] # "FAILED" /\ UNCHANGED server
        /\ Answered(i, [OkJob(0, "none", c.goal, FALSE) EXCEPT !.list = [NoGoals EXCEPT ![c.goal] = goal[c.goal]]])
     \/ ~Mine(c, c.goal) /\ Refuse(i)

ServeNewGoal(i) ==
  LET c == calls[i]
      g == Next1(NewGoals)
  IN
  /\ \/ Serve(i, "create")
     \/ Serve(i, "restart") /\ Mine(c, c.goal) /\ goal[c.goal] = "FAILED"
  /\ c.token \in live /\ NewGoals # {}
  /\ goal' = [goal EXCEPT ![g] = "DRAFT"]
  /\ owner' = [owner EXCEPT ![g] = c.token]
  /\ Answered(i, Ok(g, "DRAFT"))
  /\ UNCHANGED <<live, job>>
RefuseNewGoal(i) ==
  LET c == calls[i] IN
  /\ \/ Serve(i, "create") /\ (c.token \notin live \/ NewGoals = {})
     \/ Serve(i, "restart") /\ (~Mine(c, c.goal) \/ goal[c.goal] # "FAILED" \/ NewGoals = {})
  /\ Refuse(i)

\* A goal that is deleted takes its jobs with it: they are no longer found.
ServeDelete(i) ==
  LET c == calls[i] IN
  /\ Serve(i, "delete")
  /\ IF Mine(c, c.goal)
     THEN goal' = [goal EXCEPT ![c.goal] = "deleted"] /\ Answered(i, Ok(c.goal, "deleted")) /\ UNCHANGED <<live, owner, job>>
     ELSE Refuse(i)

ServeCancel(i) ==
  LET c == calls[i]
      g == job[c.job].goal
  IN
  /\ Serve(i, "cancel")
  /\ IF ~JobOf(c) THEN Refuse(i)
     ELSE IF job[c.job].status = "QUEUED"
     THEN /\ job' = [job EXCEPT ![c.job].status = "CANCELLED"]
          /\ goal' = [goal EXCEPT ![g] = IF @ = "GENERATING" THEN "GENERATION_FAILED"
                                         ELSE IF @ = "REPLANNING" THEN "ACTIVE" ELSE @]
          /\ Answered(i, OkJob(c.job, "CANCELLED", g, FALSE)) /\ UNCHANGED <<live, owner>>
     ELSE Answered(i, OkJob(c.job, job[c.job].status, g, FALSE)) /\ UNCHANGED server

ServeAccount(i) ==
  LET c == calls[i] IN
  \/ Serve(i, "signin") /\ live' = live \cup {c.token} /\ Answered(i, Ok(0, "none")) /\ UNCHANGED <<goal, owner, job>>
  \/ Serve(i, "leave") /\ live' = live \ {c.token} /\ Answered(i, Ok(0, "none")) /\ UNCHANGED <<goal, owner, job>>

\* A worker takes a job and ends it.
Work(j) ==
  LET g == job[j].goal
      plan == job[j].kind = "plan"
      status(s) == job' = [job EXCEPT ![j].status = s]
      to(a, b) == goal' = [goal EXCEPT ![g] = IF plan /\ @ = "GENERATING" THEN a
                                              ELSE IF plan /\ @ = "REPLANNING" THEN b ELSE @]
  IN
  /\ \/ job[j].status = "QUEUED" /\ status("RUNNING") /\ UNCHANGED goal
     \/ job[j].status = "RUNNING" /\ status("SUCCEEDED") /\ to("WAITING_CONFIRMATION", "WAITING_CONFIRMATION")
     \/ job[j].status = "RUNNING" /\ status("FAILED") /\ to("GENERATION_FAILED", "ACTIVE")
  /\ UNCHANGED <<live, owner, scene, stored, ui, calls, crossed, latest, taken, torn, acts, faults>>
-----------------------------------------------------------------------------
(* The client's answers.  got is what arrives: the answer, or an error.     *)

Refreshed(u, c, got) ==
  LET sel == IF c.pref # 0 /\ got.list[c.pref] # "none" THEN c.pref
             ELSE IF c.sel = 0 \/ got.list[c.sel] = "none" THEN getDefaultGoalId(got.list) ELSE u.sel
  IN [u EXCEPT !.list = got.list, !.of = c.token, !.sel = sel]
Tracked(u, j, s) == [u EXCEPT !.tracked = [job |-> j, status |-> s]]
\* A goal in an answer replaces the one that is shown.
Put(u, c, g, s) == [u EXCEPT !.list[g] = s, !.of = c.token, !.created = [goal |-> g, status |-> s], !.sel = g]
Show(u, ps, g) == [u EXCEPT !.panel = [p \in Panels |-> IF p \in ps THEN g ELSE @[p]]]

\* What the handlers do once the list or the day's data they wait for is there, or is not.
AfterSettling(u, c) ==
  LET t == IF c.res.job # 0 THEN Tracked(u, c.res.job, c.res.status) ELSE u
      failed == c.res.list[c.res.goal] = "FAILED"
      r == IF c.res.ready THEN Show(t, {"report"}, c.res.goal)
           ELSE IF failed THEN Show(t, {"report"}, 0) ELSE t
  IN Done([r EXCEPT !.page = IF failed THEN "failure" ELSE @], "settle")
After(u, c) ==
  CASE c.then = "settled" -> AfterSettling(u, c)
    [] c.then = "restarted" -> Done([u EXCEPT !.created = [goal |-> c.res.goal, status |-> "DRAFT"], !.page = "plan"], "restart")
    [] c.then = "created" -> Done([u EXCEPT !.page = "goals"], "create")
    [] c.then = "deleted" -> [u EXCEPT !.page = "create"]
    [] c.then = "confirmed" -> Done([u EXCEPT !.page = "today"], "confirm")
    [] OTHER -> u

\* An answer to request i that its handler takes; the answer may be lost on the way.
Takes(i, ops, got) ==
  LET c == calls[i] IN
  /\ i \in DOMAIN calls /\ c.op \in ops
  /\ \/ c.at = "back" /\ got = c.got /\ UNCHANGED faults
     \/ c.op \in Reads /\ got.ok \in Found(c) /\ UNCHANGED faults
     \/ ~got.ok /\ faults < scene.maxFaults /\ faults' = faults + 1
  /\ UNCHANGED <<scene, server, acts>>
Without(i) == RemoveAt(calls, i)
Tears(c, got) == ~got.ok /\ c.op \in {"me", "signin", "list", "plan", "daily"}
Local(i, got) == torn' = (torn \/ Tears(calls[i], got)) /\ UNCHANGED <<stored, latest, taken>>

ListArrives(i, got) ==
  LET c == calls[i]
      v == After(IF got.ok THEN Refreshed(ui, c, got) ELSE ui, c)
  IN
  /\ Takes(i, {"list"}, got)
  /\ Step(v, Without(i), <<>>)
  /\ latest' = IF c.then = "settled" /\ c.res.job # 0 THEN c.res.job ELSE latest
  /\ torn' = (torn \/ Tears(c, got))
  /\ UNCHANGED <<stored, taken>>

\* Without a goal asked for, health is loaded for some goal with a task today.
DailyArrives(i, got) ==
  LET c == calls[i]
      goals == IF c.goal # 0 THEN {c.goal} ELSE IF c.pref # 0 THEN {c.pref}
               ELSE {0} \cup {g \in Goals : goal[g] = "ACTIVE" /\ owner[g] = c.token}
  IN
  /\ Takes(i, {"daily"}, got)
  /\ IF ~got.ok THEN Step(After(ui, c), Without(i), <<>>)
     ELSE \E g \in goals : Step(After(Show(ui, {"health", "artifacts"}, g), c), Without(i), <<>>)
  /\ Local(i, got)

PanelArrives(i, got) ==
  LET c == calls[i]
      ps == IF c.op = "trend" THEN {"artifacts"} ELSE {c.op}
  IN
  /\ Takes(i, {"board", "report", "trend"}, got)
  /\ Step(Done(IF got.ok THEN Show(ui, ps, c.goal) ELSE ui, c.op), Without(i), <<>>)
  /\ Local(i, got)

\* loadGoalPlan; a milestone's completion loads the plan and then the day's data.
PlanArrives(i, got) ==
  LET c == calls[i] IN
  /\ Takes(i, {"plan"}, got)
  /\ Step(IF got.ok THEN [ui EXCEPT !.plan = c.goal] ELSE ui, Without(i),
          IF c.then = "milestone" THEN <<[c EXCEPT !.op = "daily", !.then = "none"]>> ELSE <<>>)
  /\ Local(i, got)
Reloads(i, got) ==
  LET c == calls[i]
      again == [c EXCEPT !.op = IF c.op = "card" THEN "board" ELSE "plan",
                         !.then = IF c.op = "card" THEN "none" ELSE "milestone"]
  IN
  /\ Takes(i, {"card", "milestone"}, got)
  /\ Step(ui, Without(i), IF got.ok THEN <<again>> ELSE <<>>)
  /\ Local(i, got)


\* What a job's success has the client load.
Success(c, g, kind) ==
  IF kind = "report" THEN <<Ask(ui, "report", g)>>
  ELSE <<AskList(ui, g, c.sel, "none")>> \o (IF c.sel \in {0, g} THEN <<Ask(ui, "plan", g)>> ELSE <<>>)

\* The first answer that shows a job's success loads what the job has made.
PollArrives(i, got) ==
  LET c == calls[i]
      made == got.ok /\ got.status = "SUCCEEDED"
  IN
  /\ Takes(i, {"poll"}, got)
  /\ Step(IF got.ok THEN Tracked(ui, c.job, got.status) ELSE ui, Without(i),
          IF made THEN Success(c, got.goal, job[c.job].kind) ELSE <<>>)
  /\ Local(i, got)

\* The buttons' answers are taken whatever is tracked by then.
JobArrives(i, got) ==
  LET c == calls[i]
      v == IF got.ok THEN Tracked(ui, c.job, got.status) ELSE ui
  IN
  /\ Takes(i, {"refresh", "cancel"}, got)
  /\ Step(Done(v, c.op), Without(i),
          IF got.ok /\ c.op = "cancel" THEN <<[AskList(ui, got.goal, c.sel, "none") EXCEPT !.token = c.token]>> ELSE <<>>)
  /\ taken' = IF got.ok THEN taken \cup {c.job} ELSE taken
  /\ UNCHANGED <<stored, latest, torn>>

GenerateArrives(i, got) ==
  LET c == calls[i]
      g == got.goal
      v == [Tracked(Put(ui, c, g, got.list[g]), got.job, got.status) EXCEPT
              !.plan = IF got.ready THEN g ELSE 0,
              !.page = IF got.ready \/ c.op = "replan" THEN "plan" ELSE @]
  IN
  /\ Takes(i, {"generate", "replan"}, got)
  /\ Step(Done(IF got.ok THEN v ELSE ui, c.op), Without(i), <<>>)
  /\ latest' = IF got.ok THEN got.job ELSE latest
  /\ UNCHANGED <<stored, taken, torn>>

ConfirmArrives(i, got) ==
  LET c == calls[i]
      g == got.goal
  IN
  /\ Takes(i, {"confirm"}, got)
  /\ IF got.ok THEN Step([Put(ui, c, g, got.status) EXCEPT !.plan = g], Without(i),
                         <<[c EXCEPT !.op = "daily", !.at = "sent", !.goal = g, !.then = "confirmed", !.got = NoAnswer]>>)
     ELSE Step(Done(ui, "confirm"), Without(i), <<>>)
  /\ Local(i, got)

\* The answers after which the list is loaded, and the handler goes on when it is there.
RefreshArrives(i, got) ==
  LET c == calls[i]
      g == got.goal
      mine == c.job # 0 /\ job[c.job].goal = g
      list(pref, then) == <<[AskList(ui, pref, c.sel, then) EXCEPT !.token = c.token, !.res = got]>>
      create == [ui EXCEPT !.created = [goal |-> g, status |-> "DRAFT"], !.sel = g, !.plan = 0]
      delete == [Show(ui, {"board", "report", "health"}, 0) EXCEPT
                   !.created = [goal |-> 0, status |-> "none"], !.plan = 0, !.sel = 0,
                   !.tracked = IF mine THEN NoJob ELSE @]
  IN
  /\ Takes(i, {"create", "delete", "settle", "restart"}, got)
  /\ IF ~got.ok THEN Step(Done(ui, c.op), Without(i), <<>>)
     ELSE CASE c.op = "create" -> Step(create, Without(i), list(g, "created"))
            [] c.op = "delete" -> Step(delete, Without(i), list(0, "deleted"))
            [] c.op = "settle" -> Step(ui, Without(i), list(g, "settled"))
            [] c.op = "restart" -> Step(ui, Without(i), list(g, "restarted"))
  /\ Local(i, got)

MeArrives(i, got) ==
  LET c == calls[i] IN
  /\ Takes(i, {"me"}, got)
  /\ Step(IF got.ok THEN [ui EXCEPT !.session = c.token] ELSE ui, Without(i), <<>>)
  /\ stored' = IF got.ok THEN stored ELSE 0
  /\ torn' = (torn \/ Tears(c, got))
  /\ UNCHANGED <<latest, taken>>
handleAuthenticated(i, got) ==
  LET c == calls[i] IN
  /\ Takes(i, {"signin"}, got)
  /\ Step(Done(IF got.ok THEN [ui EXCEPT !.session = c.token, !.page = "create"] ELSE ui, "auth"), Without(i), <<>>)
  /\ stored' = IF got.ok THEN c.token ELSE stored
  /\ UNCHANGED <<latest, taken, torn>>
\* The token stays stored.
AccountDeleted(i, got) ==
  /\ Takes(i, {"leave"}, got)
  /\ Step(IF got.ok THEN [ui EXCEPT !.session = 0, !.tracked = NoJob, !.page = "account"] ELSE ui, Without(i), <<>>)
  /\ torn' = (torn \/ (got.ok /\ Len(calls) > 1))
  /\ UNCHANGED <<stored, latest, taken>>
-----------------------------------------------------------------------------
ClientInit ==
  /\ scene \in Scenes
  /\ live = {1} /\ goal = scene.goal /\ owner = scene.owner
  /\ job = [j \in Jobs |-> [goal |-> 0, kind |-> "none", status |-> "none"]]
  /\ stored = scene.stored
  /\ ui = Fresh(scene.page)
  /\ calls = IF stored = 0 THEN <<>> ELSE <<[Ask(ui, "me", 0) EXCEPT !.token = stored]>>
  /\ crossed = {} /\ latest = 0 /\ taken = {} /\ torn = FALSE
  /\ acts = 0 /\ faults = 0

User ==
  \/ \E g \in Goals : Select(g)
  \/ \E p \in Pages : setActivePage(p)
  \/ handleGeneratePlan \/ handleRequestReplan \/ handleConfirmPlan \/ handleSettleSelectedGoal
  \/ handleRestartGoal \/ handleCreateGoal \/ handleDeleteSelectedGoal \/ EditRewards
  \/ handleSetMilestoneCompletion \/ handleGenerateReportArtifact \/ LoadPanel
  \/ handleRefreshTrackedAiJob \/ handleCancelTrackedAiJob
  \/ SignIn(2) \/ handleDeleteCurrentAccount \/ Reload

Served(i) ==
  \/ ServeReads(i) \/ ServeConfirm(i) \/ ServeSettle(i) \/ ServeNewGoal(i) \/ RefuseNewGoal(i)
  \/ ServePlan(i, "generate", {"DRAFT", "GENERATION_FAILED", "WAITING_CONFIRMATION"}, "GENERATING")
  \/ ServePlan(i, "replan", {"ACTIVE"}, "REPLANNING")
  \/ ServeDelete(i) \/ ServeCancel(i) \/ ServeAccount(i)

Arrives(i) ==
  \E got \in {calls[i].got, NoAnswer, Ok(0, "none")} :
    \/ ListArrives(i, got) \/ DailyArrives(i, got) \/ PanelArrives(i, got) \/ PlanArrives(i, got)
    \/ Reloads(i, got) \/ PollArrives(i, got) \/ JobArrives(i, got) \/ GenerateArrives(i, got)
    \/ ConfirmArrives(i, got) \/ RefreshArrives(i, got) \/ MeArrives(i, got)
    \/ handleAuthenticated(i, got) \/ AccountDeleted(i, got)

ClientNext ==
  \/ User
  \/ pollTrackedAiJob
  \/ \E i \in DOMAIN calls : Served(i) \/ Arrives(i)
  \/ \E j \in Jobs : Work(j)

ClientSpec == ClientInit /\ [][ClientNext]_clientVars

\* The oldest request is answered in the end (a request can always be: weak fairness of it
\* says that there is none again and again, or the oldest moves), the interval fires,
\* workers work.
OldestMoves == calls # <<>> /\ (calls' = <<>> \/ calls'[1] # calls[1])
Answering == []<>(calls = <<>>) \/ []<><<OldestMoves>>_calls
FairSpec == ClientSpec /\ Answering /\ WF_calls(pollTrackedAiJob) /\ \A j \in Jobs : WF_job(Work(j))
-----------------------------------------------------------------------------
ClientTypeOK ==
  /\ live \subseteq Tokens /\ goal \in [Goals -> GoalStatus] /\ owner \in [Goals -> Tokens \cup {0}]
  /\ job \in [Jobs -> [goal : Goals \cup {0}, kind : {"none", "plan", "report"}, status : JobStatus]]
  /\ stored \in Tokens \cup {0}
  /\ ui \in [session : Tokens \cup {0}, page : Pages, sel : Goals \cup {0}, list : [Goals -> GoalStatus],
             of : Tokens \cup {0}, created : [goal : Goals \cup {0}, status : GoalStatus], plan : Goals \cup {0},
             panel : [Panels -> Goals \cup {0}], tracked : [job : Jobs \cup {0}, status : JobStatus],
             busy : SUBSET Flags]
  /\ crossed \subseteq Panels /\ latest \in Jobs \cup {0} /\ taken \subseteq Jobs

\* What the panels show is of the goal that is selected (rewards, the failure report, trend
\* reports, health), once their loads are over: unless a load for another goal was under way
\* when the selection moved, or one that the client needs has failed (App.tsx:1522, 2132).
ShownIsSelected ==
  ClientTypeOK /\ \A p \in Panels :
    ui.sel # 0 /\ ui.panel[p] \notin {0, ui.sel} /\ p \notin Filling(calls) => p \in crossed \/ torn

\* The session in use is the one stored for the next visit, and the goals listed are its
\* account's.  Claimed only until (torn) a sign-in has met a restoring, an account was deleted
\* with answers under way (App.tsx:1447, AuthPanel.tsx:29, App.tsx:2281), or an answer to a
\* sign-in, a restoring or a list was lost.
AccountAgrees ==
  ~torn => /\ ui.session # 0 => stored = ui.session
           /\ ui.of \in {0, ui.session}
           /\ \A g \in Goals : Shows(ui, g) => owner[g] = ui.session

\* The answer by which a handler follows a job: of a generation, of a re-planning, or of a
\* settlement, whose list has come.
ShowsJob(c, tracked) ==
  \/ c.op \in {"generate", "replan"} /\ tracked = [job |-> c.got.job, status |-> c.got.status]
  \/ c.op = "list" /\ c.then = "settled" /\ tracked = [job |-> c.res.job, status |-> c.res.status]

\* What is shown of a job changes in three ways only.  A generation, a re-planning or a
\* settlement shows the job of its own answer, which is then the last one asked for: that
\* of a settlement is as old as the list it has waited for, so the same report's job may
\* be shown RUNNING again after SUCCEEDED (App.tsx:3206, 3215).  A button's answer is taken
\* whenever it comes (App.tsx:2449).  And the polling goes on with the job that is followed,
\* only while it is shown as running: no answer to an earlier polling, of this job or of
\* another, is taken (App.tsx:1612).
TrackingHolds ==
  [][LET old == ui.tracked
         new == ui'.tracked
         byButton == {"refresh", "cancel"} \cap (ui.busy \ ui'.busy) # {}
     IN new # old /\ new # NoJob =>
          \/ byButton
          \/ new.job = latest' /\ \E i \in DOMAIN calls : ShowsJob(calls[i], new)
          \/ new.job = old.job /\ old.status \in activeAiJobStatuses]_clientVars

=============================================================================
