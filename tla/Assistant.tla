----------------------------- MODULE Assistant -----------------------------
(***************************************************************************)
(* The assistant that helps to state a goal: the form of the web client's  *)
(* creation page (web/src/App.tsx) and the drafts and goals behind it      *)
(* (goals/goals.service.ts).                                               *)
(*                                                                         *)
(* A handler of the page builds its request from the form as it was when   *)
(* the button was pressed, and the answer fills the form again.  The       *)
(* server reads a draft, merges what was sent and writes the row; a goal   *)
(* is made between that read and that write.                               *)
(*                                                                         *)
(* Four fields stand for the form: a title that is derived when empty, a   *)
(* number, a text that may be missing and a date; a description long       *)
(* enough is always there.                                                 *)
(***************************************************************************)
EXTENDS Integers, FiniteSets

CONSTANTS
  MaxDrafts, MaxGoals,
  Typed,      \* [Fields -> set of texts]: what the user types
  Begun,      \* the forms a behaviour begins with: what was typed before
  Suggested,  \* the dates the model finds in a description
  Questions,  \* those of the analysis
  MaxActs, MaxFailures

Drafts == 1..MaxDrafts
GoalIds == 1..MaxGoals
Fields == {"title", "budget", "note", "end"}
Dates == {"past", "soon", "later", "in 90 days"}

\* Nobody types what stands for a missing field or a missing value; a date is chosen.
ASSUME AssistantAssumption ==
  /\ {MaxDrafts, MaxGoals, MaxActs, MaxFailures} \subseteq Nat
  /\ DOMAIN Typed = Fields /\ \A f \in Fields : {"absent", "null"} \cap Typed[f] = {}
  /\ Typed["end"] \subseteq Dates \cup {""} /\ Suggested \subseteq Dates
  /\ Begun \subseteq {form \in [Fields -> (UNION {Typed[f] : f \in Fields}) \cup {""}] :
                        \A f \in Fields : form[f] \in Typed[f] \cup {""}}

VARIABLES
  draft,    \* [Drafts -> DraftRow]
  newest,   \* the draft that was updated last, 0 when there is none
  made,     \* [GoalIds -> GoalRow]
  page,     \* the page's state
  calls,    \* the requests under way
  crossed,  \* drafts with two requests on them at once
  saved,    \* what the save written last held, once it was answered with no other under way
  acts, failures

formVars == <<draft, newest, made, page, calls, crossed, saved, acts, failures>>
-----------------------------------------------------------------------------
(* Conversions of the form, on their way to the server and back.            *)

EmptyForm == [f \in Fields |-> ""]
Silent == [q \in Questions |-> ""]
NoDraft == [status |-> "none", form |-> EmptyForm, answers |-> Silent, accepted |-> {}, goal |-> 0]
NoGoal == [status |-> "none", draft |-> 0, form |-> EmptyForm, wanted |-> EmptyForm]
NoSave == [draft |-> 0, form |-> EmptyForm, answers |-> Silent, accepted |-> {}]
Blank == [form |-> EmptyForm, draft |-> 0, answers |-> Silent, accepted |-> {}, busy |-> {}]

\* The dates an analysis may find: by the rules none, by the model those it is sure of; when the
\* model fails the fallback has none.
analyzeGoal == {"null"} \cup Suggested
fallbackGoalIntakeAnalysis == "null"
analyzeGoalIntakeSafely == analyzeGoal \cup {fallbackGoalIntakeAnalysis}

\* For an analysis what is filled in is sent.
Filled(form) == [f \in Fields |-> IF form[f] = "" THEN "absent" ELSE form[f]]

\* Mutant of EveryField: what is empty is left out.
EveryFilledField(form) == [f \in Fields |-> IF form[f] = "" THEN "absent" ELSE form[f]]
\* For a save every field is, an empty number or text as null.
EveryField(form) == [f \in Fields |-> IF form[f] = "" /\ f \in {"budget", "note"} THEN "null" ELSE form[f]]

\* For a creation what is filled in, and the date as it is.
buildGoalCreatePayload(form) ==
  [f \in Fields |-> IF form[f] = "" /\ f # "end" THEN "absent" ELSE form[f]]

\* On the server null is the number 0 and the empty text.
mergeGoalIntakeFormDraft(current, body) ==
  [f \in Fields |-> IF body[f] = "absent" \/ (f = "end" /\ body[f] \notin Dates) THEN current[f]
                    ELSE IF f # "end" /\ body[f] = "null" THEN IF f = "budget" THEN "0" ELSE ""
                    ELSE body[f]]

buildGoalIntakeFormDraft(date, body) ==
  mergeGoalIntakeFormDraft([title |-> "derived", budget |-> "null", note |-> "null",
                            end |-> IF date = "null" THEN "in 90 days" ELSE date], body)

applyGoalIntakeDraftToForm(form, sent) ==
  [f \in Fields |-> IF sent[f] = (IF f \in {"title", "end"} THEN "" ELSE "null") THEN form[f] ELSE sent[f]]

\* What a goal is made from, unless it is refused.
parseCreateGoalPayload(form) ==
  [f \in Fields |-> IF f = "end" \/ form[f] \notin {"", "absent"} THEN form[f]
                    ELSE IF f = "title" THEN "derived" ELSE "null"]
Refused(form) == form.budget = "0" \/ form.end \notin Dates \ {"past"}
-----------------------------------------------------------------------------
(* The page.                                                                *)

\* Mutant of Shown: the fields accepted stay as they are.
ShownWithoutAccepted(p, d, row) ==
  [p EXCEPT !.draft = d, !.answers = row.answers, !.form = applyGoalIntakeDraftToForm(@, row.form)]
\* setGoalAssistantDraftState: an answer's draft replaces what is shown.
Shown(p, d, row) ==
  [p EXCEPT !.draft = d, !.accepted = row.accepted, !.answers = row.answers,
            !.form = applyGoalIntakeDraftToForm(@, row.form)]

\* A request: what the handler closed over, its flag, and what the server has found.
Ask(op, d, form, accepted, busy) ==
  [op |-> op, at |-> "sent", draft |-> d, form |-> form, answers |-> page.answers,
   accepted |-> accepted, busy |-> busy, row |-> NoDraft, goal |-> 0, live |-> TRUE]
Restoring == [Ask("latest", 0, EmptyForm, {}, {}) EXCEPT !.answers = Silent]

Touching(d) == {c \in calls : c.draft = d \/ c.op \in {"analyze", "latest"}}
Send(c, p) ==
  /\ acts < MaxActs
  /\ c.busy \cap page.busy = {}
  /\ acts' = acts + 1
  /\ calls' = calls \cup {c}
  /\ page' = [p EXCEPT !.busy = @ \cup c.busy]
  /\ crossed' = crossed \cup (CASE c.op = "plain" -> {}
                               [] c.op = "save" -> IF Touching(c.draft) = {} THEN {} ELSE {c.draft}
                               [] OTHER -> {k.draft : k \in calls} \ {0})
  /\ saved' = IF c.op \in {"save", "analyze"} THEN NoSave ELSE saved
  /\ UNCHANGED <<draft, newest, made, failures>>

Edit(p) ==
  /\ acts < MaxActs
  /\ acts' = acts + 1
  /\ page' = p
  /\ UNCHANGED <<draft, newest, made, calls, crossed, saved, failures>>
updateGoalField(f, text) == page.form[f] # text /\ Edit([page EXCEPT !.form[f] = text])
updateGoalAssistantAnswer(q) ==
  page.draft # 0 /\ page.answers[q] = "" /\ Edit([page EXCEPT !.answers[q] = "said"])

handleAnalyzeGoalIntake == Send(Ask("analyze", 0, page.form, {}, {"analyze"}), page)
loadLatestGoalIntakeDraft == Send(Restoring, page)

saveGoalAssistantState(accepted, busy) ==
  /\ page.draft # 0
  /\ Send(Ask("save", page.draft, page.form, accepted, busy), [page EXCEPT !.accepted = accepted])
handleSaveGoalAssistantState == saveGoalAssistantState(page.accepted, {"save"})
handleAcceptGoalAssistantField(f) ==
  f \notin page.accepted /\ saveGoalAssistantState(page.accepted \cup {f}, {})
handleCreateGoalFromAssistant == saveGoalAssistantState(page.accepted, {"create"})

\* The form's own button; the browser asks for a date and for no number or one above 0.
handleCreateGoal ==
  page.form.end # "" /\ page.form.budget # "0" /\ Send(Ask("plain", 0, page.form, {}, {"create"}), page)

\* A new page restores the session and with it the newest draft.
Reload ==
  /\ acts < MaxActs
  /\ calls' = {[c EXCEPT !.live = FALSE] : c \in calls} \cup {Restoring}
  /\ crossed' = crossed \cup ({c.draft : c \in calls} \ {0})
  /\ page' = Blank
  /\ acts' = acts + 1
  /\ UNCHANGED <<draft, newest, made, saved, failures>>
-----------------------------------------------------------------------------
(* The server.                                                              *)

Moves(c, d) == calls' = (calls \ {c}) \cup {d}
Writes(c, row) ==
  /\ draft' = [draft EXCEPT ![c.draft] = row]
  /\ newest' = c.draft
  /\ Moves(c, [c EXCEPT !.at = "done", !.row = row])
  /\ UNCHANGED made
Unused(rows) == {i \in DOMAIN rows : rows[i].status = "none" /\ \A j \in 1..(i - 1) : rows[j].status # "none"}

createGoalIntakeDraft(c) ==
  /\ c.op = "analyze" /\ c.at = "sent"
  /\ \E d \in Unused(draft), date \in analyzeGoalIntakeSafely :
       LET row == [NoDraft EXCEPT !.status = "ANALYZED", !.form = buildGoalIntakeFormDraft(date, Filled(c.form))]
       IN /\ draft' = [draft EXCEPT ![d] = row]
          /\ newest' = d
          /\ Moves(c, [c EXCEPT !.at = "done", !.draft = d, !.row = row])
  /\ UNCHANGED made

getLatestGoalIntakeDraft(c) ==
  /\ c.op = "latest" /\ c.at = "sent"
  /\ Moves(c, IF newest = 0 THEN [c EXCEPT !.at = "done"]
              ELSE [c EXCEPT !.at = "done", !.draft = newest, !.row = draft[newest]])
  /\ UNCHANGED <<draft, newest, made>>

getOwnedGoalIntakeDraft(c) ==
  /\ c.op \in {"save", "create"} /\ c.at = "sent"
  /\ Moves(c, [c EXCEPT !.at = "read", !.row = draft[c.draft]])
  /\ UNCHANGED <<draft, newest, made>>

\* Mutant of Updated: the answers that were saved first stay.
UpdatedWithoutAnswers(row, c) ==
  [row EXCEPT !.form = mergeGoalIntakeFormDraft(c.row.form, EveryField(c.form)), !.accepted = c.accepted,
              !.status = IF "create" \in c.busy THEN "READY_TO_CREATE" ELSE "EDITING"]
Updated(row, c) ==
  [row EXCEPT !.form = mergeGoalIntakeFormDraft(c.row.form, EveryField(c.form)), !.accepted = c.accepted,
              !.answers = c.answers,
              !.status = IF "create" \in c.busy THEN "READY_TO_CREATE" ELSE "EDITING"]

updateGoalIntakeDraft(c) ==
  c.op = "save" /\ c.at = "read" /\ Writes(c, Updated(draft[c.draft], c))

\* What a creation is asked for: with a draft, over what the draft holds.
Payload(c) ==
  IF c.op = "plain" THEN buildGoalCreatePayload(c.form)
  ELSE mergeGoalIntakeFormDraft(c.row.form, buildGoalCreatePayload(c.form))
createGoal(c) ==
  /\ <<c.op, c.at>> \in {<<"create", "read">>, <<"plain", "sent">>}
  /\ IF Refused(Payload(c)) THEN Moves(c, [c EXCEPT !.at = "failed"]) /\ UNCHANGED made
     ELSE \E g \in Unused(made) :
            /\ made' = [made EXCEPT ![g] = [status |-> "DRAFT", draft |-> c.draft, wanted |-> c.form,
                                            form |-> parseCreateGoalPayload(Payload(c))]]
            /\ Moves(c, [c EXCEPT !.at = IF c.op = "plain" THEN "done" ELSE "made", !.goal = g])
  /\ UNCHANGED <<draft, newest>>

createGoalFromIntakeDraft(c) ==
  c.at = "made" /\ Writes(c, [draft[c.draft] EXCEPT !.status = "GOAL_CREATED", !.goal = c.goal])

Serve(c) ==
  /\ \/ createGoalIntakeDraft(c) \/ getLatestGoalIntakeDraft(c) \/ getOwnedGoalIntakeDraft(c)
     \/ updateGoalIntakeDraft(c) \/ createGoal(c) \/ createGoalFromIntakeDraft(c)
  /\ UNCHANGED <<page, crossed, saved, acts, failures>>

\* The server's process dies on a request, or its answer is lost.
Fails(c) ==
  /\ failures < MaxFailures /\ c.at # "failed"
  /\ Moves(c, [c EXCEPT !.at = "failed"])
  /\ failures' = failures + 1
  /\ UNCHANGED <<draft, newest, made, page, crossed, saved, acts>>
-----------------------------------------------------------------------------
(* Answers.                                                                 *)

\* A draft saved for a creation is made a goal of, with the form as the button found it.
Follows(c) == IF c.op = "save" /\ "create" \in c.busy
            THEN {[c EXCEPT !.op = "create", !.at = "sent", !.row = NoDraft]} ELSE {}

Dropped(c) ==
  /\ ~c.live \/ c.at = "failed"
  /\ calls' = calls \ {c}
  /\ page' = IF c.live THEN [page EXCEPT !.busy = @ \ c.busy] ELSE page
  /\ UNCHANGED saved

Answered(c) ==
  /\ c.live /\ c.at = "done"
  /\ calls' = (calls \ {c}) \cup Follows(c)
  /\ LET p == IF Follows(c) = {} THEN [page EXCEPT !.busy = @ \ c.busy] ELSE page
     IN page' = IF c.draft = 0 THEN p ELSE Shown(p, c.draft, c.row)
  /\ saved' = IF c.op # "save" THEN saved
              ELSE IF newest # c.draft \/ \E k \in calls \ {c} : k.op \in {"save", "create"} THEN NoSave
              ELSE [draft |-> c.draft, form |-> c.form, answers |-> c.answers, accepted |-> c.accepted]

Arrives(c) == /\ c.at \in {"done", "failed"}
              /\ Dropped(c) \/ Answered(c)
              /\ UNCHANGED <<draft, newest, made, crossed, acts, failures>>
-----------------------------------------------------------------------------
FormInit ==
  /\ draft = [d \in Drafts |-> NoDraft] /\ newest = 0
  /\ made = [g \in GoalIds |-> NoGoal]
  /\ page \in {[Blank EXCEPT !.form = form] : form \in Begun} /\ calls = {} /\ crossed = {} /\ saved = NoSave
  /\ acts = 0 /\ failures = 0

Act ==
  \/ \E f \in Fields : \E text \in Typed[f] : updateGoalField(f, text)
  \/ \E q \in Questions : updateGoalAssistantAnswer(q)
  \/ handleAnalyzeGoalIntake \/ loadLatestGoalIntakeDraft \/ Reload
  \/ handleSaveGoalAssistantState \/ \E f \in Fields : handleAcceptGoalAssistantField(f)
  \/ handleCreateGoalFromAssistant \/ handleCreateGoal

FormNext == Act \/ \E c \in calls : Serve(c) \/ Fails(c) \/ Arrives(c)

FormSpec == FormInit /\ [][FormNext]_formVars
-----------------------------------------------------------------------------
Texts == (UNION {Typed[f] : f \in Fields}) \cup Dates \cup {"", "0", "null", "derived"}
FormTexts == [Fields -> Texts]
Answers == [Questions -> {"", "said"}]
DraftRow == [status : {"none", "ANALYZED", "EDITING", "READY_TO_CREATE", "GOAL_CREATED"},
             form : FormTexts, answers : Answers, accepted : SUBSET Fields, goal : GoalIds \cup {0}]
GoalRow == [status : {"none", "DRAFT"}, draft : Drafts \cup {0}, form : FormTexts, wanted : FormTexts]
Flags == {"analyze", "save", "create"}
Call == [op : {"analyze", "latest", "save", "create", "plain"}, at : {"sent", "read", "made", "done", "failed"},
         draft : Drafts \cup {0}, form : FormTexts, answers : Answers, accepted : SUBSET Fields,
         busy : SUBSET Flags, row : DraftRow, goal : GoalIds \cup {0}, live : BOOLEAN]
\* The types of the rows, of the page and of its requests.
FormTypeOK ==
  /\ draft \in [Drafts -> DraftRow] /\ newest \in Drafts \cup {0}
  /\ made \in [GoalIds -> GoalRow]
  /\ page \in [form : FormTexts, draft : Drafts \cup {0}, answers : Answers, accepted : SUBSET Fields, busy : SUBSET Flags]
  /\ calls \subseteq Call /\ crossed \subseteq Drafts
  /\ saved \in [draft : Drafts \cup {0}, form : FormTexts, answers : Answers, accepted : SUBSET Fields]
  /\ acts \in 0..MaxActs /\ failures \in 0..MaxFailures

\* A goal holds what the form showed when its button was pressed: what was typed, what the
\* analysis proposed and the user left, and nothing where the user has emptied a field, though
\* the page saves the draft first and sends the form again over it.  Two requests on one draft
\* at once may mix what they write.
GoalIsForm ==
  /\ FormTypeOK
  /\ \A g \in GoalIds : made[g].status # "none" /\ made[g].draft \notin crossed =>
       \A f \in Fields : (f = "end" => made[g].wanted.end # "") =>
         made[g].form[f] = parseCreateGoalPayload(made[g].wanted)[f]

\* A field accepted stays accepted in its draft, through saves, creations, lost answers and
\* reloads: each save replaces the whole list by what the page knows.  Not so when two requests
\* are on the draft at once: two acceptances in a row may arrive the later one first, and then
\* the earlier one's list, without the later field, is what stays.
AcceptedKept ==
  [][\A d \in Drafts : d \notin crossed' => draft[d].accepted \subseteq draft'[d].accepted]_draft

\* What stands in a field changes by the user's hand, by restoring a draft, or by an answer to a
\* request sent before it was typed: an analysis, a save and a creation give back what they were sent.
TypedKept ==
  [][\A f \in Fields : page.form[f] # "" /\ page'.form[f] # page.form[f] =>
       \/ acts' # acts
       \/ \E c \in calls \ calls' : c.op = "latest" \/ c.draft \in crossed \/ c.form # page.form]_page

\* What a restored draft shows in a field: what its form held when it was saved.  Not so where a
\* field was emptied (PLAN.md:655): a missing number comes back as 0, an empty text as empty, and
\* for a title and a date, which a draft cannot be without, the page keeps the title it shows
\* and gets the date that the draft held before.
Restored(f) ==
  IF saved.form[f] # "" THEN saved.form[f]
  ELSE CASE f = "budget" -> "0" [] f = "note" -> "" [] f = "title" -> page.form["title"]
         [] f = "end" -> draft[saved.draft].form["end"]

\* A draft that is restored is the one saved last, with its answers, its accepted fields and its
\* form; it always has a date.  This is said of a save that was answered while no other save
\* or creation was under way, until the next save or analysis is sent, and of a draft that no
\* two requests were on at once: of two that overlap, either may have been written last.
RestoredIsSaved ==
  [][\A c \in calls : c.op = "latest" /\ c.at = "done" /\ c.live /\ c \notin calls' /\ acts' = acts
                      /\ saved.draft \notin crossed \cup {0} =>
       /\ page'.draft = saved.draft /\ page'.answers = saved.answers /\ page'.accepted = saved.accepted
       /\ \A f \in Fields : page'.form[f] = Restored(f)
       /\ page'.form["end"] \in Dates]_page

\* The user's work is not lost to an answer: neither what was accepted nor what was typed, but
\* on a draft that two requests were on at once, where each writes what it was sent.
WorkKept == AcceptedKept /\ TypedKept
=============================================================================
